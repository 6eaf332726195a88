------------------------------- MODULE Cancel -------------------------------
(***************************************************************************)
(* The commands `cancel` and `wait` against the processes of Coresched     *)
(* (cmd_cancel, cancel_one, cmd_wait in src/main.rs, cancel_job in         *)
(* src/process.rs).                                                        *)
(*                                                                         *)
(* cancel_one is three critical sections with the kill outside of them, so *)
(* everything may happen between two of its steps.  `cancel --all` is one  *)
(* critical section that takes long: it kills one process tree after the   *)
(* other while it holds the lock, and meanwhile only those steps of other  *)
(* processes happen that need no lock.  A user u runs one such command:    *)
(*   at[u]      where it stands                                            *)
(*   victim[u]  the job it names, none for `cancel --all`                  *)
(*   todo[u]    the recorded pids that are still to be cancelled           *)
(*   tree[u]    the snapshot of the process tree that is being killed      *)
(***************************************************************************)
EXTENDS Coresched

CONSTANTS
  Users,      (* who runs cancel or wait, once each                        *)
  Operations  (* what they run: "cancel", "cancel_all", "wait"             *)

ASSUME CancelAssumption == Operations \subseteq {"cancel", "cancel_all", "wait"}

VARIABLES
  at, victim, todo, tree,
  lock,      (* the user whose `cancel --all` holds the lock               *)
  purged,    (* history: jobs whose entry was removed without a kill       *)
  withdrawn  (* history: jobs that were removed from the queue             *)

userVars == <<at, victim, todo, tree, lock, purged, withdrawn>>

Places == {"idle", "queue", "lookup", "next", "term", "kill", "purge", "wait", "done"}

CInit ==
  /\ Init
  /\ at = [u \in Users |-> "idle"]
  /\ victim = [u \in Users |-> {}]
  /\ todo = [u \in Users |-> {}]
  /\ tree = [u \in Users |-> {}]
  /\ lock = {} /\ purged = {} /\ withdrawn = {}

Move(u, place) == at' = [at EXCEPT ![u] = place]

-----------------------------------------------------------------------------
(* Process trees and signals.                                              *)

Exists(p) == IF p[1] = "cmd" THEN cmd[p[2]] = "running" ELSE p \in Procs /\ Live(p)

(* What /proc shows as the children of p: the waiters it forked, for its   *)
(* own job or as a dispatcher, and the command it spawned.  Children of a  *)
(* dead process belong to init.                                            *)
Children(p) ==
  IF ~ Exists(p) THEN {}
  ELSE {Wtr(k) : k \in {i \in Jobs : Live(Wtr(i)) /\ parent[i] = p}}
         \cup {Cmd(k) : k \in {i \in Jobs : cmd[i] = "running" /\ p = Wtr(i)}}

(* collect_process_tree: the root and what is below it, the least set that *)
(* holds the children of the root and of its own members.                  *)
CollectProcessTree(root) ==
  LET closed == {S \in SUBSET ({"wtr", "cmd"} \X Jobs) :
                   \A p \in S \cup {root} : Children(p) \subseteq S}
  IN  {root} \cup {q \in {"wtr", "cmd"} \X Jobs : \A S \in closed : q \in S}

(* A signal ends the processes D.  A command whose waiter lives becomes a  *)
(* zombie, which the waiter reaps.                                         *)
Kill(D) ==
  LET gone(p) == p \in D \/ ~ Live(p)
  IN  /\ pc' = [p \in Procs |-> IF Live(p) /\ p \in D THEN Final(p) ELSE pc[p]]
      /\ taken' = [p \in Procs |-> IF p \in D THEN {} ELSE taken[p]]
      /\ cmd' = [j \in Jobs |->
                   IF cmd[j] = "zombie" \/ (cmd[j] = "running" /\ Cmd(j) \in D)
                   THEN IF gone(Wtr(j)) THEN "gone" ELSE "zombie"
                   ELSE cmd[j]]
      /\ UNCHANGED <<disk, req, pin, mask, parent, faults>>

-----------------------------------------------------------------------------
(* cancel_one.                                                             *)

(* A command names a job whose number its submitter has printed.           *)
Begin(u, operation, j, place) ==
  /\ at[u] = "idle" /\ operation \in Operations /\ j < disk.next
  /\ victim' = [victim EXCEPT ![u] = {j}]
  /\ Move(u, place)
  /\ UNCHANGED <<vars, todo, tree, lock, purged, withdrawn>>

(* First section: a queued job is removed from the queue, and that is all. *)
CancelQueued(u) ==
  /\ at[u] = "queue" /\ lock = {}
  /\ \E found \in {{i \in DOMAIN disk.queued : disk.queued[i].jid \in victim[u]}} :
       \/ \E i \in found :
            /\ \A k \in found : i <= k
            /\ disk' = [disk EXCEPT !.queued = RemoveAt(@, i)]
            /\ withdrawn' = withdrawn \cup victim[u]
            /\ Move(u, "done")
       \/ found = {} /\ Move(u, "lookup") /\ UNCHANGED <<disk, withdrawn>>
  /\ UNCHANGED <<req, pc, taken, cmd, pin, mask, parent, faults>>
  /\ UNCHANGED <<victim, todo, tree, lock, purged>>

(* The entry of a job, first among the running jobs, then the pending.     *)
EntryPid(j) ==
  IF j \in DOMAIN disk.pids THEN disk.pids[j].pid
  ELSE IF j \in DOMAIN disk.pending THEN disk.pending[j].pid ELSE "none"

(* Second section: read the recorded pid.                                  *)
CancelLookup(u) ==
  /\ at[u] = "lookup" /\ lock = {}
  /\ \E j \in victim[u] :
       IF EntryPid(j) = "none"
       THEN Move(u, "purge") /\ UNCHANGED todo
       ELSE Move(u, "next") /\ todo' = [todo EXCEPT ![u] = {<<EntryPid(j), j>>}]
  /\ UNCHANGED <<vars, victim, tree, lock, purged, withdrawn>>

(* Mutant: the entry goes, its resources stay marked.                      *)
CancelPurgeUnfreed(u) ==
  /\ at[u] = "purge" /\ lock = {}
  /\ disk' = [disk EXCEPT !.pids = Without(@, victim[u]),
                          !.pending = Without(@, victim[u])]
  /\ purged' = purged \cup (victim[u] \cap DOMAIN disk.pids)
  /\ Move(u, "done")
  /\ UNCHANGED <<req, pc, taken, cmd, pin, mask, parent, faults>>
  /\ UNCHANGED <<victim, todo, tree, lock, withdrawn>>

(* Third section, for a job without a pid: free it and remove its entry.   *)
(* The entry is not looked at again, whatever has been recorded since.     *)
CancelPurge(u) ==
  /\ at[u] = "purge" /\ lock = {}
  /\ disk' = [FreeJobs(disk, victim[u]) EXCEPT !.pending = Without(@, victim[u])]
  /\ purged' = purged \cup (victim[u] \cap DOMAIN disk.pids)
  /\ Move(u, "done")
  /\ UNCHANGED <<req, pc, taken, cmd, pin, mask, parent, faults>>
  /\ UNCHANGED <<victim, todo, tree, lock, withdrawn>>

-----------------------------------------------------------------------------
(* cancel_job, for one recorded pid after the other.                       *)

CollectTree(u) ==
  /\ at[u] = "next"
  /\ \E target \in todo[u] :
       /\ tree' = [tree EXCEPT ![u] = CollectProcessTree(target)]
       /\ todo' = [todo EXCEPT ![u] = @ \ {target}]
  /\ Move(u, "term")
  /\ UNCHANGED <<vars, victim, lock, purged, withdrawn>>

(* SIGTERM ends the processes of coresched; a command may catch it.        *)
Terminate(u) ==
  /\ at[u] = "term"
  /\ \E D \in {tree[u], tree[u] \cap Procs} : Kill(D)
  /\ Move(u, "kill")
  /\ UNCHANGED <<victim, todo, tree, lock, purged, withdrawn>>

(* SIGKILL, 250 ms later.                                                  *)
KillRest(u) ==
  /\ at[u] = "kill"
  /\ Kill(tree[u])
  /\ tree' = [tree EXCEPT ![u] = {}]
  /\ Move(u, IF u \in lock THEN "next" ELSE "done")
  /\ UNCHANGED <<victim, todo, lock, purged, withdrawn>>

-----------------------------------------------------------------------------
(* cancel --all.                                                           *)

(* Mutant: an entry without a pid is taken along.                          *)
AllPids(map) == {<<map[j].pid, j>> : j \in DOMAIN map}

RecordedPids(map) ==
  {<<map[j].pid, j>> : j \in {i \in DOMAIN map : map[i].pid # "none"}}

(* Mutant: the commands that run are forgotten.                            *)
CancelAllPendingOnly(u) ==
  /\ at[u] = "idle" /\ "cancel_all" \in Operations /\ lock = {}
  /\ todo' = [todo EXCEPT ![u] = RecordedPids(disk.pending)]
  /\ lock' = {u}
  /\ Move(u, "next")
  /\ UNCHANGED <<vars, victim, tree, purged, withdrawn>>

(* Take the lock and collect the recorded pids.                            *)
CancelAll(u) ==
  /\ at[u] = "idle" /\ "cancel_all" \in Operations /\ lock = {}
  /\ todo' = [todo EXCEPT ![u] = RecordedPids(disk.pids) \cup RecordedPids(disk.pending)]
  /\ lock' = {u}
  /\ Move(u, "next")
  /\ UNCHANGED <<vars, victim, tree, purged, withdrawn>>

(* When all are killed: free every job, clear the queue, save, unlock.     *)
FreeAll(u) ==
  /\ at[u] = "next" /\ u \in lock /\ todo[u] = {}
  /\ disk' = [FreeJobs(disk, DOMAIN disk.pids) EXCEPT !.pending = <<>>, !.queued = <<>>]
  /\ purged' = purged \cup {j \in DOMAIN disk.pids : disk.pids[j].pid = "none"}
  /\ withdrawn' = withdrawn \cup QueuedJobs
  /\ lock' = {}
  /\ Move(u, "done")
  /\ UNCHANGED <<req, pc, taken, cmd, pin, mask, parent, faults, victim, todo, tree>>

-----------------------------------------------------------------------------
(* cmd_wait.                                                               *)

(* The answer of one poll: no pid is recorded, or its process has gone.    *)
SeemsOver(j) ==
  LET p == IF j \in DOMAIN disk.pids /\ disk.pids[j].pid # "none" THEN disk.pids[j].pid
           ELSE IF j \in DOMAIN disk.pending THEN disk.pending[j].pid ELSE "none"
  IN  p = "none" \/ <<p, j>> \notin Alive

(* wait prints that the job has ended.                                     *)
WaitReturns(u) ==
  /\ at[u] = "wait" /\ lock = {}
  /\ \A j \in victim[u] : SeemsOver(j)
  /\ Move(u, "done")
  /\ UNCHANGED <<vars, victim, todo, tree, lock, purged, withdrawn>>

-----------------------------------------------------------------------------
(* The user's process is interrupted; its lock goes with it.               *)
UserKilled(u) ==
  /\ at[u] \notin {"idle", "done"} /\ Fault("crash")
  /\ lock' = lock \ {u}
  /\ Move(u, "done")
  /\ UNCHANGED <<disk, req, pc, taken, cmd, pin, mask, parent>>
  /\ UNCHANGED <<victim, todo, tree, purged, withdrawn>>

UserStep(u) ==
  \/ \E j \in Jobs : Begin(u, "cancel", j, "queue") \/ Begin(u, "wait", j, "wait")
  \/ CancelQueued(u) \/ CancelLookup(u) \/ CancelPurge(u)
  \/ CollectTree(u) \/ Terminate(u) \/ KillRest(u)
  \/ CancelAll(u) \/ FreeAll(u)
  \/ WaitReturns(u) \/ UserKilled(u)

(* The steps of Coresched that take the lock, and those that do not.       *)
LockedStep ==
  \/ \E j \in Jobs : \/ SubmitStep(j) \/ UpdatePid(j)
                     \/ AllocRun(j) \/ AllocWaits(j) \/ GiveUp(j)
                     \/ RecordPid(j) \/ Free(j)
  \/ \E p \in Procs : DispatchTake(p) \/ DispatchStops(p) \/ DispatchRequeue(p)
  \/ \E c \in Clients, cores \in ReserveChoices : ReserveCore(c, cores)

OpenStep ==
  \/ \E j \in Jobs : \/ ParentStep(j) \/ Sleep(j) \/ CmdExits(j) \/ Reap(j)
                     \/ Launch(j) \/ LaunchUnpinned(j) \/ LaunchPanics(j)
  \/ \E p \in Procs : DispatchFork(p) \/ Crash(p)

CNext ==
  \/ lock = {} /\ LockedStep /\ UNCHANGED userVars
  \/ OpenStep /\ UNCHANGED userVars
  \/ \E u \in Users : UserStep(u)

CSpec == CInit /\ [][CNext]_<<vars, userVars>>

-----------------------------------------------------------------------------
(* Properties.                                                             *)

CTypeOK ==
  /\ TypeOK
  /\ at \in [Users -> Places] /\ victim \in [Users -> SUBSET Jobs]
  /\ todo \in [Users -> SUBSET (PidKinds \X Jobs)]
  /\ tree \in [Users -> SUBSET ((PidKinds \ {"none"}) \X Jobs)]
  /\ lock \subseteq Users /\ Cardinality(lock) <= 1
  /\ purged \subseteq Jobs /\ withdrawn \subseteq Jobs

(* However cancels and the processes of a job meet, a command keeps its    *)
(* CPUs in the state file as long as it runs: cancel gives them back only  *)
(* when the command is dead.  The one exception is a job that cancel takes *)
(* for an orphan because no pid is recorded yet (main.rs:1068).            *)
KeepsCpus ==
  \A j \in Jobs : Running(j) /\ j \notin purged => Books(j, {"none", "cmd"})

(* A job that cancel has removed from the queue never starts, although a   *)
(* dispatcher may be about to take it.                                     *)
WithdrawnNeverRuns ==
  \A j \in withdrawn :
    Unstarted(j) /\ ~ Occupied(j) /\ j \notin QueuedJobs /\ \A p \in Procs : j \notin taken[p]

Ended(j) ==
  /\ ~ Running(j) /\ pc[Wtr(j)] \notin {"started", "waiting", "retry", "allocated"}
  /\ j \notin QueuedJobs /\ \A p \in Procs : j \notin taken[p]

(* Once a waiter has replaced its parent's pid, the state file never names *)
(* a dead process for a job that is not over, whoever cleans up, cancels   *)
(* or is killed meanwhile: what it names is what cancel has to kill, and   *)
(* wait goes on waiting for it.                                            *)
EntryAlive ==
  \A j \in Jobs :
    ~ Ended(j) /\ pc[Wtr(j)] # "started" /\ EntryPid(j) # "none" => <<EntryPid(j), j>> \in Alive

(* Nobody takes away what a living job needs: a run that waits is pending, *)
(* although "orphan_cleanup will see the dead parent PID" (src/main.rs:248) *)
(* if the waiter comes too late, and a command that runs has its CPUs in   *)
(* the file, although cancel frees every "job in pids/pending [that] has   *)
(* no valid PID (orphaned)" (src/main.rs:1068).                            *)
Accounted ==
  \A j \in Jobs :
    /\ pc[Wtr(j)] \in {"waiting", "retry"} => j \in DOMAIN disk.pending
    /\ Running(j) => Books(j, {"none", "cmd"})

(* "Wait for a job to finish." (src/main.rs:1092): when wait returns, the  *)
(* job has ended.                                                          *)
WaitTruthful ==
  [][\A u \in Users : WaitReturns(u) => \A j \in victim[u] : Ended(j)]_<<vars, userVars>>
=============================================================================
