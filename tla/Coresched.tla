----------------------------- MODULE Coresched ------------------------------
(***************************************************************************)
(* The processes of coresched and the state file they share (src/main.rs). *)
(*                                                                         *)
(* There is no daemon.  Every command is a process that reads the state    *)
(* file, computes and renames a new one into place under the lock of       *)
(* with_lock, and every action below that changes disk is one such         *)
(* critical section.  A job j has                                          *)
(*   Sub(j)  the process of the `run` or `enqueue` command that submits it *)
(*   Wtr(j)  the process forked for it: cmd_run_child for a direct `run`,  *)
(*           dispatch_child_exec for a job taken from the queue            *)
(*   cmd[j]  the command the waiter spawns                                 *)
(* and Adm(c) is the process of an administrative command.  A process that *)
(* has finished its own work runs dispatch_queued_jobs.                    *)
(***************************************************************************)
EXTENDS Scheduler

CONSTANTS
  MaxJobs,        (* bound: how many jobs are submitted                    *)
  Clients,        (* administrative command processes                      *)
  Requests,       (* what a submission may ask                             *)
  ReserveChoices, (* the core sets `reserve-core` is called with           *)
  FaultKinds,     (* the kinds of fault that may happen                    *)
  MaxFaults       (* bound: how many faults happen                         *)

Jobs  == 1 .. MaxJobs
Modes == {"run", "enqueue"}
Request == [mode : Modes, type : JobTypes, need : 0 .. 255,
            priority : Priorities, timeout : BOOLEAN]

ASSUME CoreschedAssumption ==
  /\ MaxJobs \in Nat
  /\ Requests \subseteq Request
  /\ ReserveChoices \subseteq SUBSET Cores
  /\ MaxFaults \in Nat

Sub(j) == <<"sub", j>>
Wtr(j) == <<"wtr", j>>
Cmd(j) == <<"cmd", j>>
Adm(c) == <<"adm", c>>
Procs  == ({"sub", "wtr"} \X Jobs) \cup ({"adm"} \X Clients)

VARIABLES
  disk,    (* the contents of state.json                                   *)
  req,     (* req[j]: the arguments of the command that submits j          *)
  pc,      (* pc[p]: where process p stands                                *)
  taken,   (* taken[p]: the job p has dispatched and not yet forked for    *)
  cmd,     (* cmd[j]: the life of the command                              *)
  pin,     (* pin[j]: the pin_cpus of j's waiter                           *)
  mask,    (* mask[j]: the affinity of j's waiter, which its command gets  *)
  parent,  (* parent[j]: the process that forked Wtr(j)                    *)
  faults   (* how many faults have happened                                *)

vars == <<disk, req, pc, taken, cmd, pin, mask, parent, faults>>

PCs == {"idle", "registered", "forked", "started", "waiting", "retry",
        "allocated", "spawned", "running", "reaped", "dispatch", "fork", "exited"}
CmdStates == {"none", "running", "zombie", "gone"}

Live(p) == pc[p] \notin {"idle", "exited"}

(* The processes for which kill(pid, 0) succeeds: the live ones, and a      *)
(* waiter whose parent has not gone yet, for nobody waits for a waiter.    *)
Alive == {p \in {"sub", "wtr"} \X Jobs : Live(p)}
           \cup {Wtr(j) : j \in {i \in Jobs : pc[Wtr(i)] = "exited" /\ Live(parent[i])}}
           \cup {Cmd(j) : j \in {i \in Jobs : cmd[i] \in {"running", "zombie"}}}

(* What a command works on once it has read the state file and cleaned up. *)
CleanedUp == OrphanCleanup(disk, Alive)

Goto(p, label) == pc' = [pc EXCEPT ![p] = label]
Final(p) == IF p[1] = "adm" THEN "idle" ELSE "exited"

(* The affinity a process hands to its children.                           *)
MaskOf(p) == IF p[1] = "wtr" THEN mask[p[2]] ELSE Cpus

Fault(kind) == kind \in FaultKinds /\ faults < MaxFaults /\ faults' = faults + 1

(* Mutant: the range of reserved cores includes its end.                   *)
EmptyStateInclusive ==
  [cfd |-> {}, cpus |-> {}, pids |-> <<>>, pending |-> <<>>, queued |-> <<>>,
   reserved |-> {c \in 0 .. NumCores : c >= NumCores - 2}, next |-> 1]

(* CoreschedState::default, written by init when there is no state file.   *)
EmptyState ==
  [cfd |-> {}, cpus |-> {}, pids |-> <<>>, pending |-> <<>>, queued |-> <<>>,
   reserved |-> {c \in Cores : c >= NumCores - 2}, next |-> 1]

Init ==
  /\ disk = EmptyState
  /\ req \in [Jobs -> {r \in Requests : ValidRequest(r)}]
  /\ pc = [p \in Procs |-> "idle"]
  /\ taken = [p \in Procs |-> {}]
  /\ cmd = [j \in Jobs |-> "none"]
  /\ pin = [j \in Jobs |-> {}]
  /\ mask = [j \in Jobs |-> Cpus]
  /\ parent = [j \in Jobs |-> Sub(j)]
  /\ faults = 0

-----------------------------------------------------------------------------
(* Submission: cmd_run and cmd_enqueue.                                    *)

(* Both clean up, take the next job id and save.                           *)
Submit(j, mode, label) ==
  /\ pc[Sub(j)] = "idle" /\ req[j].mode = mode /\ disk.next = j
  /\ Goto(Sub(j), label)
  /\ UNCHANGED <<req, taken, cmd, pin, mask, parent, faults>>

(* Phase 1 of cmd_run: the job is pending under the pid of this process.   *)
Register(j) ==
  /\ Submit(j, "run", "registered")
  /\ \E s \in {CleanedUp} :
       disk' = [s EXCEPT !.next = j + 1,
                         !.pending = Insert(@, j, JobEntry(j, req[j], "sub", NoGrant))]

(* Phase 2: fork and detach the waiter.                                    *)
RunFork(j) ==
  /\ pc[Sub(j)] = "registered"
  /\ pc' = [pc EXCEPT ![Sub(j)] = "forked", ![Wtr(j)] = "started"]
  /\ UNCHANGED <<disk, req, taken, cmd, pin, mask, parent, faults>>

RunForkFails(j) ==
  /\ pc[Sub(j)] = "registered" /\ Fault("fork")
  /\ Goto(Sub(j), "exited")
  /\ UNCHANGED <<disk, req, taken, cmd, pin, mask, parent>>

(* The parent returns at once; from here on its pid is dead.               *)
ParentExits(j) ==
  /\ pc[Sub(j)] = "forked"
  /\ Goto(Sub(j), "exited")
  /\ UNCHANGED <<disk, req, taken, cmd, pin, mask, parent, faults>>

(* cmd_enqueue: append to the durable queue, then dispatch.                *)
Enqueue(j) ==
  /\ Submit(j, "enqueue", "dispatch")
  /\ \E s \in {CleanedUp} :
       disk' = [s EXCEPT !.next = j + 1,
                         !.queued = Append(@, JobEntry(j, req[j], "none", NoGrant))]

-----------------------------------------------------------------------------
(* cmd_run_child: wait for resources.                                      *)

(* Mutant: the entry keeps the pid of the parent.                          *)
KeepParentPid(j) ==
  /\ pc[Wtr(j)] = "started"
  /\ Goto(Wtr(j), "waiting")
  /\ UNCHANGED <<disk, req, taken, cmd, pin, mask, parent, faults>>

(* Replace the parent's pid in the pending entry by the waiter's own, if   *)
(* the entry is still there.                                               *)
UpdatePid(j) ==
  /\ pc[Wtr(j)] = "started"
  /\ Goto(Wtr(j), "waiting")
  /\ disk' = IF j \in DOMAIN disk.pending
             THEN [disk EXCEPT !.pending = [@ EXCEPT ![j].pid = "wtr"]] ELSE disk
  /\ UNCHANGED <<req, taken, cmd, pin, mask, parent, faults>>

MayAllocate(s, j) ==
  /\ ~ HasHigherPriorityWaiting(s, req[j].priority, {j})
  /\ NeededForPriority(s, req[j]) = 0

(* Mutant: the pending entry is not removed.                               *)
AllocRunStaysPending(j) ==
  /\ pc[Wtr(j)] = "waiting"
  /\ \E s \in {CleanedUp} :
       /\ MayAllocate(s, j)
       /\ \E grant \in {Alloc(s, req[j])} :
            /\ disk' = StartJob(s, j, req[j], grant)
            /\ pin' = [pin EXCEPT ![j] = Held(grant)]
  /\ Goto(Wtr(j), "allocated")
  /\ UNCHANGED <<req, taken, cmd, mask, parent, faults>>

(* One pass of the allocation loop that takes the resources ...            *)
AllocRun(j) ==
  /\ pc[Wtr(j)] = "waiting"
  /\ \E s \in {CleanedUp} :
       /\ MayAllocate(s, j)
       /\ \E grant \in {Alloc(s, req[j])} :
            /\ disk' = [StartJob(s, j, req[j], grant) EXCEPT !.pending = Without(@, {j})]
            /\ pin' = [pin EXCEPT ![j] = Held(grant)]
  /\ Goto(Wtr(j), "allocated")
  /\ UNCHANGED <<req, taken, cmd, mask, parent, faults>>

(* ... or saves what it cleaned up and goes on waiting.                    *)
AllocWaits(j) ==
  /\ pc[Wtr(j)] = "waiting"
  /\ \E s \in {CleanedUp} :
       /\ ~ MayAllocate(s, j)
       /\ disk' = s
  /\ Goto(Wtr(j), "retry")
  /\ UNCHANGED <<req, taken, cmd, pin, mask, parent, faults>>

Sleep(j) ==
  /\ pc[Wtr(j)] = "retry"
  /\ Goto(Wtr(j), "waiting")
  /\ UNCHANGED <<disk, req, taken, cmd, pin, mask, parent, faults>>

(* The --timeout has passed: withdraw the pending entry and exit.          *)
GiveUp(j) ==
  /\ pc[Wtr(j)] = "retry" /\ req[j].timeout
  /\ disk' = [disk EXCEPT !.pending = Without(@, {j})]
  /\ Goto(Wtr(j), "exited")
  /\ UNCHANGED <<req, taken, cmd, pin, mask, parent, faults>>

-----------------------------------------------------------------------------
(* What both kinds of waiter do once the job has its resources.            *)

(* Pin the waiter and spawn the command, which inherits the affinity.  An  *)
(* empty set is refused by sched_setaffinity.                              *)
Launch(j) ==
  /\ pc[Wtr(j)] = "allocated" /\ pin[j] # {}
  /\ mask' = [mask EXCEPT ![j] = pin[j]]
  /\ cmd' = [cmd EXCEPT ![j] = "running"]
  /\ Goto(Wtr(j), "spawned")
  /\ UNCHANGED <<disk, req, taken, pin, parent, faults>>

PinFails(j) == IF pin[j] = {} THEN UNCHANGED faults ELSE Fault("pin")

(* dispatch_child_exec ignores a failure to pin and spawns all the same.   *)
LaunchUnpinned(j) ==
  /\ pc[Wtr(j)] = "allocated" /\ req[j].mode = "enqueue" /\ PinFails(j)
  /\ cmd' = [cmd EXCEPT ![j] = "running"]
  /\ Goto(Wtr(j), "spawned")
  /\ UNCHANGED <<disk, req, taken, pin, mask, parent>>

(* cmd_run_child panics when it cannot pin, both when they cannot spawn.   *)
LaunchPanics(j) ==
  /\ pc[Wtr(j)] = "allocated"
  /\ (req[j].mode = "run" /\ PinFails(j)) \/ Fault("spawn")
  /\ Goto(Wtr(j), "exited")
  /\ UNCHANGED <<disk, req, taken, cmd, pin, mask, parent>>

(* Mutant: the waiter records its own pid.                                 *)
RecordOwnPid(j) ==
  /\ pc[Wtr(j)] = "spawned"
  /\ Goto(Wtr(j), "running")
  /\ disk' = IF j \in DOMAIN disk.pids
             THEN [disk EXCEPT !.pids = [@ EXCEPT ![j].pid = "wtr"]] ELSE disk
  /\ UNCHANGED <<req, taken, cmd, pin, mask, parent, faults>>

(* Record the pid of the command, if the job still has its entry.          *)
RecordPid(j) ==
  /\ pc[Wtr(j)] = "spawned"
  /\ Goto(Wtr(j), "running")
  /\ disk' = IF j \in DOMAIN disk.pids
             THEN [disk EXCEPT !.pids = [@ EXCEPT ![j].pid = "cmd"]] ELSE disk
  /\ UNCHANGED <<req, taken, cmd, pin, mask, parent, faults>>

(* The command ends; it stays a zombie until its waiter reaps it, or init  *)
(* does when the waiter is dead.                                           *)
CmdExits(j) ==
  /\ cmd[j] = "running"
  /\ cmd' = [cmd EXCEPT ![j] = IF Live(Wtr(j)) THEN "zombie" ELSE "gone"]
  /\ UNCHANGED <<disk, req, pc, taken, pin, mask, parent, faults>>

(* wait_for_child returns.                                                 *)
Reap(j) ==
  /\ pc[Wtr(j)] = "running" /\ cmd[j] = "zombie"
  /\ cmd' = [cmd EXCEPT ![j] = "gone"]
  /\ Goto(Wtr(j), "reaped")
  /\ UNCHANGED <<disk, req, taken, pin, mask, parent, faults>>

(* Mutant: the waiter frees and exits.                                     *)
FreeAndExit(j) ==
  /\ pc[Wtr(j)] = "reaped"
  /\ disk' = FreeJob(disk, j)
  /\ Goto(Wtr(j), "exited")
  /\ UNCHANGED <<req, taken, cmd, pin, mask, parent, faults>>

(* Free the job's resources, then dispatch.                                *)
Free(j) ==
  /\ pc[Wtr(j)] = "reaped"
  /\ disk' = FreeJob(disk, j)
  /\ Goto(Wtr(j), "dispatch")
  /\ UNCHANGED <<req, taken, cmd, pin, mask, parent, faults>>

-----------------------------------------------------------------------------
(* dispatch_queued_jobs, run by any process that has come to its end.      *)

(* Mutant: the job is looked at, and stays in the queue.                   *)
DispatchPeek(p) ==
  /\ pc[p] = "dispatch"
  /\ \E s \in {CleanedUp} : \E i \in Dispatchable(s) :
       \E job \in {s.queued[i]}, grant \in {Alloc(s, s.queued[i])} :
         /\ disk' = StartJob(s, job.jid, job, grant)
         /\ taken' = [taken EXCEPT ![p] = {job.jid}]
         /\ pin' = [pin EXCEPT ![job.jid] = Held(grant)]
  /\ Goto(p, "fork")
  /\ UNCHANGED <<req, cmd, mask, parent, faults>>

(* Mutant: all jobs that fit are taken before the last one is forked for.  *)
DispatchTakeAll(p) ==
  /\ pc[p] = "dispatch"
  /\ \E s \in {CleanedUp} : \E i \in Dispatchable(s) :
       \E job \in {s.queued[i]}, grant \in {Alloc(s, s.queued[i])} :
         /\ disk' = StartJob([s EXCEPT !.queued = RemoveAt(@, i)], job.jid, job, grant)
         /\ taken' = [taken EXCEPT ![p] = {job.jid}]
         /\ pin' = [pin EXCEPT ![job.jid] = Held(grant)]
         /\ Goto(p, IF Dispatchable(disk') = {} THEN "fork" ELSE "dispatch")
  /\ UNCHANGED <<req, cmd, mask, parent, faults>>

(* try_dispatch_one takes a job from the queue and saves.                  *)
DispatchTake(p) ==
  /\ pc[p] = "dispatch"
  /\ \E s \in {CleanedUp} : \E i \in Dispatchable(s) :
       \E job \in {s.queued[i]}, grant \in {Alloc(s, s.queued[i])} :
         /\ disk' = StartJob([s EXCEPT !.queued = RemoveAt(@, i)], job.jid, job, grant)
         /\ taken' = [taken EXCEPT ![p] = {job.jid}]
         /\ pin' = [pin EXCEPT ![job.jid] = Held(grant)]
  /\ Goto(p, "fork")
  /\ UNCHANGED <<req, cmd, mask, parent, faults>>

(* Nothing can be dispatched: the loop ends, and what orphan_cleanup found *)
(* is not saved.                                                           *)
DispatchStops(p) ==
  /\ pc[p] = "dispatch"
  /\ Dispatchable(CleanedUp) = {}
  /\ Goto(p, Final(p))
  /\ UNCHANGED <<disk, req, taken, cmd, pin, mask, parent, faults>>

(* Fork the waiter of the job taken, and go round again.                   *)
DispatchFork(p) ==
  /\ pc[p] = "fork"
  /\ \E j \in taken[p] :
       /\ pc' = [pc EXCEPT ![p] = "dispatch", ![Wtr(j)] = "allocated"]
       /\ mask' = [mask EXCEPT ![j] = MaskOf(p)]
       /\ parent' = [parent EXCEPT ![j] = p]
  /\ taken' = [taken EXCEPT ![p] = {}]
  /\ UNCHANGED <<disk, req, cmd, pin, faults>>

(* Mutant: the job goes to the back of the queue.                          *)
DispatchRequeueLast(p) ==
  /\ pc[p] = "fork" /\ Fault("fork")
  /\ \E j \in taken[p] :
       disk' = [FreeJob(disk, j) EXCEPT
                  !.queued = Append(@, JobEntry(j, req[j], "none", NoGrant))]
  /\ taken' = [taken EXCEPT ![p] = {}]
  /\ Goto(p, Final(p))
  /\ UNCHANGED <<req, cmd, pin, mask, parent>>

(* Mutant: the job is requeued and keeps its resources.                    *)
DispatchRequeueUnfreed(p) ==
  /\ pc[p] = "fork" /\ Fault("fork")
  /\ \E j \in taken[p] :
       disk' = [disk EXCEPT
                  !.queued = Cons(JobEntry(j, req[j], "none", NoGrant), @)]
  /\ taken' = [taken EXCEPT ![p] = {}]
  /\ Goto(p, Final(p))
  /\ UNCHANGED <<req, cmd, pin, mask, parent>>

(* Mutant: the job is freed and not put back.                              *)
DispatchDrop(p) ==
  /\ pc[p] = "fork" /\ Fault("fork")
  /\ \E j \in taken[p] : disk' = FreeJob(disk, j)
  /\ taken' = [taken EXCEPT ![p] = {}]
  /\ Goto(p, Final(p))
  /\ UNCHANGED <<req, cmd, pin, mask, parent>>

(* The fork fails: free the job, put it back at the front, and stop.       *)
DispatchRequeue(p) ==
  /\ pc[p] = "fork" /\ Fault("fork")
  /\ \E j \in taken[p] :
       disk' = [FreeJob(disk, j) EXCEPT
                  !.queued = Cons(JobEntry(j, req[j], "none", NoGrant), @)]
  /\ taken' = [taken EXCEPT ![p] = {}]
  /\ Goto(p, Final(p))
  /\ UNCHANGED <<req, cmd, pin, mask, parent>>

(* cmd_reserve_core, with the empty set for --clear.                       *)
ReserveCore(c, cores) ==
  /\ pc[Adm(c)] = "idle"
  /\ disk' = [disk EXCEPT !.reserved = cores]
  /\ Goto(Adm(c), "dispatch")
  /\ UNCHANGED <<req, taken, cmd, pin, mask, parent, faults>>

-----------------------------------------------------------------------------
(* Faults of the environment.                                              *)

(* A set D of processes dies: init reaps the zombies of dead waiters.      *)
Die(D) ==
  /\ pc' = [p \in Procs |-> IF p \in D THEN Final(p) ELSE pc[p]]
  /\ taken' = [p \in Procs |-> IF p \in D THEN {} ELSE taken[p]]
  /\ cmd' = [j \in Jobs |-> IF Cmd(j) \in D \/ (cmd[j] = "zombie" /\ Wtr(j) \in D)
                            THEN "gone" ELSE cmd[j]]

(* One coresched process is killed from outside.                           *)
Crash(p) ==
  /\ Live(p) /\ Fault("crash")
  /\ Die({p})
  /\ UNCHANGED <<disk, req, pin, mask, parent>>

(* The machine restarts: the state file is all that stays.                 *)
Reboot ==
  /\ Fault("reboot")
  /\ Die({p \in Procs : Live(p)} \cup Alive)
  /\ UNCHANGED <<disk, req, pin, mask, parent>>

-----------------------------------------------------------------------------
SubmitStep(j) == Register(j) \/ Enqueue(j)

ParentStep(j) == RunFork(j) \/ RunForkFails(j) \/ ParentExits(j)

WaiterStep(j) ==
  \/ UpdatePid(j) \/ AllocRun(j) \/ AllocWaits(j) \/ Sleep(j) \/ GiveUp(j)
  \/ Launch(j) \/ LaunchUnpinned(j) \/ LaunchPanics(j)
  \/ RecordPid(j) \/ Reap(j) \/ Free(j)

DispatchStep(p) ==
  DispatchTake(p) \/ DispatchStops(p) \/ DispatchFork(p) \/ DispatchRequeue(p)

Next ==
  \/ \E j \in Jobs : SubmitStep(j) \/ ParentStep(j) \/ WaiterStep(j) \/ CmdExits(j)
  \/ \E p \in Procs : DispatchStep(p) \/ Crash(p)
  \/ \E c \in Clients, cores \in ReserveChoices : ReserveCore(c, cores)
  \/ Reboot

Spec == Init /\ [][Next]_vars

(* A process that can run does, and every command ends; nobody has to      *)
(* submit a job, to call reserve-core, or to meet a fault.                 *)
ProcessStep(p) ==
  \/ DispatchStep(p)
  \/ p[1] = "sub" /\ ParentStep(p[2])
  \/ p[1] = "wtr" /\ WaiterStep(p[2])

Fairness ==
  /\ \A p \in Procs : WF_vars(ProcessStep(p))
  /\ \A j \in Jobs : WF_vars(CmdExits(j))

FairSpec == Spec /\ Fairness

-----------------------------------------------------------------------------
(* Properties.                                                             *)

Running(j)  == cmd[j] = "running"
Occupied(j) == j \in DOMAIN disk.pids
QueuedJobs  == {disk.queued[i].jid : i \in DOMAIN disk.queued}

(* The type of the state file and of every process.                        *)
TypeOK ==
  /\ StateTypeOK(disk, Jobs)
  /\ req \in [Jobs -> Requests]
  /\ pc \in [Procs -> PCs] /\ taken \in [Procs -> SUBSET Jobs]
  /\ cmd \in [Jobs -> CmdStates]
  /\ pin \in [Jobs -> SUBSET Cpus] /\ mask \in [Jobs -> SUBSET Cpus]
  /\ parent \in [Jobs -> Procs] /\ faults \in Nat

(* The allocation maps and the entries of the running jobs tell the same   *)
(* story: a core or a CPU is marked exactly when one job, and one only,    *)
(* holds it.  Every path that gives resources back must keep this: free_job *)
(* after a normal end, orphan_cleanup, and the requeue of a failed fork.   *)
Booked == Consistent(disk)

(* A job that has been given resources was given as many as it asked for:  *)
(* the count of needed_for and the choice of alloc_* agree.                *)
FullGrant ==
  \A j \in DOMAIN disk.pids :
    LET e == disk.pids[j]
    IN  Cardinality(IF e.type = "cfd" THEN e.cores ELSE e.cpus) = e.need

(* Nobody holds a CPU of a core that belongs to a higher level only.       *)
ExclusiveCores ==
  \A j \in DOMAIN disk.pids :
    Held(disk.pids[j]) \cap ForbiddenCpus(disk.pids[j].priority) = {}

(* A job is in one place of the state file: it runs, or waits as a direct  *)
(* run, or is in the queue, once.                                          *)
OnePlace ==
  /\ DOMAIN disk.pids \cap DOMAIN disk.pending = {}
  /\ QueuedJobs \cap (DOMAIN disk.pids \cup DOMAIN disk.pending) = {}
  /\ \A i, k \in DOMAIN disk.queued : i # k => disk.queued[i].jid # disk.queued[k].jid

(* Between try_dispatch_one and fork the job lives in the memory of the    *)
(* dispatcher alone: no other dispatcher has it, the queue does not, and   *)
(* no waiter has been started for it.                                      *)
DispatchOnce ==
  \A p \in Procs : \A j \in taken[p] :
    /\ j \notin QueuedJobs /\ Occupied(j) /\ pc[Wtr(j)] = "idle"
    /\ \A q \in Procs \ {p} : j \notin taken[q]

(* Two commands that run at the same time were assigned different CPUs,    *)
(* whatever processes died on the way.                                     *)
Isolation ==
  \A i, j \in Jobs : i # j /\ Running(i) /\ Running(j) => pin[i] \cap pin[j] = {}

(* The affinity a command really has is what the state file books for it.  *)
Confined ==
  \A j \in Jobs : Running(j) => Occupied(j) /\ mask[j] = Held(disk.pids[j])

(* Jobs of one level leave the queue in the order they were submitted in.  *)
QueueFIFO ==
  \A i, k \in DOMAIN disk.queued :
    i < k /\ disk.queued[i].priority = disk.queued[k].priority
      => disk.queued[i].jid < disk.queued[k].jid

Waits(j) == j \in DOMAIN disk.pending \/ j \in QueuedJobs

(* Neither the waiter of a direct run nor a dispatcher gives a job its     *)
(* resources while the state file shows a job of a higher level that waits. *)
PriorityOrder ==
  [][\A j \in DOMAIN disk'.pids \ DOMAIN disk.pids :
       \A k \in Jobs : Waits(k)' => req[k].priority <= req[j].priority]_vars

(* The processes that will come to dispatch_queued_jobs, unless killed.    *)
OnDuty(p) == Live(p) /\ pc[p] # "forked"

(* No wake-up is lost: while the head of the queue could be started, some  *)
(* process is on its way to dispatch it.  There is no daemon, so a job in  *)
(* the queue of an idle machine with nobody on duty stays there.           *)
QueueServed ==
  Dispatchable(CleanedUp) # {} => \E p \in Procs : OnDuty(p)

(* What is booked is given back some day: the job's waiter will free it, or *)
(* its dispatcher is about to fork that waiter, or its recorded command     *)
(* runs or is seen dead by orphan_cleanup.                                 *)
NoLeak ==
  \A j \in DOMAIN disk.pids :
    Live(Wtr(j)) \/ (\E p \in Procs : j \in taken[p]) \/ disk.pids[j].pid # "none"

(* "write job to persistent queue" (src/main.rs:411): an enqueued job      *)
(* whose command has not started never vanishes from the state file.  A fault on the way from the queue  *)
(* to the command may strand it among the booked jobs, where `list` shows  *)
(* it and `cancel` removes it, but no step loses it.                       *)
NotForgotten ==
  \A j \in Jobs :
    req[j].mode = "enqueue" /\ disk.next > j /\ cmd[j] = "none"
      => j \in QueuedJobs \/ Occupied(j)

(* Every job that is submitted runs and ends.                              *)
EveryJobRuns == \A j \in Jobs : disk.next > j ~> cmd[j] = "gone"

-----------------------------------------------------------------------------
(* Why Booked and Isolation hold.  In the life of a job                    *)
(*   fresh -> queued or pending -> booked -> its command runs -> gone      *)
(* every process that books resources for it does so when nobody else has  *)
(* or can, and from then on the entry stays in the state file, with a pid  *)
(* that orphan_cleanup cannot take for dead, until the command is gone.    *)

Unstarted(j) == pc[Wtr(j)] = "idle" /\ cmd[j] = "none"
Books(j, pids) ==
  Occupied(j) /\ Held(disk.pids[j]) = pin[j] /\ disk.pids[j].pid \in pids

FreshJob(j) == disk.next <= j =>
  /\ Unstarted(j) /\ pc[Sub(j)] = "idle"
  /\ ~ Occupied(j) /\ j \notin QueuedJobs /\ j \notin DOMAIN disk.pending
  /\ \A p \in Procs : j \notin taken[p]

WaitingJob(j) ==
  /\ pc[Sub(j)] = "registered" => req[j].mode = "run" /\ Unstarted(j) /\ ~ Occupied(j)
  /\ pc[Wtr(j)] \in {"started", "waiting", "retry"}
       => req[j].mode = "run" /\ cmd[j] = "none" /\ ~ Occupied(j)
  /\ j \in DOMAIN disk.pending => req[j].mode = "run" /\ ~ Occupied(j)
  /\ j \in QueuedJobs => req[j].mode = "enqueue" /\ Unstarted(j) /\ ~ Occupied(j)

TakenJob(j) == \A p \in Procs : j \in taken[p] =>
  /\ req[j].mode = "enqueue" /\ Unstarted(j) /\ Books(j, {"none"}) /\ j \notin QueuedJobs
  /\ \A q \in Procs \ {p} : j \notin taken[q]

StartedJob(j) ==
  /\ pc[Wtr(j)] = "allocated" => Books(j, {"none"}) /\ cmd[j] = "none"
  /\ cmd[j] \in {"running", "zombie"} => Books(j, {"none", "cmd"})
  /\ pc[Wtr(j)] = "reaped" => cmd[j] = "gone"

JobOK(j) == FreshJob(j) /\ WaitingJob(j) /\ TakenJob(j) /\ StartedJob(j)

QueuedOnce ==
  \A i, k \in DOMAIN disk.queued : i # k => disk.queued[i].jid # disk.queued[k].jid

(* The inductive invariant of the scheduler, whatever processes die.       *)
IInv == TypeOK /\ Booked /\ QueuedOnce /\ \A j \in Jobs : JobOK(j)

-----------------------------------------------------------------------------
(* Coresched implements the pool of CPUs: the entries of the running jobs  *)
(* are the grants, and a command that is a zombie has not given up its     *)
(* CPUs yet.                                                               *)

LifeOf(c) == CASE c = "none" -> "waits" [] c \in {"running", "zombie"} -> "runs"
               [] OTHER -> "over"

Grants == [j \in DOMAIN disk.pids |-> Held(disk.pids[j])]
Lives  == [j \in Jobs |-> LifeOf(cmd[j])]

Pool == INSTANCE CpuPool WITH grant <- Grants, life <- Lives

(* Whatever processes die or are delayed, a job is given only CPUs that no *)
(* other job has, keeps them from before its command starts until after it *)
(* is gone, and its command is started once.                               *)
ImplementsPool == Pool!Spec
=============================================================================
