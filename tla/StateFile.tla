----------------------------- MODULE StateFile ------------------------------
(***************************************************************************)
(* How one critical section of Coresched is made: the lock, the state file *)
(* and its temporary (with_lock, init, load_from_disk, save_to_disk and    *)
(* next_jid in src/state.rs), and what the callers in src/main.rs do when  *)
(* a step of it fails.                                                     *)
(*                                                                         *)
(* A process p runs one operation:                                         *)
(*   "submit"    cmd_enqueue; a failing load counts as the empty state and *)
(*               a failing save goes unnoticed                             *)
(*   "dispatch"  dispatch_queued_jobs, one round of it; the same           *)
(*   "free"      a waiter at its end; the same                             *)
(*   "reserve"   cmd_reserve_core; every failure is reported               *)
(* Reading and writing can fail, a process can be killed at any point, and *)
(* when the lock cannot be had with_lock goes on without it.               *)
(***************************************************************************)
EXTENDS Naturals, FiniteSets

CONSTANTS
  Procs,       (* processes that run one operation each                    *)
  FaultKinds,  (* "lock", "read", "write", "crash"                         *)
  MaxFaults    (* bound: how many faults happen                            *)

ASSUME StateFileAssumption ==
  /\ IsFiniteSet(Procs) /\ MaxFaults \in Nat
  /\ FaultKinds \subseteq {"lock", "read", "write", "crash"}

Kinds  == {"submit", "dispatch", "free", "reserve"}
JobIds == 1 .. Cardinality(Procs) + 1
Entry  == [jid : JobIds, by : Procs]

VARIABLES
  lock,      (* who holds the lock                                         *)
  file,      (* state.json                                                 *)
  tmp,       (* state.json.tmp                                             *)
  outputs,   (* the job ids whose output file exists                       *)
  kind,      (* kind[p]: the operation of p                                *)
  pc,        (* pc[p]: where it stands                                     *)
  then,      (* then[p]: where it goes on when the file is saved           *)
  mem,       (* mem[p]: the state it works on                              *)
  fd,        (* fd[p]: the name of the file it writes to                   *)
  job,       (* job[p]: the entry it submits, dispatches or frees          *)
  faults,    (* how many faults have happened                              *)
  (* History: *)
  unlocked,  (* who has gone in without the lock                           *)
  blind,     (* who works on the default for want of the real state        *)
  unsaved,   (* whose save has failed                                      *)
  gone,      (* the entries that were freed                                *)
  forgotten, (* the entries that were overwritten by a blind process       *)
  exposed    (* the entries without an output file when a blind one loaded *)

vars == <<lock, file, tmp, outputs, kind, pc, then, mem, fd, job, faults,
          unlocked, blind, unsaved, gone, forgotten, exposed>>
files   == <<file, tmp, fd>>
history == <<blind, unsaved, gone, forgotten, exposed>>
fixed   == <<unlocked, kind>>   (* but for LockFails *)

(* Mutant: ids start at 0.                                                 *)
DefaultFromZero == [queued |-> {}, pids |-> {}, next |-> 0, reserved |-> FALSE]

(* CoreschedState::default.                                                *)
Default == [queued |-> {}, pids |-> {}, next |-> 1, reserved |-> FALSE]
Entries(s) == s.queued \cup s.pids
Jids(E) == {e.jid : e \in E}

(* What a file name stands for: nothing, text that is no JSON, or a state. *)
Absent   == [form |-> "absent", state |-> Default]
Torn     == [form |-> "torn", state |-> Default]
Whole(s) == [form |-> "whole", state |-> s]

Fault(k) == k \in FaultKinds /\ faults < MaxFaults /\ faults' = faults + 1
Goto(p, label) == pc' = [pc EXCEPT ![p] = label]

Init ==
  /\ lock = {}
  /\ file = Absent /\ tmp = Absent /\ outputs = {}
  /\ kind \in [Procs -> Kinds]
  /\ pc = [p \in Procs |-> "idle"]
  /\ then = [p \in Procs |-> "unlock"]
  /\ mem = [p \in Procs |-> Default]
  /\ fd = [p \in Procs |-> "none"]
  /\ job = [p \in Procs |-> {}]
  /\ faults = 0
  /\ unlocked = {} /\ blind = {} /\ unsaved = {} /\ gone = {} /\ forgotten = {} /\ exposed = {}

-----------------------------------------------------------------------------
(* with_lock and init.                                                     *)

(* What a waiter has to free: the job a dispatcher has started it for.     *)
Started == UNION {job[d] : d \in {q \in Procs : kind[q] = "dispatch" /\ pc[q] = "done"}}

Begin(p) ==
  /\ pc[p] = "idle"
  /\ IF kind[p] = "free" THEN \E e \in Started : job' = [job EXCEPT ![p] = {e}]
                         ELSE UNCHANGED job
  /\ Goto(p, IF kind[p] \in {"submit", "reserve"} THEN "init" ELSE "load")
  /\ UNCHANGED <<kind, files, outputs, then, mem, history>>

(* Mutant: the lock is shared.                                             *)
LockShared(p) == Begin(p) /\ lock' = lock \cup {p} /\ UNCHANGED <<unlocked, faults>>

(* lock.write waits for the holder ...                                     *)
Lock(p) ==
  /\ Begin(p) /\ lock = {}
  /\ lock' = {p}
  /\ UNCHANGED <<unlocked, faults>>

(* ... and when it fails, nobody looks at its result.                      *)
LockFails(p) ==
  /\ Begin(p) /\ Fault("lock")
  /\ unlocked' = unlocked \cup {p}
  /\ UNCHANGED lock

AllLocked == unlocked = {}

(* Without a state file init saves the default.                            *)
InitFile(p) ==
  /\ pc[p] = "init"
  /\ IF file.form = "absent"
     THEN /\ mem' = [mem EXCEPT ![p] = Default]
          /\ then' = [then EXCEPT ![p] = "load"]
          /\ Goto(p, "open")
     ELSE Goto(p, "load") /\ UNCHANGED <<mem, then>>
  /\ UNCHANGED <<fixed, lock, files, outputs, job, faults, history>>

Unlock(p) ==
  /\ pc[p] = "unlock"
  /\ lock' = lock \ {p}
  /\ Goto(p, IF kind[p] = "dispatch" /\ job[p] # {} THEN "start" ELSE "done")
  /\ UNCHANGED <<fixed, files, outputs, then, mem, job, faults, history>>

-----------------------------------------------------------------------------
(* load_from_disk, and what the operation does to the state.               *)

Least(S) == CHOOSE n \in S : \A k \in S : n <= k

(* Mutant: the output files are not looked at.                             *)
NextJidOfState(s) == Least({n \in JobIds : n >= s.next} \ Jids(Entries(s)))

NextJid(s) == Least({n \in JobIds : n >= s.next} \ (outputs \cup Jids(Entries(s))))

(* The new states an operation may save; none when nothing can be          *)
(* dispatched.                                                             *)
Edits(p, s) ==
  CASE kind[p] = "submit" ->
         {[job |-> {[jid |-> n, by |-> p]},
           state |-> [s EXCEPT !.queued = @ \cup {[jid |-> n, by |-> p]}, !.next = n + 1]]
            : n \in {NextJid(s)}}
    [] kind[p] = "dispatch" ->
         {[job |-> {e},
           state |-> [s EXCEPT !.queued = @ \ {e},
                               !.pids = {x \in @ : x.jid # e.jid} \cup {e}]]
            : e \in s.queued}
    [] kind[p] = "free" ->
         {[job |-> job[p],
           state |-> [s EXCEPT !.pids = {x \in @ : x.jid \notin Jids(job[p])}]]}
    [] kind[p] = "reserve" ->
         {[job |-> {}, state |-> [s EXCEPT !.reserved = TRUE]]}

Work(p, s) ==
  \/ \E edit \in Edits(p, s) :
       /\ mem' = [mem EXCEPT ![p] = edit.state]
       /\ job' = [job EXCEPT ![p] = edit.job]
       /\ then' = [then EXCEPT ![p] = "unlock"]
       /\ Goto(p, "open")
  \/ Edits(p, s) = {} /\ Goto(p, "unlock") /\ UNCHANGED <<mem, job, then>>

Load(p) ==
  /\ pc[p] = "load" /\ file.form = "whole"
  /\ Work(p, file.state)
  /\ UNCHANGED <<fixed, lock, files, outputs, faults, history>>

(* The file cannot be read or parsed.                                      *)
Unreadable == IF file.form = "whole" THEN Fault("read") ELSE UNCHANGED faults

(* load_from_disk().unwrap_or_default().                                   *)
LoadBlindly(p) ==
  /\ pc[p] = "load" /\ kind[p] # "reserve" /\ Unreadable
  /\ Work(p, Default)
  /\ blind' = blind \cup {p}
  /\ exposed' = exposed \cup {e \in Entries(file.state) : e.jid \notin outputs}
  /\ UNCHANGED <<fixed, lock, files, outputs, unsaved, gone, forgotten>>

(* Mutant: reserve-core takes the default too.                             *)
LoadDefault(p) ==
  /\ pc[p] = "load" /\ kind[p] = "reserve" /\ Unreadable
  /\ Work(p, Default)
  /\ UNCHANGED <<fixed, lock, files, outputs, history>>

(* load_from_disk().map_err(..)?                                           *)
LoadRefused(p) ==
  /\ pc[p] = "load" /\ kind[p] = "reserve" /\ Unreadable
  /\ Goto(p, "unlock")
  /\ UNCHANGED <<fixed, lock, files, outputs, then, mem, job, history>>

-----------------------------------------------------------------------------
(* save_to_disk.                                                           *)

(* Mutant: the state file itself is truncated.                             *)
OpenInPlace(p) ==
  /\ pc[p] = "open"
  /\ file' = Torn /\ fd' = [fd EXCEPT ![p] = "state"]
  /\ Goto(p, "write")
  /\ UNCHANGED <<fixed, lock, tmp, outputs, then, mem, job, faults, history>>

(* fs::write creates or truncates the temporary file ...                   *)
Open(p) ==
  /\ pc[p] = "open"
  /\ tmp' = Torn /\ fd' = [fd EXCEPT ![p] = "tmp"]
  /\ Goto(p, "write")
  /\ UNCHANGED <<fixed, lock, file, outputs, then, mem, job, faults, history>>

(* ... and writes to it, wherever it has been renamed to.  The texts of    *)
(* two processes that write to one file may mix.                           *)
Write(p) ==
  /\ pc[p] = "write"
  /\ \E text \in {Whole(mem[p])} \cup (IF AllLocked THEN {} ELSE {Torn}) :
       /\ tmp' = IF fd[p] = "tmp" THEN text ELSE tmp
       /\ file' = IF fd[p] = "state" THEN text ELSE file
  /\ Goto(p, "rename")
  /\ UNCHANGED <<fixed, lock, fd, outputs, then, mem, job, faults, history>>

(* What a blind process overwrites, and what free_job removes.             *)
Overwritten(p) == IF p \in blind THEN Entries(file.state) \ Entries(mem[p]) ELSE {}
Removed(p) ==
  IF kind[p] = "free" THEN {e \in file.state.pids : e.jid \in Jids(job[p])} ELSE {}

Rename(p) ==
  /\ pc[p] = "rename" /\ tmp.form # "absent"
  /\ file' = tmp /\ tmp' = Absent
  /\ fd' = [q \in Procs |-> IF q # p /\ fd[q] = "tmp" THEN "state" ELSE "none"]
  /\ forgotten' = forgotten \cup Overwritten(p)
  /\ gone' = gone \cup Removed(p)
  /\ Goto(p, then[p])
  /\ UNCHANGED <<fixed, lock, outputs, then, mem, job, faults, blind, unsaved, exposed>>

(* A step of it fails.  Only reserve-core cares, and stops.                *)
SaveFails(p) ==
  /\ \/ pc[p] \in {"open", "write", "rename"} /\ Fault("write")
     \/ pc[p] = "rename" /\ tmp.form = "absent" /\ UNCHANGED faults
  /\ fd' = [fd EXCEPT ![p] = "none"]
  /\ unsaved' = IF then[p] = "unlock" THEN unsaved \cup {p} ELSE unsaved
  /\ Goto(p, IF kind[p] = "reserve" THEN "unlock" ELSE then[p])
  /\ UNCHANGED <<fixed, lock, file, tmp, outputs, then, mem, job,
                 blind, gone, forgotten, exposed>>

-----------------------------------------------------------------------------
(* A dispatcher starts the job it has taken, whether the state was saved   *)
(* or not.  The waiter opens the output file at once.                      *)
Start(p) ==
  /\ pc[p] = "start"
  /\ outputs' = outputs \cup Jids(job[p])
  /\ Goto(p, "done")
  /\ UNCHANGED <<fixed, lock, files, then, mem, job, faults, history>>

(* The kernel closes the files of a dead process and drops its lock.       *)
Crash(p) ==
  /\ pc[p] \notin {"idle", "done", "dead"} /\ Fault("crash")
  /\ lock' = lock \ {p}
  /\ fd' = [fd EXCEPT ![p] = "none"]
  /\ Goto(p, "dead")
  /\ UNCHANGED <<fixed, file, tmp, outputs, then, mem, job, history>>

Next ==
  \E p \in Procs :
    \/ Lock(p) \/ LockFails(p) \/ InitFile(p) \/ Unlock(p)
    \/ Load(p) \/ LoadBlindly(p) \/ LoadRefused(p)
    \/ Open(p) \/ Write(p) \/ Rename(p) \/ SaveFails(p)
    \/ Start(p) \/ Crash(p)

Spec == Init /\ [][Next]_vars

-----------------------------------------------------------------------------
(* Properties.                                                             *)

State == [queued : SUBSET Entry, pids : SUBSET Entry, next : 1 .. Cardinality(Procs) + 2,
          reserved : BOOLEAN]
File  == [form : {"absent", "torn", "whole"}, state : State]

(* The types of the files and of every process.                            *)
TypeOK ==
  /\ lock \subseteq Procs /\ Cardinality(lock) <= 1
  /\ file \in File /\ tmp \in File /\ outputs \subseteq JobIds
  /\ mem \in [Procs -> State] /\ fd \in [Procs -> {"none", "tmp", "state"}]
  /\ job \in [Procs -> SUBSET Entry]
  /\ forgotten \cup gone \cup exposed \subseteq Entry

(* Whoever reads state.json, at whatever moment and with or without the    *)
(* lock (cmd_progress takes none), finds a whole state, also after a       *)
(* process was killed or a disk was full in the middle of a save.          *)
NeverTorn == AllLocked => file.form # "torn"

Submitted(p) == kind[p] = "submit" /\ pc[p] = "done"

(* A job that was acknowledged is in the state file until it is freed.     *)
(* There are two ways to lose it, and both are failures of the file system *)
(* that the code ignores: its own save failed (main.rs:464), or a process  *)
(* that could not read the file wrote the default over it.                 *)
Kept ==
  \A p \in Procs : AllLocked /\ Submitted(p) =>
    job[p] \subseteq Entries(file.state) \cup gone \cup forgotten \/ p \in unsaved

(* Two jobs are given one id only if the first was lost in one of these    *)
(* ways before its output file existed: next_jid looks at the output files *)
(* and so avoids the ids of jobs that have started, even after a reset.    *)
FreshIds ==
  \A p, q \in Procs :
    AllLocked /\ p # q /\ Submitted(p) /\ Submitted(q) /\ Jids(job[p]) \cap Jids(job[q]) # {}
      => {p, q} \cap unsaved # {} \/ (job[p] \cup job[q]) \cap exposed # {}

(* No queued job is started twice, unless a dispatcher that could not save *)
(* its removal from the queue has started it all the same.                 *)
StartedOnce ==
  \A p, q \in Procs :
    /\ AllLocked /\ p # q /\ kind[p] = "dispatch" /\ kind[q] = "dispatch"
    /\ pc[p] \in {"start", "done"} /\ pc[q] \in {"start", "done"}
    /\ job[p] \cap job[q] # {}
    => {p, q} \cap unsaved # {}

(* The critical sections change the state one after the other, each from   *)
(* the result of the one before, or start over from the default.           *)
Store == INSTANCE StateStore WITH content <- file.state, reliable <- AllLocked

ImplementsStore == Store!Spec

-----------------------------------------------------------------------------
(* What the code says of itself, and does not keep.                        *)

(* "write job to persistent queue" (src/main.rs:411): a job that was       *)
(* acknowledged is in the queue until one dispatcher takes it, who starts  *)
(* it, and no other does.                                                  *)
TakenBy(d, e) == kind[d] = "dispatch" /\ e \in job[d] /\ pc[d] \in {"unlock", "start", "done"}

AckedOnce ==
  \A p \in Procs : Submitted(p) => \A e \in job[p] :
    Cardinality({d \in Procs : TakenBy(d, e)}) = IF e \in file.state.queued THEN 0 ELSE 1
=============================================================================
