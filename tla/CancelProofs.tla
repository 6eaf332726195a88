---------------------------- MODULE CancelProofs ----------------------------
(***************************************************************************)
(* What cancel and wait may rely on, whatever the processes of the jobs do *)
(* meanwhile: a command that is not dead keeps its CPUs, a job withdrawn   *)
(* from the queue never starts, and the state file names no dead process   *)
(* for a job that is not over.                                             *)
(*                                                                         *)
(* Every step of Coresched keeps IInvBut(X) for the jobs X that cancel has *)
(* taken the entry of (lemma StepBut); it remains to follow the steps of   *)
(* the users, and the one who holds the lock until every process with a    *)
(* recorded pid is dead.                                                   *)
(***************************************************************************)
EXTENDS Cancel, CoreschedService

(* The jobs that may be without an entry although their command has been   *)
(* started: cancel takes that of an orphan, and after a kill that of a     *)
(* command which its waiter has not reaped yet.                            *)
Exempt == purged \cup {j \in Jobs : cmd[j] \in {"zombie", "gone"}}

JobsOK == Booked /\ QueuedOnce /\ \A j \in Jobs : JobOKBut(j, Exempt)

(* A pending job has not got its resources; while its waiter waits, the    *)
(* entry shows the waiter's own pid.                                       *)
Registered(j) == j \in DOMAIN disk.pending =>
  /\ cmd[j] = "none" /\ pc[Wtr(j)] \notin {"allocated", "spawned", "running", "reaped"}
  /\ pc[Wtr(j)] \in {"waiting", "retry"} => disk.pending[j].pid = "wtr"

(* A withdrawn job is one that was queued, and is nowhere.                 *)
Nowhere(j) ==
  /\ req[j].mode = "enqueue" /\ j < disk.next /\ Unstarted(j)
  /\ ~ Occupied(j) /\ j \notin QueuedJobs /\ \A p \in Procs : j \notin taken[p]

(* The types of what the users know, and of the lock.                      *)
UsersOK ==
  /\ at \in [Users -> Places] /\ victim \in [Users -> SUBSET Jobs]
  /\ todo \in [Users -> SUBSET ((PidKinds \ {"none"}) \X Jobs)]
  /\ tree \in [Users -> SUBSET ((PidKinds \ {"none"}) \X Jobs)]
  /\ \A u \in Users : \A i, j \in victim[u] : i = j
  /\ purged \subseteq Jobs /\ withdrawn \subseteq Jobs
  /\ lock = {} \/ \E u \in Users : lock = {u}

(* While a user holds the lock, every command whose pid is recorded is     *)
(* still to be cancelled, or in the tree that is being killed.             *)
Covered(u) ==
  /\ at[u] \in {"next", "term", "kill"}
  /\ \A j \in Jobs : Running(j) /\ j \notin purged /\ disk.pids[j].pid # "none" =>
       \/ Cmd(j) \in todo[u]
       \/ at[u] \in {"term", "kill"} /\ Cmd(j) \in tree[u]

(* What the invariant says of the jobs; the rest is about the users.       *)
JobsInv ==
  /\ TypeOK /\ JobsOK
  /\ \A j \in Jobs : Registered(j)
  /\ \A j \in withdrawn : j \in Jobs /\ Nowhere(j)

CInv == JobsInv /\ UsersOK /\ \A u \in lock : Covered(u)

-----------------------------------------------------------------------------
(* The steps of Coresched.                                                 *)

LEMMA ExemptNext ==
  ASSUME NEW X, NEW j \in Jobs, JobOKBut(j, X)', j \in X => j \in Exempt'
  PROVE  JobOKBut(j, Exempt)'
BY DEF JobOKBut, TakenJobBut, StartedJobBut, Exempted

(* Who changes the life of a command.                                      *)
LEMMA CmdFrom ==
  ASSUME TypeOK, [Next]_vars, NEW j \in Jobs, cmd'[j] # cmd[j]
  PROVE  \/ Launch(j) \/ LaunchUnpinned(j) \/ CmdExits(j) \/ Reap(j)
         \/ cmd[j] \in {"running", "zombie"} /\ cmd'[j] = "gone"
<1>0. cmd \in [Jobs -> CmdStates]
  BY DEF TypeOK
<1>1. ASSUME NEW k \in Jobs, Launch(k) \/ LaunchUnpinned(k) \/ CmdExits(k) \/ Reap(k)
      PROVE  j = k
  BY <1>0, <1>1 DEF Launch, LaunchUnpinned, CmdExits, Reap
<1>2. ASSUME NEW k \in Jobs,
             \/ SubmitStep(k) \/ ParentStep(k)
             \/ UpdatePid(k) \/ AllocRun(k) \/ AllocWaits(k) \/ Sleep(k) \/ GiveUp(k)
             \/ LaunchPanics(k) \/ RecordPid(k) \/ Free(k)
      PROVE  FALSE
  BY <1>2 DEF SubmitStep, ParentStep, Register, Enqueue, Submit, RunFork, RunForkFails,
              ParentExits, UpdatePid, AllocRun, AllocWaits, Sleep, GiveUp, LaunchPanics,
              RecordPid, Free
<1>3. ASSUME NEW p \in Procs, DispatchStep(p)
      PROVE  FALSE
  BY <1>3 DEF DispatchStep, DispatchTake, DispatchStops, DispatchFork, DispatchRequeue
<1>4. ASSUME NEW a \in Clients, NEW cores \in ReserveChoices, ReserveCore(a, cores)
      PROVE  FALSE
  BY <1>4 DEF ReserveCore
<1>5. ASSUME NEW p \in Procs, Crash(p)
      PROVE  cmd[j] \in {"running", "zombie"} /\ cmd'[j] = "gone"
  <2>1. Cmd(j) # p
    BY DEF Cmd, Procs
  <2> QED
    BY <1>5, <2>1 DEF Crash, Die
<1>6. ASSUME Reboot
      PROVE  cmd[j] \in {"running", "zombie"} /\ cmd'[j] = "gone"
  <2>1. Cmd(j) \notin Procs
    BY DEF Cmd, Procs
  <2>2. Cmd(j) \in Alive => cmd[j] \in {"running", "zombie"}
    BY DEF Alive, Cmd, Wtr
  <2> QED
    BY <1>6, <2>1, <2>2 DEF Reboot, Die
<1>7. ~ UNCHANGED vars
  BY DEF vars
<1> QED
  BY <1>1, <1>2, <1>3, <1>4, <1>5, <1>6, <1>7 DEF Next, WaiterStep

(* A command that has ended does not come back.                            *)
LEMMA EndedStays ==
  ASSUME TypeOK, [Next]_vars, NEW j \in Jobs, NEW X, JobOKBut(j, X),
         cmd[j] \in {"zombie", "gone"}
  PROVE  cmd'[j] \in {"zombie", "gone"}
<1>0. cmd \in [Jobs -> CmdStates]
  BY DEF TypeOK
<1>1. ~ Launch(j) /\ ~ LaunchUnpinned(j)
  BY DEF Launch, LaunchUnpinned, JobOKBut, StartedJobBut
<1> QED
  BY <1>0, <1>1, CmdFrom DEF CmdExits, Reap

LEMMA JobsStep ==
  ASSUME TypeOK, JobsOK, [Next]_vars, UNCHANGED userVars
  PROVE  JobsOK'
<1>1. PICK X : X = Exempt
  OBVIOUS
<1>2. IInvBut(X)
  BY <1>1 DEF IInvBut, JobsOK
<1>3. IInvBut(X)'
  BY <1>2, StepBut
<1>4. \A j \in Jobs : JobOKBut(j, X)
  BY <1>2 DEF IInvBut
<1>5. \A j \in Jobs : j \in X => j \in Exempt'
  BY <1>1, <1>4, EndedStays DEF Exempt, userVars
<1>6. \A j \in Jobs : JobOKBut(j, X)'
  BY <1>3 DEF IInvBut
<1>7. \A j \in Jobs : JobOKBut(j, Exempt)'
  BY <1>5, <1>6, ExemptNext
<1> QED
  BY <1>3, <1>7 DEF IInvBut, JobsOK

-----------------------------------------------------------------------------
(* The direct runs that wait.                                              *)

(* A pending entry stays as it is, but for its pid.                        *)
LEMMA PendingEntry ==
  ASSUME TypeOK, [Next]_vars, NEW j \in DOMAIN disk.pending, j \in DOMAIN disk'.pending,
         ~ Register(j)
  PROVE  disk'.pending[j] \in {disk.pending[j], [disk.pending[j] EXCEPT !.pid = "wtr"]}
<1> DEFINE Same == disk'.pending[j] = disk.pending[j]
<1>0. /\ DOMAIN CleanedUp.pending \subseteq DOMAIN disk.pending
      /\ \A k \in DOMAIN CleanedUp.pending : CleanedUp.pending[k] = disk.pending[k]
  BY CleanedUpFacts
<1>1. ASSUME NEW k \in Jobs, SubmitStep(k)
      PROVE  Same
  BY <1>0, <1>1, RegisterFile, EnqueueFile DEF SubmitStep
<1>2. ASSUME NEW k \in Jobs, AllocRun(k) \/ AllocWaits(k) \/ GiveUp(k) \/ RecordPid(k) \/ Free(k)
      PROVE  Same
  <2>1. CASE AllocRun(k)
    BY <2>1, AllocRunFile
  <2>2. CASE AllocWaits(k)
    BY <1>0, <2>2 DEF AllocWaits
  <2>3. CASE GiveUp(k) \/ RecordPid(k) \/ Free(k)
    BY <2>3, GiveUpFile, RecordDisk, FreeFile
  <2> QED
    BY <1>2, <2>1, <2>2, <2>3
<1>3. ASSUME NEW k \in Jobs, UpdatePid(k)
      PROVE  disk'.pending[j] \in {disk.pending[j], [disk.pending[j] EXCEPT !.pid = "wtr"]}
  BY <1>3, UpdatePidFile
<1>4. ASSUME NEW p \in Procs, DispatchTake(p) \/ DispatchRequeue(p)
      PROVE  Same
  BY <1>0, <1>4, DispatchTakeFile, DispatchRequeueFile DEF TakesFrom, PutsBack
<1>5. ASSUME Idle
      PROVE  Same
  BY <1>5 DEF Idle
<1> QED
  BY <1>1, <1>2, <1>3, <1>4, <1>5, IdleSteps DEF Next, WaiterStep, DispatchStep

LEMMA UpdatePidRecords ==
  ASSUME TypeOK, NEW j \in Jobs, UpdatePid(j), j \in DOMAIN disk.pending
  PROVE  disk'.pending[j].pid = "wtr"
<1> DEFINE map == disk.pending
           m == Recorded(map, j, "wtr")
<1>1. /\ map \in JobMap(Jobs) /\ j \in DOMAIN map /\ "wtr" \in PidKinds
      /\ disk \in CoreschedState(Jobs)
  BY CleanedUpFacts DEF CoreschedState, PidKinds
<1>2. disk' = [disk EXCEPT !.pending = m]
  BY DEF UpdatePid, Recorded
<1> HIDE DEF map
<1>3. m[j].pid = "wtr"
  <2>1. map[j] \in EntryOf(Jobs)
    BY <1>1, JobMapFacts
  <2> QED
    BY <1>1, <2>1 DEF Recorded, EntryOf
<1> HIDE DEF m
<1>4. disk'.pending = m
  BY <1>1, <1>2 DEF CoreschedState
<1> QED
  BY <1>3, <1>4 DEF m

LEMMA RegisteredStep ==
  ASSUME TypeOK, NEW X, \A k \in Jobs : JobOKBut(k, X), [Next]_vars,
         NEW j \in Jobs, Registered(j)
  PROVE  Registered(j)'
<1>0. /\ Wtr(j) \in Procs /\ Sub(j) \in Procs
      /\ pc \in [Procs -> PCs] /\ taken \in [Procs -> SUBSET Jobs]
  BY ProcFacts DEF TypeOK
<1>N. \A k \in Jobs : /\ Wtr(j) = Wtr(k) => j = k
                      /\ Wtr(j) # Sub(k)
      /\ \A a \in Clients : Wtr(j) # Adm(a)
  BY ProcFacts
<1>J. FreshJob(j) /\ WaitingJob(j) /\ TakenJobBut(j, X)
  BY DEF JobOKBut
<1> SUFFICES ASSUME j \in DOMAIN disk'.pending
             PROVE  /\ cmd'[j] = "none"
                    /\ pc'[Wtr(j)] \notin {"allocated", "spawned", "running", "reaped"}
                    /\ pc'[Wtr(j)] \in {"waiting", "retry"} => disk'.pending[j].pid = "wtr"
  BY DEF Registered
<1>1. /\ j \in DOMAIN disk.pending \/ Register(j)
      /\ ~ AllocRun(j) /\ ~ GiveUp(j)
  BY PendingFrom
<1>2. CASE Register(j)
  <2>1. disk.next = j /\ cmd' = cmd /\ pc' = [pc EXCEPT ![Sub(j)] = "registered"]
    BY <1>2 DEF Register, Submit, Goto
  <2>2. Unstarted(j)
    BY <1>J, <2>1, CoreschedAssumption DEF FreshJob, Jobs
  <2> QED
    BY <1>0, <1>N, <2>1, <2>2 DEF Unstarted
<1>3. CASE ~ Register(j)
  <2>0. /\ j \in DOMAIN disk.pending /\ cmd[j] = "none" /\ req[j].mode = "run"
        /\ pc[Wtr(j)] \notin {"allocated", "spawned", "running", "reaped"}
        /\ pc[Wtr(j)] \in {"waiting", "retry"} => disk.pending[j].pid = "wtr"
    BY <1>1, <1>3, <1>J DEF Registered, WaitingJob
  <2>1. cmd'[j] = "none"
    BY <2>0, CmdFrom DEF Launch, LaunchUnpinned, CmdExits, Reap
  <2>2. ~ \E q \in Procs : j \in taken[q]
    BY <1>J, <2>0 DEF TakenJobBut
  <2>3. pc'[Wtr(j)] # pc[Wtr(j)] =>
          \/ UpdatePid(j) /\ pc'[Wtr(j)] = "waiting"
          \/ pc[Wtr(j)] \in {"waiting", "retry"} /\ pc'[Wtr(j)] \in {"waiting", "retry"}
          \/ pc'[Wtr(j)] \in {"started", "dispatch", "fork", "exited"}
    <3> SUFFICES ASSUME pc'[Wtr(j)] # pc[Wtr(j)]
                 PROVE  \/ UpdatePid(j) /\ pc'[Wtr(j)] = "waiting"
                        \/ /\ pc[Wtr(j)] \in {"waiting", "retry"}
                           /\ pc'[Wtr(j)] \in {"waiting", "retry"}
                        \/ pc'[Wtr(j)] \in {"started", "dispatch", "fork", "exited"}
      OBVIOUS
    <3>1. Final(Wtr(j)) = "exited"
      BY DEF Final, Wtr
    <3>2. CASE DispatchStep(Wtr(j))
      BY <1>0, <3>1, <3>2 DEF DispatchStep, DispatchTake, DispatchStops, DispatchFork,
                              DispatchRequeue, Goto
    <3>3. CASE WaiterStep(j) \/ RunFork(j)
      BY <1>0, <1>1, <2>0, <3>3
         DEF WaiterStep, UpdatePid, AllocWaits, Sleep, Launch, LaunchUnpinned,
             LaunchPanics, RecordPid, Reap, Free, Goto, RunFork
    <3> QED
      BY <1>0, <1>N, <2>2, <3>1, <3>2, <3>3, PcMoves
  <2>4. pc'[Wtr(j)] \notin {"allocated", "spawned", "running", "reaped"}
    BY <2>0, <2>3
  <2>5. ASSUME pc'[Wtr(j)] \in {"waiting", "retry"}
        PROVE  disk'.pending[j].pid = "wtr"
    <3>1. CASE UpdatePid(j)
      BY <2>0, <3>1, UpdatePidRecords
    <3>2. CASE ~ UpdatePid(j)
      <4>1. disk.pending[j].pid = "wtr" /\ disk.pending[j] \in EntryOf(Jobs)
        BY <2>0, <2>3, <2>5, <3>2, CleanedUpFacts, JobMapFacts DEF CoreschedState
      <4> QED
        BY <1>3, <2>0, <4>1, PendingEntry DEF EntryOf
    <3> QED
      BY <3>1, <3>2
  <2> QED
    BY <2>1, <2>4, <2>5
<1> QED
  BY <1>2, <1>3

-----------------------------------------------------------------------------
(* A withdrawn job stays nowhere.                                          *)

LEMMA WhoTakes ==
  ASSUME TypeOK, [Next]_vars, NEW p \in Procs, NEW j \in taken'[p] \ taken[p]
  PROVE  j \in QueuedJobs
<1>0. taken \in [Procs -> SUBSET Jobs]
  BY DEF TypeOK
<1>1. ASSUME NEW q \in Procs, DispatchTake(q)
      PROVE  j \in QueuedJobs
  <2>1. PICK i, job : TakesFrom(q, i, job)
    BY <1>1, DispatchTakeFile
  <2> QED
    BY <1>0, <2>1 DEF TakesFrom, QueuedJobs
<1>2. ASSUME NEW q \in Procs, DispatchStops(q) \/ DispatchFork(q) \/ DispatchRequeue(q)
      PROVE  FALSE
  BY <1>0, <1>2 DEF DispatchStops, DispatchFork, DispatchRequeue
<1>3. ASSUME NEW D, Die(D)
      PROVE  FALSE
  BY <1>0, <1>3 DEF Die
<1>4. ASSUME NEW k \in Jobs, SubmitStep(k) \/ ParentStep(k) \/ WaiterStep(k) \/ CmdExits(k)
      PROVE  FALSE
  BY <1>4 DEF SubmitStep, ParentStep, WaiterStep, Register, Enqueue, Submit, RunFork,
              RunForkFails, ParentExits, UpdatePid, AllocRun, AllocWaits, Sleep, GiveUp,
              Launch, LaunchUnpinned, LaunchPanics, RecordPid, Reap, Free, CmdExits
<1> QED
  BY <1>1, <1>2, <1>3, <1>4 DEF Next, DispatchStep, ReserveCore, Crash, Reboot, vars

LEMMA WhoQueues ==
  ASSUME TypeOK, QueuedOnce, [Next]_vars, NEW j \in QueuedJobs' \ QueuedJobs
  PROVE  (j \in Jobs /\ Enqueue(j)) \/ \E p \in Procs : j \in taken[p]
<1> DEFINE Post == (j \in Jobs /\ Enqueue(j)) \/ \E p \in Procs : j \in taken[p]
<1>0. /\ QueuedJobs = Jids(disk.queued) /\ QueuedJobs' = Jids(disk'.queued)
      /\ disk.queued \in Seq(EntryOf(Jobs)) /\ CleanedUp.queued = disk.queued
      /\ QueuedOnce = Distinct(disk.queued)
  BY CleanedUpFacts DEF QueuedJobs, Jids, CoreschedState, QueuedOnce, Distinct
<1>1. disk'.queued # disk.queued
  BY <1>0
<1>2. ASSUME NEW k \in Jobs, SubmitStep(k)
      PROVE  Post
  <2>1. CASE Register(k)
    BY <1>1, <2>1, RegisterFile
  <2>2. CASE Enqueue(k)
    <3> DEFINE e == JobEntry(k, req[k], "none", NoGrant)
    <3>1. e \in EntryOf(Jobs) /\ e.jid = k /\ disk'.queued = Append(disk.queued, e)
      BY <2>2, EnqueueFile DEF JobEntry
    <3> HIDE DEF e
    <3>2. Jids(disk'.queued) = Jids(disk.queued) \cup {k}
      BY <1>0, <3>1, AppendJids
    <3> QED
      BY <1>0, <2>2, <3>2
  <2> QED
    BY <1>2, <2>1, <2>2 DEF SubmitStep
<1>3. ASSUME NEW k \in Jobs,
             UpdatePid(k) \/ GiveUp(k) \/ RecordPid(k) \/ Free(k) \/ AllocRun(k) \/ AllocWaits(k)
      PROVE  FALSE
  BY <1>0, <1>1, <1>3, UpdatePidFile, GiveUpFile, RecordDisk, FreeFile, AllocRunFile
     DEF AllocWaits
<1>4. ASSUME NEW p \in Procs, DispatchTake(p)
      PROVE  FALSE
  <2>1. PICK i, job : TakesFrom(p, i, job)
    BY <1>4, DispatchTakeFile
  <2>2. i \in DOMAIN disk.queued /\ disk'.queued = RemoveAt(disk.queued, i)
    BY <2>1 DEF TakesFrom
  <2>3. Jids(disk'.queued) \subseteq Jids(disk.queued)
    BY <1>0, <2>2, RemoveJids
  <2> QED
    BY <1>0, <2>3
<1>5. ASSUME NEW p \in Procs, DispatchRequeue(p)
      PROVE  Post
  <2>1. PICK k : PutsBack(p, k)
    BY <1>5, DispatchRequeueFile
  <2> DEFINE e == JobEntry(k, req[k], "none", NoGrant)
  <2>2. /\ k \in taken[p] /\ e \in EntryOf(Jobs) /\ e.jid = k
        /\ disk'.queued = Cons(e, disk.queued)
    BY <2>1 DEF PutsBack, JobEntry
  <2> HIDE DEF e
  <2>3. Jids(disk'.queued) = Jids(disk.queued) \cup {k}
    BY <1>0, <2>2, ConsJids
  <2> QED
    BY <1>0, <2>2, <2>3
<1>6. ~ Idle
  BY <1>1 DEF Idle
<1> HIDE DEF Post
<1>7. Post
  BY <1>2, <1>3, <1>4, <1>5, <1>6, IdleSteps DEF Next, WaiterStep, DispatchStep
<1> QED
  BY <1>7 DEF Post

LEMMA NumbersGrow ==
  ASSUME TypeOK, [Next]_vars
  PROVE  disk.next <= disk'.next
<1>0. disk.next \in Nat
  BY DEF TypeOK, StateTypeOK
<1>1. ASSUME NEW k \in Jobs, SubmitStep(k)
      PROVE  disk.next <= disk'.next
  BY <1>0, <1>1, RegisterFile, EnqueueFile DEF SubmitStep
<1>2. ASSUME disk'.next = disk.next
      PROVE  disk.next <= disk'.next
  BY <1>0, <1>2
<1>3. ASSUME NEW k \in Jobs,
             UpdatePid(k) \/ GiveUp(k) \/ RecordPid(k) \/ Free(k) \/ AllocRun(k) \/ AllocWaits(k)
      PROVE  disk'.next = disk.next
  BY <1>3, UpdatePidFile, GiveUpFile, RecordDisk, FreeFile, AllocRunFile, CleanedUpFacts
     DEF AllocWaits
<1>4. ASSUME NEW p \in Procs, DispatchTake(p) \/ DispatchRequeue(p)
      PROVE  disk'.next = disk.next
  BY <1>4, DispatchTakeFile, DispatchRequeueFile DEF TakesFrom, PutsBack
<1>5. ASSUME Idle
      PROVE  disk'.next = disk.next
  BY <1>5 DEF Idle
<1> QED
  BY <1>1, <1>2, <1>3, <1>4, <1>5, IdleSteps DEF Next, WaiterStep, DispatchStep

LEMMA NowhereStep ==
  ASSUME TypeOK, QueuedOnce, NEW X, \A k \in Jobs : JobOKBut(k, X), [Next]_vars,
         NEW j \in Jobs, Nowhere(j)
  PROVE  Nowhere(j)'
<1>0. /\ Wtr(j) \in Procs /\ pc[Wtr(j)] = "idle" /\ cmd[j] = "none" /\ disk.next \in Nat
      /\ req[j].mode = "enqueue" /\ j < disk.next /\ j \in Nat
      /\ WaitingJob(j)
  BY ProcFacts, CoreschedAssumption DEF Nowhere, Unstarted, TypeOK, StateTypeOK, Jobs, JobOKBut
<1>N. \A k \in Jobs : Wtr(j) # Sub(k) /\ (Wtr(j) = Wtr(k) => j = k)
      /\ \A a \in Clients : Wtr(j) # Adm(a)
  BY ProcFacts
<1>1. req'[j].mode = "enqueue"
  BY <1>0, RequestsStay
<1>2. j < disk'.next
  <2>1. disk.next <= disk'.next /\ disk'.next \in Nat
    BY NumbersGrow, TypeStep DEF TypeOK, StateTypeOK
  <2> QED
    BY <1>0, <2>1
<1>3. pc'[Wtr(j)] = "idle"
  <2> SUFFICES ASSUME pc'[Wtr(j)] # pc[Wtr(j)]
               PROVE  FALSE
    BY <1>0
  <2>1. ~ WaiterStep(j) /\ ~ DispatchStep(Wtr(j))
    BY <1>0 DEF WaiterStep, UpdatePid, AllocRun, AllocWaits, Sleep, GiveUp, Launch,
                LaunchUnpinned, LaunchPanics, RecordPid, Reap, Free, DispatchStep,
                DispatchTake, DispatchStops, DispatchFork, DispatchRequeue
  <2>2. ~ RunFork(j)
    BY <1>0 DEF RunFork, WaitingJob
  <2>3. ~ Live(Wtr(j)) /\ \A q \in Procs : j \notin taken[q]
    BY <1>0 DEF Live, Nowhere
  <2> QED
    BY <1>0, <1>N, <2>1, <2>2, <2>3, PcMoves
<1>4. cmd'[j] = "none"
  BY <1>0, CmdFrom DEF Launch, LaunchUnpinned, CmdExits, Reap
<1>5. j \notin DOMAIN disk'.pids
  <2>1. ~ AllocRun(j)
    BY <1>0 DEF AllocRun
  <2>2. ASSUME NEW p \in Procs, NEW i, NEW job, TakesFrom(p, i, job)
        PROVE  job.jid # j
    BY <2>2 DEF TakesFrom, Nowhere, QueuedJobs
  <2> QED
    BY <2>1, <2>2, WhoBooks DEF Nowhere, Occupied
<1>6. j \notin QueuedJobs'
  <2>1. ~ Enqueue(j)
    BY <1>0 DEF Enqueue, Submit
  <2> QED
    BY <2>1, WhoQueues DEF Nowhere
<1>7. \A p \in Procs : j \notin taken'[p]
  BY WhoTakes DEF Nowhere
<1> QED
  BY <1>1, <1>2, <1>3, <1>4, <1>5, <1>6, <1>7 DEF Nowhere, Unstarted, Occupied

-----------------------------------------------------------------------------
(* The one who holds the lock, while others go on without it.              *)

LEMMA CoveredFrame ==
  ASSUME NEW v \in Users, Covered(v),
         at'[v] = at[v], todo'[v] = todo[v], tree'[v] = tree[v],
         disk'.pids = disk.pids, purged \subseteq purged',
         \A j \in Jobs : Running(j)' => Running(j)
  PROVE  Covered(v)'
BY DEF Covered

LEMMA CoveredStep ==
  ASSUME TypeOK, \A j \in Jobs : JobOKBut(j, Exempt), OpenStep, UNCHANGED userVars,
         NEW v \in Users, Covered(v)
  PROVE  Covered(v)'
<1>1. [Next]_vars
  BY DEF OpenStep, Next, WaiterStep, DispatchStep
<1>2. disk'.pids = disk.pids
  <2>1. ASSUME NEW j \in Jobs,
               \/ ParentStep(j) \/ Sleep(j) \/ CmdExits(j) \/ Reap(j)
               \/ Launch(j) \/ LaunchUnpinned(j) \/ LaunchPanics(j)
        PROVE  Idle
    BY <2>1, IdleSteps
  <2>2. ASSUME NEW p \in Procs, DispatchFork(p) \/ Crash(p)
        PROVE  Idle
    BY <2>2, IdleSteps
  <2> QED
    BY <2>1, <2>2 DEF OpenStep, Idle
<1>3. /\ at' = at /\ todo' = todo /\ tree' = tree /\ purged' = purged
      /\ cmd \in [Jobs -> CmdStates]
  BY DEF userVars, TypeOK
<1>4. ASSUME NEW j \in Jobs, cmd'[j] = "running", cmd[j] # "running", j \notin purged
      PROVE  disk.pids[j].pid = "none"
  <2>1. pc[Wtr(j)] = "allocated"
    BY <1>1, <1>3, <1>4, CmdFrom DEF CmdExits, Reap, Launch, LaunchUnpinned
  <2>2. cmd[j] = "none" /\ (Books(j, {"none"}) \/ Exempted(j, Exempt))
    BY <2>1 DEF JobOKBut, StartedJobBut
  <2> QED
    BY <1>4, <2>2 DEF Books, Exempted, Exempt
<1> QED
  BY <1>2, <1>3, <1>4 DEF Covered, Running

-----------------------------------------------------------------------------
(* The steps of the users.                                                 *)

LEMMA QueuedIsNowhereElse ==
  ASSUME TypeOK, NEW X, \A k \in Jobs : JobOKBut(k, X), NEW j \in QueuedJobs
  PROVE  /\ j \in Jobs /\ req[j].mode = "enqueue" /\ j < disk.next /\ Unstarted(j)
         /\ ~ Occupied(j) /\ \A p \in Procs : j \notin taken[p]
<1>1. disk.queued \in Seq(EntryOf(Jobs)) /\ disk.next \in Nat
  BY CleanedUpFacts DEF CoreschedState
<1>2. j \in Jobs
  <2>1. PICK i \in DOMAIN disk.queued : j = disk.queued[i].jid
    BY DEF QueuedJobs
  <2>2. disk.queued[i] \in EntryOf(Jobs)
    BY <1>1, <2>1
  <2> QED
    BY <2>1, <2>2 DEF EntryOf
<1>3. JobOKBut(j, X) /\ j \in Nat
  BY <1>2, CoreschedAssumption DEF Jobs
<1> QED
  BY <1>1, <1>2, <1>3 DEF JobOKBut, FreshJob, WaitingJob, TakenJobBut

(* Steps that only read.                                                   *)
LEMMA JobsUnread ==
  ASSUME JobsInv, UNCHANGED vars, purged' = purged, withdrawn' = withdrawn
  PROVE  JobsInv'
<1>1. /\ disk' = disk /\ req' = req /\ pc' = pc /\ taken' = taken /\ cmd' = cmd
      /\ pin' = pin /\ mask' = mask /\ parent' = parent /\ faults' = faults
  BY DEF vars
<1>2. TypeOK'
  BY <1>1 DEF JobsInv, TypeOK
<1>3. Booked' /\ QueuedOnce'
  BY <1>1 DEF JobsInv, JobsOK, Booked, QueuedOnce
<1>4. PICK X : X = Exempt
  OBVIOUS
<1>5. /\ TypeOK /\ Exempt' = X /\ \A k \in Jobs : JobOKBut(k, X)
  BY <1>1, <1>4 DEF JobsInv, JobsOK, Exempt
<1>6. \A k \in Jobs : Untouched(k)
  BY <1>1 DEF Untouched, Kept, Moves, CmdMoves, Needed, Books, Occupied
<1>7. disk.next <= disk'.next
  BY <1>1, <1>5 DEF TypeOK, StateTypeOK
<1>8. \A k \in Jobs : JobOKBut(k, X)'
  BY <1>1, <1>2, <1>5, <1>6, <1>7, FrameAll
<1>9. \A k \in Jobs : JobOKBut(k, Exempt)'
  BY <1>5, <1>8, ExemptNext
<1>10. \A j \in Jobs : Registered(j)'
  BY <1>1 DEF JobsInv, Registered
<1>11. \A j \in withdrawn' : j \in Jobs /\ Nowhere(j)'
  BY <1>1 DEF JobsInv, Nowhere, Unstarted, Occupied, QueuedJobs
<1> QED
  BY <1>2, <1>3, <1>9, <1>10, <1>11 DEF JobsInv, JobsOK

(* A signal ends processes, and loses no entry.                            *)
LEMMA JobsKilled ==
  ASSUME JobsInv, NEW D, Kill(D), purged' = purged, withdrawn' = withdrawn
  PROVE  JobsInv' /\ \A j \in Jobs : Running(j)' => Running(j)
<1>0. /\ TypeOK /\ disk' = disk /\ req' = req /\ pin' = pin /\ mask' = mask
      /\ parent' = parent /\ faults' = faults
  BY DEF JobsInv, Kill
<1>P. \A p \in Procs : pc'[p] = pc[p] \/ (Live(p) /\ pc'[p] = Final(p))
  BY DEF Kill
<1>T. \A p \in Procs : taken'[p] \subseteq taken[p]
  BY DEF Kill
<1>C. \A j \in Jobs : CmdMoves(j)
  BY DEF Kill, CmdMoves
<1>1. TypeOK'
  <2>1. pc' \in [Procs -> PCs]
    BY <1>0 DEF Kill, TypeOK, Final, PCs
  <2>2. taken' \in [Procs -> SUBSET Jobs]
    BY <1>0 DEF Kill, TypeOK
  <2>3. cmd' \in [Jobs -> CmdStates]
    BY <1>0 DEF Kill, TypeOK, CmdStates
  <2> QED
    BY <1>0, <2>1, <2>2, <2>3 DEF TypeOK
<1>2. Booked' /\ QueuedOnce'
  BY <1>0 DEF JobsInv, JobsOK, Booked, QueuedOnce
<1>3. PICK X : X = Exempt
  OBVIOUS
<1>4. \A k \in Jobs : JobOKBut(k, X)
  BY <1>3 DEF JobsInv, JobsOK
<1>5. ASSUME NEW k \in Jobs
      PROVE  Untouched(k)
  <2>1. Kept(k)
    BY <1>0, SameKept
  <2>2. Final(Sub(k)) = "exited" /\ Final(Wtr(k)) = "exited"
    BY DEF Final, Sub, Wtr
  <2>3. Moves(Sub(k)) /\ Moves(Wtr(k))
    BY <1>P, <2>2, ProcFacts DEF Moves, Live
  <2> QED
    BY <1>0, <1>C, <1>T, <2>1, <2>3 DEF Untouched
<1>6. disk.next <= disk'.next
  BY <1>0 DEF TypeOK, StateTypeOK
<1>7. \A k \in Jobs : JobOKBut(k, X)'
  BY <1>0, <1>1, <1>4, <1>5, <1>6, FrameAll
<1>8. ASSUME NEW k \in Jobs
      PROVE  JobOKBut(k, Exempt)'
  <2>1. k \in X => k \in Exempt'
    BY <1>3, <1>C DEF Exempt, CmdMoves
  <2> QED
    BY <1>7, <2>1, ExemptNext
<1>9. ASSUME NEW j \in Jobs
      PROVE  Registered(j)'
  <2>1. pc'[Wtr(j)] \in {pc[Wtr(j)], "exited"}
    BY <1>P, ProcFacts DEF Final, Wtr
  <2> QED
    BY <1>0, <1>C, <2>1 DEF JobsInv, Registered, CmdMoves
<1>10. ASSUME NEW j \in withdrawn
       PROVE  Nowhere(j)'
  <2>1. Nowhere(j) /\ j \in Jobs
    BY DEF JobsInv
  <2> QED
    BY <1>0, <1>C, <1>P, <1>T, <2>1, ProcFacts
       DEF Nowhere, Unstarted, Occupied, QueuedJobs, CmdMoves, Live
<1>11. \A j \in Jobs : Running(j)' => Running(j)
  BY <1>C DEF Running, CmdMoves
<1> QED
  BY <1>1, <1>2, <1>8, <1>9, <1>10, <1>11 DEF JobsInv, JobsOK

(* An entry goes.  Whoever needed it is exempt from now on.                *)
LEMMA EntryGone ==
  ASSUME NEW X, NEW k \in Jobs, JobOKBut(k, X), Needed(k) => k \in X,
         k \notin DOMAIN disk'.pids, disk'.next = disk.next,
         UNCHANGED <<req, pc, taken, cmd, pin>>,
         k \in Jids(disk'.queued) => k \in Jids(disk.queued),
         k \in DOMAIN disk'.pending => k \in DOMAIN disk.pending
  PROVE  JobOKBut(k, X)'
<1>1. QueuedJobs = Jids(disk.queued) /\ QueuedJobs' = Jids(disk'.queued)
  BY DEF QueuedJobs, Jids
<1>2. FreshJob(k)' /\ WaitingJob(k)'
  BY <1>1 DEF JobOKBut, FreshJob, WaitingJob, Unstarted, Occupied
<1>3. TakenJobBut(k, X)'
  BY <1>1 DEF JobOKBut, TakenJobBut, Unstarted, Needed, Exempted, Occupied
<1>4. StartedJobBut(k, X)'
  BY DEF JobOKBut, StartedJobBut, Needed, Exempted, Occupied
<1> QED
  BY <1>2, <1>3, <1>4 DEF JobOKBut

(* A step that does nothing but remove from the file, as cancel does.      *)
LEMMA JobsRemoved ==
  ASSUME JobsInv, TypeOK', Booked', QueuedOnce',
         UNCHANGED <<req, pc, taken, cmd, pin>>, disk'.next = disk.next,
         Jids(disk'.queued) \subseteq Jids(disk.queued),
         DOMAIN disk'.pending \subseteq DOMAIN disk.pending,
         \A k \in DOMAIN disk'.pending : disk'.pending[k] = disk.pending[k],
         DOMAIN disk'.pids \subseteq DOMAIN disk.pids,
         \A k \in DOMAIN disk'.pids : disk'.pids[k] = disk.pids[k],
         purged \subseteq purged',
         \A k \in DOMAIN disk.pids \ DOMAIN disk'.pids : Needed(k) => k \in Exempt',
         withdrawn' \subseteq withdrawn \cup (Jids(disk.queued) \ Jids(disk'.queued))
  PROVE  JobsInv'
<1>0. /\ TypeOK /\ req' = req /\ pc' = pc /\ taken' = taken /\ cmd' = cmd /\ pin' = pin
      /\ \A k \in Jobs : JobOKBut(k, Exempt)
  BY DEF JobsInv, JobsOK
<1>1. PICK Y : Y = Exempt'
  OBVIOUS
<1>2. \A k \in Jobs : k \in Exempt => k \in Y
  BY <1>0, <1>1 DEF Exempt
<1>3. PICK X : X = Exempt
  OBVIOUS
<1>4. \A k \in Jobs : JobOKBut(k, Y)
  BY <1>0, <1>2, <1>3, ExemptMore
<1>5. disk.next \in Nat /\ disk'.next \in Nat /\ disk.next <= disk'.next
  BY <1>0 DEF TypeOK, StateTypeOK
<1>6. ASSUME NEW k \in Jobs
      PROVE  JobOKBut(k, Y)'
  <2>1. CASE k \in DOMAIN disk.pids \ DOMAIN disk'.pids
    BY <1>0, <1>1, <1>4, <2>1, EntryGone
  <2>2. CASE k \notin DOMAIN disk.pids \ DOMAIN disk'.pids
    <3>1. Kept(k)
      BY <2>2, SameKept
    <3>2. Untouched(k)
      BY <1>0, <3>1 DEF Untouched, Moves, CmdMoves
    <3> QED
      BY <1>0, <1>4, <1>5, <3>2, Frame
  <2> QED
    BY <2>1, <2>2
<1>7. \A k \in Jobs : JobOKBut(k, Exempt)'
  BY <1>1, <1>6, ExemptNext
<1>8. \A j \in Jobs : Registered(j)'
  BY <1>0 DEF JobsInv, Registered
<1>9. QueuedJobs = Jids(disk.queued) /\ QueuedJobs' = Jids(disk'.queued)
  BY DEF QueuedJobs, Jids
<1>10. ASSUME NEW j \in withdrawn'
       PROVE  j \in Jobs /\ Nowhere(j)'
  <2>1. CASE j \in withdrawn
    <3>1. j \in Jobs /\ Nowhere(j)
      BY <2>1 DEF JobsInv
    <3> QED
      BY <1>0, <1>9, <3>1 DEF Nowhere, Unstarted, Occupied
  <2>2. CASE j \in QueuedJobs /\ j \notin QueuedJobs'
    <3>1. /\ j \in Jobs /\ req[j].mode = "enqueue" /\ j < disk.next /\ Unstarted(j)
          /\ ~ Occupied(j) /\ \A p \in Procs : j \notin taken[p]
      BY <1>0, <1>4, <2>2, QueuedIsNowhereElse
    <3> QED
      BY <1>0, <2>2, <3>1 DEF Nowhere, Unstarted, Occupied
  <2> QED
    BY <1>9, <2>1, <2>2
<1> QED
  BY <1>7, <1>8, <1>10 DEF JobsInv, JobsOK

(* The steps that only read the state file.                                *)
LEMMA UserReads ==
  ASSUME CInv, NEW u \in Users,
         \/ \E j \in Jobs : Begin(u, "cancel", j, "queue") \/ Begin(u, "wait", j, "wait")
         \/ CancelLookup(u) \/ CollectTree(u) \/ CancelAll(u) \/ WaitReturns(u)
  PROVE  CInv'
<1>0. /\ JobsInv /\ UsersOK /\ TypeOK /\ at[u] \in Places
      /\ at \in [Users -> Places] /\ victim \in [Users -> SUBSET Jobs]
      /\ todo \in [Users -> SUBSET ((PidKinds \ {"none"}) \X Jobs)]
      /\ tree \in [Users -> SUBSET ((PidKinds \ {"none"}) \X Jobs)]
      /\ \A v \in Users : \A i, j \in victim[v] : i = j
      /\ purged \subseteq Jobs /\ withdrawn \subseteq Jobs
      /\ \A v \in lock : v \in Users /\ Covered(v)
      /\ lock = {} \/ \E v \in Users : lock = {v}
  BY DEF CInv, UsersOK, JobsInv
<1>1. /\ UNCHANGED vars /\ purged' = purged /\ withdrawn' = withdrawn
      /\ disk' = disk /\ cmd' = cmd
  BY DEF Begin, CancelLookup, CollectTree, CancelAll, WaitReturns, vars
<1>2. JobsInv'
  BY <1>0, <1>1, JobsUnread
<1>E. \A pid \in PidKinds, j \in Jobs : pid # "none" =>
        <<pid, j>> \in (PidKinds \ {"none"}) \X Jobs
  OBVIOUS
<1>D. /\ DOMAIN disk.pids \subseteq Jobs /\ DOMAIN disk.pending \subseteq Jobs
      /\ \A j \in DOMAIN disk.pids : disk.pids[j].pid \in PidKinds
      /\ \A j \in DOMAIN disk.pending : disk.pending[j].pid \in PidKinds
  BY <1>0, CleanedUpFacts, JobMapFacts DEF CoreschedState, EntryOf
<1> DEFINE Post == UsersOK' /\ \A v \in lock' : Covered(v)'
<1>3. ASSUME NEW j \in Jobs, NEW op, NEW place \in {"queue", "wait"}, Begin(u, op, j, place)
      PROVE  Post
  <2>1. /\ at[u] = "idle" /\ at' = [at EXCEPT ![u] = place] /\ place \in Places
        /\ victim' = [victim EXCEPT ![u] = {j}]
        /\ todo' = todo /\ tree' = tree /\ lock' = lock
    BY <1>3 DEF Begin, Move, Places
  <2>2. UsersOK'
    BY <1>0, <1>1, <2>1 DEF UsersOK
  <2>3. ASSUME NEW v \in lock
        PROVE  Covered(v)'
    <3>1. v # u /\ at'[v] = at[v]
      BY <1>0, <2>1 DEF Covered
    <3> QED
      BY <1>0, <1>1, <2>1, <3>1, CoveredFrame DEF Running
  <2> QED
    BY <2>1, <2>2, <2>3
<1>4. ASSUME CancelLookup(u)
      PROVE  Post
  <2>1. PICK j \in victim[u] :
          IF EntryPid(j) = "none"
          THEN Move(u, "purge") /\ UNCHANGED todo
          ELSE Move(u, "next") /\ todo' = [todo EXCEPT ![u] = {<<EntryPid(j), j>>}]
    BY <1>4 DEF CancelLookup
  <2>2. j \in Jobs /\ EntryPid(j) \in PidKinds
    BY <1>0, <1>D DEF EntryPid, PidKinds
  <2>3. /\ at' \in [Users -> Places] /\ lock = {} /\ lock' = {}
        /\ victim' = victim /\ tree' = tree
    BY <1>0, <1>4, <2>1 DEF CancelLookup, Move, Places
  <2>4. todo' \in [Users -> SUBSET ((PidKinds \ {"none"}) \X Jobs)]
    BY <1>0, <1>E, <2>1, <2>2
  <2> QED
    BY <1>0, <1>1, <2>3, <2>4 DEF UsersOK
<1>5. ASSUME CollectTree(u)
      PROVE  Post
  <2>1. PICK target \in todo[u] :
          /\ tree' = [tree EXCEPT ![u] = CollectProcessTree(target)]
          /\ todo' = [todo EXCEPT ![u] = todo[u] \ {target}]
    BY <1>5 DEF CollectTree
  <2>2. /\ target \in CollectProcessTree(target)
        /\ CollectProcessTree(target) \in SUBSET ((PidKinds \ {"none"}) \X Jobs)
    BY <1>0 DEF CollectProcessTree, PidKinds
  <2>3. /\ at[u] = "next" /\ at' = [at EXCEPT ![u] = "term"] /\ lock' = lock
        /\ victim' = victim
    BY <1>5 DEF CollectTree, Move
  <2>4. UsersOK'
    BY <1>0, <1>1, <2>1, <2>2, <2>3 DEF UsersOK, Places
  <2>5. ASSUME NEW v \in lock
        PROVE  Covered(v)'
    <3>1. CASE v = u
      <4>1. Covered(u) /\ at'[u] = "term" /\ tree'[u] = CollectProcessTree(target)
            /\ todo'[u] = todo[u] \ {target}
        BY <1>0, <2>1, <2>3, <3>1
      <4> QED
        BY <1>1, <2>2, <2>3, <3>1, <4>1 DEF Covered, Running
    <3>2. CASE v # u
      BY <1>0, <1>1, <2>1, <2>3, <3>2, CoveredFrame DEF Running
    <3> QED
      BY <3>1, <3>2
  <2> QED
    BY <2>3, <2>4, <2>5
<1>6. ASSUME CancelAll(u)
      PROVE  Post
  <2> DEFINE pids == RecordedPids(disk.pids) \cup RecordedPids(disk.pending)
  <2>1. /\ at' = [at EXCEPT ![u] = "next"] /\ lock' = {u} /\ victim' = victim
        /\ tree' = tree /\ todo' = [todo EXCEPT ![u] = pids]
    BY <1>6 DEF CancelAll, Move
  <2>2. pids \in SUBSET ((PidKinds \ {"none"}) \X Jobs)
    BY <1>D DEF RecordedPids
  <2>3. ASSUME NEW j \in Jobs, Running(j), j \notin purged, disk.pids[j].pid # "none"
        PROVE  Cmd(j) \in pids
    <3>1. JobOKBut(j, Exempt) /\ j \notin Exempt
      BY <1>0, <2>3 DEF JobsInv, JobsOK, Exempt, Running
    <3>2. j \in DOMAIN disk.pids /\ disk.pids[j].pid = "cmd"
      BY <2>3, <3>1 DEF JobOKBut, StartedJobBut, Running, Books, Occupied, Exempted
    <3> QED
      BY <3>2 DEF RecordedPids, Cmd
  <2> HIDE DEF pids
  <2>4. UsersOK'
    BY <1>0, <1>1, <2>1, <2>2 DEF UsersOK, Places
  <2>5. at'[u] = "next" /\ todo'[u] = pids
    BY <1>0, <2>1
  <2>6. Covered(u)'
    BY <1>1, <2>3, <2>5 DEF Covered, Running
  <2> QED
    BY <2>1, <2>4, <2>6
<1>7. ASSUME WaitReturns(u)
      PROVE  Post
  BY <1>0, <1>1, <1>7 DEF WaitReturns, Move, UsersOK, Places
<1> HIDE DEF Post
<1>8. Post
  BY <1>3, <1>4, <1>5, <1>6, <1>7
<1> QED
  BY <1>2, <1>8 DEF CInv, Post

(* The kill of a process tree, and of the user's own process.              *)
LEMMA UserSignals ==
  ASSUME CInv, NEW u \in Users, Terminate(u) \/ KillRest(u) \/ UserKilled(u)
  PROVE  CInv'
<1>0. /\ JobsInv /\ UsersOK /\ TypeOK
      /\ at \in [Users -> Places] /\ victim \in [Users -> SUBSET Jobs]
      /\ todo \in [Users -> SUBSET ((PidKinds \ {"none"}) \X Jobs)]
      /\ tree \in [Users -> SUBSET ((PidKinds \ {"none"}) \X Jobs)]
      /\ \A v \in Users : \A i, j \in victim[v] : i = j
      /\ purged \subseteq Jobs /\ withdrawn \subseteq Jobs
      /\ \A v \in lock : v \in Users /\ Covered(v)
      /\ lock = {} \/ \E v \in Users : lock = {v}
  BY DEF CInv, UsersOK, JobsInv
<1>1. ASSUME Terminate(u)
      PROVE  CInv'
  <2>1. PICK D : Kill(D)
    BY <1>1 DEF Terminate
  <2>2. /\ at[u] = "term" /\ at' = [at EXCEPT ![u] = "kill"] /\ disk' = disk
        /\ UNCHANGED <<victim, todo, tree, lock, purged, withdrawn>>
    BY <1>1, <2>1 DEF Terminate, Move, Kill
  <2>3. JobsInv' /\ \A j \in Jobs : Running(j)' => Running(j)
    BY <1>0, <2>1, <2>2, JobsKilled
  <2>4. UsersOK'
    BY <1>0, <2>2 DEF UsersOK, Places
  <2>5. ASSUME NEW v \in lock
        PROVE  Covered(v)'
    <3>1. CASE v = u
      <4>1. Covered(u) /\ at'[u] = "kill"
        BY <1>0, <2>2, <3>1
      <4> QED
        BY <2>2, <2>3, <3>1, <4>1 DEF Covered
    <3>2. CASE v # u
      BY <1>0, <2>2, <2>3, <3>2, CoveredFrame
    <3> QED
      BY <3>1, <3>2
  <2> QED
    BY <2>2, <2>3, <2>4, <2>5 DEF CInv
<1>2. ASSUME KillRest(u)
      PROVE  CInv'
  <2>1. Kill(tree[u])
    BY <1>2 DEF KillRest
  <2>2. /\ at[u] = "kill" /\ disk' = disk
        /\ at' = [at EXCEPT ![u] = IF u \in lock THEN "next" ELSE "done"]
        /\ tree' = [tree EXCEPT ![u] = {}]
        /\ UNCHANGED <<victim, todo, lock, purged, withdrawn>>
    BY <1>2, <2>1 DEF KillRest, Move, Kill
  <2>3. JobsInv' /\ \A j \in Jobs : Running(j)' => Running(j)
    BY <1>0, <2>1, <2>2, JobsKilled
  <2>4. UsersOK'
    BY <1>0, <2>2 DEF UsersOK, Places
  <2>5. ASSUME NEW j \in Jobs, Running(j)'
        PROVE  Cmd(j) \notin tree[u]
    <3>1. cmd'[j] = IF cmd[j] = "zombie" \/ (cmd[j] = "running" /\ Cmd(j) \in tree[u])
                    THEN IF Wtr(j) \in tree[u] \/ ~ Live(Wtr(j)) THEN "gone" ELSE "zombie"
                    ELSE cmd[j]
      BY <2>1 DEF Kill
    <3> QED
      BY <2>3, <2>5, <3>1 DEF Running
  <2>6. ASSUME NEW v \in lock
        PROVE  Covered(v)'
    <3>1. CASE v = u
      <4>1. Covered(u) /\ at'[u] = "next"
        BY <1>0, <2>2, <2>6, <3>1
      <4> QED
        BY <2>2, <2>3, <2>5, <3>1, <4>1 DEF Covered
    <3>2. CASE v # u
      BY <1>0, <2>2, <2>3, <3>2, CoveredFrame
    <3> QED
      BY <3>1, <3>2
  <2> QED
    BY <2>2, <2>3, <2>4, <2>6 DEF CInv
<1>3. ASSUME UserKilled(u)
      PROVE  CInv'
  <2>1. /\ at' = [at EXCEPT ![u] = "done"] /\ lock' = lock \ {u} /\ faults' = faults + 1
        /\ UNCHANGED <<disk, req, pc, taken, cmd, pin, mask, parent>>
        /\ UNCHANGED <<victim, todo, tree, purged, withdrawn>>
    BY <1>3 DEF UserKilled, Move, Fault
  <2>2. TypeOK' /\ Booked' /\ QueuedOnce'
    BY <1>0, <2>1 DEF TypeOK, JobsInv, JobsOK, Booked, QueuedOnce
  <2>3. JobsInv'
    BY <1>0, <2>1, <2>2, JobsRemoved
  <2>4. UsersOK'
    <3>1. lock' = {} \/ \E v \in Users : lock' = {v}
      BY <1>0, <2>1
    <3> QED
      BY <1>0, <2>1, <3>1 DEF UsersOK, Places
  <2>5. ASSUME NEW v \in lock'
        PROVE  Covered(v)'
    BY <1>0, <2>1, CoveredFrame DEF Running
  <2> QED
    BY <2>3, <2>4, <2>5 DEF CInv
<1> QED
  BY <1>1, <1>2, <1>3

LEMMA TypeFrame ==
  ASSUME TypeOK, disk' \in CoreschedState(Jobs),
         UNCHANGED <<req, pc, taken, cmd, pin, mask, parent, faults>>
  PROVE  TypeOK'
<1>1. StateTypeOK(disk', Jobs)
  BY StateType
<1> QED
  BY <1>1 DEF TypeOK

(* The queue without the job that cancel names.                            *)
LEMMA UserWithdraws ==
  ASSUME CInv, NEW u \in Users, CancelQueued(u)
  PROVE  CInv'
<1>0. /\ JobsInv /\ UsersOK /\ TypeOK /\ Booked /\ QueuedOnce
      /\ at \in [Users -> Places] /\ victim[u] \subseteq Jobs
      /\ withdrawn \subseteq Jobs /\ \A i, j \in victim[u] : i = j
      /\ disk \in CoreschedState(Jobs) /\ disk.queued \in Seq(EntryOf(Jobs))
  BY CleanedUpFacts DEF CInv, UsersOK, JobsInv, JobsOK, CoreschedState
<1>1. /\ lock = {} /\ UNCHANGED <<req, pc, taken, cmd, pin, mask, parent, faults>>
      /\ UNCHANGED <<victim, todo, tree, lock, purged>>
  BY DEF CancelQueued
<1>2. \/ /\ UNCHANGED <<disk, withdrawn>> /\ at' = [at EXCEPT ![u] = "lookup"]
      \/ \E i \in DOMAIN disk.queued :
           /\ disk.queued[i].jid \in victim[u]
           /\ disk' = [disk EXCEPT !.queued = RemoveAt(disk.queued, i)]
           /\ withdrawn' = withdrawn \cup victim[u]
           /\ at' = [at EXCEPT ![u] = "done"]
  BY DEF CancelQueued, Move
<1>3. UsersOK'
  BY <1>0, <1>1, <1>2 DEF UsersOK, Places
<1>4. ASSUME UNCHANGED <<disk, withdrawn>>
      PROVE  JobsInv'
  BY <1>0, <1>1, <1>4, JobsUnread DEF vars
<1>5. ASSUME NEW i \in DOMAIN disk.queued, disk.queued[i].jid \in victim[u],
             disk' = [disk EXCEPT !.queued = RemoveAt(disk.queued, i)],
             withdrawn' = withdrawn \cup victim[u]
      PROVE  JobsInv'
  <2> DEFINE q == disk.queued
             r == RemoveAt(disk.queued, i)
  <2>1. r \in Seq(EntryOf(Jobs))
    BY <1>0, RemoveAtFacts
  <2>2. Distinct(q) /\ Jids(r) = Jids(q) \ {q[i].jid} /\ Distinct(r)
    <3>1. Distinct(q)
      BY <1>0 DEF QueuedOnce, Distinct
    <3> QED
      BY <1>0, <3>1, RemoveJids
  <2>3. q[i].jid \in Jids(q) /\ victim[u] = {q[i].jid}
    BY <1>0, <1>5 DEF Jids
  <2> HIDE DEF q, r
  <2>4. /\ disk'.queued = r /\ disk'.pids = disk.pids /\ disk'.pending = disk.pending
        /\ disk'.cfd = disk.cfd /\ disk'.cpus = disk.cpus /\ disk'.next = disk.next
        /\ disk' \in CoreschedState(Jobs)
    BY <1>0, <1>5, <2>1 DEF CoreschedState, r
  <2>5. TypeOK'
    BY <1>0, <1>1, <2>4, TypeFrame
  <2>6. Booked' /\ QueuedOnce'
    BY <1>0, <2>2, <2>4 DEF Booked, Consistent, QueuedOnce, Distinct
  <2>7. disk.queued = q
    BY DEF q
  <2>8. withdrawn' \subseteq withdrawn \cup (Jids(disk.queued) \ Jids(disk'.queued))
    BY <1>5, <2>2, <2>3, <2>4, <2>7
  <2> QED
    BY <1>0, <1>1, <2>2, <2>4, <2>5, <2>6, <2>7, <2>8, JobsRemoved
<1>6. JobsInv'
  BY <1>2, <1>4, <1>5
<1> QED
  BY <1>1, <1>3, <1>6 DEF CInv

(* An orphan's entry goes, and what it books with it.                      *)
LEMMA UserPurges ==
  ASSUME CInv, NEW u \in Users, CancelPurge(u)
  PROVE  CInv'
<1> DEFINE V == victim[u]
           f == FreeJobs(disk, V)
<1>0. /\ JobsInv /\ UsersOK /\ TypeOK /\ Booked /\ QueuedOnce
      /\ at \in [Users -> Places] /\ purged \subseteq Jobs
      /\ disk \in CoreschedState(Jobs) /\ DOMAIN disk.pids \subseteq Jobs
  BY CleanedUpFacts, JobMapFacts DEF CInv, UsersOK, JobsInv, JobsOK, CoreschedState
<1>1. /\ lock = {} /\ UNCHANGED <<req, pc, taken, cmd, pin, mask, parent, faults>>
      /\ UNCHANGED <<victim, todo, tree, lock, withdrawn>>
      /\ disk' = [f EXCEPT !.pending = Without(f.pending, V)]
      /\ purged' = purged \cup (V \cap DOMAIN disk.pids)
      /\ at' = [at EXCEPT ![u] = "done"]
  BY DEF CancelPurge, Move
<1>2. /\ f \in CoreschedState(Jobs) /\ Consistent(f)
      /\ DOMAIN f.pids = DOMAIN disk.pids \ V
      /\ \A k \in DOMAIN disk.pids \ V : f.pids[k] = disk.pids[k]
      /\ f.pending = disk.pending /\ f.queued = disk.queued /\ f.next = disk.next
  BY <1>0, FreeJobsFacts, FreeJobsConsistent DEF Booked
<1> HIDE DEF f, V
<1>3. /\ Without(f.pending, V) \in JobMap(Jobs)
      /\ DOMAIN Without(f.pending, V) \subseteq DOMAIN f.pending
      /\ \A k \in DOMAIN Without(f.pending, V) : Without(f.pending, V)[k] = f.pending[k]
  <2> DEFINE map == f.pending
             m == Without(map, V)
  <2>1. map \in JobMap(Jobs)
    BY <1>2 DEF CoreschedState
  <2> HIDE DEF map
  <2>2. /\ m \in JobMap(Jobs) /\ DOMAIN m = DOMAIN map \ V
        /\ \A k \in DOMAIN map \ V : m[k] = map[k]
    BY <2>1, WithoutFacts
  <2> HIDE DEF m
  <2>3. DOMAIN m \subseteq DOMAIN map /\ \A k \in DOMAIN m : m[k] = map[k]
    BY <2>2
  <2> QED
    BY <2>2, <2>3 DEF m, map
<1>4. /\ disk' \in CoreschedState(Jobs)
      /\ disk'.pids = f.pids /\ disk'.cfd = f.cfd /\ disk'.cpus = f.cpus
      /\ disk'.queued = f.queued /\ disk'.next = f.next
      /\ disk'.pending = Without(f.pending, V)
  BY <1>1, <1>2, <1>3 DEF CoreschedState
<1>5. TypeOK' /\ Booked' /\ QueuedOnce'
  <2>1. TypeOK'
    BY <1>0, <1>1, <1>4, TypeFrame
  <2>2. Booked' /\ QueuedOnce'
    BY <1>0, <1>2, <1>4 DEF Booked, Consistent, QueuedOnce
  <2> QED
    BY <2>1, <2>2
<1>6. UsersOK'
  BY <1>0, <1>1 DEF UsersOK, Places
<1>7. \A k \in DOMAIN disk.pids \ DOMAIN disk'.pids : k \in Exempt'
  BY <1>1, <1>2, <1>4 DEF Exempt
<1>8. JobsInv'
  BY <1>0, <1>1, <1>2, <1>3, <1>4, <1>5, <1>7, JobsRemoved
<1> QED
  BY <1>1, <1>6, <1>8 DEF CInv

(* The end of `cancel --all`: every command that still runs was one whose  *)
(* pid had not been recorded, and is purged.                               *)
LEMMA UserFreesAll ==
  ASSUME CInv, NEW u \in Users, FreeAll(u)
  PROVE  CInv'
<1> DEFINE f == FreeJobs(disk, DOMAIN disk.pids)
<1>0. /\ JobsInv /\ UsersOK /\ TypeOK /\ Booked
      /\ \A k \in Jobs : JobOKBut(k, Exempt)
      /\ at \in [Users -> Places] /\ purged \subseteq Jobs /\ withdrawn \subseteq Jobs
      /\ disk \in CoreschedState(Jobs) /\ DOMAIN disk.pids \subseteq Jobs
      /\ Covered(u) /\ lock = {u}
  BY CleanedUpFacts, JobMapFacts
     DEF CInv, UsersOK, JobsInv, JobsOK, CoreschedState, FreeAll
<1>1. /\ UNCHANGED <<req, pc, taken, cmd, pin, mask, parent, faults>>
      /\ UNCHANGED <<victim, todo, tree>>
      /\ disk' = [f EXCEPT !.pending = <<>>, !.queued = <<>>]
      /\ purged' = purged \cup {j \in DOMAIN disk.pids : disk.pids[j].pid = "none"}
      /\ withdrawn' = withdrawn \cup QueuedJobs
      /\ lock' = {} /\ at' = [at EXCEPT ![u] = "done"]
      /\ at[u] = "next" /\ todo[u] = {}
  BY DEF FreeAll, Move
<1>2. /\ f \in CoreschedState(Jobs) /\ Consistent(f)
      /\ DOMAIN f.pids = {} /\ f.next = disk.next
  BY <1>0, FreeJobsFacts, FreeJobsConsistent DEF Booked
<1> HIDE DEF f
<1>3. <<>> \in JobMap(Jobs) /\ <<>> \in Seq(EntryOf(Jobs)) /\ DOMAIN <<>> = {}
  <2>1. <<>> \in [{} -> EntryOf(Jobs)] /\ DOMAIN <<>> = {}
    OBVIOUS
  <2>2. <<>> \in JobMap(Jobs)
    BY <2>1, JobMapIntro
  <2> QED
    BY <2>1, <2>2
<1>4. /\ disk' \in CoreschedState(Jobs)
      /\ disk'.pids = f.pids /\ disk'.cfd = f.cfd /\ disk'.cpus = f.cpus
      /\ disk'.queued = <<>> /\ disk'.next = f.next /\ disk'.pending = <<>>
  BY <1>1, <1>2, <1>3 DEF CoreschedState
<1>5. TypeOK' /\ Booked' /\ QueuedOnce'
  <2>1. TypeOK'
    BY <1>0, <1>1, <1>4, TypeFrame
  <2>2. Booked' /\ QueuedOnce'
    BY <1>2, <1>3, <1>4 DEF Booked, Consistent, QueuedOnce
  <2> QED
    BY <2>1, <2>2
<1>6. QueuedJobs \subseteq Jobs
  BY <1>0, QueuedIsNowhereElse
<1>7. UsersOK'
  BY <1>0, <1>1, <1>6 DEF UsersOK, Places
<1>8. ASSUME NEW k \in DOMAIN disk.pids, Needed(k)
      PROVE  k \in Exempt'
  <2>1. CASE disk.pids[k].pid = "none"
    BY <1>1, <2>1 DEF Exempt
  <2>2. CASE disk.pids[k].pid # "none" /\ cmd[k] = "running"
    <3>1. k \in purged
      BY <1>0, <1>1, <2>2 DEF Covered, Running
    <3> QED
      BY <1>1, <3>1 DEF Exempt
  <2>3. CASE cmd[k] = "zombie"
    BY <1>0, <1>1, <2>3 DEF Exempt
  <2> QED
    BY <1>8, <2>1, <2>2, <2>3 DEF Needed, Books
<1>9. /\ Jids(disk'.queued) = {} /\ Jids(disk.queued) = QueuedJobs
      /\ DOMAIN disk'.pending = {} /\ DOMAIN disk'.pids = {}
  BY <1>2, <1>3, <1>4 DEF Jids, QueuedJobs
<1>10. JobsInv'
  BY <1>0, <1>1, <1>2, <1>4, <1>5, <1>8, <1>9, JobsRemoved
<1> QED
  BY <1>1, <1>7, <1>10 DEF CInv

-----------------------------------------------------------------------------
(* The invariant.                                                          *)

LEMMA CancelInit == CInit => CInv
<1> SUFFICES ASSUME CInit
             PROVE  CInv
  OBVIOUS
<1>1. Init /\ lock = {} /\ purged = {} /\ withdrawn = {}
  BY DEF CInit
<1>2. IInv
  BY <1>1, InitInvariant
<1>3. PICK X : X = Exempt
  OBVIOUS
<1>4. \A j \in Jobs : JobOKBut(j, {})
  BY <1>2, NobodyExempt DEF IInvBut
<1>5. \A j \in Jobs : JobOKBut(j, X)
  BY <1>4, ExemptMore
<1>6. JobsOK
  BY <1>2, <1>3, <1>5 DEF JobsOK, IInv
<1>7. \A j \in Jobs : Registered(j)
  BY <1>1 DEF Init, EmptyState, Registered
<1>8. UsersOK
  BY <1>1 DEF CInit, UsersOK, Places
<1> QED
  BY <1>1, <1>2, <1>6, <1>7, <1>8 DEF CInv, JobsInv, IInv

LEMMA CancelStep == CInv /\ [CNext]_<<vars, userVars>> => CInv'
<1> SUFFICES ASSUME CInv, [CNext]_<<vars, userVars>>
             PROVE  CInv'
  OBVIOUS
<1>0. /\ JobsInv /\ TypeOK /\ JobsOK /\ UsersOK /\ QueuedOnce
      /\ \A k \in Jobs : JobOKBut(k, Exempt) /\ Registered(k)
      /\ \A j \in withdrawn : j \in Jobs /\ Nowhere(j)
      /\ \A v \in lock : v \in Users /\ Covered(v)
  BY DEF CInv, JobsInv, JobsOK, UsersOK
<1>1. ASSUME [Next]_vars, UNCHANGED userVars
      PROVE  JobsInv' /\ UsersOK'
  <2>1. /\ at' = at /\ victim' = victim /\ todo' = todo /\ tree' = tree
        /\ lock' = lock /\ purged' = purged /\ withdrawn' = withdrawn
    BY <1>1 DEF userVars
  <2>2. TypeOK' /\ JobsOK'
    BY <1>0, <1>1, TypeStep, JobsStep
  <2>3. PICK X : X = Exempt
    OBVIOUS
  <2>4. \A k \in Jobs : JobOKBut(k, X)
    BY <1>0, <2>3
  <2>5. \A j \in Jobs : Registered(j)'
    BY <1>0, <1>1, <2>4, RegisteredStep
  <2>6. \A j \in withdrawn' : j \in Jobs /\ Nowhere(j)'
    BY <1>0, <1>1, <2>1, <2>4, NowhereStep
  <2>7. UsersOK'
    BY <1>0, <2>1 DEF UsersOK
  <2> QED
    BY <2>2, <2>5, <2>6, <2>7 DEF JobsInv
<1>2. CASE lock = {} /\ LockedStep /\ UNCHANGED userVars
  <2>1. [Next]_vars
    BY <1>2 DEF LockedStep, Next, SubmitStep, WaiterStep, DispatchStep
  <2>2. lock' = {}
    BY <1>2 DEF userVars
  <2> QED
    BY <1>1, <1>2, <2>1, <2>2 DEF CInv
<1>3. CASE OpenStep /\ UNCHANGED userVars
  <2>1. [Next]_vars
    BY <1>3 DEF OpenStep, Next, WaiterStep, DispatchStep
  <2>2. lock' = lock
    BY <1>3 DEF userVars
  <2>3. \A v \in lock : Covered(v)'
    BY <1>0, <1>3, CoveredStep
  <2> QED
    BY <1>1, <1>3, <2>1, <2>2, <2>3 DEF CInv
<1>4. ASSUME NEW u \in Users, UserStep(u)
      PROVE  CInv'
  BY <1>4, UserReads, UserSignals, UserWithdraws, UserPurges, UserFreesAll DEF UserStep
<1>5. CASE UNCHANGED <<vars, userVars>>
  <2>1. /\ JobsInv' /\ UsersOK'
    BY <1>1, <1>5
  <2>2. /\ disk' = disk /\ cmd' = cmd /\ at' = at /\ todo' = todo /\ tree' = tree
        /\ lock' = lock /\ purged' = purged
    BY <1>5 DEF vars, userVars
  <2>3. \A v \in lock' : Covered(v)'
    BY <1>0, <2>2 DEF Covered, Running
  <2> QED
    BY <2>1, <2>3 DEF CInv
<1> QED
  BY <1>2, <1>3, <1>4, <1>5 DEF CNext

(* The invariant of the commands, however cancels and jobs meet.           *)
THEOREM CancelInvariant == CSpec => []CInv
BY CancelInit, CancelStep, PTL DEF CSpec

-----------------------------------------------------------------------------
(* What follows from it.                                                   *)

(* The state file, the processes and what the users know have their types, *)
(* and one user at most holds the lock of `cancel --all`.                  *)
THEOREM CancelTypeCorrect == CSpec => []CTypeOK
<1>1. CInv => CTypeOK
  <2> SUFFICES ASSUME CInv
               PROVE  CTypeOK
    OBVIOUS
  <2>1. TypeOK /\ UsersOK
    BY DEF CInv, JobsInv
  <2>2. lock \subseteq Users /\ Cardinality(lock) <= 1
    <3>1. CASE lock = {}
      BY <3>1, FS_EmptySet
    <3>2. CASE \E v \in Users : lock = {v}
      BY <3>2, FS_Singleton
    <3> QED
      BY <2>1, <3>1, <3>2 DEF UsersOK
  <2> QED
    BY <2>1, <2>2 DEF CTypeOK, UsersOK
<1> QED
  BY <1>1, CancelInvariant, PTL

(* The maps of cores and CPUs and the entries of the running jobs agree,   *)
(* whatever cancel removes and whenever it does.                           *)
THEOREM BookedUnderCancel == CSpec => []Booked
<1>1. CInv => Booked
  BY DEF CInv, JobsInv, JobsOK
<1> QED
  BY <1>1, CancelInvariant, PTL

(* A command that runs keeps its CPUs in the state file, unless cancel has *)
(* taken its job for an orphan.                                            *)
THEOREM KeepsCpusAlways == CSpec => []KeepsCpus
<1>1. CInv => KeepsCpus
  <2> SUFFICES ASSUME CInv, NEW j \in Jobs, Running(j), j \notin purged
               PROVE  Books(j, {"none", "cmd"})
    BY DEF KeepsCpus
  <2>1. StartedJobBut(j, Exempt) /\ j \notin Exempt
    BY DEF CInv, JobsInv, JobsOK, JobOKBut, Exempt, Running
  <2> QED
    BY <2>1 DEF StartedJobBut, Exempted, Running
<1> QED
  BY <1>1, CancelInvariant, PTL

(* A job that cancel has removed from the queue never starts.              *)
THEOREM WithdrawnNeverRunsAlways == CSpec => []WithdrawnNeverRuns
<1>1. CInv => WithdrawnNeverRuns
  BY DEF CInv, JobsInv, Nowhere, WithdrawnNeverRuns
<1> QED
  BY <1>1, CancelInvariant, PTL

(* The pid in the entry of a job that is not over is that of a living      *)
(* process, from the moment its waiter has recorded itself: wait and       *)
(* cancel do not miss it.                                                  *)
THEOREM EntryAliveAlways == CSpec => []EntryAlive
<1>1. CInv => EntryAlive
  <2> SUFFICES ASSUME CInv, NEW j \in Jobs, ~ Ended(j), pc[Wtr(j)] # "started",
                      EntryPid(j) # "none", <<EntryPid(j), j>> \notin Alive
               PROVE  FALSE
    BY DEF EntryAlive
  <2>0. JobOKBut(j, Exempt) /\ Registered(j)
    BY DEF CInv, JobsInv, JobsOK
  <2>1. CASE Occupied(j)
    <3>1. EntryPid(j) = disk.pids[j].pid
      BY <2>1 DEF EntryPid, Occupied
    <3>2. ~ Books(j, {"none"}) /\ ~ Exempted(j, Exempt)
      BY <2>1, <3>1 DEF Books, Exempted
    <3>3. /\ j \notin QueuedJobs /\ pc[Wtr(j)] \notin {"waiting", "retry", "allocated"}
          /\ \A p \in Procs : j \notin taken[p]
      BY <2>0, <2>1, <3>2 DEF JobOKBut, WaitingJob, TakenJobBut, StartedJobBut
    <3>4. Running(j) /\ Books(j, {"none", "cmd"})
      BY <2>0, <3>2, <3>3 DEF Ended, JobOKBut, StartedJobBut, Running
    <3>5. EntryPid(j) = "cmd" /\ Cmd(j) \in Alive
      BY <3>1, <3>4 DEF Books, Alive, Running
    <3> QED
      BY <3>5 DEF Cmd
  <2>2. CASE ~ Occupied(j)
    <3>1. j \in DOMAIN disk.pending /\ EntryPid(j) = disk.pending[j].pid
      BY <2>2 DEF EntryPid, Occupied
    <3>2. req[j].mode = "run" /\ cmd[j] = "none" /\ pc[Wtr(j)] # "allocated"
      BY <2>0, <3>1 DEF JobOKBut, WaitingJob, Registered
    <3>3. j \notin QueuedJobs /\ \A p \in Procs : j \notin taken[p]
      BY <2>0, <3>2 DEF JobOKBut, WaitingJob, TakenJobBut
    <3>4. pc[Wtr(j)] \in {"waiting", "retry"}
      BY <3>2, <3>3 DEF Ended, Running
    <3>5. EntryPid(j) = "wtr" /\ Wtr(j) \in Alive
      BY <2>0, <3>1, <3>4 DEF Registered, Alive, Live, Wtr
    <3> QED
      BY <3>5 DEF Wtr
  <2> QED
    BY <2>1, <2>2
<1> QED
  BY <1>1, CancelInvariant, PTL
=============================================================================
