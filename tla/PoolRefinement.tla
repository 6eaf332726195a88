--------------------------- MODULE PoolRefinement ---------------------------
(***************************************************************************)
(* Coresched implements CpuPool, whatever processes die.  A step of the    *)
(* processes gives back entries, books one, starts a command or ends some; *)
(* each of the four is an action of the pool, and a step that does none of *)
(* them gives back nothing.                                                *)
(***************************************************************************)
EXTENDS CoreschedSafety

(* The command of k uses its CPUs.                                         *)
Uses(k) == cmd[k] \in {"running", "zombie"}

(* The job has had its entry, with the same CPUs.                          *)
SameGrant(k) ==
  k \in DOMAIN disk.pids /\ Held(disk'.pids[k]) = Held(disk.pids[k])

LEMMA LifeFacts ==
  ASSUME TypeOK
  PROVE  /\ Pool!Active = {k \in Jobs : Uses(k)}
         /\ \A k \in Jobs : Lives[k] = LifeOf(cmd[k])
         /\ \A k \in Jobs : Lives[k] = "waits" <=> cmd[k] = "none"
BY DEF Pool!Active, Uses, Lives, LifeOf, TypeOK, CmdStates

LEMMA PidsFacts ==
  ASSUME NEW s, StateTypeOK(s, Jobs)
  PROVE  /\ DOMAIN s.pids \subseteq Jobs
         /\ \A k \in DOMAIN s.pids : Held(s.pids[k]) \subseteq Cpus
<1>1. s \in CoreschedState(Jobs)
  BY StateType
<1>2. /\ DOMAIN s.pids \subseteq Jobs
      /\ \A k \in DOMAIN s.pids : s.pids[k] \in EntryOf(Jobs)
  BY <1>1, JobMapFacts DEF CoreschedState
<1> QED
  BY <1>2, HeldInCpus DEF EntryOf

(* A running command has its entry, also after a cleanup.                  *)
LEMMA UsersBooked ==
  ASSUME IInv, NEW k \in Jobs, Uses(k)
  PROVE  k \in DOMAIN disk.pids /\ k \in DOMAIN CleanedUp.pids
<1>1. Needed(k)
  BY DEF IInv, JobOK, StartedJob, Uses, Needed
<1>2. TypeOK
  BY DEF IInv
<1> QED
  BY <1>1, <1>2, CleanupKeeps DEF Needed, Books, Occupied

-----------------------------------------------------------------------------
(* The four kinds of step.                                                 *)

LEMMA Releases ==
  ASSUME IInv, cmd' = cmd,
         \A k \in DOMAIN disk'.pids : SameGrant(k),
         \A k \in Jobs : Uses(k) => k \in DOMAIN disk'.pids
  PROVE  Pool!Next
<1> DEFINE D == DOMAIN disk.pids \ DOMAIN disk'.pids
<1>0. TypeOK /\ StateTypeOK(disk, Jobs)
  BY DEF IInv, TypeOK
<1>1. D \in SUBSET Jobs /\ D \cap Pool!Active = {}
  BY <1>0, LifeFacts, PidsFacts
<1>2. DOMAIN disk'.pids = DOMAIN disk.pids \ D
  BY DEF SameGrant
<1> HIDE DEF D
<1>3. Grants' = Pool!Kept(D)
  BY <1>2 DEF Pool!Kept, Grants, SameGrant
<1>4. Lives' = Lives
  BY DEF Lives
<1>5. Pool!GiveBack(D)
  BY <1>1, <1>3, <1>4 DEF Pool!GiveBack
<1> QED
  BY <1>1, <1>5 DEF Pool!Next

LEMMA Allocates ==
  ASSUME IInv, IInv', cmd' = cmd,
         NEW j \in Jobs, cmd[j] = "none", j \notin DOMAIN disk.pids,
         j \in DOMAIN disk'.pids,
         \A k \in DOMAIN disk'.pids \ {j} : SameGrant(k),
         \A k \in Jobs : Uses(k) => k \in DOMAIN disk'.pids
  PROVE  Pool!Next
<1> DEFINE D == DOMAIN disk.pids \ DOMAIN disk'.pids
           S == Held(disk'.pids[j])
<1>0. TypeOK /\ StateTypeOK(disk, Jobs) /\ StateTypeOK(disk', Jobs)
  BY DEF IInv, TypeOK
<1>1. D \in SUBSET Jobs /\ D \cap Pool!Active = {}
  BY <1>0, LifeFacts, PidsFacts
<1>2. DOMAIN disk'.pids = (DOMAIN disk.pids \ D) \cup {j}
  BY DEF SameGrant
<1>3. S \subseteq Cpus
  BY <1>0, PidsFacts
<1>4. \A k \in DOMAIN disk.pids \ D : S \cap Held(disk.pids[k]) = {}
  <2>1. \A k \in DOMAIN disk'.pids : k # j => S \cap Held(disk'.pids[k]) = {}
    BY DEF IInv, Booked, Consistent, Agree
  <2> QED
    BY <1>2, <2>1 DEF SameGrant
<1> HIDE DEF D, S
<1>5. /\ DOMAIN Grants = DOMAIN disk.pids
      /\ \A k \in DOMAIN disk.pids : Grants[k] = Held(disk.pids[k])
  BY DEF Grants
<1>6. S \in SUBSET (Cpus \ Pool!Taken(D))
  BY <1>3, <1>4, <1>5 DEF Pool!Taken
<1>7. Grants' = [k \in (DOMAIN Grants \ D) \cup {j} |-> IF k = j THEN S ELSE Grants[k]]
  BY <1>2, <1>5 DEF Grants, SameGrant, S
<1>8. Lives' = Lives /\ Lives[j] = "waits"
  BY <1>0, LifeFacts DEF Lives
<1>9. Pool!Allocate(D, j)
  BY <1>1, <1>5, <1>6, <1>7, <1>8 DEF Pool!Allocate
<1> QED
  BY <1>1, <1>9 DEF Pool!Next

LEMMA Starts ==
  ASSUME TypeOK, disk' = disk, NEW j \in Jobs, j \in DOMAIN disk.pids,
         cmd[j] = "none", cmd' = [cmd EXCEPT ![j] = "running"]
  PROVE  Pool!Next
<1>1. Grants' = Grants /\ j \in DOMAIN Grants
  BY DEF Grants
<1>2. Lives[j] = "waits" /\ Lives' = [Lives EXCEPT ![j] = "runs"]
  BY DEF Lives, LifeOf, TypeOK
<1>3. Pool!Start(j)
  BY <1>1, <1>2 DEF Pool!Start
<1> QED
  BY <1>3 DEF Pool!Next

LEMMA Finishes ==
  ASSUME TypeOK, disk' = disk, \A k \in Jobs : CmdMoves(k)
  PROVE  Pool!Next
<1> DEFINE D == {k \in Jobs : Uses(k) /\ cmd'[k] = "gone"}
<1>1. Grants' = Grants
  BY DEF Grants
<1>2. D \subseteq Pool!Active /\ D \in SUBSET Jobs
  BY LifeFacts
<1>3. Lives' = [k \in Jobs |-> IF k \in D THEN "over" ELSE Lives[k]]
  <2>1. ASSUME NEW k \in Jobs
        PROVE  LifeOf(cmd'[k]) = IF k \in D THEN "over" ELSE LifeOf(cmd[k])
    BY DEF CmdMoves, LifeOf, Uses
  <2> QED
    BY <2>1 DEF Lives
<1> HIDE DEF D
<1>4. Pool!Finish(D)
  BY <1>1, <1>2, <1>3 DEF Pool!Finish
<1> QED
  BY <1>2, <1>4 DEF Pool!Next

-----------------------------------------------------------------------------
(* What the steps do to the entries.                                       *)

(* disk' has the entries that a cleanup leaves.                            *)
LEMMA CleanedGrants ==
  ASSUME IInv, disk'.pids = CleanedUp.pids
  PROVE  /\ \A k \in DOMAIN disk'.pids : SameGrant(k)
         /\ \A k \in Jobs : Uses(k) => k \in DOMAIN disk'.pids
<1>1. TypeOK
  BY DEF IInv
<1> HIDE DEF IInv
<1>2. /\ DOMAIN CleanedUp.pids \subseteq DOMAIN disk.pids
      /\ \A k \in DOMAIN CleanedUp.pids : CleanedUp.pids[k] = disk.pids[k]
  BY <1>1, CleanedUpFacts
<1>3. \A k \in DOMAIN disk'.pids : SameGrant(k)
  BY <1>2 DEF SameGrant
<1> QED
  BY <1>3, UsersBooked

LEMMA SameGrants ==
  ASSUME IInv, disk'.pids = disk.pids
  PROVE  /\ \A k \in DOMAIN disk'.pids : SameGrant(k)
         /\ \A k \in Jobs : Uses(k) => k \in DOMAIN disk'.pids
BY UsersBooked DEF SameGrant

LEMMA FreedGrants ==
  ASSUME IInv, NEW j \in Jobs, ~ Uses(j), disk'.pids = FreeJobs(disk, {j}).pids
  PROVE  /\ \A k \in DOMAIN disk'.pids : SameGrant(k)
         /\ \A k \in Jobs : Uses(k) => k \in DOMAIN disk'.pids
<1>1. disk \in CoreschedState(Jobs)
  BY CleanedUpFacts DEF IInv
<1>2. /\ DOMAIN disk'.pids = DOMAIN disk.pids \ {j}
      /\ \A k \in DOMAIN disk.pids \ {j} : disk'.pids[k] = disk.pids[k]
  BY <1>1, FreeJobsFacts
<1> QED
  BY <1>2, UsersBooked DEF SameGrant

(* Job j is booked in the state s, which has the entries of a cleanup.     *)
LEMMA BookedGrants ==
  ASSUME IInv, NEW j \in Jobs,
         NEW s \in CoreschedState(Jobs), s.pids = CleanedUp.pids,
         NEW r, r.type \in JobTypes, r.need \in 0 .. 255, r.priority \in Priorities,
         NEW b, disk'.pids = StartJob(s, j, r, Alloc(b, r)).pids
  PROVE  /\ j \in DOMAIN disk'.pids
         /\ \A k \in DOMAIN disk'.pids \ {j} : SameGrant(k)
         /\ \A k \in Jobs : Uses(k) => k \in DOMAIN disk'.pids
<1> DEFINE g == Alloc(b, r)
<1>1. TypeOK
  BY DEF IInv
<1>2. /\ DOMAIN CleanedUp.pids \subseteq DOMAIN disk.pids
      /\ \A k \in DOMAIN CleanedUp.pids : CleanedUp.pids[k] = disk.pids[k]
  BY <1>1, CleanedUpFacts
<1>3. g.cores \subseteq Cores /\ g.cpus \subseteq Cpus
  BY AllocIsFree
<1> HIDE DEF g
<1>4. /\ DOMAIN disk'.pids = DOMAIN s.pids \cup {j}
      /\ \A k \in DOMAIN s.pids \ {j} : disk'.pids[k] = s.pids[k]
  BY <1>3, StartJobFacts DEF g
<1>5. \A k \in DOMAIN disk'.pids \ {j} : SameGrant(k)
  BY <1>2, <1>4 DEF SameGrant
<1> QED
  BY <1>4, <1>5, UsersBooked

-----------------------------------------------------------------------------
(* Every step of the processes is a step of the pool.                      *)

LEMMA PoolInit == Init => Pool!Init
<1> SUFFICES ASSUME Init PROVE Pool!Init
  OBVIOUS
<1>1. Grants = <<>>
  BY DEF Init, EmptyState, Grants
<1>2. Lives = [j \in Jobs |-> "waits"]
  BY DEF Init, Lives, LifeOf
<1> QED
  BY <1>1, <1>2 DEF Pool!Init

LEMMA PoolStep == IInv /\ [Next]_vars => [Pool!Next]_<<Grants, Lives>>
<1> SUFFICES ASSUME IInv, [Next]_vars PROVE [Pool!Next]_<<Grants, Lives>>
  OBVIOUS
<1> DEFINE c == CleanedUp
<1>0. /\ TypeOK /\ IInv' /\ \A j \in Jobs : JobOK(j)
      /\ disk \in CoreschedState(Jobs) /\ c \in CoreschedState(Jobs)
      /\ c.queued = disk.queued
  BY StepInvariant, CleanedUpFacts DEF IInv
<1>S. ASSUME cmd' = cmd, disk'.pids = disk.pids
      PROVE  Pool!Next
  BY <1>S, SameGrants, Releases
<1>C. ASSUME cmd' = cmd, disk'.pids = c.pids
      PROVE  Pool!Next
  BY <1>C, CleanedGrants, Releases
<1>1. ASSUME NEW j \in Jobs, SubmitStep(j) \/ AllocWaits(j)
      PROVE  Pool!Next
  <2>1. cmd' = cmd
    BY <1>1 DEF SubmitStep, Register, Enqueue, Submit, AllocWaits
  <2>2. \/ disk' = [c EXCEPT !.next = j + 1,
                     !.pending = Insert(c.pending, j, JobEntry(j, req[j], "sub", NoGrant))]
        \/ disk' = [c EXCEPT !.next = j + 1,
                     !.queued = Append(c.queued, JobEntry(j, req[j], "none", NoGrant))]
        \/ disk' = c
    BY <1>1 DEF SubmitStep, Register, Enqueue, AllocWaits
  <2> HIDE DEF c
  <2>3. disk'.pids = c.pids
    BY <1>0, <2>2 DEF CoreschedState
  <2> QED
    BY <1>C, <2>1, <2>3
<1>2. ASSUME NEW j \in Jobs,
             ParentStep(j) \/ UpdatePid(j) \/ Sleep(j) \/ GiveUp(j) \/ LaunchPanics(j)
      PROVE  Pool!Next
  <2>1. cmd' = cmd /\ disk'.pids = disk.pids
    BY <1>0, <1>2 DEF UpdatePid, Sleep, GiveUp, LaunchPanics, ParentStep, RunFork,
                      RunForkFails, ParentExits, CoreschedState
  <2> QED
    BY <1>S, <2>1
<1>3. ASSUME NEW j \in Jobs, AllocRun(j)
      PROVE  Pool!Next
  <2> DEFINE t == StartJob(c, j, req[j], Alloc(c, req[j]))
  <2>1. disk' = [t EXCEPT !.pending = Without(t.pending, {j})] /\ cmd' = cmd
    BY <1>3 DEF AllocRun
  <2>2. cmd[j] = "none" /\ j \notin DOMAIN disk.pids
    BY <1>0, <1>3 DEF AllocRun, JobOK, WaitingJob, Occupied
  <2>3. req[j].type \in JobTypes /\ req[j].need \in 0 .. 255 /\ req[j].priority \in Priorities
    BY <1>0, RequestType
  <2>4. t \in CoreschedState(Jobs)
    BY <1>0, <2>3, BookFacts
  <2> HIDE DEF t
  <2>5. disk'.pids = t.pids
    BY <2>1, <2>4 DEF CoreschedState
  <2>6. /\ j \in DOMAIN disk'.pids
        /\ \A k \in DOMAIN disk'.pids \ {j} : SameGrant(k)
        /\ \A k \in Jobs : Uses(k) => k \in DOMAIN disk'.pids
    BY <1>0, <2>3, <2>5, BookedGrants DEF t
  <2> QED
    BY <1>0, <2>1, <2>2, <2>6, Allocates
<1>4. ASSUME NEW j \in Jobs, Launch(j) \/ LaunchUnpinned(j)
      PROVE  Pool!Next
  <2>1. j \in DOMAIN disk.pids /\ cmd[j] = "none"
    BY <1>0, <1>4 DEF Launch, LaunchUnpinned, JobOK, StartedJob, Books, Occupied
  <2> QED
    BY <1>0, <1>4, <2>1, Starts DEF Launch, LaunchUnpinned
<1>5. ASSUME NEW j \in Jobs, RecordPid(j)
      PROVE  Pool!Next
  <2>1. /\ \A k \in DOMAIN disk'.pids : SameGrant(k)
        /\ \A k \in Jobs : Uses(k) => k \in DOMAIN disk'.pids
    BY <1>0, <1>5, RecordDisk, UsersBooked DEF SameGrant
  <2> QED
    BY <1>5, <2>1, Releases DEF RecordPid
<1>6. ASSUME NEW j \in Jobs, Reap(j) \/ CmdExits(j)
      PROVE  Pool!Next
  <2>1. disk' = disk /\ \A k \in Jobs : CmdMoves(k)
    BY <1>0, <1>6 DEF Reap, CmdExits, CmdMoves, TypeOK
  <2> QED
    BY <1>0, <2>1, Finishes
<1>7. ASSUME NEW j \in Jobs, Free(j)
      PROVE  Pool!Next
  <2>1. ~ Uses(j)
    BY <1>0, <1>7 DEF Free, JobOK, StartedJob, Uses
  <2> QED
    BY <1>7, <2>1, FreedGrants, Releases DEF Free, FreeJob
<1>8. ASSUME NEW p \in Procs, DispatchTake(p)
      PROVE  Pool!Next
  <2>1. PICK i \in Dispatchable(c) :
          disk' = StartJob([c EXCEPT !.queued = RemoveAt(@, i)], c.queued[i].jid,
                           c.queued[i], Alloc(c, c.queued[i]))
    BY <1>8 DEF DispatchTake
  <2>2. i \in DOMAIN c.queued
    BY <2>1 DEF Dispatchable, NextQueuedJobIndex
  <2>3. cmd' = cmd
    BY <1>8 DEF DispatchTake
  <2> DEFINE job == c.queued[i]
             j == job.jid
             u == [c EXCEPT !.queued = RemoveAt(@, i)]
  <2> HIDE DEF c
  <2>4. job \in EntryOf(Jobs) /\ u \in CoreschedState(Jobs) /\ u.pids = c.pids
    BY <1>0, <2>2, DequeueFacts
  <2>5. disk'.pids = StartJob(u, j, job, Alloc(c, job)).pids
    BY <2>1
  <2>6. /\ j \in Jobs /\ job.type \in JobTypes /\ job.need \in 0 .. 255
        /\ job.priority \in Priorities
    BY <2>4 DEF EntryOf
  <2>7. j \in QueuedJobs
    BY <1>0, <2>2 DEF QueuedJobs
  <2>8. cmd[j] = "none" /\ j \notin DOMAIN disk.pids
    BY <1>0, <2>6, <2>7 DEF JobOK, WaitingJob, Unstarted, Occupied
  <2> HIDE DEF job, u, j
  <2>9. /\ j \in DOMAIN disk'.pids
        /\ \A k \in DOMAIN disk'.pids \ {j} : SameGrant(k)
        /\ \A k \in Jobs : Uses(k) => k \in DOMAIN disk'.pids
    BY <2>4, <2>5, <2>6, BookedGrants DEF c
  <2> QED
    BY <1>0, <2>3, <2>6, <2>8, <2>9, Allocates
<1>9. ASSUME NEW p \in Procs, DispatchStops(p) \/ DispatchFork(p)
      PROVE  Pool!Next
  BY <1>9, <1>S DEF DispatchStops, DispatchFork
<1>10. ASSUME NEW p \in Procs, DispatchRequeue(p)
       PROVE  Pool!Next
  <2>1. PICK j \in taken[p] :
          disk' = [FreeJobs(disk, {j}) EXCEPT
                     !.queued = Cons(JobEntry(j, req[j], "none", NoGrant), @)]
    BY <1>10 DEF DispatchRequeue, FreeJob
  <2>2. j \in Jobs /\ ~ Uses(j)
    BY <1>0, <2>1 DEF TypeOK, JobOK, TakenJob, Unstarted, Uses
  <2>3. FreeJobs(disk, {j}) \in CoreschedState(Jobs)
    BY <1>0, FreeJobsFacts
  <2>4. disk'.pids = FreeJobs(disk, {j}).pids
    BY <2>1, <2>3 DEF CoreschedState
  <2>5. cmd' = cmd
    BY <1>10 DEF DispatchRequeue
  <2> QED
    BY <2>2, <2>4, <2>5, FreedGrants, Releases
<1>11. ASSUME NEW a \in Clients, NEW cores, ReserveCore(a, cores)
       PROVE  Pool!Next
  <2>1. cmd' = cmd /\ disk'.pids = disk.pids
    BY <1>0, <1>11 DEF ReserveCore, CoreschedState
  <2> QED
    BY <1>S, <2>1
<1>12. ASSUME NEW p \in Procs, Crash(p)
       PROVE  Pool!Next
  <2>1. disk' = disk /\ \A k \in Jobs : CmdMoves(k)
    BY <1>12 DEF Crash, Die, CmdMoves, Cmd, Procs
  <2> QED
    BY <1>0, <2>1, Finishes
<1>13. ASSUME Reboot
       PROVE  Pool!Next
  <2>1. disk' = disk /\ \A k \in Jobs : CmdMoves(k)
    BY <1>13 DEF Reboot, Die, CmdMoves, Cmd, Alive, Procs, Wtr
  <2> QED
    BY <1>0, <2>1, Finishes
<1>14. ASSUME UNCHANGED vars
       PROVE  UNCHANGED <<Grants, Lives>>
  BY <1>14 DEF vars, Grants, Lives
<1> QED
  BY <1>1, <1>2, <1>3, <1>4, <1>5, <1>6, <1>7, <1>8, <1>9, <1>10, <1>11, <1>12, <1>13, <1>14
     DEF Next, SubmitStep, WaiterStep, DispatchStep

(* Every behaviour of the processes, whoever dies in it, is one of a pool  *)
(* that gives each CPU to one job, leaves it there until the job's command *)
(* has ended, and starts no command twice.                                 *)
THEOREM PoolImplemented == Spec => ImplementsPool
BY PoolInit, PoolStep, Invariant, PTL DEF Spec, ImplementsPool, Pool!Spec
=============================================================================
