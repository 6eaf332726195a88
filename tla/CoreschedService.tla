-------------------------- MODULE CoreschedService --------------------------
(***************************************************************************)
(* What the users of Coresched are promised: a job gets what it asked for, *)
(* nothing that is kept for a higher level, and not before a job of a      *)
(* higher level; it is not forgotten, it runs where it was put, and what   *)
(* it was given is given back; the queue keeps its order and is served.    *)
(*                                                                         *)
(* All of it rests on IInv and on one more invariant: every entry of the   *)
(* state file shows what its job has asked for (Matched).                  *)
(***************************************************************************)
EXTENDS CoreschedSafety

(* The entry e says of job k what its request says.                        *)
Matches(e, k) ==
  /\ e.jid = k /\ e.type = req[k].type /\ e.need = req[k].need
  /\ e.priority = req[k].priority

Matched ==
  /\ \A k \in DOMAIN disk.pids : Matches(disk.pids[k], k)
  /\ \A k \in DOMAIN disk.pending : Matches(disk.pending[k], k)
  /\ \A i \in DOMAIN disk.queued : Matches(disk.queued[i], disk.queued[i].jid)

(* What a step may do to an entry it keeps: record the command's pid.      *)
SameEntry(k) ==
  /\ k \in DOMAIN disk.pids
  /\ \/ disk'.pids[k] = disk.pids[k]
     \/ disk'.pids[k] = [disk.pids[k] EXCEPT !.pid = "cmd"] /\ pc[Wtr(k)] = "spawned"

(* The entry is new, and shows what the engine found for the job.          *)
Given(k) ==
  /\ NeededForPriority(CleanedUp, req[k]) = 0
  /\ disk'.pids[k] = JobEntry(k, req[k], "none", Alloc(CleanedUp, req[k]))
  /\ cmd[k] = "none"

-----------------------------------------------------------------------------
(* What the steps do to the state file, field by field.                    *)

(* The steps that leave alone what the file says of the jobs.              *)
Idle ==
  /\ disk'.pids = disk.pids /\ disk'.pending = disk.pending
  /\ disk'.queued = disk.queued /\ disk'.next = disk.next

LEMMA IdleSteps ==
  ASSUME TypeOK,
         \/ \E j \in Jobs : \/ ParentStep(j) \/ Sleep(j) \/ Launch(j) \/ LaunchUnpinned(j)
                            \/ LaunchPanics(j) \/ Reap(j) \/ CmdExits(j)
         \/ \E p \in Procs : DispatchStops(p) \/ DispatchFork(p) \/ Crash(p)
         \/ \E a \in Clients, cores \in ReserveChoices : ReserveCore(a, cores)
         \/ Reboot
         \/ UNCHANGED vars
  PROVE  Idle
<1>1. disk \in CoreschedState(Jobs)
  BY CleanedUpFacts
<1>2. ASSUME NEW a \in Clients, NEW cores, ReserveCore(a, cores)
      PROVE  Idle
  BY <1>1, <1>2 DEF ReserveCore, Idle, CoreschedState
<1>3. ASSUME disk' = disk
      PROVE  Idle
  BY <1>3 DEF Idle
<1> QED
  BY <1>2, <1>3
     DEF ParentStep, RunFork, RunForkFails, ParentExits, Sleep, Launch, LaunchUnpinned,
         LaunchPanics, Reap, CmdExits, DispatchStops, DispatchFork, Crash, Reboot, vars

LEMMA RegisterFile ==
  ASSUME TypeOK, NEW j \in Jobs, Register(j)
  PROVE  /\ disk'.pids = CleanedUp.pids /\ disk'.queued = disk.queued
         /\ disk.next = j /\ disk'.next = j + 1
         /\ DOMAIN disk'.pending = DOMAIN CleanedUp.pending \cup {j}
         /\ disk'.pending[j] = JobEntry(j, req[j], "sub", NoGrant)
         /\ \A k \in DOMAIN CleanedUp.pending \ {j} : disk'.pending[k] = disk.pending[k]
<1> DEFINE e == JobEntry(j, req[j], "sub", NoGrant)
<1>1. disk' = [CleanedUp EXCEPT !.next = j + 1, !.pending = Insert(CleanedUp.pending, j, e)]
  BY DEF Register
<1> HIDE DEF e
<1>2. /\ disk'.pids = CleanedUp.pids /\ disk'.queued = CleanedUp.queued
      /\ disk'.next = j + 1 /\ disk'.pending = Insert(CleanedUp.pending, j, e)
  BY <1>1, CleanedUpFacts DEF CoreschedState
<1>3. disk.next = j
  BY DEF Register, Submit
<1> QED
  BY <1>2, <1>3, CleanedUpFacts DEF Insert, e

LEMMA EnqueueFile ==
  ASSUME TypeOK, NEW j \in Jobs, Enqueue(j)
  PROVE  /\ disk'.pids = CleanedUp.pids /\ disk'.pending = CleanedUp.pending
         /\ disk.next = j /\ disk'.next = j + 1
         /\ JobEntry(j, req[j], "none", NoGrant) \in EntryOf(Jobs)
         /\ disk'.queued = Append(disk.queued, JobEntry(j, req[j], "none", NoGrant))
<1> DEFINE e == JobEntry(j, req[j], "none", NoGrant)
<1>1. disk' = [CleanedUp EXCEPT !.next = j + 1, !.queued = Append(CleanedUp.queued, e)]
  BY DEF Enqueue
<1>2. e \in EntryOf(Jobs)
  BY RequestType, EntryTypes DEF PidKinds
<1> HIDE DEF e
<1>3. /\ disk'.pids = CleanedUp.pids /\ disk'.pending = CleanedUp.pending
      /\ disk'.next = j + 1 /\ disk'.queued = Append(CleanedUp.queued, e)
  BY <1>1, CleanedUpFacts DEF CoreschedState
<1>4. disk.next = j
  BY DEF Enqueue, Submit
<1> QED
  BY <1>2, <1>3, <1>4, CleanedUpFacts DEF e

LEMMA UpdatePidFile ==
  ASSUME TypeOK, NEW j \in Jobs, UpdatePid(j)
  PROVE  /\ disk'.pids = disk.pids /\ disk'.queued = disk.queued /\ disk'.next = disk.next
         /\ DOMAIN disk'.pending = DOMAIN disk.pending
         /\ \A k \in DOMAIN disk.pending :
              disk'.pending[k] \in {disk.pending[k], [disk.pending[k] EXCEPT !.pid = "wtr"]}
<1>1. disk \in CoreschedState(Jobs)
  BY CleanedUpFacts
<1>2. CASE j \notin DOMAIN disk.pending
  BY <1>2 DEF UpdatePid
<1>3. CASE j \in DOMAIN disk.pending
  <2> DEFINE m == [disk.pending EXCEPT ![j].pid = "wtr"]
  <2>1. disk' = [disk EXCEPT !.pending = m]
    BY <1>3 DEF UpdatePid
  <2>2. /\ DOMAIN m = DOMAIN disk.pending
        /\ \A k \in DOMAIN disk.pending :
             m[k] \in {disk.pending[k], [disk.pending[k] EXCEPT !.pid = "wtr"]}
    BY <1>1, <1>3 DEF CoreschedState, JobMap
  <2> HIDE DEF m
  <2>3. /\ disk'.pids = disk.pids /\ disk'.queued = disk.queued /\ disk'.next = disk.next
        /\ disk'.pending = m
    BY <1>1, <2>1 DEF CoreschedState
  <2> QED
    BY <2>2, <2>3
<1> QED
  BY <1>2, <1>3

LEMMA GiveUpFile ==
  ASSUME TypeOK, NEW j \in Jobs, GiveUp(j)
  PROVE  /\ disk'.pids = disk.pids /\ disk'.queued = disk.queued /\ disk'.next = disk.next
         /\ DOMAIN disk'.pending = DOMAIN disk.pending \ {j}
         /\ \A k \in DOMAIN disk'.pending : disk'.pending[k] = disk.pending[k]
<1>1. disk \in CoreschedState(Jobs)
  BY CleanedUpFacts
<1>2. disk' = [disk EXCEPT !.pending = Without(disk.pending, {j})]
  BY DEF GiveUp
<1>3. /\ disk'.pids = disk.pids /\ disk'.queued = disk.queued /\ disk'.next = disk.next
      /\ disk'.pending = Without(disk.pending, {j})
  BY <1>1, <1>2 DEF CoreschedState
<1> QED
  BY <1>3 DEF Without, Restrict

LEMMA AllocRunFile ==
  ASSUME TypeOK, NEW j \in Jobs, AllocRun(j)
  PROVE  /\ DOMAIN disk'.pids = DOMAIN CleanedUp.pids \cup {j}
         /\ disk'.pids[j] = JobEntry(j, req[j], "none", Alloc(CleanedUp, req[j]))
         /\ \A k \in DOMAIN CleanedUp.pids \ {j} : disk'.pids[k] = disk.pids[k]
         /\ DOMAIN disk'.pending = DOMAIN CleanedUp.pending \ {j}
         /\ \A k \in DOMAIN disk'.pending : disk'.pending[k] = disk.pending[k]
         /\ disk'.queued = disk.queued /\ disk'.next = disk.next
<1> DEFINE c == CleanedUp
           t == StartJob(c, j, req[j], Alloc(c, req[j]))
<1>1. disk' = [t EXCEPT !.pending = Without(t.pending, {j})]
  BY DEF AllocRun
<1>2. /\ c \in CoreschedState(Jobs)
      /\ \A k \in DOMAIN c.pids : c.pids[k] = disk.pids[k]
      /\ \A k \in DOMAIN c.pending : c.pending[k] = disk.pending[k]
      /\ c.queued = disk.queued /\ c.next = disk.next
  BY CleanedUpFacts
<1> HIDE DEF c
<1>3. /\ t \in CoreschedState(Jobs)
      /\ DOMAIN t.pids = DOMAIN c.pids \cup {j}
      /\ t.pids[j] = JobEntry(j, req[j], "none", Alloc(c, req[j]))
      /\ \A k \in DOMAIN c.pids \ {j} : t.pids[k] = c.pids[k]
      /\ t.pending = c.pending /\ t.queued = c.queued /\ t.next = c.next
  BY <1>2, RequestType, BookFacts
<1> HIDE DEF t
<1>4. /\ disk'.pids = t.pids /\ disk'.queued = t.queued /\ disk'.next = t.next
      /\ disk'.pending = Without(t.pending, {j})
  BY <1>1, <1>3 DEF CoreschedState
<1>5. /\ DOMAIN disk'.pending = DOMAIN c.pending \ {j}
      /\ \A k \in DOMAIN disk'.pending : disk'.pending[k] = c.pending[k]
  BY <1>3, <1>4 DEF Without, Restrict
<1> QED
  BY <1>2, <1>3, <1>4, <1>5 DEF c

(* The job taken is the one at position i of the queue.                    *)
TakesFrom(p, i, job) ==
  /\ i \in Dispatchable(CleanedUp) /\ i \in DOMAIN disk.queued /\ job = disk.queued[i]
  /\ job \in EntryOf(Jobs) /\ job.jid \in Jobs
  /\ DOMAIN disk'.pids = DOMAIN CleanedUp.pids \cup {job.jid}
  /\ disk'.pids[job.jid] = JobEntry(job.jid, job, "none", Alloc(CleanedUp, job))
  /\ \A k \in DOMAIN CleanedUp.pids \ {job.jid} : disk'.pids[k] = disk.pids[k]
  /\ disk'.pending = CleanedUp.pending
  /\ disk'.queued = RemoveAt(disk.queued, i) /\ disk'.next = disk.next
  /\ taken' = [taken EXCEPT ![p] = {job.jid}]
  /\ pin' = [pin EXCEPT ![job.jid] = Held(Alloc(CleanedUp, job))]

LEMMA DispatchTakeFile ==
  ASSUME TypeOK, NEW p \in Procs, DispatchTake(p)
  PROVE  \E i, job : TakesFrom(p, i, job)
<1> DEFINE c == CleanedUp
<1>1. PICK i \in Dispatchable(c) :
        LET job == c.queued[i]
            g   == Alloc(c, job)
        IN  /\ disk' = StartJob([c EXCEPT !.queued = RemoveAt(@, i)], job.jid, job, g)
            /\ taken' = [taken EXCEPT ![p] = {job.jid}]
            /\ pin' = [pin EXCEPT ![job.jid] = Held(g)]
  BY DEF DispatchTake
<1>2. i \in DOMAIN c.queued
  BY <1>1 DEF Dispatchable, NextQueuedJobIndex
<1>3. /\ c \in CoreschedState(Jobs) /\ c.queued = disk.queued /\ c.next = disk.next
      /\ \A k \in DOMAIN c.pids : c.pids[k] = disk.pids[k]
  BY CleanedUpFacts
<1> DEFINE job == c.queued[i]
           u == [c EXCEPT !.queued = RemoveAt(@, i)]
<1> HIDE DEF c
<1>4. /\ job \in EntryOf(Jobs) /\ u \in CoreschedState(Jobs) /\ u.pids = c.pids
      /\ u.queued = RemoveAt(c.queued, i) /\ u.pending = c.pending /\ u.next = c.next
  BY <1>2, <1>3, DequeueFacts
<1>5. disk' = StartJob(u, job.jid, job, Alloc(c, job))
  BY <1>1
<1>6. /\ job.jid \in Jobs /\ job.type \in JobTypes /\ job.need \in 0 .. 255
      /\ job.priority \in Priorities
  BY <1>4 DEF EntryOf
<1>7. /\ taken' = [taken EXCEPT ![p] = {job.jid}]
      /\ pin' = [pin EXCEPT ![job.jid] = Held(Alloc(c, job))]
      /\ job = disk.queued[i]
  BY <1>1, <1>3
<1> HIDE DEF job, u
<1>8. /\ DOMAIN disk'.pids = DOMAIN u.pids \cup {job.jid}
      /\ disk'.pids[job.jid] = JobEntry(job.jid, job, "none", Alloc(c, job))
      /\ \A k \in DOMAIN u.pids \ {job.jid} : disk'.pids[k] = u.pids[k]
      /\ disk'.pending = u.pending /\ disk'.queued = u.queued /\ disk'.next = u.next
  BY <1>4, <1>5, <1>6, BookFacts
<1>9. TakesFrom(p, i, job)
  BY <1>2, <1>3, <1>4, <1>6, <1>7, <1>8 DEF TakesFrom, c
<1> QED
  BY <1>9

LEMMA FreeFile ==
  ASSUME TypeOK, NEW j \in Jobs, Free(j)
  PROVE  /\ DOMAIN disk'.pids = DOMAIN disk.pids \ {j}
         /\ \A k \in DOMAIN disk'.pids : disk'.pids[k] = disk.pids[k]
         /\ disk'.pending = disk.pending /\ disk'.queued = disk.queued
         /\ disk'.next = disk.next
<1>1. disk \in CoreschedState(Jobs) /\ disk' = FreeJobs(disk, {j})
  BY CleanedUpFacts DEF Free, FreeJob
<1> QED
  BY <1>1, FreeJobsFacts

PutsBack(p, j) ==
  /\ j \in taken[p] /\ j \in Jobs
  /\ DOMAIN disk'.pids = DOMAIN disk.pids \ {j}
  /\ \A k \in DOMAIN disk'.pids : disk'.pids[k] = disk.pids[k]
  /\ disk'.pending = disk.pending /\ disk'.next = disk.next
  /\ JobEntry(j, req[j], "none", NoGrant) \in EntryOf(Jobs)
  /\ disk'.queued = Cons(JobEntry(j, req[j], "none", NoGrant), disk.queued)

LEMMA DispatchRequeueFile ==
  ASSUME TypeOK, NEW p \in Procs, DispatchRequeue(p)
  PROVE  \E j : PutsBack(p, j)
<1>1. PICK j \in taken[p] :
        disk' = [FreeJobs(disk, {j}) EXCEPT
                   !.queued = Cons(JobEntry(j, req[j], "none", NoGrant), @)]
  BY DEF DispatchRequeue, FreeJob
<1> DEFINE f == FreeJobs(disk, {j})
           e == JobEntry(j, req[j], "none", NoGrant)
<1>2. /\ f \in CoreschedState(Jobs) /\ DOMAIN f.pids = DOMAIN disk.pids \ {j}
      /\ \A k \in DOMAIN disk.pids \ {j} : f.pids[k] = disk.pids[k]
      /\ f.pending = disk.pending /\ f.queued = disk.queued /\ f.next = disk.next
  BY CleanedUpFacts, FreeJobsFacts
<1>3. j \in Jobs
  BY DEF TypeOK
<1>4. e \in EntryOf(Jobs)
  BY <1>3, RequestType, EntryTypes DEF PidKinds
<1>5. disk' = [f EXCEPT !.queued = Cons(e, f.queued)]
  BY <1>1
<1> HIDE DEF f, e
<1>6. /\ disk'.pids = f.pids /\ disk'.pending = f.pending /\ disk'.next = f.next
      /\ disk'.queued = Cons(e, f.queued)
  BY <1>2, <1>5 DEF CoreschedState
<1>7. PutsBack(p, j)
  BY <1>2, <1>3, <1>4, <1>6 DEF PutsBack, e
<1> QED
  BY <1>7

-----------------------------------------------------------------------------
(* Entries show requests.                                                  *)

(* The elements of the queue after each of its operations.                 *)
LEMMA QueueElements ==
  ASSUME NEW S, NEW q \in Seq(S)
  PROVE  /\ \A i \in DOMAIN q : \A k \in DOMAIN RemoveAt(q, i) :
              \E m \in DOMAIN q : RemoveAt(q, i)[k] = q[m]
         /\ \A e \in S : \A k \in DOMAIN Append(q, e) :
              Append(q, e)[k] = e \/ \E m \in DOMAIN q : Append(q, e)[k] = q[m]
         /\ \A e \in S : \A k \in DOMAIN Cons(e, q) :
              Cons(e, q)[k] = e \/ \E m \in DOMAIN q : Cons(e, q)[k] = q[m]
<1>0. Len(q) \in Nat /\ DOMAIN q = 1 .. Len(q)
  BY LenProperties
<1>1. ASSUME NEW i \in DOMAIN q, NEW k \in DOMAIN RemoveAt(q, i)
      PROVE  \E m \in DOMAIN q : RemoveAt(q, i)[k] = q[m]
  <2> DEFINE r == RemoveAt(q, i)
  <2>1. /\ DOMAIN r = 1 .. (Len(q) - 1)
        /\ \A n \in 1 .. (Len(q) - 1) : r[n] = IF n < i THEN q[n] ELSE q[n + 1]
    BY RemoveAtFacts, Zenon
  <2>2. k \in DOMAIN r
    OBVIOUS
  <2> HIDE DEF r
  <2>3. \E m \in DOMAIN q : r[k] = q[m]
    BY <1>0, <2>1, <2>2
  <2> QED
    BY <2>3 DEF r
<1>2. ASSUME NEW e \in S, NEW k \in DOMAIN Append(q, e)
      PROVE  Append(q, e)[k] = e \/ \E m \in DOMAIN q : Append(q, e)[k] = q[m]
  <2> DEFINE r == Append(q, e)
  <2>1. /\ DOMAIN r = 1 .. (Len(q) + 1) /\ r[Len(q) + 1] = e
        /\ \A n \in 1 .. Len(q) : r[n] = q[n]
    BY AppendProperties, LenProperties
  <2>2. k \in DOMAIN r
    OBVIOUS
  <2> HIDE DEF r
  <2>3. r[k] = e \/ \E m \in DOMAIN q : r[k] = q[m]
    BY <1>0, <2>1, <2>2
  <2> QED
    BY <2>3 DEF r
<1>3. ASSUME NEW e \in S, NEW k \in DOMAIN Cons(e, q)
      PROVE  Cons(e, q)[k] = e \/ \E m \in DOMAIN q : Cons(e, q)[k] = q[m]
  <2> DEFINE r == Cons(e, q)
  <2>1. /\ DOMAIN r = 1 .. (Len(q) + 1) /\ r[1] = e
        /\ \A n \in 1 .. Len(q) : r[n + 1] = q[n]
    BY ConsFacts
  <2>2. k \in DOMAIN r
    OBVIOUS
  <2> HIDE DEF r
  <2>3. k # 1 => k - 1 \in DOMAIN q /\ r[k] = q[k - 1]
    BY <1>0, <2>1, <2>2
  <2>4. r[k] = e \/ \E m \in DOMAIN q : r[k] = q[m]
    BY <2>1, <2>3
  <2> QED
    BY <2>4 DEF r
<1> QED
  BY <1>1, <1>2, <1>3

LEMMA JobEntryMatches ==
  ASSUME NEW k, NEW pid, NEW g
  PROVE  Matches(JobEntry(k, req[k], pid, g), k)
BY DEF Matches, JobEntry

(* The engine looks at what the entry and the request have in common.      *)
LEMMA SameAsked ==
  ASSUME NEW k, NEW r, Matches(r, k), NEW s
  PROVE  /\ Alloc(s, r) = Alloc(s, req[k])
         /\ NeededForPriority(s, r) = NeededForPriority(s, req[k])
         /\ \A g : JobEntry(k, r, "none", g) = JobEntry(k, req[k], "none", g)
BY DEF Matches, Alloc, NeededForPriority, JobEntry, AllocCfdForPriority, AllocPyForPriority

LEMMA RequestsStay == [Next]_vars => req' = req
BY DEF Next, SubmitStep, ParentStep, WaiterStep, DispatchStep, Register, Enqueue, Submit,
       RunFork, RunForkFails, ParentExits, UpdatePid, AllocRun, AllocWaits, Sleep, GiveUp,
       Launch, LaunchUnpinned, LaunchPanics, RecordPid, Reap, Free, CmdExits,
       DispatchTake, DispatchStops, DispatchFork, DispatchRequeue, ReserveCore, Crash,
       Reboot, vars

LEMMA EntriesStep ==
  ASSUME IInv, Matched, [Next]_vars
  PROVE  Matched' /\ \A k \in DOMAIN disk'.pids : SameEntry(k) \/ Given(k)
<1> DEFINE c == CleanedUp
           Post == Matched' /\ \A k \in DOMAIN disk'.pids : SameEntry(k) \/ Given(k)
           From(map, e) == \E k \in DOMAIN map : e = map[k]
<1>0. TypeOK /\ \A j \in Jobs : JobOK(j)
  BY DEF IInv
<1>C. /\ DOMAIN c.pids \subseteq DOMAIN disk.pids
      /\ \A k \in DOMAIN c.pids : c.pids[k] = disk.pids[k]
      /\ DOMAIN c.pending \subseteq DOMAIN disk.pending
      /\ \A k \in DOMAIN c.pending : c.pending[k] = disk.pending[k]
      /\ c.queued = disk.queued
      /\ disk.queued \in Seq(EntryOf(Jobs))
  BY <1>0, CleanedUpFacts DEF CoreschedState
<1>R. req' = req
  BY RequestsStay
(* What has to be shown of the three parts of the file.                    *)
<1>P. ASSUME \A k \in DOMAIN disk'.pids : SameEntry(k) \/ Given(k),
             \A k \in DOMAIN disk'.pending :
               \/ k \in DOMAIN disk.pending
                    /\ disk'.pending[k] \in {disk.pending[k],
                                             [disk.pending[k] EXCEPT !.pid = "wtr"]}
               \/ \E pid : disk'.pending[k] = JobEntry(k, req[k], pid, NoGrant),
             \A i \in DOMAIN disk'.queued :
               \/ \E m \in DOMAIN disk.queued : disk'.queued[i] = disk.queued[m]
               \/ \E k \in Jobs : disk'.queued[i] = JobEntry(k, req[k], "none", NoGrant)
      PROVE  Post
  <2>0. \A e : \A k : \A pid : Matches(e, k) /\ e \in EntryOf(Jobs)
                                 => Matches([e EXCEPT !.pid = pid], k)
    BY DEF Matches, EntryOf
  <2>1. /\ \A k \in DOMAIN disk.pids : disk.pids[k] \in EntryOf(Jobs)
        /\ \A k \in DOMAIN disk.pending : disk.pending[k] \in EntryOf(Jobs)
    BY <1>0, CleanedUpFacts, JobMapFacts DEF CoreschedState
  <2>2. ASSUME NEW k \in DOMAIN disk'.pids
        PROVE  Matches(disk'.pids[k], k)
    <3>1. CASE SameEntry(k)
      <4>1. /\ k \in DOMAIN disk.pids /\ Matches(disk.pids[k], k)
            /\ disk.pids[k] \in EntryOf(Jobs)
        BY <2>1, <3>1 DEF SameEntry, Matched
      <4>2. Matches([disk.pids[k] EXCEPT !.pid = "cmd"], k)
        BY <2>0, <4>1
      <4> QED
        BY <3>1, <4>1, <4>2 DEF SameEntry
    <3>2. CASE Given(k)
      BY <3>2, JobEntryMatches DEF Given
    <3> QED
      BY <1>P, <3>1, <3>2
  <2>3. ASSUME NEW k \in DOMAIN disk'.pending
        PROVE  Matches(disk'.pending[k], k)
    <3>1. CASE /\ k \in DOMAIN disk.pending
               /\ disk'.pending[k] \in {disk.pending[k], [disk.pending[k] EXCEPT !.pid = "wtr"]}
      <4>1. Matches(disk.pending[k], k) /\ disk.pending[k] \in EntryOf(Jobs)
        BY <2>1, <3>1 DEF Matched
      <4>2. Matches([disk.pending[k] EXCEPT !.pid = "wtr"], k)
        BY <2>0, <4>1
      <4> QED
        BY <3>1, <4>1, <4>2
    <3>2. CASE \E pid : disk'.pending[k] = JobEntry(k, req[k], pid, NoGrant)
      BY <3>2, JobEntryMatches
    <3> QED
      BY <1>P, <3>1, <3>2
  <2>4. ASSUME NEW i \in DOMAIN disk'.queued
        PROVE  Matches(disk'.queued[i], disk'.queued[i].jid)
    <3>1. CASE \E m \in DOMAIN disk.queued : disk'.queued[i] = disk.queued[m]
      BY <3>1 DEF Matched
    <3>2. CASE \E k \in Jobs : disk'.queued[i] = JobEntry(k, req[k], "none", NoGrant)
      BY <3>2, JobEntryMatches DEF JobEntry
    <3> QED
      BY <1>P, <3>1, <3>2
  <2>5. Matched'
    BY <1>R, <2>2, <2>3, <2>4 DEF Matched, Matches
  <2> QED
    BY <1>P, <2>5
<1> HIDE DEF c, Post
<1>Q. ASSUME disk'.queued = disk.queued
      PROVE  \A i \in DOMAIN disk'.queued :
               \E m \in DOMAIN disk.queued : disk'.queued[i] = disk.queued[m]
  BY <1>Q
<1>1. ASSUME NEW j \in Jobs, Register(j)
      PROVE  Post
  BY <1>0, <1>1, <1>C, <1>P, RegisterFile DEF SameEntry, c
<1>2. ASSUME NEW j \in Jobs, Enqueue(j)
      PROVE  Post
  <2>1. /\ disk'.pids = c.pids /\ disk'.pending = c.pending
        /\ JobEntry(j, req[j], "none", NoGrant) \in EntryOf(Jobs)
        /\ disk'.queued = Append(disk.queued, JobEntry(j, req[j], "none", NoGrant))
    BY <1>0, <1>2, EnqueueFile DEF c
  <2>2. ASSUME NEW i \in DOMAIN disk'.queued
        PROVE  \/ disk'.queued[i] = JobEntry(j, req[j], "none", NoGrant)
               \/ \E m \in DOMAIN disk.queued : disk'.queued[i] = disk.queued[m]
    BY <1>C, <2>1, QueueElements
  <2>3. \A k \in DOMAIN disk'.pids : SameEntry(k)
    BY <1>C, <2>1 DEF SameEntry
  <2> QED
    BY <1>C, <1>P, <2>1, <2>2, <2>3
<1>3. ASSUME NEW j \in Jobs, UpdatePid(j)
      PROVE  Post
  BY <1>0, <1>3, <1>P, UpdatePidFile DEF SameEntry
<1>4. ASSUME NEW j \in Jobs, GiveUp(j)
      PROVE  Post
  BY <1>0, <1>4, <1>P, GiveUpFile DEF SameEntry
<1>5. ASSUME NEW j \in Jobs, AllocRun(j)
      PROVE  Post
  <2>1. cmd[j] = "none"
    BY <1>0, <1>5 DEF AllocRun, JobOK, WaitingJob
  <2>2. NeededForPriority(CleanedUp, req[j]) = 0
    BY <1>5 DEF AllocRun, MayAllocate
  <2>3. \A k \in DOMAIN disk'.pids : SameEntry(k) \/ Given(k)
    BY <1>0, <1>5, <1>C, <2>1, <2>2, AllocRunFile DEF SameEntry, Given, c
  <2> QED
    BY <1>0, <1>5, <1>C, <1>P, <2>3, AllocRunFile DEF c
<1>6. ASSUME NEW j \in Jobs, AllocWaits(j)
      PROVE  Post
  <2>1. disk' = c
    BY <1>6 DEF AllocWaits, c
  <2> QED
    BY <1>C, <1>P, <2>1 DEF SameEntry
<1>7. ASSUME NEW j \in Jobs, RecordPid(j)
      PROVE  Post
  <2>1. /\ disk'.pending = disk.pending /\ disk'.queued = disk.queued
        /\ DOMAIN disk'.pids = DOMAIN disk.pids
        /\ j \in DOMAIN disk.pids => disk'.pids[j] = [disk.pids[j] EXCEPT !.pid = "cmd"]
        /\ \A k \in DOMAIN disk.pids \ {j} : disk'.pids[k] = disk.pids[k]
    BY <1>0, <1>7, RecordDisk
  <2>2. pc[Wtr(j)] = "spawned"
    BY <1>7 DEF RecordPid
  <2>3. \A k \in DOMAIN disk'.pids : SameEntry(k)
    BY <2>1, <2>2 DEF SameEntry
  <2> QED
    BY <1>P, <2>1, <2>3
<1>8. ASSUME NEW j \in Jobs, Free(j)
      PROVE  Post
  BY <1>0, <1>8, <1>P, FreeFile DEF SameEntry
<1>9. ASSUME NEW p \in Procs, DispatchTake(p)
      PROVE  Post
  <2>1. PICK i, job : TakesFrom(p, i, job)
    BY <1>0, <1>9, DispatchTakeFile
  <2>2. Matches(job, job.jid)
    BY <2>1 DEF TakesFrom, Matched
  <2>3. NeededForPriority(c, job) = 0
    BY <1>C, <2>1 DEF TakesFrom, Dispatchable, c
  <2>4. cmd[job.jid] = "none"
    <3>1. job.jid \in Jobs /\ job.jid \in QueuedJobs
      BY <2>1 DEF TakesFrom, QueuedJobs
    <3> QED
      BY <1>0, <3>1 DEF JobOK, WaitingJob, Unstarted
  <2>5. Given(job.jid)
    BY <2>1, <2>2, <2>3, <2>4, SameAsked DEF TakesFrom, Given, c
  <2>6. \A k \in DOMAIN disk'.pids \ {job.jid} : SameEntry(k)
    BY <1>C, <2>1 DEF TakesFrom, SameEntry, c
  <2>7. ASSUME NEW n \in DOMAIN disk'.queued
        PROVE  \E m \in DOMAIN disk.queued : disk'.queued[n] = disk.queued[m]
    BY <1>C, <2>1, QueueElements DEF TakesFrom
  <2>8. disk'.pending = c.pending
    BY <2>1 DEF TakesFrom, c
  <2> QED
    BY <1>C, <1>P, <2>5, <2>6, <2>7, <2>8
<1>10. ASSUME NEW p \in Procs, DispatchRequeue(p)
       PROVE  Post
  <2>1. PICK j : PutsBack(p, j)
    BY <1>0, <1>10, DispatchRequeueFile
  <2>2. ASSUME NEW n \in DOMAIN disk'.queued
        PROVE  \/ disk'.queued[n] = JobEntry(j, req[j], "none", NoGrant)
               \/ \E m \in DOMAIN disk.queued : disk'.queued[n] = disk.queued[m]
    BY <1>C, <2>1, QueueElements DEF PutsBack
  <2>3. \A k \in DOMAIN disk'.pids : SameEntry(k)
    BY <2>1 DEF PutsBack, SameEntry
  <2>4. j \in Jobs /\ disk'.pending = disk.pending
    BY <2>1 DEF PutsBack
  <2> QED
    BY <1>P, <2>2, <2>3, <2>4
<1>11. ASSUME Idle
       PROVE  Post
  BY <1>11, <1>P DEF Idle, SameEntry
<1>12. Post
  BY <1>0, <1>1, <1>2, <1>3, <1>4, <1>5, <1>6, <1>7, <1>8, <1>9, <1>10, <1>11, IdleSteps
     DEF Next, SubmitStep, WaiterStep, DispatchStep
<1> QED
  BY <1>12 DEF Post

LEMMA MatchedInit == Init => Matched
BY DEF Init, EmptyState, Matched

(* Every entry of the state file shows what its job has asked for.         *)
THEOREM MatchedAlways == Spec => [](IInv /\ Matched)
<1>1. Init => IInv /\ Matched
  BY InitInvariant, MatchedInit
<1>2. IInv /\ Matched /\ [Next]_vars => (IInv /\ Matched)'
  BY StepInvariant, EntriesStep
<1> QED
  BY <1>1, <1>2, PTL DEF Spec

-----------------------------------------------------------------------------
(* What a job is given.                                                    *)

LEMMA SameEntryKeeps ==
  ASSUME TypeOK, NEW k, SameEntry(k)
  PROVE  LET e == disk.pids[k]
             f == disk'.pids[k]
         IN  /\ k \in DOMAIN disk.pids
             /\ f.type = e.type /\ f.need = e.need /\ f.priority = e.priority
             /\ f.cores = e.cores /\ f.cpus = e.cpus
<1> DEFINE e == disk.pids[k]
<1>1. k \in DOMAIN disk.pids /\ e \in EntryOf(Jobs)
  BY CleanedUpFacts, JobMapFacts DEF SameEntry, CoreschedState
<1>2. disk'.pids[k] = e \/ disk'.pids[k] = [e EXCEPT !.pid = "cmd"]
  BY DEF SameEntry
<1> HIDE DEF e
<1>3. LET f == disk'.pids[k]
      IN  /\ f.type = e.type /\ f.need = e.need /\ f.priority = e.priority
          /\ f.cores = e.cores /\ f.cpus = e.cpus
  BY <1>1, <1>2 DEF EntryOf
<1> QED
  BY <1>1, <1>3 DEF e

(* needed_for and alloc_* agree: a job that is given resources is given as *)
(* many as it has asked for, and keeps them.                               *)
THEOREM FullGrantAlways == Spec => []FullGrant
<1>1. Init => FullGrant
  BY DEF Init, EmptyState, FullGrant
<1>2. IInv /\ Matched /\ FullGrant /\ [Next]_vars => FullGrant'
  <2> SUFFICES ASSUME IInv, Matched, FullGrant, [Next]_vars
               PROVE  FullGrant'
    OBVIOUS
  <2>0. TypeOK
    BY DEF IInv
  <2>1. ASSUME NEW k \in DOMAIN disk'.pids
        PROVE  Amount(disk'.pids[k]) = disk'.pids[k].need
    <3>1. CASE SameEntry(k)
      <4>1. Amount(disk.pids[k]) = disk.pids[k].need
        BY <3>1 DEF FullGrant, SameEntry, Amount
      <4> QED
        BY <2>0, <3>1, <4>1, SameEntryKeeps DEF Amount
    <3>2. CASE Given(k)
      <4>1. k \in Jobs
        <5>1. TypeOK'
          BY <2>0, TypeStep
        <5> QED
          BY <5>1 DEF TypeOK, StateTypeOK
      <4>2. /\ req[k].priority \in Priorities /\ req[k].need \in 0 .. 255
        BY <2>0, <4>1, RequestType
      <4>3. Amount(JobEntry(k, req[k], "none", Alloc(CleanedUp, req[k]))) = req[k].need
        BY <3>2, <4>2, AllocIsFull DEF Given
      <4> QED
        BY <3>2, <4>3 DEF Given, JobEntry
    <3> QED
      BY <2>1, <3>1, <3>2, EntriesStep
  <2> QED
    BY <2>1 DEF FullGrant, Amount
<1> QED
  BY <1>1, <1>2, MatchedAlways, PTL DEF Spec

(* No job of a lower level is given the core kept for a higher one.        *)
THEOREM ExclusiveCoresAlways == Spec => []ExclusiveCores
<1>1. Init => ExclusiveCores
  BY DEF Init, EmptyState, ExclusiveCores
<1>2. IInv /\ Matched /\ ExclusiveCores /\ [Next]_vars => ExclusiveCores'
  <2> SUFFICES ASSUME IInv, Matched, ExclusiveCores, [Next]_vars
               PROVE  ExclusiveCores'
    OBVIOUS
  <2>0. TypeOK
    BY DEF IInv
  <2>1. ASSUME NEW k \in DOMAIN disk'.pids
        PROVE  Held(disk'.pids[k]) \cap ForbiddenCpus(disk'.pids[k].priority) = {}
    <3>1. CASE SameEntry(k)
      <4>1. Held(disk.pids[k]) \cap ForbiddenCpus(disk.pids[k].priority) = {}
        BY <3>1 DEF ExclusiveCores, SameEntry
      <4> QED
        BY <2>0, <3>1, <4>1, SameEntryKeeps DEF Held
    <3>2. CASE Given(k)
      <4>1. k \in Jobs
        <5>1. TypeOK'
          BY <2>0, TypeStep
        <5> QED
          BY <5>1 DEF TypeOK, StateTypeOK
      <4>2. Held(Alloc(CleanedUp, req[k])) \cap ForbiddenCpus(req[k].priority) = {}
        BY <2>0, <4>1, RequestType, AllocIsFree
      <4> QED
        BY <3>2, <4>2 DEF Given, JobEntry, Held
    <3> QED
      BY <2>1, <3>1, <3>2, EntriesStep
  <2> QED
    BY <2>1 DEF ExclusiveCores
<1> QED
  BY <1>1, <1>2, MatchedAlways, PTL DEF Spec

(* Entries are made by the waiter of a direct run, and by a dispatcher.    *)
LEMMA WhoBooks ==
  ASSUME TypeOK, [Next]_vars, NEW j \in DOMAIN disk'.pids \ DOMAIN disk.pids
  PROVE  \/ j \in Jobs /\ AllocRun(j)
         \/ \E p \in Procs : \E i, job : TakesFrom(p, i, job) /\ job.jid = j
<1> DEFINE Fewer == DOMAIN disk'.pids \subseteq DOMAIN disk.pids
<1>0. DOMAIN CleanedUp.pids \subseteq DOMAIN disk.pids
  BY CleanedUpFacts
<1>1. ASSUME NEW k \in Jobs, SubmitStep(k) \/ WaiterStep(k), ~ AllocRun(k)
      PROVE  Fewer
  <2>1. ASSUME Register(k) \/ Enqueue(k)
        PROVE  Fewer
    BY <1>0, <2>1, RegisterFile, EnqueueFile
  <2>2. ASSUME AllocWaits(k)
        PROVE  Fewer
    BY <1>0, <2>2 DEF AllocWaits
  <2>3. ASSUME UpdatePid(k) \/ GiveUp(k) \/ RecordPid(k) \/ Free(k)
        PROVE  Fewer
    BY <2>3, UpdatePidFile, GiveUpFile, RecordDisk, FreeFile
  <2>4. ASSUME Sleep(k) \/ Launch(k) \/ LaunchUnpinned(k) \/ LaunchPanics(k) \/ Reap(k)
        PROVE  Fewer
    BY <2>4, IdleSteps DEF Idle
  <2> QED
    BY <1>1, <2>1, <2>2, <2>3, <2>4 DEF SubmitStep, WaiterStep
<1>2. ASSUME NEW k \in Jobs, AllocRun(k)
      PROVE  j = k
  BY <1>0, <1>2, AllocRunFile
<1>3. ASSUME NEW p \in Procs, DispatchTake(p)
      PROVE  \E i, job : TakesFrom(p, i, job) /\ job.jid = j
  BY <1>0, <1>3, DispatchTakeFile DEF TakesFrom
<1>4. ASSUME NEW p \in Procs, DispatchRequeue(p)
      PROVE  Fewer
  BY <1>4, DispatchRequeueFile DEF PutsBack
<1>5. ASSUME Idle
      PROVE  Fewer
  BY <1>5 DEF Idle
<1> QED
  BY <1>1, <1>2, <1>3, <1>4, <1>5, IdleSteps DEF Next, DispatchStep

(* Whoever gives a job its resources has looked at the jobs that wait: the *)
(* waiter of a direct run at both kinds, and a dispatcher at the direct    *)
(* runs when it has chosen the first job of the highest level in the queue. *)
THEOREM PriorityOrderAlways == Spec => PriorityOrder
<1>1. IInv /\ Matched /\ [Next]_vars =>
        [\A j \in DOMAIN disk'.pids \ DOMAIN disk.pids :
           \A k \in Jobs : Waits(k)' => req[k].priority <= req[j].priority]_vars
  <2> SUFFICES ASSUME IInv, Matched, [Next]_vars,
                      NEW j \in DOMAIN disk'.pids \ DOMAIN disk.pids,
                      NEW k \in Jobs, Waits(k)'
               PROVE  req[k].priority <= req[j].priority
    OBVIOUS
  <2>0. TypeOK
    BY DEF IInv
  <2>1. \/ j \in Jobs /\ AllocRun(j)
        \/ \E p \in Procs : \E i, job : TakesFrom(p, i, job) /\ job.jid = j
    BY <2>0, WhoBooks
  <2>2. req[k].priority \in 0 .. 3 /\ (j \in Jobs => req[j].priority \in 0 .. 3)
    BY <2>0, RequestType DEF Priorities
  <2>3. k \in DOMAIN disk'.pending \/ \E n \in DOMAIN disk'.queued : disk'.queued[n].jid = k
    BY DEF Waits, QueuedJobs
  <2>4. /\ DOMAIN CleanedUp.pending \subseteq DOMAIN disk.pending
        /\ \A l \in DOMAIN CleanedUp.pending : CleanedUp.pending[l].priority = req[l].priority
        /\ CleanedUp.queued = disk.queued
        /\ \A m \in DOMAIN disk.queued :
             disk.queued[m].priority = req[disk.queued[m].jid].priority
        /\ disk.queued \in Seq(EntryOf(Jobs))
    BY <2>0, CleanedUpFacts DEF Matched, Matches, CoreschedState
  <2>5. CASE j \in Jobs /\ AllocRun(j)
    <3>1. ~ HasHigherPriorityWaiting(CleanedUp, req[j].priority, {j})
      BY <2>5 DEF AllocRun, MayAllocate
    <3>2. /\ DOMAIN disk'.pending = DOMAIN CleanedUp.pending \ {j}
          /\ disk'.queued = disk.queued
      BY <2>0, <2>5, AllocRunFile
    <3>3. CASE k \in DOMAIN disk'.pending
      <4>1. ~ CleanedUp.pending[k].priority > req[j].priority
        BY <3>1, <3>2, <3>3 DEF HasHigherPriorityWaiting, HasHigherPriorityPending
      <4> QED
        BY <2>2, <2>4, <2>5, <3>2, <3>3, <4>1
    <3>4. CASE \E n \in DOMAIN disk'.queued : disk'.queued[n].jid = k
      <4>1. PICK n \in DOMAIN disk.queued : disk.queued[n].jid = k
        BY <3>2, <3>4
      <4>2. ~ disk.queued[n].priority > req[j].priority
        BY <2>4, <3>1 DEF HasHigherPriorityWaiting
      <4> QED
        BY <2>2, <2>4, <2>5, <4>1, <4>2
    <3> QED
      BY <2>3, <3>3, <3>4
  <2>6. ASSUME NEW p \in Procs, NEW i, NEW job, TakesFrom(p, i, job), job.jid = j
        PROVE  req[k].priority <= req[j].priority
    <3>1. /\ i \in NextQueuedJobIndex(CleanedUp) /\ i \in DOMAIN disk.queued
          /\ job = disk.queued[i] /\ j \in Jobs
      BY <2>6 DEF TakesFrom, Dispatchable
    <3>2. /\ disk'.pending = CleanedUp.pending
          /\ \A n \in DOMAIN disk'.queued :
               \E m \in DOMAIN disk.queued : disk'.queued[n] = disk.queued[m]
      BY <2>4, <2>6, QueueElements DEF TakesFrom
    <3>3. job.priority = req[j].priority
      BY <2>4, <2>6, <3>1
    <3>4. CASE k \in DOMAIN disk'.pending
      <4>1. ~ HasHigherPriorityPending(CleanedUp, job.priority, {})
        BY <2>4, <3>1 DEF NextQueuedJobIndex
      <4>2. ~ CleanedUp.pending[k].priority > job.priority
        BY <3>2, <3>4, <4>1 DEF HasHigherPriorityPending
      <4> QED
        BY <2>2, <2>4, <3>1, <3>2, <3>3, <3>4, <4>2
    <3>5. CASE \E n \in DOMAIN disk'.queued : disk'.queued[n].jid = k
      <4>1. PICK m \in DOMAIN disk.queued : disk.queued[m].jid = k
        BY <3>2, <3>5
      <4>2. disk.queued[m].priority <= job.priority
        BY <2>4, <3>1 DEF NextQueuedJobIndex
      <4> QED
        BY <2>4, <3>3, <4>1, <4>2
    <3> QED
      BY <2>3, <3>4, <3>5
  <2> QED
    BY <2>1, <2>5, <2>6
<1> QED
  BY <1>1, MatchedAlways, PTL DEF Spec, PriorityOrder

-----------------------------------------------------------------------------
(* The processes.                                                          *)

(* Who moves a process.                                                    *)
LEMMA PcMoves ==
  ASSUME TypeOK, [Next]_vars, NEW p \in Procs, pc'[p] # pc[p]
  PROVE  \/ \E j \in Jobs : p = Sub(j) /\ (SubmitStep(j) \/ ParentStep(j))
         \/ \E j \in Jobs : p = Wtr(j) /\ (WaiterStep(j) \/ RunFork(j))
         \/ \E j \in Jobs, q \in Procs :
              p = Wtr(j) /\ DispatchFork(q) /\ j \in taken[q] /\ pc'[p] = "allocated"
         \/ DispatchStep(p)
         \/ \E a \in Clients, cores \in ReserveChoices : p = Adm(a) /\ ReserveCore(a, cores)
         \/ (Crash(p) \/ Reboot) /\ pc'[p] = Final(p) /\ Live(p) /\ taken'[p] = {}
<1>0. pc \in [Procs -> PCs] /\ taken \in [Procs -> SUBSET Jobs]
  BY DEF TypeOK
<1>1. ASSUME NEW j \in Jobs, SubmitStep(j)
      PROVE  p = Sub(j)
  BY <1>0, <1>1, ProcFacts DEF SubmitStep, Register, Enqueue, Submit, Goto
<1>2. ASSUME NEW j \in Jobs, ParentStep(j), p # Sub(j)
      PROVE  p = Wtr(j) /\ RunFork(j)
  BY <1>0, <1>2, ProcFacts DEF ParentStep, RunFork, RunForkFails, ParentExits, Goto
<1>3. ASSUME NEW j \in Jobs, WaiterStep(j)
      PROVE  p = Wtr(j)
  BY <1>0, <1>3, ProcFacts
     DEF WaiterStep, UpdatePid, AllocRun, AllocWaits, Sleep, GiveUp, Launch, LaunchUnpinned,
         LaunchPanics, RecordPid, Reap, Free, Goto
<1>4. ASSUME NEW j \in Jobs, CmdExits(j)
      PROVE  FALSE
  BY <1>4 DEF CmdExits
<1>5. ASSUME NEW q \in Procs, DispatchStep(q), p # q
      PROVE  \E j \in Jobs :
               p = Wtr(j) /\ DispatchFork(q) /\ j \in taken[q] /\ pc'[p] = "allocated"
  <2>1. DispatchFork(q)
    BY <1>0, <1>5 DEF DispatchStep, DispatchTake, DispatchStops, DispatchRequeue, Goto
  <2>2. PICK j \in taken[q] : pc' = [pc EXCEPT ![q] = "dispatch", ![Wtr(j)] = "allocated"]
    BY <2>1 DEF DispatchFork
  <2>3. j \in Jobs
    BY <1>0
  <2>4. p = Wtr(j)
    BY <1>0, <1>5, <2>2
  <2> QED
    BY <1>0, <2>1, <2>2, <2>3, <2>4, ProcFacts
<1>6. ASSUME NEW a \in Clients, NEW cores \in ReserveChoices, ReserveCore(a, cores)
      PROVE  p = Adm(a)
  BY <1>0, <1>6, ProcFacts DEF ReserveCore, Goto
<1>7. ASSUME NEW q \in Procs, Crash(q)
      PROVE  p = q /\ pc'[p] = Final(p) /\ Live(p) /\ taken'[p] = {}
  BY <1>0, <1>7 DEF Crash, Die
<1>8. ASSUME Reboot
      PROVE  pc'[p] = Final(p) /\ Live(p) /\ taken'[p] = {}
  <2>1. pc'[p] = Final(p) /\ taken'[p] = {}
    BY <1>0, <1>8 DEF Reboot, Die
  <2>2. p \in Alive => Live(p) \/ \E j \in Jobs : p = Wtr(j) /\ pc[p] = "exited"
    BY DEF Alive, Live, Cmd, Procs
  <2>3. ~ Live(p) => pc[p] = Final(p)
    <3> SUFFICES ASSUME ~ Live(p) PROVE pc[p] = Final(p)
      OBVIOUS
    <3>1. p \in Alive
      BY <1>0, <1>8 DEF Reboot, Die
    <3>2. PICK j \in Jobs : p = Wtr(j) /\ pc[p] = "exited"
      BY <2>2, <3>1
    <3> QED
      BY <3>2 DEF Final, Wtr
  <2> QED
    BY <2>1, <2>3
<1>9. ~ UNCHANGED vars
  BY DEF vars
<1> QED
  BY <1>1, <1>2, <1>3, <1>4, <1>5, <1>6, <1>7, <1>8, <1>9 DEF Next

(* A command that has been started is not started again, and stays.        *)
LEMMA CmdForward ==
  ASSUME TypeOK, [Next]_vars, NEW j \in Jobs
  PROVE  /\ cmd[j] # "none" => cmd'[j] # "none"
         /\ pc'[Wtr(j)] \in {"spawned", "running"} /\ pc[Wtr(j)] \notin {"spawned", "running"}
              => cmd'[j] = "running"
<1>0. pc \in [Procs -> PCs] /\ cmd \in [Jobs -> CmdStates] /\ Wtr(j) \in Procs
  BY ProcFacts DEF TypeOK
<1>1. cmd[j] # "none" => cmd'[j] # "none"
  BY <1>0
     DEF Next, SubmitStep, ParentStep, WaiterStep, DispatchStep, Register, Enqueue, Submit,
         RunFork, RunForkFails, ParentExits, UpdatePid, AllocRun, AllocWaits, Sleep, GiveUp,
         Launch, LaunchUnpinned, LaunchPanics, RecordPid, Reap, Free, CmdExits,
         DispatchTake, DispatchStops, DispatchFork, DispatchRequeue, ReserveCore, Crash,
         Reboot, Die, vars
<1>2. ASSUME pc'[Wtr(j)] \in {"spawned", "running"}, pc[Wtr(j)] \notin {"spawned", "running"}
      PROVE  cmd'[j] = "running"
  <2>1. \A k \in Jobs : /\ Wtr(j) = Wtr(k) => j = k
                        /\ Wtr(j) # Sub(k)
        /\ \A a \in Clients : Wtr(j) # Adm(a)
    BY ProcFacts
  <2>2. \/ WaiterStep(j) \/ RunFork(j)
        \/ \E q \in Procs : DispatchStep(Wtr(j))
    BY <1>0, <1>2, <2>1, PcMoves DEF Final
  <2>3. ~ DispatchStep(Wtr(j)) \/ DispatchFork(Wtr(j))
    BY <1>0, <1>2
       DEF DispatchStep, DispatchTake, DispatchStops, DispatchRequeue, Goto, Final, Wtr
  <2>4. ~ DispatchFork(Wtr(j))
    BY <1>0, <1>2 DEF DispatchFork
  <2>5. ~ RunFork(j)
    BY <1>0, <1>2, ProcFacts DEF RunFork
  <2>6. Launch(j) \/ LaunchUnpinned(j)
    BY <1>0, <1>2, <2>2, <2>3, <2>4, <2>5
       DEF WaiterStep, UpdatePid, AllocRun, AllocWaits, Sleep, GiveUp, LaunchPanics, RecordPid,
           Reap, Free, Goto
  <2> QED
    BY <1>0, <2>6 DEF Launch, LaunchUnpinned
<1> QED
  BY <1>1, <1>2

-----------------------------------------------------------------------------
(* Nothing is forgotten.                                                   *)

(* While its command has not started, no pid is recorded for the job, and  *)
(* an entry without a pid is nobody's to remove but its waiter's, after    *)
(* the command.                                                            *)
Remembered(j) ==
  /\ Occupied(j) /\ cmd[j] = "none" => disk.pids[j].pid = "none"
  /\ pc[Wtr(j)] \in {"spawned", "running"} => cmd[j] # "none"
  /\ req[j].mode = "enqueue" /\ disk.next > j /\ cmd[j] = "none"
       => j \in QueuedJobs \/ Occupied(j)

LEMMA QueueStays ==
  ASSUME TypeOK, [Next]_vars, NEW j \in QueuedJobs
  PROVE  j \in QueuedJobs' \/ j \in DOMAIN disk'.pids
<1> DEFINE q == disk.queued
           Stays == j \in Jids(disk'.queued) \/ j \in DOMAIN disk'.pids
<1>0. /\ QueuedJobs = Jids(disk.queued) /\ QueuedJobs' = Jids(disk'.queued)
      /\ disk.queued \in Seq(EntryOf(Jobs)) /\ CleanedUp.queued = disk.queued
  BY CleanedUpFacts DEF QueuedJobs, Jids, CoreschedState
<1>1. ASSUME disk'.queued = disk.queued
      PROVE  Stays
  BY <1>0, <1>1
<1>2. ASSUME NEW k \in Jobs, SubmitStep(k)
      PROVE  Stays
  <2>1. CASE Register(k)
    BY <1>1, <2>1, RegisterFile
  <2>2. CASE Enqueue(k)
    <3> DEFINE e == JobEntry(k, req[k], "none", NoGrant)
    <3>1. e \in EntryOf(Jobs) /\ disk'.queued = Append(disk.queued, e)
      BY <2>2, EnqueueFile
    <3> HIDE DEF e
    <3>2. Jids(disk'.queued) = Jids(disk.queued) \cup {e.jid}
      BY <1>0, <3>1, AppendJids
    <3> QED
      BY <1>0, <3>2
  <2> QED
    BY <1>2, <2>1, <2>2 DEF SubmitStep
<1>3. ASSUME NEW k \in Jobs,
             UpdatePid(k) \/ GiveUp(k) \/ RecordPid(k) \/ Free(k) \/ AllocRun(k) \/ AllocWaits(k)
      PROVE  Stays
  BY <1>0, <1>1, <1>3, UpdatePidFile, GiveUpFile, RecordDisk, FreeFile, AllocRunFile DEF AllocWaits
<1>4. ASSUME NEW p \in Procs, DispatchTake(p)
      PROVE  Stays
  <2>1. PICK i, job : TakesFrom(p, i, job)
    BY <1>4, DispatchTakeFile
  <2>2. PICK n \in DOMAIN q : q[n].jid = j
    BY DEF QueuedJobs
  <2>3. CASE n = i
    BY <2>1, <2>2, <2>3 DEF TakesFrom
  <2>4. CASE n # i
    <3> DEFINE r == RemoveAt(q, i)
    <3>1. /\ i \in DOMAIN q /\ Len(q) \in Nat /\ DOMAIN q = 1 .. Len(q)
          /\ DOMAIN r = 1 .. (Len(q) - 1) /\ disk'.queued = r
          /\ \A k \in 1 .. (Len(q) - 1) : r[k] = IF k < i THEN q[k] ELSE q[k + 1]
      <4>1. i \in DOMAIN q /\ disk'.queued = r
        BY <2>1 DEF TakesFrom
      <4>2. Len(q) \in Nat /\ DOMAIN q = 1 .. Len(q)
        BY <1>0, LenProperties
      <4>3. /\ DOMAIN r = 1 .. (Len(q) - 1)
            /\ \A k \in 1 .. (Len(q) - 1) : r[k] = IF k < i THEN q[k] ELSE q[k + 1]
        BY <1>0, <4>1, RemoveAtFacts, Zenon
      <4> QED
        BY <4>1, <4>2, <4>3
    <3> HIDE DEF r, q
    <3>2. CASE n < i
      <4>1. n \in DOMAIN r /\ r[n] = q[n]
        BY <2>2, <3>1, <3>2
      <4> QED
        BY <2>2, <3>1, <4>1 DEF Jids
    <3>3. CASE n > i
      <4>1. n - 1 \in DOMAIN r /\ r[n - 1] = q[n]
        BY <2>2, <3>1, <3>3
      <4> QED
        BY <2>2, <3>1, <4>1 DEF Jids
    <3> QED
      BY <2>2, <2>4, <3>1, <3>2, <3>3
  <2> QED
    BY <2>3, <2>4
<1>5. ASSUME NEW p \in Procs, DispatchRequeue(p)
      PROVE  Stays
  BY <1>0, <1>5, DispatchRequeueFile, ConsJids DEF PutsBack
<1>6. Stays
  BY <1>1, <1>2, <1>3, <1>4, <1>5, IdleSteps
     DEF Next, SubmitStep, WaiterStep, DispatchStep, Idle
<1> QED
  BY <1>0, <1>6

LEMMA EntryStays ==
  ASSUME IInv, [Next]_vars, NEW j \in DOMAIN disk.pids,
         disk.pids[j].pid = "none", cmd[j] = "none"
  PROVE  j \in QueuedJobs' \/ j \in DOMAIN disk'.pids
<1> DEFINE Stays == j \in Jids(disk'.queued) \/ j \in DOMAIN disk'.pids
<1>0. /\ TypeOK /\ \A k \in Jobs : JobOK(k)
      /\ QueuedJobs' = Jids(disk'.queued)
      /\ disk.queued \in Seq(EntryOf(Jobs))
  BY CleanedUpFacts DEF QueuedJobs, Jids, CoreschedState, IInv
<1>1. j \in DOMAIN CleanedUp.pids
  BY <1>0, CleanedUpFacts DEF DeadIn
<1>2. ASSUME NEW k \in Jobs, SubmitStep(k) \/ WaiterStep(k), ~ Free(k)
      PROVE  Stays
  <2>1. ASSUME Register(k) \/ Enqueue(k)
        PROVE  Stays
    BY <1>0, <1>1, <2>1, RegisterFile, EnqueueFile
  <2>2. ASSUME UpdatePid(k) \/ GiveUp(k) \/ RecordPid(k)
        PROVE  Stays
    BY <1>0, <2>2, UpdatePidFile, GiveUpFile, RecordDisk
  <2>3. ASSUME AllocRun(k) \/ AllocWaits(k)
        PROVE  Stays
    BY <1>0, <1>1, <2>3, AllocRunFile DEF AllocWaits
  <2>4. ASSUME Sleep(k) \/ Launch(k) \/ LaunchUnpinned(k) \/ LaunchPanics(k) \/ Reap(k)
        PROVE  Stays
    BY <1>0, <2>4, IdleSteps DEF Idle
  <2> QED
    BY <1>2, <2>1, <2>2, <2>3, <2>4 DEF SubmitStep, WaiterStep
<1>3. ASSUME NEW k \in Jobs, Free(k)
      PROVE  Stays
  <2>1. k # j
    BY <1>0, <1>3 DEF Free, JobOK, StartedJob
  <2> QED
    BY <1>0, <1>3, <2>1, FreeFile
<1>4. ASSUME NEW p \in Procs, DispatchTake(p)
      PROVE  Stays
  BY <1>0, <1>1, <1>4, DispatchTakeFile DEF TakesFrom
<1>5. ASSUME NEW p \in Procs, DispatchRequeue(p)
      PROVE  Stays
  <2>1. PICK k : PutsBack(p, k)
    BY <1>0, <1>5, DispatchRequeueFile
  <2>2. CASE k = j
    <3>1. JobEntry(j, req[j], "none", NoGrant).jid = j
      BY DEF JobEntry
    <3> QED
      BY <1>0, <2>1, <2>2, <3>1, ConsJids DEF PutsBack
  <2>3. CASE k # j
    BY <2>1, <2>3 DEF PutsBack
  <2> QED
    BY <2>2, <2>3
<1>6. Stays
  BY <1>0, <1>2, <1>3, <1>4, <1>5, IdleSteps DEF Next, DispatchStep, Idle
<1> QED
  BY <1>0, <1>6

LEMMA RememberedStep ==
  ASSUME IInv, Matched, \A j \in Jobs : Remembered(j), [Next]_vars, NEW j \in Jobs
  PROVE  Remembered(j)'
<1>0. TypeOK /\ TypeOK' /\ Remembered(j) /\ req' = req
  BY TypeStep, RequestsStay DEF IInv
<1>1. ASSUME Occupied(j)', cmd'[j] = "none"
      PROVE  disk'.pids[j].pid = "none"
  <2>1. cmd[j] = "none"
    BY <1>0, <1>1, CmdForward
  <2>2. CASE SameEntry(j)
    BY <1>0, <2>1, <2>2 DEF Remembered, SameEntry, Occupied
  <2>3. CASE Given(j)
    BY <2>3 DEF Given, JobEntry
  <2> QED
    BY <1>1, <2>2, <2>3, EntriesStep DEF Occupied
<1>2. ASSUME pc'[Wtr(j)] \in {"spawned", "running"}
      PROVE  cmd'[j] # "none"
  BY <1>0, <1>2, CmdForward DEF Remembered
<1>3. ASSUME req'[j].mode = "enqueue", disk'.next > j, cmd'[j] = "none"
      PROVE  (j \in QueuedJobs \/ Occupied(j))'
  <2>1. cmd[j] = "none"
    BY <1>0, <1>3, CmdForward
  <2>2. CASE disk.next > j
    <3>1. CASE j \in QueuedJobs
      BY <1>0, <3>1, QueueStays DEF Occupied
    <3>2. CASE Occupied(j)
      <4>1. disk.pids[j].pid = "none"
        BY <1>0, <2>1, <3>2 DEF Remembered
      <4> QED
        BY <2>1, <3>2, <4>1, EntryStays DEF Occupied
    <3> QED
      BY <1>0, <1>3, <2>1, <2>2, <3>1, <3>2 DEF Remembered
  <2>3. CASE ~ disk.next > j
    <3>1. disk'.next # disk.next
      BY <1>3, <2>3
    <3>2. \E k \in Jobs : Register(k) \/ Enqueue(k)
      <4>0. CleanedUp.next = disk.next
        BY <1>0, CleanedUpFacts
      <4>1. ASSUME NEW k \in Jobs, WaiterStep(k)
            PROVE  disk'.next = disk.next
        <5>1. CASE UpdatePid(k) \/ GiveUp(k) \/ RecordPid(k) \/ Free(k) \/ AllocRun(k) \/ AllocWaits(k)
          BY <1>0, <4>0, <5>1, UpdatePidFile, GiveUpFile, RecordDisk, FreeFile, AllocRunFile
             DEF AllocWaits
        <5>2. CASE Sleep(k) \/ Launch(k) \/ LaunchUnpinned(k) \/ LaunchPanics(k) \/ Reap(k)
          BY <1>0, <5>2, IdleSteps DEF Idle
        <5> QED
          BY <4>1, <5>1, <5>2 DEF WaiterStep
      <4>2. ASSUME NEW p \in Procs, DispatchTake(p) \/ DispatchRequeue(p)
            PROVE  disk'.next = disk.next
        BY <1>0, <4>2, DispatchTakeFile, DispatchRequeueFile DEF TakesFrom, PutsBack
      <4> QED
        BY <1>0, <3>1, <4>1, <4>2, IdleSteps DEF Next, SubmitStep, DispatchStep, Idle
    <3>3. PICK k \in Jobs : Register(k) \/ Enqueue(k)
      BY <3>2
    <3>4. disk.next = k /\ disk'.next = k + 1
      BY <1>0, <3>3, RegisterFile, EnqueueFile
    <3>5. j = k
      BY <1>3, <2>3, <3>4 DEF Jobs
    <3>6. Enqueue(j)
      BY <1>0, <1>3, <3>3, <3>5 DEF Register, Submit
    <3>7. /\ disk.queued \in Seq(EntryOf(Jobs))
          /\ disk'.queued = Append(disk.queued, JobEntry(j, req[j], "none", NoGrant))
          /\ JobEntry(j, req[j], "none", NoGrant) \in EntryOf(Jobs)
          /\ JobEntry(j, req[j], "none", NoGrant).jid = j
      BY <1>0, <3>6, EnqueueFile, CleanedUpFacts DEF CoreschedState, JobEntry
    <3>8. j \in Jids(disk'.queued)
      BY <3>7, AppendJids
    <3> QED
      BY <3>8 DEF QueuedJobs, Jids
  <2> QED
    BY <2>2, <2>3
<1> QED
  BY <1>1, <1>2, <1>3 DEF Remembered

(* An enqueued job whose command has not started is in the state file,     *)
(* whatever processes die: no step of anybody loses it.                    *)
THEOREM NotForgottenAlways == Spec => []NotForgotten
<1> DEFINE Recall == \A j \in Jobs : Remembered(j)
<1>1. Init => Recall
  <2> SUFFICES ASSUME Init, NEW j \in Jobs
               PROVE  Remembered(j)
    OBVIOUS
  <2>1. Wtr(j) \in Procs
    BY ProcFacts
  <2>2. ~ Occupied(j) /\ pc[Wtr(j)] = "idle" /\ ~ disk.next > j
    BY <2>1 DEF Init, EmptyState, Occupied, Jobs
  <2> QED
    BY <2>2 DEF Remembered
<1>2. IInv /\ Matched /\ Recall /\ [Next]_vars => Recall'
  BY RememberedStep
<1>3. Recall => NotForgotten
  BY DEF Remembered, NotForgotten
<1> QED
  BY <1>1, <1>2, <1>3, MatchedAlways, PTL DEF Spec

-----------------------------------------------------------------------------
(* A command runs where its job was put.                                   *)

(* Nobody asks for nothing.                                                *)
EverybodyAsks == \A r \in Requests : r.need > 0

LEMMA GrantsAreNotEmpty ==
  ASSUME EverybodyAsks, TypeOK, Matched, FullGrant, NEW j \in DOMAIN disk.pids
  PROVE  Held(disk.pids[j]) # {}
<1> DEFINE e == disk.pids[j]
<1>1. j \in Jobs /\ e \in EntryOf(Jobs)
  BY CleanedUpFacts, JobMapFacts DEF CoreschedState
<1>2. Amount(e) = req[j].need
  BY DEF FullGrant, Amount, Matched, Matches
<1>3. req[j].need > 0
  BY <1>1 DEF EverybodyAsks, TypeOK
<1>4. Amount(e) # 0
  BY <1>2, <1>3
<1>5. Cardinality({}) = 0
  BY FS_EmptySet
<1>6. e.cores # {} \/ e.cpus # {}
  BY <1>4, <1>5 DEF Amount
<1>7. \A c : LogicalCpus(c) # {}
  BY DEF LogicalCpus
<1> QED
  BY <1>6, <1>7 DEF Held, CpusOf

(* A command that runs has the affinity its waiter wanted.                 *)
Masked(j) == Running(j) => mask[j] = pin[j]

LEMMA MaskedStep ==
  ASSUME EverybodyAsks, "pin" \notin FaultKinds, IInv, Matched, FullGrant,
         \A j \in Jobs : Masked(j), [Next]_vars, NEW j \in Jobs
  PROVE  Masked(j)'
<1>0. /\ TypeOK /\ JobOK(j) /\ Masked(j)
      /\ cmd \in [Jobs -> CmdStates] /\ pin \in [Jobs -> SUBSET Cpus]
      /\ mask \in [Jobs -> SUBSET Cpus] /\ taken \in [Procs -> SUBSET Jobs]
  BY DEF IInv, TypeOK
<1>1. ASSUME cmd'[j] = "running" => cmd[j] = "running", pin'[j] = pin[j], mask'[j] = mask[j]
      PROVE  Masked(j)'
  BY <1>0, <1>1 DEF Masked, Running
<1>2. ASSUME cmd'[j] # "running"
      PROVE  Masked(j)'
  BY <1>2 DEF Masked, Running
<1>3. ASSUME NEW k \in Jobs, AllocRun(k)
      PROVE  Masked(j)'
  <2>1. CASE k = j
    BY <1>0, <1>2, <1>3, <2>1 DEF AllocRun, JobOK, WaitingJob
  <2>2. CASE k # j
    BY <1>0, <1>1, <1>3, <2>2 DEF AllocRun
  <2> QED
    BY <2>1, <2>2
<1>4. ASSUME NEW k \in Jobs, Launch(k)
      PROVE  Masked(j)'
  BY <1>0, <1>1, <1>4 DEF Launch, Masked, Running
<1>5. ASSUME NEW k \in Jobs, LaunchUnpinned(k)
      PROVE  FALSE
  <2>1. pin[k] = {}
    BY <1>5 DEF LaunchUnpinned, PinFails, Fault
  <2>2. Books(k, {"none"})
    BY <1>5 DEF LaunchUnpinned, IInv, JobOK, StartedJob
  <2> QED
    BY <1>0, <2>1, <2>2, GrantsAreNotEmpty DEF Books, Occupied
<1>6. ASSUME NEW p \in Procs, DispatchTake(p)
      PROVE  Masked(j)'
  <2>1. PICK i, job : TakesFrom(p, i, job)
    BY <1>0, <1>6, DispatchTakeFile
  <2>2. cmd' = cmd /\ mask' = mask
    BY <1>6 DEF DispatchTake
  <2>3. CASE job.jid = j
    <3>1. cmd[j] = "none"
      BY <1>0, <2>1, <2>3 DEF TakesFrom, QueuedJobs, JobOK, WaitingJob, Unstarted
    <3> QED
      BY <1>2, <2>2, <3>1
  <2>4. CASE job.jid # j
    BY <1>0, <1>1, <2>1, <2>2, <2>4 DEF TakesFrom
  <2> QED
    BY <2>3, <2>4
<1>7. ASSUME NEW p \in Procs, DispatchFork(p)
      PROVE  Masked(j)'
  <2>1. PICK k \in taken[p] : mask' = [mask EXCEPT ![k] = MaskOf(p)]
    BY <1>7 DEF DispatchFork
  <2>2. cmd' = cmd /\ pin' = pin
    BY <1>7 DEF DispatchFork
  <2>3. CASE k = j
    <3>1. cmd[j] = "none"
      BY <1>0, <2>1, <2>3 DEF JobOK, TakenJob, Unstarted
    <3> QED
      BY <1>2, <2>2, <3>1
  <2>4. CASE k # j
    BY <1>0, <1>1, <2>1, <2>2, <2>4
  <2> QED
    BY <2>3, <2>4
<1>8. ASSUME NEW D, Die(D), UNCHANGED <<pin, mask>>
      PROVE  Masked(j)'
  BY <1>1, <1>8 DEF Die
<1>9. ASSUME UNCHANGED <<pin, mask>>, cmd' = cmd \/ \E k \in Jobs : Reap(k) \/ CmdExits(k)
      PROVE  Masked(j)'
  BY <1>0, <1>1, <1>9 DEF Reap, CmdExits
<1> QED
  BY <1>3, <1>4, <1>5, <1>6, <1>7, <1>8, <1>9
     DEF Next, SubmitStep, ParentStep, WaiterStep, DispatchStep, Register, Enqueue, Submit,
         RunFork, RunForkFails, ParentExits, UpdatePid, AllocWaits, Sleep, GiveUp,
         LaunchPanics, RecordPid, Reap, Free, CmdExits,
         DispatchStops, DispatchRequeue, ReserveCore, Crash, Reboot, vars

(* Unless the kernel refuses to pin it, a command that runs is confined to *)
(* the CPUs that the state file shows for its job.  Who asks for no CPU at *)
(* all is pinned to none, and runs where its dispatcher may.               *)
THEOREM ConfinedAlways ==
  ASSUME EverybodyAsks, "pin" \notin FaultKinds
  PROVE  Spec => []Confined
<1> DEFINE AllMasked == \A j \in Jobs : Masked(j)
<1>1. Init => AllMasked
  BY DEF Init, Masked, Running
<1>2. IInv /\ Matched /\ FullGrant /\ AllMasked /\ [Next]_vars => AllMasked'
  BY MaskedStep
<1>3. IInv /\ AllMasked => Confined
  BY DEF IInv, JobOK, StartedJob, Books, Masked, Running, Confined
<1> QED
  BY <1>1, <1>2, <1>3, MatchedAlways, FullGrantAlways, PTL DEF Spec

-----------------------------------------------------------------------------
(* What is booked is given back.                                           *)

(* A dispatcher has one job in its hands, and then it is about to fork.    *)
TakenOnce(p) == taken[p] # {} => pc[p] = "fork" /\ \A i, k \in taken[p] : i = k

LEMMA TakenOnceStep ==
  ASSUME IInv, \A p \in Procs : TakenOnce(p), [Next]_vars, NEW p \in Procs
  PROVE  TakenOnce(p)'
<1>0. /\ TypeOK /\ TakenOnce(p) /\ \A j \in Jobs : JobOK(j)
      /\ pc \in [Procs -> PCs] /\ taken \in [Procs -> SUBSET Jobs]
  BY DEF IInv, TypeOK
<1>1. ASSUME taken'[p] = {}
      PROVE  TakenOnce(p)'
  BY <1>1 DEF TakenOnce
<1>2. ASSUME DispatchTake(p)
      PROVE  TakenOnce(p)'
  <2>1. PICK i, job : TakesFrom(p, i, job)
    BY <1>0, <1>2, DispatchTakeFile
  <2>2. taken'[p] = {job.jid} /\ pc'[p] = "fork"
    BY <1>0, <1>2, <2>1 DEF TakesFrom, DispatchTake, Goto
  <2> QED
    BY <2>2 DEF TakenOnce
<1>3. taken'[p] = {} \/ taken'[p] = taken[p] \/ DispatchTake(p)
  <2>1. ASSUME NEW q \in Procs, DispatchTake(q), q # p
        PROVE  taken'[p] = taken[p]
    BY <1>0, <2>1, DispatchTakeFile DEF TakesFrom
  <2>2. ASSUME NEW q \in Procs, DispatchFork(q) \/ DispatchRequeue(q)
        PROVE  taken'[p] = taken[p] \/ taken'[p] = {}
    BY <1>0, <2>2 DEF DispatchFork, DispatchRequeue
  <2>3. ASSUME NEW D, Die(D)
        PROVE  taken'[p] = taken[p] \/ taken'[p] = {}
    BY <1>0, <2>3 DEF Die
  <2> QED
    BY <2>1, <2>2, <2>3
       DEF Next, SubmitStep, ParentStep, WaiterStep, DispatchStep, Register, Enqueue, Submit,
           RunFork, RunForkFails, ParentExits, UpdatePid, AllocRun, AllocWaits, Sleep, GiveUp,
           Launch, LaunchUnpinned, LaunchPanics, RecordPid, Reap, Free, CmdExits,
           DispatchStops, ReserveCore, Crash, Reboot, vars
<1>4. ASSUME taken'[p] = taken[p], taken[p] # {}, ~ DispatchTake(p)
      PROVE  pc'[p] = "fork"
  <2>1. pc[p] = "fork"
    BY <1>0, <1>4 DEF TakenOnce
  <2> SUFFICES ASSUME pc'[p] # pc[p]
               PROVE  FALSE
    BY <2>1
  <2>2. ~ DispatchStep(p)
    BY <1>0, <1>4, <2>1 DEF DispatchStep, DispatchFork, DispatchRequeue, DispatchStops
  <2>3. ASSUME NEW j \in Jobs, p = Sub(j)
        PROVE  ~ (SubmitStep(j) \/ ParentStep(j))
    BY <2>1, <2>3 DEF SubmitStep, ParentStep, Register, Enqueue, Submit, RunFork, RunForkFails,
                      ParentExits
  <2>4. ASSUME NEW j \in Jobs, p = Wtr(j)
        PROVE  ~ WaiterStep(j)
    BY <2>1, <2>4
       DEF WaiterStep, UpdatePid, AllocRun, AllocWaits, Sleep, GiveUp, Launch, LaunchUnpinned,
           LaunchPanics, RecordPid, Reap, Free
  <2>5. ASSUME NEW j \in Jobs, p = Wtr(j)
        PROVE  ~ RunFork(j)
    BY <1>0, <2>1, <2>5 DEF RunFork, JobOK, WaitingJob, Unstarted
  <2>6. ASSUME NEW j \in Jobs, NEW q \in Procs, p = Wtr(j), j \in taken[q]
        PROVE  FALSE
    BY <1>0, <2>1, <2>6 DEF JobOK, TakenJob, Unstarted
  <2>7. ASSUME NEW a \in Clients, NEW cores, p = Adm(a)
        PROVE  ~ ReserveCore(a, cores)
    BY <2>1, <2>7 DEF ReserveCore
  <2> QED
    BY <1>0, <1>4, <2>2, <2>3, <2>4, <2>5, <2>6, <2>7, PcMoves
<1>5. CASE taken'[p] = taken[p] /\ taken[p] # {} /\ ~ DispatchTake(p)
  BY <1>0, <1>4, <1>5 DEF TakenOnce
<1> QED
  BY <1>1, <1>2, <1>3, <1>5

(* Somebody will give back what is booked for the job.                     *)
Attended(j) ==
  Occupied(j) => \/ pc[Wtr(j)] \in {"allocated", "spawned", "running", "reaped"}
                 \/ \E p \in Procs : j \in taken[p]

LEMMA AttendedStep ==
  ASSUME EverybodyAsks, FaultKinds \subseteq {"fork"},
         IInv, Matched, FullGrant, \A p \in Procs : TakenOnce(p), [Next]_vars,
         NEW j \in Jobs, Attended(j)
  PROVE  Attended(j)'
<1>0. /\ TypeOK /\ JobOK(j) /\ Wtr(j) \in Procs
      /\ pc \in [Procs -> PCs] /\ taken \in [Procs -> SUBSET Jobs]
  BY ProcFacts DEF IInv, TypeOK
<1> SUFFICES ASSUME Occupied(j)'
             PROVE  \/ pc'[Wtr(j)] \in {"allocated", "spawned", "running", "reaped"}
                    \/ \E p \in Procs : j \in taken'[p]
  BY DEF Attended
<1>D. \A p : ~ Crash(p) /\ ~ Reboot
  BY DEF Crash, Reboot, Fault
<1>1. CASE ~ Occupied(j)
  <2>1. \/ AllocRun(j)
        \/ \E p \in Procs : \E i, job : TakesFrom(p, i, job) /\ job.jid = j
    BY <1>0, <1>1, WhoBooks DEF Occupied
  <2>2. ASSUME AllocRun(j)
        PROVE  pc'[Wtr(j)] = "allocated"
    BY <1>0, <2>2 DEF AllocRun, Goto
  <2>3. ASSUME NEW p \in Procs, NEW i, NEW job, TakesFrom(p, i, job), job.jid = j
        PROVE  j \in taken'[p]
    BY <1>0, <2>3 DEF TakesFrom
  <2> QED
    BY <2>1, <2>2, <2>3
<1>2. CASE Occupied(j) /\ pc[Wtr(j)] \in {"allocated", "spawned", "running", "reaped"}
  <2> SUFFICES ASSUME pc'[Wtr(j)] # pc[Wtr(j)]
               PROVE  pc'[Wtr(j)] \in {"allocated", "spawned", "running", "reaped"}
    BY <1>2
  <2>1. ~ DispatchStep(Wtr(j))
    BY <1>2 DEF DispatchStep, DispatchTake, DispatchStops, DispatchFork, DispatchRequeue
  <2>2. ~ RunFork(j)
    BY <1>0, <1>2 DEF RunFork, JobOK, WaitingJob, Unstarted
  <2>3. WaiterStep(j) \/ pc'[Wtr(j)] = "allocated"
    <3>1. \A k \in Jobs : /\ Wtr(j) = Wtr(k) => j = k
                          /\ Wtr(j) # Sub(k)
          /\ \A a \in Clients : Wtr(j) # Adm(a)
      BY ProcFacts
    <3> QED
      BY <1>0, <1>D, <2>1, <2>2, <3>1, PcMoves
  <2>4. ~ Free(j)
    <3>1. Free(j) => j \notin DOMAIN disk'.pids
      BY <1>0, FreeFile
    <3> QED
      BY <3>1 DEF Occupied
  <2>5. ~ LaunchPanics(j)
    <3> SUFFICES ASSUME LaunchPanics(j)
                 PROVE  FALSE
      OBVIOUS
    <3>1. pin[j] = {}
      BY DEF LaunchPanics, PinFails, Fault
    <3>2. Books(j, {"none"})
      BY <1>0 DEF LaunchPanics, JobOK, StartedJob
    <3> QED
      BY <1>0, <3>1, <3>2, GrantsAreNotEmpty DEF Books, Occupied
  <2> QED
    BY <1>0, <1>2, <2>3, <2>4, <2>5
       DEF WaiterStep, UpdatePid, AllocRun, AllocWaits, Sleep, GiveUp, Launch, LaunchUnpinned,
           RecordPid, Reap, Goto
<1>3. ASSUME NEW p \in Procs, j \in taken[p]
      PROVE  \/ pc'[Wtr(j)] = "allocated"
             \/ \E q \in Procs : j \in taken'[q]
  <2>0. TakenOnce(p)
    OBVIOUS
  <2> SUFFICES ASSUME j \notin taken'[p]
               PROVE  pc'[Wtr(j)] = "allocated"
    OBVIOUS
  <2>1. DispatchFork(p) \/ DispatchRequeue(p)
    <3>1. ~ DispatchTake(p)
      BY <1>3, <2>0 DEF TakenOnce, DispatchTake
    <3>2. ASSUME NEW q \in Procs, DispatchTake(q), q # p
          PROVE  FALSE
      BY <1>0, <1>3, <3>2, DispatchTakeFile DEF TakesFrom
    <3>3. ASSUME NEW q \in Procs, DispatchFork(q) \/ DispatchRequeue(q)
          PROVE  q = p
      BY <1>0, <1>3, <3>3 DEF DispatchFork, DispatchRequeue
    <3> QED
      BY <1>D, <1>3, <3>1, <3>2, <3>3
         DEF Next, SubmitStep, ParentStep, WaiterStep, DispatchStep, Register, Enqueue, Submit,
             RunFork, RunForkFails, ParentExits, UpdatePid, AllocRun, AllocWaits, Sleep, GiveUp,
             Launch, LaunchUnpinned, LaunchPanics, RecordPid, Reap, Free, CmdExits,
             DispatchStops, ReserveCore, vars
  <2>2. CASE DispatchFork(p)
    <3>1. PICK k \in taken[p] : pc' = [pc EXCEPT ![p] = "dispatch", ![Wtr(k)] = "allocated"]
      BY <2>2 DEF DispatchFork
    <3>2. k = j
      BY <1>3, <2>0 DEF TakenOnce
    <3> QED
      BY <1>0, <3>1, <3>2
  <2>3. CASE DispatchRequeue(p)
    <3>1. PICK k : PutsBack(p, k)
      BY <1>0, <2>3, DispatchRequeueFile
    <3>2. k = j
      BY <1>3, <2>0, <3>1 DEF PutsBack, TakenOnce
    <3> QED
      BY <3>1, <3>2 DEF PutsBack, Occupied
  <2> QED
    BY <2>1, <2>2, <2>3
<1> QED
  BY <1>1, <1>2, <1>3 DEF Attended

LEMMA TakenInit ==
  Init => (\A p \in Procs : TakenOnce(p)) /\ \A j \in Jobs : Attended(j)
BY DEF Init, EmptyState, TakenOnce, Attended, Occupied

(* No dispatcher ever has two jobs in its hands, or one and no fork to do. *)
THEOREM TakenOnceAlways == Spec => [](\A p \in Procs : TakenOnce(p))
<1> DEFINE AllOnce == \A p \in Procs : TakenOnce(p)
<1>1. Init => AllOnce
  BY TakenInit
<1>2. IInv /\ AllOnce /\ [Next]_vars => AllOnce'
  BY TakenOnceStep
<1> QED
  BY <1>1, <1>2, Invariant, PTL DEF Spec

(* While no process is killed and every command can be pinned and spawned, *)
(* the process that will give back what is booked for a job lives.         *)
THEOREM AttendedAlways ==
  ASSUME EverybodyAsks, FaultKinds \subseteq {"fork"}
  PROVE  Spec => [](\A j \in Jobs : Attended(j))
<1> DEFINE AllOnce == \A p \in Procs : TakenOnce(p)
           AllAttended == \A j \in Jobs : Attended(j)
<1>1. Init => AllAttended
  BY TakenInit
<1>2. IInv /\ Matched /\ FullGrant /\ AllOnce /\ AllAttended /\ [Next]_vars => AllAttended'
  BY AttendedStep
<1> QED
  BY <1>1, <1>2, MatchedAlways, FullGrantAlways, TakenOnceAlways, PTL DEF Spec

(* Unless processes are killed, or commands cannot be pinned or spawned,   *)
(* somebody is left who gives back what is booked for a job.  Failing      *)
(* forks are survived.                                                     *)
THEOREM NoLeakAlways ==
  ASSUME EverybodyAsks, FaultKinds \subseteq {"fork"}
  PROVE  Spec => []NoLeak
<1> DEFINE AllAttended == \A j \in Jobs : Attended(j)
<1>1. TypeOK /\ AllAttended => NoLeak
  <2> SUFFICES ASSUME TypeOK, AllAttended, NEW j \in DOMAIN disk.pids
               PROVE  Live(Wtr(j)) \/ \E p \in Procs : j \in taken[p]
    BY DEF NoLeak
  <2>1. j \in Jobs
    BY DEF TypeOK, StateTypeOK
  <2> QED
    BY <2>1 DEF Attended, Occupied, Live
<1> QED
  BY <1>1, AttendedAlways, TypeCorrect, PTL

-----------------------------------------------------------------------------
(* The queue is served.                                                    *)

NoFaults == FaultKinds = {}

(* Whoever is registered as pending waits.                                 *)
Waiting(j) ==
  j \in DOMAIN disk.pending => \/ pc[Sub(j)] = "registered"
                               \/ pc[Wtr(j)] \in {"started", "waiting", "retry"}

(* A job is pending from Register on, and no longer than its waiter waits. *)
LEMMA PendingFrom ==
  ASSUME TypeOK, [Next]_vars, NEW j \in DOMAIN disk'.pending
  PROVE  /\ j \in DOMAIN disk.pending \/ (j \in Jobs /\ Register(j))
         /\ ~ AllocRun(j) /\ ~ GiveUp(j)
<1> DEFINE Fewer == DOMAIN disk'.pending \subseteq DOMAIN disk.pending
<1>0. /\ DOMAIN CleanedUp.pending \subseteq DOMAIN disk.pending
      /\ DOMAIN disk'.pending \subseteq Jobs
  <2>1. TypeOK'
    BY TypeStep
  <2> QED
    BY <2>1, CleanedUpFacts DEF TypeOK, StateTypeOK
<1>1. ~ AllocRun(j) /\ ~ GiveUp(j)
  BY <1>0, AllocRunFile, GiveUpFile
<1>2. ASSUME NEW k \in Jobs, Register(k)
      PROVE  j = k \/ j \in DOMAIN disk.pending
  BY <1>0, <1>2, RegisterFile
<1>3. ASSUME NEW k \in Jobs, Enqueue(k)
      PROVE  Fewer
  BY <1>0, <1>3, EnqueueFile
<1>4. ASSUME NEW k \in Jobs, WaiterStep(k)
      PROVE  Fewer
  <2>1. ASSUME AllocRun(k) \/ AllocWaits(k)
        PROVE  Fewer
    BY <1>0, <2>1, AllocRunFile DEF AllocWaits
  <2>2. ASSUME UpdatePid(k) \/ GiveUp(k) \/ RecordPid(k) \/ Free(k)
        PROVE  Fewer
    BY <2>2, UpdatePidFile, GiveUpFile, RecordDisk, FreeFile
  <2>3. ASSUME Sleep(k) \/ Launch(k) \/ LaunchUnpinned(k) \/ LaunchPanics(k) \/ Reap(k)
        PROVE  Fewer
    BY <2>3, IdleSteps DEF Idle
  <2> QED
    BY <1>4, <2>1, <2>2, <2>3 DEF WaiterStep
<1>5. ASSUME NEW p \in Procs, DispatchTake(p)
      PROVE  Fewer
  BY <1>0, <1>5, DispatchTakeFile DEF TakesFrom
<1>6. ASSUME NEW p \in Procs, DispatchRequeue(p)
      PROVE  Fewer
  BY <1>6, DispatchRequeueFile DEF PutsBack
<1>7. ASSUME Idle
      PROVE  Fewer
  BY <1>7 DEF Idle
<1>8. j \in DOMAIN disk.pending \/ (j \in Jobs /\ Register(j))
  BY <1>2, <1>3, <1>4, <1>5, <1>6, <1>7, IdleSteps DEF Next, SubmitStep, DispatchStep
<1> QED
  BY <1>1, <1>8

LEMMA WaitingStep ==
  ASSUME NoFaults, IInv, [Next]_vars, NEW j \in Jobs, Waiting(j)
  PROVE  Waiting(j)'
<1>0. /\ TypeOK /\ JobOK(j) /\ Wtr(j) \in Procs /\ Sub(j) \in Procs /\ Sub(j) # Wtr(j)
      /\ pc \in [Procs -> PCs] /\ taken \in [Procs -> SUBSET Jobs]
  BY ProcFacts DEF IInv, TypeOK
<1>N. \A k \in Jobs : /\ Wtr(j) = Wtr(k) => j = k
                      /\ Sub(j) = Sub(k) => j = k
                      /\ Wtr(j) # Sub(k) /\ Sub(j) # Wtr(k)
      /\ \A a \in Clients : Wtr(j) # Adm(a) /\ Sub(j) # Adm(a)
  BY ProcFacts
<1>D. (\A p : ~ Crash(p)) /\ ~ Reboot /\ ~ RunForkFails(j)
  BY DEF NoFaults, Crash, Reboot, RunForkFails, Fault
<1> SUFFICES ASSUME j \in DOMAIN disk'.pending
             PROVE  \/ pc'[Sub(j)] = "registered"
                    \/ pc'[Wtr(j)] \in {"started", "waiting", "retry"}
  BY DEF Waiting
<1>1. /\ j \in DOMAIN disk.pending \/ Register(j)
      /\ ~ AllocRun(j) /\ ~ GiveUp(j)
  BY <1>0, PendingFrom
<1>2. CASE Register(j)
  BY <1>0, <1>2 DEF Register, Submit, Goto
<1>3. CASE j \in DOMAIN disk.pending /\ pc[Sub(j)] = "registered"
  <2> SUFFICES ASSUME pc'[Sub(j)] # pc[Sub(j)]
               PROVE  pc'[Wtr(j)] = "started"
    BY <1>3
  <2>1. ~ SubmitStep(j) /\ ~ DispatchStep(Sub(j)) /\ ~ ParentExits(j)
    BY <1>3 DEF SubmitStep, Register, Enqueue, Submit, DispatchStep, DispatchTake, DispatchStops,
                DispatchFork, DispatchRequeue, ParentExits
  <2>2. RunFork(j)
    BY <1>0, <1>N, <1>D, <2>1, PcMoves DEF ParentStep
  <2> QED
    BY <1>0, <2>2 DEF RunFork
<1>4. CASE j \in DOMAIN disk.pending /\ pc[Wtr(j)] \in {"started", "waiting", "retry"}
  <2> SUFFICES ASSUME pc'[Wtr(j)] # pc[Wtr(j)]
               PROVE  pc'[Wtr(j)] \in {"started", "waiting", "retry"}
    BY <1>4
  <2>1. ~ DispatchStep(Wtr(j))
    BY <1>4 DEF DispatchStep, DispatchTake, DispatchStops, DispatchFork, DispatchRequeue
  <2>2. \A q \in Procs : j \notin taken[q]
    BY <1>0, <1>4 DEF JobOK, TakenJob, Unstarted
  <2>3. WaiterStep(j) \/ RunFork(j)
    BY <1>0, <1>N, <1>D, <2>1, <2>2, PcMoves
  <2> QED
    BY <1>0, <1>1, <1>4, <2>3
       DEF WaiterStep, UpdatePid, AllocWaits, Sleep, Launch, LaunchUnpinned,
           LaunchPanics, RecordPid, Reap, Free, Goto, RunFork
<1> QED
  BY <1>1, <1>2, <1>3, <1>4 DEF Waiting

(* Without a fault, every pending job has a process that waits for it.     *)
THEOREM WaitingAlways ==
  ASSUME NoFaults
  PROVE  Spec => [](\A j \in Jobs : Waiting(j))
<1> DEFINE AllWaiting == \A j \in Jobs : Waiting(j)
<1>1. Init => AllWaiting
  BY DEF Init, EmptyState, Waiting
<1>2. IInv /\ AllWaiting /\ [Next]_vars => AllWaiting'
  BY WaitingStep
<1> QED
  BY <1>1, <1>2, Invariant, PTL DEF Spec

Patient == \A r \in Requests : ~ r.timeout

(* A state file without jobs that run or wait has nothing to clean up.     *)
LEMMA NothingToClean ==
  ASSUME NEW s, NEW a, NEW b, DOMAIN s.pids = {}, DOMAIN s.pending = {}
  PROVE  OrphanCleanup(s, a) = OrphanCleanup(s, b)
<1>1. /\ DeadIn(s.pids, a) = {} /\ DeadIn(s.pids, b) = {}
      /\ DeadIn(s.pending, a) = {} /\ DeadIn(s.pending, b) = {}
  BY DEF DeadIn
<1> DEFINE x == OrphanCleanup(s, a)
           y == OrphanCleanup(s, b)
<1>2. FreeJobs(s, DeadIn(s.pids, a)) = FreeJobs(s, DeadIn(s.pids, b))
  BY <1>1
<1>3. Without(s.pending, DeadIn(s.pending, a)) = Without(s.pending, DeadIn(s.pending, b))
  BY <1>1
<1> QED
  BY <1>1 DEF OrphanCleanup

LEMMA ServedStep ==
  ASSUME EverybodyAsks, Patient, NoFaults,
         IInv, Matched, FullGrant, \A p \in Procs : TakenOnce(p),
         \A j \in Jobs : Attended(j), \A j \in Jobs : Waiting(j), QueueServed, [Next]_vars
  PROVE  QueueServed'
<1>0. /\ TypeOK /\ TypeOK' /\ \A j \in Jobs : JobOK(j)
      /\ pc \in [Procs -> PCs] /\ pc' \in [Procs -> PCs] /\ taken \in [Procs -> SUBSET Jobs]
      /\ \A j \in Jobs : Sub(j) \in Procs /\ Wtr(j) \in Procs /\ Sub(j) # Wtr(j)
  BY TypeStep, ProcFacts DEF IInv, TypeOK
<1> SUFFICES ASSUME \A p \in Procs : ~ OnDuty(p)'
             PROVE  Dispatchable(CleanedUp)' = {}
  BY DEF QueueServed
<1>N. \A p \in Procs : pc'[p] \in {"idle", "exited", "forked"}
  BY <1>0 DEF OnDuty, Live
(* Nobody is left, and so is no job.                                       *)
<1>1. DOMAIN disk'.pids = {} /\ DOMAIN disk'.pending = {}
  <2>1. \A j \in Jobs : Attended(j)' /\ Waiting(j)'
    BY AttendedStep, WaitingStep DEF NoFaults
  <2>2. \A p \in Procs : TakenOnce(p)'
    BY TakenOnceStep
  <2>3. \A j \in Jobs : j \notin DOMAIN disk'.pids
    BY <1>0, <1>N, <2>1, <2>2 DEF Attended, TakenOnce, Occupied
  <2>4. \A j \in Jobs : j \notin DOMAIN disk'.pending
    BY <1>0, <1>N, <2>1 DEF Waiting
  <2> QED
    BY <1>0, <2>3, <2>4 DEF TypeOK, StateTypeOK
(* The last one has found nothing to dispatch.                             *)
<1>2. disk' = disk /\ Dispatchable(CleanedUp) = {}
  <2>1. ASSUME disk' = disk, \A p \in Procs : pc'[p] = pc[p] \/ pc[p] = "forked"
        PROVE  disk' = disk /\ Dispatchable(CleanedUp) = {}
    <3>1. \A p \in Procs : ~ OnDuty(p)
      BY <1>N, <2>1 DEF OnDuty, Live
    <3> QED
      BY <2>1, <3>1 DEF QueueServed
  <2>2. ASSUME NEW j \in Jobs, SubmitStep(j) \/ RunFork(j)
        PROVE  FALSE
    BY <1>0, <1>N, <2>2 DEF SubmitStep, Register, Enqueue, Submit, RunFork, Goto
  <2>3. ASSUME NEW j \in Jobs, WaiterStep(j)
        PROVE  FALSE
    <3>1. ~ GiveUp(j)
      BY <1>0 DEF Patient, GiveUp, TypeOK
    <3>2. ~ LaunchPanics(j)
      <4> SUFFICES ASSUME LaunchPanics(j)
                   PROVE  FALSE
        OBVIOUS
      <4>1. pin[j] = {}
        BY DEF LaunchPanics, PinFails, Fault, NoFaults
      <4>2. Books(j, {"none"})
        BY <1>0 DEF LaunchPanics, JobOK, StartedJob
      <4> QED
        BY <1>0, <4>1, <4>2, GrantsAreNotEmpty DEF Books, Occupied
    <3> QED
      BY <1>0, <1>N, <2>3, <3>1, <3>2
         DEF WaiterStep, UpdatePid, AllocRun, AllocWaits, Sleep, Launch, LaunchUnpinned,
             RecordPid, Reap, Free, Goto
  <2>4. ASSUME NEW p \in Procs, DispatchStep(p), ~ DispatchStops(p)
        PROVE  FALSE
    <3>1. ~ DispatchRequeue(p)
      BY DEF DispatchRequeue, Fault, NoFaults
    <3>2. ~ DispatchTake(p)
      BY <1>0, <1>N DEF DispatchTake, Goto
    <3>3. DispatchFork(p)
      BY <2>4, <3>1, <3>2 DEF DispatchStep
    <3>4. PICK j \in taken[p] : pc' = [pc EXCEPT ![p] = "dispatch", ![Wtr(j)] = "allocated"]
      BY <3>3 DEF DispatchFork
    <3>5. pc'[Wtr(j)] = "allocated" /\ Wtr(j) \in Procs
      BY <1>0, <3>4
    <3> QED
      BY <1>N, <3>5
  <2>5. ASSUME NEW p \in Procs, DispatchStops(p)
        PROVE  disk' = disk /\ Dispatchable(CleanedUp) = {}
    BY <2>5 DEF DispatchStops
  <2>6. ASSUME NEW j \in Jobs, ParentExits(j) \/ CmdExits(j)
        PROVE  disk' = disk /\ \A p \in Procs : pc'[p] = pc[p] \/ pc[p] = "forked"
    BY <1>0, <2>6 DEF ParentExits, CmdExits, Goto
  <2>7. ASSUME NEW a \in Clients, NEW cores, ReserveCore(a, cores)
        PROVE  FALSE
    BY <1>0, <1>N, <2>7, ProcFacts DEF ReserveCore, Goto
  <2>8. (\A p : ~ Crash(p)) /\ ~ Reboot /\ \A j \in Jobs : ~ RunForkFails(j)
    BY DEF NoFaults, Crash, Reboot, RunForkFails, Fault
  <2>9. UNCHANGED vars => disk' = disk /\ pc' = pc
    BY DEF vars
  <2> QED
    BY <2>1, <2>2, <2>3, <2>4, <2>5, <2>6, <2>7, <2>8, <2>9 DEF Next, ParentStep
<1>3. OrphanCleanup(disk, Alive') = OrphanCleanup(disk, Alive)
  BY <1>1, <1>2, NothingToClean
<1> QED
  BY <1>2, <1>3 DEF CleanedUp, Dispatchable

(* There is no daemon: a job in the queue is started by whoever comes by.  *)
(* While nothing fails and nobody gives up, somebody always will come: the *)
(* last process to leave has found nothing that could be started, and      *)
(* nothing changes after it.                                               *)
THEOREM QueueServedAlways ==
  ASSUME EverybodyAsks, Patient, NoFaults
  PROVE  Spec => []QueueServed
<1> DEFINE AllOnce == \A p \in Procs : TakenOnce(p)
           AllAttended == \A j \in Jobs : Attended(j)
           AllWaiting == \A j \in Jobs : Waiting(j)
<1>1. Init => QueueServed
  <2> SUFFICES ASSUME Init
               PROVE  Dispatchable(CleanedUp) = {}
    BY DEF QueueServed
  <2>1. TypeOK
    BY TypeInit
  <2>2. CleanedUp.queued = <<>>
    BY <2>1, CleanedUpFacts DEF Init, EmptyState
  <2> QED
    BY <2>2 DEF Dispatchable, NextQueuedJobIndex
<1>2. IInv /\ Matched /\ FullGrant /\ AllOnce /\ AllAttended /\ AllWaiting /\ QueueServed
        /\ [Next]_vars => QueueServed'
  BY ServedStep
<1>3. Spec => []AllAttended
  BY AttendedAlways DEF NoFaults
<1>4. Spec => []AllWaiting
  BY WaitingAlways
<1> QED
  BY <1>1, <1>2, <1>3, <1>4, MatchedAlways, FullGrantAlways, TakenOnceAlways, PTL DEF Spec

-----------------------------------------------------------------------------
(* The queue keeps its order.                                              *)

Ordered(q) ==
  \A i, k \in DOMAIN q :
    i < k /\ q[i].priority = q[k].priority => q[i].jid < q[k].jid

(* A job that is older than all of its level may go to the front, and one  *)
(* that is younger to the back.                                            *)
LEMMA QueueOrder ==
  ASSUME NEW q \in Seq(EntryOf(Jobs)), Ordered(q)
  PROVE  /\ \A i \in DOMAIN q : Ordered(RemoveAt(q, i))
         /\ \A e \in EntryOf(Jobs) :
              (\A i \in DOMAIN q : q[i].jid < e.jid) => Ordered(Append(q, e))
         /\ \A e \in EntryOf(Jobs) :
              (\A i \in DOMAIN q : q[i].priority = e.priority => e.jid < q[i].jid)
                => Ordered(Cons(e, q))
<1>0. Len(q) \in Nat /\ DOMAIN q = 1 .. Len(q)
  BY LenProperties
<1>1. ASSUME NEW i \in DOMAIN q
      PROVE  Ordered(RemoveAt(q, i))
  <2> DEFINE r == RemoveAt(q, i)
  <2>1. /\ DOMAIN r = 1 .. (Len(q) - 1)
        /\ \A n \in 1 .. (Len(q) - 1) : r[n] = IF n < i THEN q[n] ELSE q[n + 1]
    BY RemoveAtFacts, Zenon
  <2> HIDE DEF r
  <2>2. ASSUME NEW m \in DOMAIN r, NEW n \in DOMAIN r, m < n, r[m].priority = r[n].priority
        PROVE  r[m].jid < r[n].jid
    <3> DEFINE a == IF m < i THEN m ELSE m + 1
               b == IF n < i THEN n ELSE n + 1
    <3>1. a \in DOMAIN q /\ b \in DOMAIN q /\ a < b
      BY <1>0, <2>1, <2>2
    <3>2. r[m] = q[a] /\ r[n] = q[b]
      BY <2>1
    <3> HIDE DEF a, b
    <3> QED
      BY <2>2, <3>1, <3>2 DEF Ordered
  <2> QED
    BY <2>2 DEF Ordered, r
<1>2. ASSUME NEW e \in EntryOf(Jobs), \A i \in DOMAIN q : q[i].jid < e.jid
      PROVE  Ordered(Append(q, e))
  <2> DEFINE r == Append(q, e)
  <2>1. /\ DOMAIN r = 1 .. (Len(q) + 1) /\ r[Len(q) + 1] = e
        /\ \A n \in 1 .. Len(q) : r[n] = q[n]
    BY AppendProperties, LenProperties
  <2> HIDE DEF r
  <2>2. ASSUME NEW m \in DOMAIN r, NEW n \in DOMAIN r, m < n, r[m].priority = r[n].priority
        PROVE  r[m].jid < r[n].jid
    <3>1. m \in DOMAIN q /\ r[m] = q[m]
      BY <1>0, <2>1, <2>2
    <3>2. CASE n = Len(q) + 1
      BY <1>2, <2>1, <3>1, <3>2
    <3>3. CASE n # Len(q) + 1
      <4>1. n \in DOMAIN q /\ r[n] = q[n]
        BY <1>0, <2>1, <3>3
      <4> QED
        BY <2>2, <3>1, <4>1 DEF Ordered
    <3> QED
      BY <3>2, <3>3
  <2> QED
    BY <2>2 DEF Ordered, r
<1>3. ASSUME NEW e \in EntryOf(Jobs),
             \A i \in DOMAIN q : q[i].priority = e.priority => e.jid < q[i].jid
      PROVE  Ordered(Cons(e, q))
  <2> DEFINE r == Cons(e, q)
  <2>1. /\ DOMAIN r = 1 .. (Len(q) + 1) /\ r[1] = e
        /\ \A n \in 1 .. Len(q) : r[n + 1] = q[n]
    BY ConsFacts
  <2> HIDE DEF r
  <2>2. ASSUME NEW m \in DOMAIN r, NEW n \in DOMAIN r, m < n, r[m].priority = r[n].priority
        PROVE  r[m].jid < r[n].jid
    <3>1. n - 1 \in DOMAIN q /\ r[n] = q[n - 1]
      BY <1>0, <2>1, <2>2
    <3>2. CASE m = 1
      BY <1>3, <2>1, <2>2, <3>1, <3>2
    <3>3. CASE m # 1
      <4>1. m - 1 \in DOMAIN q /\ r[m] = q[m - 1] /\ m - 1 < n - 1
        BY <1>0, <2>1, <2>2, <3>3
      <4> QED
        BY <2>2, <3>1, <4>1 DEF Ordered
    <3> QED
      BY <3>2, <3>3
  <2> QED
    BY <2>2 DEF Ordered, r
<1> QED
  BY <1>1, <1>2, <1>3

(* While a fork may still fail, the job in a dispatcher's hands is older   *)
(* than all those of its level in the queue.                               *)
TakenFirst ==
  faults < MaxFaults =>
    \A p \in Procs : \A j \in taken[p] : \A i \in DOMAIN disk.queued :
      disk.queued[i].priority = req[j].priority => j < disk.queued[i].jid

OneForkFails == "fork" \in FaultKinds => MaxFaults <= 1

LEMMA OrderStep ==
  ASSUME OneForkFails, IInv, Matched, QueueFIFO, TakenFirst, [Next]_vars
  PROVE  QueueFIFO' /\ TakenFirst'
<1> DEFINE q == disk.queued
           Post == Ordered(disk'.queued) /\ TakenFirst'
<1>0. /\ TypeOK /\ \A j \in Jobs : JobOK(j)
      /\ disk.queued \in Seq(EntryOf(Jobs)) /\ req' = req
      /\ taken \in [Procs -> SUBSET Jobs] /\ faults \in Nat /\ disk.next \in Nat
      /\ Ordered(disk.queued) /\ MaxFaults \in Nat
  BY CleanedUpFacts, RequestsStay, CoreschedAssumption
     DEF IInv, TypeOK, CoreschedState, QueueFIFO, Ordered
<1>E. \A i \in DOMAIN disk.queued : /\ disk.queued[i].jid \in Jobs
                                    /\ disk.queued[i].jid \in QueuedJobs
                                    /\ disk.queued[i].priority = req[disk.queued[i].jid].priority
  <2>1. \A i \in DOMAIN disk.queued : disk.queued[i] \in EntryOf(Jobs)
    BY <1>0, ElementOfSeq, LenProperties
  <2> QED
    BY <2>1 DEF EntryOf, QueuedJobs, Matched, Matches
<1>J. Jobs \subseteq Nat
  BY DEF Jobs
<1> HIDE DEF Post
(* The steps that leave the queue alone.                                   *)
<1>1. ASSUME disk'.queued = disk.queued, \A p \in Procs : taken'[p] \subseteq taken[p],
             faults' \in {faults, faults + 1}
      PROVE  Post
  <2>1. faults' < MaxFaults => faults < MaxFaults
    BY <1>0, <1>1
  <2> QED
    BY <1>0, <1>1, <2>1 DEF Post, TakenFirst
<1>2. ASSUME NEW j \in Jobs, Enqueue(j)
      PROVE  Post
  <2> DEFINE e == JobEntry(j, req[j], "none", NoGrant)
  <2>1. /\ e \in EntryOf(Jobs) /\ disk'.queued = Append(disk.queued, e) /\ disk.next = j
        /\ e.jid = j
    BY <1>0, <1>2, EnqueueFile DEF JobEntry
  <2>2. taken' = taken /\ faults' = faults
    BY <1>2 DEF Enqueue, Submit
  <2> HIDE DEF e
  <2>3. ASSUME NEW i \in DOMAIN disk.queued
        PROVE  disk.queued[i].jid < j
    <3>1. disk.queued[i].jid \in Jobs /\ disk.queued[i].jid \in QueuedJobs
      BY <1>E
    <3>2. ~ disk.next <= disk.queued[i].jid
      BY <1>0, <3>1 DEF JobOK, FreshJob
    <3>3. j \in Nat /\ disk.queued[i].jid \in Nat
      BY <1>J, <3>1
    <3>4. ~ j <= disk.queued[i].jid
      BY <2>1, <3>2
    <3> QED
      BY <3>3, <3>4
  <2>4. ASSUME NEW p \in Procs, NEW k \in taken[p]
        PROVE  k < j
    <3>1. k \in Jobs
      BY <1>0
    <3> QED
      BY <1>0, <1>J, <2>1, <3>1 DEF JobOK, FreshJob
  <2>5. Ordered(disk'.queued)
    BY <1>0, <2>1, <2>3, QueueOrder
  <2>6. \A i \in DOMAIN disk'.queued :
          disk'.queued[i] = e \/ \E m \in DOMAIN disk.queued : disk'.queued[i] = disk.queued[m]
    BY <1>0, <2>1, QueueElements
  <2>7. TakenFirst'
    BY <1>0, <2>1, <2>2, <2>4, <2>6 DEF TakenFirst
  <2> QED
    BY <2>5, <2>7 DEF Post
<1>3. ASSUME NEW p \in Procs, DispatchTake(p)
      PROVE  Post
  <2>1. PICK i, job : TakesFrom(p, i, job)
    BY <1>0, <1>3, DispatchTakeFile
  <2>2. /\ i \in DOMAIN disk.queued /\ job = disk.queued[i]
        /\ disk'.queued = RemoveAt(disk.queued, i)
        /\ taken' = [taken EXCEPT ![p] = {job.jid}]
    BY <2>1 DEF TakesFrom
  <2>3. faults' = faults
    BY <1>3 DEF DispatchTake
  <2>4. Ordered(disk'.queued)
    BY <1>0, <2>2, QueueOrder
  <2>5. ASSUME NEW n \in DOMAIN disk'.queued
        PROVE  \E m \in DOMAIN disk.queued \ {i} : disk'.queued[n] = disk.queued[m]
    <3>1. PICK m \in DOMAIN disk.queued : disk'.queued[n] = disk.queued[m]
      BY <1>0, <2>2, <2>5, QueueElements
    <3>2. disk'.queued[n].jid \in Jids(disk'.queued)
      BY <2>5 DEF Jids
    <3>3. Distinct(disk.queued)
      BY DEF IInv, QueuedOnce, Distinct
    <3>4. Jids(disk'.queued) = Jids(disk.queued) \ {disk.queued[i].jid}
      BY <1>0, <2>2, <3>3, RemoveJids
    <3> QED
      BY <3>1, <3>2, <3>4
  <2>6. ASSUME NEW m \in DOMAIN disk.queued \ {i}, disk.queued[m].priority = job.priority
        PROVE  job.jid < disk.queued[m].jid
    <3>1. ~ (m < i)
      <4>1. i \in NextQueuedJobIndex(CleanedUp) /\ CleanedUp.queued = disk.queued
        BY <1>0, <2>1, CleanedUpFacts DEF TakesFrom, Dispatchable
      <4> QED
        BY <2>2, <2>6, <4>1 DEF NextQueuedJobIndex
    <3>2. i < m
      <4>1. i \in Nat /\ m \in Nat
        BY <1>0, <2>2, LenProperties
      <4> QED
        BY <3>1, <4>1
    <3> QED
      BY <1>0, <2>2, <2>6, <3>2 DEF Ordered
  <2>7. job.priority = req[job.jid].priority
    BY <1>E, <2>2
  <2>8. TakenFirst'
    <3> SUFFICES ASSUME faults < MaxFaults, NEW r \in Procs, NEW j \in taken'[r],
                        NEW n \in DOMAIN disk'.queued,
                        disk'.queued[n].priority = req[j].priority
                 PROVE  j < disk'.queued[n].jid
      BY <1>0, <2>3 DEF TakenFirst
    <3>1. PICK m \in DOMAIN disk.queued \ {i} : disk'.queued[n] = disk.queued[m]
      BY <2>5
    <3>2. CASE r = p
      <4>1. j = job.jid
        BY <1>0, <2>2, <3>2
      <4> QED
        BY <2>6, <2>7, <3>1, <4>1
    <3>3. CASE r # p
      <4>1. j \in taken[r]
        BY <1>0, <2>2, <3>3
      <4> QED
        BY <3>1, <4>1 DEF TakenFirst
    <3> QED
      BY <3>2, <3>3
  <2> QED
    BY <2>4, <2>8 DEF Post
<1>4. ASSUME NEW p \in Procs, DispatchRequeue(p)
      PROVE  Post
  <2>1. PICK j : PutsBack(p, j)
    BY <1>0, <1>4, DispatchRequeueFile
  <2> DEFINE e == JobEntry(j, req[j], "none", NoGrant)
  <2>2. /\ j \in taken[p] /\ e \in EntryOf(Jobs) /\ disk'.queued = Cons(e, disk.queued)
        /\ e.jid = j /\ e.priority = req[j].priority
    BY <2>1 DEF PutsBack, JobEntry
  <2>3. "fork" \in FaultKinds /\ faults < MaxFaults /\ faults' = faults + 1
    BY <1>4 DEF DispatchRequeue, Fault
  <2> HIDE DEF e
  <2>4. \A i \in DOMAIN disk.queued :
          disk.queued[i].priority = e.priority => e.jid < disk.queued[i].jid
    BY <2>2, <2>3 DEF TakenFirst
  <2>5. Ordered(disk'.queued)
    BY <1>0, <2>2, <2>4, QueueOrder
  <2>6. ~ (faults' < MaxFaults)
    BY <1>0, <2>3 DEF OneForkFails
  <2> QED
    BY <2>5, <2>6 DEF Post, TakenFirst
<1>5. ASSUME NEW j \in Jobs, Register(j)
      PROVE  Post
  <2>1. disk'.queued = disk.queued
    BY <1>0, <1>5, RegisterFile
  <2>2. taken' = taken /\ faults' = faults
    BY <1>5 DEF Register, Submit
  <2> QED
    BY <1>1, <2>1, <2>2
<1>6. ASSUME NEW j \in Jobs, WaiterStep(j)
      PROVE  Post
  <2>1. disk'.queued = disk.queued
    <3>1. CASE AllocRun(j) \/ AllocWaits(j)
      BY <1>0, <3>1, AllocRunFile, CleanedUpFacts DEF AllocWaits
    <3>2. CASE UpdatePid(j) \/ GiveUp(j) \/ RecordPid(j) \/ Free(j)
      BY <1>0, <3>2, UpdatePidFile, GiveUpFile, RecordDisk, FreeFile
    <3>3. CASE Sleep(j) \/ Launch(j) \/ LaunchUnpinned(j) \/ LaunchPanics(j) \/ Reap(j)
      BY <1>0, <3>3, IdleSteps DEF Idle
    <3> QED
      BY <1>6, <3>1, <3>2, <3>3 DEF WaiterStep
  <2>2. taken' = taken /\ faults' \in {faults, faults + 1}
    BY <1>6
       DEF WaiterStep, UpdatePid, AllocRun, AllocWaits, Sleep, GiveUp, Launch, LaunchUnpinned,
           LaunchPanics, PinFails, RecordPid, Reap, Free, Fault
  <2> QED
    BY <1>1, <2>1, <2>2
<1>7. ASSUME NEW j \in Jobs, ParentStep(j) \/ CmdExits(j)
      PROVE  Post
  <2>1. disk' = disk /\ taken' = taken /\ faults' \in {faults, faults + 1}
    BY <1>7 DEF ParentStep, RunFork, RunForkFails, ParentExits, CmdExits, Fault
  <2> QED
    BY <1>1, <2>1
<1>8. ASSUME NEW p \in Procs, DispatchStops(p) \/ DispatchFork(p)
      PROVE  Post
  <2>1. disk' = disk /\ faults' = faults /\ \A r \in Procs : taken'[r] \subseteq taken[r]
    BY <1>0, <1>8 DEF DispatchStops, DispatchFork
  <2> QED
    BY <1>1, <2>1
<1>9. ASSUME NEW a \in Clients, NEW cores \in ReserveChoices, ReserveCore(a, cores)
      PROVE  Post
  <2>1. disk'.queued = disk.queued
    BY <1>0, <1>9, IdleSteps DEF Idle
  <2>2. taken' = taken /\ faults' = faults
    BY <1>9 DEF ReserveCore
  <2> QED
    BY <1>1, <2>1, <2>2
<1>10. ASSUME NEW D, Die(D), disk' = disk, faults' = faults + 1
       PROVE  Post
  <2>1. \A r \in Procs : taken'[r] \subseteq taken[r]
    BY <1>0, <1>10 DEF Die
  <2> QED
    BY <1>1, <1>10, <2>1
<1>11. ASSUME UNCHANGED vars
       PROVE  Post
  <2>1. disk' = disk /\ taken' = taken /\ faults' = faults
    BY <1>11 DEF vars
  <2> QED
    BY <1>1, <2>1
<1>12. ASSUME Reboot \/ \E p \in Procs : Crash(p)
       PROVE  Post
  BY <1>10, <1>12 DEF Crash, Reboot, Fault
<1>13. Post
  BY <1>2, <1>3, <1>4, <1>5, <1>6, <1>7, <1>8, <1>9, <1>11, <1>12
     DEF Next, SubmitStep, DispatchStep
<1>14. QueueFIFO' = Ordered(disk'.queued)
  BY DEF QueueFIFO, Ordered
<1> QED
  BY <1>13, <1>14 DEF Post

(* Jobs of one level leave the queue in the order they were submitted in,  *)
(* also when a fork fails and its job goes back to the front.  Two failing *)
(* forks of two dispatchers may put their jobs back in the wrong order.    *)
THEOREM QueueFIFOAlways ==
  ASSUME OneForkFails
  PROVE  Spec => []QueueFIFO
<1>1. Init => QueueFIFO /\ TakenFirst
  BY DEF Init, EmptyState, QueueFIFO, TakenFirst
<1>2. IInv /\ Matched /\ QueueFIFO /\ TakenFirst /\ [Next]_vars => (QueueFIFO /\ TakenFirst)'
  BY OrderStep
<1> QED
  BY <1>1, <1>2, MatchedAlways, PTL DEF Spec
=============================================================================
