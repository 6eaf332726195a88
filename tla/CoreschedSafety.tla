-------------------------- MODULE CoreschedSafety ---------------------------
(***************************************************************************)
(* The inductive invariant of Coresched and what follows from it: the maps *)
(* agree with the entries, a job is in one place and in one hand, and      *)
(* commands that run at the same time have different CPUs.                 *)
(*                                                                         *)
(* The proof goes job by job.  A step works on one job at most, and does   *)
(* to every other job k no more than Untouched(k) allows, which keeps      *)
(* JobOK(k) (lemma Frame).                                                 *)
(***************************************************************************)
EXTENDS CoreschedProofs

Jids(q)     == {q[i].jid : i \in DOMAIN q}
Distinct(q) == \A i, k \in DOMAIN q : i # k => q[i].jid # q[k].jid

(* The jobs X may have lost their entry, because `cancel` has removed it:  *)
(* JobOKBut(j, X) asks of these that they are booked or have none.  Under  *)
(* Spec nobody is exempt, and it is JobOK(j).                              *)
Exempted(j, X) == j \in X /\ ~ Occupied(j)

TakenJobBut(j, X) == \A p \in Procs : j \in taken[p] =>
  /\ req[j].mode = "enqueue" /\ Unstarted(j) /\ j \notin QueuedJobs
  /\ Books(j, {"none"}) \/ Exempted(j, X)
  /\ \A q \in Procs \ {p} : j \notin taken[q]

StartedJobBut(j, X) ==
  /\ pc[Wtr(j)] = "allocated" => (Books(j, {"none"}) \/ Exempted(j, X)) /\ cmd[j] = "none"
  /\ cmd[j] \in {"running", "zombie"} => Books(j, {"none", "cmd"}) \/ Exempted(j, X)
  /\ pc[Wtr(j)] = "reaped" => cmd[j] = "gone"

JobOKBut(j, X) ==
  FreshJob(j) /\ WaitingJob(j) /\ TakenJobBut(j, X) /\ StartedJobBut(j, X)

IInvBut(X) == TypeOK /\ Booked /\ QueuedOnce /\ \A j \in Jobs : JobOKBut(j, X)

LEMMA NobodyExempt == IInv <=> IInvBut({})
BY DEF IInv, IInvBut, JobOK, JobOKBut, TakenJob, TakenJobBut, StartedJob, StartedJobBut,
       Exempted

(* To exempt more jobs asks for less.                                      *)
LEMMA ExemptMore ==
  ASSUME NEW X, NEW Y, NEW j \in Jobs, JobOKBut(j, X), j \in X => j \in Y
  PROVE  JobOKBut(j, Y)
BY DEF JobOKBut, TakenJobBut, StartedJobBut, Exempted

(* The job needs its entry: somebody starts or runs its command.           *)
Needed(j) ==
  \/ Books(j, {"none"})
  \/ cmd[j] \in {"running", "zombie"} /\ Books(j, {"none", "cmd"})

(* What a step may do to the process p, and to the command of a job, that  *)
(* it does not work on.                                                    *)
Moves(p) ==
  \/ pc'[p] = pc[p]
  \/ pc[p] # "idle" /\ pc'[p] \in {"forked", "spawned", "running", "dispatch", "fork", "exited"}

CmdMoves(j) ==
  \/ cmd'[j] = cmd[j]
  \/ cmd[j] \in {"running", "zombie"} /\ cmd'[j] \in {"zombie", "gone"}

(* The part of Untouched that is about the state file.                     *)
Kept(k) ==
  /\ k \in DOMAIN disk'.pids => k \in DOMAIN disk.pids
  /\ Needed(k) => k \in DOMAIN disk'.pids /\ disk'.pids[k] = disk.pids[k]
  /\ k \in Jids(disk'.queued) => k \in Jids(disk.queued)
  /\ k \in DOMAIN disk'.pending => k \in DOMAIN disk.pending

Untouched(k) ==
  /\ Kept(k) /\ Moves(Sub(k)) /\ Moves(Wtr(k)) /\ CmdMoves(k)
  /\ pin'[k] = pin[k]
  /\ \A p \in Procs : k \in taken'[p] => k \in taken[p]

LEMMA Frame ==
  ASSUME NEW X, NEW k \in Jobs, JobOKBut(k, X), Untouched(k), req' = req,
         disk.next \in Nat, disk'.next \in Nat, disk.next <= disk'.next
  PROVE  JobOKBut(k, X)'
<1>0. disk'.next <= k => disk.next <= k
  BY CoreschedAssumption DEF Jobs
<1>1. QueuedJobs = Jids(disk.queued) /\ QueuedJobs' = Jids(disk'.queued)
  BY DEF QueuedJobs, Jids
<1>2. FreshJob(k)'
  BY <1>0, <1>1
     DEF JobOKBut, FreshJob, Untouched, Kept, Moves, CmdMoves, Unstarted, Occupied
<1>3. WaitingJob(k)'
  BY <1>1 DEF JobOKBut, WaitingJob, Untouched, Kept, Moves, CmdMoves, Unstarted, Occupied
<1>4. TakenJobBut(k, X)'
  BY <1>1 DEF JobOKBut, TakenJobBut, Untouched, Kept, Moves, CmdMoves, Unstarted, Occupied,
              Needed, Books, Exempted
<1>5. StartedJobBut(k, X)'
  BY <1>1 DEF JobOKBut, StartedJobBut, Untouched, Kept, Moves, CmdMoves, Occupied, Needed,
              Books, Exempted
<1> QED
  BY <1>2, <1>3, <1>4, <1>5 DEF JobOKBut

-----------------------------------------------------------------------------
(* What the queue's operations do to the ids in it.                        *)

LEMMA AppendJids ==
  ASSUME NEW S, NEW q \in Seq(S), NEW e \in S
  PROVE  /\ Jids(Append(q, e)) = Jids(q) \cup {e.jid}
         /\ Distinct(q) /\ e.jid \notin Jids(q) => Distinct(Append(q, e))
<1> DEFINE r == Append(q, e)
<1>1. /\ Len(q) \in Nat /\ DOMAIN q = 1 .. Len(q) /\ DOMAIN r = 1 .. Len(q) + 1
      /\ \A i \in 1 .. Len(q) : r[i] = q[i]
      /\ r[Len(q) + 1] = e
  BY AppendProperties, LenProperties
<1> HIDE DEF r
<1> QED
  BY <1>1 DEF Jids, Distinct, r

LEMMA RemoveJids ==
  ASSUME NEW S, NEW q \in Seq(S), NEW i \in DOMAIN q, Distinct(q)
  PROVE  /\ Jids(RemoveAt(q, i)) = Jids(q) \ {q[i].jid}
         /\ Distinct(RemoveAt(q, i))
<1> DEFINE r == RemoveAt(q, i)
<1>1. /\ Len(q) \in Nat /\ DOMAIN q = 1 .. Len(q) /\ DOMAIN r = 1 .. (Len(q) - 1)
      /\ \A k \in 1 .. (Len(q) - 1) : r[k] = IF k < i THEN q[k] ELSE q[k + 1]
  <2>1. Len(q) \in Nat /\ DOMAIN q = 1 .. Len(q)
    BY LenProperties
  <2>2. /\ DOMAIN r = 1 .. (Len(q) - 1)
        /\ \A k \in 1 .. (Len(q) - 1) : r[k] = IF k < i THEN q[k] ELSE q[k + 1]
    BY RemoveAtFacts, Zenon
  <2> QED
    BY <2>1, <2>2
<1> HIDE DEF r
<1>2. Jids(r) \subseteq Jids(q) \ {q[i].jid}
  <2>1. ASSUME NEW k \in DOMAIN r
        PROVE  r[k].jid \in Jids(q) /\ r[k].jid # q[i].jid
    <3> DEFINE m == IF k < i THEN k ELSE k + 1
    <3>1. m \in DOMAIN q /\ m # i /\ r[k] = q[m]
      BY <1>1
    <3> HIDE DEF m
    <3> QED
      BY <3>1 DEF Jids, Distinct
  <2> QED
    BY <2>1 DEF Jids
<1>3. ASSUME NEW k \in DOMAIN q, k # i
      PROVE  q[k].jid \in Jids(r)
  <2>1. CASE k < i
    BY <1>1, <2>1 DEF Jids
  <2>2. CASE k > i
    <3>1. k - 1 \in DOMAIN r /\ r[k - 1] = q[k]
      BY <1>1, <2>2
    <3> QED
      BY <3>1 DEF Jids
  <2> QED
    BY <1>1, <1>3, <2>1, <2>2
<1>4. ASSUME NEW k \in DOMAIN r, NEW l \in DOMAIN r, k # l
      PROVE  r[k].jid # r[l].jid
  <2> DEFINE m == IF k < i THEN k ELSE k + 1
             n == IF l < i THEN l ELSE l + 1
  <2>1. m \in DOMAIN q /\ n \in DOMAIN q /\ m # n
    BY <1>1, <1>4
  <2>2. r[k] = q[m] /\ r[l] = q[n]
    BY <1>1
  <2> QED
    BY <2>1, <2>2 DEF Distinct
<1>5. Jids(q) \ {q[i].jid} \subseteq Jids(r)
  BY <1>3 DEF Jids
<1>6. Distinct(r)
  BY <1>4 DEF Distinct
<1> QED
  BY <1>2, <1>5, <1>6 DEF r

LEMMA ConsJids ==
  ASSUME NEW S, NEW q \in Seq(S), NEW e \in S
  PROVE  /\ Jids(Cons(e, q)) = Jids(q) \cup {e.jid}
         /\ Distinct(q) /\ e.jid \notin Jids(q) => Distinct(Cons(e, q))
<1> DEFINE r == Cons(e, q)
<1>1. /\ Len(q) \in Nat /\ DOMAIN q = 1 .. Len(q) /\ DOMAIN r = 1 .. (Len(q) + 1)
      /\ r[1] = e
      /\ \A k \in 1 .. Len(q) : r[k + 1] = q[k]
  <2>1. Len(q) \in Nat /\ DOMAIN q = 1 .. Len(q)
    BY LenProperties
  <2>2. /\ DOMAIN r = 1 .. (Len(q) + 1) /\ r[1] = e
        /\ \A k \in 1 .. Len(q) : r[k + 1] = q[k]
    BY DEF Cons
  <2> QED
    BY <2>1, <2>2
<1> HIDE DEF r
<1>2. \A k \in DOMAIN r : k = 1 \/ (k - 1 \in DOMAIN q /\ r[k] = q[k - 1])
  BY <1>1
<1>3. Jids(r) \subseteq Jids(q) \cup {e.jid}
  BY <1>1, <1>2 DEF Jids
<1>4. \A k \in DOMAIN q : q[k].jid \in Jids(r)
  BY <1>1 DEF Jids
<1>5. e.jid \in Jids(r)
  BY <1>1 DEF Jids
<1>6. ASSUME Distinct(q), e.jid \notin Jids(q)
      PROVE  Distinct(r)
  <2>1. \A k \in DOMAIN q : q[k].jid # e.jid
    BY <1>6 DEF Jids
  <2> SUFFICES ASSUME NEW k \in DOMAIN r, NEW l \in DOMAIN r, k # l
               PROVE  r[k].jid # r[l].jid
    BY DEF Distinct
  <2>2. CASE k = 1 \/ l = 1
    BY <1>1, <1>2, <2>1, <2>2
  <2>3. CASE k # 1 /\ l # 1
    <3>1. /\ k - 1 \in DOMAIN q /\ r[k] = q[k - 1]
          /\ l - 1 \in DOMAIN q /\ r[l] = q[l - 1]
          /\ k - 1 # l - 1
      BY <1>1, <1>2, <2>3
    <3> QED
      BY <1>6, <3>1 DEF Distinct
  <2> QED
    BY <2>2, <2>3
<1>7. Jids(q) \cup {e.jid} \subseteq Jids(r)
  BY <1>4, <1>5 DEF Jids
<1> QED
  BY <1>3, <1>6, <1>7 DEF r

-----------------------------------------------------------------------------
(* What cleaning up does to the jobs: it keeps the entry of every job that *)
(* needs it, and adds nothing.                                             *)

LEMMA CleanupKeeps ==
  ASSUME TypeOK, NEW k \in Jobs
  PROVE  /\ k \in DOMAIN CleanedUp.pids => k \in DOMAIN disk.pids
         /\ Needed(k) => k \in DOMAIN CleanedUp.pids /\ CleanedUp.pids[k] = disk.pids[k]
         /\ Jids(CleanedUp.queued) = Jids(disk.queued)
         /\ k \in DOMAIN CleanedUp.pending => k \in DOMAIN disk.pending
<1>1. ASSUME Needed(k)
      PROVE  k \notin DeadIn(disk.pids, Alive)
  <2>1. CASE Books(k, {"none"})
    BY <2>1 DEF Books, DeadIn
  <2>2. CASE cmd[k] \in {"running", "zombie"} /\ Books(k, {"none", "cmd"})
    <3>1. <<"cmd", k>> \in Alive
      BY <2>2 DEF Alive, Cmd
    <3> QED
      BY <2>2, <3>1 DEF Books, DeadIn
  <2> QED
    BY <1>1, <2>1, <2>2 DEF Needed
<1>2. Needed(k) => k \in DOMAIN disk.pids
  BY DEF Needed, Books, Occupied
<1> QED
  BY <1>1, <1>2, CleanedUpFacts

(* Every clause about a state file and the next one, for the step that     *)
(* only cleans up.                                                         *)
LEMMA CleanedKept ==
  ASSUME TypeOK, NEW k \in Jobs,
         k \in DOMAIN disk'.pids => k \in DOMAIN CleanedUp.pids,
         k \in DOMAIN CleanedUp.pids =>
           k \in DOMAIN disk'.pids /\ disk'.pids[k] = CleanedUp.pids[k],
         k \in Jids(disk'.queued) => k \in Jids(disk.queued),
         k \in DOMAIN disk'.pending => k \in DOMAIN CleanedUp.pending
  PROVE  Kept(k)
BY CleanupKeeps DEF Kept

LEMMA SameKept ==
  ASSUME NEW k \in Jobs,
         k \in DOMAIN disk'.pids <=> k \in DOMAIN disk.pids,
         k \in DOMAIN disk.pids => disk'.pids[k] = disk.pids[k],
         k \in Jids(disk'.queued) => k \in Jids(disk.queued),
         k \in DOMAIN disk'.pending => k \in DOMAIN disk.pending
  PROVE  Kept(k)
BY DEF Kept, Needed, Books, Occupied

-----------------------------------------------------------------------------
(* JobOKBut is inductive.                                                  *)

LEMMA FrameAll ==
  ASSUME NEW X, TypeOK, TypeOK',
         \A k \in Jobs : JobOKBut(k, X),
         req' = req, disk.next <= disk'.next,
         \A k \in Jobs : Untouched(k)
  PROVE  \A k \in Jobs : JobOKBut(k, X)'
<1>1. disk.next \in Nat /\ disk'.next \in Nat
  BY DEF TypeOK, StateTypeOK
<1> QED
  BY <1>1, Frame

LEMMA FrameBut ==
  ASSUME NEW X, TypeOK, TypeOK',
         \A k \in Jobs : JobOKBut(k, X),
         req' = req, disk.next <= disk'.next,
         NEW j \in Jobs, \A k \in Jobs \ {j} : Untouched(k), JobOKBut(j, X)'
  PROVE  \A k \in Jobs : JobOKBut(k, X)'
<1>1. disk.next \in Nat /\ disk'.next \in Nat
  BY DEF TypeOK, StateTypeOK
<1>2. ASSUME NEW k \in Jobs \ {j}
      PROVE  JobOKBut(k, X)'
  BY <1>1, Frame
<1> QED
  BY <1>2

(* A process that goes on from a place other than idle moves harmlessly.   *)
LEMMA ProcMoves ==
  ASSUME TypeOK, NEW p \in Procs, pc[p] # "idle",
         NEW label, pc' = [pc EXCEPT ![p] = label],
         label \in {"forked", "spawned", "running", "dispatch", "fork", "exited"}
           \/ label = Final(p)
  PROVE  \A k \in Jobs : Moves(Sub(k)) /\ Moves(Wtr(k))
<1>1. ASSUME NEW k \in Jobs
      PROVE  /\ Final(Sub(k)) = "exited" /\ Final(Wtr(k)) = "exited"
             /\ Sub(k) \in Procs /\ Wtr(k) \in Procs
  BY ProcFacts DEF Final, Sub, Wtr
<1> QED
  BY <1>1 DEF Moves, TypeOK

LEMMA RegisterStep ==
  ASSUME NEW X, TypeOK, TypeOK',
         \A k \in Jobs : JobOKBut(k, X), NEW j \in Jobs, Register(j)
  PROVE  \A k \in Jobs : JobOKBut(k, X)'
<1> DEFINE e == JobEntry(j, req[j], "sub", NoGrant)
<1>0. j \in Nat /\ disk.next = j /\ req[j].mode = "run" /\ pc[Sub(j)] = "idle"
  BY CoreschedAssumption DEF Register, Submit, Jobs
<1>1. disk' = [CleanedUp EXCEPT !.next = j + 1, !.pending = Insert(CleanedUp.pending, j, e)]
  BY DEF Register
<1> HIDE DEF e
<1>2. /\ disk'.pids = CleanedUp.pids /\ disk'.queued = CleanedUp.queued
      /\ disk'.next = j + 1
      /\ DOMAIN disk'.pending = DOMAIN CleanedUp.pending \cup {j}
  BY <1>1, CleanedUpFacts DEF CoreschedState, Insert
<1>3. /\ req' = req /\ taken' = taken /\ cmd' = cmd /\ pin' = pin
      /\ pc' = [pc EXCEPT ![Sub(j)] = "registered"]
  BY DEF Register, Submit, Goto
<1>4. ASSUME NEW k \in Jobs \ {j}
      PROVE  Untouched(k)
  <2>1. Kept(k)
    BY <1>2, CleanedKept, CleanupKeeps
  <2>2. Moves(Sub(k)) /\ Moves(Wtr(k))
    BY <1>3, ProcFacts DEF Moves, TypeOK
  <2> QED
    BY <1>3, <2>1, <2>2 DEF Untouched, CmdMoves
<1>5. JobOKBut(j, X)'
  <2>1. FreshJob(j) /\ disk.next <= j
    BY <1>0 DEF JobOKBut
  <2>2. ~(disk'.next <= j)
    BY <1>0, <1>2
  <2>3. /\ pc'[Sub(j)] = "registered" /\ pc'[Wtr(j)] = "idle"
        /\ cmd'[j] = "none" /\ \A p \in Procs : j \notin taken'[p]
    BY <1>3, <2>1, ProcFacts DEF FreshJob, Unstarted, TypeOK
  <2>4. j \notin DOMAIN disk'.pids /\ j \notin QueuedJobs'
    <3>1. QueuedJobs = Jids(disk.queued) /\ QueuedJobs' = Jids(disk'.queued)
      BY DEF QueuedJobs, Jids
    <3> QED
      BY <1>2, <2>1, <3>1, CleanupKeeps DEF FreshJob, Occupied
  <2> QED
    BY <1>0, <1>3, <2>2, <2>3, <2>4
       DEF JobOKBut, FreshJob, WaitingJob, TakenJobBut, StartedJobBut, Unstarted, Occupied,
           QueuedJobs, Jids
<1>6. disk.next <= disk'.next
  BY <1>0, <1>2
<1> QED
  BY <1>3, <1>4, <1>5, <1>6, FrameBut

LEMMA EnqueueStep ==
  ASSUME NEW X, TypeOK, TypeOK',
         \A k \in Jobs : JobOKBut(k, X), QueuedOnce, NEW j \in Jobs, Enqueue(j)
  PROVE  QueuedOnce' /\ \A k \in Jobs : JobOKBut(k, X)'
<1> DEFINE e == JobEntry(j, req[j], "none", NoGrant)
<1>0. j \in Nat /\ disk.next = j /\ req[j].mode = "enqueue" /\ pc[Sub(j)] = "idle"
  BY CoreschedAssumption DEF Enqueue, Submit, Jobs
<1>1. disk' = [CleanedUp EXCEPT !.next = j + 1, !.queued = Append(CleanedUp.queued, e)]
  BY DEF Enqueue
<1>E. e \in EntryOf(Jobs) /\ e.jid = j
  BY RequestType, EntryTypes DEF PidKinds, JobEntry
<1> HIDE DEF e
<1>2. /\ disk'.pids = CleanedUp.pids /\ disk'.pending = CleanedUp.pending
      /\ disk'.next = j + 1
      /\ disk'.queued = Append(disk.queued, e)
  BY <1>1, CleanedUpFacts DEF CoreschedState
<1>Q. disk.queued \in Seq(EntryOf(Jobs))
  BY CleanedUpFacts DEF CoreschedState
<1>3. /\ req' = req /\ taken' = taken /\ cmd' = cmd /\ pin' = pin
      /\ pc' = [pc EXCEPT ![Sub(j)] = "dispatch"]
  BY DEF Enqueue, Submit, Goto
<1>J. Jids(disk'.queued) = Jids(disk.queued) \cup {j}
  BY <1>2, <1>E, <1>Q, AppendJids
<1>4. ASSUME NEW k \in Jobs \ {j}
      PROVE  Untouched(k)
  <2>1. Kept(k)
    BY <1>2, <1>J, CleanedKept
  <2>2. Moves(Sub(k)) /\ Moves(Wtr(k))
    BY <1>3, ProcFacts DEF Moves, TypeOK
  <2> QED
    BY <1>3, <2>1, <2>2 DEF Untouched, CmdMoves
<1>F. FreshJob(j) /\ disk.next <= j
  BY <1>0 DEF JobOKBut
<1>5. JobOKBut(j, X)'
  <2>2. ~(disk'.next <= j)
    BY <1>0, <1>2
  <2>3. /\ pc'[Sub(j)] = "dispatch" /\ pc'[Wtr(j)] = "idle"
        /\ cmd'[j] = "none" /\ \A p \in Procs : j \notin taken'[p]
    BY <1>3, <1>F, ProcFacts DEF FreshJob, Unstarted, TypeOK
  <2>4. j \notin DOMAIN disk'.pids /\ j \notin DOMAIN disk'.pending
    BY <1>2, <1>F, CleanupKeeps DEF FreshJob, Occupied
  <2> QED
    BY <1>0, <1>3, <2>2, <2>3, <2>4
       DEF JobOKBut, FreshJob, WaitingJob, TakenJobBut, StartedJobBut, Unstarted, Occupied,
           QueuedJobs, Jids
<1>6. QueuedOnce'
  <2>1. Distinct(disk.queued) /\ j \notin Jids(disk.queued)
    BY <1>F DEF QueuedOnce, Distinct, FreshJob, QueuedJobs, Jids
  <2>2. Distinct(disk'.queued)
    BY <1>2, <1>E, <1>Q, <2>1, AppendJids
  <2> QED
    BY <2>2 DEF QueuedOnce, Distinct
<1>7. disk.next <= disk'.next
  BY <1>0, <1>2
<1> QED
  BY <1>3, <1>4, <1>5, <1>6, <1>7, FrameBut

(* The steps of the parent of a direct run.                                *)
LEMMA ParentStepJobs ==
  ASSUME NEW X, TypeOK, TypeOK',
         \A k \in Jobs : JobOKBut(k, X), NEW j \in Jobs, ParentStep(j)
  PROVE  \A k \in Jobs : JobOKBut(k, X)'
<1>0. /\ disk' = disk /\ req' = req /\ taken' = taken /\ cmd' = cmd /\ pin' = pin
      /\ disk.next <= disk.next
  BY DEF ParentStep, RunFork, RunForkFails, ParentExits, TypeOK, StateTypeOK
<1>K. \A k \in Jobs : Kept(k)
  BY <1>0, SameKept
<1>1. CASE RunFork(j)
  <2>1. pc' = [pc EXCEPT ![Sub(j)] = "forked", ![Wtr(j)] = "started"]
    BY <1>1 DEF RunFork
  <2>2. ASSUME NEW k \in Jobs \ {j}
        PROVE  Untouched(k)
    <3>1. Moves(Sub(k)) /\ Moves(Wtr(k))
      BY <2>1, ProcFacts DEF Moves, TypeOK
    <3> QED
      BY <1>0, <1>K, <3>1 DEF Untouched, CmdMoves
  <2>3. JobOKBut(j, X)'
    <3>1. pc[Sub(j)] = "registered" /\ WaitingJob(j) /\ JobOKBut(j, X)
      BY <1>1 DEF RunFork, JobOKBut
    <3>2. pc'[Sub(j)] = "forked" /\ pc'[Wtr(j)] = "started"
      BY <2>1, ProcFacts DEF TypeOK
    <3> QED
      BY <1>0, <3>1, <3>2
         DEF JobOKBut, FreshJob, WaitingJob, TakenJobBut, StartedJobBut, Unstarted, Occupied,
             QueuedJobs, Books
  <2> QED
    BY <1>0, <2>2, <2>3, FrameBut
<1>2. CASE RunForkFails(j) \/ ParentExits(j)
  <2>1. pc[Sub(j)] # "idle" /\ pc' = [pc EXCEPT ![Sub(j)] = "exited"]
    BY <1>2 DEF RunForkFails, ParentExits, Goto
  <2>2. \A k \in Jobs : Moves(Sub(k)) /\ Moves(Wtr(k))
    BY <2>1, ProcFacts, ProcMoves
  <2>3. \A k \in Jobs : Untouched(k)
    BY <1>0, <1>K, <2>2 DEF Untouched, CmdMoves
  <2> QED
    BY <1>0, <2>3, FrameAll
<1> QED
  BY <1>1, <1>2 DEF ParentStep

-----------------------------------------------------------------------------
(* The steps of a waiter.                                                  *)

(* What is left to show of a step of j's own waiter.                       *)
LEMMA WaiterFrame ==
  ASSUME NEW X, TypeOK, TypeOK',
         \A k \in Jobs : JobOKBut(k, X), NEW j \in Jobs, pc[Wtr(j)] # "idle",
         NEW label, pc' = [pc EXCEPT ![Wtr(j)] = label],
         req' = req, taken' = taken, disk'.next = disk.next,
         Jids(disk'.queued) = Jids(disk.queued),
         \A k \in Jobs \ {j} : Kept(k) /\ cmd'[k] = cmd[k] /\ pin'[k] = pin[k],
         label \in {"started", "waiting", "retry"}
           => req[j].mode = "run" /\ cmd'[j] = "none" /\ j \notin DOMAIN disk'.pids,
         j \in DOMAIN disk'.pending => req[j].mode = "run" /\ j \notin DOMAIN disk'.pids,
         StartedJobBut(j, X)'
  PROVE  \A k \in Jobs : JobOKBut(k, X)'
<1>1. pc'[Wtr(j)] = label /\ pc'[Sub(j)] = pc[Sub(j)]
  BY ProcFacts DEF TypeOK
<1>2. ASSUME NEW k \in Jobs \ {j}
      PROVE  Untouched(k)
  <2>1. pc'[Wtr(k)] = pc[Wtr(k)] /\ pc'[Sub(k)] = pc[Sub(k)]
    BY ProcFacts DEF TypeOK
  <2> QED
    BY <2>1 DEF Untouched, Moves, CmdMoves
<1>3. QueuedJobs = Jids(disk.queued) /\ QueuedJobs' = Jids(disk'.queued)
  BY DEF QueuedJobs, Jids
<1>4. /\ pc[Sub(j)] # "registered" /\ j \notin QueuedJobs /\ ~(disk.next <= j)
      /\ \A p \in Procs : j \notin taken[p]
  BY DEF JobOKBut, FreshJob, WaitingJob, TakenJobBut, Unstarted
<1>5. JobOKBut(j, X)'
  BY <1>1, <1>3, <1>4 DEF JobOKBut, FreshJob, WaitingJob, TakenJobBut, Occupied
<1>6. disk.next <= disk'.next
  BY DEF TypeOK, StateTypeOK
<1> QED
  BY <1>2, <1>5, <1>6, FrameBut

LEMMA UpdatePidStep ==
  ASSUME NEW X, TypeOK, TypeOK',
         \A k \in Jobs : JobOKBut(k, X), NEW j \in Jobs, UpdatePid(j)
  PROVE  \A k \in Jobs : JobOKBut(k, X)'
<1>1. /\ pc[Wtr(j)] = "started" /\ pc' = [pc EXCEPT ![Wtr(j)] = "waiting"]
      /\ req' = req /\ taken' = taken /\ cmd' = cmd /\ pin' = pin
  BY DEF UpdatePid, Goto
<1>2. /\ disk'.pids = disk.pids /\ disk'.queued = disk.queued /\ disk'.next = disk.next
      /\ DOMAIN disk'.pending = DOMAIN disk.pending
  BY CleanedUpFacts DEF UpdatePid, CoreschedState
<1>3. \A k \in Jobs : Kept(k)
  BY <1>2, SameKept
<1>4. req[j].mode = "run" /\ cmd[j] = "none" /\ j \notin DOMAIN disk.pids
  BY <1>1 DEF JobOKBut, WaitingJob, Occupied
<1>5. pc'[Wtr(j)] = "waiting"
  BY <1>1, ProcFacts DEF TypeOK
<1>6. StartedJobBut(j, X)'
  BY <1>1, <1>4, <1>5 DEF StartedJobBut
<1> QED
  BY <1>1, <1>2, <1>3, <1>4, <1>6, WaiterFrame

(* A pass of the loop that finds no room, and the sleep after it.          *)
LEMMA WaitSteps ==
  ASSUME NEW X, TypeOK, TypeOK',
         \A k \in Jobs : JobOKBut(k, X), NEW j \in Jobs, AllocWaits(j) \/ Sleep(j)
  PROVE  \A k \in Jobs : JobOKBut(k, X)'
<1>1. PICK label \in {"waiting", "retry"} : pc' = [pc EXCEPT ![Wtr(j)] = label]
  BY DEF AllocWaits, Sleep, Goto
<1>2. /\ pc[Wtr(j)] \in {"waiting", "retry"} /\ disk' \in {disk, CleanedUp}
      /\ req' = req /\ taken' = taken /\ cmd' = cmd /\ pin' = pin
  BY DEF AllocWaits, Sleep
<1>3. /\ DOMAIN disk'.pids \subseteq DOMAIN disk.pids /\ disk'.next = disk.next
      /\ Jids(disk'.queued) = Jids(disk.queued)
      /\ DOMAIN disk'.pending \subseteq DOMAIN disk.pending
  BY <1>2, CleanedUpFacts
<1>4. ASSUME NEW k \in Jobs
      PROVE  Kept(k)
  <2>1. CASE disk' = disk
    BY <2>1, SameKept
  <2>2. CASE disk' = CleanedUp
    BY <2>2, CleanedKept, CleanupKeeps
  <2> QED
    BY <1>2, <2>1, <2>2
<1>5. req[j].mode = "run" /\ cmd[j] = "none" /\ j \notin DOMAIN disk.pids
  BY <1>2 DEF JobOKBut, WaitingJob, Occupied
<1>6. pc'[Wtr(j)] \in {"waiting", "retry"}
  BY <1>1, ProcFacts DEF TypeOK
<1>7. StartedJobBut(j, X)'
  BY <1>2, <1>5, <1>6 DEF StartedJobBut
<1> QED
  BY <1>1, <1>2, <1>3, <1>4, <1>5, <1>7, WaiterFrame

(* The steps that leave the file alone, or withdraw the pending entry, and *)
(* end the waiter.                                                         *)
LEMMA ExitSteps ==
  ASSUME NEW X, TypeOK, TypeOK',
         \A k \in Jobs : JobOKBut(k, X), NEW j \in Jobs,
         GiveUp(j) \/ LaunchPanics(j)
  PROVE  \A k \in Jobs : JobOKBut(k, X)'
<1>1. /\ pc[Wtr(j)] # "idle" /\ pc' = [pc EXCEPT ![Wtr(j)] = "exited"]
      /\ req' = req /\ taken' = taken /\ cmd' = cmd /\ pin' = pin
      /\ disk' \in {disk, [disk EXCEPT !.pending = Without(disk.pending, {j})]}
  BY DEF GiveUp, LaunchPanics, Goto
<1>2. /\ disk'.pids = disk.pids /\ disk'.queued = disk.queued /\ disk'.next = disk.next
      /\ DOMAIN disk'.pending \subseteq DOMAIN disk.pending
  BY <1>1, CleanedUpFacts DEF CoreschedState, Without, Restrict
<1>3. \A k \in Jobs : Kept(k)
  BY <1>2, SameKept
<1>4. \A k \in Jobs : Moves(Sub(k)) /\ Moves(Wtr(k))
  BY <1>1, ProcFacts, ProcMoves
<1>5. \A k \in Jobs : Untouched(k)
  BY <1>1, <1>3, <1>4 DEF Untouched, CmdMoves
<1>6. disk.next <= disk'.next
  BY <1>2 DEF TypeOK, StateTypeOK
<1> QED
  BY <1>1, <1>5, <1>6, FrameAll

LEMMA LaunchStep ==
  ASSUME NEW X, TypeOK, TypeOK',
         \A k \in Jobs : JobOKBut(k, X), NEW j \in Jobs,
         Launch(j) \/ LaunchUnpinned(j)
  PROVE  \A k \in Jobs : JobOKBut(k, X)'
<1>1. /\ pc[Wtr(j)] = "allocated" /\ pc' = [pc EXCEPT ![Wtr(j)] = "spawned"]
      /\ disk' = disk /\ req' = req /\ taken' = taken /\ pin' = pin
      /\ cmd' = [cmd EXCEPT ![j] = "running"]
  BY DEF Launch, LaunchUnpinned, Goto
<1>2. \A k \in Jobs : Kept(k)
  BY <1>1, SameKept
<1>3. \A k \in Jobs \ {j} : cmd'[k] = cmd[k]
  BY <1>1 DEF TypeOK
<1>4. j \in DOMAIN disk.pending => req[j].mode = "run" /\ j \notin DOMAIN disk.pids
  BY DEF JobOKBut, WaitingJob, Occupied
<1>5. pc'[Wtr(j)] = "spawned" /\ (Books(j, {"none"}) \/ Exempted(j, X))
  BY <1>1, ProcFacts DEF TypeOK, JobOKBut, StartedJobBut
<1>6. StartedJobBut(j, X)'
  BY <1>1, <1>5 DEF StartedJobBut, Books, Occupied, Exempted
<1> QED
  BY <1>1, <1>2, <1>3, <1>4, <1>6, WaiterFrame

(* The waiter takes the resources: they are free, so the books agree after. *)
LEMMA AllocRunStep ==
  ASSUME NEW X, TypeOK, TypeOK', Booked,
         \A k \in Jobs : JobOKBut(k, X), NEW j \in Jobs, AllocRun(j)
  PROVE  Booked' /\ \A k \in Jobs : JobOKBut(k, X)'
<1> DEFINE c == CleanedUp
           g == Alloc(c, req[j])
           t == StartJob(c, j, req[j], g)
           e == JobEntry(j, req[j], "none", g)
<1>1. /\ pc[Wtr(j)] = "waiting" /\ pc' = [pc EXCEPT ![Wtr(j)] = "allocated"]
      /\ req' = req /\ taken' = taken /\ cmd' = cmd
      /\ pin' = [pin EXCEPT ![j] = Held(g)]
      /\ disk' = [t EXCEPT !.pending = Without(t.pending, {j})]
  BY DEF AllocRun, Goto
<1>2. c \in CoreschedState(Jobs) /\ Consistent(c) /\ c.queued = disk.queued /\ c.next = disk.next
  BY CleanedUpFacts
<1>3. /\ g.cores \subseteq Cores /\ g.cpus \subseteq Cpus /\ Held(g) \cap c.cpus = {}
      /\ req[j].type \in JobTypes /\ req[j].need \in 0 .. 255 /\ req[j].priority \in Priorities
  BY AllocIsFree, RequestType
<1>4. req[j].mode = "run" /\ cmd[j] = "none" /\ j \notin DOMAIN disk.pids
  BY <1>1 DEF JobOKBut, WaitingJob, Occupied
<1>5. j \notin DOMAIN c.pids
  BY <1>4, CleanupKeeps
<1>6. Held(e) = Held(g) /\ e.pid = "none"
  BY DEF JobEntry, Held
<1> HIDE DEF c, g, e
<1>7. Consistent(t)
  BY <1>2, <1>3, <1>5, StartJobConsistent
<1>8. /\ t \in CoreschedState(Jobs)
      /\ DOMAIN t.pids = DOMAIN c.pids \cup {j} /\ t.pids[j] = e
      /\ \A k \in DOMAIN c.pids \ {j} : t.pids[k] = c.pids[k]
      /\ t.pending = c.pending /\ t.queued = c.queued /\ t.next = c.next
  BY <1>2, <1>3, StartJobFacts DEF e
<1> HIDE DEF t
<1>9. /\ disk'.pids = t.pids /\ disk'.cfd = t.cfd /\ disk'.cpus = t.cpus
      /\ disk'.queued = t.queued /\ disk'.next = t.next
      /\ DOMAIN disk'.pending = DOMAIN t.pending \ {j}
  BY <1>1, <1>8 DEF CoreschedState, Without, Restrict
<1>10. Booked'
  BY <1>7, <1>9 DEF Booked, Consistent
<1>11. ASSUME NEW k \in Jobs \ {j}
       PROVE  Kept(k)
  BY <1>2, <1>8, <1>9, CleanedKept DEF c
<1>12. pc'[Wtr(j)] = "allocated" /\ pin'[j] = Held(g) /\ \A k \in Jobs \ {j} : pin'[k] = pin[k]
  BY <1>1, ProcFacts DEF TypeOK
<1>13. StartedJobBut(j, X)'
  <2>1. j \in DOMAIN disk'.pids /\ disk'.pids[j] = e
    BY <1>8, <1>9
  <2> QED
    BY <1>1, <1>4, <1>6, <1>12, <2>1 DEF StartedJobBut, Books, Occupied, Exempted
<1>14. \A k \in Jobs : JobOKBut(k, X)'
  BY <1>1, <1>2, <1>8, <1>9, <1>11, <1>12, <1>13, WaiterFrame
<1> QED
  BY <1>10, <1>14

(* Recording a pid changes nothing else of the file.                       *)
LEMMA RecordDisk ==
  ASSUME TypeOK, NEW j \in Jobs, RecordPid(j)
  PROVE  /\ disk'.queued = disk.queued /\ disk'.next = disk.next /\ disk'.pending = disk.pending
         /\ disk'.cfd = disk.cfd /\ disk'.cpus = disk.cpus
         /\ DOMAIN disk'.pids = DOMAIN disk.pids
         /\ j \in DOMAIN disk.pids => /\ disk'.pids[j] = [disk.pids[j] EXCEPT !.pid = "cmd"]
                                      /\ disk'.pids[j].pid = "cmd"
         /\ \A k \in DOMAIN disk.pids \ {j} : disk'.pids[k] = disk.pids[k]
         /\ \A k \in DOMAIN disk.pids : /\ disk'.pids[k].cores = disk.pids[k].cores
                                        /\ Held(disk'.pids[k]) = Held(disk.pids[k])
                                        /\ disk'.pids[k].priority = disk.pids[k].priority
<1> DEFINE m == Recorded(disk.pids, j, "cmd")
<1>1. /\ j \in DOMAIN disk.pids => disk' = [disk EXCEPT !.pids = m]
      /\ j \notin DOMAIN disk.pids => disk' = disk
  BY DEF RecordPid, Recorded
<1>2. disk \in CoreschedState(Jobs) /\ disk.pids \in JobMap(Jobs)
  BY CleanedUpFacts DEF CoreschedState
<1>3. ASSUME j \in DOMAIN disk.pids
      PROVE  /\ DOMAIN m = DOMAIN disk.pids /\ m[j].pid = "cmd"
             /\ m[j] = [disk.pids[j] EXCEPT !.pid = "cmd"]
             /\ \A k \in DOMAIN disk.pids \ {j} : m[k] = disk.pids[k]
             /\ \A k \in DOMAIN disk.pids : /\ m[k].cores = disk.pids[k].cores
                                            /\ Held(m[k]) = Held(disk.pids[k])
                                            /\ m[k].priority = disk.pids[k].priority
  <2> DEFINE map == disk.pids
  <2>1. map \in JobMap(Jobs) /\ j \in DOMAIN map /\ "cmd" \in PidKinds
    BY <1>2, <1>3 DEF PidKinds
  <2> HIDE DEF map
  <2>2. LET n == Recorded(map, j, "cmd")
        IN  /\ DOMAIN n = DOMAIN map /\ n[j].pid = "cmd"
            /\ n[j] = [map[j] EXCEPT !.pid = "cmd"]
            /\ \A k \in DOMAIN map \ {j} : n[k] = map[k]
            /\ \A k \in DOMAIN map : /\ n[k].cores = map[k].cores
                                     /\ Held(n[k]) = Held(map[k])
                                     /\ n[k].priority = map[k].priority
    BY <2>1, RecordFacts
  <2> QED
    BY <2>2 DEF map
<1> HIDE DEF m
<1>4. /\ disk'.queued = disk.queued /\ disk'.next = disk.next /\ disk'.pending = disk.pending
      /\ disk'.cfd = disk.cfd /\ disk'.cpus = disk.cpus
      /\ disk'.pids = IF j \in DOMAIN disk.pids THEN m ELSE disk.pids
  BY <1>1, <1>2 DEF CoreschedState
<1> QED
  BY <1>3, <1>4

LEMMA RecordPidStep ==
  ASSUME NEW X, TypeOK, TypeOK', Booked,
         \A k \in Jobs : JobOKBut(k, X), NEW j \in Jobs, RecordPid(j)
  PROVE  Booked' /\ \A k \in Jobs : JobOKBut(k, X)'
<1>1. /\ pc[Wtr(j)] = "spawned" /\ pc' = [pc EXCEPT ![Wtr(j)] = "running"]
      /\ req' = req /\ taken' = taken /\ cmd' = cmd /\ pin' = pin
  BY DEF RecordPid, Goto
<1>2. /\ disk'.queued = disk.queued /\ disk'.next = disk.next /\ disk'.pending = disk.pending
      /\ disk'.cfd = disk.cfd /\ disk'.cpus = disk.cpus
  BY RecordDisk
<1>3. /\ DOMAIN disk'.pids = DOMAIN disk.pids
      /\ j \in DOMAIN disk.pids => disk'.pids[j].pid = "cmd"
      /\ \A k \in DOMAIN disk.pids \ {j} : disk'.pids[k] = disk.pids[k]
      /\ \A k \in DOMAIN disk.pids : /\ disk'.pids[k].cores = disk.pids[k].cores
                                     /\ Held(disk'.pids[k]) = Held(disk.pids[k])
  BY RecordDisk
<1>4. Booked'
  <2>1. UNION {disk'.pids[k].cores : k \in DOMAIN disk'.pids}
          = UNION {disk.pids[k].cores : k \in DOMAIN disk.pids}
    BY <1>3
  <2>2. UNION {Held(disk'.pids[k]) : k \in DOMAIN disk'.pids}
          = UNION {Held(disk.pids[k]) : k \in DOMAIN disk.pids}
    BY <1>3
  <2> QED
    BY <1>2, <1>3, <2>1, <2>2 DEF Booked, Consistent, Agree
<1>5. \A k \in Jobs \ {j} : Kept(k)
  BY <1>2, <1>3, SameKept
<1>6. pc'[Wtr(j)] = "running"
  BY <1>1, ProcFacts DEF TypeOK
<1>7. StartedJobBut(j, X)'
  BY <1>1, <1>3, <1>6 DEF JobOKBut, StartedJobBut, Books, Occupied, Exempted
<1>8. j \in DOMAIN disk.pending => req[j].mode = "run" /\ j \notin DOMAIN disk.pids
  BY DEF JobOKBut, WaitingJob, Occupied
<1>9. \A k \in Jobs : JobOKBut(k, X)'
  BY <1>1, <1>2, <1>3, <1>5, <1>7, <1>8, WaiterFrame
<1> QED
  BY <1>4, <1>9

LEMMA ReapStep ==
  ASSUME NEW X, TypeOK, TypeOK',
         \A k \in Jobs : JobOKBut(k, X), NEW j \in Jobs, Reap(j)
  PROVE  \A k \in Jobs : JobOKBut(k, X)'
<1>1. /\ pc[Wtr(j)] = "running" /\ pc' = [pc EXCEPT ![Wtr(j)] = "reaped"]
      /\ disk' = disk /\ req' = req /\ taken' = taken /\ pin' = pin
      /\ cmd' = [cmd EXCEPT ![j] = "gone"]
  BY DEF Reap, Goto
<1>2. \A k \in Jobs : Kept(k)
  BY <1>1, SameKept
<1>3. cmd'[j] = "gone" /\ \A k \in Jobs \ {j} : cmd'[k] = cmd[k]
  BY <1>1 DEF TypeOK
<1>4. j \in DOMAIN disk.pending => req[j].mode = "run" /\ j \notin DOMAIN disk.pids
  BY DEF JobOKBut, WaitingJob, Occupied
<1>5. pc'[Wtr(j)] = "reaped"
  BY <1>1, ProcFacts DEF TypeOK
<1>6. StartedJobBut(j, X)'
  BY <1>3, <1>5 DEF StartedJobBut
<1> QED
  BY <1>1, <1>2, <1>3, <1>4, <1>6, WaiterFrame

LEMMA FreeStep ==
  ASSUME NEW X, TypeOK, TypeOK', Booked,
         \A k \in Jobs : JobOKBut(k, X), NEW j \in Jobs, Free(j)
  PROVE  Booked' /\ \A k \in Jobs : JobOKBut(k, X)'
<1>1. /\ pc[Wtr(j)] = "reaped" /\ pc' = [pc EXCEPT ![Wtr(j)] = "dispatch"]
      /\ disk' = FreeJobs(disk, {j}) /\ req' = req /\ taken' = taken /\ pin' = pin
      /\ cmd' = cmd
  BY DEF Free, FreeJob, Goto
<1>2. disk \in CoreschedState(Jobs)
  BY CleanedUpFacts
<1>3. Booked'
  BY <1>1, <1>2, FreeJobsConsistent DEF Booked
<1>4. /\ DOMAIN disk'.pids = DOMAIN disk.pids \ {j}
      /\ \A k \in DOMAIN disk.pids \ {j} : disk'.pids[k] = disk.pids[k]
      /\ disk'.pending = disk.pending /\ disk'.queued = disk.queued /\ disk'.next = disk.next
  BY <1>1, <1>2, FreeJobsFacts
<1>5. \A k \in Jobs \ {j} : Kept(k)
  BY <1>4, SameKept
<1>6. cmd[j] = "gone" /\ pc'[Wtr(j)] = "dispatch"
  BY <1>1, ProcFacts DEF JobOKBut, StartedJobBut, TypeOK
<1>7. StartedJobBut(j, X)'
  BY <1>1, <1>6 DEF StartedJobBut
<1>8. j \in DOMAIN disk.pending => req[j].mode = "run"
  BY DEF JobOKBut, WaitingJob
<1>9. \A k \in Jobs : JobOKBut(k, X)'
  BY <1>1, <1>4, <1>5, <1>7, <1>8, WaiterFrame
<1> QED
  BY <1>3, <1>9

LEMMA CmdExitsStep ==
  ASSUME NEW X, TypeOK, TypeOK',
         \A k \in Jobs : JobOKBut(k, X), NEW j \in Jobs, CmdExits(j)
  PROVE  \A k \in Jobs : JobOKBut(k, X)'
<1>1. /\ disk' = disk /\ req' = req /\ taken' = taken /\ pin' = pin /\ pc' = pc
      /\ cmd[j] = "running"
      /\ cmd' = [cmd EXCEPT ![j] = IF Live(Wtr(j)) THEN "zombie" ELSE "gone"]
  BY DEF CmdExits
<1>2. \A k \in Jobs : Kept(k)
  BY <1>1, SameKept
<1>3. \A k \in Jobs : CmdMoves(k)
  BY <1>1 DEF CmdMoves, TypeOK
<1>4. \A k \in Jobs : Untouched(k)
  BY <1>1, <1>2, <1>3 DEF Untouched, Moves
<1>5. disk.next <= disk'.next
  BY <1>1 DEF TypeOK, StateTypeOK
<1> QED
  BY <1>1, <1>4, <1>5, FrameAll

-----------------------------------------------------------------------------
(* The steps of a dispatcher.                                              *)

(* The queued job has no entry, so nobody's resources are given twice; it  *)
(* leaves the queue in the same step that it gets into one process's hands. *)
LEMMA DispatchTakeStep ==
  ASSUME NEW X, TypeOK, TypeOK', Booked, QueuedOnce, \A k \in Jobs : JobOKBut(k, X),
         NEW p \in Procs, DispatchTake(p)
  PROVE  Booked' /\ QueuedOnce' /\ \A k \in Jobs : JobOKBut(k, X)'
<1> DEFINE c == CleanedUp
<1>1. c \in CoreschedState(Jobs) /\ Consistent(c) /\ c.queued = disk.queued /\ c.next = disk.next
  BY CleanedUpFacts
<1>2. PICK i \in Dispatchable(c) :
        LET job == c.queued[i]
            g   == Alloc(c, job)
        IN  /\ disk' = StartJob([c EXCEPT !.queued = RemoveAt(@, i)], job.jid, job, g)
            /\ taken' = [taken EXCEPT ![p] = {job.jid}]
            /\ pin' = [pin EXCEPT ![job.jid] = Held(g)]
  BY DEF DispatchTake
<1>3. i \in DOMAIN c.queued
  BY <1>2 DEF Dispatchable, NextQueuedJobIndex
<1> DEFINE job == c.queued[i]
           g == Alloc(c, job)
           u == [c EXCEPT !.queued = RemoveAt(@, i)]
<1>4. /\ job \in EntryOf(Jobs) /\ u \in CoreschedState(Jobs)
      /\ u.queued = RemoveAt(c.queued, i)
      /\ u.pids = c.pids /\ u.pending = c.pending /\ u.next = c.next
      /\ u.cfd = c.cfd /\ u.cpus = c.cpus
  BY <1>1, <1>3, DequeueFacts
<1>J. PICK j \in Jobs : j = job.jid
  BY <1>4 DEF EntryOf
<1> DEFINE e == JobEntry(j, job, "none", g)
<1>5. /\ job.type \in JobTypes /\ job.need \in 0 .. 255
      /\ job.priority \in Priorities
  BY <1>4 DEF EntryOf
<1>6. g.cores \subseteq Cores /\ g.cpus \subseteq Cpus /\ Held(g) \cap c.cpus = {}
  BY <1>5, AllocIsFree
<1>7. /\ disk' = StartJob(u, j, job, g)
      /\ taken' = [taken EXCEPT ![p] = {j}] /\ pin' = [pin EXCEPT ![j] = Held(g)]
      /\ req' = req /\ cmd' = cmd /\ pc[p] = "dispatch" /\ pc' = [pc EXCEPT ![p] = "fork"]
  BY <1>2, <1>J DEF DispatchTake, Goto
<1>8. Held(e) = Held(g) /\ e.pid = "none"
  BY DEF JobEntry, Held
<1>9. /\ QueuedJobs = Jids(disk.queued) /\ QueuedJobs' = Jids(disk'.queued)
      /\ QueuedOnce = Distinct(disk.queued) /\ QueuedOnce' = Distinct(disk'.queued)
  BY DEF QueuedJobs, Jids, QueuedOnce, Distinct
<1>10. Jids(u.queued) = Jids(disk.queued) \ {j} /\ Distinct(u.queued)
  <2>1. c.queued \in Seq(EntryOf(Jobs)) /\ Distinct(c.queued)
    BY <1>1, <1>9 DEF CoreschedState
  <2> QED
    BY <1>1, <1>3, <1>4, <1>J, <2>1, RemoveJids
<1>11. j \in QueuedJobs
  BY <1>1, <1>3, <1>9, <1>J DEF Jids
<1> HIDE DEF c, job, g, u, e
<1>12. /\ req[j].mode = "enqueue" /\ Unstarted(j) /\ j \notin DOMAIN disk.pids
       /\ j \notin DOMAIN disk.pending /\ pc[Sub(j)] # "registered" /\ ~(disk.next <= j)
       /\ \A q \in Procs : j \notin taken[q]
  BY <1>5, <1>11 DEF JobOKBut, FreshJob, WaitingJob, TakenJobBut, Occupied
<1>13. j \notin DOMAIN c.pids /\ j \notin DOMAIN c.pending
  BY <1>5, <1>12, CleanupKeeps DEF c
<1>14. Consistent(u)
  BY <1>1, <1>4 DEF Consistent
<1>15. Booked'
  BY <1>4, <1>5, <1>6, <1>7, <1>13, <1>14, StartJobConsistent DEF Booked
<1>16. /\ DOMAIN disk'.pids = DOMAIN c.pids \cup {j} /\ disk'.pids[j] = e
       /\ \A k \in DOMAIN c.pids \ {j} : disk'.pids[k] = c.pids[k]
       /\ disk'.pending = c.pending /\ disk'.queued = u.queued /\ disk'.next = disk.next
  BY <1>1, <1>4, <1>5, <1>6, <1>7, StartJobFacts DEF e
<1>17. QueuedOnce' /\ QueuedJobs' = QueuedJobs \ {j}
  BY <1>9, <1>10, <1>16
<1>18. \A k \in Jobs : Moves(Sub(k)) /\ Moves(Wtr(k))
  BY <1>7, ProcMoves
<1>19. ASSUME NEW k \in Jobs \ {j}
       PROVE  Untouched(k)
  <2>1. Kept(k)
    BY <1>10, <1>16, CleanedKept DEF c
  <2>2. pin'[k] = pin[k]
    BY <1>5, <1>7 DEF TypeOK
  <2>3. \A q \in Procs : k \in taken'[q] => k \in taken[q]
    BY <1>7 DEF TypeOK
  <2> QED
    BY <1>7, <1>18, <2>1, <2>2, <2>3 DEF Untouched, CmdMoves
<1>20. JobOKBut(j, X)'
  <2>1. p # Wtr(j)
    BY <1>7, <1>12 DEF Unstarted
  <2>2. pc'[Wtr(j)] = "idle" /\ pc'[Sub(j)] # "registered"
    BY <1>5, <1>7, <1>12, <2>1, ProcFacts DEF TypeOK, Unstarted
  <2>3. pin'[j] = Held(g) /\ \A q \in Procs \ {p} : j \notin taken'[q]
    BY <1>5, <1>7, <1>12 DEF TypeOK
  <2>4. Books(j, {"none"})'
    BY <1>8, <1>16, <2>3 DEF Books, Occupied
  <2>5. FreshJob(j)' /\ StartedJobBut(j, X)'
    BY <1>7, <1>12, <1>16, <2>2 DEF FreshJob, StartedJobBut, Unstarted
  <2>6. WaitingJob(j)'
    BY <1>13, <1>16, <1>17, <2>2 DEF WaitingJob
  <2>7. TakenJobBut(j, X)'
    BY <1>7, <1>12, <1>17, <2>2, <2>3, <2>4 DEF TakenJobBut, Unstarted
  <2> QED
    BY <2>5, <2>6, <2>7 DEF JobOKBut
<1>21. disk.next <= disk'.next
  BY <1>16 DEF TypeOK, StateTypeOK
<1>22. \A k \in Jobs : JobOKBut(k, X)'
  BY <1>5, <1>7, <1>19, <1>20, <1>21, FrameBut
<1> QED
  BY <1>15, <1>17, <1>22

LEMMA DispatchForkStep ==
  ASSUME NEW X, TypeOK, TypeOK',
         \A k \in Jobs : JobOKBut(k, X), NEW p \in Procs, DispatchFork(p)
  PROVE  \A k \in Jobs : JobOKBut(k, X)'
<1>1. PICK j \in taken[p] : pc' = [pc EXCEPT ![p] = "dispatch", ![Wtr(j)] = "allocated"]
  BY DEF DispatchFork
<1>2. /\ pc[p] = "fork" /\ taken' = [taken EXCEPT ![p] = {}]
      /\ disk' = disk /\ req' = req /\ cmd' = cmd /\ pin' = pin
  BY DEF DispatchFork
<1>3. j \in Jobs
  BY DEF TypeOK
<1>4. /\ req[j].mode = "enqueue" /\ Unstarted(j) /\ j \notin QueuedJobs
      /\ Books(j, {"none"}) \/ Exempted(j, X)
      /\ \A q \in Procs \ {p} : j \notin taken[q]
      /\ j \notin DOMAIN disk.pending /\ ~(disk.next <= j)
      /\ pc[Sub(j)] # "registered"
  BY <1>3 DEF JobOKBut, FreshJob, WaitingJob, TakenJobBut
<1>5. /\ \A k \in Jobs \ {j} : Moves(Sub(k)) /\ Moves(Wtr(k))
      /\ pc'[Wtr(j)] = "allocated" /\ pc'[Sub(j)] # "registered"
  BY <1>1, <1>2, <1>3, <1>4, ProcFacts DEF Moves, TypeOK
<1>6. \A q \in Procs : taken'[q] \subseteq taken[q] /\ j \notin taken'[q]
  BY <1>2, <1>4 DEF TypeOK
<1>7. \A k \in Jobs \ {j} : Untouched(k)
  <2>1. \A k \in Jobs : Kept(k)
    BY <1>2, SameKept
  <2> QED
    BY <1>2, <1>5, <1>6, <2>1 DEF Untouched, CmdMoves
<1>8. JobOKBut(j, X)'
  BY <1>2, <1>4, <1>5, <1>6
     DEF JobOKBut, FreshJob, WaitingJob, TakenJobBut, StartedJobBut, Unstarted, Books,
         Occupied, Exempted, QueuedJobs
<1>9. disk.next <= disk'.next
  BY <1>2 DEF TypeOK, StateTypeOK
<1> QED
  BY <1>2, <1>3, <1>7, <1>8, <1>9, FrameBut

LEMMA DispatchRequeueStep ==
  ASSUME NEW X, TypeOK, TypeOK', Booked, QueuedOnce, \A k \in Jobs : JobOKBut(k, X),
         NEW p \in Procs, DispatchRequeue(p)
  PROVE  Booked' /\ QueuedOnce' /\ \A k \in Jobs : JobOKBut(k, X)'
<1>1. PICK j \in taken[p] :
        disk' = [FreeJob(disk, j) EXCEPT
                   !.queued = Cons(JobEntry(j, req[j], "none", NoGrant), @)]
  BY DEF DispatchRequeue
<1>2. /\ pc[p] = "fork" /\ pc' = [pc EXCEPT ![p] = Final(p)]
      /\ taken' = [taken EXCEPT ![p] = {}] /\ req' = req /\ cmd' = cmd /\ pin' = pin
  BY DEF DispatchRequeue, Goto
<1>3. j \in Jobs
  BY DEF TypeOK
<1> DEFINE f == FreeJobs(disk, {j})
           e == JobEntry(j, req[j], "none", NoGrant)
<1>4. e \in EntryOf(Jobs) /\ e.jid = j
  BY <1>3, RequestType, EntryTypes DEF PidKinds, JobEntry
<1>5. disk \in CoreschedState(Jobs) /\ disk.queued \in Seq(EntryOf(Jobs))
  BY CleanedUpFacts DEF CoreschedState
<1>6. /\ f \in CoreschedState(Jobs) /\ Consistent(f)
      /\ DOMAIN f.pids = DOMAIN disk.pids \ {j}
      /\ \A k \in DOMAIN disk.pids \ {j} : f.pids[k] = disk.pids[k]
      /\ f.pending = disk.pending /\ f.queued = disk.queued /\ f.next = disk.next
  BY <1>5, FreeJobsFacts, FreeJobsConsistent DEF Booked
<1>7. disk' = [f EXCEPT !.queued = Cons(e, f.queued)]
  BY <1>1 DEF FreeJob
<1> HIDE DEF f, e
<1>8. /\ disk'.pids = f.pids /\ disk'.cfd = f.cfd /\ disk'.cpus = f.cpus
      /\ disk'.pending = f.pending /\ disk'.next = f.next
      /\ disk'.queued = Cons(e, disk.queued)
  BY <1>6, <1>7 DEF CoreschedState
<1>9. Booked'
  BY <1>6, <1>8 DEF Booked, Consistent
<1>10. /\ req[j].mode = "enqueue" /\ Unstarted(j) /\ j \notin QueuedJobs
       /\ \A q \in Procs \ {p} : j \notin taken[q]
       /\ j \notin DOMAIN disk.pending /\ ~(disk.next <= j)
       /\ pc[Sub(j)] # "registered"
  BY <1>3 DEF JobOKBut, FreshJob, WaitingJob, TakenJobBut
<1>11. /\ QueuedJobs = Jids(disk.queued) /\ QueuedJobs' = Jids(disk'.queued)
       /\ QueuedOnce = Distinct(disk.queued) /\ QueuedOnce' = Distinct(disk'.queued)
  BY DEF QueuedJobs, Jids, QueuedOnce, Distinct
<1>12. QueuedOnce' /\ Jids(disk'.queued) = Jids(disk.queued) \cup {j}
  BY <1>4, <1>5, <1>8, <1>10, <1>11, ConsJids
<1>13. \A k \in Jobs : Moves(Sub(k)) /\ Moves(Wtr(k))
  BY <1>2, ProcMoves
<1>14. \A q \in Procs : taken'[q] \subseteq taken[q] /\ j \notin taken'[q]
  BY <1>2, <1>10 DEF TypeOK
<1>15. \A k \in Jobs \ {j} : Untouched(k)
  <2>1. \A k \in Jobs \ {j} : Kept(k)
    BY <1>6, <1>8, <1>12, SameKept
  <2> QED
    BY <1>2, <1>13, <1>14, <2>1 DEF Untouched, CmdMoves
<1>16. JobOKBut(j, X)'
  <2>1. p # Wtr(j)
    BY <1>2, <1>10 DEF Unstarted
  <2>2. pc'[Wtr(j)] = "idle" /\ pc'[Sub(j)] # "registered"
    BY <1>2, <1>3, <1>10, <2>1, ProcFacts DEF TypeOK, Unstarted, Final
  <2>3. j \notin DOMAIN disk'.pids /\ j \notin DOMAIN disk'.pending /\ disk'.next = disk.next
    BY <1>6, <1>8, <1>10
  <2> QED
    BY <1>2, <1>10, <1>14, <2>2, <2>3
       DEF JobOKBut, FreshJob, WaitingJob, TakenJobBut, StartedJobBut, Unstarted, Occupied
<1>17. disk.next <= disk'.next
  BY <1>6, <1>8 DEF TypeOK, StateTypeOK
<1>18. \A k \in Jobs : JobOKBut(k, X)'
  BY <1>2, <1>3, <1>15, <1>16, <1>17, FrameBut
<1> QED
  BY <1>9, <1>12, <1>18

(* The steps that work on no job.                                          *)
LEMMA DispatchStopsStep ==
  ASSUME NEW X, TypeOK, TypeOK',
         \A k \in Jobs : JobOKBut(k, X), NEW p \in Procs, DispatchStops(p)
  PROVE  \A k \in Jobs : JobOKBut(k, X)'
<1>1. /\ disk' = disk /\ req' = req /\ taken' = taken /\ cmd' = cmd /\ pin' = pin
      /\ pc[p] = "dispatch" /\ pc' = [pc EXCEPT ![p] = Final(p)]
  BY DEF DispatchStops, Goto
<1>2. \A k \in Jobs : Kept(k)
  BY <1>1, SameKept
<1>3. \A k \in Jobs : Moves(Sub(k)) /\ Moves(Wtr(k))
  BY <1>1, ProcMoves
<1>4. \A k \in Jobs : Untouched(k)
  BY <1>1, <1>2, <1>3 DEF Untouched, CmdMoves
<1>5. disk.next <= disk'.next
  BY <1>1 DEF TypeOK, StateTypeOK
<1> QED
  BY <1>1, <1>4, <1>5, FrameAll

LEMMA ReserveCoreStep ==
  ASSUME NEW X, TypeOK, TypeOK', Booked, QueuedOnce, \A k \in Jobs : JobOKBut(k, X),
         NEW a \in Clients, NEW cores, ReserveCore(a, cores)
  PROVE  Booked' /\ QueuedOnce' /\ \A k \in Jobs : JobOKBut(k, X)'
<1>1. /\ req' = req /\ taken' = taken /\ cmd' = cmd /\ pin' = pin
      /\ pc' = [pc EXCEPT ![Adm(a)] = "dispatch"]
      /\ disk' = [disk EXCEPT !.reserved = cores]
  BY DEF ReserveCore, Goto
<1>2. /\ disk'.pids = disk.pids /\ disk'.queued = disk.queued /\ disk'.next = disk.next
      /\ disk'.pending = disk.pending /\ disk'.cfd = disk.cfd /\ disk'.cpus = disk.cpus
  BY <1>1, CleanedUpFacts DEF CoreschedState
<1>3. \A k \in Jobs : Kept(k)
  BY <1>2, SameKept
<1>4. \A k \in Jobs : Moves(Sub(k)) /\ Moves(Wtr(k))
  BY <1>1, ProcFacts DEF Moves, TypeOK
<1>5. \A k \in Jobs : Untouched(k)
  BY <1>1, <1>3, <1>4 DEF Untouched, CmdMoves
<1>6. disk.next <= disk'.next
  BY <1>2 DEF TypeOK, StateTypeOK
<1>7. \A k \in Jobs : JobOKBut(k, X)'
  BY <1>1, <1>5, <1>6, FrameAll
<1> QED
  BY <1>2, <1>7 DEF Booked, Consistent, QueuedOnce

(* Whoever dies, the jobs keep what the invariant says of them: a command  *)
(* that goes on keeps its entry, and a job in a dead dispatcher's hands is *)
(* in nobody's.                                                            *)
LEMMA DieStep ==
  ASSUME NEW X, TypeOK, TypeOK',
         \A k \in Jobs : JobOKBut(k, X), NEW D,
         Die(D), UNCHANGED <<disk, req, pin, mask, parent>>,
         \A p \in Procs \cap D : pc[p] # "idle",
         \A k \in Jobs : Cmd(k) \in D => cmd[k] \in {"running", "zombie"}
  PROVE  \A k \in Jobs : JobOKBut(k, X)'
<1>1. \A k \in Jobs : Kept(k)
  BY SameKept
<1>2. ASSUME NEW k \in Jobs
      PROVE  Moves(Sub(k)) /\ Moves(Wtr(k))
  <2>1. Final(Sub(k)) = "exited" /\ Final(Wtr(k)) = "exited"
    BY DEF Final, Sub, Wtr
  <2> QED
    BY <2>1, ProcFacts DEF Die, Moves
<1>3. \A k \in Jobs : CmdMoves(k)
  BY DEF Die, CmdMoves
<1>4. \A p \in Procs : taken'[p] \subseteq taken[p]
  BY DEF Die
<1>5. \A k \in Jobs : Untouched(k)
  BY <1>1, <1>2, <1>3, <1>4 DEF Untouched
<1>6. disk.next <= disk'.next
  BY DEF TypeOK, StateTypeOK
<1> QED
  BY <1>5, <1>6, FrameAll

-----------------------------------------------------------------------------
(* The inductive invariant.                                                *)

LEMMA InitInvariant == Init => IInv
<1> SUFFICES ASSUME Init PROVE IInv
  OBVIOUS
<1>1. /\ disk.cfd = {} /\ disk.cpus = {} /\ DOMAIN disk.pids = {} /\ DOMAIN disk.pending = {}
      /\ DOMAIN disk.queued = {} /\ disk.next = 1
  BY DEF Init, EmptyState
<1>2. Booked /\ QueuedOnce
  BY <1>1 DEF Booked, Consistent, Agree, QueuedOnce
<1>3. QueuedJobs = {}
  BY <1>1 DEF QueuedJobs
<1>4. ASSUME NEW j \in Jobs
      PROVE  JobOK(j)
  <2>1. /\ pc[Sub(j)] = "idle" /\ pc[Wtr(j)] = "idle" /\ cmd[j] = "none"
        /\ \A p \in Procs : taken[p] = {}
    BY ProcFacts DEF Init
  <2> QED
    BY <1>1, <1>3, <2>1
       DEF JobOK, FreshJob, WaitingJob, TakenJob, StartedJob, Unstarted, Occupied
<1> QED
  BY <1>2, <1>4, TypeInit DEF IInv

(* A step of coresched itself, whoever is exempt.                          *)
LEMMA StepBut ==
  ASSUME NEW X, IInvBut(X), [Next]_vars
  PROVE  IInvBut(X)'
<1>0. /\ TypeOK /\ TypeOK' /\ Booked /\ QueuedOnce /\ \A k \in Jobs : JobOKBut(k, X)
      /\ disk \in CoreschedState(Jobs)
  BY TypeStep, CleanedUpFacts DEF IInvBut
<1> DEFINE Post == Booked' /\ QueuedOnce' /\ \A k \in Jobs : JobOKBut(k, X)'
<1>D. ASSUME disk' = disk
      PROVE  Booked' /\ QueuedOnce'
  BY <1>0, <1>D DEF Booked, QueuedOnce
<1>Q. ASSUME disk'.queued = disk.queued
      PROVE  QueuedOnce'
  BY <1>0, <1>Q DEF QueuedOnce
<1>B. ASSUME disk'.pids = disk.pids, disk'.cfd = disk.cfd, disk'.cpus = disk.cpus
      PROVE  Booked'
  BY <1>0, <1>B DEF Booked, Consistent
<1>1. ASSUME NEW j \in Jobs, Register(j)
      PROVE  Post
  <2>1. disk' = [CleanedUp EXCEPT !.next = j + 1,
                   !.pending = Insert(CleanedUp.pending, j, JobEntry(j, req[j], "sub", NoGrant))]
    BY <1>1 DEF Register
  <2>2. Booked' /\ disk'.queued = disk.queued
    BY <1>0, <2>1, CleanedUpFacts DEF CoreschedState, Booked, Consistent
  <2> QED
    BY <1>0, <1>1, <1>Q, <2>2, RegisterStep
<1>2. ASSUME NEW j \in Jobs, Enqueue(j)
      PROVE  Post
  <2>1. disk' = [CleanedUp EXCEPT !.next = j + 1,
                   !.queued = Append(CleanedUp.queued, JobEntry(j, req[j], "none", NoGrant))]
    BY <1>2 DEF Enqueue
  <2>2. Booked'
    BY <1>0, <2>1, CleanedUpFacts DEF CoreschedState, Booked, Consistent
  <2> QED
    BY <1>0, <1>2, <2>2, EnqueueStep
<1>3. ASSUME NEW j \in Jobs, ParentStep(j)
      PROVE  Post
  <2>1. disk' = disk
    BY <1>3 DEF ParentStep, RunFork, RunForkFails, ParentExits
  <2> QED
    BY <1>0, <1>3, <1>D, <2>1, ParentStepJobs
<1>4. ASSUME NEW j \in Jobs, UpdatePid(j)
      PROVE  Post
  <2>1. /\ disk'.pids = disk.pids /\ disk'.cfd = disk.cfd /\ disk'.cpus = disk.cpus
        /\ disk'.queued = disk.queued
    BY <1>0, <1>4 DEF UpdatePid, CoreschedState
  <2> QED
    BY <1>0, <1>4, <1>Q, <1>B, <2>1, UpdatePidStep
<1>5. ASSUME NEW j \in Jobs, AllocRun(j)
      PROVE  Post
  <2>1. disk'.queued = disk.queued
    <3> DEFINE c == CleanedUp
               t == StartJob(c, j, req[j], Alloc(c, req[j]))
    <3>1. disk' = [t EXCEPT !.pending = Without(t.pending, {j})]
      BY <1>5 DEF AllocRun
    <3>2. c \in CoreschedState(Jobs) /\ c.queued = disk.queued
      BY <1>0, CleanedUpFacts
    <3> HIDE DEF c
    <3>3. t.queued = disk.queued
      BY <3>2 DEF StartJob, CoreschedState
    <3>4. t \in CoreschedState(Jobs)
      BY <1>0, <3>2, AllocIsFree, RequestType, StartJobFacts
    <3> HIDE DEF t
    <3> QED
      BY <3>1, <3>3, <3>4 DEF CoreschedState
  <2> QED
    BY <1>0, <1>5, <1>Q, <2>1, AllocRunStep
<1>6. ASSUME NEW j \in Jobs, AllocWaits(j) \/ Sleep(j)
      PROVE  Post
  <2>1. disk' \in {disk, CleanedUp}
    BY <1>6 DEF AllocWaits, Sleep
  <2>2. Booked' /\ disk'.queued = disk.queued
    BY <1>0, <2>1, CleanedUpFacts DEF Booked
  <2> QED
    BY <1>0, <1>6, <1>Q, <2>2, WaitSteps
<1>7. ASSUME NEW j \in Jobs, GiveUp(j) \/ LaunchPanics(j)
      PROVE  Post
  <2>1. /\ disk'.pids = disk.pids /\ disk'.cfd = disk.cfd /\ disk'.cpus = disk.cpus
        /\ disk'.queued = disk.queued
    BY <1>0, <1>7 DEF GiveUp, LaunchPanics, CoreschedState
  <2> QED
    BY <1>0, <1>7, <1>Q, <1>B, <2>1, ExitSteps
<1>8. ASSUME NEW j \in Jobs, Launch(j) \/ LaunchUnpinned(j)
      PROVE  Post
  BY <1>0, <1>8, <1>D, LaunchStep DEF Launch, LaunchUnpinned
<1>9. ASSUME NEW j \in Jobs, RecordPid(j)
      PROVE  Post
  BY <1>0, <1>9, <1>Q, RecordDisk, RecordPidStep
<1>10. ASSUME NEW j \in Jobs, Reap(j) \/ CmdExits(j)
       PROVE  Post
  BY <1>0, <1>10, <1>D, ReapStep, CmdExitsStep DEF Reap, CmdExits
<1>11. ASSUME NEW j \in Jobs, Free(j)
       PROVE  Post
  <2>1. disk'.queued = disk.queued
    BY <1>0, <1>11, FreeJobsFacts DEF Free, FreeJob
  <2> QED
    BY <1>0, <1>11, <1>Q, <2>1, FreeStep
<1>12. ASSUME NEW p \in Procs, DispatchStep(p)
       PROVE  Post
  BY <1>0, <1>12, <1>D, DispatchTakeStep, DispatchStopsStep, DispatchForkStep,
     DispatchRequeueStep
     DEF DispatchStep, DispatchStops, DispatchFork
<1>13. ASSUME NEW a \in Clients, NEW cores, ReserveCore(a, cores)
       PROVE  Post
  BY <1>0, <1>13, ReserveCoreStep
<1>14. ASSUME NEW p \in Procs, Crash(p)
       PROVE  Post
  <2>1. \A k \in Jobs : Cmd(k) # p
    BY DEF Cmd, Procs
  <2> QED
    BY <1>0, <1>14, <1>D, <2>1, DieStep DEF Crash, Live
<1>15. ASSUME Reboot
       PROVE  Post
  <2> DEFINE D == {p \in Procs : Live(p)} \cup Alive
  <2>1. \A p \in Procs \cap D : pc[p] # "idle"
    BY DEF Alive, Live, Procs, Cmd
  <2>2. \A k \in Jobs : Cmd(k) \in D => cmd[k] \in {"running", "zombie"}
    BY DEF Alive, Procs, Cmd, Wtr
  <2>3. Die(D) /\ UNCHANGED <<disk, req, pin, mask, parent>>
    BY <1>15 DEF Reboot
  <2> HIDE DEF D
  <2> QED
    BY <1>0, <1>D, <2>1, <2>2, <2>3, DieStep
<1>16. ASSUME UNCHANGED vars
       PROVE  Post
  <2>1. \A k \in Jobs : Untouched(k)
    BY <1>16 DEF vars, Untouched, Kept, Moves, CmdMoves, Needed, Books, Occupied
  <2>2. disk.next <= disk'.next /\ req' = req /\ disk' = disk
    BY <1>0, <1>16 DEF vars, TypeOK, StateTypeOK
  <2> QED
    BY <1>0, <1>D, <2>1, <2>2, FrameAll
<1> HIDE DEF Post
<1>17. Post
  BY <1>1, <1>2, <1>3, <1>4, <1>5, <1>6, <1>7, <1>8, <1>9, <1>10, <1>11, <1>12,
     <1>13, <1>14, <1>15, <1>16
     DEF Next, SubmitStep, WaiterStep
<1> QED
  BY <1>0, <1>17 DEF IInvBut, Post

LEMMA StepInvariant == IInv /\ [Next]_vars => IInv'
<1>1. IInv' <=> IInvBut({})'
  BY NobodyExempt, PTL
<1> QED
  BY <1>1, NobodyExempt, StepBut

(* The inductive invariant holds in every run, whatever processes die.     *)
THEOREM Invariant == Spec => []IInv
BY InitInvariant, StepInvariant, PTL DEF Spec

-----------------------------------------------------------------------------
(* What follows from it.                                                   *)

(* The maps of cores and CPUs and the entries of the running jobs agree,   *)
(* and no CPU is given to two of them.                                     *)
THEOREM BookedAlways == Spec => []Booked
<1>1. IInv => Booked
  BY DEF IInv
<1> QED
  BY <1>1, Invariant, PTL

(* No job is in two of the three places of the state file, or twice in the *)
(* queue.                                                                  *)
THEOREM OnePlaceAlways == Spec => []OnePlace
<1>1. IInv => OnePlace
  <2> SUFFICES ASSUME IInv PROVE OnePlace
    OBVIOUS
  <2>1. \A j \in Jobs : WaitingJob(j)
    BY DEF IInv, JobOK
  <2>2. DOMAIN disk.pids \subseteq Jobs /\ DOMAIN disk.pending \subseteq Jobs
    BY CleanedUpFacts, JobMapFacts DEF IInv, CoreschedState
  <2>3. DOMAIN disk.pids \cap DOMAIN disk.pending = {}
    BY <2>1, <2>2 DEF WaitingJob, Occupied
  <2>4. QueuedJobs \cap (DOMAIN disk.pids \cup DOMAIN disk.pending) = {}
    BY <2>1, <2>2 DEF WaitingJob, Occupied
  <2> QED
    BY <2>3, <2>4 DEF OnePlace, IInv, QueuedOnce
<1> QED
  BY <1>1, Invariant, PTL

(* A job in the hands of a dispatcher is in nobody else's, and not started. *)
THEOREM DispatchedOnce == Spec => []DispatchOnce
<1>1. IInv => DispatchOnce
  <2> SUFFICES ASSUME IInv, NEW p \in Procs, NEW j \in taken[p]
               PROVE  /\ j \notin QueuedJobs /\ Occupied(j) /\ pc[Wtr(j)] = "idle"
                      /\ \A q \in Procs \ {p} : j \notin taken[q]
    BY DEF DispatchOnce
  <2>1. j \in Jobs
    BY DEF IInv, TypeOK
  <2> QED
    BY <2>1 DEF IInv, JobOK, TakenJob, Books, Unstarted
<1> QED
  BY <1>1, Invariant, PTL

(* Two commands that run at the same time were assigned different CPUs.    *)
THEOREM IsolationAlways == Spec => []Isolation
<1>1. IInv => Isolation
  <2> SUFFICES ASSUME IInv, NEW i \in Jobs, NEW j \in Jobs, i # j, Running(i), Running(j)
               PROVE  pin[i] \cap pin[j] = {}
    BY DEF Isolation
  <2>1. Books(i, {"none", "cmd"}) /\ Books(j, {"none", "cmd"})
    BY DEF IInv, JobOK, StartedJob, Running
  <2> QED
    BY <2>1 DEF Books, Occupied, IInv, Booked, Consistent, Agree
<1> QED
  BY <1>1, Invariant, PTL
=============================================================================
