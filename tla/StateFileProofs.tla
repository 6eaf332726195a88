-------------------------- MODULE StateFileProofs ---------------------------
(***************************************************************************)
(* The critical section of the state file, for any number of processes and *)
(* failures: what is in state.json is whole, was made from what was there  *)
(* before, and loses or repeats a job only where the code ignores an error. *)
(***************************************************************************)
EXTENDS StateFile, FiniteSetTheorems, TLAPS

-----------------------------------------------------------------------------
(* The inductive invariant.                                                *)

PCs == {"idle", "init", "load", "open", "write", "rename", "unlock", "start", "done", "dead"}
Saving   == {"open", "write", "rename"}
Critical == {"init", "load", "unlock"} \cup Saving

Types ==
  /\ lock \subseteq Procs /\ unlocked \subseteq Procs
  /\ file \in File /\ tmp \in File /\ outputs \subseteq JobIds
  /\ kind \in [Procs -> Kinds] /\ pc \in [Procs -> PCs]
  /\ then \in [Procs -> {"load", "unlock"}]
  /\ mem \in [Procs -> State] /\ fd \in [Procs -> {"none", "tmp", "state"}]
  /\ job \in [Procs -> SUBSET Entry] /\ faults \in Nat
  /\ blind \subseteq Procs /\ unsaved \subseteq Procs
  /\ gone \subseteq Entry /\ forgotten \subseteq Entry /\ exposed \subseteq Entry

(* No id is larger than the number of jobs that were submitted.            *)
Issued == {p \in Procs : kind[p] = "submit" /\ job[p] # {}}
Within(s, n) == s.next <= n + 1 /\ \A e \in Entries(s) : e.jid <= n

Counted ==
  LET n == Cardinality(Issued)
  IN  /\ Within(file.state, n) /\ Within(tmp.state, n)
      /\ \A p \in Procs : Within(mem[p], n) /\ \A e \in job[p] : e.jid <= n
      /\ \A i \in outputs : i <= n

(* Before it has loaded the state a process is not blind, and a submission *)
(* or dispatch has no job.                                                 *)
Unissued ==
  \A p \in Procs :
    pc[p] \in {"idle", "init", "load"} \/ (pc[p] \in Saving /\ then[p] = "load") =>
      p \notin blind /\ (kind[p] \in {"submit", "dispatch"} => job[p] = {})

(* A process works for one job, and reserve-core never starts over.        *)
Plain ==
  \A p \in Procs : /\ \A d, e \in job[p] : d = e
                   /\ p \in blind => kind[p] # "reserve"

(* One process at a time is in its critical section.                       *)
Exclusive ==
  /\ \A p, q \in lock : p = q
  /\ \A p \in Procs : AllLocked /\ pc[p] \in Critical => p \in lock

(* The temporary file is its owner's until it is renamed.                  *)
Files ==
  /\ file.form # "torn" /\ (file.form = "absent" => file.state = Default)
  /\ \A p \in Procs :
       /\ fd[p] # "none" => pc[p] \in {"write", "rename"}
       /\ pc[p] \in {"write", "rename"} => fd[p] = "tmp"
       /\ pc[p] = "rename" => tmp = Whole(mem[p])

(* No two jobs of a state have one id.                                     *)
Unique(s) == \A d, e \in Entries(s) : d.jid = e.jid => d = e

(* Operation k of p makes the state t of the state s, for the job j.       *)
Makes(k, p, s, j, t) ==
  \/ /\ k = "submit"
     /\ \E n \in JobIds :
          /\ n >= s.next /\ n \notin Jids(Entries(s))
          /\ j = {[jid |-> n, by |-> p]}
          /\ t = [s EXCEPT !.queued = @ \cup {[jid |-> n, by |-> p]}, !.next = n + 1]
  \/ /\ k = "dispatch"
     /\ \E e \in s.queued :
          j = {e} /\ t = [s EXCEPT !.queued = @ \ {e}, !.pids = @ \cup {e}]
  \/ k = "free" /\ t = [s EXCEPT !.pids = {x \in @ : x.jid \notin Jids(j)}]
  \/ k = "reserve" /\ t = [s EXCEPT !.reserved = TRUE]

(* What p writes is what its operation makes of the state s ...            *)
Edited(p, s) == Makes(kind[p], p, s, job[p], mem[p])

(* ... which is that of the file, the default state where there is none,   *)
(* or the default state that a blind process has started over from.        *)
Changing ==
  \A p \in Procs : pc[p] \in Saving =>
    \/ then[p] = "load" /\ mem[p] = Default /\ file.form = "absent"
    \/ then[p] = "unlock" /\ Edited(p, file.state)
    \/ then[p] = "unlock" /\ p \in blind /\ Edited(p, Default)

(* An entry was submitted by the process it names, which is through.       *)
Placed(e) ==
  kind[e.by] = "submit" /\ job[e.by] = {e} /\ pc[e.by] \in {"unlock", "done", "dead"}

Origin ==
  /\ Unique(file.state)
  /\ \A e \in Entries(file.state) : Placed(e)
  /\ \A p \in Procs : kind[p] = "dispatch" => \A e \in job[p] : Placed(e)

(* A job that is no longer in the file has an output file, or was exposed. *)
Shown(e) == e.jid \in outputs \/ e \in exposed
HasOutput(p) == \A e \in job[p] : e.jid \in outputs

Traced ==
  /\ \A e \in gone : e.jid \in outputs
  /\ \A e \in forgotten : Shown(e)
  /\ \A p \in Procs :
       /\ kind[p] = "free" => HasOutput(p)
       /\ kind[p] = "dispatch" /\ pc[p] = "done" => HasOutput(p)
       /\ p \in blind /\ pc[p] \in Saving => \A e \in Entries(file.state) : Shown(e)

(* The submissions and dispatches that have not failed.                    *)
Through(p) == /\ p \notin unsaved
              /\ \/ pc[p] \in {"unlock", "start", "done"}
                 \/ pc[p] \in Saving /\ then[p] = "unlock"
Submits(p)    == kind[p] = "submit" /\ Through(p)
Dispatches(p) == kind[p] = "dispatch" /\ Through(p)

KeptJobs ==
  \A p \in Procs :
    Submits(p) /\ pc[p] \notin Saving =>
      job[p] \subseteq Entries(file.state) \cup gone \cup forgotten

FreshJobs ==
  \A p, q \in Procs :
    p # q /\ Submits(p) /\ Submits(q) /\ Jids(job[p]) \cap Jids(job[q]) # {}
      => (job[p] \cup job[q]) \cap exposed # {}

TakenJobs ==
  \A p \in Procs : Dispatches(p) =>
    /\ pc[p] \notin Saving => job[p] \cap file.state.queued = {}
    /\ \A q \in Procs \ {p} : Dispatches(q) => job[p] \cap job[q] = {}

Locked ==
  Files /\ Changing /\ Origin /\ Traced /\ KeptJobs /\ FreshJobs /\ TakenJobs

IInv == Types /\ Counted /\ Unissued /\ Plain /\ Exclusive /\ (AllLocked => Locked)

-----------------------------------------------------------------------------
(* Numbers.                                                                *)

LEMMA LeastFacts ==
  ASSUME NEW S \in SUBSET Nat, S # {}
  PROVE  Least(S) \in S /\ \A k \in S : Least(S) <= k
<1>1. PICK n \in S : \A k \in S : <<k, n>> \notin OpToRel(<, Nat)
  BY WFMin, NatLessThanWellFounded, Zenon
<1>2. \A k \in S : ~(k < n)
  BY <1>1, Zenon DEF OpToRel
<1>3. \A k \in S : n <= k
  BY <1>2
<1> QED
  BY <1>3 DEF Least

LEMMA JobIdsFacts ==
  /\ Cardinality(Procs) \in Nat
  /\ JobIds = 1 .. Cardinality(Procs) + 1
BY StateFileAssumption, FS_CardinalityType DEF JobIds

LEMMA IssuedFacts ==
  /\ IsFiniteSet(Issued) /\ Cardinality(Issued) \in Nat
  /\ Cardinality(Issued) <= Cardinality(Procs)
BY StateFileAssumption, FS_Subset, FS_CardinalityType DEF Issued

(* A process that has not got its job yet is one of those that can still   *)
(* get one, so an id is left for it.                                       *)
LEMMA NextJidFacts ==
  ASSUME Types, Counted, NEW p \in Procs, kind[p] = "submit", job[p] = {},
         NEW s \in State, Within(s, Cardinality(Issued))
  PROVE  LET n == NextJid(s)
         IN  /\ n \in JobIds /\ n >= s.next
             /\ n \notin outputs /\ n \notin Jids(Entries(s))
             /\ n <= Cardinality(Issued) + 1
             /\ Cardinality(Issued \cup {p}) = Cardinality(Issued) + 1
             /\ Cardinality(Issued) + 1 <= Cardinality(Procs)
<1> DEFINE m == Cardinality(Issued)
           Free == {n \in JobIds : n >= s.next} \ (outputs \cup Jids(Entries(s)))
<1>1. m \in Nat /\ Cardinality(Procs) \in Nat /\ JobIds = 1 .. Cardinality(Procs) + 1
  BY IssuedFacts, JobIdsFacts
<1>2. Cardinality(Issued \cup {p}) = m + 1
  BY IssuedFacts, FS_AddElement DEF Issued
<1>3. m + 1 <= Cardinality(Procs)
  <2>1. Issued \cup {p} \subseteq Procs
    BY DEF Issued
  <2> QED
    BY <1>2, <2>1, StateFileAssumption, FS_Subset
<1>4. m + 1 \in Free
  <2>1. m + 1 \notin outputs
    BY <1>1 DEF Counted
  <2>2. m + 1 \notin Jids(Entries(s))
    BY <1>1 DEF Within, Jids
  <2>3. m + 1 >= s.next
    BY <1>1 DEF Within, State
  <2> QED
    BY <1>1, <1>3, <2>1, <2>2, <2>3
<1>5. Free \subseteq Nat
  BY <1>1
<1>6. Least(Free) \in Free /\ Least(Free) <= m + 1
  BY <1>4, <1>5, LeastFacts
<1>7. NextJid(s) = Least(Free)
  BY DEF NextJid
<1> QED
  BY <1>2, <1>3, <1>6, <1>7

-----------------------------------------------------------------------------
(* Types, and how far the ids go.                                          *)

LEMMA DefaultFacts ==
  /\ Default \in State /\ Absent \in File /\ Torn \in File
  /\ Entries(Default) = {} /\ \A n \in Nat : Within(Default, n)
  /\ \A s \in State : Whole(s) \in File
BY JobIdsFacts DEF Default, Absent, Torn, Whole, State, File, Entries, Within

LEMMA InitTypes == Init => Types /\ Counted /\ Unissued
<1> SUFFICES ASSUME Init PROVE Types /\ Counted /\ Unissued
  OBVIOUS
<1>1. Types
  BY DefaultFacts DEF Init, Types, PCs
<1>2. Counted
  BY DefaultFacts, IssuedFacts DEF Init, Counted, Absent
<1>3. Unissued
  BY DEF Init, Unissued
<1> QED
  BY <1>1, <1>2, <1>3

(* What an operation may make of a state, and for which job.               *)
LEMMA EditFacts ==
  ASSUME Types, Counted, NEW p \in Procs, kind[p] = "submit" => job[p] = {},
         NEW s \in State, Within(s, Cardinality(Issued)),
         NEW edit \in Edits(p, s)
  PROVE  /\ edit.state \in State /\ edit.job \in SUBSET Entry
         /\ \E n \in Nat :
              /\ IF kind[p] = "submit"
                 THEN n = Cardinality(Issued \cup {p}) /\ Cardinality(Issued) < n
                 ELSE n = Cardinality(Issued)
              /\ Within(edit.state, n) /\ \A e \in edit.job : e.jid <= n
         /\ kind[p] = "submit" => edit.job # {}
<1> DEFINE n == Cardinality(Issued)
<1>1. n \in Nat /\ Cardinality(Procs) \in Nat /\ JobIds = 1 .. Cardinality(Procs) + 1
  BY IssuedFacts, JobIdsFacts
<1>2. CASE kind[p] = "submit"
  <2> DEFINE i == NextJid(s)
             e == [jid |-> i, by |-> p]
  <2>1. /\ i \in JobIds /\ i <= n + 1 /\ n + 1 <= Cardinality(Procs)
        /\ Cardinality(Issued \cup {p}) = n + 1
    BY <1>2, NextJidFacts
  <2>2. /\ edit.job = {e}
        /\ edit.state = [s EXCEPT !.queued = @ \cup {e}, !.next = i + 1]
    BY <1>2 DEF Edits
  <2>3. e \in Entry
    BY <2>1 DEF Entry
  <2> HIDE DEF i, n
  <2>4. i + 1 \in 1 .. Cardinality(Procs) + 2
    BY <1>1, <2>1
  <2>5. edit.state \in State
    BY <2>2, <2>3, <2>4 DEF State
  <2>6. edit.state.next = i + 1 /\ Entries(edit.state) = Entries(s) \cup {e}
    BY <2>2 DEF State, Entries
  <2>7. \A d \in Entries(s) : d.jid \in Nat /\ d.jid <= n
    BY <1>1 DEF Within, n, State, Entries, Entry
  <2>8. Within(edit.state, n + 1)
    BY <1>1, <2>1, <2>6, <2>7 DEF Within
  <2> QED
    BY <1>1, <1>2, <2>1, <2>2, <2>3, <2>5, <2>8 DEF n
<1>3. CASE kind[p] = "dispatch"
  <2> DEFINE Taken(e) == [s EXCEPT !.queued = @ \ {e},
                                   !.pids = {x \in @ : x.jid # e.jid} \cup {e}]
  <2> HIDE DEF Taken
  <2>0. Edits(p, s) = {[job |-> {e}, state |-> Taken(e)] : e \in s.queued}
    BY <1>3 DEF Edits, Taken
  <2>1. PICK e \in s.queued : edit.job = {e} /\ edit.state = Taken(e)
    BY <2>0
  <2> USE DEF Taken
  <2>2. edit.state \in State /\ edit.job \in SUBSET Entry
    BY <2>1 DEF State
  <2>3. /\ edit.state.next = s.next /\ Entries(edit.state) \subseteq Entries(s)
        /\ edit.job \subseteq Entries(s)
    BY <2>1 DEF State, Entries
  <2> QED
    BY <1>1, <1>3, <2>2, <2>3 DEF Within
<1>4. CASE kind[p] = "free"
  <2>1. /\ edit.job = job[p]
        /\ edit.state = [s EXCEPT !.pids = {x \in @ : x.jid \notin Jids(job[p])}]
    BY <1>4 DEF Edits
  <2>2. edit.state \in State /\ edit.job \in SUBSET Entry
    BY <2>1 DEF State, Types
  <2>3. edit.state.next = s.next /\ Entries(edit.state) \subseteq Entries(s)
    BY <2>1 DEF State, Entries
  <2> QED
    BY <1>1, <1>4, <2>1, <2>2, <2>3 DEF Within, Counted
<1>5. CASE kind[p] = "reserve"
  <2>1. edit.job = {} /\ edit.state = [s EXCEPT !.reserved = TRUE]
    BY <1>5 DEF Edits
  <2>2. edit.state \in State
    BY <2>1 DEF State
  <2>3. edit.state.next = s.next /\ Entries(edit.state) = Entries(s)
    BY <2>1 DEF State, Entries
  <2> QED
    BY <1>1, <1>5, <2>1, <2>2, <2>3 DEF Within
<1> QED
  BY <1>2, <1>3, <1>4, <1>5 DEF Types, Kinds

LEMMA WorkTypes ==
  ASSUME Types, Counted, Unissued, NEW p \in Procs, pc[p] = "load",
         NEW s \in State, Within(s, Cardinality(Issued)), Work(p, s), kind' = kind,
         blind' \in {blind, blind \cup {p}}
  PROVE  /\ mem' \in [Procs -> State] /\ job' \in [Procs -> SUBSET Entry]
         /\ then' \in [Procs -> {"load", "unlock"}] /\ pc' \in [Procs -> PCs]
         /\ Cardinality(Issued)' >= Cardinality(Issued)
         /\ \A q \in Procs : /\ Within(mem'[q], Cardinality(Issued)')
                            /\ \A e \in job'[q] : e.jid <= Cardinality(Issued)'
         /\ Unissued'
<1> DEFINE m == Cardinality(Issued)
<1>0. m \in Nat
  BY IssuedFacts
<1>1. CASE Edits(p, s) = {} /\ Goto(p, "unlock") /\ UNCHANGED <<mem, job, then>>
  <2>1. Issued' = Issued
    BY <1>1 DEF Issued
  <2>2. pc' = [pc EXCEPT ![p] = "unlock"]
    BY <1>1 DEF Goto
  <2>3. Unissued'
    BY <1>1, <2>2 DEF Unissued, Types, Saving
  <2> QED
    BY <1>0, <1>1, <2>1, <2>2, <2>3 DEF Types, Counted, PCs
<1>2. CASE \E edit \in Edits(p, s) :
             /\ mem' = [mem EXCEPT ![p] = edit.state]
             /\ job' = [job EXCEPT ![p] = edit.job]
             /\ then' = [then EXCEPT ![p] = "unlock"]
             /\ Goto(p, "open")
  <2>1. PICK edit \in Edits(p, s) :
             /\ mem' = [mem EXCEPT ![p] = edit.state]
             /\ job' = [job EXCEPT ![p] = edit.job]
             /\ then' = [then EXCEPT ![p] = "unlock"]
             /\ pc' = [pc EXCEPT ![p] = "open"]
    BY <1>2 DEF Goto
  <2>2. kind[p] = "submit" => job[p] = {}
    BY DEF Unissued
  <2>3. /\ edit.state \in State /\ edit.job \in SUBSET Entry
        /\ kind[p] = "submit" => edit.job # {}
    BY <2>2, EditFacts
  <2>4. PICK n \in Nat :
          /\ IF kind[p] = "submit"
             THEN n = Cardinality(Issued \cup {p}) /\ m < n
             ELSE n = m
          /\ Within(edit.state, n) /\ \A e \in edit.job : e.jid <= n
    BY <2>2, EditFacts
  <2>5. Issued' = IF kind[p] = "submit" THEN Issued \cup {p} ELSE Issued
    BY <2>1, <2>3 DEF Issued, Types
  <2>6. Cardinality(Issued') = n
    BY <2>4, <2>5
  <2>7. Cardinality(Issued)' = n /\ m <= n
    BY <1>0, <2>4, <2>6
  <2>8. \A q \in Procs : /\ Within(mem'[q], n)
                        /\ \A e \in job'[q] : e.jid <= n
    <3> SUFFICES ASSUME NEW q \in Procs
                 PROVE  /\ Within(mem'[q], n)
                        /\ \A e \in job'[q] : e.jid <= n
      OBVIOUS
    <3>1. CASE q = p
      BY <3>1, <2>1, <2>4 DEF Types
    <3>2. CASE q # p
      <4>1. Within(mem[q], m) /\ \A e \in job[q] : e.jid <= m
        BY DEF Counted
      <4>2. /\ mem[q].next \in Nat
            /\ \A e \in Entries(mem[q]) \cup job[q] : e.jid \in Nat
        BY JobIdsFacts DEF Types, State, Entry, Entries
      <4>3. Within(mem[q], n) /\ \A e \in job[q] : e.jid <= n
        BY <1>0, <2>7, <4>1, <4>2 DEF Within
      <4> QED
        BY <3>2, <2>1, <4>3 DEF Types
    <3> QED
      BY <3>1, <3>2
  <2>9. Unissued'
    BY <2>1 DEF Unissued, Types, Saving
  <2> QED
    BY <2>1, <2>3, <2>7, <2>8, <2>9 DEF Types, PCs
<1> QED
  BY <1>1, <1>2 DEF Work

(* What the steps that load no state leave as it is.                       *)
LEMMA SameIds ==
  ASSUME Types, Counted, kind' = kind, Issued' = Issued, mem' = mem,
         \A p \in Procs : \A e \in job'[p] : \E q \in Procs : e \in job[q],
         \A s \in {file'.state, tmp'.state} :
            s \in {Default, file.state, tmp.state} \/ \E p \in Procs : s = mem[p],
         \A i \in outputs' : i \in outputs \/ \E p \in Procs : i \in Jids(job[p])
  PROVE  Counted'
<1>1. Cardinality(Issued)' = Cardinality(Issued) /\ Cardinality(Issued) \in Nat
  BY IssuedFacts
<1>2. \A s \in {file'.state, tmp'.state} : Within(s, Cardinality(Issued))
  BY <1>1, DefaultFacts DEF Counted
<1>3. \A i \in outputs' : i <= Cardinality(Issued)
  BY DEF Counted, Jids
<1>4. \A p \in Procs : Within(mem'[p], Cardinality(Issued))
                     /\ \A e \in job'[p] : e.jid <= Cardinality(Issued)
  BY DEF Counted
<1> QED
  BY <1>1, <1>2, <1>3, <1>4 DEF Counted, Within

LEMMA TypeStep == Types /\ Counted /\ Unissued /\ [Next]_vars => (Types /\ Counted /\ Unissued)'
<1> SUFFICES ASSUME Types, Counted, Unissued, [Next]_vars
             PROVE  Types' /\ Counted' /\ Unissued'
  OBVIOUS
<1>0. CASE UNCHANGED vars
  <2>1. UNCHANGED <<lock, file, tmp, outputs, kind, pc, then, mem, fd, job, faults,
                    unlocked, blind, unsaved, gone, forgotten, exposed>>
    BY <1>0 DEF vars
  <2> QED
    BY <2>1 DEF Types, Counted, Unissued, Issued, Within
<1> SUFFICES ASSUME NEW p \in Procs,
                    \/ Lock(p) \/ LockFails(p) \/ InitFile(p) \/ Unlock(p)
                    \/ Load(p) \/ LoadBlindly(p) \/ LoadRefused(p)
                    \/ Open(p) \/ Write(p) \/ Rename(p) \/ SaveFails(p)
                    \/ Start(p) \/ Crash(p)
             PROVE  Types' /\ Counted' /\ Unissued'
  BY <1>0 DEF Next
<1> USE DEF fixed, files, history, Goto
<1>1. CASE Lock(p) \/ LockFails(p)
  <2>1. /\ job' = job \/ (kind[p] = "free" /\ \E e \in Started : job' = [job EXCEPT ![p] = {e}])
        /\ UNCHANGED <<kind, files, outputs, then, mem, history>>
    BY <1>1 DEF Lock, LockFails, Begin
  <2>2. /\ job' \in [Procs -> SUBSET Entry] /\ Issued' = Issued
        /\ \A q \in Procs : \A e \in job'[q] : \E r \in Procs : e \in job[r]
    BY <2>1 DEF Types, Issued, Started
  <2>3. /\ pc' = [pc EXCEPT ![p] = IF kind[p] \in {"submit", "reserve"} THEN "init" ELSE "load"]
        /\ pc[p] = "idle" /\ lock' \in {lock, {p}} /\ unlocked' \subseteq Procs /\ faults' \in Nat
    BY <1>1 DEF Lock, LockFails, Begin, Fault, Types
  <2>4. Types'
    BY <2>1, <2>2, <2>3 DEF Types, PCs
  <2>5. Counted'
    BY <2>1, <2>2, SameIds
  <2>6. Unissued'
    BY <2>1, <2>3 DEF Types, Unissued, Saving
  <2> QED
    BY <2>4, <2>5, <2>6
<1>2. CASE InitFile(p)
  <2>1. Types'
    BY <1>2, DefaultFacts DEF InitFile, Types, PCs
  <2>2. Counted'
    <3>1. Issued' = Issued
      BY <1>2 DEF InitFile, Issued
    <3>2. \A q \in Procs : mem'[q] \in {mem[q], Default}
      BY <1>2 DEF InitFile, Types
    <3>3. Cardinality(Issued)' = Cardinality(Issued) /\ Cardinality(Issued) \in Nat
      BY <3>1, IssuedFacts
    <3> QED
      BY <1>2, <3>2, <3>3, DefaultFacts DEF InitFile, Counted, Within
  <2>3. Unissued'
    BY <1>2 DEF InitFile, Types, Unissued, Saving
  <2> QED
    BY <2>1, <2>2, <2>3
<1>3. CASE Unlock(p)
  <2>1. Types'
    BY <1>3 DEF Unlock, Types, PCs
  <2>2. Issued' = Issued
    BY <1>3 DEF Unlock, Issued
  <2>3. Counted'
    BY <1>3, <2>2, SameIds DEF Unlock
  <2>4. Unissued'
    BY <1>3 DEF Unlock, Types, Unissued, Saving
  <2> QED
    BY <2>1, <2>3, <2>4
<1>4. ASSUME NEW s \in State, Within(s, Cardinality(Issued)), Work(p, s), pc[p] = "load",
             UNCHANGED <<fixed, lock, files, outputs>>, faults' \in Nat,
             blind' \in {blind, blind \cup {p}}, exposed' \subseteq Entry,
             UNCHANGED <<unsaved, gone, forgotten>>
      PROVE  Types' /\ Counted' /\ Unissued'
  <2>1. /\ mem' \in [Procs -> State] /\ job' \in [Procs -> SUBSET Entry]
        /\ then' \in [Procs -> {"load", "unlock"}] /\ pc' \in [Procs -> PCs]
        /\ Cardinality(Issued)' >= Cardinality(Issued)
        /\ \A q \in Procs : /\ Within(mem'[q], Cardinality(Issued)')
                           /\ \A e \in job'[q] : e.jid <= Cardinality(Issued)'
        /\ Unissued'
    BY <1>4, WorkTypes
  <2>2. Types'
    BY <1>4, <2>1 DEF Types
  <2>3. Cardinality(Issued) \in Nat /\ Cardinality(Issued)' \in Nat
    <3>1. Cardinality(Issued)' \in Nat
      <4>1. Issued' \subseteq Procs
        BY DEF Issued
      <4> QED
        BY <4>1, StateFileAssumption, FS_Subset, FS_CardinalityType
    <3> QED
      BY <3>1, IssuedFacts
  <2>4. ASSUME NEW t \in State, Within(t, Cardinality(Issued))
        PROVE  Within(t, Cardinality(Issued)')
    <3>1. t.next \in Nat /\ \A e \in Entries(t) : e.jid \in Nat
      BY JobIdsFacts DEF State, Entries, Entry
    <3> QED
      BY <2>1, <2>3, <2>4, <3>1 DEF Within
  <2>5. Within(file'.state, Cardinality(Issued)') /\ Within(tmp'.state, Cardinality(Issued)')
    <3>1. file.state \in State /\ tmp.state \in State
      BY DEF Types, File
    <3> QED
      BY <1>4, <2>4, <3>1 DEF Counted
  <2>6. \A i \in outputs' : i <= Cardinality(Issued)'
    BY <1>4, <2>1, <2>3, JobIdsFacts DEF Counted, Types
  <2>7. Counted'
    BY <2>1, <2>5, <2>6 DEF Counted, Within
  <2> QED
    BY <2>1, <2>2, <2>7
<1>5. CASE Load(p)
  <2>1. file.state \in State /\ Within(file.state, Cardinality(Issued))
    BY DEF Types, File, Counted
  <2> QED
    BY <1>4, <1>5, <2>1 DEF Load, Types
<1>6. CASE LoadBlindly(p)
  <2>1. faults' \in Nat /\ blind' = blind \cup {p} /\ exposed' \subseteq Entry
    BY <1>6 DEF LoadBlindly, Unreadable, Fault, Types, File, State, Entries
  <2> QED
    BY <1>4, <1>6, <2>1, DefaultFacts, IssuedFacts DEF LoadBlindly
<1>7. CASE LoadRefused(p)
  <2>1. Types'
    BY <1>7 DEF LoadRefused, Unreadable, Fault, Types, PCs
  <2>2. Issued' = Issued
    BY <1>7 DEF LoadRefused, Issued
  <2>3. Counted'
    BY <1>7, <2>2, SameIds DEF LoadRefused
  <2>4. Unissued'
    BY <1>7 DEF LoadRefused, Types, Unissued, Saving
  <2> QED
    BY <2>1, <2>3, <2>4
<1>8. CASE Open(p)
  <2>1. Types'
    BY <1>8, DefaultFacts DEF Open, Types, PCs
  <2>2. Issued' = Issued
    BY <1>8 DEF Open, Issued
  <2>3. Counted'
    BY <1>8, <2>2, SameIds DEF Open, Torn
  <2>4. Unissued'
    BY <1>8 DEF Open, Types, Unissued, Saving
  <2> QED
    BY <2>1, <2>3, <2>4
<1>9. CASE Write(p)
  <2>0. PICK text \in {Whole(mem[p]), Torn} :
          /\ tmp' = IF fd[p] = "tmp" THEN text ELSE tmp
          /\ file' = IF fd[p] = "state" THEN text ELSE file
    BY <1>9 DEF Write
  <2>1. Types'
    BY <1>9, <2>0, DefaultFacts DEF Write, Types, PCs
  <2>2. Issued' = Issued
    BY <1>9 DEF Write, Issued
  <2>3. \A s \in {file'.state, tmp'.state} : s \in {Default, file.state, tmp.state} \/ s = mem[p]
    BY <2>0 DEF Torn, Whole
  <2>4. Counted'
    BY <1>9, <2>2, <2>3, SameIds DEF Write
  <2>5. Unissued'
    BY <1>9 DEF Write, Types, Unissued, Saving
  <2> QED
    BY <2>1, <2>4, <2>5
<1>10. CASE Rename(p)
  <2>1. Types'
    BY <1>10, DefaultFacts DEF Rename, Types, PCs, Overwritten, Removed, Entries, File, State
  <2>2. Issued' = Issued
    BY <1>10 DEF Rename, Issued
  <2>3. Counted'
    BY <1>10, <2>2, SameIds DEF Rename, Absent
  <2>4. Unissued'
    BY <1>10 DEF Rename, Types, Unissued, Saving
  <2> QED
    BY <2>1, <2>3, <2>4
<1>11. CASE SaveFails(p)
  <2>1. Types'
    BY <1>11 DEF SaveFails, Fault, Types, PCs
  <2>2. Issued' = Issued
    BY <1>11 DEF SaveFails, Issued
  <2>3. Counted'
    BY <1>11, <2>2, SameIds DEF SaveFails
  <2>4. Unissued'
    BY <1>11 DEF SaveFails, Types, Unissued, Saving
  <2> QED
    BY <2>1, <2>3, <2>4
<1>12. CASE Start(p)
  <2>1. Types'
    BY <1>12 DEF Start, Types, PCs, Jids, Entry
  <2>2. Issued' = Issued
    BY <1>12 DEF Start, Issued
  <2>3. Counted'
    BY <1>12, <2>2, SameIds DEF Start
  <2>4. Unissued'
    BY <1>12 DEF Start, Types, Unissued, Saving
  <2> QED
    BY <2>1, <2>3, <2>4
<1>13. CASE Crash(p)
  <2>1. Types'
    BY <1>13 DEF Crash, Fault, Types, PCs
  <2>2. Issued' = Issued
    BY <1>13 DEF Crash, Issued
  <2>3. Counted'
    BY <1>13, <2>2, SameIds DEF Crash
  <2>4. Unissued'
    BY <1>13 DEF Crash, Types, Unissued, Saving
  <2> QED
    BY <2>1, <2>3, <2>4
<1> QED
  BY <1>1, <1>2, <1>3, <1>5, <1>6, <1>7, <1>8, <1>9, <1>10, <1>11, <1>12, <1>13

-----------------------------------------------------------------------------
(* Mutual exclusion.                                                       *)

LEMMA WorkGoto ==
  ASSUME NEW p \in Procs, NEW s, Work(p, s)
  PROVE  Goto(p, "open") \/ Goto(p, "unlock")
BY DEF Work

(* A step takes the lock, drops it, or stays inside or outside.            *)
LEMMA LockStep ==
  ASSUME Types, NEW p \in Procs,
         \/ Lock(p) \/ LockFails(p) \/ InitFile(p) \/ Unlock(p)
         \/ Load(p) \/ LoadBlindly(p) \/ LoadRefused(p)
         \/ Open(p) \/ Write(p) \/ Rename(p) \/ SaveFails(p)
         \/ Start(p) \/ Crash(p)
  PROVE  /\ \A q \in Procs \ {p} : pc'[q] = pc[q]
         /\ kind' = kind /\ (AllLocked' => AllLocked /\ ~ LockFails(p))
         /\ \/ lock = {} /\ lock' = {p}
            \/ ~ AllLocked' /\ lock' = lock
            \/ pc'[p] \notin Critical /\ lock' = lock \ {p}
            \/ pc[p] \in Critical /\ pc'[p] \in Critical /\ lock' = lock
            \/ pc[p] = "start" /\ pc'[p] = "done" /\ lock' = lock
<1> USE DEF fixed, Goto, Saving, Critical
<1>0. AllLocked' => AllLocked /\ ~ LockFails(p)
  BY DEF AllLocked, Lock, LockFails, InitFile, Unlock, Load, LoadBlindly, LoadRefused, Open,
         Write, Rename, SaveFails, Start, Crash
<1>1. CASE Lock(p)
  BY <1>0, <1>1 DEF Lock, Begin, Types
<1>13. CASE LockFails(p)
  BY <1>0, <1>13 DEF LockFails, Begin, Types
<1>2. CASE InitFile(p)
  BY <1>0, <1>2 DEF InitFile, Types
<1>3. CASE Unlock(p)
  BY <1>0, <1>3 DEF Unlock, Types
<1>4. CASE Load(p)
  BY <1>0, <1>4, WorkGoto DEF Load, Types
<1>5. CASE LoadBlindly(p)
  BY <1>0, <1>5, WorkGoto DEF LoadBlindly, Types
<1>6. CASE LoadRefused(p)
  BY <1>0, <1>6 DEF LoadRefused, Types
<1>7. CASE Open(p)
  BY <1>0, <1>7 DEF Open, Types
<1>8. CASE Write(p)
  BY <1>0, <1>8 DEF Write, Types
<1>9. CASE Rename(p)
  BY <1>0, <1>9 DEF Rename, Types
<1>10. CASE SaveFails(p)
  BY <1>0, <1>10 DEF SaveFails, Types
<1>11. CASE Start(p)
  BY <1>0, <1>11 DEF Start, Types
<1>12. CASE Crash(p)
  BY <1>0, <1>12 DEF Crash, Types
<1> QED
  BY <1>1, <1>2, <1>3, <1>4, <1>5, <1>6, <1>7, <1>8, <1>9, <1>10, <1>11, <1>12, <1>13

LEMMA ExclusiveStep == Types /\ Exclusive /\ [Next]_vars => Exclusive'
<1> SUFFICES ASSUME Types, Exclusive, [Next]_vars PROVE Exclusive'
  OBVIOUS
<1>1. CASE UNCHANGED vars
  BY <1>1 DEF vars, Exclusive, AllLocked
<1>2. CASE Next
  <2>1. PICK p \in Procs :
          \/ Lock(p) \/ LockFails(p) \/ InitFile(p) \/ Unlock(p)
          \/ Load(p) \/ LoadBlindly(p) \/ LoadRefused(p)
          \/ Open(p) \/ Write(p) \/ Rename(p) \/ SaveFails(p)
          \/ Start(p) \/ Crash(p)
    BY <1>2, Zenon DEF Next
  <2>2. /\ \A q \in Procs \ {p} : pc'[q] = pc[q]
        /\ AllLocked' => AllLocked
        /\ \/ lock = {} /\ lock' = {p}
           \/ ~ AllLocked' /\ lock' = lock
           \/ pc'[p] \notin Critical /\ lock' = lock \ {p}
           \/ pc[p] \in Critical /\ pc'[p] \in Critical /\ lock' = lock
           \/ pc[p] = "start" /\ pc'[p] = "done" /\ lock' = lock
    BY <2>1, LockStep
  <2> QED
    BY <2>2 DEF Exclusive, Critical, Saving
<1> QED
  BY <1>1, <1>2

LEMMA PlainStep == Types /\ Plain /\ [Next]_vars => Plain'
<1> SUFFICES ASSUME Types, Plain, [Next]_vars PROVE Plain'
  OBVIOUS
<1>1. CASE UNCHANGED vars
  BY <1>1 DEF vars, Plain
<1>2. CASE Next
  <2>1. PICK p \in Procs :
          \/ Lock(p) \/ LockFails(p) \/ InitFile(p) \/ Unlock(p)
          \/ Load(p) \/ LoadBlindly(p) \/ LoadRefused(p)
          \/ Open(p) \/ Write(p) \/ Rename(p) \/ SaveFails(p)
          \/ Start(p) \/ Crash(p)
    BY <1>2, Zenon DEF Next
  <2>2. kind' = kind
    BY <2>1, LockStep
  <2>3. blind' = blind \/ (kind[p] # "reserve" /\ blind' = blind \cup {p})
    BY <2>1 DEF Lock, LockFails, Begin, InitFile, Unlock, Load, LoadBlindly, LoadRefused, Open,
                Write, Rename, SaveFails, Start, Crash, history
  <2>4. ASSUME NEW s, Work(p, s)
        PROVE  /\ \A d, e \in job'[p] : d = e
               /\ \A q \in Procs \ {p} : job'[q] = job[q]
    <3>1. CASE job' = job
      BY <3>1 DEF Plain
    <3>2. CASE \E edit \in Edits(p, s) : job' = [job EXCEPT ![p] = edit.job]
      <4>1. PICK edit \in Edits(p, s) : job' = [job EXCEPT ![p] = edit.job]
        BY <3>2
      <4>2. CASE kind[p] = "submit"
        <5>1. edit.job = {[jid |-> NextJid(s), by |-> p]}
          BY <4>2 DEF Edits
        <5> QED
          BY <4>1, <5>1 DEF Types
      <4>3. CASE kind[p] = "dispatch"
        <5> DEFINE Taken(e) == [s EXCEPT !.queued = @ \ {e},
                                         !.pids = {x \in @ : x.jid # e.jid} \cup {e}]
        <5> HIDE DEF Taken
        <5>1. Edits(p, s) = {[job |-> {e}, state |-> Taken(e)] : e \in s.queued}
          BY <4>3 DEF Edits, Taken
        <5>2. PICK e \in s.queued : edit.job = {e}
          BY <5>1
        <5> QED
          BY <4>1, <5>2 DEF Types
      <4>4. CASE kind[p] = "free"
        <5>1. edit.job = job[p]
          BY <4>4 DEF Edits
        <5> QED
          BY <4>1, <5>1 DEF Plain, Types
      <4>5. CASE kind[p] = "reserve"
        <5>1. edit.job = {}
          BY <4>5 DEF Edits
        <5> QED
          BY <4>1, <5>1 DEF Types
      <4> QED
        BY <4>2, <4>3, <4>4, <4>5 DEF Types, Kinds
    <3> QED
      BY <2>4, <3>1, <3>2 DEF Work
  <2>5. /\ \A d, e \in job'[p] : d = e
        /\ \A q \in Procs \ {p} : job'[q] = job[q]
    <3>1. CASE Lock(p) \/ LockFails(p)
      <4>1. job' = job \/ \E e \in Started : job' = [job EXCEPT ![p] = {e}]
        BY <3>1 DEF Lock, LockFails, Begin
      <4> QED
        BY <4>1 DEF Plain, Types
    <3>2. CASE Load(p) \/ LoadBlindly(p)
      <4>1. Work(p, file.state) \/ Work(p, Default)
        BY <3>2 DEF Load, LoadBlindly
      <4> QED
        BY <2>4, <4>1
    <3> QED
      BY <2>1, <3>1, <3>2 DEF InitFile, Unlock, LoadRefused, Open, Write, Rename, SaveFails,
                              Start, Crash, Plain
  <2> QED
    BY <2>2, <2>3, <2>5 DEF Plain
<1> QED
  BY <1>1, <1>2

-----------------------------------------------------------------------------
(* What is in the file, as long as nobody went in without the lock.        *)

(* Nobody else is in a critical section.                                   *)
Alone(p) == \A q \in Procs \ {p} : pc[q] \notin Critical

LEMMA Aloneness ==
  ASSUME Exclusive, AllLocked, NEW p \in Procs,
         pc[p] \in Critical \/ lock = {}
  PROVE  Alone(p)
BY DEF Exclusive, Alone

(* Placed, as long as those who have submitted stay where they are.        *)
LEMMA StillPlaced ==
  ASSUME Types, NEW p \in Procs, kind' = kind,
         \A q \in Procs \ {p} : pc'[q] = pc[q] /\ job'[q] = job[q],
         \/ pc[p] \notin {"unlock", "done", "dead"}
         \/ kind[p] # "submit"
         \/ pc'[p] \in {"unlock", "done", "dead"} /\ job'[p] = job[p]
  PROVE  \A e \in Entry : Placed(e) => Placed(e)'
<1>1. \A e \in Entry : e.by \in Procs
  BY DEF Entry
<1> QED
  BY <1>1 DEF Placed

LEMMA EntriesTyped ==
  Types => /\ file.state \in State /\ Entries(file.state) \subseteq Entry
           /\ \A p \in Procs : job[p] \subseteq Entry
BY DEF Types, File, State, Entries

LEMMA LockKeeps ==
  ASSUME IInv, AllLocked, NEW p \in Procs, Lock(p)
  PROVE  Locked'
<1> USE DEF fixed, files, history, Goto, Saving, Critical
<1>0. Alone(p) /\ Types /\ Locked
  BY Aloneness DEF Lock, IInv
<1>1. /\ job' = job \/ (kind[p] = "free" /\ \E e \in Started : job' = [job EXCEPT ![p] = {e}])
      /\ pc[p] = "idle" /\ pc' = [pc EXCEPT ![p] = pc'[p]] /\ pc'[p] \in {"init", "load"}
      /\ UNCHANGED <<kind, files, outputs, then, mem, history>>
  BY <1>0 DEF Lock, Begin, Types
<1>2. Files'
  BY <1>0, <1>1 DEF Locked, Files, Types
<1>3. Changing'
  BY <1>0, <1>1 DEF Locked, Changing, Types, Alone
<1>4. Origin'
  <2>1. \A e \in Entry : Placed(e) => Placed(e)'
    BY <1>0, <1>1, StillPlaced DEF Types
  <2>2. \A q \in Procs : kind[q] = "dispatch" => job'[q] = job[q]
    BY <1>0, <1>1 DEF Types
  <2> QED
    BY <1>0, <1>1, <2>1, <2>2, EntriesTyped DEF Locked, Origin, Unique
<1>5. Traced'
  <2>1. \A e \in Started : e.jid \in outputs
    BY <1>0 DEF Locked, Traced, HasOutput, Started
  <2>2. \A q \in Procs : HasOutput(q)' \/ (job'[q] = job[q] /\ ~HasOutput(q))
    BY <1>0, <1>1, <2>1 DEF Types, HasOutput
  <2> QED
    BY <1>0, <1>1, <2>2 DEF Locked, Traced, Types, Shown
<1>6. KeptJobs'
  BY <1>0, <1>1 DEF Locked, KeptJobs, Types, Submits, Through
<1>7. FreshJobs'
  BY <1>0, <1>1 DEF Locked, FreshJobs, Types, Submits, Through
<1>8. TakenJobs'
  BY <1>0, <1>1 DEF Locked, TakenJobs, Types, Dispatches, Through
<1> QED
  BY <1>2, <1>3, <1>4, <1>5, <1>6, <1>7, <1>8 DEF Locked

LEMMA StillEdited ==
  ASSUME UNCHANGED <<kind, job, mem, file>>, NEW p \in Procs
  PROVE  /\ Edited(p, file.state)' <=> Edited(p, file.state)
         /\ Edited(p, Default)' <=> Edited(p, Default)
BY DEF Edited

LEMMA StillChanging ==
  ASSUME Changing, UNCHANGED <<kind, job, mem, file, blind, then>>,
         \A q \in Procs : pc'[q] \in Saving => pc[q] \in Saving
  PROVE  Changing'
BY StillEdited DEF Changing

(* A step within a save, or out of the critical section, changes nothing   *)
(* that the others can see.                                                *)
LEMMA QuietKeeps ==
  ASSUME IInv, AllLocked, NEW p \in Procs,
         UNCHANGED <<kind, file, outputs, job, blind, gone, forgotten, exposed>>,
         \A q \in Procs \ {p} : /\ pc'[q] = pc[q] /\ then'[q] = then[q]
                                /\ q \in unsaved' <=> q \in unsaved,
         \/ pc[p] \notin {"unlock", "done", "dead"} \/ kind[p] = "dispatch"
         \/ pc'[p] \in {"unlock", "done", "dead"},
         kind[p] \in {"submit", "dispatch"} /\ Through(p)'
           => Through(p) /\ (pc[p] \in Saving => pc'[p] \in Saving),
         kind[p] = "dispatch" /\ pc'[p] = "done" => HasOutput(p),
         p \in blind /\ pc'[p] \in Saving => \A e \in Entries(file.state) : Shown(e)
  PROVE  Origin' /\ Traced' /\ KeptJobs' /\ FreshJobs' /\ TakenJobs'
<1>0. /\ Types /\ Locked
      /\ kind' = kind /\ file' = file /\ outputs' = outputs /\ job' = job /\ blind' = blind
      /\ gone' = gone /\ forgotten' = forgotten /\ exposed' = exposed
  BY DEF IInv
<1>1. Origin'
  <2>1. \A e \in Entry : Placed(e) => Placed(e)'
    BY <1>0, StillPlaced
  <2> QED
    BY <1>0, <2>1, EntriesTyped DEF Locked, Origin, Unique
<1>2. Traced'
  <2>1. ASSUME NEW q \in Procs
        PROVE  /\ kind[q] = "dispatch" /\ pc'[q] = "done" => HasOutput(q)
               /\ q \in blind /\ pc'[q] \in Saving => \A e \in Entries(file.state) : Shown(e)
    BY <1>0 DEF Locked, Traced
  <2>2. \A q \in Procs : HasOutput(q)' <=> HasOutput(q)
    BY <1>0 DEF HasOutput
  <2>3. \A e : Shown(e)' <=> Shown(e)
    BY <1>0 DEF Shown
  <2> QED
    BY <1>0, <2>1, <2>2, <2>3 DEF Locked, Traced
<1>3. ASSUME NEW q \in Procs, kind[q] \in {"submit", "dispatch"}, Through(q)'
      PROVE  Through(q) /\ (pc[q] \in Saving => pc'[q] \in Saving)
  <2>1. CASE q # p
    BY <1>3, <2>1 DEF Through
  <2>2. CASE q = p
    BY <1>3, <2>2
  <2> QED
    BY <2>1, <2>2
<1>4. KeptJobs'
  BY <1>0, <1>3 DEF Locked, KeptJobs, Submits
<1>5. FreshJobs'
  BY <1>0, <1>3 DEF Locked, FreshJobs, Submits
<1>6. TakenJobs'
  BY <1>0, <1>3 DEF Locked, TakenJobs, Dispatches
<1> QED
  BY <1>1, <1>2, <1>4, <1>5, <1>6

LEMMA InitFileKeeps ==
  ASSUME IInv, AllLocked, NEW p \in Procs, InitFile(p)
  PROVE  Locked'
<1> USE DEF fixed, files, history, Goto, Saving, Critical
<1>0. Alone(p) /\ Types /\ Locked
  BY Aloneness DEF InitFile, IInv
<1>1. Files'
  BY <1>0 DEF InitFile, Locked, Files, Types
<1>2. Changing'
  BY <1>0 DEF InitFile, Locked, Changing, Types, Alone
<1>3. file.form = "absent" => Entries(file.state) = {}
  BY <1>0, DefaultFacts DEF Locked, Files
<1>4. pc'[p] \in Saving => file.form = "absent" /\ then'[p] = "load"
  BY <1>0 DEF InitFile, Types
<1>5. Origin' /\ Traced' /\ KeptJobs' /\ FreshJobs' /\ TakenJobs'
  <2>1. ~Through(p)' /\ pc'[p] # "done"
    BY <1>0, <1>4 DEF InitFile, Types, Through
  <2> QED
    BY <1>0, <1>3, <1>4, <2>1, QuietKeeps DEF InitFile, Types
<1> QED
  BY <1>1, <1>2, <1>5 DEF Locked

LEMMA UnlockKeeps ==
  ASSUME IInv, AllLocked, NEW p \in Procs, Unlock(p)
  PROVE  Locked'
<1> USE DEF fixed, files, history, Goto, Saving, Critical
<1>0. Alone(p) /\ Types /\ Locked
  BY Aloneness DEF Unlock, IInv
<1>1. Files'
  BY <1>0 DEF Unlock, Locked, Files, Types
<1>2. Changing'
  BY <1>0 DEF Unlock, Locked, Changing, Types, Alone
<1>3. pc'[p] \notin Saving /\ (kind[p] = "dispatch" /\ pc'[p] = "done" => HasOutput(p))
  BY <1>0 DEF Unlock, Types, HasOutput
<1>4. Through(p)' => Through(p)
  BY <1>0 DEF Unlock, Types, Through
<1>5. \/ pc[p] \notin {"unlock", "done", "dead"} \/ kind[p] = "dispatch"
      \/ pc'[p] \in {"unlock", "done", "dead"}
  BY <1>0 DEF Unlock, Types
<1>6. Origin' /\ Traced' /\ KeptJobs' /\ FreshJobs' /\ TakenJobs'
  BY <1>0, <1>3, <1>4, <1>5, QuietKeeps DEF Unlock, Types
<1> QED
  BY <1>1, <1>2, <1>6 DEF Locked

LEMMA RefusedKeeps ==
  ASSUME IInv, AllLocked, NEW p \in Procs, LoadRefused(p)
  PROVE  Locked'
<1> USE DEF fixed, files, history, Goto, Saving, Critical
<1>0. Alone(p) /\ Types /\ Locked
  BY Aloneness DEF LoadRefused, IInv
<1>1. Files'
  BY <1>0 DEF LoadRefused, Locked, Files, Types
<1>2. Changing'
  BY <1>0 DEF LoadRefused, Locked, Changing, Types, Alone
<1>3. Origin' /\ Traced' /\ KeptJobs' /\ FreshJobs' /\ TakenJobs'
  BY <1>0, QuietKeeps DEF LoadRefused, Types
<1> QED
  BY <1>1, <1>2, <1>3 DEF Locked

LEMMA OpenKeeps ==
  ASSUME IInv, AllLocked, NEW p \in Procs, Open(p)
  PROVE  Locked'
<1> USE DEF fixed, files, history, Goto, Saving, Critical
<1>0. Alone(p) /\ Types /\ Locked
  BY Aloneness DEF Open, IInv
<1>1. Files'
  BY <1>0 DEF Open, Locked, Files, Types, Alone
<1>2. Changing'
  BY <1>0, StillChanging DEF Open, Locked, Types
<1>3. Through(p)' => Through(p)
  BY <1>0 DEF Open, Types, Through
<1>4. p \in blind => \A e \in Entries(file.state) : Shown(e)
  BY <1>0 DEF Open, Locked, Traced
<1>5. Origin' /\ Traced' /\ KeptJobs' /\ FreshJobs' /\ TakenJobs'
  BY <1>0, <1>3, <1>4, QuietKeeps DEF Open, Types
<1> QED
  BY <1>1, <1>2, <1>5 DEF Locked

LEMMA WriteKeeps ==
  ASSUME IInv, AllLocked, NEW p \in Procs, Write(p)
  PROVE  Locked'
<1> USE DEF fixed, files, history, Goto, Saving, Critical
<1>0. Alone(p) /\ Types /\ Locked
  BY Aloneness DEF Write, IInv
<1>1. file' = file /\ tmp' = Whole(mem[p])
  BY <1>0 DEF Write, Locked, Files
<1>2. Files'
  BY <1>0, <1>1 DEF Write, Locked, Files, Types, Alone
<1>3. Changing'
  BY <1>0, <1>1, StillChanging DEF Write, Locked, Types
<1>4. Through(p)' => Through(p)
  BY <1>0 DEF Write, Types, Through
<1>5. p \in blind => \A e \in Entries(file.state) : Shown(e)
  BY <1>0 DEF Write, Locked, Traced
<1>6. Origin' /\ Traced' /\ KeptJobs' /\ FreshJobs' /\ TakenJobs'
  BY <1>0, <1>1, <1>4, <1>5, QuietKeeps DEF Write, Types
<1> QED
  BY <1>2, <1>3, <1>6 DEF Locked

LEMMA SaveFailsKeeps ==
  ASSUME IInv, AllLocked, NEW p \in Procs, SaveFails(p)
  PROVE  Locked'
<1> USE DEF fixed, files, history, Goto, Saving, Critical
<1>0. Alone(p) /\ Types /\ Locked
  BY Aloneness DEF SaveFails, IInv
<1>1. pc[p] \in Saving /\ pc' = [pc EXCEPT ![p] = pc'[p]] /\ pc'[p] \in {"load", "unlock"}
  BY <1>0 DEF SaveFails, Types
<1>2. Files'
  BY <1>0, <1>1 DEF SaveFails, Locked, Files, Types, Alone
<1>3. Changing'
  BY <1>0, <1>1, StillChanging DEF SaveFails, Locked, Types
<1>4. kind[p] # "reserve" => ~Through(p)'
  BY <1>0 DEF SaveFails, Types, Through
<1>5. Origin' /\ Traced' /\ KeptJobs' /\ FreshJobs' /\ TakenJobs'
  BY <1>0, <1>1, <1>4, QuietKeeps DEF SaveFails, Types
<1> QED
  BY <1>2, <1>3, <1>5 DEF Locked

LEMMA CrashKeeps ==
  ASSUME IInv, AllLocked, NEW p \in Procs, Crash(p)
  PROVE  Locked'
<1> USE DEF fixed, files, history, Goto, Saving, Critical
<1>0. Types /\ Locked
  BY DEF IInv
<1>1. pc' = [pc EXCEPT ![p] = "dead"] /\ fd' = [fd EXCEPT ![p] = "none"]
  BY DEF Crash
<1>2. Files'
  BY <1>0, <1>1 DEF Crash, Locked, Files, Types
<1>3. Changing'
  BY <1>0, <1>1, StillChanging DEF Crash, Locked, Types
<1>4. Origin' /\ Traced' /\ KeptJobs' /\ FreshJobs' /\ TakenJobs'
  BY <1>0, <1>1, QuietKeeps DEF Crash, Types, Through
<1> QED
  BY <1>2, <1>3, <1>4 DEF Locked

LEMMA StartKeeps ==
  ASSUME IInv, AllLocked, NEW p \in Procs, Start(p)
  PROVE  Locked'
<1> USE DEF fixed, files, history, Goto
<1>0. /\ Types /\ Locked /\ outputs' = outputs \cup Jids(job[p])
      /\ pc[p] = "start" /\ pc' = [pc EXCEPT ![p] = "done"]
      /\ kind' = kind /\ file' = file /\ tmp' = tmp /\ fd' = fd /\ then' = then
      /\ mem' = mem /\ job' = job /\ blind' = blind /\ unsaved' = unsaved
      /\ gone' = gone /\ forgotten' = forgotten /\ exposed' = exposed
  BY DEF IInv, Start
<1>1. Files'
  BY <1>0 DEF Locked, Files, Types
<1>2. Changing'
  BY <1>0, StillChanging DEF Locked, Types, Saving
<1>3. Origin'
  <2>1. \A e \in Entry : Placed(e) => Placed(e)'
    BY <1>0, StillPlaced DEF Types
  <2> QED
    BY <1>0, <2>1, EntriesTyped DEF Locked, Origin, Unique
<1>4. Traced'
  <2>1. \A q \in Procs : HasOutput(q) => HasOutput(q)'
    BY <1>0 DEF HasOutput
  <2>2. HasOutput(p)'
    BY <1>0 DEF HasOutput, Jids
  <2>3. \A e : Shown(e) => Shown(e)'
    BY <1>0 DEF Shown
  <2> QED
    BY <1>0, <2>1, <2>2, <2>3 DEF Locked, Traced, Types, Saving
<1>5. \A q \in Procs : /\ Through(q)' => Through(q)
                       /\ pc[q] \in Saving => pc'[q] \in Saving
  BY <1>0 DEF Through, Types, Saving
<1>6. KeptJobs'
  BY <1>0, <1>5 DEF Locked, KeptJobs, Submits
<1>7. FreshJobs'
  BY <1>0, <1>5 DEF Locked, FreshJobs, Submits
<1>8. TakenJobs'
  BY <1>0, <1>5 DEF Locked, TakenJobs, Dispatches
<1> QED
  BY <1>1, <1>2, <1>3, <1>4, <1>6, <1>7, <1>8 DEF Locked

(* What the edits and the operations say of each other.                    *)
LEMMA EditIsEdited ==
  ASSUME IInv, NEW p \in Procs, pc[p] = "load",
         NEW s \in State, Within(s, Cardinality(Issued)), Unique(s),
         NEW edit \in Edits(p, s), kind' = kind, outputs' = outputs,
         mem' = [mem EXCEPT ![p] = edit.state], job' = [job EXCEPT ![p] = edit.job]
  PROVE  /\ Makes(kind[p], p, s, job'[p], mem'[p])
         /\ kind[p] = "submit" => \A e \in job'[p] : e.jid \notin outputs
         /\ kind[p] = "free" => job'[p] = job[p]
<1>0. /\ Types /\ Counted /\ Unissued
      /\ mem'[p] = edit.state /\ job'[p] = edit.job
  BY DEF IInv, Types
<1>1. CASE kind[p] = "submit"
  <2>1. /\ edit.job = {[jid |-> NextJid(s), by |-> p]}
        /\ edit.state = [s EXCEPT !.queued = @ \cup {[jid |-> NextJid(s), by |-> p]},
                                  !.next = NextJid(s) + 1]
    BY <1>1 DEF Edits
  <2>2. job[p] = {}
    BY <1>0, <1>1 DEF Unissued
  <2>3. /\ NextJid(s) \in JobIds /\ NextJid(s) >= s.next
        /\ NextJid(s) \notin outputs /\ NextJid(s) \notin Jids(Entries(s))
    BY <1>0, <1>1, <2>2, NextJidFacts
  <2> DEFINE n == NextJid(s)
  <2> HIDE DEF n
  <2>4. /\ n \in JobIds /\ n >= s.next /\ n \notin Jids(Entries(s)) /\ n \notin outputs
        /\ job'[p] = {[jid |-> n, by |-> p]}
        /\ mem'[p] = [s EXCEPT !.queued = @ \cup {[jid |-> n, by |-> p]}, !.next = n + 1]
    BY <1>0, <2>1, <2>3 DEF n
  <2>5. Makes("submit", p, s, job'[p], mem'[p])
    BY <2>4 DEF Makes
  <2> QED
    BY <1>0, <1>1, <2>4, <2>5
<1>2. CASE kind[p] = "dispatch"
  <2> DEFINE Taken(e) == [s EXCEPT !.queued = @ \ {e},
                                   !.pids = {x \in @ : x.jid # e.jid} \cup {e}]
  <2> HIDE DEF Taken
  <2>1. Edits(p, s) = {[job |-> {e}, state |-> Taken(e)] : e \in s.queued}
    BY <1>2 DEF Edits, Taken
  <2>2. PICK e \in s.queued : edit.job = {e} /\ edit.state = Taken(e)
    BY <2>1
  <2>3. {x \in s.pids : x.jid # e.jid} \cup {e} = s.pids \cup {e}
    BY <2>2 DEF Unique, Entries
  <2>4. edit.state = [s EXCEPT !.queued = @ \ {e}, !.pids = @ \cup {e}]
    BY <2>2, <2>3 DEF Taken, State
  <2> QED
    BY <1>0, <1>2, <2>2, <2>4 DEF Makes
<1>3. CASE kind[p] = "free"
  <2>1. /\ edit.job = job[p]
        /\ edit.state = [s EXCEPT !.pids = {x \in @ : x.jid \notin Jids(job[p])}]
    BY <1>3 DEF Edits
  <2> QED
    BY <1>0, <1>3, <2>1 DEF Makes
<1>4. CASE kind[p] = "reserve"
  <2>1. edit.state = [s EXCEPT !.reserved = TRUE]
    BY <1>4 DEF Edits
  <2> QED
    BY <1>0, <1>4, <2>1 DEF Makes
<1> QED
  BY <1>0, <1>1, <1>2, <1>3, <1>4 DEF Types, Kinds

LEMMA WorkKeeps ==
  ASSUME IInv, AllLocked, NEW p \in Procs, pc[p] = "load",
         NEW s \in State, Within(s, Cardinality(Issued)), Work(p, s),
         UNCHANGED <<kind, file, tmp, fd, outputs, unsaved, gone, forgotten>>,
         exposed \subseteq exposed',
         \/ s = file.state /\ blind' = blind /\ file.form = "whole"
         \/ /\ s = Default /\ blind' = blind \cup {p}
            /\ \A e \in Entries(file.state) : e.jid \in outputs \/ e \in exposed'
  PROVE  Locked'
<1>0. /\ Types /\ Locked /\ Alone(p) /\ Unissued
      /\ kind' = kind /\ file' = file /\ tmp' = tmp /\ fd' = fd /\ outputs' = outputs
      /\ unsaved' = unsaved /\ gone' = gone /\ forgotten' = forgotten
  BY Aloneness DEF IInv, Critical
<1>1. \A q \in Procs \ {p} : pc[q] \notin Saving
  BY <1>0 DEF Alone, Critical
<1>2. /\ pc' = [pc EXCEPT ![p] = pc'[p]] /\ pc'[p] \in {"open", "unlock"}
      /\ job' = [job EXCEPT ![p] = job'[p]]
      /\ then' = [then EXCEPT ![p] = then'[p]]
      /\ mem' = [mem EXCEPT ![p] = mem'[p]]
  BY <1>0 DEF Work, Goto, Types
<1>3. Files'
  BY <1>0, <1>2 DEF Locked, Files, Types
<1>4. Unique(s) /\ s.queued \subseteq Entries(s)
  BY <1>0, DefaultFacts DEF Locked, Origin, Unique, Entries
<1>5. \/ mem' = mem /\ job' = job /\ then' = then /\ pc'[p] = "unlock" /\ Edits(p, s) = {}
      \/ /\ Makes(kind[p], p, s, job'[p], mem'[p]) /\ then'[p] = "unlock" /\ pc'[p] = "open"
         /\ kind[p] = "submit" => \A e \in job'[p] : e.jid \notin outputs
         /\ kind[p] = "free" => job'[p] = job[p]
  <2>1. CASE Edits(p, s) = {} /\ Goto(p, "unlock") /\ UNCHANGED <<mem, job, then>>
    BY <1>0, <2>1 DEF Goto, Types
  <2>2. CASE \E edit \in Edits(p, s) :
               /\ mem' = [mem EXCEPT ![p] = edit.state]
               /\ job' = [job EXCEPT ![p] = edit.job]
               /\ then' = [then EXCEPT ![p] = "unlock"]
               /\ Goto(p, "open")
    <3>1. PICK edit \in Edits(p, s) :
               /\ mem' = [mem EXCEPT ![p] = edit.state]
               /\ job' = [job EXCEPT ![p] = edit.job]
               /\ then' = [then EXCEPT ![p] = "unlock"]
               /\ pc' = [pc EXCEPT ![p] = "open"]
      BY <2>2 DEF Goto
    <3>2. /\ Makes(kind[p], p, s, job'[p], mem'[p])
          /\ kind[p] = "submit" => \A e \in job'[p] : e.jid \notin outputs
          /\ kind[p] = "free" => job'[p] = job[p]
      BY <1>0, <1>4, <3>1, EditIsEdited
    <3> QED
      BY <1>0, <3>1, <3>2 DEF Types
  <2> QED
    BY <2>1, <2>2 DEF Work
<1>6. /\ kind[p] = "submit" =>
           \A e \in job'[p] : e.jid \notin outputs /\ e.jid \notin Jids(Entries(s))
      /\ kind[p] = "dispatch" => job'[p] \subseteq s.queued
      /\ kind[p] = "free" => job'[p] = job[p]
      /\ pc'[p] = "unlock" /\ kind[p] \in {"submit", "dispatch"} => job'[p] = {}
      /\ pc'[p] = "open" => then'[p] = "unlock"
  <2>1. kind[p] \in {"submit", "dispatch"} => job[p] = {}
    BY <1>0 DEF Unissued
  <2>2. CASE Makes(kind[p], p, s, job'[p], mem'[p])
    <3>1. ASSUME kind[p] = "submit"
          PROVE  \A e \in job'[p] : e.jid \notin Jids(Entries(s))
      <4>1. PICK n : n \notin Jids(Entries(s)) /\ job'[p] = {[jid |-> n, by |-> p]}
        BY <2>2, <3>1 DEF Makes
      <4> QED
        BY <4>1
    <3>2. kind[p] = "dispatch" => job'[p] \subseteq s.queued
      BY <2>2 DEF Makes
    <3> QED
      BY <1>5, <2>1, <3>1, <3>2
  <2> QED
    BY <1>5, <2>1, <2>2
<1>7. Changing'
  <2>1. pc'[p] = "open" => Edited(p, file.state)' \/ (p \in blind' /\ Edited(p, Default)')
    BY <1>0, <1>5 DEF Edited
  <2> QED
    BY <1>0, <1>1, <1>2, <1>6, <2>1 DEF Changing, Types, Saving
<1>8. Origin'
  <2>1. \A e \in Entry : Placed(e) => Placed(e)'
    BY <1>0, <1>2, StillPlaced DEF Types
  <2>2. s.queued \subseteq Entries(file.state)
    BY DefaultFacts DEF Entries
  <2>3. \A q \in Procs : kind[q] = "dispatch" =>
          job'[q] \subseteq job[q] \cup Entries(file.state)
    BY <1>0, <1>2, <1>6, <2>2 DEF Types
  <2> QED
    BY <1>0, <2>1, <2>3, EntriesTyped DEF Locked, Origin, Unique
<1>9. Traced'
  <2>1. \A e : Shown(e) => Shown(e)'
    BY <1>0 DEF Shown
  <2>2. \A q \in Procs : kind[q] = "free" \/ (kind[q] = "dispatch" /\ pc'[q] = "done")
                           => HasOutput(q)'
    BY <1>0, <1>2, <1>6 DEF HasOutput, Locked, Traced, Types
  <2>3. ASSUME NEW q \in Procs, q \in blind', pc'[q] \in Saving
        PROVE  \A e \in Entries(file.state) : Shown(e)'
    <3>1. q = p /\ p \in blind' /\ p \notin blind
      BY <1>0, <1>1, <1>2, <2>3 DEF Types, Unissued
    <3> QED
      BY <1>0, <3>1 DEF Shown
  <2> QED
    BY <1>0, <2>1, <2>2, <2>3 DEF Locked, Traced
<1>10. \A q \in Procs \ {p} : /\ job'[q] = job[q] /\ pc'[q] = pc[q]
                              /\ Through(q)' => Through(q) /\ pc[q] \notin Saving
  BY <1>0, <1>1, <1>2 DEF Types, Through
<1>11. KeptJobs'
  BY <1>0, <1>2, <1>6, <1>10 DEF Locked, KeptJobs, Submits, Types, Saving
<1>12. FreshJobs'
  <2>1. ASSUME NEW q \in Procs \ {p}, Submits(q)', NEW e \in job[q], kind[p] = "submit",
               e.jid \in Jids(job'[p])
        PROVE  e \in exposed'
    <3>1. Submits(q) /\ pc[q] \notin Saving
      BY <1>0, <1>10, <2>1 DEF Submits
    <3>2. e \in Entries(file.state) \cup gone \cup forgotten
      BY <1>0, <3>1 DEF Locked, KeptJobs
    <3>3. e.jid \notin outputs /\ e.jid \notin Jids(Entries(s))
      BY <1>6, <2>1 DEF Jids
    <3> QED
      BY <1>0, <3>2, <3>3 DEF Locked, Traced, Shown, Jids
  <2>2. ASSUME NEW q \in Procs \ {p}, Submits(p)', Submits(q)',
               Jids(job'[p]) \cap Jids(job[q]) # {}
        PROVE  job[q] \cap exposed' # {}
    BY <1>0, <2>1, <2>2 DEF Jids, Submits
  <2>3. ASSUME NEW q \in Procs \ {p}, NEW r \in Procs \ {p}, q # r, Submits(q)', Submits(r)',
               Jids(job'[q]) \cap Jids(job'[r]) # {}
        PROVE  (job'[q] \cup job'[r]) \cap exposed' # {}
    <3>1. Submits(q) /\ Submits(r) /\ job'[q] = job[q] /\ job'[r] = job[r]
      BY <1>0, <1>10, <2>3 DEF Submits
    <3> QED
      BY <1>0, <2>3, <3>1 DEF Locked, FreshJobs
  <2> QED
    BY <1>10, <2>2, <2>3 DEF FreshJobs
<1>13. TakenJobs'
  <2>1. \A q \in Procs \ {p} : Dispatches(q)' => Dispatches(q) /\ pc[q] \notin Saving
    BY <1>0, <1>10 DEF Dispatches
  <2>2. ASSUME NEW q \in Procs \ {p}, Dispatches(q)'
        PROVE  /\ pc'[q] \notin Saving => job'[q] \cap file.state.queued = {}
               /\ \A r \in Procs \ {p, q} : Dispatches(r)' => job'[q] \cap job'[r] = {}
    BY <1>0, <1>10, <2>1, <2>2 DEF Locked, TakenJobs
  <2>3. s.queued \subseteq file.state.queued
    BY DefaultFacts DEF Default
  <2>4. ASSUME Dispatches(p)'
        PROVE  /\ pc'[p] \notin Saving => job'[p] = {}
               /\ \A q \in Procs \ {p} : Dispatches(q)' => job'[p] \cap job'[q] = {}
    <3>1. kind[p] = "dispatch" /\ job'[p] \subseteq file.state.queued
      BY <1>0, <1>6, <2>3, <2>4 DEF Dispatches
    <3>2. \A q \in Procs \ {p} : Dispatches(q)' => job'[q] \cap file.state.queued = {}
      BY <1>0, <1>10, <2>1 DEF Locked, TakenJobs
    <3>3. pc'[p] \notin Saving => job'[p] = {}
      BY <1>0, <1>2, <1>6, <3>1 DEF Saving
    <3> QED
      BY <3>1, <3>2, <3>3
  <2> QED
    BY <1>0, <1>10, <2>2, <2>4 DEF TakenJobs
<1> QED
  BY <1>3, <1>7, <1>8, <1>9, <1>11, <1>12, <1>13 DEF Locked

LEMMA LoadKeeps ==
  ASSUME IInv, AllLocked, NEW p \in Procs, Load(p)
  PROVE  Locked'
<1>1. file.state \in State /\ Within(file.state, Cardinality(Issued))
  BY EntriesTyped DEF IInv, Counted
<1> QED
  BY <1>1, WorkKeeps DEF Load, fixed, files, history

LEMMA LoadBlindlyKeeps ==
  ASSUME IInv, AllLocked, NEW p \in Procs, LoadBlindly(p)
  PROVE  Locked'
<1>1. Default \in State /\ Within(Default, Cardinality(Issued))
  BY DefaultFacts, IssuedFacts
<1>2. \A e \in Entries(file.state) : e.jid \in outputs \/ e \in exposed'
  BY DEF LoadBlindly
<1> QED
  BY <1>1, <1>2, WorkKeeps DEF LoadBlindly, fixed, files

(* What an operation adds to the entries and takes away from them.         *)
Brought(k, j)  == IF k = "submit" THEN j ELSE {}
Freed(k, s, j) == IF k = "free" THEN {e \in s.pids : e.jid \in Jids(j)} ELSE {}

LEMMA MakesFacts ==
  ASSUME NEW k \in Kinds, NEW p \in Procs, NEW s \in State, Unique(s),
         NEW j \in SUBSET Entry, NEW t \in State, Makes(k, p, s, j, t)
  PROVE  /\ Entries(t) \subseteq Entries(s) \cup Brought(k, j)
         /\ Entries(s) \subseteq Entries(t) \cup Freed(k, s, j)
         /\ t.queued \subseteq s.queued \cup Brought(k, j)
         /\ k = "dispatch" => j \cap t.queued = {}
         /\ k = "submit" => j \subseteq Entries(t) /\ \E e : j = {e} /\ e.by = p
         /\ Unique(t)
<1> USE DEF Brought, Freed
<1>1. CASE k = "submit"
  <2>1. PICK n \in JobIds :
          /\ n \notin Jids(Entries(s)) /\ j = {[jid |-> n, by |-> p]}
          /\ t = [s EXCEPT !.queued = @ \cup {[jid |-> n, by |-> p]}, !.next = n + 1]
    BY <1>1 DEF Makes
  <2>2. t.queued = s.queued \cup j /\ t.pids = s.pids
    BY <2>1 DEF State
  <2>3. Unique(t)
    BY <2>1, <2>2 DEF Unique, Entries, Jids
  <2> QED
    BY <1>1, <2>1, <2>2, <2>3 DEF Entries
<1>2. CASE k = "dispatch"
  <2>1. PICK e \in s.queued :
          j = {e} /\ t = [s EXCEPT !.queued = @ \ {e}, !.pids = @ \cup {e}]
    BY <1>2 DEF Makes
  <2>2. t.queued = s.queued \ {e} /\ t.pids = s.pids \cup {e}
    BY <2>1 DEF State
  <2>3. Entries(t) = Entries(s)
    BY <2>2 DEF Entries
  <2> QED
    BY <1>2, <2>1, <2>2, <2>3 DEF Unique
<1>3. CASE k = "free"
  <2>1. t = [s EXCEPT !.pids = {x \in @ : x.jid \notin Jids(j)}]
    BY <1>3 DEF Makes
  <2>2. t.queued = s.queued /\ t.pids = {x \in s.pids : x.jid \notin Jids(j)}
    BY <2>1 DEF State
  <2> QED
    BY <1>3, <2>2 DEF Unique, Entries
<1>4. CASE k = "reserve"
  <2>1. t = [s EXCEPT !.reserved = TRUE]
    BY <1>4 DEF Makes
  <2>2. t.queued = s.queued /\ t.pids = s.pids
    BY <2>1 DEF State
  <2> QED
    BY <1>4, <2>2 DEF Unique, Entries
<1> QED
  BY <1>1, <1>2, <1>3, <1>4 DEF Kinds

LEMMA RenameKeeps ==
  ASSUME IInv, AllLocked, NEW p \in Procs, Rename(p)
  PROVE  Locked'
<1>0. /\ Types /\ Locked /\ Alone(p) /\ Unissued
      /\ pc[p] = "rename" /\ tmp = Whole(mem[p]) /\ file' = Whole(mem[p])
      /\ kind' = kind /\ outputs' = outputs /\ mem' = mem /\ job' = job /\ then' = then
      /\ blind' = blind /\ unsaved' = unsaved /\ exposed' = exposed
      /\ pc' = [pc EXCEPT ![p] = then[p]] /\ then[p] \in {"load", "unlock"}
      /\ fd' = [q \in Procs |-> IF q # p /\ fd[q] = "tmp" THEN "state" ELSE "none"]
      /\ forgotten' = forgotten \cup Overwritten(p)
      /\ gone' = gone \cup Removed(p)
  BY Aloneness DEF IInv, Rename, fixed, Goto, Critical, Saving, Locked, Files, Types
<1>1. \A q \in Procs \ {p} : pc[q] \notin Saving /\ pc'[q] = pc[q] /\ pc'[q] \notin Saving
  BY <1>0 DEF Alone, Critical, Types
<1>2. pc'[p] = then[p] /\ pc'[p] \notin Saving /\ pc[p] \in Saving
  BY <1>0 DEF Types, Saving
<1>3. file'.state = mem[p] /\ file'.form = "whole" /\ mem[p] \in State /\ job[p] \subseteq Entry
  BY <1>0 DEF Whole, Types
<1>4. Files'
  BY <1>0, <1>1, <1>2, <1>3 DEF Locked, Files, Types, Saving
<1>5. Changing'
  BY <1>1, <1>2 DEF Changing
<1> DEFINE Added == IF kind[p] = "submit" /\ then[p] = "unlock" THEN job[p] ELSE {}
<1>6. /\ Unique(mem[p])
      /\ Entries(mem[p]) \subseteq Entries(file.state) \cup Added
      /\ Entries(file.state) \subseteq Entries(mem[p]) \cup Overwritten(p) \cup Removed(p)
      /\ mem[p].queued \subseteq file.state.queued \cup Added
      /\ then[p] = "unlock" /\ kind[p] = "dispatch" => job[p] \cap mem[p].queued = {}
      /\ then[p] = "unlock" /\ kind[p] = "submit" =>
           job[p] \subseteq Entries(mem[p]) /\ \E e : job[p] = {e} /\ e.by = p
  <2>0. Default \in State /\ Unique(Default) /\ Entries(Default) = {} /\ Default.queued = {}
    BY DefaultFacts DEF Unique, Default
  <2>1. CASE then[p] = "load" /\ mem[p] = Default /\ file.form = "absent"
    BY <1>0, <2>0, <2>1 DEF Locked, Files
  <2>2. CASE then[p] = "unlock" /\ Edited(p, file.state)
    <3>1. Unique(file.state) /\ file.state \in State /\ kind[p] \in Kinds
      BY <1>0, EntriesTyped DEF Locked, Origin, Types
    <3>2. Makes(kind[p], p, file.state, job[p], mem[p])
      BY <2>2 DEF Edited
    <3>3. Freed(kind[p], file.state, job[p]) = Removed(p)
      BY DEF Removed, Freed
    <3>4. /\ Entries(mem[p]) \subseteq Entries(file.state) \cup Brought(kind[p], job[p])
          /\ Entries(file.state) \subseteq Entries(mem[p]) \cup Freed(kind[p], file.state, job[p])
          /\ mem[p].queued \subseteq file.state.queued \cup Brought(kind[p], job[p])
          /\ kind[p] = "dispatch" => job[p] \cap mem[p].queued = {}
          /\ kind[p] = "submit" =>
               job[p] \subseteq Entries(mem[p]) /\ \E e : job[p] = {e} /\ e.by = p
          /\ Unique(mem[p])
      BY <1>3, <3>1, <3>2, MakesFacts
    <3> QED
      BY <2>2, <3>3, <3>4 DEF Brought
  <2>3. CASE then[p] = "unlock" /\ p \in blind /\ Edited(p, Default)
    <3>1. kind[p] \in Kinds
      BY <1>0 DEF Types
    <3>2. Makes(kind[p], p, Default, job[p], mem[p])
      BY <2>3 DEF Edited
    <3>3. Entries(file.state) \subseteq Entries(mem[p]) \cup Overwritten(p)
      BY <2>3 DEF Overwritten
    <3>4. /\ Entries(mem[p]) \subseteq Entries(Default) \cup Brought(kind[p], job[p])
          /\ Entries(Default) \subseteq Entries(mem[p]) \cup Freed(kind[p], Default, job[p])
          /\ mem[p].queued \subseteq Default.queued \cup Brought(kind[p], job[p])
          /\ kind[p] = "dispatch" => job[p] \cap mem[p].queued = {}
          /\ kind[p] = "submit" =>
               job[p] \subseteq Entries(mem[p]) /\ \E e : job[p] = {e} /\ e.by = p
          /\ Unique(mem[p])
      BY <1>3, <2>0, <3>1, <3>2, MakesFacts
    <3> QED
      BY <2>0, <2>3, <3>3, <3>4 DEF Brought
  <2> QED
    BY <1>0, <1>2, <2>1, <2>2, <2>3 DEF Locked, Changing
<1>7. ASSUME NEW e \in Entry, Placed(e) PROVE Placed(e)' /\ e.by # p
  <2>1. e.by # p
    BY <1>0, <1>7 DEF Placed
  <2> QED
    BY <1>0, <1>1, <1>7, <2>1 DEF Placed, Entry
<1>8. \A e \in Added : Placed(e)'
  BY <1>0, <1>2, <1>6 DEF Placed
<1>9. Origin'
  BY <1>0, <1>3, <1>6, <1>7, <1>8, EntriesTyped DEF Locked, Origin, Unique
<1>10. Traced'
  <2>1. \A e \in Removed(p) : e.jid \in outputs
    <3>1. kind[p] = "free" => HasOutput(p)
      BY <1>0 DEF Locked, Traced
    <3> QED
      BY <3>1 DEF Removed, HasOutput, Jids
  <2>2. \A e \in Overwritten(p) : Shown(e)
    BY <1>0, <1>2 DEF Locked, Traced, Overwritten
  <2>3. \A e : Shown(e)' <=> Shown(e)
    BY <1>0 DEF Shown
  <2>4. \A q \in Procs : HasOutput(q)' <=> HasOutput(q)
    BY <1>0 DEF HasOutput
  <2>5. \A q \in Procs : pc'[q] = "done" => pc[q] = "done"
    BY <1>0, <1>1, <1>2
  <2> QED
    BY <1>0, <1>1, <1>2, <2>1, <2>2, <2>3, <2>4, <2>5 DEF Locked, Traced
<1>11. \A q \in Procs : /\ Through(q)' => Through(q)
                        /\ Through(q)' /\ q = p => then[p] = "unlock"
  BY <1>0, <1>1, <1>2 DEF Through, Saving
<1>12. KeptJobs'
  <2>1. ASSUME NEW q \in Procs, Submits(q)'
        PROVE  job[q] \subseteq Entries(mem[p]) \cup gone' \cup forgotten'
    <3>1. CASE q = p
      BY <1>0, <1>6, <1>11, <2>1, <3>1 DEF Submits
    <3>2. CASE q # p
      <4>1. job[q] \subseteq Entries(file.state) \cup gone \cup forgotten
        BY <1>0, <1>1, <1>11, <2>1, <3>2 DEF Submits, Locked, KeptJobs
      <4> QED
        BY <1>0, <1>6, <4>1
    <3> QED
      BY <3>1, <3>2
  <2> QED
    BY <1>0, <1>3, <2>1 DEF KeptJobs
<1>13. FreshJobs'
  BY <1>0, <1>11 DEF Locked, FreshJobs, Submits
<1>14. TakenJobs'
  <2>1. ASSUME NEW q \in Procs, Dispatches(q)'
        PROVE  job[q] \cap mem[p].queued = {}
    <3>1. Dispatches(q)
      BY <1>0, <1>11, <2>1 DEF Dispatches
    <3>2. CASE q = p
      BY <1>6, <1>11, <2>1, <3>1, <3>2 DEF Dispatches
    <3>3. CASE q # p
      <4>1. job[q] \cap file.state.queued = {}
        BY <1>0, <1>1, <3>1, <3>3 DEF Locked, TakenJobs
      <4>2. \A e \in job[q] : e.by # p
        BY <1>0, <1>7, <3>1, EntriesTyped DEF Locked, Origin, Dispatches
      <4>3. \A e \in Added : e.by = p
        BY <1>6
      <4> QED
        BY <1>6, <4>1, <4>2, <4>3
    <3> QED
      BY <3>2, <3>3
  <2>2. \A q \in Procs : Dispatches(q)' => Dispatches(q)
    BY <1>0, <1>11 DEF Dispatches
  <2> QED
    BY <1>0, <1>3, <2>1, <2>2 DEF Locked, TakenJobs
<1> QED
  BY <1>4, <1>5, <1>9, <1>10, <1>12, <1>13, <1>14 DEF Locked

-----------------------------------------------------------------------------
(* The theorems.                                                           *)

LEMMA InitInv == Init => IInv
<1> SUFFICES ASSUME Init PROVE IInv
  OBVIOUS
<1>1. Types /\ Counted /\ Unissued
  <2>1. Types /\ Counted
    BY InitTypes
  <2> QED
    BY <2>1 DEF Init, Unissued
<1>2. Plain /\ Exclusive
  BY DEF Init, Plain, Exclusive, Critical, Saving
<1>3. Locked
  <2> USE DEF Init, Saving
  <2>1. file = Absent /\ Entries(file.state) = {} /\ file.form = "absent" /\ file.state = Default
    BY DefaultFacts DEF Absent
  <2>2. \A p \in Procs : pc[p] = "idle" /\ fd[p] = "none" /\ job[p] = {}
    OBVIOUS
  <2>3. Files /\ Changing
    BY <2>1, <2>2 DEF Files, Changing
  <2>4. Origin /\ Traced
    BY <2>1, <2>2 DEF Origin, Unique, Traced, HasOutput
  <2>5. KeptJobs /\ FreshJobs /\ TakenJobs
    BY <2>2 DEF KeptJobs, FreshJobs, TakenJobs, Submits, Dispatches, Through
  <2> QED
    BY <2>3, <2>4, <2>5 DEF Locked
<1> QED
  BY <1>1, <1>2, <1>3 DEF IInv

LEMMA StepInv == IInv /\ [Next]_vars => IInv'
<1> SUFFICES ASSUME IInv, [Next]_vars PROVE IInv'
  OBVIOUS
<1>1. Types' /\ Counted' /\ Unissued' /\ Plain' /\ Exclusive'
  BY TypeStep, PlainStep, ExclusiveStep DEF IInv
<1>2. ASSUME AllLocked' PROVE Locked'
  <2>1. CASE UNCHANGED vars
    <3>1. Locked
      BY <1>2, <2>1 DEF vars, IInv, AllLocked
    <3>2. Files'
      BY <2>1, <3>1 DEF vars, Locked, Files
    <3>9. Origin'
      <4>1. \A e : Placed(e)' <=> Placed(e)
        BY <2>1 DEF vars, Placed
      <4> QED
        BY <2>1, <3>1, <4>1 DEF vars, Locked, Origin
    <3>8. Changing'
      BY <2>1, <3>1, StillChanging DEF vars, Locked
    <3>3. Traced'
      BY <2>1, <3>1 DEF vars, Locked, Traced, Shown, HasOutput
    <3>4. \A p \in Procs : (Submits(p)' <=> Submits(p)) /\ (Dispatches(p)' <=> Dispatches(p))
      BY <2>1 DEF vars, Submits, Dispatches, Through
    <3>5. KeptJobs'
      BY <2>1, <3>1, <3>4 DEF vars, Locked, KeptJobs
    <3>6. FreshJobs'
      BY <2>1, <3>1, <3>4 DEF vars, Locked, FreshJobs
    <3>7. TakenJobs'
      BY <2>1, <3>1, <3>4 DEF vars, Locked, TakenJobs
    <3> QED
      BY <3>1, <3>2, <3>3, <3>5, <3>6, <3>7, <3>8, <3>9 DEF Locked
  <2>2. CASE Next
    <3>1. PICK p \in Procs :
            \/ Lock(p) \/ LockFails(p) \/ InitFile(p) \/ Unlock(p)
            \/ Load(p) \/ LoadBlindly(p) \/ LoadRefused(p)
            \/ Open(p) \/ Write(p) \/ Rename(p) \/ SaveFails(p)
            \/ Start(p) \/ Crash(p)
      BY <2>2, Zenon DEF Next
    <3>2. AllLocked /\ ~ LockFails(p)
      BY <1>2, <3>1, LockStep DEF IInv
    <3> QED
      BY <3>1, <3>2, LockKeeps, InitFileKeeps, UnlockKeeps, LoadKeeps, LoadBlindlyKeeps,
         RefusedKeeps, OpenKeeps, WriteKeeps, RenameKeeps, SaveFailsKeeps, StartKeeps, CrashKeeps
  <2> QED
    BY <2>1, <2>2
<1> QED
  BY <1>1, <1>2 DEF IInv

LEMMA Invariant == Spec => []IInv
BY InitInv, StepInv, PTL DEF Spec

(* The files and what every process holds have their types, and the lock   *)
(* is held by one process at a time (with_lock, src/state.rs).             *)
THEOREM TypeCorrect == Spec => []TypeOK
<1>1. IInv => TypeOK
  <2> SUFFICES ASSUME IInv PROVE TypeOK
    OBVIOUS
  <2>1. IsFiniteSet(lock) /\ Cardinality(lock) <= 1
    <3>1. CASE lock = {}
      BY <3>1, FS_EmptySet
    <3>2. CASE lock # {}
      <4>1. PICK p : p \in lock
        BY <3>2
      <4>2. lock = {p}
        BY <4>1 DEF IInv, Exclusive
      <4>3. IsFiniteSet({p}) /\ Cardinality({p}) = 1
        BY FS_Singleton
      <4> QED
        BY <4>2, <4>3
    <3> QED
      BY <3>1, <3>2
  <2> QED
    BY <2>1 DEF IInv, Types, TypeOK
<1> QED
  BY <1>1, Invariant, PTL

(* No reader ever finds half a state, whoever is killed and whatever fails *)
(* (save_to_disk writes to a temporary file and renames it).               *)
THEOREM NeverTornCorrect == Spec => []NeverTorn
<1>1. IInv => NeverTorn
  BY DEF IInv, Locked, Files, NeverTorn
<1> QED
  BY <1>1, Invariant, PTL

(* A job that cmd_enqueue has acknowledged is lost only if its save failed *)
(* or a process that could not read the file started over.                 *)
THEOREM KeptCorrect == Spec => []Kept
<1>1. IInv => Kept
  BY DEF IInv, Locked, KeptJobs, Submits, Through, Saving, Kept, Submitted
<1> QED
  BY <1>1, Invariant, PTL

(* next_jid gives an id twice only if the first job was lost before its    *)
(* output file existed.                                                    *)
THEOREM FreshIdsCorrect == Spec => []FreshIds
<1>1. IInv => FreshIds
  BY DEF IInv, Locked, FreshJobs, Submits, Through, FreshIds, Submitted
<1> QED
  BY <1>1, Invariant, PTL

(* Two dispatchers start one queued job only if one of them could not save *)
(* that it took it (dispatch_queued_jobs, src/main.rs).                    *)
THEOREM StartedOnceCorrect == Spec => []StartedOnce
<1>1. IInv => StartedOnce
  BY DEF IInv, Locked, TakenJobs, Dispatches, Through, StartedOnce
<1> QED
  BY <1>1, Invariant, PTL

-----------------------------------------------------------------------------
(* The file is the store.                                                  *)

LEMMA SameFile ==
  ASSUME IInv, AllLocked, NEW p \in Procs,
         \/ Lock(p) \/ LockFails(p) \/ InitFile(p) \/ Unlock(p)
         \/ Load(p) \/ LoadBlindly(p) \/ LoadRefused(p)
         \/ Open(p) \/ Write(p) \/ SaveFails(p)
         \/ Start(p) \/ Crash(p)
  PROVE  file' = file
<1>1. CASE Write(p)
  BY <1>1 DEF Write, IInv, Locked, Files
<1> QED
  BY <1>1 DEF Lock, LockFails, Begin, InitFile, Unlock, Load, LoadBlindly, LoadRefused, Open, SaveFails,
              Start, Crash, files

LEMMA MakesApply ==
  ASSUME NEW k, NEW p \in Procs, NEW s \in State, Unique(s),
         NEW j \in SUBSET Entry, \A d, e \in j : d = e, NEW t, Makes(k, p, s, j, t)
  PROVE  /\ k = "submit" => t \in Store!Submitted(s)
         /\ k = "dispatch" => t \in Store!Dispatched(s)
         /\ k = "free" => t \in Store!Freed(s)
         /\ k = "reserve" => t \in Store!Reserved(s)
<1>1. ASSUME k = "submit" PROVE t \in Store!Submitted(s)
  <2>1. PICK n \in JobIds :
          /\ n >= s.next /\ n \notin Jids(Entries(s)) /\ j = {[jid |-> n, by |-> p]}
          /\ t = [s EXCEPT !.queued = @ \cup {[jid |-> n, by |-> p]}, !.next = n + 1]
    BY <1>1 DEF Makes
  <2> DEFINE e == [jid |-> n, by |-> p]
  <2>2. e \in Entry /\ e.jid = n /\ e \notin Entries(s)
    BY <2>1 DEF Entry, Jids
  <2>3. t = [s EXCEPT !.queued = @ \cup {e}, !.next = e.jid + 1]
    BY <2>1, <2>2
  <2> QED
    BY <2>1, <2>2, <2>3 DEF Store!Submitted, Store!Entries, Entries
<1>2. ASSUME k = "dispatch" PROVE t \in Store!Dispatched(s)
  BY <1>2 DEF Makes, Store!Dispatched
<1>3. ASSUME k = "free" PROVE t \in Store!Freed(s)
  <2>1. t = [s EXCEPT !.pids = {x \in @ : x.jid \notin Jids(j)}]
    BY <1>3 DEF Makes
  <2>2. CASE \E e \in s.pids : e.jid \in Jids(j)
    <3>1. PICK e \in s.pids : e.jid \in Jids(j)
      BY <2>2
    <3>2. \A d \in s.pids : d.jid \in Jids(j) => d = e
      BY <3>1 DEF Jids, Unique, Entries
    <3>3. {x \in s.pids : x.jid \notin Jids(j)} = s.pids \ {e}
      BY <3>1, <3>2
    <3> QED
      BY <2>1, <3>1, <3>3 DEF Store!Freed, State
  <2>3. CASE \A e \in s.pids : e.jid \notin Jids(j)
    <3>1. {x \in s.pids : x.jid \notin Jids(j)} = s.pids
      BY <2>3
    <3>2. t = s
      BY <2>1, <3>1 DEF State
    <3> QED
      BY <3>2 DEF Store!Freed
  <2> QED
    BY <2>2, <2>3
<1>4. ASSUME k = "reserve" PROVE t \in Store!Reserved(s)
  BY <1>4 DEF Makes, Store!Reserved
<1> QED
  BY <1>1, <1>2, <1>3, <1>4

LEMMA StepStore == IInv /\ [Next]_vars => [Store!Next]_<<file.state, AllLocked>>
<1> SUFFICES ASSUME IInv, [Next]_vars PROVE [Store!Next]_<<file.state, AllLocked>>
  OBVIOUS
<1>1. CASE UNCHANGED vars
  BY <1>1 DEF vars, AllLocked
<1>2. CASE Next
  <2>1. PICK p \in Procs :
          \/ Lock(p) \/ LockFails(p) \/ InitFile(p) \/ Unlock(p)
          \/ Load(p) \/ LoadBlindly(p) \/ LoadRefused(p)
          \/ Open(p) \/ Write(p) \/ Rename(p) \/ SaveFails(p)
          \/ Start(p) \/ Crash(p)
    BY <1>2, Zenon DEF Next
  <2>2. AllLocked' \in BOOLEAN /\ (AllLocked' => AllLocked)
    BY <2>1, LockStep DEF IInv, AllLocked
  <2>3. CASE ~ AllLocked
    BY <2>2, <2>3 DEF Store!Next, Store!LockFails, AllLocked
  <2>4. CASE AllLocked /\ ~ Rename(p)
    BY <2>1, <2>2, <2>4, SameFile DEF Store!Next, Store!LockFails, AllLocked
  <2>5. CASE AllLocked /\ Rename(p)
    <3>0. AllLocked' = AllLocked
      BY <2>5 DEF Rename, fixed, AllLocked
    <3>1. /\ Types /\ Plain /\ Locked /\ kind[p] \in Kinds /\ job[p] \in SUBSET Entry
          /\ file'.state = mem[p] /\ pc[p] \in Saving /\ \A d, e \in job[p] : d = e
      BY <2>5 DEF IInv, Types, Rename, Locked, Files, Whole, Saving, Plain
    <3>2. CASE then[p] = "load" /\ mem[p] = Default /\ file.form = "absent"
      BY <3>0, <3>1, <3>2 DEF Locked, Files
    <3>3. CASE Edited(p, file.state)
      <4>1. file.state \in State /\ Unique(file.state)
        BY <3>1, EntriesTyped DEF Locked, Origin
      <4>2. Makes(kind[p], p, file.state, job[p], mem[p])
        BY <3>3 DEF Edited
      <4>3. Store!Apply
        BY <3>1, <4>1, <4>2, MakesApply DEF Store!Apply, Kinds
      <4> QED
        BY <3>0, <4>3 DEF Store!Next
    <3>4. CASE p \in blind /\ Edited(p, Default)
      <4>1. Default \in State /\ Unique(Default) /\ Default.queued = {}
        BY DefaultFacts DEF Unique, Default
      <4>2. Makes(kind[p], p, Default, job[p], mem[p])
        BY <3>4 DEF Edited
      <4>3. kind[p] \in {"submit", "free"}
        <5>1. kind[p] # "reserve"
          BY <3>1, <3>4 DEF Plain
        <5>2. kind[p] # "dispatch"
          BY <4>1, <4>2 DEF Makes
        <5> QED
          BY <3>1, <5>1, <5>2 DEF Kinds
      <4>4. Store!StartOver
        BY <3>1, <4>1, <4>2, <4>3, MakesApply DEF Store!StartOver
      <4> QED
        BY <3>0, <4>4 DEF Store!Next
    <3> QED
      BY <3>1, <3>2, <3>3, <3>4 DEF Locked, Changing
  <2> QED
    BY <2>3, <2>4, <2>5
<1> QED
  BY <1>1, <1>2

(* Load, edit, save and rename under the lock is one atomic operation on   *)
(* the state, or one that starts over (with_lock, load_from_disk and       *)
(* save_to_disk, src/state.rs): every step is one of StateStore or changes *)
(* nothing that it sees.                                                   *)
THEOREM RefinesStore == Spec => ImplementsStore
<1>1. Init => Store!Init
  BY DEF Init, Store!Init, Absent, AllLocked
<1> QED
  BY <1>1, Invariant, StepStore, PTL DEF Spec, Store!Spec, ImplementsStore
=============================================================================
