-------------------------- MODULE CoreschedProofs ---------------------------
(***************************************************************************)
(* Facts about the allocation engine, for every topology and every state;  *)
(* type correctness of Coresched, for every number of jobs and set of      *)
(* faults; and the facts about its steps that other proofs use.            *)
(***************************************************************************)
EXTENDS Coresched, SequenceTheorems, FiniteSetTheorems, TLAPS

(* The type of a state as a set, which the proofs find easier to use.      *)
JobMap(J) == UNION {[D -> EntryOf(J)] : D \in SUBSET J}
CoreschedState(J) ==
  [cfd : SUBSET Cores, cpus : SUBSET Cpus, pids : JobMap(J), pending : JobMap(J),
   queued : Seq(EntryOf(J)), reserved : SUBSET Cores, next : Nat]

LEMMA StateType ==
  ASSUME NEW J, NEW s
  PROVE  StateTypeOK(s, J) <=> s \in CoreschedState(J)
<1>1. ASSUME StateTypeOK(s, J)
      PROVE  s \in CoreschedState(J)
  <2>1. s.pids \in JobMap(J) /\ s.pending \in JobMap(J)
    BY <1>1 DEF StateTypeOK, JobMap
  <2>2. /\ s.cfd \subseteq Cores /\ s.cpus \subseteq Cpus /\ s.reserved \subseteq Cores
        /\ s.queued \in Seq(EntryOf(J)) /\ s.next \in Nat
    BY <1>1 DEF StateTypeOK
  <2>3. s = [cfd |-> s.cfd, cpus |-> s.cpus, pids |-> s.pids, pending |-> s.pending,
             queued |-> s.queued, reserved |-> s.reserved, next |-> s.next]
    BY <1>1 DEF StateTypeOK
  <2> QED
    BY <2>1, <2>2, <2>3 DEF CoreschedState
<1>2. ASSUME s \in CoreschedState(J)
      PROVE  StateTypeOK(s, J)
  <2>1. /\ \E D \in SUBSET J : s.pids \in [D -> EntryOf(J)]
        /\ \E D \in SUBSET J : s.pending \in [D -> EntryOf(J)]
    BY <1>2 DEF CoreschedState, JobMap
  <2> QED
    BY <1>2, <2>1 DEF StateTypeOK, CoreschedState
<1> QED
  BY <1>1, <1>2

LEMMA HeldInCpus ==
  ASSUME NEW e, e.cores \subseteq Cores, e.cpus \subseteq Cpus
  PROVE  Held(e) \subseteq Cpus
BY TopologyAssumption DEF Held, CpusOf, LogicalCpus

(* Different cores have different CPUs.                                    *)
LEMMA DisjointCores ==
  ASSUME NEW C \in SUBSET Cores, NEW D \in SUBSET Cores, C \cap D = {}
  PROVE  CpusOf(C) \cap CpusOf(D) = {}
<1> SUFFICES ASSUME NEW x \in CpusOf(C), x \in CpusOf(D)
             PROVE  FALSE
  OBVIOUS
<1>1. PICK c \in C : x \in LogicalCpus(c)
  BY DEF CpusOf
<1>2. PICK d \in D : x \in LogicalCpus(d)
  BY DEF CpusOf
<1> QED
  BY <1>1, <1>2, TopologyAssumption

(* A level's own core is not forbidden to it.                              *)
LEMMA OwnIsAllowed ==
  ASSUME NEW p \in Priorities
  PROVE  /\ PriorityExclusiveCore(p) \subseteq Cores
         /\ ForbiddenCores(p) \subseteq Cores
         /\ PriorityExclusiveCore(p) \cap ForbiddenCores(p) = {}
BY TopologyAssumption DEF PriorityExclusiveCore, ForbiddenCores, Priorities, Cores

(* What Alloc picks is free, and allowed to the level.                     *)
LEMMA AllocIsFree ==
  ASSUME NEW s, NEW r, r.priority \in Priorities
  PROVE  /\ Alloc(s, r).cores \subseteq Cores
         /\ Alloc(s, r).cpus \subseteq Cpus
         /\ Held(Alloc(s, r)) \cap s.cpus = {}
         /\ Held(Alloc(s, r)) \cap ForbiddenCpus(r.priority) = {}
<1> DEFINE p == r.priority
           g == Alloc(s, r)
<1>0. /\ PriorityExclusiveCore(p) \subseteq Cores
      /\ ForbiddenCores(p) \subseteq Cores
      /\ PriorityExclusiveCore(p) \cap ForbiddenCores(p) = {}
  BY OwnIsAllowed
<1>1. CASE r.type = "cfd"
  <2>1. g.cpus = {} /\ g.cores \subseteq FreeCores(s, p)
    BY <1>1 DEF Alloc, AllocCfdForPriority, TakeFirst
  <2>2. FreeCores(s, p) \subseteq Cores /\ FreeCores(s, p) \cap ForbiddenCores(p) = {}
    BY <1>0 DEF FreeCores, EligiblePhysicalCores
  <2>3. CpusOf(FreeCores(s, p)) \cap s.cpus = {}
    BY DEF FreeCores, PhysicalCoreIsFree, CpusOf
  <2>4. CpusOf(g.cores) \cap ForbiddenCpus(p) = {}
    BY <1>0, <2>1, <2>2, DisjointCores DEF ForbiddenCpus
  <2>5. CpusOf(g.cores) \subseteq CpusOf(FreeCores(s, p))
    BY <2>1 DEF CpusOf
  <2> QED
    BY <2>1, <2>2, <2>3, <2>4, <2>5 DEF Held
<1>2. CASE r.type # "cfd"
  <2>1. g.cores = {} /\ g.cpus \subseteq FreeCpus(s, p)
    BY <1>2 DEF Alloc, AllocPyForPriority, TakeFirst
  <2>2. CpusOf(PriorityExclusiveCore(p)) \cap ForbiddenCpus(p) = {}
    BY <1>0, DisjointCores DEF ForbiddenCpus
  <2>3. CpusOf(PriorityExclusiveCore(p)) \subseteq Cpus
    BY <1>0, TopologyAssumption DEF CpusOf, LogicalCpus
  <2>4. FreeCpus(s, p) \subseteq Cpus \ (s.cpus \cup ForbiddenCpus(p))
    BY <2>2, <2>3 DEF FreeCpus, EligibleCpus
  <2>5. Held(g) = g.cpus
    BY <2>1 DEF Held, CpusOf
  <2> QED
    BY <2>1, <2>4, <2>5
<1> QED
  BY <1>1, <1>2

-----------------------------------------------------------------------------
(* The operators of the state keep its type.                               *)

LEMMA JobMapFacts ==
  ASSUME NEW J, NEW map \in JobMap(J)
  PROVE  /\ DOMAIN map \subseteq J
         /\ \A j \in DOMAIN map : map[j] \in EntryOf(J)
BY DEF JobMap

LEMMA JobMapIntro ==
  ASSUME NEW J, NEW D \in SUBSET J, NEW map \in [D -> EntryOf(J)]
  PROVE  map \in JobMap(J)
BY DEF JobMap

LEMMA WithoutFacts ==
  ASSUME NEW J, NEW map \in JobMap(J), NEW D
  PROVE  /\ Without(map, D) \in JobMap(J)
         /\ DOMAIN Without(map, D) = DOMAIN map \ D
         /\ \A j \in DOMAIN map \ D : Without(map, D)[j] = map[j]
<1>1. Without(map, D) = [j \in DOMAIN map \ D |-> map[j]]
  BY DEF Without, Restrict
<1>2. Without(map, D) \in [DOMAIN map \ D -> EntryOf(J)]
  BY <1>1, JobMapFacts
<1>3. DOMAIN map \ D \in SUBSET J
  BY JobMapFacts
<1> QED
  BY <1>1, <1>2, <1>3, JobMapIntro

LEMMA InsertFacts ==
  ASSUME NEW J, NEW map \in JobMap(J), NEW j \in J, NEW e \in EntryOf(J)
  PROVE  /\ Insert(map, j, e) \in JobMap(J)
         /\ DOMAIN Insert(map, j, e) = DOMAIN map \cup {j}
         /\ Insert(map, j, e)[j] = e
         /\ \A k \in DOMAIN map \ {j} : Insert(map, j, e)[k] = map[k]
<1>1. Insert(map, j, e) \in [DOMAIN map \cup {j} -> EntryOf(J)]
  BY JobMapFacts DEF Insert
<1>2. DOMAIN map \cup {j} \in SUBSET J
  BY JobMapFacts
<1> QED
  BY <1>1, <1>2, JobMapIntro DEF Insert

Recorded(map, j, pid) == [map EXCEPT ![j].pid = pid]

(* Recording a pid changes nothing else of an entry.                       *)
LEMMA RecordFacts ==
  ASSUME NEW J, NEW map \in JobMap(J), NEW j \in DOMAIN map, NEW pid \in PidKinds
  PROVE  LET m == Recorded(map, j, pid)
         IN  /\ m \in JobMap(J)
             /\ DOMAIN m = DOMAIN map
             /\ m[j] = [map[j] EXCEPT !.pid = pid] /\ m[j].pid = pid
             /\ \A k \in DOMAIN map \ {j} : m[k] = map[k]
             /\ \A k \in DOMAIN map : /\ m[k].cores = map[k].cores
                                      /\ Held(m[k]) = Held(map[k])
                                      /\ m[k].priority = map[k].priority
<1> DEFINE e == [map[j] EXCEPT !.pid = pid]
           m == [map EXCEPT ![j] = e]
<1>1. map[j] \in EntryOf(J)
  BY JobMapFacts
<1>2. /\ e \in EntryOf(J) /\ e.pid = pid
      /\ e.cores = map[j].cores /\ e.cpus = map[j].cpus /\ e.priority = map[j].priority
  BY <1>1 DEF EntryOf
<1> HIDE DEF e
<1>3. PICK D \in SUBSET J : map \in [D -> EntryOf(J)]
  BY DEF JobMap
<1>4. m \in [D -> EntryOf(J)] /\ DOMAIN m = D /\ DOMAIN map = D
      /\ m[j] = e /\ \A k \in D \ {j} : m[k] = map[k]
  BY <1>2, <1>3
<1> HIDE DEF m
<1>5. m \in JobMap(J)
  BY <1>4 DEF JobMap
<1>6. \A k \in DOMAIN map : /\ m[k].cores = map[k].cores
                           /\ Held(m[k]) = Held(map[k])
                           /\ m[k].priority = map[k].priority
  BY <1>2, <1>4 DEF Held
<1> QED
  BY <1>2, <1>4, <1>5, <1>6 DEF Recorded, m, e

(* free_job and its like: type, and what becomes of every field.           *)
LEMMA FreeJobsFacts ==
  ASSUME NEW J, NEW s \in CoreschedState(J), NEW D
  PROVE  LET f == FreeJobs(s, D)
         IN  /\ f \in CoreschedState(J)
             /\ DOMAIN f.pids = DOMAIN s.pids \ D
             /\ \A j \in DOMAIN s.pids \ D : f.pids[j] = s.pids[j]
             /\ f.pending = s.pending /\ f.queued = s.queued
             /\ f.reserved = s.reserved /\ f.next = s.next
<1>1. s.pids \in JobMap(J)
  BY DEF CoreschedState
<1>2. FreeJobs(s, D).pids = Without(s.pids, D)
  BY DEF FreeJobs, CoreschedState
<1>3. FreeJobs(s, D) \in CoreschedState(J)
  BY <1>1, WithoutFacts DEF FreeJobs, CoreschedState
<1>4. /\ FreeJobs(s, D).pending = s.pending /\ FreeJobs(s, D).queued = s.queued
      /\ FreeJobs(s, D).reserved = s.reserved /\ FreeJobs(s, D).next = s.next
  BY DEF FreeJobs, CoreschedState
<1>5. /\ DOMAIN Without(s.pids, D) = DOMAIN s.pids \ D
      /\ \A j \in DOMAIN s.pids \ D : Without(s.pids, D)[j] = s.pids[j]
  BY DEF Without, Restrict
<1> QED
  BY <1>2, <1>3, <1>4, <1>5

(* Freeing jobs keeps the books.                                           *)
LEMMA FreeJobsConsistent ==
  ASSUME NEW J, NEW s \in CoreschedState(J), NEW D, Consistent(s)
  PROVE  Consistent(FreeJobs(s, D))
<1> DEFINE f == FreeJobs(s, D)
           E == D \cap DOMAIN s.pids
<1>0. /\ DOMAIN f.pids = DOMAIN s.pids \ D
      /\ \A j \in DOMAIN s.pids \ D : f.pids[j] = s.pids[j]
  BY FreeJobsFacts
<1>1. /\ f.cfd = s.cfd \ UNION {s.pids[j].cores : j \in E}
      /\ f.cpus = s.cpus \ UNION {Held(s.pids[j]) : j \in E}
  BY DEF FreeJobs, CoreschedState
<1>2. ASSUME NEW i \in DOMAIN s.pids, NEW j \in DOMAIN s.pids, i # j
      PROVE  /\ Held(s.pids[i]) \cap Held(s.pids[j]) = {}
             /\ s.pids[i].cores \cap s.pids[j].cores = {}
  <2>1. Held(s.pids[i]) \cap Held(s.pids[j]) = {}
    BY <1>2 DEF Consistent, Agree
  <2>2. \A c : c \in s.pids[i].cores => LogicalCpus(c) \subseteq Held(s.pids[i])
    BY DEF Held, CpusOf
  <2>3. \A c : c \in s.pids[j].cores => LogicalCpus(c) \subseteq Held(s.pids[j])
    BY DEF Held, CpusOf
  <2> QED
    BY <2>1, <2>2, <2>3 DEF LogicalCpus
<1> HIDE DEF f
<1>3. f.cfd = UNION {f.pids[j].cores : j \in DOMAIN f.pids}
  BY <1>0, <1>1, <1>2 DEF Consistent, Agree
<1>4. f.cpus = UNION {Held(f.pids[j]) : j \in DOMAIN f.pids}
  BY <1>0, <1>1, <1>2 DEF Consistent, Agree
<1> QED
  BY <1>0, <1>2, <1>3, <1>4 DEF Consistent, Agree, f

(* Starting a job: type, and what becomes of every field.                  *)
LEMMA StartJobFacts ==
  ASSUME NEW J, NEW s \in CoreschedState(J), NEW j \in J,
         NEW r, r.type \in JobTypes, r.need \in 0 .. 255, r.priority \in Priorities,
         NEW g, g.cores \subseteq Cores, g.cpus \subseteq Cpus
  PROVE  LET t == StartJob(s, j, r, g)
             e == JobEntry(j, r, "none", g)
         IN  /\ e \in EntryOf(J)
             /\ t \in CoreschedState(J)
             /\ DOMAIN t.pids = DOMAIN s.pids \cup {j}
             /\ t.pids[j] = e
             /\ \A k \in DOMAIN s.pids \ {j} : t.pids[k] = s.pids[k]
             /\ t.pending = s.pending /\ t.queued = s.queued
             /\ t.reserved = s.reserved /\ t.next = s.next
<1> DEFINE t == StartJob(s, j, r, g)
           e == JobEntry(j, r, "none", g)
<1>1. e \in EntryOf(J)
  BY DEF JobEntry, EntryOf, PidKinds
<1>2. s.pids \in JobMap(J)
  BY DEF CoreschedState
<1>3. t.pids = Insert(s.pids, j, e)
  BY DEF StartJob, CoreschedState
<1>4. t \in CoreschedState(J)
  BY <1>1, <1>2, InsertFacts, HeldInCpus DEF StartJob, CoreschedState
<1>5. /\ t.pending = s.pending /\ t.queued = s.queued
      /\ t.reserved = s.reserved /\ t.next = s.next
  BY DEF StartJob, CoreschedState
<1> HIDE DEF t, e
<1>6. /\ DOMAIN Insert(s.pids, j, e) = DOMAIN s.pids \cup {j}
      /\ Insert(s.pids, j, e)[j] = e
      /\ \A k \in DOMAIN s.pids \ {j} : Insert(s.pids, j, e)[k] = s.pids[k]
  BY <1>1, <1>2, InsertFacts
<1> QED
  BY <1>1, <1>3, <1>4, <1>5, <1>6 DEF t, e

(* Starting a job that has no entry, on resources that are free, keeps them. *)
LEMMA StartJobConsistent ==
  ASSUME NEW J, NEW s \in CoreschedState(J), Consistent(s),
         NEW j \in J, j \notin DOMAIN s.pids,
         NEW r, r.type \in JobTypes, r.need \in 0 .. 255, r.priority \in Priorities,
         NEW g, g.cores \subseteq Cores, g.cpus \subseteq Cpus,
         Held(g) \cap s.cpus = {}
  PROVE  Consistent(StartJob(s, j, r, g))
<1> DEFINE t == StartJob(s, j, r, g)
           e == JobEntry(j, r, "none", g)
<1>1. /\ DOMAIN t.pids = DOMAIN s.pids \cup {j}
      /\ t.pids[j] = e
      /\ \A k \in DOMAIN s.pids : t.pids[k] = s.pids[k]
  BY StartJobFacts
<1>2. t.cfd = s.cfd \cup g.cores /\ t.cpus = s.cpus \cup Held(g)
  BY DEF StartJob, CoreschedState
<1>3. e.cores = g.cores /\ Held(e) = Held(g)
  BY DEF JobEntry, Held
<1>4. t.cfd = UNION {t.pids[k].cores : k \in DOMAIN t.pids}
  BY <1>1, <1>2, <1>3 DEF Consistent, Agree
<1>5. t.cpus = UNION {Held(t.pids[k]) : k \in DOMAIN t.pids}
  BY <1>1, <1>2, <1>3 DEF Consistent, Agree
<1>6. \A k \in DOMAIN s.pids : Held(s.pids[k]) \cap Held(g) = {}
  BY DEF Consistent, Agree
<1>7. \A i, k \in DOMAIN t.pids : i # k => Held(t.pids[i]) \cap Held(t.pids[k]) = {}
  BY <1>1, <1>3, <1>6 DEF Consistent, Agree
<1> QED
  BY <1>4, <1>5, <1>7 DEF Consistent, Agree

(* orphan_cleanup: jobs with a dead process leave both maps.               *)
LEMMA CleanupFacts ==
  ASSUME NEW J, NEW s \in CoreschedState(J), NEW alive
  PROVE  LET c == OrphanCleanup(s, alive)
         IN  /\ c \in CoreschedState(J)
             /\ DOMAIN c.pids = DOMAIN s.pids \ DeadIn(s.pids, alive)
             /\ \A j \in DOMAIN c.pids : c.pids[j] = s.pids[j]
             /\ DOMAIN c.pending = DOMAIN s.pending \ DeadIn(s.pending, alive)
             /\ \A j \in DOMAIN c.pending : c.pending[j] = s.pending[j]
             /\ c.queued = s.queued /\ c.next = s.next
             /\ Consistent(s) => Consistent(c)
<1> DEFINE f == FreeJobs(s, DeadIn(s.pids, alive))
           c == OrphanCleanup(s, alive)
           dead == DeadIn(s.pending, alive)
<1>1. /\ f \in CoreschedState(J)
      /\ DOMAIN f.pids = DOMAIN s.pids \ DeadIn(s.pids, alive)
      /\ \A j \in DOMAIN s.pids \ DeadIn(s.pids, alive) : f.pids[j] = s.pids[j]
      /\ f.pending = s.pending /\ f.queued = s.queued /\ f.next = s.next
  BY FreeJobsFacts
<1>2. s.pending \in JobMap(J)
  BY DEF CoreschedState
<1>3. c = [f EXCEPT !.pending = Without(s.pending, dead)]
  BY <1>1 DEF OrphanCleanup
<1> HIDE DEF f, c, dead
<1>4. c \in CoreschedState(J)
  BY <1>1, <1>2, <1>3, WithoutFacts DEF CoreschedState
<1>5. /\ c.pids = f.pids /\ c.queued = f.queued /\ c.next = f.next
      /\ c.cfd = f.cfd /\ c.cpus = f.cpus
      /\ c.pending = Without(s.pending, dead)
  BY <1>1, <1>3 DEF CoreschedState
<1>6. /\ DOMAIN Without(s.pending, dead) = DOMAIN s.pending \ dead
      /\ \A j \in DOMAIN s.pending \ dead : Without(s.pending, dead)[j] = s.pending[j]
  BY DEF Without, Restrict
<1>7. Consistent(s) => Consistent(f)
  BY FreeJobsConsistent DEF f
<1>8. Consistent(s) => Consistent(c)
  BY <1>5, <1>7 DEF Consistent
<1> QED
  BY <1>1, <1>4, <1>5, <1>6, <1>8 DEF c, dead

-----------------------------------------------------------------------------
(* How much is allocated.                                                  *)

LEMMA UpTo ==
  ASSUME NEW n \in Nat
  PROVE  IsFiniteSet(0 .. n - 1) /\ Cardinality(0 .. n - 1) = n
<1>1. 0 \in Int /\ n - 1 \in Int
  OBVIOUS
<1>2. /\ IsFiniteSet(0 .. n - 1)
      /\ Cardinality(0 .. n - 1) = IF 0 > n - 1 THEN 0 ELSE (n - 1) - 0 + 1
  BY ONLY <1>1, FS_Interval, Zenon
<1> QED
  BY <1>2

(* The order of the eligible lists is strict and total.                    *)
LEMMA BeforeOrders ==
  ASSUME NEW own, NEW x \in Int, NEW y \in Int, NEW z \in Int
  PROVE  /\ ~ Before(own, x, x)
         /\ Before(own, x, y) /\ Before(own, y, z) => Before(own, x, z)
         /\ x # y => Before(own, x, y) \/ Before(own, y, x)
<1>1. ~ Before(own, x, x)
  BY DEF Before
<1>2. Before(own, x, y) /\ Before(own, y, z) => Before(own, x, z)
  <2>1. CASE x \in own
    BY <2>1 DEF Before
  <2>2. CASE x \notin own
    BY <2>2 DEF Before
  <2> QED
    BY <2>1, <2>2
<1>3. x # y => Before(own, x, y) \/ Before(own, y, x)
  BY DEF Before
<1> QED
  BY <1>1, <1>2, <1>3

(* The first n elements of a finite list are n.  The number of elements    *)
(* before it numbers the elements from 0 on, each with a number of its own. *)
LEMMA TakeFirstSize ==
  ASSUME NEW free \in SUBSET Int, IsFiniteSet(free), NEW own,
         NEW n \in Nat, n <= Cardinality(free)
  PROVE  Cardinality(TakeFirst(free, own, n)) = n
<1> DEFINE m == Cardinality(free)
           Below(x) == {y \in free : Before(own, y, x)}
           rank == [x \in free |-> Cardinality(Below(x))]
           first == TakeFirst(free, own, n)
<1>1. m \in Nat
  BY FS_CardinalityType
<1>2. ASSUME NEW x \in free
      PROVE  IsFiniteSet(Below(x)) /\ rank[x] \in 0 .. m - 1
  <2>1. Below(x) \subseteq free \ {x}
    BY BeforeOrders
  <2>2. IsFiniteSet(free \ {x}) /\ Cardinality(free \ {x}) = m - 1
    BY FS_RemoveElement
  <2> HIDE DEF Below
  <2>3. IsFiniteSet(Below(x)) /\ Cardinality(Below(x)) <= m - 1
    BY <2>1, <2>2, FS_Subset
  <2>4. Cardinality(Below(x)) \in Nat
    BY <2>3, FS_CardinalityType
  <2> QED
    BY <1>1, <2>3, <2>4
<1>3. ASSUME NEW x \in free, NEW y \in free, Before(own, x, y)
      PROVE  rank[x] < rank[y]
  <2>1. Below(x) \subseteq Below(y) /\ x \in Below(y) /\ x \notin Below(x)
    BY <1>3, BeforeOrders
  <2> HIDE DEF Below
  <2>2. /\ Cardinality(Below(x)) <= Cardinality(Below(y))
        /\ Cardinality(Below(x)) # Cardinality(Below(y))
    BY <1>2, <2>1, FS_Subset
  <2>3. Cardinality(Below(x)) \in Nat /\ Cardinality(Below(y)) \in Nat
    BY <1>2, FS_CardinalityType
  <2> QED
    BY <2>2, <2>3
<1>4. first = {x \in free : rank[x] < n}
  BY DEF TakeFirst
<1>5. \A x \in free : rank[x] \in 0 .. m - 1
  BY <1>2
<1>6. DOMAIN rank = free
  OBVIOUS
<1> HIDE DEF rank
<1>7. rank \in Injection(free, 0 .. m - 1)
  <2>1. rank \in [free -> 0 .. m - 1]
    BY <1>5, <1>6, Zenon DEF rank
  <2>2. ASSUME NEW x \in free, NEW y \in free, rank[x] = rank[y]
        PROVE  x = y
    <3>1. CASE Before(own, x, y)
      BY <1>3, <1>5, <2>2, <3>1
    <3>2. CASE Before(own, y, x)
      BY <1>3, <1>5, <2>2, <3>2
    <3> QED
      BY <3>1, <3>2, BeforeOrders
  <2> QED
    BY <2>1, <2>2 DEF Injection, IsInjective
<1>8. rank \in Surjection(free, 0 .. m - 1)
  <2>1. IsFiniteSet(0 .. m - 1) /\ Cardinality(0 .. m - 1) = m
    BY <1>1, UpTo
  <2> QED
    BY <1>7, <2>1, FS_Injection
<1> DEFINE f == [x \in first |-> rank[x]]
<1>9. f \in Bijection(first, 0 .. n - 1)
  <2>1. f \in [first -> 0 .. n - 1]
    <3>1. \A x \in first : rank[x] \in 0 .. n - 1
      <4> SUFFICES ASSUME NEW x \in first PROVE rank[x] \in 0 .. n - 1
        OBVIOUS
      <4>1. x \in free /\ rank[x] < n
        BY <1>4
      <4>2. rank[x] \in Nat
        BY <1>5, <4>1
      <4> QED
        BY <4>1, <4>2
    <3> QED
      BY <3>1
  <2>2. \A x, y \in first : f[x] = f[y] => x = y
    BY <1>4, <1>7 DEF Injection, IsInjective
  <2>3. \A k \in 0 .. n - 1 : \E x \in first : f[x] = k
    <3> SUFFICES ASSUME NEW k \in 0 .. n - 1
                 PROVE  \E x \in first : f[x] = k
      OBVIOUS
    <3>1. k \in 0 .. m - 1
      BY <1>1
    <3>2. PICK x \in free : rank[x] = k
      BY <1>8, <3>1 DEF Surjection
    <3> QED
      BY <1>4, <3>2
  <2> QED
    BY <2>1, <2>2, <2>3 DEF Bijection, Injection, Surjection, IsInjective
<1> HIDE DEF f
<1>10. IsFiniteSet(first) /\ IsFiniteSet(0 .. n - 1) /\ Cardinality(0 .. n - 1) = n
  BY <1>4, FS_Subset, UpTo
<1>11. Cardinality(0 .. n - 1) = Cardinality(first)
  BY <1>9, <1>10, FS_Bijection DEF ExistsBijection
<1> QED
  BY <1>10, <1>11

(* A count that is cast to a u8 only gets smaller.                         *)
LEMMA CastIsLess ==
  ASSUME NEW n \in Nat
  PROVE  U8(n) \in Nat /\ U8(n) <= n
BY DEF U8

(* The free resources are finite, and a subset of all.                     *)
LEMMA FreeFacts ==
  ASSUME NEW s, NEW p \in Priorities
  PROVE  /\ FreeCores(s, p) \in SUBSET Int /\ IsFiniteSet(FreeCores(s, p))
         /\ FreeCpus(s, p) \in SUBSET Int /\ IsFiniteSet(FreeCpus(s, p))
<1>1. FreeCores(s, p) \subseteq Cores
  BY DEF FreeCores, EligiblePhysicalCores, PriorityExclusiveCore
<1>2. FreeCpus(s, p) \subseteq Cpus
  BY TopologyAssumption
     DEF FreeCpus, EligibleCpus, CpusOf, LogicalCpus, PriorityExclusiveCore, Cores
<1>3. IsFiniteSet(Cores) /\ Cores \subseteq Int
  <2>1. IsFiniteSet(Cores)
    BY TopologyAssumption, UpTo, Zenon DEF Cores
  <2> QED
    BY <2>1 DEF Cores
<1>4. IsFiniteSet(Cpus) /\ Cpus \subseteq Int
  <2>1. Cpus \in SUBSET (0 .. 255)
    BY TopologyAssumption
  <2>2. IsFiniteSet(0 .. 255)
    <3>1. 0 \in Int /\ 255 \in Int
      OBVIOUS
    <3> QED
      BY ONLY <3>1, FS_Interval, Zenon
  <2>3. IsFiniteSet(Cpus)
    BY <2>1, <2>2, FS_Subset
  <2> QED
    BY <2>1, <2>3
<1> QED
  BY <1>1, <1>2, <1>3, <1>4, FS_Subset

Amount(e) == Cardinality(IF e.type = "cfd" THEN e.cores ELSE e.cpus)

(* Who is admitted by needed_for gets what he asked for.                   *)
LEMMA AllocIsFull ==
  ASSUME NEW s, NEW r, r.priority \in Priorities, r.need \in 0 .. 255,
         NeededForPriority(s, r) = 0, NEW j
  PROVE  Amount(JobEntry(j, r, "none", Alloc(s, r))) = r.need
<1> DEFINE free == IF r.type = "cfd" THEN FreeCores(s, r.priority)
                                     ELSE FreeCpus(s, r.priority)
           own  == IF r.type = "cfd" THEN PriorityExclusiveCore(r.priority)
                                     ELSE CpusOf(PriorityExclusiveCore(r.priority))
<1>1. free \in SUBSET Int /\ IsFiniteSet(free)
  BY FreeFacts
<1>2. NeededForPriority(s, r) = IF r.need > U8(Cardinality(free))
                                THEN r.need - U8(Cardinality(free)) ELSE 0
  BY DEF NeededForPriority
<1>3. Amount(JobEntry(j, r, "none", Alloc(s, r))) = Cardinality(TakeFirst(free, own, r.need))
  BY DEF Amount, JobEntry, Alloc, AllocCfdForPriority, AllocPyForPriority
<1> HIDE DEF free, own
<1>4. Cardinality(free) \in Nat
  BY <1>1, FS_CardinalityType
<1>5. r.need <= Cardinality(free)
  <2>1. U8(Cardinality(free)) \in Nat /\ U8(Cardinality(free)) <= Cardinality(free)
    BY <1>4, CastIsLess
  <2> QED
    BY <1>2, <1>4, <2>1
<1> QED
  BY <1>1, <1>3, <1>5, TakeFirstSize

-----------------------------------------------------------------------------
(* The queue, and the processes.                                           *)

LEMMA RemoveAtFacts ==
  ASSUME NEW S, NEW q \in Seq(S), NEW i \in DOMAIN q
  PROVE  /\ RemoveAt(q, i) \in Seq(S)
         /\ DOMAIN RemoveAt(q, i) = 1 .. (Len(q) - 1)
         /\ \A k \in 1 .. (Len(q) - 1) :
              RemoveAt(q, i)[k] = IF k < i THEN q[k] ELSE q[k + 1]
<1> DEFINE a == SubSeq(q, 1, i - 1)
           b == SubSeq(q, i + 1, Len(q))
<1>1. Len(q) \in Nat /\ i \in 1 .. Len(q) /\ \A k \in 1 .. Len(q) : q[k] \in S
  BY ElementOfSeq, LenProperties
<1>2. /\ a \in Seq(S) /\ Len(a) = i - 1
      /\ \A k \in 1 .. i - 1 : a[k] = q[k]
  BY <1>1, SubSeqProperties
<1>3. /\ b \in Seq(S) /\ Len(b) = Len(q) - i
      /\ \A k \in 1 .. Len(q) - i : b[k] = q[k + i]
  BY <1>1, SubSeqProperties
<1>4. RemoveAt(q, i) = a \o b
  BY DEF RemoveAt
<1> HIDE DEF a, b
<1>5. /\ a \o b \in Seq(S) /\ Len(a \o b) = Len(a) + Len(b)
      /\ \A k \in 1 .. Len(a) + Len(b) :
           (a \o b)[k] = IF k <= Len(a) THEN a[k] ELSE b[k - Len(a)]
  BY <1>2, <1>3, ConcatProperties
<1>6. Len(a) + Len(b) = Len(q) - 1
  BY <1>1, <1>2, <1>3
<1>7. ASSUME NEW k \in 1 .. Len(q) - 1
      PROVE  (a \o b)[k] = IF k < i THEN q[k] ELSE q[k + 1]
  <2>1. (a \o b)[k] = IF k <= Len(a) THEN a[k] ELSE b[k - Len(a)]
    BY <1>5, <1>6
  <2>2. CASE k < i
    BY <1>1, <1>2, <2>1, <2>2
  <2>3. CASE ~(k < i)
    <3>1. k - Len(a) \in 1 .. Len(q) - i /\ (k - Len(a)) + i = k + 1
      BY <1>1, <1>2, <2>3
    <3>2. (a \o b)[k] = b[k - Len(a)]
      BY <1>1, <1>2, <2>1, <2>3
    <3> QED
      BY <1>3, <2>3, <3>1, <3>2
  <2> QED
    BY <2>2, <2>3
<1>8. DOMAIN (a \o b) = 1 .. Len(q) - 1
  BY <1>5, <1>6, LenProperties
<1> QED
  BY <1>4, <1>5, <1>7, <1>8

LEMMA ConsFacts ==
  ASSUME NEW S, NEW q \in Seq(S), NEW e \in S
  PROVE  /\ Cons(e, q) \in Seq(S)
         /\ DOMAIN Cons(e, q) = 1 .. (Len(q) + 1)
         /\ Cons(e, q)[1] = e
         /\ \A k \in 1 .. Len(q) : Cons(e, q)[k + 1] = q[k]
BY DEF Cons

LEMMA ProcFacts ==
  /\ \A j \in Jobs : Sub(j) \in Procs /\ Wtr(j) \in Procs /\ Sub(j) # Wtr(j)
  /\ \A i, j \in Jobs : /\ Sub(i) # Wtr(j)
                        /\ Sub(i) = Sub(j) => i = j
                        /\ Wtr(i) = Wtr(j) => i = j
  /\ \A c \in Clients, j \in Jobs : /\ Adm(c) \in Procs
                                    /\ Adm(c) # Sub(j) /\ Adm(c) # Wtr(j)
BY DEF Procs, Sub, Wtr, Adm

(* Entries built from a request are entries.                               *)
LEMMA EntryTypes ==
  ASSUME NEW j \in Jobs, NEW r \in Request, NEW pid \in PidKinds
  PROVE  JobEntry(j, r, pid, NoGrant) \in EntryOf(Jobs)
BY DEF JobEntry, EntryOf, NoGrant, Request

LEMMA CleanedUpFacts ==
  ASSUME TypeOK
  PROVE  /\ disk \in CoreschedState(Jobs)
         /\ CleanedUp \in CoreschedState(Jobs)
         /\ DOMAIN CleanedUp.pids = DOMAIN disk.pids \ DeadIn(disk.pids, Alive)
         /\ \A j \in DOMAIN CleanedUp.pids : CleanedUp.pids[j] = disk.pids[j]
         /\ DOMAIN CleanedUp.pending = DOMAIN disk.pending \ DeadIn(disk.pending, Alive)
         /\ \A j \in DOMAIN CleanedUp.pending : CleanedUp.pending[j] = disk.pending[j]
         /\ CleanedUp.queued = disk.queued /\ CleanedUp.next = disk.next
         /\ Booked => Consistent(CleanedUp)
<1>1. disk \in CoreschedState(Jobs)
  BY StateType DEF TypeOK
<1> QED
  BY <1>1, CleanupFacts DEF CleanedUp, Booked

(* Booking a job for what the engine has chosen.                           *)
LEMMA BookFacts ==
  ASSUME NEW s \in CoreschedState(Jobs), NEW j \in Jobs,
         NEW r, r.type \in JobTypes, r.need \in 0 .. 255, r.priority \in Priorities,
         NEW b
  PROVE  LET t == StartJob(s, j, r, Alloc(b, r))
         IN  /\ t \in CoreschedState(Jobs)
             /\ DOMAIN t.pids = DOMAIN s.pids \cup {j}
             /\ t.pids[j] = JobEntry(j, r, "none", Alloc(b, r))
             /\ \A k \in DOMAIN s.pids \ {j} : t.pids[k] = s.pids[k]
             /\ t.pending = s.pending /\ t.queued = s.queued /\ t.next = s.next
<1> DEFINE g == Alloc(b, r)
<1>1. g.cores \subseteq Cores /\ g.cpus \subseteq Cpus
  BY AllocIsFree
<1> HIDE DEF g
<1>2. LET t == StartJob(s, j, r, g)
      IN  /\ t \in CoreschedState(Jobs)
          /\ DOMAIN t.pids = DOMAIN s.pids \cup {j}
          /\ t.pids[j] = JobEntry(j, r, "none", g)
          /\ \A k \in DOMAIN s.pids \ {j} : t.pids[k] = s.pids[k]
          /\ t.pending = s.pending /\ t.queued = s.queued /\ t.next = s.next
  BY <1>1, StartJobFacts
<1> QED
  BY <1>2 DEF g

LEMMA TypeInit == Init => TypeOK
<1> SUFFICES ASSUME Init PROVE TypeOK
  OBVIOUS
<1>1. StateTypeOK(disk, Jobs)
  <2>1. <<>> \in [{} -> EntryOf(Jobs)]
    OBVIOUS
  <2>2. <<>> \in Seq(EntryOf(Jobs))
    OBVIOUS
  <2> QED
    BY <2>1, <2>2 DEF Init, EmptyState, StateTypeOK
<1>2. req \in [Jobs -> Requests] /\ faults \in Nat
  BY DEF Init
<1>3. pc \in [Procs -> PCs] /\ taken \in [Procs -> SUBSET Jobs] /\ cmd \in [Jobs -> CmdStates]
  BY DEF Init, PCs, CmdStates
<1>4. /\ pin \in [Jobs -> SUBSET Cpus] /\ mask \in [Jobs -> SUBSET Cpus]
      /\ parent \in [Jobs -> Procs]
  BY ProcFacts DEF Init
<1> QED
  BY <1>1, <1>2, <1>3, <1>4 DEF TypeOK

-----------------------------------------------------------------------------
(* Type correctness.                                                       *)

(* The type invariant with the state as a member of a set.                 *)
LEMMA TypeOKSet ==
  TypeOK <=> /\ disk \in CoreschedState(Jobs)
             /\ req \in [Jobs -> Requests]
             /\ pc \in [Procs -> PCs] /\ taken \in [Procs -> SUBSET Jobs]
             /\ cmd \in [Jobs -> CmdStates]
             /\ pin \in [Jobs -> SUBSET Cpus] /\ mask \in [Jobs -> SUBSET Cpus]
             /\ parent \in [Jobs -> Procs] /\ faults \in Nat
BY StateType DEF TypeOK

LEMMA RequestType ==
  ASSUME TypeOK, NEW j \in Jobs
  PROVE  /\ req[j] \in Request
         /\ req[j].type \in JobTypes /\ req[j].need \in 0 .. 255
         /\ req[j].priority \in Priorities
BY CoreschedAssumption DEF TypeOK, Request

(* What dispatching does to the state: the job leaves the queue ...        *)
LEMMA DequeueFacts ==
  ASSUME NEW s \in CoreschedState(Jobs), NEW i \in DOMAIN s.queued
  PROVE  LET t == [s EXCEPT !.queued = RemoveAt(@, i)]
         IN  /\ t \in CoreschedState(Jobs)
             /\ t.queued = RemoveAt(s.queued, i)
             /\ t.pids = s.pids /\ t.pending = s.pending /\ t.next = s.next
             /\ t.cfd = s.cfd /\ t.cpus = s.cpus
             /\ s.queued[i] \in EntryOf(Jobs)
<1>1. s.queued \in Seq(EntryOf(Jobs))
  BY DEF CoreschedState
<1>2. RemoveAt(s.queued, i) \in Seq(EntryOf(Jobs)) /\ s.queued[i] \in EntryOf(Jobs)
  BY <1>1, RemoveAtFacts, ElementOfSeq, LenProperties
<1> QED
  BY <1>2 DEF CoreschedState

LEMMA TypeStep == TypeOK /\ [Next]_vars => TypeOK'
<1> SUFFICES ASSUME TypeOK, [Next]_vars PROVE TypeOK'
  OBVIOUS
<1>T. TypeOK' <=> /\ disk' \in CoreschedState(Jobs)
                  /\ req' \in [Jobs -> Requests]
                  /\ pc' \in [Procs -> PCs] /\ taken' \in [Procs -> SUBSET Jobs]
                  /\ cmd' \in [Jobs -> CmdStates]
                  /\ pin' \in [Jobs -> SUBSET Cpus] /\ mask' \in [Jobs -> SUBSET Cpus]
                  /\ parent' \in [Jobs -> Procs] /\ faults' \in Nat
  BY StateType DEF TypeOK
<1> DEFINE c == CleanedUp
<1>0. /\ disk \in CoreschedState(Jobs) /\ c \in CoreschedState(Jobs)
      /\ c.pids \in JobMap(Jobs) /\ c.pending \in JobMap(Jobs)
      /\ disk.pids \in JobMap(Jobs) /\ disk.pending \in JobMap(Jobs)
      /\ \A j \in Jobs : req[j] \in Request
  BY CleanedUpFacts, RequestType DEF CoreschedState
<1>J. \A j \in Jobs : j + 1 \in Nat
  BY CoreschedAssumption DEF Jobs
<1> HIDE DEF c
<1>1. ASSUME NEW j \in Jobs, Register(j)
      PROVE  TypeOK'
  <2> DEFINE e == JobEntry(j, req[j], "sub", NoGrant)
             m == Insert(c.pending, j, e)
  <2>1. e \in EntryOf(Jobs)
    BY <1>0, EntryTypes DEF PidKinds
  <2>2. disk' = [c EXCEPT !.next = j + 1, !.pending = m]
    BY <1>1 DEF Register, c
  <2> HIDE DEF e
  <2>3. m \in JobMap(Jobs)
    BY <1>0, <2>1, InsertFacts
  <2> HIDE DEF m
  <2>4. disk' \in CoreschedState(Jobs)
    BY <1>0, <1>J, <2>2, <2>3 DEF CoreschedState
  <2>5. pc' \in [Procs -> PCs]
    BY <1>1, TypeOKSet DEF Register, Submit, Goto, PCs
  <2> QED
    BY <1>1, <1>T, <2>4, <2>5, TypeOKSet DEF Register, Submit
<1>2. ASSUME NEW j \in Jobs, Enqueue(j)
      PROVE  TypeOK'
  <2> DEFINE e == JobEntry(j, req[j], "none", NoGrant)
  <2>1. e \in EntryOf(Jobs)
    BY <1>0, EntryTypes DEF PidKinds
  <2> DEFINE q == Append(c.queued, e)
  <2>2. disk' = [c EXCEPT !.next = j + 1, !.queued = q]
    BY <1>2 DEF Enqueue, c
  <2> HIDE DEF e
  <2>3. q \in Seq(EntryOf(Jobs))
    BY <1>0, <2>1 DEF CoreschedState
  <2> HIDE DEF q
  <2>4. disk' \in CoreschedState(Jobs)
    BY <1>0, <1>J, <2>2, <2>3 DEF CoreschedState
  <2>5. pc' \in [Procs -> PCs]
    BY <1>2, TypeOKSet DEF Enqueue, Submit, Goto, PCs
  <2> QED
    BY <1>2, <1>T, <2>4, <2>5, TypeOKSet DEF Enqueue, Submit
<1>3. ASSUME NEW j \in Jobs, ParentStep(j)
      PROVE  TypeOK'
  BY <1>3, <1>T, TypeOKSet
     DEF ParentStep, RunFork, RunForkFails, ParentExits, Goto, Fault, PCs
<1>4. ASSUME NEW j \in Jobs, UpdatePid(j)
      PROVE  TypeOK'
  <2>1. disk' \in CoreschedState(Jobs)
    <3>1. CASE j \in DOMAIN disk.pending
      <4> DEFINE m == Recorded(disk.pending, j, "wtr")
      <4>1. m \in JobMap(Jobs)
        BY <1>0, <3>1, RecordFacts DEF PidKinds
      <4>2. disk' = [disk EXCEPT !.pending = m]
        BY <1>4, <3>1 DEF UpdatePid, Recorded
      <4> HIDE DEF m
      <4> QED
        BY <1>0, <4>1, <4>2 DEF CoreschedState
    <3>2. CASE j \notin DOMAIN disk.pending
      BY <1>0, <1>4, <3>2 DEF UpdatePid
    <3> QED
      BY <3>1, <3>2
  <2> QED
    BY <1>4, <1>T, <2>1, TypeOKSet DEF UpdatePid, Goto, PCs
<1>5. ASSUME NEW j \in Jobs, AllocRun(j)
      PROVE  TypeOK'
  <2> DEFINE g == Alloc(c, req[j])
             t == StartJob(c, j, req[j], g)
             m == Without(t.pending, {j})
  <2>1. g.cores \subseteq Cores /\ g.cpus \subseteq Cpus
    BY AllocIsFree, RequestType
  <2>2. disk' = [t EXCEPT !.pending = m] /\ pin' = [pin EXCEPT ![j] = Held(g)]
    BY <1>5 DEF AllocRun, c
  <2> HIDE DEF g
  <2>3. t \in CoreschedState(Jobs)
    BY <1>0, <2>1, StartJobFacts, RequestType
  <2> HIDE DEF t
  <2>4. m \in JobMap(Jobs)
    BY <2>3, WithoutFacts DEF CoreschedState
  <2> HIDE DEF m
  <2>5. disk' \in CoreschedState(Jobs)
    BY <2>2, <2>3, <2>4 DEF CoreschedState
  <2>6. pin' \in [Jobs -> SUBSET Cpus]
    BY <2>1, <2>2, HeldInCpus, TypeOKSet
  <2> QED
    BY <1>5, <1>T, <2>5, <2>6, TypeOKSet DEF AllocRun, Goto, PCs
<1>6. ASSUME NEW j \in Jobs, AllocWaits(j)
      PROVE  TypeOK'
  <2>1. disk' = c
    BY <1>6 DEF AllocWaits, c
  <2> QED
    BY <1>0, <1>6, <1>T, <2>1, TypeOKSet DEF AllocWaits, Goto, PCs
<1>7. ASSUME NEW j \in Jobs, GiveUp(j)
      PROVE  TypeOK'
  <2> DEFINE m == Without(disk.pending, {j})
  <2>1. m \in JobMap(Jobs)
    BY <1>0, WithoutFacts
  <2>2. disk' = [disk EXCEPT !.pending = m]
    BY <1>7 DEF GiveUp
  <2> HIDE DEF m
  <2>3. disk' \in CoreschedState(Jobs)
    BY <1>0, <2>1, <2>2 DEF CoreschedState
  <2> QED
    BY <1>7, <1>T, <2>3, TypeOKSet DEF GiveUp, Goto, PCs
<1>8. ASSUME NEW j \in Jobs, Sleep(j) \/ Launch(j) \/ Reap(j) \/ CmdExits(j)
      PROVE  TypeOK'
  BY <1>8, <1>T, TypeOKSet DEF Sleep, Launch, Reap, CmdExits, Goto, PCs, CmdStates
<1>9. ASSUME NEW j \in Jobs, LaunchUnpinned(j) \/ LaunchPanics(j)
      PROVE  TypeOK'
  BY <1>9, <1>T, TypeOKSet
     DEF LaunchUnpinned, LaunchPanics, PinFails, Fault, Goto, PCs, CmdStates
<1>10. ASSUME NEW j \in Jobs, RecordPid(j)
       PROVE  TypeOK'
  <2>1. disk' \in CoreschedState(Jobs)
    <3>1. CASE j \in DOMAIN disk.pids
      <4> DEFINE m == Recorded(disk.pids, j, "cmd")
      <4>1. m \in JobMap(Jobs)
        BY <1>0, <3>1, RecordFacts DEF PidKinds
      <4>2. disk' = [disk EXCEPT !.pids = m]
        BY <1>10, <3>1 DEF RecordPid, Recorded
      <4> HIDE DEF m
      <4> QED
        BY <1>0, <4>1, <4>2 DEF CoreschedState
    <3>2. CASE j \notin DOMAIN disk.pids
      BY <1>0, <1>10, <3>2 DEF RecordPid
    <3> QED
      BY <3>1, <3>2
  <2> QED
    BY <1>10, <1>T, <2>1, TypeOKSet DEF RecordPid, Goto, PCs
<1>11. ASSUME NEW j \in Jobs, Free(j)
       PROVE  TypeOK'
  <2>1. disk' \in CoreschedState(Jobs)
    BY <1>0, <1>11, FreeJobsFacts DEF Free, FreeJob
  <2> QED
    BY <1>11, <1>T, <2>1, TypeOKSet DEF Free, Goto, PCs
<1>12. ASSUME NEW p \in Procs, DispatchTake(p)
       PROVE  TypeOK'
  <2>1. PICK i \in Dispatchable(c) :
          LET job == c.queued[i]
              g   == Alloc(c, job)
          IN  /\ disk' = StartJob([c EXCEPT !.queued = RemoveAt(@, i)], job.jid, job, g)
              /\ taken' = [taken EXCEPT ![p] = {job.jid}]
              /\ pin' = [pin EXCEPT ![job.jid] = Held(g)]
    BY <1>12 DEF DispatchTake, c
  <2>2. i \in DOMAIN c.queued
    BY <2>1 DEF Dispatchable, NextQueuedJobIndex
  <2> DEFINE job == c.queued[i]
             g   == Alloc(c, job)
             u   == [c EXCEPT !.queued = RemoveAt(@, i)]
  <2>3. job \in EntryOf(Jobs) /\ u \in CoreschedState(Jobs)
    BY <1>0, <2>2, DequeueFacts
  <2>4. /\ job.jid \in Jobs /\ job.type \in JobTypes /\ job.need \in 0 .. 255
        /\ job.priority \in Priorities
    BY <2>3 DEF EntryOf
  <2>5. g.cores \subseteq Cores /\ g.cpus \subseteq Cpus
    BY <2>4, AllocIsFree
  <2>6. /\ disk' = StartJob(u, job.jid, job, g)
        /\ taken' = [taken EXCEPT ![p] = {job.jid}]
        /\ pin' = [pin EXCEPT ![job.jid] = Held(g)]
    BY <2>1
  <2> HIDE DEF job, g, u
  <2>7. disk' \in CoreschedState(Jobs)
    BY <2>3, <2>4, <2>5, <2>6, StartJobFacts
  <2>8. pin' \in [Jobs -> SUBSET Cpus] /\ taken' \in [Procs -> SUBSET Jobs]
    BY <2>4, <2>5, <2>6, HeldInCpus, TypeOKSet
  <2> QED
    BY <1>12, <1>T, <2>7, <2>8, TypeOKSet DEF DispatchTake, Goto, PCs
<1>13. ASSUME NEW p \in Procs, DispatchStops(p)
       PROVE  TypeOK'
  BY <1>13, <1>T, TypeOKSet DEF DispatchStops, Goto, Final, PCs
<1>20. ASSUME NEW p \in Procs, DispatchFork(p)
       PROVE  TypeOK'
  <2>1. PICK j \in taken[p] :
          /\ pc' = [pc EXCEPT ![p] = "dispatch", ![Wtr(j)] = "allocated"]
          /\ mask' = [mask EXCEPT ![j] = MaskOf(p)]
          /\ parent' = [parent EXCEPT ![j] = p]
    BY <1>20 DEF DispatchFork
  <2>2. j \in Jobs
    BY TypeOKSet
  <2>3. MaskOf(p) \subseteq Cpus
    <3>1. CASE p[1] = "wtr"
      <4>1. p[2] \in Jobs
        BY <3>1 DEF Procs
      <4> QED
        BY <3>1, <4>1, TypeOKSet DEF MaskOf
    <3>2. CASE p[1] # "wtr"
      BY <3>2 DEF MaskOf
    <3> QED
      BY <3>1, <3>2
  <2>4. pc' \in [Procs -> PCs]
    BY <2>1, TypeOKSet DEF PCs
  <2>5. mask' \in [Jobs -> SUBSET Cpus] /\ parent' \in [Jobs -> Procs]
    BY <2>1, <2>3, TypeOKSet
  <2>6. taken' \in [Procs -> SUBSET Jobs]
    BY <1>20, TypeOKSet DEF DispatchFork
  <2> QED
    BY <1>20, <1>T, <2>4, <2>5, <2>6, TypeOKSet DEF DispatchFork
<1>14. ASSUME NEW p \in Procs, DispatchRequeue(p)
       PROVE  TypeOK'
  <2>1. PICK j \in taken[p] :
          disk' = [FreeJob(disk, j) EXCEPT
                     !.queued = Cons(JobEntry(j, req[j], "none", NoGrant), @)]
    BY <1>14 DEF DispatchRequeue
  <2> DEFINE f == FreeJob(disk, j)
             e == JobEntry(j, req[j], "none", NoGrant)
             q == Cons(e, f.queued)
  <2>2. j \in Jobs
    BY TypeOKSet
  <2>3. e \in EntryOf(Jobs)
    BY <1>0, <2>2, EntryTypes DEF PidKinds
  <2>4. f \in CoreschedState(Jobs)
    BY <1>0, FreeJobsFacts DEF FreeJob
  <2>5. disk' = [f EXCEPT !.queued = q]
    BY <2>1
  <2> HIDE DEF e, f
  <2>6. q \in Seq(EntryOf(Jobs))
    BY <2>3, <2>4, ConsFacts DEF CoreschedState
  <2> HIDE DEF q
  <2>7. disk' \in CoreschedState(Jobs)
    BY <2>4, <2>5, <2>6 DEF CoreschedState
  <2> QED
    BY <1>14, <1>T, <2>7, TypeOKSet DEF DispatchRequeue, Fault, Goto, Final, PCs
<1>15. ASSUME NEW a \in Clients, NEW cores \in ReserveChoices, ReserveCore(a, cores)
       PROVE  TypeOK'
  <2>1. disk' \in CoreschedState(Jobs)
    BY <1>0, <1>15, CoreschedAssumption DEF ReserveCore, CoreschedState
  <2> QED
    BY <1>15, <1>T, <2>1, TypeOKSet DEF ReserveCore, Goto, PCs
<1>16. ASSUME NEW D, Die(D), faults' = faults + 1, UNCHANGED <<disk, req, pin, mask, parent>>
       PROVE  TypeOK'
  BY <1>16, <1>T, TypeOKSet DEF Die, Final, PCs, CmdStates
<1>17. ASSUME NEW p \in Procs, Crash(p)
       PROVE  TypeOK'
  BY <1>16, <1>17 DEF Crash, Fault
<1>18. ASSUME Reboot
       PROVE  TypeOK'
  BY <1>16, <1>18 DEF Reboot, Fault
<1>19. CASE UNCHANGED vars
  BY <1>19, <1>T, TypeOKSet DEF vars
<1> QED
  BY <1>1, <1>2, <1>3, <1>4, <1>5, <1>6, <1>7, <1>8, <1>9, <1>10, <1>11, <1>12,
     <1>13, <1>20, <1>14, <1>15, <1>17, <1>18, <1>19
     DEF Next, SubmitStep, WaiterStep, DispatchStep

(* The type invariant holds in every run of the program.                   *)
THEOREM TypeCorrect == Spec => []TypeOK
BY TypeInit, TypeStep, PTL DEF Spec
=============================================================================
