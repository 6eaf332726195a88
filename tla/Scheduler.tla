----------------------------- MODULE Scheduler ------------------------------
(***************************************************************************)
(* The allocation engine (src/scheduler.rs) and the values it works on     *)
(* (src/state.rs): operators on a state s of the record CoreschedState,    *)
(*                                                                         *)
(*   s.cfd      the physical cores whose flag is set                       *)
(*   s.cpus     the logical CPUs marked Some(true)                         *)
(*   s.pids     the running jobs, a map from job id to JobEntry            *)
(*   s.pending  the direct `run` jobs that wait, a map to JobEntry         *)
(*   s.queued   the durable queue, a sequence of JobEntry                  *)
(*   s.reserved the cores named by `reserve-core`                          *)
(*   s.next     the number of the next job id                              *)
(*                                                                         *)
(* An Option of the code is a set with at most one element.                *)
(***************************************************************************)
EXTENDS Topology, Sequences, SequencesExt, Functions

Priorities == 0 .. 3
JobTypes   == {"cfd", "py"}

(* A count is cast to u8 before it is compared.                            *)
U8(n) == n % 256

-----------------------------------------------------------------------------
(* Job entries.  The pid of an entry names one of the job's own processes: *)
(* the parent that registered it, the waiter forked from it, or the        *)
(* command; "none" is the None of an entry whose command is not recorded.  *)

PidKinds == {"none", "sub", "wtr", "cmd"}
NoGrant  == [cores |-> {}, cpus |-> {}]

JobEntry(j, r, pid, grant) ==
  [jid |-> j, type |-> r.type, need |-> r.need, priority |-> r.priority,
   pid |-> pid, cores |-> grant.cores, cpus |-> grant.cpus]

(* The type of an entry, and of a state, over a set J of job ids.          *)
EntryOf(J) ==
  [jid : J, type : JobTypes, need : 0 .. 255, priority : Priorities,
   pid : PidKinds, cores : SUBSET Cores, cpus : SUBSET Cpus]

StateTypeOK(s, J) ==
  /\ s = [cfd |-> s.cfd, cpus |-> s.cpus, pids |-> s.pids, pending |-> s.pending,
          queued |-> s.queued, reserved |-> s.reserved, next |-> s.next]
  /\ s.cfd \subseteq Cores /\ s.cpus \subseteq Cpus /\ s.reserved \subseteq Cores
  /\ \E D \in SUBSET J : s.pids \in [D -> EntryOf(J)]
  /\ \E D \in SUBSET J : s.pending \in [D -> EntryOf(J)]
  /\ s.queued \in Seq(EntryOf(J)) /\ s.next \in Nat

(* The logical CPUs an entry keeps from every other job.                   *)
Held(e) == CpusOf(e.cores) \cup e.cpus

(* The maps of cores and CPUs and the entries of the running jobs agree.   *)
Agree(cfd, cpus, pids) ==
  /\ cfd = UNION {pids[j].cores : j \in DOMAIN pids}
  /\ cpus = UNION {Held(pids[j]) : j \in DOMAIN pids}
  /\ \A i, j \in DOMAIN pids : i # j => Held(pids[i]) \cap Held(pids[j]) = {}
Consistent(s) == Agree(s.cfd, s.cpus, s.pids)

(* HashMap::insert and HashMap::remove.                                    *)
Insert(map, j, e) == [k \in DOMAIN map \cup {j} |-> IF k = j THEN e ELSE map[k]]
Without(map, D)   == Restrict(map, DOMAIN map \ D)

-----------------------------------------------------------------------------
(* Which priority may use what.                                            *)

(* The last core is P3's alone and the one before it P2's, if there is one. *)
PriorityExclusiveCore(p) ==
  {c \in Cores : \/ p = 3 /\ c = NumCores - 1
                 \/ p = 2 /\ c = NumCores - 2}

ForbiddenCores(p) == UNION {PriorityExclusiveCore(q) : q \in {2, 3} \cap ((p + 1) .. 3)}
ForbiddenCpus(p)  == CpusOf(ForbiddenCores(p))

EligiblePhysicalCores(p) == PriorityExclusiveCore(p) \cup (Cores \ ForbiddenCores(p))
(* Mutant: core numbers are taken for CPU numbers.                         *)
EligibleCpusByCore(p) == CpusOf(PriorityExclusiveCore(p)) \cup (Cpus \ ForbiddenCores(p))
EligibleCpus(p) == CpusOf(PriorityExclusiveCore(p)) \cup (Cpus \ ForbiddenCpus(p))

PhysicalCoreIsFree(s, c) == c \notin s.cfd /\ LogicalCpus(c) \cap s.cpus = {}

FreeCores(s, p) == {c \in EligiblePhysicalCores(p) : PhysicalCoreIsFree(s, c)}
FreeCpus(s, p)  == EligibleCpus(p) \ s.cpus

(* The eligible lists put the priority's own resources first and ascend.   *)
Before(own, x, y) == IF (x \in own) = (y \in own) THEN x < y ELSE x \in own
TakeFirst(free, own, n) ==
  {x \in free : Cardinality({y \in free : Before(own, y, x)}) < n}

AllocCfdForPriority(s, n, p) ==
  [cores |-> TakeFirst(FreeCores(s, p), PriorityExclusiveCore(p), n), cpus |-> {}]
AllocPyForPriority(s, n, p) ==
  [cores |-> {}, cpus |-> TakeFirst(FreeCpus(s, p), CpusOf(PriorityExclusiveCore(p)), n)]

Alloc(s, r) == IF r.type = "cfd" THEN AllocCfdForPriority(s, r.need, r.priority)
                                 ELSE AllocPyForPriority(s, r.need, r.priority)

(* Mutant: every free core or CPU counts, also those the level may not use. *)
NeededAnywhere(s, r) ==
  LET free == IF r.type = "cfd" THEN {c \in Cores : PhysicalCoreIsFree(s, c)}
                                ELSE Cpus \ s.cpus
  IN  IF r.need > Cardinality(free) THEN r.need - Cardinality(free) ELSE 0

NeededForPriority(s, r) ==
  LET free      == IF r.type = "cfd" THEN FreeCores(s, r.priority)
                                     ELSE FreeCpus(s, r.priority)
      available == U8(Cardinality(free))
  IN  IF r.need > available THEN r.need - available ELSE 0

(* validate_request: the largest size a priority may ask for.              *)
ValidRequest(r) ==
  r.need <= Cardinality(IF r.type = "cfd" THEN EligiblePhysicalCores(r.priority)
                                          ELSE EligibleCpus(r.priority))

-----------------------------------------------------------------------------
(* Taking and giving back resources.                                       *)

StartJob(s, j, r, grant) ==
  [s EXCEPT !.cfd  = @ \cup grant.cores,
            !.cpus = @ \cup Held(grant),
            !.pids = Insert(@, j, JobEntry(j, r, "none", grant))]

(* Mutant: the hyperthreads of a freed core stay marked.                   *)
FreeCoresOnly(s, D) ==
  LET freed == {s.pids[j] : j \in D \cap DOMAIN s.pids}
  IN  [s EXCEPT !.cfd  = @ \ UNION {e.cores : e \in freed},
                !.cpus = @ \ UNION {e.cpus : e \in freed},
                !.pids = Without(@, D)]

FreeJobs(s, D) ==
  LET freed == {s.pids[j] : j \in D \cap DOMAIN s.pids}
  IN  [s EXCEPT !.cfd  = @ \ UNION {e.cores : e \in freed},
                !.cpus = @ \ UNION {Held(e) : e \in freed},
                !.pids = Without(@, D)]

FreeJob(s, j) == FreeJobs(s, {j})

(* Mutant: an entry without a pid counts as dead.                          *)
DeadOrUnknownIn(map, alive) == {j \in DOMAIN map : <<map[j].pid, j>> \notin alive}

(* The entries of a map whose recorded process answers kill(pid, 0) with   *)
(* ESRCH.  An entry without a pid is never among them.                     *)
DeadIn(map, alive) ==
  {j \in DOMAIN map : map[j].pid # "none" /\ <<map[j].pid, j>> \notin alive}

OrphanCleanup(s, alive) ==
  LET freed == FreeJobs(s, DeadIn(s.pids, alive))
  IN  [freed EXCEPT !.pending = Without(@, DeadIn(s.pending, alive))]

-----------------------------------------------------------------------------
(* Who goes first.                                                         *)

HasHigherPriorityPending(s, p, exclude) ==
  \E j \in DOMAIN s.pending \ exclude : s.pending[j].priority > p

HasHigherPriorityWaiting(s, p, exclude) ==
  \/ HasHigherPriorityPending(s, p, exclude)
  \/ \E i \in DOMAIN s.queued : s.queued[i].priority > p

(* Mutant: the queue does not look at the direct runs.                     *)
NextIgnoringPending(s) ==
  {i \in DOMAIN s.queued :
     \A k \in DOMAIN s.queued :
       /\ s.queued[k].priority <= s.queued[i].priority
       /\ k < i => s.queued[k].priority # s.queued[i].priority}

(* The first entry of the highest level present in the queue, unless a     *)
(* direct `run` of a higher level waits.                                   *)
NextQueuedJobIndex(s) ==
  {i \in DOMAIN s.queued :
     /\ \A k \in DOMAIN s.queued :
          /\ s.queued[k].priority <= s.queued[i].priority
          /\ k < i => s.queued[k].priority # s.queued[i].priority
     /\ ~ HasHigherPriorityPending(s, s.queued[i].priority, {})}

(* The queue position try_dispatch_one takes, if any.                      *)
Dispatchable(s) ==
  {i \in NextQueuedJobIndex(s) : NeededForPriority(s, s.queued[i]) = 0}
=============================================================================
