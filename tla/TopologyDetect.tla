--------------------------- MODULE TopologyDetect ---------------------------
(***************************************************************************)
(* How the topology is detected (detect_topology in src/topology.rs).      *)
(*                                                                         *)
(* The CPUs that /sys lists are visited in ascending order and put into    *)
(* groups, a map from a pair of numbers to a list of CPUs.  The key is     *)
(* (package, core_id), or (cpu, package) for a CPU without a core_id.  The *)
(* cores are numbered in the order of the keys, and each keeps the first   *)
(* two CPUs of its group: what module Topology takes for granted.          *)
(***************************************************************************)
EXTENDS Integers, FiniteSets

CONSTANTS
  U8Size,      (* how many values a u8 has: 256 in the program             *)
  MaxCpus,     (* bound: the machine's CPUs are 0 .. MaxCpus - 1           *)
  Packages,    (* the values of physical_package_id                        *)
  CoreIds      (* the values of core_id; the set is empty where it lacks   *)

ASSUME DetectAssumption ==
  /\ U8Size \in Nat \ {0} /\ MaxCpus \in Nat
  /\ Packages \subseteq Nat
  /\ \A id \in CoreIds : id \subseteq Nat /\ \A i, j \in id : i = j

VARIABLES
  sys,     (* what /sys shows of each CPU it lists                         *)
  cpus,    (* all_cpus                                                     *)
  left,    (* the CPUs that are still to be visited                        *)
  groups   (* groups: a map from keys to sets of CPUs                      *)

vars == <<sys, cpus, left, groups>>

U8(n) == n % U8Size

(* A name that does not parse as a u8 is skipped: such a CPU is not listed. *)
Listable == {c \in 0 .. (MaxCpus - 1) : c < U8Size}
Machines == UNION {[L -> [pkg : Packages, core : CoreIds]] : L \in SUBSET Listable}

Init ==
  /\ sys \in Machines
  /\ cpus = DOMAIN sys /\ left = DOMAIN sys
  /\ groups = <<>>

(* groups.insert(key, ..) and groups.entry(key).or_default().push(cpu).    *)
Put(key, group) ==
  groups' = [k \in DOMAIN groups \cup {key} |-> IF k = key THEN group ELSE groups[k]]
Members(key) == IF key \in DOMAIN groups THEN groups[key] ELSE {}

IsNext(cpu) == cpu \in left /\ \A c \in left : cpu <= c

(* Mutant: the package is not part of the key.                             *)
VisitByCoreId(cpu) ==
  /\ IsNext(cpu)
  /\ \E id \in sys[cpu].core :
       LET key == <<0, id>> IN Put(key, Members(key) \cup {cpu})
  /\ left' = left \ {cpu} /\ UNCHANGED <<sys, cpus>>

(* A CPU with a core_id joins the group of its package and core.           *)
Visit(cpu) ==
  /\ IsNext(cpu)
  /\ \E id \in sys[cpu].core :
       LET key == <<sys[cpu].pkg, id>> IN Put(key, Members(key) \cup {cpu})
  /\ left' = left \ {cpu} /\ UNCHANGED <<sys, cpus>>

(* Mutant: the continue is missing, so the CPU also counts as core_id 0.   *)
VisitTwice(cpu) ==
  /\ IsNext(cpu) /\ sys[cpu].core = {}
  /\ LET own  == <<cpu, sys[cpu].pkg>>
         zero == <<sys[cpu].pkg, 0>>
     IN  groups' = [k \in DOMAIN groups \cup {own, zero} |->
                      (IF k = own THEN {cpu} ELSE Members(k))
                        \cup (IF k = zero THEN {cpu} ELSE {})]
  /\ left' = left \ {cpu} /\ UNCHANGED <<sys, cpus>>

(* A CPU without one is a core of its own, and replaces a group that has   *)
(* the same key.                                                           *)
VisitUnnumbered(cpu) ==
  /\ IsNext(cpu) /\ sys[cpu].core = {}
  /\ Put(<<cpu, sys[cpu].pkg>>, {cpu})
  /\ left' = left \ {cpu} /\ UNCHANGED <<sys, cpus>>

(* cpu_count_fallback: nothing is listed, and the operating system counts  *)
(* p CPUs, a number that is cast to u8.                                    *)
Fallback(p) ==
  /\ DOMAIN sys = {} /\ cpus = {}
  /\ cpus' = {c \in 0 .. (p - 1) : c < U8(p)}
  /\ groups' = [k \in {0} \X cpus' |-> {k[2]}]
  /\ UNCHANGED <<sys, left>>

Next ==
  \/ \E cpu \in left : Visit(cpu) \/ VisitUnnumbered(cpu)
  \/ \E p \in 1 .. MaxCpus : Fallback(p)

Spec == Init /\ [][Next]_vars

-----------------------------------------------------------------------------
(* What the detection returns.                                             *)

KeyBefore(k, l) == k[1] < l[1] \/ (k[1] = l[1] /\ k[2] < l[2])

(* The number of the core of a key: a BTreeMap iterates in the order of its *)
(* keys.                                                                   *)
CoreNumber(key) == Cardinality({k \in DOMAIN groups : KeyBefore(k, key)})

(* The first two CPUs of a group.                                          *)
PairOf(group) == {c \in group : Cardinality({d \in group : d < c}) < 2}

(* logical_cpus(core), and num_physical_cores: the groups counted as a u8. *)
LogicalCpus(core) ==
  UNION {PairOf(groups[k]) : k \in {l \in DOMAIN groups : CoreNumber(l) = core}}
NumCores == U8(Cardinality(DOMAIN groups))

-----------------------------------------------------------------------------
(* Properties.                                                             *)

(* What Topology assumes: every core has CPUs of the machine (the first of *)
(* each group exists, or siblings would panic), and no two share one, also *)
(* where a CPU without core_id takes the key of another core.              *)
OwnCpus ==
  /\ \A k \in DOMAIN groups : groups[k] # {} /\ groups[k] \subseteq cpus
  /\ \A c, d \in 0 .. (MaxCpus - 1) : c # d => LogicalCpus(c) \cap LogicalCpus(d) = {}

(* On a machine whose CPUs all have a core_id, two at most to a core, the  *)
(* cores are what the hardware says: each CPU is in one, with its sibling. *)
(* There must be fewer than U8Size cores, for their number is a u8.        *)
SameCore(c, d) == sys[c] = sys[d]
Regular ==
  /\ DOMAIN sys # {} /\ left = {} /\ Cardinality(DOMAIN groups) < U8Size
  /\ \A c \in cpus : sys[c].core # {} /\ Cardinality({d \in cpus : SameCore(c, d)}) <= 2
CoresAreCores ==
  Regular =>
    \A c \in cpus : \E core \in 0 .. (NumCores - 1) :
      LogicalCpus(core) = {d \in cpus : SameCore(c, d)}
=============================================================================
