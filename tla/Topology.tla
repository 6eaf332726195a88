------------------------------ MODULE Topology ------------------------------
(***************************************************************************)
(* The CPU topology the scheduler works with (src/topology.rs).            *)
(*                                                                         *)
(* detect_topology groups the logical CPUs of /sys by physical core and    *)
(* keeps, for each core, the first two CPUs of its group.  The result is   *)
(* cached for the life of a process, so it is a constant here.  A core     *)
(* with one hardware thread has the same CPU twice.                        *)
(***************************************************************************)
EXTENDS Integers, FiniteSets

CONSTANTS
  NumCores,   (* num_physical_cores() as u8                                *)
  Cpus,       (* all_cpus(), which is also schedulable_cpus()              *)
  Siblings    (* siblings: the pair of logical CPUs of each physical core  *)

Cores == 0 .. (NumCores - 1)

(* logical_cpus(core), as the set of the two CPUs of the pair.             *)
LogicalCpus(core) == {Siblings[core][1], Siblings[core][2]}

CpusOf(cores) == UNION {LogicalCpus(c) : c \in cores}

(***************************************************************************)
(* detect_topology pushes every CPU to one group only, and parses a CPU    *)
(* number as a u8: two cores share no CPU, and a CPU is below 256.         *)
(***************************************************************************)
ASSUME TopologyAssumption ==
  /\ NumCores \in Nat
  /\ Cpus \subseteq 0 .. 255
  /\ Siblings \in [Cores -> Cpus \X Cpus]
  /\ \A c, d \in Cores : c # d => LogicalCpus(c) \cap LogicalCpus(d) = {}
=============================================================================
