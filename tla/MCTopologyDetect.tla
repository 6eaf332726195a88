-------------------------- MODULE MCTopologyDetect --------------------------
(***************************************************************************)
(* Values for the constants of TopologyDetect: up to four CPUs in two      *)
(* packages with two core numbers, or none.  A u8 has four values, so that *)
(* a count of four wraps as one of 256 does in the program.                *)
(***************************************************************************)
EXTENDS TopologyDetect

TwoPackages == {0, 1}
TwoCoreIds  == {{}, {0}, {1}}
=============================================================================
