---------------------------- MODULE MCStateFile -----------------------------
(***************************************************************************)
(* StateFile with processes that are interchangeable.                      *)
(***************************************************************************)
EXTENDS StateFile, TLC

Symmetry == Permutations(Procs)
=============================================================================
