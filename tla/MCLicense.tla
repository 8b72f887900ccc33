----------------------------- MODULE MCLicense -----------------------------
(***************************************************************************)
(* An instance of License for TLC.                                         *)
(***************************************************************************)
EXTENDS License, TLC

Symmetry == Permutations(Fine) \cup Permutations(Engine)
             \cup Permutations(Staff) \cup Permutations(Suspension)
=============================================================================
