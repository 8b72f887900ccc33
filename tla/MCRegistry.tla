----------------------------- MODULE MCRegistry -----------------------------
(***************************************************************************)
(* Registry for TLC: the symmetry of rows and requests.                    *)
(***************************************************************************)
EXTENDS Registry, TLC

Symmetry == Permutations(Owner) \cup Permutations(Transfer)
              \cup Permutations(Accept)
=============================================================================
