---------------------------- MODULE MCUserAccess ----------------------------
(* Instances of UserAccess for model checking.                             *)
EXTENDS UserAccess, TLC

AccessSymmetry == Permutations(Sids) \cup Permutations(RowIds)
                  \cup Permutations(Codes) \cup Permutations(Requests)
=============================================================================
