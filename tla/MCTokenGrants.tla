--------------------------- MODULE MCTokenGrants ---------------------------
(* Instances of TokenGrants for model checking.                            *)
EXTENDS TokenGrants, TLC

GrantSymmetry == Permutations(Codes) \cup Permutations(RowIds)
                 \cup Permutations(Jtis) \cup Permutations(Requests)
=============================================================================
