------------------------------ MODULE MCAuthUI ------------------------------
(* AuthUI on small instances. *)
EXTENDS AuthUI, TLC

Symmetric == Permutations(Targets) \cup Permutations(Calls)

=============================================================================
