-------------------------- MODULE MCPasswordExpiry --------------------------
(* An instance of PasswordExpiry for model checking: instants on both      *)
(* sides of every day boundary.                                            *)
EXTENDS PasswordExpiry

MCTimes == {d * DAY + e : d \in 1..5, e \in {-1, 0, 1}}
=============================================================================
