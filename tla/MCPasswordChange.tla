-------------------------- MODULE MCPasswordChange --------------------------
(* PasswordChange on small instances. *)
EXTENDS PasswordChange, TLC

Symmetric == Permutations(Requests) \cup Permutations(Tickets) \cup Permutations(Logins)
                 \cup Permutations(Passwords)

=============================================================================
