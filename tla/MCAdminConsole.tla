--------------------------- MODULE MCAdminConsole ---------------------------
(* AdminConsole on small instances. *)
EXTENDS AdminConsole, TLC

Symmetric == Permutations(Tasks)

=============================================================================
