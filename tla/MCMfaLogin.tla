----------------------------- MODULE MCMfaLogin -----------------------------
(* Instances of MfaLogin for model checking.                               *)
EXTENDS MfaLogin, TLC

MfaSymmetry == Permutations(Tickets) \cup Permutations(Secrets)
               \cup Permutations(BackupCodes) \cup Permutations(Requests)
=============================================================================
