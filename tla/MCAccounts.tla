----------------------------- MODULE MCAccounts -----------------------------
(* Instances of Accounts for model checking.                               *)
EXTENDS Accounts, TLC

AccountsSymmetry == Permutations(Otps) \cup Permutations(Requests)
=============================================================================
