----------------------------- MODULE MCAccounts -----------------------------
(* Instances of Accounts for TLC. *)
EXTENDS Accounts, TLC

AccountsSymmetry == Permutations(Requests) \cup Permutations(Names) \cup Permutations(Emails)
=============================================================================
