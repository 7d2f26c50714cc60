----------------------------- MODULE MCAccounts -----------------------------
(* Accounts for TLC: logins and identities are interchangeable. *)
EXTENDS Accounts, TLC

MCSymmetry == Permutations(Logins) \cup Permutations(Identities)
=============================================================================
