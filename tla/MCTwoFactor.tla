---------------------------- MODULE MCTwoFactor -----------------------------
(* TwoFactor for TLC: users, request slots and secrets are interchangeable. *)
EXTENDS TwoFactor, TLC

MCSymmetry == Permutations(Users) \cup Permutations(Slots) \cup Permutations(Secrets)
=============================================================================
