----------------------------- MODULE MCWebAuthn -----------------------------
(* WebAuthn for TLC: users, slots, challenges and documents are             *)
(* interchangeable.                                                         *)
EXTENDS WebAuthn, TLC

MCSymmetry ==
    Permutations(Users) \cup Permutations(Slots) \cup Permutations(Challenges)
        \cup Permutations(Docs)
=============================================================================
