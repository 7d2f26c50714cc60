---------------------------- MODULE MCLoginFlow -----------------------------
(* LoginFlow with the symmetry of its slots, flows and client IDs. *)
EXTENDS LoginFlow, TLC

MCSymmetry == Permutations(Slots) \cup Permutations(Flows) \cup Permutations(Apps)
=============================================================================
