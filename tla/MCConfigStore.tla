--------------------------- MODULE MCConfigStore ----------------------------
(* ConfigStore for TLC: slots are interchangeable, and so are the configurations *)
(* that parse. *)
EXTENDS ConfigStore, TLC

MCSymmetry == Permutations(Slots) \cup Permutations(Valid)
=============================================================================
