------------------------- MODULE SecondFactorProofs -------------------------
(***************************************************************************)
(* What every implementation of SecondFactor has, for any set of users.     *)
(***************************************************************************)
EXTENDS SecondFactor, TLAPS

\* Whoever is asked for a second factor, or has given one, has it.
THEOREM AlwaysHasProof == Spec => []HasProof
  <1>1. Init => HasProof
    BY DEF Init, HasProof
  <1>2. HasProof /\ [Next]_vars => HasProof'
    BY DEF HasProof, Next, vars, Enrol, AddKey, Pass, TurnOn, TurnOff
  <1> QED
    BY <1>1, <1>2, PTL DEF Spec

\* What was enrolled or proved stays so, and turning off takes a proof.
THEOREM OnlyMore == Spec => Monotone
  <1>1. [Next]_vars =>
          [/\ enrolled \subseteq enrolled' /\ keyed \subseteq keyed' /\ passed \subseteq passed'
           /\ enabled \ enabled' \subseteq passed]_vars
    BY DEF Next, vars, Enrol, AddKey, Pass, TurnOn, TurnOff
  <1> QED
    BY <1>1, PTL DEF Spec, Monotone
=============================================================================
