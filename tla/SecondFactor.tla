---------------------------- MODULE SecondFactor ----------------------------
(***************************************************************************)
(* What the second factor promises, whatever it is made of: a user proves   *)
(* it only with something enrolled, and it is asked for or given up only     *)
(* under these conditions.  TwoFactor and WebAuthn implement this, each for  *)
(* its kind of proof.                                                       *)
(***************************************************************************)

CONSTANT Users

VARIABLES
    enrolled,  \* the users with a one-time-password secret
    keyed,     \* the users with a security key
    enabled,   \* the users whose second factor is turned on
    passed     \* the users with a token that says it was given

vars == <<enrolled, keyed, enabled, passed>>

Init == enrolled = {} /\ keyed = {} /\ enabled = {} /\ passed = {}

Enrol(u) ==
    /\ enrolled' = enrolled \cup {u}
    /\ UNCHANGED <<keyed, enabled, passed>>

AddKey(u) ==
    /\ keyed' = keyed \cup {u}
    /\ UNCHANGED <<enrolled, enabled, passed>>

\* Only a user with something to prove it with passes.
Pass(u) ==
    /\ u \in enrolled \cup keyed
    /\ passed' = passed \cup {u}
    /\ UNCHANGED <<enrolled, keyed, enabled>>

\* Only a user with a secret turns it on.
TurnOn(u) ==
    /\ u \in enrolled
    /\ enabled' = enabled \cup {u}
    /\ UNCHANGED <<enrolled, keyed, passed>>

\* Only a user who has passed turns it off.
TurnOff(u) ==
    /\ u \in passed
    /\ enabled' = enabled \ {u}
    /\ UNCHANGED <<enrolled, keyed, passed>>

Next == \E u \in Users : Enrol(u) \/ AddKey(u) \/ Pass(u) \/ TurnOn(u) \/ TurnOff(u)

Spec == Init /\ [][Next]_vars

-----------------------------------------------------------------------------
\* The second factor is on only for those who can be asked for a code, and whoever
\* has given it has something to give it with.
HasProof == enabled \subseteq enrolled /\ passed \subseteq enrolled \cup keyed

\* Nothing enrolled is taken away, no proof is taken back, and the second factor goes
\* off only for a user who has given it.
Monotone ==
    [][/\ enrolled \subseteq enrolled' /\ keyed \subseteq keyed' /\ passed \subseteq passed'
       /\ enabled \ enabled' \subseteq passed]_vars
=============================================================================
