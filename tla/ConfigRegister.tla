--------------------------- MODULE ConfigRegister ---------------------------
(***************************************************************************)
(* What the configuration store promises: it looks like one register.  An   *)
(* update replaces the value in one step, a request takes it in one step     *)
(* between its arrival and its going on, and keeps what it took.  The         *)
(* promise is suspended while something has gone wrong, and holds again       *)
(* from the step that restores it.  ConfigStore implements this with its      *)
(* file and its copy in Redis; LoginFlow takes it for granted.               *)
(***************************************************************************)

CONSTANTS
    Readers,  \* requests in flight at a time
    Vals      \* configurations

VARIABLES
    value,   \* the configuration
    got,     \* [Readers -> what the request has taken of it: one value, or none]
    atomic   \* the promise is not suspended

vars == <<value, got, atomic>>

NotTaken == {}

Init ==
    /\ value \in Vals
    /\ got = [r \in Readers |-> NotTaken]
    /\ atomic = TRUE

\* A request takes the value.
Read(r) ==
    /\ got[r] = NotTaken
    /\ got' = [got EXCEPT ![r] = {value}]
    /\ UNCHANGED value

\* An update replaces it, and the requests that have taken the old one keep that.
Write ==
    /\ value' \in Vals
    /\ UNCHANGED got

\* A request keeps what it took, or is over, or has no more use for it.
KeepsOrDrops(r) == got'[r] \in {got[r], NotTaken}

Drop ==
    /\ got' \in [Readers -> SUBSET Vals]
    /\ \A r \in Readers : KeepsOrDrops(r)
    /\ UNCHANGED value

Promised == Write \/ Drop \/ \E r \in Readers : Read(r)

\* Any value may be there and be taken until the promise is restored.  What a
\* request has taken it keeps all the same.
Suspended ==
    /\ value' \in Vals
    /\ got' \in [Readers -> SUBSET Vals]
    /\ \A r \in Readers : got[r] # NotTaken => KeepsOrDrops(r)
    /\ atomic' \in BOOLEAN

Next ==
    \/ atomic /\ atomic' /\ Promised
    \/ ~(atomic /\ atomic') /\ Suspended

Spec == Init /\ [][Next]_vars
=============================================================================
