\* Two users, whose challenges and keys must stay apart; three challenges, enough
\* to register a key and give it twice, or to register it twice and give it once;
\* counters that stand still, or count from 0 to 1.  Each challenge is drawn once,
\* so the instance comes to an end, which the program does not.
CONSTANTS
    Users = {u1, u2}
    Slots = {r1, r2}
    Challenges = {c1, c2, c3}
    Docs = {a1, a2}
    Counts = {0, 1}
    None = None
SPECIFICATION Spec
SYMMETRY MCSymmetry
CHECK_DEADLOCK FALSE
INVARIANTS
    TypeOK
    KeysAreOwn
    OptionsStand
    AcceptedIsUsedUp
    OneDocPerCredential
    CounterRefusesOnlyRepeats
PROPERTIES
    KeysStay
    AcceptedInOrder
    CounterGoesBackOnlyCrossed
    ImplementsSecondFactor
