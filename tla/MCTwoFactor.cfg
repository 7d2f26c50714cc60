\* Two users with two requests at a time: the two may cross on one user, or meet
\* on different users, whose documents and tokens must stay apart.
CONSTANTS
    Users = {u1, u2}
    Slots = {r1, r2}
    Secrets = {s1, s2}
    None = None
SPECIFICATION Spec
SYMMETRY MCSymmetry
INVARIANTS
    TypeOK
    EnabledHasSecret
    TokenMeansSecondFactor
    PageIsUsable
    StoredSecretIsShown
    AnswersHoldWhenSerial
PROPERTIES
    OnlyTokenHoldersTurnOff
    ImplementsSecondFactor
