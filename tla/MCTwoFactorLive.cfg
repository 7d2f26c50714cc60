\* What must happen in the end, with the fairness of the event loop alone: one user,
\* two requests and two enrolments at a time.  No symmetry, for liveness.
CONSTANTS
    Users = {u1}
    Slots = {r1, r2}
    Secrets = {s1, s2}
    None = None
SPECIFICATION FairSpec
PROPERTIES
    TurnOffLands
    StoredSecretGetsKnown
