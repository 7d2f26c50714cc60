\* Does the answer to turn-off hold?  Not if the process goes down before the
\* write that nobody awaits has landed.
CONSTANTS
    Users = {u1}
    Slots = {r1, r2, r3}
    Secrets = {s1, s2}
    None = None
SPECIFICATION Spec
SYMMETRY MCSymmetry
INVARIANTS
    TurnOffAnswerHolds
