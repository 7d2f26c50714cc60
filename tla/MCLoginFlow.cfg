\* Two logins with one provider in two slots: the other slot registers strategies of
\* an older or a newer configuration, with the other client ID, with none, or off.
CONSTANTS
    Slots = {r1, r2}
    Flows = {f1, f2}
    Providers = {p1}
    Apps = {a1, a2}
    Anonymous = Anonymous
    None = None
SYMMETRY MCSymmetry
SPECIFICATION Spec
INVARIANTS TypeOK SteadyFlowSucceeds TurnedOffStaysOff
PROPERTIES LockedForGood UsesRegister
