\* Does a stored configuration parse?  Not if an administrator posts an origin that
\* is no URL: the update's own schema takes any string.
CONSTANTS
    Slots = {r1, r2}
    Configs = {c1, c2, bad}
    Valid = {c1, c2}
    MwKey = key
    CtlKey = key
    Missing = Missing
    Empty = Empty
    Torn = Torn
    Nothing = Nothing
SPECIFICATION Spec
SYMMETRY MCSymmetry
INVARIANTS
    StoredConfigParses
