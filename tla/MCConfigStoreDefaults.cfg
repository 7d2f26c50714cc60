\* Does a request see the schema's defaults?  Not the one that reads the file.
CONSTANTS
    Slots = {r1, r2}
    Configs = {c1, c2, bad}
    Valid = {c1, c2}
    MwKey = key
    CtlKey = key
    Missing = Missing
    Empty = Empty
    Torn = Torn
    Nothing = Nothing
SPECIFICATION Spec
SYMMETRY MCSymmetry
INVARIANTS
    RequestsSeeDefaults
