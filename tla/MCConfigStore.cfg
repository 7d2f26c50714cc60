\* REDIS_AUTH_CONFIG_KEY is set and there is no prefix: one key for both.
CONSTANTS
    Slots = {r1, r2, r3}
    Configs = {c1, c2, bad}
    Valid = {c1, c2}
    MwKey = key
    CtlKey = key
    Missing = Missing
    Empty = Empty
    Torn = Torn
    Nothing = Nothing
SPECIFICATION Spec
SYMMETRY MCSymmetry
INVARIANTS
    TypeOK
    StoresAgreeWhenClean
    FreshRequestSeesUpdate
    FileBrokenOnlyInWrite
PROPERTY
    ImplementsRegister
