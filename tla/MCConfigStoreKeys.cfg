\* REDIS_AUTH_CONFIG_KEY is empty, as in .env.example: the middleware falls back to
\* AUTH_CONFIG and the controller does not.  Does an update reach the requests?
CONSTANTS
    Slots = {r1, r2}
    Configs = {c1, c2, bad}
    Valid = {c1, c2}
    MwKey = authConfig
    CtlKey = noKey
    Missing = Missing
    Empty = Empty
    Torn = Torn
    Nothing = Nothing
SPECIFICATION Spec
SYMMETRY MCSymmetry
INVARIANTS
    FreshRequestSeesUpdate
