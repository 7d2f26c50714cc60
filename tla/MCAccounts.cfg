\* Four logins of two identities: two first logins that overlap, a third that
\* meets what they left behind, and a fourth that comes back.
\* The model stops when its four logins have been answered.
CONSTANTS
    Logins = {l1, l2, l3, l4}
    Identities = {alice, bob}
    None = None
SPECIFICATION Spec
SYMMETRY MCSymmetry
CHECK_DEADLOCK FALSE
INVARIANTS
    TypeOK
    KnownLoginsKeepTheirAccount
    OneAccountPerIdentity
PROPERTIES
    SettledForever
    SettledAccountIsExclusive
    ImplementsDirectory
