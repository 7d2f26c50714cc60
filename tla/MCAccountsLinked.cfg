\* Does linking an identity make it known?  Not if two of its first logins
\* each save a ProviderInfo, because they overlap or the first was cut short after
\* saving its own: no user ever has the array of both.
CONSTANTS
    Logins = {l1, l2, l3, l4}
    Identities = {alice, bob}
    None = None
SPECIFICATION Spec
SYMMETRY MCSymmetry
CHECK_DEADLOCK FALSE
INVARIANTS
    LinkedIdentityIsFound
