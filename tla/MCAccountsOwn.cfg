\* Does a login end in an account linked to its identity?  Not if it meets a user
\* whose own first login, of the same or of another identity, has not linked it.
CONSTANTS
    Logins = {l1, l2, l3, l4}
    Identities = {alice, bob}
    None = None
SPECIFICATION Spec
SYMMETRY MCSymmetry
CHECK_DEADLOCK FALSE
INVARIANTS
    LoginEndsInLinkedAccount
