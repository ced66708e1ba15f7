SPECIFICATION MCSpec
CONSTANTS
    u1 = u1  u2 = u2
    User = {u1, u2}
    s1 = s1
    Secret = {s1}
    NoSecret = NoSecret
    Scope <- MCScope
    MaxPending = 1
    MaxGrants = 1
    MaxDisabled = 0
SYMMETRY UserSymmetry
INVARIANTS ExactlyOneOwner
CHECK_DEADLOCK FALSE
