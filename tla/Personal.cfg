SPECIFICATION MCSpec
CONSTANTS
    d1 = d1  d2 = d2
    Device = {d1, d2}
    s1 = s1
    Session = {s1}
    l1 = l1  l2 = l2
    Log = {l1, l2}
    i1 = i1  i2 = i2
    Item = {i1, i2}
    u1 = u1  u2 = u2  u3 = u3
    User = {u1, u2, u3}
    Account = u1
    Admin = {u3}
    a1 = a1
    List = {a1}
    n1 = n1
    Alias = {n1}
    NoAlias = NoAlias
    MaxRecordChanges = 3
    MaxArchiveChanges = 3
    MaxChanges = 4
    MaxRevision = 3
    MaxPreviews = 2
SYMMETRY MCSymmetry
INVARIANTS NoStoredChangeIsLost PromotedSessionsMove CorrectionsFitTheirRecords ArchivesStayWhole
CHECK_DEADLOCK FALSE
