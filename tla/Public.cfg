SPECIFICATION MCSpec
CONSTANTS
    h1 = h1  h2 = h2
    Share = {h1, h2}
    Link = h1
    w1 = w1  w2 = w2  w3 = w3
    View = {w1, w2, w3}
    ThisView = w1
    SnapshotLimit = 1
    l1 = l1  l2 = l2
    Log = {l1, l2}
    t1 = t1
    Ticket = {t1}
    e1 = e1
    Entry = {e1}
    j1 = j1  j2 = j2
    Job = {j1, j2}
    None = None
    MaxActive = 2
    PerShare = 2
    Total = 3
    MaxListLimit = 2
    MaxBacklog = 2
    MaxBuffered = 2
    MaxHead = 3
    MaxFaults = 2
    MaxAuth = 3
    MaxInstance = 3
    MaxBackups = 1
    MaxVersion = 2
    k1 = k1  k2 = k2
    Setting = {k1, k2}
    RestartSetting = {k2}
    v1 = v1
    Value = {v1}
    p1 = p1  p2 = p2
    Patch = {p1, p2}
INVARIANTS ViewersShowOneMoment DeadSharesAreSilent OpensAreCounted SummaryMatchesList
           ServerFitsDatabase
PROPERTIES ViewersCatchUp RestoreLosesNothing FollowsHistory
CHECK_DEADLOCK FALSE
