SPECIFICATION MembersSpec
CONSTANTS
    u1 = u1  u2 = u2  u3 = u3
    User = {u1, u2, u3}
    Admin = {u3}
    Owner = u1
    Editors = {u2}
    Uploaded = {}
    l1 = l1
    Log = {l1}
    callsign = callsign
    Field = {callsign}
    Required = {callsign}
    Controller = callsign
    Callsign = callsign
    Uncounted = {callsign}
    Reuse = {}
    a = a
    Text = {a}
    Blank = Blank
    MutationId = {1, 2, 3, 4, 5}
    NoMutation = 0
    SessionId = SessionId
    i1 = i1  i2 = i2
    Invite = {i1, i2}
    MaxUses = {1, 2}
    Device = {}
    ClientSeq = {1}
    t1 = t1
    Ticket = {t1}
    c1 = c1
    Conn = {c1}
    MaxBuffered = 1
    MaxBacklog = 3
    BaseVersion = {2, 3}
    MinRetained = 1
    MaxProposals = 1
    MaxSeq = 3
    MaxVersion = 4
    MaxMemberVersion = 4
    MaxDraft = 1
SYMMETRY InviteSymmetry
CHECK_DEADLOCK FALSE
INVARIANT RetryReturnsFirstResult
