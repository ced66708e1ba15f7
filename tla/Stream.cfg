SPECIFICATION StreamSpec
CONSTANTS
    u1 = u1  u2 = u2 
    User = {u1, u2}
    Admin = {u1}
    Owner = u1
    Editors = {u2}
    Uploaded = {l1, l2}
    l1 = l1  l2 = l2
    Log = {l1, l2}
    callsign = callsign
    Field = {callsign}
    Required = {callsign}
    Controller = callsign
    Callsign = callsign
    Uncounted = {callsign}
    Reuse = {}
    a = a
    Text = {a}
    Blank = Blank
    MutationId = {1, 2, 3, 4, 5, 6}
    NoMutation = 0
    SessionId = SessionId
    Invite = {}
    MaxUses = {1, 2}
    Device = {}
    ClientSeq = {1, 2}
    t1 = t1
    Ticket = {t1}
    c1 = c1  c2 = c2
    Conn = {c1, c2}
    MaxBuffered = 1
    MaxBacklog = 3
    BaseVersion = {0, 1, 2, 3}
    MinRetained = 1
    MaxProposals = 2
    MaxSeq = 4
    MaxVersion = 4
    MaxMemberVersion = 4
    MaxDraft = 1
CHECK_DEADLOCK FALSE
SYMMETRY StreamSymmetry
INVARIANTS OpenSocketsAreCurrent WireIsGapless
