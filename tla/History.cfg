SPECIFICATION HistorySpec
CONSTANTS
    u1 = u1  u2 = u2
    User = {u1, u2}
    Admin = {u2}
    l1 = l1  l2 = l2
    Log = {l1, l2}
    callsign = callsign
    Field = {callsign}
    Required = {callsign}
    Controller = callsign
    Callsign = callsign
    Uncounted = {callsign}
    Reuse = {}
    a = a  b = b
    Text = {a, b}
    Blank = Blank
    MutationId = {1, 2, 3, 4, 5}
    NoMutation = 0
    SessionId = SessionId
    Invite = {}
    Device = {}
    Ticket = {}
    Conn = {}
    MaxBuffered = 1
    MaxBacklog = 3
    BaseVersion = {0, 1, 2, 3, 4}
    MinRetained = 1
    MaxProposals = 2
    ClientSeq = {1}
    MaxUses = {1}
    MaxSeq = 5
    MaxVersion = 6
    MaxMemberVersion = 1
    MaxDraft = 1
    Owner = u1
    Editors = {}
    Uploaded = {}
SYMMETRY HistorySymmetry
INVARIANTS TypeOK EventLogContiguous TablesFollowEvents ExactlyOnce
PROPERTIES OneEventPerChange KeepsLedger
CHECK_DEADLOCK FALSE
