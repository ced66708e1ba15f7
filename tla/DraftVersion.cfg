SPECIFICATION DraftSpec
CONSTANTS
    u1 = u1  u2 = u2 
    User = {u1, u2}
    Admin = {u1}
    Owner = u1
    Editors = {u2}
    Uploaded = {}
    l1 = l1
    Log = {l1}
    controller = controller  callsign = callsign  qth = qth
    Field = {controller, callsign, qth}
    Required = {controller, callsign}
    Controller = controller
    Callsign = callsign
    Uncounted = {controller}
    Reuse = {qth}
    a = a
    Text = {a}
    Blank = Blank
    MutationId = {1, 2, 3, 4, 5}
    NoMutation = 0
    SessionId = SessionId
    Invite = {}
    MaxUses = {1, 2}
    d1 = d1
    Device = {d1}
    ClientSeq = {1}
    Ticket = {}
    Conn = {}
    MaxBuffered = 1
    MaxBacklog = 3
    BaseVersion = {2, 3}
    MinRetained = 1
    MaxProposals = 1
    MaxSeq = 3
    MaxVersion = 4
    MaxMemberVersion = 4
    MaxDraft = 3
CHECK_DEADLOCK FALSE
INVARIANT DraftVersionOnlyGrows
