SPECIFICATION MCSpec
CONSTANTS
    u1 = u1  u2 = u2
    User = {u1, u2}
    k1 = k1
    Ticket = {k1}
    c1 = c1
    Socket = {c1}
    a = a  b = b
    Tab = {a, b}
    Nobody = Nobody
    NoCookie = 0
    WebLocks = TRUE
    MaxIssued = 3
    MaxVersion = 4
    MaxChanges = 5
INVARIANTS AnAdminRemains LoginsFitAccounts SocketsFollowLogins
           OnlyLossRaisesAlarm RetriesKeepTheirAccount
PROPERTIES EndedLoginsStayEnded DeadSocketsAreClosed
CHECK_DEADLOCK FALSE
