SPECIFICATION FairSpec
CONSTANTS
    u1 = u1
    a1 = a1
    a2 = a2
    p1 = p1
    p2 = p2
    c1 = c1
    c2 = c2
    NoAccount = NoAccount
    Users <- OneOwner
    Accounts <- OneAccount
    Owner <- SameOwner
    Posts <- OnePost
    Cmds <- OneCmd
    MaxVer = 1
    MaxSaved = 1
    MaxLate = 0
    Requests = {"reconnect", "approval", "credential"}
INVARIANTS
    QuietAfterStop
PROPERTIES
    NothingAfterSuspension
    LeaseEnds
