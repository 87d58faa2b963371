SPECIFICATION Spec
CONSTANTS
    u1 = u1
    a1 = a1
    a2 = a2
    p1 = p1
    p2 = p2
    c1 = c1
    c2 = c2
    NoAccount = NoAccount
    Users <- OneOwner
    Accounts <- OneAccount
    Owner <- SameOwner
    Posts <- NoPosts
    Cmds <- TwoCmds
    MaxVer = 1
    MaxSaved = 0
    MaxLate = 1
    Requests = {"remove", "disconnect", "link", "approval"}
SYMMETRY CmdSymmetry
INVARIANTS
    FailedStartDisconnects
    OneClientPerAccount
    ConfirmedStop
    SuspendedNotRestorable
