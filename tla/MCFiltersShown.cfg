SPECIFICATION FilterSpec
CONSTANTS
    u1 = u1
    a1 = a1
    p1 = p1
    c1 = c1
    c2 = c2
    t1 = t1
    t2 = t2
    s1 = s1
    NoAccount = NoAccount
    Private = Private
    NoChat = NoChat
    NoTitle = NoTitle
    NoSender = NoSender
    NoMsg = NoMsg
    Users <- OneOwner
    Accounts <- OneAccount
    Owner <- SameOwner
    Posts <- OnePost
    Chats <- OneChat
    Titles <- TwoTitles
    Senders <- OneSender
    MaxVer = 0
    MaxSaved = 2
    MaxErrors = 0
    MaxRules = 1
SYMMETRY Symmetry
INVARIANTS
    DeniedIsDenied
