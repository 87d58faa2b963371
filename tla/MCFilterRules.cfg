SPECIFICATION FilterSpec
CONSTANTS
    u1 = u1
    a1 = a1
    p1 = p1
    c1 = c1
    c2 = c2
    t1 = t1
    t2 = t2
    s1 = s1
    NoAccount = NoAccount
    Private = Private
    NoChat = NoChat
    NoTitle = NoTitle
    NoSender = NoSender
    NoMsg = NoMsg
    Users <- OneOwner
    Accounts <- OneAccount
    Owner <- SameOwner
    Posts <- OnePost
    Chats <- TwoChats
    Titles <- TwoTitles
    Senders <- OneSender
    MaxVer = 1
    MaxSaved = 2
    MaxErrors = 1
    MaxRules = 1
SYMMETRY Symmetry
INVARIANTS
    TypeOK
    FilterTypeOK
    LockedIsCurrent
    GenerationsInOrder
PROPERTIES
    NothingAfterSuspension
    ImplementsGate
    BlockedNotArchived
