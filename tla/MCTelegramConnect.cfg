SPECIFICATION Spec
CONSTANTS
    u1 = u1
    u2 = u2
    i1 = i1
    t1 = t1
    t2 = t2
    r1 = r1
    r2 = r2
    r3 = r3
    NoUser = NoUser
    NoIdentity = NoIdentity
    NoAttempt = NoAttempt
    Users <- TwoUsers
    Identities <- OneIdentity
    Attempts <- TwoAttempts
    Reqs <- ThreeReqs
    MaxVer = 1
SYMMETRY Symmetry
INVARIANTS
    TypeOK
    CompletedAttemptGone
PROPERTIES
    ImplementsLinks
