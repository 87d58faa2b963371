SPECIFICATION FairSpec
CONSTANTS
    u1 = u1
    u2 = u2
    t1 = t1
    t2 = t2
    t3 = t3
    s1 = s1
    s2 = s2
    s3 = s3
    NoSet = NoSet
    NoUser = NoUser
    Users <- OneUser
    Transfers <- ThreeTransfers
    SetIds <- ThreeSets
    MaxVer = 2
    MaxLate = 1
INVARIANTS
    RegistryClean
PROPERTIES
    ReachableKept
    RevokedTransfersEnd
