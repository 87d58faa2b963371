SPECIFICATION StorageSpec
CONSTANTS
    u1 = u1
    u2 = u2
    k1 = k1
    d2 = d2
    j1 = j1
    d1 = d1
    r1 = r1
    r2 = r2
    NoUser = NoUser
    NoKey = NoKey
    Users <- TwoUsers
    Keys <- OneKey
    KeyOwner <- FirstUsers
    Jobs <- OneJob
    Dels <- TwoDels
    Asks <- TwoAsks
    MaxVer = 1
    MaxCache = 1
SYMMETRY Symmetry
INVARIANTS
    StorageTypeOK
    SavedCanBeOpened
    NoStrayObjects
    RefreshSkipsDeleted
PROPERTIES
    RevokedSavesNothing
