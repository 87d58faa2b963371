SPECIFICATION Spec
CONSTANTS
    u1 = u1
    u2 = u2
    i1 = i1
    i2 = i2
    i3 = i3
    r1 = r1
    r2 = r2
    s1 = s1
    s2 = s2
    NoUser = NoUser
    NoSid = NoSid
    Users <- OneUser
    Sids <- TwoSids
    Reqs <- TwoReqs
    Socks <- OneSock
    MaxVer = 2
SYMMETRY Symmetry
INVARIANTS
    OneSessionPerId
    NoOldPassword
PROPERTIES
    RevokedReceiveNothing
