SPECIFICATION Spec
CONSTANTS
    u1 = u1
    s1 = s1
    s2 = s2
    e0 = e0
    e1 = e1
    e2 = e2
    r1 = r1
    r2 = r2
    NoOne = NoOne
    NoAddress = NoAddress
    Users <- OneUser
    Signups <- TwoSignups
    Addresses <- ThreeAddresses
    HomeAddress <- Home
    Reqs <- TwoReqs
    MaxAttempts = 2
    MaxSends = 3
    MaxCodes = 3
SYMMETRY Symmetry
INVARIANTS
    TypeOK
    GuessesBounded
    SentCodesKept
PROPERTIES
    AddressProven
