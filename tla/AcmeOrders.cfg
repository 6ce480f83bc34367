\* Two processes order certificates for a name of two teams.
SPECIFICATION FairSpec
CONSTANTS
    s1 = s1
    s2 = s2
    d1 = d1
    d2 = d2
    name = name
    Server = {s1, s2}
    Domain = {d1, d2}
    NameOf <- Names
    MaxOrders = 2
    None = None
INVARIANTS
    ChallengeIsStored
    OrdersApart
PROPERTIES
    CertificateStays
    ProcessingEnds
CHECK_DEADLOCK FALSE
