SPECIFICATION Spec
CHECK_DEADLOCK FALSE
CONSTANTS
    Users <- TwoUsers
    Keys <- TwoKeys
    Connections <- TwoConnections
    UserOf <- TheirUsers
    Names <- ThreeNames
    PubNames <- TwoPubs
    KeyLists <- MCLists
    SpaceCounts = {1, 2}
    StartHomes <- MCHomes
    Faults <- AllFaults
    MaxOffers <- Offers
    MaxChanges = 1
    MaxSessions = 1
    u1 = u1
    u2 = u2
    c1 = c1
    c2 = c2
    k1 = k1
    k2 = k2
    first = first
    second = second
    other = other
INVARIANTS
    TypeOK
    AcceptedKeyWasThere
    SteadyKeyIsAccepted
    SessionsAreOfLogins
