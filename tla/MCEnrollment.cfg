SPECIFICATION FairSpec
CONSTANTS
    w1 = w1
    w2 = w2
    p1 = p1
    p2 = p2
    m1 = m1
    m2 = m2
    c1 = c1
    t1 = t1
    kp = kp
    kw = kw
    pub1 = pub1
    pub2 = pub2
    pubw = pubw
    MaxDevices = 1
    MaxStops = 1
    Threads <- MCThreads
    Merchants <- MCMerchants
    Clients <- MCClients
    Terminals <- MCTerminals
    KeyIds <- MCKeyIds
    PubKeys <- MCPubKeys
    Tills <- MCTills
    Config <- MCConfig
    Staff <- MCStaff
    Phones <- MCPhones
INVARIANTS
    ProfileIsRegistered
PROPERTIES
    BindingsAreForever
    EnrolledEventually
CHECK_DEADLOCK FALSE
