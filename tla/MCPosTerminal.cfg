CONSTANTS
    op1 = op1
    p1 = p1
    p2 = p2
    p3 = p3
    w1 = w1
    w2 = w2
    Nobody = Nobody
    Ops <- MCOps
    Phones <- MCPhones
    Trusted <- MCTrusted
    Workers <- MCWorkers
    Stamps <- MCStamps
SPECIFICATION FairSpec
INVARIANT EvidenceIsOfOneGrant
INVARIANT OneAckPerOperation
PROPERTY AcceptanceStays
PROPERTY AckReachesPhone
CHECK_DEADLOCK FALSE
