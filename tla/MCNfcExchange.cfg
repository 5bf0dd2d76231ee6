SPECIFICATION NfcFairSpec
CONSTANTS
    op1 = op1
    op2 = op2
    p1 = p1
    p2 = p2
    w1 = w1
    w2 = w2
    Nobody = Nobody
    MaxReads = 2
    Ops <- MCOps
    Phones <- MCPhones
    Trusted <- MCTrusted
    Workers <- MCWorkers
    Stamps <- MCStamps
    Size <- MCSize
    Scenes <- MCScenes
PROPERTIES
    ExchangeIsAtomic
    SignedIsAcknowledged
CHECK_DEADLOCK FALSE
