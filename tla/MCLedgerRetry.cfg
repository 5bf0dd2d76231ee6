SPECIFICATION FairSpec
CONSTANTS
    w1 = w1
    m = m
    a1 = a1
    a2 = a2
    o1 = o1
    o2 = o2
    o3 = o3
    kw = kw
    kp = kp
    Merchant = m
    NoRequest = NoRequest
    Wallets <- MCWallets
    Auths <- MCAuths
    Ops <- MCOps
    Keys <- MCKeys
    Evidence <- MCEvidence
    AckTimes <- MCAckTimes
    IssueRequests <- MCIssueRequests
    OpeningBalance <- MCOpeningBalance
    OpeningLegacy <- MCOpeningLegacy
    TopupRequests = {}
    LegacyPayments = {}
    RevocationTimes <- MCRevocationTimes
    Threads <- MCThreads
INVARIANTS
    SealedHoldsWhatIsOwed
    ReviewHasCause
PROPERTIES
    DecisionsStand
    AcknowledgedIsResolved
CHECK_DEADLOCK FALSE
