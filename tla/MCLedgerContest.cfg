SPECIFICATION Spec
CONSTANTS
    w1 = w1
    m = m
    a1 = a1
    a2 = a2
    o1 = o1
    o2 = o2
    o3 = o3
    kw = kw
    kp = kp
    Merchant = m
    NoRequest = NoRequest
    Wallets <- MCWallets
    Auths <- MCAuths
    Ops <- MCOps
    Keys <- MCKeys
    Evidence <- MCEvidence
    AckTimes <- MCAckTimes
    IssueRequests <- MCIssueRequests
    OpeningBalance <- MCOpeningBalance
    OpeningLegacy <- MCOpeningLegacy
    TopupRequests <- MCTopupRequests
    LegacyPayments <- MCLegacyPayments
    RevocationTimes = {}
    Threads <- MCThreads
INVARIANTS
    TypeOK
    Conservation
    EscrowCovered
    ContestedIndexReviewed
    BooksBalance
    OneGrantPerRequest
    EmissionsExplainCommitment
    RefusalsNeverArise
PROPERTIES
    ContestedNeverPaid
    NoGrantInReview
    RestartChangesNothing
    KeepsPromise
CHECK_DEADLOCK FALSE
