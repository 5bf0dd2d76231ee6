CONSTANTS
    o1 = o1
    o2 = o2
    x1 = x1
    x2 = x2
    Closed = Closed
    Nobody = Nobody
    Ops <- MCOps
    Invalid <- MCInvalid
    Workers <- MCWorkers
    Windows <- MCWindows
    WindowOf <- MCOtherWindow
SPECIFICATION FairSpec
INVARIANT LocalStateIsTrue
INVARIANT RecoveryMatchesEvidence
PROPERTY SettlesOnce
PROPERTY AcceptedIsReported
PROPERTY ResolutionIsRecovered
CHECK_DEADLOCK FALSE
