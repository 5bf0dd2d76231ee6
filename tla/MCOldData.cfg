SPECIFICATION OldDataSpec
CONSTANTS
    w1 = w1
    m = m
    a1 = a1
    a2 = a2
    o1 = o1
    o2 = o2
    o3 = o3
    n1 = n1
    n2 = n2
    Merchant = m
    Wallets <- MCWallets
    Auths <- MCAuths
    Holder <- MCHolder
    OpeningBudget <- MCOpeningBudget
    OpeningCount <- MCOpeningCount
    OpeningBalance <- MCOpeningBalance
    Ops <- MCOps
    Nonces <- MCNonces
    Receipts <- MCReceipts
    Acks <- MCAcks
    Threads <- MCTwoThreads
    c1 = c1
    c2 = c2
    p1 = p1
    p2 = p2
    p3 = p3
    p4 = p4
    p5 = p5
    u1 = u1
    u2 = u2
    up1 = up1
    up2 = up2
    Contracts <- MCContracts
    WalletOf <- MCWalletOf
    OldRow <- MCOldRow
    History <- MCHistory
    Damaged <- MCDamaged
    Proven <- MCDamaged
    Users <- MCUsers
    LateClaims <- MCLateClaims
    Starters <- MCStarters
INVARIANTS
    BudgetMatchesLedger
    NoncePaidOnce
    AcceptedWasInventoried
    StartsConverge
    AmbiguityIsReviewed
    SchemaMatchesVersion
PROPERTIES
    RestoredIsUncontested
CHECK_DEADLOCK FALSE
