SPECIFICATION Spec
CONSTANTS
    w1 = w1
    m = m
    a1 = a1
    a2 = a2
    o1 = o1
    o2 = o2
    o3 = o3
    n1 = n1
    n2 = n2
    Merchant = m
    Wallets <- MCWallets
    Auths <- MCAuths
    Holder <- MCHolder
    OpeningBudget <- MCOpeningBudget
    OpeningCount <- MCOpeningCount
    OpeningBalance <- MCOpeningBalance
    Ops <- MCOps
    Nonces <- MCNonces
    Receipts <- MCReceipts
    Acks <- MCAcks
    Threads <- MCTwoThreads
PROPERTIES
    FinalRowIsForever
CHECK_DEADLOCK FALSE
