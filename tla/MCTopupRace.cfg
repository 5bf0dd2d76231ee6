SPECIFICATION Spec
CONSTANTS
    Orders <- MCOrders
    Approved <- MCApproved
    Movements <- MCMovements
    Opening = 2
INVARIANTS
    BalancesAgree
CHECK_DEADLOCK FALSE
