SPECIFICATION EndpointsSpec
CONSTANTS
    Orders <- MCOrders
    Approved <- MCApproved
    Movements <- MCMovements
    Opening = 2
    Sessions = {s1, s2}
    Users = {u1, u2}
    Address = address
    MaximumAttempts = 2
INVARIANTS
    EventsExplainBalance
    OvershootBounded
PROPERTIES
    LockIsLifted
CHECK_DEADLOCK FALSE
