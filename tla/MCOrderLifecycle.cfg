\* Three orders, of which three lots are too many for the risk check; room for two.
CONSTANTS
    MAX_ORDERS = 4
    RingLimit  = 3
    NumOrders  = 3
    Prices     = {0, 1, 63}
    Quantities = {1, 2, 3}
    LimitPrices = {1}
    Types      = {"LIMIT"}
    INT64_MAX  = 63
    WORD       = 16
    Limit      = 2
    QUEUE_SIZE = 1
    POOL       = 2
    Orders <- MCOrders
    Quotes = {}
SPECIFICATION FairLifeSpec
CHECK_DEADLOCK FALSE
INVARIANTS
    WorkerSeesLiveOrders
    KeptForAReason
    RiskCheckBinds
PROPERTIES
    FinishedAreSwept
    ShutdownEnds
