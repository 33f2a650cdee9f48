\* Two prices, two sizes: partial fills, walks over two levels, lazy deletion.
\* The system stops when all orders have arrived and been cancelled or filled.
CONSTANTS
    MAX_ORDERS = 4
    RingLimit  = 3
    NumOrders  = 4
    Prices     = {1, 2}
    Quantities = {1, 2}
    INT64_MAX  = 9
    Orders <- MCOrders
    Quotes = {}
SPECIFICATION FairSpec
CHECK_DEADLOCK FALSE
INVARIANTS
    TypeOK
    InSync
    NotCrossed
    DepthIsLiveQuantity
    FillWithinLimit
    GhostLevelsOnlyByCancel
PROPERTIES
    ImplementsLimitOrderBook
