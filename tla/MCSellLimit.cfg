\* One order, larger than the limit.
CONSTANTS
    MAX_ORDERS = 2
    RingLimit  = 1
    NumOrders  = 1
    Prices     = {0, 1, 63}
    Quantities = {3}
    LimitPrices = {1}
    Types      = {"LIMIT"}
    INT64_MAX  = 63
    WORD       = 16
    Limit      = 2
    QUEUE_SIZE = 1
    Orders <- MCOrders
    Quotes = {}
SPECIFICATION EngineSpec
INVARIANT AcceptedSellsWithinLimit
