\* Limit and market orders, a queue shorter than the run, cancels between orders.
CONSTANTS
    MAX_ORDERS = 4
    RingLimit  = 3
    NumOrders  = 3
    Prices     = {0, 1, 2, 63}
    Quantities = {1, 2}
    LimitPrices = {1, 2}
    Types      = {"LIMIT", "MARKET"}
    INT64_MAX  = 63
    WORD       = 16
    Limit      = 2
    QUEUE_SIZE = 2
    Orders <- MCOrders
    Quotes = {}
SPECIFICATION FairEngineSpec
INVARIANTS
    PositionsFlat
    ReportsCoverTrades
    MarketSweepsBook
    AverageIsPaid
PROPERTIES
    QueuedIsProcessed
