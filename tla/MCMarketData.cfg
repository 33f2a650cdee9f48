\* Two ticks that replace the orders, near the highest price, where quotes are cut off.
CONSTANTS
    MAX_ORDERS = 2
    RingLimit  = 1
    NumOrders  = 6
    Orders <- MCOrders
    Prices <- MCPrices
    INT64_MAX  = 2000000
    InitialPrices = {999990}
    Deltas <- MCDeltas
    Spreads    = {5}
    MinPrice   = 100
    MaxPrice   = 1000000
    MinBid     = 1
    MaxAsk     = 999999
    Threshold  = 10
    Offset     = 10
    Lot        = 500
    Quantities = {500}
    Quotes     = {}
    Pools      = {2, 3, 4}
    NUM_NODES  = 3
    MaxTicks   = 2
SPECIFICATION FairMarketSpec
CHECK_DEADLOCK FALSE
INVARIANTS
    TwoSidedMarket
    BookHoldsLiveOrders
    RestartsAtLastPrice
PROPERTIES
    BookReachesBots
    ShutdownEnds
