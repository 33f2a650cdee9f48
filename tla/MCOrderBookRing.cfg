\* One price, more orders than slots: the rings wrap around.  Quotes of the
\* simulator come in between.
CONSTANTS
    MAX_ORDERS = 4
    RingLimit  = 3
    NumOrders  = 6
    Prices     = {2}
    Quantities = {0, 1}
    INT64_MAX  = 9
    Orders <- MCOrders
    Quotes <- MCQuotes
SPECIFICATION FairSpec
INVARIANTS
    NoOrderLost
    LevelCounters
PROPERTIES
    MatchReturns
    ImplementsLimitOrderBook
