\* A ring filled to its last slot.
CONSTANTS
    MAX_ORDERS = 4
    RingLimit  = 4
    NumOrders  = 5
    Prices     = {2}
    Quantities = {1}
    INT64_MAX  = 9
    Orders <- MCOrders
    Quotes = {}
SPECIFICATION FairSpec
CHECK_DEADLOCK FALSE
PROPERTY MatchReturns
