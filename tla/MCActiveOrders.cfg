\* One bot, all of whose orders are on one side, past the end of a countdown.
CONSTANTS
    Parties <- Alone
    Views <- MCViews
    FirstId <- MCFirstId
    INT64_MAX  = 1000
    MaxOpen    = 3
    Ttl        = 4
    SpikeTtl   = 5
    Cooldown   = 6
    Period     = 2
    BasePrice  = 100
    MakerSpread = 10
    SpreadThreshold = 5
    MomentumThreshold = 15
    Lookback   = 3
    ZThreshold = 1
    Capacity   = 8
    MaxTurns   = 8
SPECIFICATION Spec
CHECK_DEADLOCK FALSE
INVARIANT
    ActiveOrdersLimited
