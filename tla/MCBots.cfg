\* Pairs of bots through seven snapshots, which may lose a side of the book.
CONSTANTS
    Parties <- MCParties
    Views <- MCViews
    FirstId <- MCFirstId
    INT64_MAX  = 1000
    MaxOpen    = 2
    Ttl        = 3
    SpikeTtl   = 4
    Cooldown   = 5
    Period     = 2
    BasePrice  = 100
    MakerSpread = 10
    SpreadThreshold = 5
    MomentumThreshold = 15
    Lookback   = 3
    ZThreshold = 1
    Capacity   = 3
    MaxTurns   = 7
SPECIFICATION Spec
CHECK_DEADLOCK FALSE
INVARIANTS
    RateLimited
    IdsDistinct
