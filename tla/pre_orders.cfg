\* One symbol, a buy and a sell level, three orders in all, one restart of P3.
\* A behaviour ends when the order and restart bounds are used up.
SPECIFICATION FairSpec
CONSTANTS
    Levels <- MCLevels
    Retries = 2
    BanAfter = 1
    MaxOrders = 3
    MaxRestarts = 1
CHECK_DEADLOCK FALSE
INVARIANTS
    TypeOK
    RecordedOnce
    BannedTracksNone
PROPERTIES
    GoneSettled
    KeepsLife
