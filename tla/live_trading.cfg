SPECIFICATION Spec
CHECK_DEADLOCK FALSE
CONSTANTS
    Symbols = {btc, eth}
    Sides = {1}
    Drawdowns = {0}
    AutoRecover = TRUE
    MaxConcurrent = 1
    CooldownAfter = 1
    StopAfter = 1
    MaxTickets = 2
    MaxNet = 1
    MaxRestarts = 1
    MaxRecoveries = 2
SYMMETRY MCSymmetry
INVARIANTS
    TypeOK
    SlotsRespected
    TrailingTracks
    RecordedOnce
    StraysExplained
PROPERTY KeepsBook
