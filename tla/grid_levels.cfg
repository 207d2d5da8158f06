SPECIFICATION Spec
CONSTANTS
    Symbols = {btc,eth}
    LevelCounts = {2}
    LongBias = 0
    MaxShift = 0
    MaxOpen = 1
    MaxSymbols = 1
    MinHold = FALSE
    QueueCap = 1
    MaxRestarts = 1
SYMMETRY MCSymmetry
INVARIANTS
    TypeOK
    HeldAnswered
    OpenBounded
    GridsBounded
PROPERTIES KeepsDeals
