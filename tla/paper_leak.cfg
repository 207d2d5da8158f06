\* The monitor closes an open row.
SPECIFICATION Spec
CONSTANTS
    Symbols = {btc, eth}
    Acts = {"FILL", "TP_HIT"}
    Levels <- MCLevels
    QueueCap = 1
    MaxExposure = 3
    MaxOpens = 3
    MaxCrashes = 1
SYMMETRY MCSymmetry
INVARIANT ExecutorClosedToo
