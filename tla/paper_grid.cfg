\* Two levels of two symbols, three positions, one reset and one restart.  CLOSE_ALL
\* takes the branch of TP_HIT; RECENTER and SETUP speak of level 0 and find nothing.
SPECIFICATION Spec
CONSTANTS
    Symbols = {btc, eth}
    Acts = {"FILL", "TP_HIT"}
    Levels <- MCLevels
    QueueCap = 1
    MaxExposure = 3
    MaxOpens = 3
    MaxCrashes = 1
SYMMETRY MCSymmetry
INVARIANTS
    TypeOK
    RowsTracked
    RunRowsReachable
    PaperCoversRows
    TradesAccounted
PROPERTIES
    SignalClosesOwnOrder
    KeepsBook
