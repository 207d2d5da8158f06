SPECIFICATION FairSpec
CHECK_DEADLOCK FALSE
CONSTANTS
    Base = {btc}
    Symbols = {sol, xrp}
    Frames = {5, 15}
    BatchSize = 2
    MaxBreaks = 2
INVARIANTS
    TypeOK
    AllAsked
    AskedOnce
PROPERTIES RequestServed
