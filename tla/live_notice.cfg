SPECIFICATION FairSpec
CHECK_DEADLOCK FALSE
CONSTANTS
    Symbols = {btc}
    Sides = {1}
    Drawdowns = {0}
    AutoRecover = TRUE
    MaxConcurrent = 1
    CooldownAfter = 1
    StopAfter = 2
    MaxTickets = 2
    MaxNet = 2
    MaxRestarts = 0
    MaxRecoveries = 0
PROPERTIES FillNoticed
