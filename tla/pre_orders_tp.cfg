\* A take-profit closes the newest row, not the row of its own entry.
SPECIFICATION Spec
CONSTANTS
    Levels <- MCLevels
    Retries = 3
    BanAfter = 1
    MaxOrders = 3
    MaxRestarts = 0
CHECK_DEADLOCK FALSE
PROPERTY TpClosesOwnRow
