\* One restart and one slot.  Children die by leftover stops, by kill() and in a
\* failed restart; the control queues are never full, as in the code (50).
SPECIFICATION FairSpec
CONSTANTS
    Faulty = {}
    CtlCap = 8
    EventCap = 1
    MaxRequests = 1
    MaxCrashes = 0
    MaxEdits = 0
    MaxSlots = 1
CHECK_DEADLOCK FALSE
PROPERTIES
    DeadRestarted
    SlotAnswered
    ActiveStreamed
    ShutdownCompletes
