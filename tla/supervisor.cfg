\* One restart, one child dying, one change of the files, one slot; two messages
\* fill a control queue.  No deadlock check: the system may stop.
SPECIFICATION Spec
CONSTANTS
    Faulty <- MCFaulty
    CtlCap = 2
    EventCap = 1
    MaxRequests = 1
    MaxCrashes = 1
    MaxEdits = 1
    MaxSlots = 1
CHECK_DEADLOCK FALSE
INVARIANTS
    TypeOK
    SameConfig
    StoppedMeansDown
PROPERTY KeepsGenerations
