\* Two threads with nested calls, every fault and every callback.
SPECIFICATION FairSpec
CONSTANTS
    Threads = {t1, t2}
    NoThread = NoThread
    MaxDepth = 2
    MaxCalls = 2
    Parts = 2
    Faults <- AllFaults
    CallbackMay <- Anything
    CallbackAtStart <- EitherCallback
    CallbackChanges = TRUE
INVARIANTS
    TypeOK
    OneAdmitted
    MutexFollowsScope
    NoSelfDeadlock
    EntriesContiguous
PROPERTIES
    AppendUnderMutex
    EveryCallReturns
    FlagReleased
CHECK_DEADLOCK FALSE
