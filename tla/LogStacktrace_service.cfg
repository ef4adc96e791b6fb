\* Three threads, so that one can finish, one wait and one be turned away.
SPECIFICATION Spec
CONSTANTS
    Threads = {t1, t2, t3}
    NoThread = NoThread
    MaxDepth = 2
    MaxCalls = 2
    Parts = 2
    Faults <- OpenFaults
    CallbackMay <- Mixed
    CallbackAtStart <- WithCallback
    CallbackChanges = FALSE
SYMMETRY Symmetry
INVARIANTS
    NoSilentLoss
    ReportsMatchLog
PROPERTY
    ImplementsLogService
CHECK_DEADLOCK FALSE
