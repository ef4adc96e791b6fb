\* Two threads that log once each, with nothing going wrong.
SPECIFICATION Spec
CONSTANTS
    Threads = {t1, t2}
    NoThread = NoThread
    MaxDepth = 2
    MaxCalls = 1
    Parts = 1
    Faults <- NoFaults
    CallbackMay <- Returning
    CallbackAtStart <- WithCallback
    CallbackChanges = FALSE
INVARIANT
    RejectedMeansReentrant
CHECK_DEADLOCK FALSE
