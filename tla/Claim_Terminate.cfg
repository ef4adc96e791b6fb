\* Two threads, nothing goes wrong but an uncaught exception.
SPECIFICATION SystemSpec
CONSTANTS
    Threads = {t1, t2}
    NoThread = NoThread
    MaxDepth = 1
    MaxCalls = 1
    Parts = 1
    Faults <- NoFaults
    CallbackMay <- Returning
    CallbackAtStart <- WithCallback
    CallbackChanges = FALSE
    Signals = {SIGSEGV, SIGABRT}
    Strikes = {}
    FaultSignals = {SIGSEGV}
    StackSignal = SIGSEGV
    AbortSignal = SIGABRT
    AltStack = {t1}
    RecordParts = 1
    CrashFaults = {}
    HeldLocks = {}
INVARIANT
    TerminateRecords
CHECK_DEADLOCK FALSE
