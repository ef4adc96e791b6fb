\* One thread that a signal strikes while it puts an entry together.
SPECIFICATION SystemSpec
CONSTANTS
    Threads = {t1}
    NoThread = NoThread
    MaxDepth = 1
    MaxCalls = 1
    Parts = 1
    Faults <- NoFaults
    CallbackMay <- Returning
    CallbackAtStart <- WithCallback
    CallbackChanges = FALSE
    Signals = {SIGSEGV, SIGABRT}
    Strikes = {SIGSEGV}
    FaultSignals = {SIGSEGV}
    StackSignal = SIGSEGV
    AbortSignal = SIGABRT
    AltStack = {t1}
    RecordParts = 1
    CrashFaults = {}
    HeldLocks = {"timezone"}
PROPERTY
    CrashEndsSystem
CHECK_DEADLOCK FALSE
