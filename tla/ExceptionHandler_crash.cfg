\* Two threads, one call or uncaught exception each, that SIGSEGV strikes.
SPECIFICATION SystemSpec
CONSTANTS
    Threads = {t1, t2}
    NoThread = NoThread
    MaxDepth = 1
    MaxCalls = 1
    Parts = 2
    Faults <- NoFaults
    CallbackMay <- Returning
    CallbackAtStart <- WithCallback
    CallbackChanges = TRUE
    Signals = {SIGSEGV, SIGABRT}
    Strikes = {SIGSEGV}
    FaultSignals = {SIGSEGV}
    StackSignal = SIGSEGV
    AbortSignal = SIGABRT
    AltStack = {t1}
    RecordParts = 1
    CrashFaults = {"write"}
    HeldLocks = {}
INVARIANT
    EntriesUnmixed
PROPERTY
    CrashEndsSystem
CHECK_DEADLOCK FALSE
