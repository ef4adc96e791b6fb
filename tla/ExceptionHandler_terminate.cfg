\* Two threads with uncaught exceptions, in any callback and on any call; the
\* only signal is what abort() raises.
SPECIFICATION SystemSpec
CONSTANTS
    Threads = {t1, t2}
    NoThread = NoThread
    MaxDepth = 2
    MaxCalls = 2
    Parts = 1
    Faults <- AllocFaults
    CallbackMay <- Throwing
    CallbackAtStart <- WithCallback
    CallbackChanges = FALSE
    Signals = {SIGSEGV, SIGABRT}
    Strikes = {}
    FaultSignals = {SIGSEGV}
    StackSignal = SIGSEGV
    AbortSignal = SIGABRT
    AltStack = {t1}
    RecordParts = 1
    CrashFaults = {"open", "write"}
    HeldLocks = {}
INVARIANTS
    SystemTypeOK
    NoSelfDeadlockInSystem
    TerminateAccounted
PROPERTIES
    TerminateEndsProcess
CHECK_DEADLOCK FALSE
