\* Three threads that two signals strike at any moment.
SPECIFICATION CrashSpec
CONSTANTS
    Threads = {t1, t2, t3}
    NoThread = NoThread
    Signals = {SIGSEGV, SIGABRT}
    Strikes = {SIGSEGV, SIGABRT}
    FaultSignals = {SIGSEGV}
    StackSignal = SIGSEGV
    AltStack = {t1}
    RecordParts = 2
    CrashFaults = {"open"}
    HeldLocks = {"timezone", "heap"}
INVARIANTS
    CrashTypeOK
    OneRecorder
    RecordsUnmixed
    SingleCrashRecorded
PROPERTY
    CrashEndsProcess
CHECK_DEADLOCK FALSE
