\* One thread calls Init and SetLogCallback and exits while two others log and
\* a signal strikes.
SPECIFICATION TargetSpec
CONSTANTS
    Threads = {t1, t2}
    NoThread = NoThread
    MaxDepth = 1
    MaxCalls = 1
    Parts = 1
    Faults <- OpenFaults
    CallbackMay <- Returning
    CallbackAtStart <- EitherCallback
    CallbackChanges = TRUE
    Names <- FileNames
    Length <- Lengths
    ShortSize = 1
    Callables = {p1, p2, c1}
    Pointers = {p1, p2}
    NoCallable = NoCallable
    Handlers = 2
    Fields = {date, time}
    MaxOperations = 2
SYMMETRY Symmetry
INVARIANTS
    TargetTypeOK
    NameOutlivesReaders
    CrashFileIsLogFile
    CallbackRunsWhole
    NoTimeOfAnotherEntry
CHECK_DEADLOCK FALSE
