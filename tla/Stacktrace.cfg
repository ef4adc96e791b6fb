\* Every configuration, call stacks up to and beyond the buffer.
SPECIFICATION TraceSpec
CONSTANTS
    LineLimit = 20
    BufferSize = 4
    Systems = {"Linux", "Darwin", "other"}
    Depths = {4, 7}
    BoostDepths = {3}
    LibraryFrames = {1, 2, 3}
INVARIANTS
    TraceTypeOK
    OneBackEnd
    CallerCaptured
    PlaceIsWhole
CHECK_DEADLOCK FALSE
