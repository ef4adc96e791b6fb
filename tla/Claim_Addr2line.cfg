\* The Linux build, with everything found that can be found.
SPECIFICATION TraceSpec
CONSTANTS
    LineLimit = 20
    BufferSize = 4
    Systems = {"Linux"}
    Depths = {4, 7}
    BoostDepths = {3}
    LibraryFrames = {1, 2, 3}
INVARIANT
    PlaceOfProgram
CHECK_DEADLOCK FALSE
