\* Every program and test case, with and without the log of an earlier run.
SPECIFICATION SuiteSpec
CONSTANT
    Programs <- EveryProgram
INVARIANTS
    SuiteTypeOK
    EachFailureLoggedOnce
    ThrowPointShown
    RunTestContains
CHECK_DEADLOCK FALSE
