------------------------ MODULE MCExceptionHandler -------------------------
(* Constant values for the runs of ExceptionHandler.                       *)
EXTENDS ExceptionHandler, TLC

NoFaults == {}
AllocFaults == {"alloc"}

EitherCallback == BOOLEAN
Returning == [level \in MessageLevels |-> {"return"}]
Throwing  == [level \in MessageLevels |-> {"return", "throw"}]
Anything  == [level \in MessageLevels |-> {"return", "throw", "relog"}]
WithCallback == {TRUE}
OpenFaults == {"open"}
============================================================================
