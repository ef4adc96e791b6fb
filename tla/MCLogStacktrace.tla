-------------------------- MODULE MCLogStacktrace --------------------------
(* Constant values for the runs of LogStacktrace.                          *)
EXTENDS LogStacktrace, TLC

Symmetry == Permutations(Threads)

NoFaults == {}
AllFaults == FaultKinds
OpenFaults == {"open"}

EitherCallback == BOOLEAN
WithCallback == {TRUE}

Returning == [level \in MessageLevels |-> {"return"}]
Relogging == [level \in MessageLevels |-> {"return", "relog"}]
Throwing  == [level \in MessageLevels |-> {"return", "throw"}]
Mixed     == [Throwing EXCEPT !["WARN"] = {"return", "relog"}]
Anything  == [level \in MessageLevels |-> {"return", "throw", "relog"}]
============================================================================
