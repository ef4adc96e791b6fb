---------------------------- MODULE MCLogTarget ----------------------------
(* Constant values for the run of LogTarget.                               *)
EXTENDS LogTarget, TLC

Symmetry == Permutations(Threads) \cup Permutations(Pointers) \cup Permutations(Fields)

OpenFaults == {"open"}
EitherCallback == BOOLEAN
Returning == [level \in MessageLevels |-> {"return"}]

(* The object has room for the short name.                                 *)
FileNames == {"short", "long", "longest"}
Lengths == [n \in FileNames |-> CASE n = "short" -> 1 [] n = "long" -> 2 [] n = "longest" -> 3]
============================================================================
