---------------------------- MODULE LogService -----------------------------
(***************************************************************************)
(* What LogStacktrace promises, without threads, locks or streams: a log   *)
(* service that records calls one at a time, in the order it accepted      *)
(* them, and that may be broken for good by an exception.                  *)
(***************************************************************************)
EXTENDS Naturals, Sequences

CONSTANT CallIds    \* the calls that may be made, each at most once

VARIABLES
    queue,      \* the accepted calls that are not done, in service order
    recorded,   \* the calls whose entry is in the log file
    jammed      \* an exception has left the service shut

vars == <<queue, recorded, jammed>>

Init ==
    /\ queue = <<>>
    /\ recorded = {}
    /\ jammed = FALSE

(* A call is accepted when at most one other, already past its report, is  *)
(* still finishing.                                                        *)
Accept(c) ==
    /\ ~jammed
    /\ Len(queue) < 2
    /\ c \notin recorded
    /\ \A i \in DOMAIN queue : queue[i] # c
    /\ queue' = Append(queue, c)
    /\ UNCHANGED <<recorded, jammed>>

(* The entry of the call being served is complete.                         *)
Record ==
    /\ queue # <<>>
    /\ Head(queue) \notin recorded
    /\ recorded' = recorded \cup {Head(queue)}
    /\ UNCHANGED <<queue, jammed>>

(* It is done: recorded, or given up on.                                   *)
Leave ==
    /\ queue # <<>>
    /\ queue' = Tail(queue)
    /\ UNCHANGED <<recorded, jammed>>

(* An exception comes out of it: whoever it was is still served to its     *)
(* end, and no call is accepted any more.                                  *)
Jam ==
    /\ ~jammed
    /\ Len(queue) = 1
    /\ jammed' = TRUE
    /\ UNCHANGED <<queue, recorded>>

Next == (\E c \in CallIds : Accept(c)) \/ Record \/ Leave \/ Jam

Spec == Init /\ [][Next]_vars
============================================================================
