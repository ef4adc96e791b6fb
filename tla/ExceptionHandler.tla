-------------------------- MODULE ExceptionHandler -------------------------
(***************************************************************************)
(* The process after ExceptionHandler::Init: threads that call             *)
(* LogStacktrace (LogStacktrace.tla), signals that strike them at any step *)
(* (CrashPath.tla), and std::terminate, whose handler calls LogStacktrace  *)
(* and then _Exit(1) (src/src/ExceptionHandler.cpp:188-191).  Both paths   *)
(* append to the same file, and _Exit stops every thread where it is.      *)
(***************************************************************************)
EXTENDS LogStacktrace

CONSTANTS
    Signals, Strikes, FaultSignals, StackSignal, AltStack, RecordParts, CrashFaults,
    HeldLocks,
    AbortSignal         \* what abort() raises

ASSUME AbortAssumption == AbortSignal \in Signals
ASSUME SystemAssumption ==
    /\ StackSignal \in Signals
    /\ Strikes \cup FaultSignals \subseteq Signals
    /\ RecordParts \in Nat \ {0}
    /\ HeldLocks \subseteq {"timezone", "heap"}
    /\ Signals \cap (1..MaxCalls) = {}     \* a record's id is not an entry's

VARIABLES
    process, signalSafeBufferInUse, handlers, libcOwner,  \* as in CrashPath
    terminating     \* the call made by the thread's terminate handler, or 0

Crash == INSTANCE CrashPath WITH crashLog <- log

(* Everything but the file, which both paths write.                        *)
logVars == <<loggingInProgress, logMutex, logCallback_, depth, frame, calls, told>>
signalVars == <<process, signalSafeBufferInUse, handlers, libcOwner>>
systemVars == <<vars, signalVars, terminating>>
----------------------------------------------------------------------------
SystemInit ==
    /\ Init
    /\ Crash!CrashInit
    /\ terminating = [t \in Threads |-> 0]

(* Whether LogStacktrace has returned to the terminate handler.            *)
TerminateLogged(t) == terminating[t] > 0 /\ Finished(<<t, terminating[t]>>)

(* The thread can run the code of LogStacktrace or of its callers.         *)
Runs(t) == Crash!Running /\ ~Crash!InHandler(t) /\ ~TerminateLogged(t)

LogStep(t) ==
    /\ Runs(t)
    /\ Call(t) \/ Progress(t) \/ CallbackRelogs(t)
    /\ UNCHANGED <<signalVars, terminating>>

ChangeCallback ==
    /\ Crash!Running
    /\ SetLogCallback
    /\ UNCHANGED <<signalVars, terminating>>

(* The places where an exception that nobody catches can be thrown.  The   *)
(* C++ runtime then calls std::terminate without unwinding, so the thread  *)
(* keeps the flag and the mutex it has.                                    *)
MayThrow(t) ==
    \/ depth[t] = 0
    \/ At(t, "callback")
    \/ At(t, "invoke") /\ ~logCallback_
    \/ "alloc" \in Faults /\ (At(t, "build") \/ At(t, "check"))

Terminate(t) ==
    /\ Runs(t)
    /\ terminating[t] = 0
    /\ MayThrow(t)
    /\ Push(t)
    /\ terminating' = [terminating EXCEPT ![t] = calls[t] + 1]
    /\ UNCHANGED <<loggingInProgress, logMutex, logCallback_, log, told, signalVars>>

(* Faulty variant: the handler waits until no call is being logged.        *)
TerminateExitsIdle(t) ==
    /\ Crash!Running /\ ~Crash!InHandler(t)
    /\ TerminateLogged(t)
    /\ ~Told(<<t, terminating[t]>>, "THROWN")
    /\ ~loggingInProgress
    /\ process' = "exited"
    /\ UNCHANGED <<vars, signalSafeBufferInUse, handlers, libcOwner, terminating>>

(* _Exit(1) after the call.                                                *)
TerminateExits(t) ==
    /\ Crash!Running /\ ~Crash!InHandler(t)
    /\ TerminateLogged(t)
    /\ ~Told(<<t, terminating[t]>>, "THROWN")
    /\ process' = "exited"
    /\ UNCHANGED <<vars, signalSafeBufferInUse, handlers, libcOwner, terminating>>

(* An exception from a terminate handler makes the runtime call abort().   *)
TerminateAborts(t) ==
    /\ ~Crash!InHandler(t)
    /\ TerminateLogged(t)
    /\ Told(<<t, terminating[t]>>, "THROWN")
    /\ Crash!Raise(t, AbortSignal)
    /\ UNCHANGED <<logVars, terminating>>

(* The C library's locks that a thread's own code can hold: anything it    *)
(* does may allocate, and GetTimestamp calls localtime.                    *)
MayHold(t, lock) == lock = "timezone" => At(t, "build") \/ At(t, "check")

(* A signal strikes, also in the middle of LogStacktrace.                  *)
Strike(t) ==
    /\ \/ \E s \in Strikes :
            \/ Crash!Raise(t, s)
            \/ \E lock \in HeldLocks : MayHold(t, lock) /\ Crash!RaiseHolding(t, s, lock)
            \/ Crash!Fault(t, s)
       \/ StackSignal \in Strikes /\ Crash!Overflow(t)
    /\ UNCHANGED <<logVars, terminating>>

HandlerStep(t) == Crash!Handle(t) /\ UNCHANGED <<logVars, terminating>>

TerminateEnds(t) == TerminateExits(t) \/ TerminateAborts(t)

SystemNext ==
    \/ \E t \in Threads :
        LogStep(t) \/ Terminate(t) \/ TerminateEnds(t) \/ Strike(t) \/ HandlerStep(t)
    \/ ChangeCallback

(* While the process runs, the scheduler runs each of its threads again    *)
(* and again; nothing has to crash, terminate or call LogStacktrace.       *)
SystemFairness ==
    \A t \in Threads :
        /\ WF_systemVars(Runs(t) /\ Progress(t) /\ UNCHANGED <<signalVars, terminating>>)
        /\ WF_systemVars(TerminateEnds(t))
        /\ WF_systemVars(HandlerStep(t))

SystemSpec == SystemInit /\ [][SystemNext]_systemVars /\ SystemFairness
----------------------------------------------------------------------------
(* The crash path only ever adds parts of crash records to the file, so    *)
(* its own properties do not depend on what LogStacktrace writes.          *)
IsEntryPart(p) == p.id \in CallIds

SystemTypeOK ==
    /\ loggingInProgress \in BOOLEAN
    /\ frame \in [Threads -> [1..MaxDepth -> Frames]]
    /\ terminating \in [Threads -> 0..MaxCalls]
    /\ handlers \in [Threads -> Seq(Crash!HandlerFrames)]
    /\ \A i \in DOMAIN log : log[i].id \in CallIds \cup (Threads \X Signals)

(* Crash records may land inside an entry, but entries of different calls  *)
(* still never mix, with terminate handlers and handlers of signals        *)
(* running at the same time as other calls.                                *)
EntriesUnmixed ==
    \A i, j \in DOMAIN log :
        (i < j /\ IsEntryPart(log[i]) /\ log[i].id = log[j].id) =>
            /\ log[i].part < log[j].part
            /\ \A k \in i..j : IsEntryPart(log[k]) => log[k].id = log[i].id

(* A terminate handler that has come to _Exit has left its entry in the    *)
(* file, or it reported that it did not.                                   *)
TerminateAccounted ==
    \A t \in Threads :
        LET c == <<t, terminating[t]>> IN
        (TerminateLogged(t) /\ "write" \notin Faults) =>
            Whole(c) \/ \E level \in {"WARN", "ERROR", "THROWN"} : Told(c, level)

(* std::terminate ends the process, whatever locks and flags the throwing  *)
(* thread holds, and whatever the other threads do.                        *)
TerminateEndsProcess ==
    \A t \in Threads : terminating[t] > 0 ~> ~Crash!Running

(* So does a crash, in the middle of LogStacktrace or of the terminate     *)
(* handler.                                                                *)
CrashEndsSystem == (\E t \in Threads : Crash!InHandler(t)) ~> ~Crash!Running

(* No thread waits for the mutex it owns, although std::terminate runs     *)
(* LogStacktrace on top of a call that was not unwound.                    *)
NoSelfDeadlockInSystem == NoSelfDeadlock

(* What the documents say of the terminate handler: the stack trace is     *)
(* recorded, then the process exits.                                       *)
TerminateRecords ==
    \A t \in Threads :
        (process = "exited" /\ TerminateLogged(t) /\ ~Crash!InHandler(t)) =>
            \/ Whole(<<t, terminating[t]>>)
            \/ Told(<<t, terminating[t]>>, "ERROR")
            \/ Told(<<t, terminating[t]>>, "THROWN")
============================================================================
