--------------------------- MODULE LogStacktrace ---------------------------
(***************************************************************************)
(* ExceptionHandler::LogStacktrace (src/src/ExceptionHandler.cpp:229-269)  *)
(* called by several threads at once.  Two objects guard it: the atomic    *)
(* flag loggingInProgress, which turns away every call made while another  *)
(* one is being logged, and logMutex, taken after the flag and released    *)
(* after it.  The user's callback runs in the middle, and may return,      *)
(* throw, or call LogStacktrace again.                                     *)
(*                                                                         *)
(* A thread's stack holds one frame for each LogStacktrace call it is in.  *)
(* An exception thrown in a frame destroys its locals, as C++ unwinding    *)
(* does, and leaves the flag as it is.                                     *)
(***************************************************************************)
EXTENDS Naturals, Sequences, FiniteSets

CONSTANTS
    Threads,            \* the threads of the process
    NoThread,           \* the owner of an unlocked mutex
    MaxDepth,           \* bound: LogStacktrace frames on one thread's stack
    MaxCalls,           \* bound: LogStacktrace calls each thread makes
    Parts,              \* write(2) calls that one entry's text is split into
    Faults,             \* what the environment may refuse, of FaultKinds
    CallbackMay,        \* what the callback does with a message of each level
    CallbackAtStart,    \* the values logCallback_ may start with
    CallbackChanges     \* whether SetLogCallback is called during the run

FaultKinds == {"alloc", "open", "write"}
MessageLevels == {"WARN", "FATAL", "ERROR"}

ASSUME ThreadsAssumption  == NoThread \notin Threads
ASSUME BoundsAssumption   == MaxDepth \in Nat \ {0} /\ MaxCalls \in Nat
ASSUME PartsAssumption    == Parts \in Nat \ {0}
ASSUME FaultsAssumption   == Faults \subseteq FaultKinds
ASSUME CallbackAssumption ==
    /\ CallbackMay \in [MessageLevels -> SUBSET {"return", "throw", "relog"}]
    /\ CallbackAtStart \subseteq BOOLEAN
    /\ CallbackChanges \in BOOLEAN

VARIABLES
    loggingInProgress,  \* the std::atomic<bool>
    logMutex,           \* the thread that owns the std::mutex, or NoThread
    logCallback_,       \* whether the std::function holds a callback
    depth,              \* frames on each thread's stack
    frame,              \* the frames: frame[t][1] is the outermost
    calls,              \* calls each thread has made
    log,                \* the parts in the log file, in file order
    told                \* what was reported, and of which call

vars == <<loggingInProgress, logMutex, logCallback_, depth, frame, calls, log, told>>
----------------------------------------------------------------------------
(* A frame: where it is, what it is about to report (its branch of the     *)
(* function, or "THROWN" once an exception leaves it), the number of its   *)
(* call, and how many parts of its entry ofs still owes the file.          *)

Pcs == {"none", "exchange", "check", "invoke", "callback", "lock", "build",
        "open", "write", "clear", "close", "unlock", "return"}
Levels == MessageLevels \cup {"NONE", "THROWN"}
Frames == [pc : Pcs, level : Levels, call : 0..MaxCalls, unwritten : 0..Parts]

NoFrame == [pc |-> "none", level |-> "NONE", call |-> 0, unwritten |-> 0]

NewFrame(n) == [pc |-> "exchange", level |-> "NONE", call |-> n, unwritten |-> 0]

CallIds == Threads \X (1..MaxCalls)

Top(t) == frame[t][depth[t]]
At(t, pc) == depth[t] > 0 /\ Top(t).pc = pc
CallOf(t) == <<t, Top(t).call>>

Step(t, f) == frame' = [frame EXCEPT ![t][depth[t]] = f]
Goto(t, pc) == Step(t, [Top(t) EXCEPT !.pc = pc])
Report(t, level) == told' = told \cup {[call |-> CallOf(t), level |-> level]}

(* Faulty variant of After: an early return on the error path.             *)
AfterReturningEarly(level) ==
    CASE level = "WARN" -> "return" [] level = "ERROR" -> "close" [] OTHER -> "clear"

(* Faulty variant of Unwound: lock() and unlock() instead of a lock_guard. *)
UnwoundLocked(f) == [f EXCEPT !.level = "THROWN", !.pc = "return"]

(* Where a frame goes on after its report: line 241, or line 268.          *)
After(level) == IF level = "WARN" THEN "return" ELSE "clear"

(* Where unwinding takes it: the locals alive at pc are destroyed, ofs     *)
(* from "open" on and the lock_guard from "build" on.                      *)
Unwound(f) ==
    [f EXCEPT !.level = "THROWN",
              !.pc = IF f.level = "WARN" THEN "return"
                     ELSE IF f.pc = "build" THEN "unlock" ELSE "close"]

Push(t) ==
    /\ calls[t] < MaxCalls
    /\ depth[t] < MaxDepth
    /\ calls' = [calls EXCEPT ![t] = @ + 1]
    /\ depth' = [depth EXCEPT ![t] = @ + 1]
    /\ frame' = [frame EXCEPT ![t][depth[t] + 1] = NewFrame(calls[t] + 1)]
----------------------------------------------------------------------------
Init ==
    /\ loggingInProgress = FALSE
    /\ logMutex = NoThread
    /\ logCallback_ \in CallbackAtStart
    /\ depth = [t \in Threads |-> 0]
    /\ frame = [t \in Threads |-> [d \in 1..MaxDepth |-> NoFrame]]
    /\ calls = [t \in Threads |-> 0]
    /\ log = <<>>
    /\ told = {}

(* A thread's own code calls LogStacktrace, either overload.               *)
Call(t) ==
    /\ depth[t] = 0
    /\ Push(t)
    /\ UNCHANGED <<loggingInProgress, logMutex, logCallback_, log, told>>

(* Faulty variants: the flag is stored but not tested; a call is turned    *)
(* away without a word, or writes its entry at once; the mutex is not      *)
(* waited for; it is released with the flag; what the stream buffers is    *)
(* not flushed; a stream without anything left writes on.                  *)
AdmitUntested(t) ==
    /\ At(t, "exchange")
    /\ loggingInProgress' = TRUE
    /\ Goto(t, "lock")
    /\ UNCHANGED <<logMutex, logCallback_, depth, calls, log, told>>

RejectSilently(t) ==
    /\ At(t, "exchange")
    /\ loggingInProgress
    /\ Goto(t, "return")
    /\ UNCHANGED <<loggingInProgress, logMutex, logCallback_, depth, calls, log, told>>

RejectIntoEntry(t) ==
    /\ At(t, "exchange")
    /\ loggingInProgress
    /\ Goto(t, "build")
    /\ UNCHANGED <<loggingInProgress, logMutex, logCallback_, depth, calls, log, told>>

LockWithoutWaiting(t) ==
    /\ At(t, "lock")
    /\ logMutex' = t
    /\ Goto(t, "build")
    /\ UNCHANGED <<loggingInProgress, logCallback_, depth, calls, log, told>>

ClearAndUnlock(t) ==
    /\ At(t, "clear")
    /\ loggingInProgress' = FALSE
    /\ logMutex' = NoThread
    /\ Goto(t, "close")
    /\ UNCHANGED <<logCallback_, depth, calls, log, told>>

CloseUnflushed(t) ==
    /\ At(t, "close")
    /\ Goto(t, "unlock")
    /\ UNCHANGED <<loggingInProgress, logMutex, logCallback_, depth, calls, log, told>>

WriteTooFar(t) ==
    /\ At(t, "close")
    /\ log' = Append(log, [id |-> CallOf(t), part |-> Parts + 1 - Top(t).unwritten])
    /\ Step(t, [Top(t) EXCEPT !.unwritten = @ - 1])
    /\ UNCHANGED <<loggingInProgress, logMutex, logCallback_, depth, calls, told>>

(* loggingInProgress.exchange(true) finds the flag clear.                  *)
Admit(t) ==
    /\ At(t, "exchange")
    /\ ~loggingInProgress
    /\ loggingInProgress' = TRUE
    /\ Goto(t, "lock")
    /\ UNCHANGED <<logMutex, logCallback_, depth, calls, log, told>>

(* ... or set: only a warning is reported.                                 *)
Reject(t) ==
    /\ At(t, "exchange")
    /\ loggingInProgress
    /\ Step(t, [Top(t) EXCEPT !.pc = "check", !.level = "WARN"])
    /\ UNCHANGED <<loggingInProgress, logMutex, logCallback_, depth, calls, log, told>>

Lock(t) ==
    /\ At(t, "lock")
    /\ logMutex = NoThread
    /\ logMutex' = t
    /\ Goto(t, "build")
    /\ UNCHANGED <<loggingInProgress, logCallback_, depth, calls, log, told>>

(* BuildLogContent.                                                        *)
Build(t) ==
    /\ At(t, "build")
    /\ Goto(t, "open")
    /\ UNCHANGED <<loggingInProgress, logMutex, logCallback_, depth, calls, log, told>>

(* The std::ofstream constructor opens the file for appending.             *)
Open(t) ==
    /\ At(t, "open")
    /\ Step(t, [Top(t) EXCEPT !.pc = "write", !.unwritten = Parts])
    /\ UNCHANGED <<loggingInProgress, logMutex, logCallback_, depth, calls, log, told>>

OpenFails(t) ==
    /\ At(t, "open")
    /\ "open" \in Faults
    /\ Step(t, [Top(t) EXCEPT !.pc = "check", !.level = "ERROR"])
    /\ UNCHANGED <<loggingInProgress, logMutex, logCallback_, depth, calls, log, told>>

(* The stream puts the next part into the file: while ofs << content runs, *)
(* or, for what it still buffers, in the destructor of ofs.                *)
NextPart(t) == [id |-> CallOf(t), part |-> Parts + 1 - Top(t).unwritten]

WritePart(t) ==
    /\ At(t, "write") \/ At(t, "close")
    /\ Top(t).unwritten > 0
    /\ log' = Append(log, NextPart(t))
    /\ Step(t, [Top(t) EXCEPT !.unwritten = @ - 1])
    /\ UNCHANGED <<loggingInProgress, logMutex, logCallback_, depth, calls, told>>

(* write(2) fails: badbit is set, nobody looks at it, the rest is dropped. *)
WriteFails(t) ==
    /\ At(t, "write") \/ At(t, "close")
    /\ Top(t).unwritten > 0
    /\ "write" \in Faults
    /\ Step(t, [Top(t) EXCEPT !.unwritten = 0])
    /\ UNCHANGED <<loggingInProgress, logMutex, logCallback_, depth, calls, log, told>>

(* ofs << content returns, with whatever is left in its buffer.            *)
Inserted(t) ==
    /\ At(t, "write")
    /\ Step(t, [Top(t) EXCEPT !.pc = "check", !.level = "FATAL"])
    /\ UNCHANGED <<loggingInProgress, logMutex, logCallback_, depth, calls, log, told>>

(* if (logCallback_), in each of the three branches; without a callback    *)
(* the message goes to std::cerr.                                          *)
CheckCallback(t) ==
    /\ At(t, "check")
    /\ logCallback_
    /\ Goto(t, "invoke")
    /\ UNCHANGED <<loggingInProgress, logMutex, logCallback_, depth, calls, log, told>>

ReportToStderr(t) ==
    /\ At(t, "check")
    /\ ~logCallback_
    /\ Report(t, Top(t).level)
    /\ Goto(t, After(Top(t).level))
    /\ UNCHANGED <<loggingInProgress, logMutex, logCallback_, depth, calls, log>>

(* logCallback_(level, message): SetLogCallback may have emptied it since  *)
(* the check, and calling an empty std::function throws.                   *)
InvokeCallback(t) ==
    /\ At(t, "invoke")
    /\ logCallback_
    /\ Report(t, Top(t).level)
    /\ Goto(t, "callback")
    /\ UNCHANGED <<loggingInProgress, logMutex, logCallback_, depth, calls, log>>

InvokeEmptyCallback(t) ==
    /\ At(t, "invoke")
    /\ ~logCallback_
    /\ Step(t, Unwound(Top(t)))
    /\ UNCHANGED <<loggingInProgress, logMutex, logCallback_, depth, calls, log, told>>

CallbackReturns(t) ==
    /\ At(t, "callback")
    /\ "return" \in CallbackMay[Top(t).level]
    /\ Goto(t, After(Top(t).level))
    /\ UNCHANGED <<loggingInProgress, logMutex, logCallback_, depth, calls, log, told>>

(* The callback throws, or lets through what a call it made has thrown.    *)
CallbackThrows(t) ==
    /\ At(t, "callback")
    /\ "throw" \in CallbackMay[Top(t).level]
    /\ Step(t, Unwound(Top(t)))
    /\ UNCHANGED <<loggingInProgress, logMutex, logCallback_, depth, calls, log, told>>

CallbackRelogs(t) ==
    /\ At(t, "callback")
    /\ "relog" \in CallbackMay[Top(t).level]
    /\ Push(t)
    /\ UNCHANGED <<loggingInProgress, logMutex, logCallback_, log, told>>

(* std::bad_alloc while the entry or a message is put together.            *)
AllocFails(t) ==
    /\ At(t, "build") \/ At(t, "check")
    /\ "alloc" \in Faults
    /\ Step(t, Unwound(Top(t)))
    /\ UNCHANGED <<loggingInProgress, logMutex, logCallback_, depth, calls, log, told>>

(* loggingInProgress = false, before the locals are destroyed.             *)
Clear(t) ==
    /\ At(t, "clear")
    /\ loggingInProgress' = FALSE
    /\ Goto(t, "close")
    /\ UNCHANGED <<logMutex, logCallback_, depth, calls, log, told>>

(* The destructor of ofs is done, then the destructor of lock runs.        *)
Close(t) ==
    /\ At(t, "close")
    /\ Top(t).unwritten = 0
    /\ Goto(t, "unlock")
    /\ UNCHANGED <<loggingInProgress, logMutex, logCallback_, depth, calls, log, told>>

Unlock(t) ==
    /\ At(t, "unlock")
    /\ logMutex' = NoThread
    /\ Goto(t, "return")
    /\ UNCHANGED <<loggingInProgress, logCallback_, depth, calls, log, told>>

(* The call is over, normally or with an exception for its caller.         *)
Return(t) ==
    /\ At(t, "return")
    /\ IF Top(t).level = "THROWN" THEN Report(t, "THROWN") ELSE UNCHANGED told
    /\ Step(t, NoFrame)
    /\ depth' = [depth EXCEPT ![t] = @ - 1]
    /\ UNCHANGED <<loggingInProgress, logMutex, logCallback_, calls, log>>

(* SetLogCallback takes no lock: it can run between any two steps.         *)
SetLogCallback ==
    /\ CallbackChanges
    /\ logCallback_' = ~logCallback_
    /\ UNCHANGED <<loggingInProgress, logMutex, depth, frame, calls, log, told>>

(* What a thread inside LogStacktrace does once it is scheduled.           *)
Progress(t) ==
    \/ Admit(t) \/ Reject(t) \/ Lock(t) \/ Build(t) \/ Open(t) \/ OpenFails(t)
    \/ WritePart(t) \/ WriteFails(t) \/ Inserted(t)
    \/ CheckCallback(t) \/ ReportToStderr(t)
    \/ InvokeCallback(t) \/ InvokeEmptyCallback(t)
    \/ CallbackReturns(t) \/ CallbackThrows(t) \/ AllocFails(t)
    \/ Clear(t) \/ Close(t) \/ Unlock(t) \/ Return(t)

Next ==
    \/ \E t \in Threads : Call(t) \/ Progress(t) \/ CallbackRelogs(t)
    \/ SetLogCallback

Spec == Init /\ [][Next]_vars

(* The scheduler runs every thread again and again, a callback returns or  *)
(* throws in the end; nothing has to call LogStacktrace.                   *)
Fairness == \A t \in Threads : WF_vars(Progress(t))

FairSpec == Spec /\ Fairness
----------------------------------------------------------------------------
(***************************************************************************)
(* Properties.                                                             *)
(***************************************************************************)

TypeOK ==
    /\ loggingInProgress \in BOOLEAN
    /\ logMutex \in Threads \cup {NoThread}
    /\ logCallback_ \in BOOLEAN
    /\ depth \in [Threads -> 0..MaxDepth]
    /\ frame \in [Threads -> [1..MaxDepth -> Frames]]
    /\ calls \in [Threads -> 0..MaxCalls]
    /\ log \in Seq([id : CallIds, part : 1..Parts])
    /\ told \subseteq [call : CallIds, level : Levels]

(* The frame was admitted by the flag and has not cleared it.              *)
Admitted(f) ==
    /\ f.level # "WARN"
    /\ f.pc \in {"lock", "build", "open", "write", "check", "invoke", "callback", "clear"}

(* The lock_guard of the frame is alive.                                   *)
Locked(f) ==
    /\ f.level # "WARN"
    /\ f.pc \in {"build", "open", "write", "check", "invoke", "callback", "clear",
                 "close", "unlock"}

Inside(t, d)  == Admitted(frame[t][d])
Holding(t, d) == Locked(frame[t][d])

(* Between the exchange and the store of false there is at most one call   *)
(* in the whole process, however callbacks nest, and the flag stays set    *)
(* for all of that time.  So at most one call waits for the mutex.         *)
OneAdmitted ==
    \A t, u \in Threads, d, e \in 1..MaxDepth :
        Inside(t, d) =>
            /\ loggingInProgress
            /\ Inside(u, e) => t = u /\ d = e

(* The mutex is owned by exactly the thread whose lock_guard is alive: an  *)
(* exception, from wherever it is thrown, never leaves it locked.          *)
MutexFollowsScope ==
    \A t \in Threads :
        logMutex = t <=> \E d \in 1..MaxDepth : Holding(t, d)

(* A thread never waits for the non-recursive mutex it owns itself, as it  *)
(* would if a callback's nested call got past the flag.                    *)
NoSelfDeadlock ==
    \A t \in Threads : At(t, "lock") => logMutex # t

(* In the file every part that is not an entry's first follows the part    *)
(* before it directly: entries of different calls never mix, and no part   *)
(* is repeated, also when the stream flushes after the flag is cleared.    *)
EntriesContiguous ==
    \A i \in DOMAIN log :
        \/ log[i].part = 1 /\ \A j \in 1..(i - 1) : log[j].id # log[i].id
        \/ i > 1 /\ log[i] = [log[i - 1] EXCEPT !.part = @ + 1]

InLog(c) == \E i \in DOMAIN log : log[i].id = c
Whole(c) == [id |-> c, part |-> Parts] \in {log[i] : i \in DOMAIN log}
Told(c, level) == [call |-> c, level |-> level] \in told
Finished(c) ==
    /\ c[2] <= calls[c[1]]
    /\ \A d \in 1..MaxDepth : frame[c[1]][d].call # c[2]

(* While the file accepts what is written to it, a call that is over left  *)
(* its entry whole in the file, or the warning or the error was reported,  *)
(* or its caller got an exception.                                         *)
NoSilentLoss ==
    "write" \notin Faults =>
        \A c \in CallIds :
            Finished(c) =>
                \/ Whole(c)
                \/ \E level \in {"WARN", "ERROR", "THROWN"} : Told(c, level)

(* The reports tell the truth about the file: after a warning or an open   *)
(* error nothing of the call is in it, and after the success report the    *)
(* entry is whole once the call is over.                                   *)
ReportsMatchLog ==
    \A c \in CallIds :
        /\ Told(c, "WARN") \/ Told(c, "ERROR") => ~InLog(c)
        /\ Told(c, "FATAL") /\ Finished(c) /\ "write" \notin Faults => Whole(c)

(* Bytes reach the file only from the thread that owns the mutex, the      *)
(* bytes that the destructor of ofs flushes included.                      *)
AppendUnderMutex ==
    [][log' # log =>
          \E t \in Threads :
              /\ logMutex = t /\ logMutex' = t
              /\ \E p \in [id : {t} \X (1..MaxCalls), part : 1..Parts] : log' = Append(log, p)]_vars

(* Every call ends: no interleaving, nesting, fault or exception makes a   *)
(* thread wait for ever.                                                   *)
EveryCallReturns == \A t \in Threads : depth[t] > 0 ~> depth[t] = 0

(* Unless something throws inside it, LogStacktrace always becomes         *)
(* available again.                                                        *)
FlagReleased ==
    loggingInProgress ~> ~loggingInProgress \/ \E c \in CallIds : Told(c, "THROWN")

(* What the warning says: a call is turned away because it was made from   *)
(* inside another one, by a callback.                                      *)
RejectedMeansReentrant ==
    \A t \in Threads :
        At(t, "exchange") /\ loggingInProgress => depth[t] > 1
----------------------------------------------------------------------------
(***************************************************************************)
(* The log service that LogStacktrace implements.  Its queue is the owner  *)
(* of the mutex followed by the call that waits for it.                    *)
(***************************************************************************)
Activations == Threads \X (1..MaxDepth)

Owners  == {a \in Activations : Holding(a[1], a[2])}
Waiters == {a \in Activations : Inside(a[1], a[2]) /\ frame[a[1]][a[2]].pc = "lock"}

AsQueue(A) ==
    IF A = {} THEN <<>>
    ELSE LET a == CHOOSE a \in A : TRUE IN <<<<a[1], frame[a[1]][a[2]].call>>>>

Service == INSTANCE LogService WITH
    queue    <- AsQueue(Owners) \o AsQueue(Waiters),
    recorded <- {c \in CallIds : Whole(c)},
    jammed   <- loggingInProgress /\ ~\E a \in Activations : Inside(a[1], a[2])

(* Accepted calls are recorded one at a time and in the order in which     *)
(* they passed the flag; only an exception shuts the service.              *)
ImplementsLogService == Service!Spec
============================================================================
