----------------------------- MODULE CrashPath -----------------------------
(***************************************************************************)
(* What happens when one of the signals that ExceptionHandler::Init        *)
(* registers is delivered: SignalSafeLogStacktrace appends a crash record  *)
(* to the log file and the handler ends the process with _Exit(1)          *)
(* (src/src/ExceptionHandler.cpp:144-182 and 205).                         *)
(*                                                                         *)
(* A handler runs with only its own signal blocked (the mask is empty and  *)
(* SA_NODEFER is not set), so handlers of different signals nest on a      *)
(* thread, and every thread can be in one.  No handler ever returns.  The  *)
(* rest of the process is in ExceptionHandler.                             *)
(***************************************************************************)
EXTENDS Naturals, Sequences

CONSTANTS
    Threads,
    NoThread,
    Signals,            \* the signals registered by Init ...
    Strikes,            \* ... those that strike out of the blue ...
    FaultSignals,       \* ... those that a faulting instruction raises ...
    StackSignal,        \* ... and the one that a stack overflow raises
    AltStack,           \* the threads that called Init: sigaltstack is theirs only
    RecordParts,        \* write(2) calls of a crash record: header, trace, footer
    CrashFaults,        \* what the environment may refuse the handler
    HeldLocks           \* the C library's locks that a signal may find held

ASSUME CrashAssumption ==
    /\ NoThread \notin Threads
    /\ StackSignal \in Signals
    /\ Strikes \cup FaultSignals \subseteq Signals
    /\ AltStack \subseteq Threads
    /\ RecordParts \in Nat \ {0}
    /\ CrashFaults \subseteq {"open", "write"}
    /\ HeldLocks \subseteq {"timezone", "heap"}

VARIABLES
    process,                \* "running", "exited" by _Exit(1), or "killed"
    signalSafeBufferInUse,  \* the std::atomic<bool>
    handlers,               \* the handler frames on each thread, innermost last
    libcOwner,              \* who was stopped in the C library, holding its lock
    crashLog                \* the parts of crash records in the log file

crashVars == <<process, signalSafeBufferInUse, handlers, libcOwner, crashLog>>
----------------------------------------------------------------------------
(* What the handler's own calls of the C library wait for: localtime_r for *)
(* the time zone, the first backtrace for the heap.                        *)
LibcLocks == {"timezone", "heap"}

(* A handler frame: its signal, where it is, and the part to write next.   *)
HandlerPcs == {"exchange", "open", "timestamp", "write", "release", "exit"}
HandlerFrames == [sig : Signals, pc : HandlerPcs, part : 1..(RecordParts + 1)]

Running == process = "running"
InHandler(t) == handlers[t] # <<>>
Blocked(t) == {handlers[t][i].sig : i \in DOMAIN handlers[t]}
TopHandler(t) == handlers[t][Len(handlers[t])]
HandlerAt(t, pc) == Running /\ InHandler(t) /\ TopHandler(t).pc = pc

SetHandler(t, h) == handlers' = [handlers EXCEPT ![t][Len(handlers[t])] = h]
HandlerGoto(t, pc) == SetHandler(t, [TopHandler(t) EXCEPT !.pc = pc])
EnterHandler(t, s) ==
    /\ handlers' = [handlers EXCEPT ![t] =
                       Append(@, [sig |-> s, pc |-> "exchange", part |-> 1])]
    /\ UNCHANGED <<process, signalSafeBufferInUse, crashLog>>
Kill == process' = "killed" /\ UNCHANGED <<signalSafeBufferInUse, handlers, libcOwner, crashLog>>

CrashInit ==
    /\ process = "running"
    /\ signalSafeBufferInUse = FALSE
    /\ handlers = [t \in Threads |-> <<>>]
    /\ libcOwner = [lock \in LibcLocks |-> NoThread]
    /\ crashLog = <<>>

(* An asynchronous or raised signal; while its handler runs it stays       *)
(* pending.                                                                *)
Raise(t, s) ==
    /\ Running
    /\ s \notin Blocked(t)
    /\ EnterHandler(t, s)
    /\ UNCHANGED libcOwner

(* The same, of a thread whose own code it stops in the C library.         *)
RaiseHolding(t, s, lock) ==
    /\ Running
    /\ ~InHandler(t)
    /\ libcOwner[lock] = NoThread
    /\ EnterHandler(t, s)
    /\ libcOwner' = [libcOwner EXCEPT ![lock] = t]

(* A faulting instruction.  The kernel cannot hold it back: if the signal  *)
(* is blocked, the process dies.                                           *)
Fault(t, s) ==
    /\ Running
    /\ s \in FaultSignals
    /\ \/ s \notin Blocked(t) /\ EnterHandler(t, s) /\ UNCHANGED libcOwner
       \/ s \in Blocked(t) /\ Kill

(* The thread's stack is exhausted: without an alternate stack the kernel  *)
(* has nowhere to put the handler's frame.                                 *)
Overflow(t) ==
    /\ Running
    /\ ~InHandler(t)
    /\ \/ t \in AltStack /\ EnterHandler(t, StackSignal) /\ UNCHANGED libcOwner
       \/ t \notin AltStack /\ Kill

(* Faulty variants: the flag is not tested; a handler waits for it; the    *)
(* footer is left out; the number of writes is not checked.                *)
EnterUntested(t) ==
    /\ HandlerAt(t, "exchange")
    /\ signalSafeBufferInUse' = TRUE
    /\ HandlerGoto(t, "open")
    /\ UNCHANGED <<process, libcOwner, crashLog>>

WaitWhileBusy(t) == HandlerAt(t, "exchange") /\ signalSafeBufferInUse /\ FALSE

CloseEarly(t) ==
    /\ HandlerAt(t, "write")
    /\ HandlerGoto(t, "release")
    /\ UNCHANGED <<process, signalSafeBufferInUse, libcOwner, crashLog>>

WriteUncounted(t) ==
    /\ HandlerAt(t, "write")
    /\ SetHandler(t, [TopHandler(t) EXCEPT !.part = @ + 1])
    /\ UNCHANGED <<process, signalSafeBufferInUse, libcOwner, crashLog>>

(* signalSafeBufferInUse.exchange(true), clear or set.                     *)
Enter(t) ==
    /\ HandlerAt(t, "exchange")
    /\ ~signalSafeBufferInUse
    /\ signalSafeBufferInUse' = TRUE
    /\ HandlerGoto(t, "open")
    /\ UNCHANGED <<process, libcOwner, crashLog>>

EnterBusy(t) ==
    /\ HandlerAt(t, "exchange")
    /\ signalSafeBufferInUse
    /\ HandlerGoto(t, "exit")
    /\ UNCHANGED <<process, signalSafeBufferInUse, libcOwner, crashLog>>

OpenLog(t) ==
    /\ HandlerAt(t, "open")
    /\ HandlerGoto(t, "timestamp")
    /\ UNCHANGED <<process, signalSafeBufferInUse, libcOwner, crashLog>>

OpenLogFails(t) ==
    /\ HandlerAt(t, "open")
    /\ "open" \in CrashFaults
    /\ signalSafeBufferInUse' = FALSE
    /\ HandlerGoto(t, "exit")
    /\ UNCHANGED <<process, libcOwner, crashLog>>

(* GetTimestampSafe: localtime_r takes the C library's time zone lock.     *)
Timestamp(t) ==
    /\ HandlerAt(t, "timestamp")
    /\ libcOwner["timezone"] = NoThread
    /\ HandlerGoto(t, "write")
    /\ UNCHANGED <<process, signalSafeBufferInUse, libcOwner, crashLog>>

(* Header, trace and footer.  Nobody looks at what write returns.  The     *)
(* trace, which follows the header, needs backtrace(); a process's first   *)
(* call of it loads libgcc, which allocates.                               *)
WriteRecord(t) ==
    LET h == TopHandler(t) IN
    /\ HandlerAt(t, "write")
    /\ h.part <= RecordParts
    /\ h.part = 2 => libcOwner["heap"] = NoThread
    /\ \/ crashLog' = Append(crashLog, [id |-> <<t, h.sig>>, part |-> h.part])
       \/ "write" \in CrashFaults /\ UNCHANGED crashLog
    /\ SetHandler(t, [h EXCEPT !.part = @ + 1])
    /\ UNCHANGED <<process, signalSafeBufferInUse, libcOwner>>

CloseLog(t) ==
    /\ HandlerAt(t, "write")
    /\ TopHandler(t).part = RecordParts + 1
    /\ HandlerGoto(t, "release")
    /\ UNCHANGED <<process, signalSafeBufferInUse, libcOwner, crashLog>>

Release(t) ==
    /\ HandlerAt(t, "release")
    /\ signalSafeBufferInUse' = FALSE
    /\ HandlerGoto(t, "exit")
    /\ UNCHANGED <<process, libcOwner, crashLog>>

(* _Exit(1), from the handler or from SignalSafeLogStacktrace.             *)
Exit(t) ==
    /\ HandlerAt(t, "exit")
    /\ process' = "exited"
    /\ UNCHANGED <<signalSafeBufferInUse, handlers, libcOwner, crashLog>>

Handle(t) ==
    \/ Enter(t) \/ EnterBusy(t) \/ OpenLog(t) \/ OpenLogFails(t) \/ Timestamp(t)
    \/ WriteRecord(t) \/ CloseLog(t) \/ Release(t) \/ Exit(t)

(* The signals, with threads that do nothing of interest otherwise.        *)
Strike(t) ==
    \/ \E s \in Strikes :
        \/ Raise(t, s)
        \/ \E lock \in HeldLocks : RaiseHolding(t, s, lock)
        \/ Fault(t, s)
    \/ StackSignal \in Strikes /\ Overflow(t)

CrashNext == \E t \in Threads : Strike(t) \/ Handle(t)

(* A thread in a handler is scheduled again and again.                     *)
CrashSpec ==
    /\ CrashInit /\ [][CrashNext]_crashVars
    /\ \A t \in Threads : WF_crashVars(Handle(t))
----------------------------------------------------------------------------
CrashTypeOK ==
    /\ process \in {"running", "exited", "killed"}
    /\ signalSafeBufferInUse \in BOOLEAN
    /\ handlers \in [Threads -> Seq(HandlerFrames)]
    /\ libcOwner \in [LibcLocks -> Threads \cup {NoThread}]
    /\ crashLog \in Seq([id : Threads \X Signals, part : 1..RecordParts])

HandlerIds == UNION {{t} \X DOMAIN handlers[t] : t \in Threads}
HandlerOf(h) == handlers[h[1]][h[2]]
Recording(h) == HandlerOf(h).pc \in {"open", "timestamp", "write", "release"}

(* The flag is set exactly while one handler, of all threads and nesting   *)
(* levels, is between its exchange and its release.                        *)
OneRecorder ==
    /\ signalSafeBufferInUse <=> \E h \in HandlerIds : Recording(h)
    /\ \A h, k \in HandlerIds : Recording(h) /\ Recording(k) => h = k

(* Crash records never mix in the file: between two parts of a record      *)
(* there are only parts of that record, in order.                          *)
RecordsUnmixed ==
    \A i, j \in DOMAIN crashLog :
        (i < j /\ crashLog[i].id = crashLog[j].id) =>
            /\ crashLog[i].part < crashLog[j].part
            /\ \A k \in i..j : crashLog[k].id = crashLog[i].id

Recorded(id, part) == \E i \in DOMAIN crashLog : crashLog[i] = [id |-> id, part |-> part]

(* A crash that no other signal interferes with is recorded from header to *)
(* footer before _Exit, or, when the file cannot be opened, not at all.    *)
SingleCrashRecorded ==
    (process = "exited" /\ "write" \notin CrashFaults) =>
        \A h \in HandlerIds : HandlerIds = {h} =>
            LET written == {part \in 1..RecordParts : Recorded(<<h[1], HandlerOf(h).sig>>, part)}
            IN  \/ written = 1..RecordParts
                \/ "open" \in CrashFaults /\ written = {}

(* Once a handler has started, the process ends: a second crash, on the    *)
(* same thread or on another, cannot make the handlers wait.  The one      *)
(* exception is a signal that stops a thread inside the C library: in      *)
(* localtime, or where it allocates, if backtrace was not called before.   *)
CrashEndsProcess ==
    [](\A lock \in LibcLocks : libcOwner[lock] = NoThread) =>
        ((\E t \in Threads : InHandler(t)) ~> ~Running)
=============================================================================
