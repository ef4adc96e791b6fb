------------------------ MODULE ExceptionHandlerProofs -----------------------
(***************************************************************************)
(* Proofs about the process: what LogStacktrace guarantees still holds     *)
(* when terminate handlers call it on top of frames that were not unwound, *)
(* and when signal handlers stop it anywhere and write to the same file.   *)
(***************************************************************************)
EXTENDS ExceptionHandler, LogFileProofs

RecordIds == Threads \X Signals
SystemParts == EntryParts \cup [id : RecordIds, part : 1..RecordParts]

HandlersOK == handlers \in [Threads -> Seq(Crash!HandlerFrames)]

SystemInv ==
    /\ IInv
    /\ FileInv
    /\ log \in Seq(SystemParts)
    /\ terminating \in [Threads -> 0..MaxCalls]
    /\ HandlersOK

(* A crash record is not an entry, and the other way round.                *)
LEMMA RecordsAreForeign ==
    ASSUME NEW p \in [id : RecordIds, part : 1..RecordParts]
    PROVE  p \in SystemParts /\ p.id \notin CallIds
<1>1. PICK t \in Threads, s \in Signals : p.id = <<t, s>>
  BY DEF RecordIds
<1>2. s \notin 1..MaxCalls
  BY SystemAssumption
<1>3. QED
  BY <1>1, <1>2 DEF SystemParts, CallIds
----------------------------------------------------------------------------
(* The crash path touches the handlers and the file, nothing else of       *)
(* LogStacktrace.                                                          *)
Foreign ==
    /\ UNCHANGED logVars /\ UNCHANGED terminating
    /\ HandlersOK'
    /\ log' = log \/ \E p \in [id : RecordIds, part : 1..RecordParts] : log' = Append(log, p)

(* The kernel puts a handler frame on a thread's stack.                    *)
LEMMA HandlerEntered ==
    ASSUME HandlersOK, NEW t \in Threads, NEW s \in Signals, Crash!EnterHandler(t, s)
    PROVE  HandlersOK' /\ log' = log
<1>1. PICK h : h = [sig |-> s, pc |-> "exchange", part |-> 1]
  OBVIOUS
<1>2. 1 \in 1..(RecordParts + 1)
  BY SystemAssumption
<1>3. h \in Crash!HandlerFrames
  BY <1>1, <1>2 DEF Crash!HandlerFrames, Crash!HandlerPcs
<1>4. handlers' = [handlers EXCEPT ![t] = Append(handlers[t], h)] /\ log' = log
  BY <1>1 DEF Crash!EnterHandler
<1>5. Append(handlers[t], h) \in Seq(Crash!HandlerFrames)
  BY <1>3 DEF HandlersOK
<1>6. QED
  BY <1>4, <1>5 DEF HandlersOK

(* A handler frame goes from one point to the next.                        *)
LEMMA HandlerMoved ==
    ASSUME HandlersOK, NEW t \in Threads, Crash!InHandler(t),
           NEW h \in Crash!HandlerFrames, Crash!SetHandler(t, h)
    PROVE  HandlersOK'
<1>1. handlers[t] \in Seq(Crash!HandlerFrames) /\ Len(handlers[t]) \in DOMAIN handlers[t]
  BY DEF HandlersOK, Crash!InHandler
<1>2. [handlers[t] EXCEPT ![Len(handlers[t])] = h] \in Seq(Crash!HandlerFrames)
  BY <1>1
<1>3. handlers' = [handlers EXCEPT ![t] = [handlers[t] EXCEPT ![Len(handlers[t])] = h]]
  BY DEF Crash!SetHandler
<1>4. QED
  BY <1>2, <1>3 DEF HandlersOK

(* The handler that a thread is in.                                        *)
LEMMA TopHandlerTyped ==
    ASSUME HandlersOK, NEW t \in Threads, Crash!InHandler(t)
    PROVE  Crash!TopHandler(t) \in Crash!HandlerFrames
BY DEF HandlersOK, Crash!InHandler, Crash!TopHandler

(* Each step of a handler, its writes to the file included.                *)
LEMMA HandleForeign ==
    ASSUME HandlersOK, NEW t \in Threads, HandlerStep(t)
    PROVE  Foreign
<1>1. PICK h : h = Crash!TopHandler(t)
  OBVIOUS
<1>2. UNCHANGED logVars /\ UNCHANGED terminating /\ Crash!Handle(t)
  BY DEF HandlerStep
<1>3. Crash!InHandler(t)
  BY <1>2 DEF Crash!Handle, Crash!Enter, Crash!EnterBusy, Crash!OpenLog, Crash!OpenLogFails,
              Crash!Timestamp, Crash!WriteRecord, Crash!CloseLog, Crash!Release, Crash!Exit,
              Crash!HandlerAt
<1>4. h \in Crash!HandlerFrames
  BY <1>1, <1>3, TopHandlerTyped
<1>5. ASSUME NEW pc \in Crash!HandlerPcs, Crash!HandlerGoto(t, pc) PROVE HandlersOK'
  <2>1. [h EXCEPT !.pc = pc] \in Crash!HandlerFrames
    BY <1>4 DEF Crash!HandlerFrames
  <2>2. Crash!SetHandler(t, [h EXCEPT !.pc = pc])
    BY <1>1, <1>5 DEF Crash!HandlerGoto
  <2>3. QED
    BY <1>3, <2>1, <2>2, HandlerMoved
<1>6. CASE Crash!WriteRecord(t)
  <2>1. /\ h.part <= RecordParts
        /\ log' = Append(log, [id |-> <<t, h.sig>>, part |-> h.part]) \/ log' = log
        /\ Crash!SetHandler(t, [h EXCEPT !.part = h.part + 1])
    BY <1>1, <1>6 DEF Crash!WriteRecord
  <2>2. h.part \in 1..RecordParts /\ h.part + 1 \in 1..(RecordParts + 1) /\ h.sig \in Signals
    BY <1>4, <2>1, SystemAssumption DEF Crash!HandlerFrames
  <2>3. [h EXCEPT !.part = h.part + 1] \in Crash!HandlerFrames
    BY <1>4, <2>2 DEF Crash!HandlerFrames
  <2>4. HandlersOK'
    BY <1>3, <2>1, <2>3, HandlerMoved
  <2>5. [id |-> <<t, h.sig>>, part |-> h.part] \in [id : RecordIds, part : 1..RecordParts]
    BY <2>2 DEF RecordIds
  <2>6. QED
    BY <1>2, <2>1, <2>4, <2>5 DEF Foreign
<1>7. CASE ~Crash!WriteRecord(t)
  <2>1. /\ log' = log
        /\ \/ \E pc \in Crash!HandlerPcs : Crash!HandlerGoto(t, pc)
           \/ handlers' = handlers
    BY <1>2, <1>7
    DEF Crash!Handle, Crash!Enter, Crash!EnterBusy, Crash!OpenLog, Crash!OpenLogFails,
        Crash!Timestamp, Crash!CloseLog, Crash!Release, Crash!Exit, Crash!HandlerPcs
  <2>2. HandlersOK'
    BY <1>5, <2>1 DEF HandlersOK
  <2>3. QED
    BY <1>2, <2>1, <2>2 DEF Foreign
<1>8. QED
  BY <1>6, <1>7

(* A signal arrives, or abort() raises SIGABRT.                            *)
LEMMA SignalForeign ==
    ASSUME HandlersOK, NEW t \in Threads, Strike(t) \/ TerminateAborts(t)
    PROVE  Foreign
<1>1. UNCHANGED logVars /\ UNCHANGED terminating
  BY DEF Strike, TerminateAborts
<1>2. \/ \E s \in Signals : Crash!EnterHandler(t, s)
      \/ handlers' = handlers /\ log' = log
  <2>1. ASSUME NEW s \in Signals, Crash!Raise(t, s) \/ \E lock : Crash!RaiseHolding(t, s, lock)
        PROVE  Crash!EnterHandler(t, s)
    BY <2>1 DEF Crash!Raise, Crash!RaiseHolding
  <2>2. ASSUME NEW s \in Signals, Crash!Fault(t, s)
        PROVE  Crash!EnterHandler(t, s) \/ (handlers' = handlers /\ log' = log)
    BY <2>2 DEF Crash!Fault, Crash!Kill
  <2>3. ASSUME Crash!Overflow(t)
        PROVE  Crash!EnterHandler(t, StackSignal) \/ (handlers' = handlers /\ log' = log)
    BY <2>3 DEF Crash!Overflow, Crash!Kill
  <2>4. CASE TerminateAborts(t)
    BY <2>1, <2>4, AbortAssumption DEF TerminateAborts
  <2>5. CASE Strike(t)
    BY <2>1, <2>2, <2>3, <2>5, SystemAssumption DEF Strike
  <2>6. QED
    BY <2>4, <2>5
<1>3. HandlersOK' /\ log' = log
  BY <1>2, HandlerEntered DEF HandlersOK
<1>4. QED
  BY <1>1, <1>3 DEF Foreign

(* So whatever the handlers do, what LogStacktrace guarantees stays.       *)
LEMMA ForeignKeepsSystem ==
    ASSUME SystemInv, Foreign
    PROVE  SystemInv'
<1>1. UNCHANGED <<loggingInProgress, logMutex, logCallback_, depth, frame, calls, told>>
  BY DEF Foreign, logVars
<1>2. IInv'
  <2>1. logCallback_' \in BOOLEAN
    BY <1>1 DEF SystemInv, IInv, CallsTypeOK
  <2>2. QED
    BY <1>1, <2>1, FramesAloneInv DEF SystemInv
<1>3. log' = log \/ \E p \in SystemParts : p.id \notin CallIds /\ log' = Append(log, p)
  BY RecordsAreForeign DEF Foreign
<1>4. FileInv'
  BY <1>1, <1>3, ForeignKeeps DEF SystemInv
<1>5. log' \in Seq(SystemParts)
  BY <1>3 DEF SystemInv
<1>6. QED
  BY <1>2, <1>4, <1>5 DEF SystemInv, Foreign

(* A thread's own steps are those of LogStacktrace.tla.                    *)
LEMMA LogStepKeeps ==
    ASSUME SystemInv, NEW t \in Threads, LogStep(t)
    PROVE  SystemInv'
<1>1. terminating' \in [Threads -> 0..MaxCalls] /\ HandlersOK'
  BY DEF SystemInv, LogStep, signalVars, HandlersOK
<1>2. EntryParts \subseteq SystemParts
  BY DEF SystemParts
<1>3. CASE Progress(t)
  <2>1. IInv' /\ FileInv'
    BY <1>2, <1>3, ProgressInv, ProgressFile DEF SystemInv
  <2>2. log' \in Seq(SystemParts)
    BY <1>2, <1>3, PartAppended DEF SystemInv
  <2>3. QED
    BY <1>1, <2>1, <2>2 DEF SystemInv
<1>4. CASE Call(t) \/ CallbackRelogs(t)
  <2>1. /\ Push(t) /\ UNCHANGED <<loggingInProgress, logMutex, logCallback_, log, told>>
        /\ depth[t] > 0 => Top(t).pc \in Left
    BY <1>4 DEF Call, CallbackRelogs, At, Left
  <2>2. IInv' /\ FileInv'
    BY <2>1, PushInv, PushFile DEF SystemInv
  <2>3. QED
    BY <1>1, <2>1, <2>2 DEF SystemInv
<1>5. QED
  BY <1>3, <1>4 DEF LogStep

(* The terminate handler's call is one more frame, on a stack that ends    *)
(* where the exception was thrown.                                         *)
LEMMA TerminateKeeps ==
    ASSUME SystemInv, NEW t \in Threads, Terminate(t)
    PROVE  SystemInv'
<1>1. /\ Push(t) /\ UNCHANGED <<loggingInProgress, logMutex, logCallback_, log, told>>
      /\ terminating' = [terminating EXCEPT ![t] = calls[t] + 1]
      /\ handlers' = handlers
  BY DEF Terminate, signalVars
<1>2. depth[t] > 0 => Top(t).pc \in Left
  BY DEF Terminate, MayThrow, At, Left, SystemInv, IInv, CallsTypeOK
<1>3. IInv' /\ FileInv'
  BY <1>1, <1>2, PushInv, PushFile DEF SystemInv
<1>4. calls[t] + 1 \in 0..MaxCalls
  BY <1>1, BoundsAssumption DEF Push, SystemInv, IInv, CallsTypeOK
<1>5. QED
  BY <1>1, <1>3, <1>4 DEF SystemInv, HandlersOK

(* _Exit, and SetLogCallback at any moment.                                *)
LEMMA OthersKeep ==
    ASSUME SystemInv,
           (\E t \in Threads : TerminateExits(t)) \/ ChangeCallback \/ UNCHANGED systemVars
    PROVE  SystemInv'
<1>1. /\ UNCHANGED <<loggingInProgress, logMutex, depth, frame, calls, log, told>>
      /\ UNCHANGED <<handlers, terminating>>
      /\ logCallback_' \in BOOLEAN
  BY DEF TerminateExits, ChangeCallback, SetLogCallback, systemVars, signalVars, vars,
         SystemInv, IInv, CallsTypeOK
<1>2. IInv' /\ FileInv'
  BY <1>1, FramesAloneInv, ForeignKeeps DEF SystemInv
<1>3. QED
  BY <1>1, <1>2 DEF SystemInv, HandlersOK
----------------------------------------------------------------------------
(* The process after Init.                                                 *)
LEMMA InitSystemInv == SystemInit => SystemInv
<1>1. SUFFICES ASSUME SystemInit PROVE SystemInv
  OBVIOUS
<1>2. IInv /\ FileInv
  BY <1>1, InitIInv, InitFile DEF SystemInit
<1>3. HandlersOK
  <2>1. handlers = [t \in Threads |-> <<>>] /\ <<>> \in Seq(Crash!HandlerFrames)
    BY <1>1 DEF SystemInit, Crash!CrashInit
  <2>2. QED
    BY <2>1 DEF HandlersOK
<1>4. log \in Seq(SystemParts) /\ terminating \in [Threads -> 0..MaxCalls]
  BY <1>1, BoundsAssumption DEF SystemInit, Init
<1>5. QED
  BY <1>2, <1>3, <1>4 DEF SystemInv

(* All steps together.                                                     *)
LEMMA NextSystemInv == SystemInv /\ [SystemNext]_systemVars => SystemInv'
<1>1. SUFFICES ASSUME SystemInv, [SystemNext]_systemVars PROVE SystemInv'
  OBVIOUS
<1>2. ASSUME NEW t \in Threads, LogStep(t) PROVE SystemInv'
  BY <1>1, <1>2, LogStepKeeps
<1>3. ASSUME NEW t \in Threads, Terminate(t) PROVE SystemInv'
  BY <1>1, <1>3, TerminateKeeps
<1>4. ASSUME NEW t \in Threads, HandlerStep(t) PROVE SystemInv'
  BY <1>1, <1>4, HandleForeign, ForeignKeepsSystem DEF SystemInv
<1>5. ASSUME NEW t \in Threads, Strike(t) \/ TerminateAborts(t) PROVE SystemInv'
  BY <1>1, <1>5, SignalForeign, ForeignKeepsSystem DEF SystemInv
<1>6. ASSUME NEW t \in Threads, TerminateExits(t) PROVE SystemInv'
  BY <1>1, <1>6, OthersKeep
<1>7. CASE ChangeCallback \/ UNCHANGED systemVars
  BY <1>1, <1>7, OthersKeep
<1>8. QED
  BY <1>1, <1>2, <1>3, <1>4, <1>5, <1>6, <1>7 DEF SystemNext, TerminateEnds

(* The inductive invariants of LogStacktrace hold in the process, whatever *)
(* terminate handlers and signals do to its calls.                         *)
THEOREM SystemInvariance == SystemSpec => []SystemInv
<1>1. QED
  BY InitSystemInv, NextSystemInv, PTL DEF SystemSpec

(* The process keeps its variables in their types.                         *)
THEOREM SystemTypeCorrect == SystemSpec => []SystemTypeOK
<1>1. SystemInv => SystemTypeOK
  <2>1. SUFFICES ASSUME SystemInv PROVE SystemTypeOK
    OBVIOUS
  <2>2. \A p \in SystemParts : p.id \in CallIds \cup (Threads \X Signals)
    BY DEF SystemParts, EntryParts, RecordIds
  <2>3. \A i \in DOMAIN log : log[i] \in SystemParts
    BY <2>1 DEF SystemInv
  <2>4. QED
    BY <2>1, <2>2, <2>3 DEF SystemInv, SystemTypeOK, IInv, CallsTypeOK, HandlersOK
<1>2. QED
  BY <1>1, SystemInvariance, PTL

(* No thread waits for its own mutex: not even the terminate handler, that *)
(* calls LogStacktrace while the frame under it still holds the mutex.     *)
THEOREM SystemNeverSelfDeadlocked == SystemSpec => []NoSelfDeadlockInSystem
<1>1. SystemInv => NoSelfDeadlockInSystem
  BY NotItsOwnMutex DEF SystemInv, NoSelfDeadlockInSystem
<1>2. QED
  BY <1>1, SystemInvariance, PTL

(* Entries stay apart although crash records land between and inside them. *)
THEOREM SystemEntriesApart == SystemSpec => []EntriesUnmixed
<1>1. SystemInv => EntriesUnmixed
  BY DEF SystemInv, FileInv, EntriesApart, EntriesUnmixed, IsEntry, IsEntryPart
<1>2. QED
  BY <1>1, SystemInvariance, PTL

(* The terminate handler has its entry in the file before _Exit, or it has *)
(* reported that it has not.                                               *)
THEOREM TerminateIsAccounted == SystemSpec => []TerminateAccounted
<1>1. SystemInv => TerminateAccounted
  <2>1. SUFFICES ASSUME SystemInv, NEW t \in Threads, NEW c, c = <<t, terminating[t]>>,
                        TerminateLogged(t), "write" \notin Faults
                 PROVE  Whole(c) \/ \E level \in {"WARN", "ERROR", "THROWN"} : Told(c, level)
    BY DEF TerminateAccounted
  <2>2. terminating[t] \in 1..MaxCalls /\ Finished(c)
    BY <2>1, BoundsAssumption DEF TerminateLogged, SystemInv
  <2>3. c \in CallIds
    BY <2>1, <2>2 DEF CallIds
  <2>4. QED
    BY <2>1, <2>2, <2>3 DEF SystemInv, FileInv, NoSilentLoss
<1>2. QED
  BY <1>1, SystemInvariance, PTL
============================================================================
