-------------------------- MODULE LogTargetProofs --------------------------
(***************************************************************************)
(* Proofs about LogTarget, for every set of threads, names and callables   *)
(* and every number of calls of Init and SetLogCallback.                   *)
(***************************************************************************)
EXTENDS LogTarget, LogFileProofs, SequenceTheorems

(* A thread's step in LogTarget is one of its steps in LogStacktrace, and  *)
(* none of those touches logCallback_.                                     *)
LEMMA ThreadStep ==
    ASSUME NEW t \in Threads, LogStep(t)
    PROVE  Next /\ logCallback_' = logCallback_
  BY DEF LogStep, Next, Call, Progress, Admit, Reject, Lock, Build, Open, OpenFails, WritePart,
         WriteFails, Inserted, CheckCallback, ReportToStderr, InvokeCallback,
         InvokeEmptyCallback, CallbackReturns, CallbackThrows, CallbackRelogs, AllocFails,
         Clear, Close, Unlock, Return

(* A step of SetLogCallback changes nothing that LogStacktrace knows of,   *)
(* or sets or empties the callback.                                        *)
LEMMA OwnersStep ==
    ASSUME logCallback_ \in BOOLEAN, CallbackStep, UNCHANGED threadVars
    PROVE  (SetLogCallback \/ UNCHANGED vars) /\ logCallback_' \in BOOLEAN
  BY TargetAssumption
  DEF CallbackStep, threadVars, vars, SetLogCallback, SetLogCallbackTo, Swap, DestroyOld,
      DestroyCallback, Destroy

(* The callback is there at the start, or it is not.                       *)
LEMMA InitialCallback == TargetInit => Init /\ logCallback_ \in BOOLEAN
  BY DEF TargetInit

(* Every step of LogTarget is one of LogStacktrace, or none.               *)
LEMMA TargetStep ==
    ASSUME logCallback_ \in BOOLEAN, [TargetNext]_targetVars
    PROVE  [Next]_vars /\ logCallback_' \in BOOLEAN
<1>1. CASE UNCHANGED targetVars
  BY <1>1 DEF targetVars, callbackVars, threadVars, vars
<1>2. CASE NameStep /\ UNCHANGED <<callbackVars, readerVars, threadVars>>
  BY <1>2 DEF callbackVars, threadVars, vars
<1>3. CASE CallbackStep /\ UNCHANGED <<nameVars, readerVars, threadVars>>
  BY <1>3, OwnersStep DEF Next
<1>4. ASSUME NEW t \in Threads, LogStep(t) PROVE [Next]_vars /\ logCallback_' \in BOOLEAN
  BY <1>4, ThreadStep
<1>5. ASSUME UNCHANGED <<callbackVars, threadVars>>
      PROVE [Next]_vars /\ logCallback_' \in BOOLEAN
  BY <1>5 DEF callbackVars, threadVars, vars
<1>6. QED
  BY <1>1, <1>2, <1>3, <1>4, <1>5 DEF TargetNext

(* Splitting the callback into its words, and the reads of a call into     *)
(* steps of their own, adds no behaviour: LogTarget implements             *)
(* LogStacktrace, so that what is proved there holds here too.             *)
THEOREM ImplementsLogStacktrace == TargetSpec => Spec
<1>1. TargetInit => Init /\ logCallback_ \in BOOLEAN
  BY InitialCallback
<1>2. (logCallback_ \in BOOLEAN) /\ [TargetNext]_targetVars => [Next]_vars /\ (logCallback_ \in BOOLEAN)'
  BY TargetStep
<1>3. QED
  BY <1>1, <1>2, PTL DEF TargetSpec, Spec
----------------------------------------------------------------------------
Texts == Names \cup {"", "partial", "freed"}
Buffers == [size : Nat, text : Texts]

(* Every pointer to a buffer is that of one there has been.                *)
NameTypeOK ==
    /\ owner \in {"idle", "dispose", "copy", "copied", "pointer", "install", "swap",
                   "exiting", "exited"}
    /\ inits \in Seq(Names)
    /\ buffers \in Seq(Buffers)
    /\ data \in 1..Len(buffers)
    /\ gLogFilenamePtr \in 0..Len(buffers)
    /\ installed \in 0..(Handlers + 1)

(* What changing the text of a buffer does.                                *)
LEMMA TextSteps ==
    ASSUME buffers \in Seq(Buffers), NEW b \in 1..Len(buffers), NEW s \in Texts, Text(b, s)
    PROVE  /\ buffers' \in Seq(Buffers) /\ Len(buffers') = Len(buffers)
           /\ buffers'[b].text = s
           /\ \A k \in 1..Len(buffers) :
                 buffers'[k].size = buffers[k].size /\ (k # b => buffers'[k] = buffers[k])
<1> DEFINE e == [buffers[b] EXCEPT !.text = s]
<1> buffers[b] \in Buffers
  OBVIOUS
<1>1. e \in Buffers /\ e.text = s /\ e.size = buffers[b].size
  BY DEF Buffers
<1>2. buffers' = [buffers EXCEPT ![b] = e]
  BY DEF Text
<1> HIDE DEF e
<1>3. QED
  BY <1>1, <1>2

(* What a new buffer does.                                                 *)
LEMMA AppendSteps ==
    ASSUME buffers \in Seq(Buffers), NEW b \in Buffers, buffers' = Append(buffers, b)
    PROVE  /\ buffers' \in Seq(Buffers) /\ Len(buffers') = Len(buffers) + 1
           /\ buffers'[Len(buffers) + 1] = b
           /\ \A k \in 1..Len(buffers) : buffers'[k] = buffers[k]
  OBVIOUS
----------------------------------------------------------------------------
(* The steps of Init establish one after another what CrashFileIsLogFile   *)
(* says of the time in which no Init runs; a signal's handler that has     *)
(* been entered found its own sigaction, so that the pointer was set.      *)
TargetInv ==
    /\ NameTypeOK
    /\ owner \in {"copy", "copied", "pointer", "install", "dispose"} => inits # <<>>
    /\ owner \in {"pointer", "install"} => buffers[data].text = inits[Len(inits)]
    /\ owner = "install" => gLogFilenamePtr = data
    /\ (inits # <<>> /\ owner \in {"idle", "swap", "exiting"}) =>
            /\ gLogFilenamePtr = data /\ installed = Handlers + 1
            /\ buffers[data].text = inits[Len(inits)]
    /\ installed > 0 => gLogFilenamePtr # 0

(* Before the first Init.                                                  *)
LEMMA TargetInitInv == TargetInit => TargetInv
<1> SUFFICES ASSUME TargetInit PROVE TargetInv
  OBVIOUS
<1>1. /\ owner = "idle" /\ inits = <<>> /\ data = 1 /\ gLogFilenamePtr = 0 /\ installed = 0
      /\ buffers = <<[size |-> ShortSize, text |-> ""]>>
  BY Zenon DEF TargetInit
<1>2. [size |-> ShortSize, text |-> ""] \in Buffers
  BY TargetAssumption DEF Buffers, Texts
<1>3. \A b : b \in Buffers => <<b>> \in Seq(Buffers) /\ Len(<<b>>) = 1
  OBVIOUS
<1>4. buffers \in Seq(Buffers) /\ Len(buffers) = 1
  BY <1>1, <1>2, <1>3, Zenon
<1>5. <<>> \in Seq(Names)
  OBVIOUS
<1>6. owner = "idle" /\ inits = <<>> /\ data = 1 /\ gLogFilenamePtr = 0 /\ installed = 0
  BY <1>1
<1>7. Handlers \in Nat
  BY TargetAssumption
<1>8. NameTypeOK
  BY <1>4, <1>5, <1>6, <1>7 DEF NameTypeOK
<1>9. QED
  BY <1>6, <1>8 DEF TargetInv

(* A name is given: Init has begun.                                        *)
LEMMA AssignKeeps ==
    ASSUME TargetInv, NEW n \in Names, Assign(n)
    PROVE  TargetInv' /\ Len(buffers') >= Len(buffers)
<1>1. inits' \in Seq(Names) /\ inits' # <<>>
  BY DEF Assign, TargetInv, NameTypeOK
<1>2. CASE OwnerStep("idle", "copy") /\ UNCHANGED buffers
  BY <1>1, <1>2 DEF Assign, TargetInv, NameTypeOK, OwnerStep
<1>3. CASE OwnerStep("idle", "dispose") /\ buffers' = Append(buffers, [size |-> Length[n], text |-> "partial"])
  <2>1. [size |-> Length[n], text |-> "partial"] \in Buffers
    BY TargetAssumption DEF Buffers, Texts
  <2>2. buffers' \in Seq(Buffers) /\ Len(buffers') = Len(buffers) + 1
    BY <1>3, <2>1, AppendSteps DEF TargetInv, NameTypeOK
  <2>3. QED
    BY <1>1, <1>3, <2>2 DEF Assign, TargetInv, NameTypeOK, OwnerStep
<1>4. QED
  BY <1>2, <1>3 DEF Assign

(* The old buffer is freed, no pointer changes.                            *)
LEMMA DisposeKeeps ==
    ASSUME TargetInv, Dispose
    PROVE  TargetInv' /\ Len(buffers') = Len(buffers)
<1>1. buffers' \in Seq(Buffers) /\ Len(buffers') = Len(buffers)
  <2>1. CASE UNCHANGED buffers
    BY <2>1 DEF TargetInv, NameTypeOK
  <2>2. CASE Text(data, "freed")
    BY <2>2, TextSteps DEF TargetInv, NameTypeOK, Texts
  <2>3. QED
    BY <2>1, <2>2 DEF Dispose
<1>2. QED
  BY <1>1 DEF Dispose, TargetInv, NameTypeOK, OwnerStep

(* The name is being copied into the last buffer.                          *)
LEMMA CopyKeeps ==
    ASSUME TargetInv, Copy
    PROVE  TargetInv' /\ Len(buffers') = Len(buffers)
<1>1. Len(buffers) \in 1..Len(buffers) /\ data' = Len(buffers) /\ Text(data', "partial")
  BY DEF Copy, TargetInv, NameTypeOK
<1>2. buffers' \in Seq(Buffers) /\ Len(buffers') = Len(buffers)
  <2>1. Text(Len(buffers), "partial")
    BY <1>1 DEF Text
  <2>2. QED
    BY <1>1, <2>1, TextSteps DEF TargetInv, NameTypeOK, Texts
<1>3. QED
  BY <1>1, <1>2 DEF Copy, TargetInv, NameTypeOK, OwnerStep

(* The buffer in use holds the last name.                                  *)
LEMMA CopiedKeeps ==
    ASSUME TargetInv, Copied
    PROVE  TargetInv' /\ Len(buffers') = Len(buffers)
<1>1. inits # <<>> /\ inits \in Seq(Names)
  BY DEF Copied, OwnerStep, TargetInv, NameTypeOK
<1>2. inits[Len(inits)] \in Texts
  <2>1. inits[Len(inits)] \in Names
    BY <1>1
  <2>2. QED
    BY <2>1 DEF Texts
<1>3. /\ buffers' \in Seq(Buffers) /\ Len(buffers') = Len(buffers)
      /\ buffers'[data].text = inits[Len(inits)]
  BY <1>2, TextSteps DEF Copied, TargetInv, NameTypeOK
<1>4. QED
  BY <1>1, <1>3 DEF Copied, TargetInv, NameTypeOK, OwnerStep

(* The destructor changes no pointer either.                               *)
LEMMA DestroyNameKeeps ==
    ASSUME TargetInv, DestroyName
    PROVE  TargetInv' /\ Len(buffers') = Len(buffers)
<1>1. buffers' \in Seq(Buffers) /\ Len(buffers') = Len(buffers)
  <2>1. CASE UNCHANGED buffers
    BY <2>1 DEF TargetInv, NameTypeOK
  <2>2. CASE Text(data, "freed")
    BY <2>2, TextSteps DEF TargetInv, NameTypeOK, Texts
  <2>3. QED
    BY <2>1, <2>2 DEF DestroyName
<1>2. QED
  BY <1>1 DEF DestroyName, TargetInv, NameTypeOK, OwnerStep

(* All steps of Init, which frees buffers but loses none.                  *)
LEMMA NameStepKeeps ==
    ASSUME TargetInv, NameStep
    PROVE  TargetInv' /\ Len(buffers') >= Len(buffers)
<1>1. CASE SetPointer
  BY <1>1 DEF SetPointer, TargetInv, NameTypeOK, OwnerStep
<1>2. CASE Install
  <2>1. Handlers \in Nat /\ installed \in 0..(Handlers + 1)
    BY TargetAssumption DEF TargetInv, NameTypeOK
  <2>2. owner = "install" /\ (owner' = "install" \/ owner' = "idle")
    BY <1>2, Zenon DEF Install, OwnerStep
  <2>3. installed' \in 1..(Handlers + 1) /\ (owner' = "idle" => installed' = Handlers + 1)
    BY <1>2, <2>1 DEF Install, OwnerStep
  <2>4. UNCHANGED <<inits, buffers, data, gLogFilenamePtr>>
    BY <1>2 DEF Install
  <2>5. QED
    BY <2>2, <2>3, <2>4 DEF TargetInv, NameTypeOK
<1>3. CASE Dispose \/ Copy \/ Copied \/ DestroyName
  BY <1>3, DisposeKeeps, CopyKeeps, CopiedKeeps, DestroyNameKeeps DEF TargetInv, NameTypeOK
<1>4. QED
  BY <1>1, <1>2, <1>3, AssignKeeps DEF NameStep
----------------------------------------------------------------------------
(* A step of SetLogCallback leaves the names alone.                        *)
LEMMA CallbackStepKeeps ==
    ASSUME TargetInv, CallbackStep, UNCHANGED nameVars
    PROVE  TargetInv'
<1>1. \/ owner' = owner
      \/ owner = "idle" /\ owner' \in {"swap", "exiting"}
      \/ owner = "swap" /\ owner' = "idle"
  BY DEF CallbackStep, SetLogCallbackTo, Swap, DestroyOld, DestroyCallback, OwnerStep
<1>2. UNCHANGED <<inits, buffers, data, gLogFilenamePtr, installed>>
  BY DEF nameVars
<1>3. QED
  BY <1>1, <1>2 DEF TargetInv, NameTypeOK

(* Whatever leaves owner and names alone.                                  *)
LEMMA NamesUnchangedKeeps ==
    ASSUME TargetInv, UNCHANGED <<owner, nameVars>>
    PROVE  TargetInv'
  BY DEF TargetInv, NameTypeOK, nameVars

(* A handler that runs is one that was installed; that it is there to be   *)
(* entered means that the pointer is set.                                  *)
HandlerInv ==
    /\ handler \in [pc : {"none", "load", "open", "killed", "exited"}, name : 0..Len(buffers)]
    /\ handler.pc = "load" => installed > 0
    /\ handler.pc = "open" => handler.name # 0

(* Init never takes a handler or a buffer back.                            *)
LEMMA NameStepKeepsHandler ==
    ASSUME TargetInv, HandlerInv, NameStep, UNCHANGED handler
    PROVE  HandlerInv'
<1>1. Len(buffers') >= Len(buffers) /\ Len(buffers) \in Nat /\ Len(buffers') \in Nat
  BY NameStepKeeps DEF TargetInv, NameTypeOK
<1>2. installed > 0 => installed' > 0
  <2>1. CASE Install
    BY <2>1 DEF Install, TargetInv, NameTypeOK
  <2>2. CASE UNCHANGED installed
    BY <2>2
  <2>3. QED
    BY <2>1, <2>2 DEF NameStep, Assign, Dispose, Copy, Copied, SetPointer, DestroyName
<1>3. QED
  BY <1>1, <1>2 DEF HandlerInv

(* The steps of the handler itself.                                        *)
LEMMA HandlerStepKeeps ==
    ASSUME TargetInv, HandlerInv, UNCHANGED <<owner, nameVars>>,
           (\E s \in 1..Handlers : Signal(s)) \/ LoadPointer \/ RecordAndExit
    PROVE  HandlerInv'
<1>1. UNCHANGED <<buffers, installed>>
  BY DEF nameVars
<1>2. ASSUME NEW s \in 1..Handlers, Signal(s) PROVE HandlerInv'
  <2>1. s < installed => installed > 0
    <3>1. Handlers \in Nat
      BY TargetAssumption
    <3>2. installed \in Nat
      BY <3>1 DEF TargetInv, NameTypeOK
    <3>3. QED
      BY <3>1, <3>2
  <2>2. \/ s < installed /\ handler' = [handler EXCEPT !.pc = "load"]
        \/ handler' = [handler EXCEPT !.pc = "killed"]
    BY <1>2, Zenon DEF Signal
  <2>3. QED
    BY <1>1, <2>1, <2>2 DEF HandlerInv
<1>3. CASE LoadPointer
  BY <1>1, <1>3 DEF LoadPointer, HandlerInv, TargetInv, NameTypeOK
<1>4. CASE RecordAndExit
  BY <1>1, <1>4 DEF RecordAndExit, HandlerInv
<1>5. QED
  BY <1>2, <1>3, <1>4

(* Whatever leaves names and handler alone.                                *)
LEMMA HandlerUnchangedKeeps ==
    ASSUME HandlerInv, UNCHANGED <<nameVars, handler>>
    PROVE  HandlerInv'
  BY DEF HandlerInv, nameVars

(* All steps together.                                                     *)
LEMMA TargetStepKeeps ==
    ASSUME TargetInv, HandlerInv, [TargetNext]_targetVars
    PROVE  TargetInv' /\ HandlerInv'
<1>1. CASE UNCHANGED <<owner, nameVars, handler>>
  BY <1>1, NamesUnchangedKeeps, HandlerUnchangedKeeps
<1>2. CASE NameStep /\ UNCHANGED <<callbackVars, readerVars, threadVars>>
  BY <1>2, NameStepKeeps, NameStepKeepsHandler DEF readerVars
<1>3. CASE CallbackStep /\ UNCHANGED <<nameVars, readerVars, threadVars>>
  BY <1>3, CallbackStepKeeps, HandlerUnchangedKeeps DEF readerVars
<1>4. CASE /\ (\E s \in 1..Handlers : Signal(s)) \/ LoadPointer \/ RecordAndExit
           /\ UNCHANGED <<owner, nameVars, callbackVars, threadVars, tm, seen>>
  BY <1>4, NamesUnchangedKeeps, HandlerStepKeeps
<1>5. UNCHANGED targetVars => UNCHANGED <<owner, nameVars, handler>>
  BY DEF targetVars, readerVars
<1>6. QED
  BY <1>1, <1>2, <1>3, <1>4, <1>5 DEF TargetNext

(* No handler has been entered.                                            *)
LEMMA InitialHandler == TargetInit => HandlerInv
<1> SUFFICES ASSUME TargetInit PROVE HandlerInv
  OBVIOUS
<1>1. handler = [pc |-> "none", name |-> 0]
  BY Zenon DEF TargetInit
<1>2. Len(buffers) \in Nat
  BY TargetInitInv DEF TargetInv, NameTypeOK
<1>3. QED
  BY <1>1, <1>2 DEF HandlerInv

(* Outside Init the crash path and the ordinary one use the same file, and *)
(* no handler is entered without a name, whatever the names, their lengths *)
(* and the number of handlers, and however often Init is called.           *)
THEOREM CrashFileInvariant == TargetSpec => []CrashFileIsLogFile
<1>1. TargetInit => TargetInv /\ HandlerInv
  BY TargetInitInv, InitialHandler
<1>2. TargetInv /\ HandlerInv /\ [TargetNext]_targetVars => (TargetInv /\ HandlerInv)'
  BY TargetStepKeeps
<1>3. TargetInv /\ HandlerInv => CrashFileIsLogFile
  BY DEF TargetInv, HandlerInv, CrashFileIsLogFile
<1>4. QED
  BY <1>1, <1>2, <1>3, PTL DEF TargetSpec
----------------------------------------------------------------------------
(* What the first name leaves room for, and names that all fit in it.      *)
Room == IF inits # <<>> /\ Length[inits[1]] > ShortSize THEN Length[inits[1]] ELSE ShortSize
AllFit == \A k \in DOMAIN inits : Length[inits[k]] <= Room

(* Then there is one buffer next to the one in the object at most, it is   *)
(* made before the first name is copied, and only the destructor frees it. *)
RoomInv ==
    /\ buffers[1].size = ShortSize /\ buffers[1].text # "freed"
    /\ AllFit /\ Room = ShortSize => Len(buffers) = 1 /\ owner # "dispose"
    /\ AllFit /\ Room # ShortSize =>
          /\ Len(buffers) = 2 /\ buffers[2].size = Room
          /\ buffers[2].text = "freed" => owner = "exited"
          /\ owner = "dispose" => data = 1
          /\ owner \notin {"dispose", "copy"} => data = 2

(* The room is a length, and at least that of the object itself.           *)
LEMMA RoomType ==
    ASSUME NameTypeOK
    PROVE  Room \in Nat /\ ShortSize \in Nat /\ Room >= ShortSize
<1>1. ShortSize \in Nat
  BY TargetAssumption
<1>2. CASE inits = <<>>
  BY <1>1, <1>2 DEF Room
<1>3. CASE inits # <<>>
  <2>1. inits[1] \in Names
    BY <1>3 DEF NameTypeOK
  <2>2. Length[inits[1]] \in Nat /\ ShortSize \in Nat
    BY <1>1, <2>1, TargetAssumption
  <2>3. QED
    BY <2>2 DEF Room
<1>4. QED
  BY <1>2, <1>3

(* Adding a name: the room changes with the first one only.                *)
LEMMA AppendName ==
    ASSUME NameTypeOK, NEW n \in Names, inits' = Append(inits, n)
    PROVE  /\ inits # <<>> => Room' = Room
           /\ inits = <<>> => Room' = IF Length[n] > ShortSize THEN Length[n] ELSE ShortSize
           /\ AllFit' => Length[n] <= Room'
           /\ AllFit' /\ inits # <<>> => AllFit
<1> USE DEF NameTypeOK
<1>1. /\ Len(inits) \in Nat /\ DOMAIN inits' = 1..(Len(inits) + 1) /\ DOMAIN inits = 1..Len(inits)
      /\ inits' # <<>> /\ inits'[Len(inits) + 1] = n
      /\ \A k \in DOMAIN inits : inits'[k] = inits[k]
  OBVIOUS
<1>2. inits # <<>> => Room' = Room
  <2>1. inits # <<>> => inits'[1] = inits[1]
    BY <1>1
  <2>2. QED
    BY <1>1, <2>1 DEF Room
<1>3. inits = <<>> => Room' = IF Length[n] > ShortSize THEN Length[n] ELSE ShortSize
  <2>1. inits = <<>> => inits'[1] = n
    BY <1>1
  <2>2. QED
    BY <1>1, <2>1 DEF Room
<1>4. AllFit' => Length[n] <= Room'
  BY <1>1 DEF AllFit
<1>5. AllFit' /\ inits # <<>> => AllFit
  BY <1>1, <1>2 DEF AllFit
<1>6. QED
  BY <1>2, <1>3, <1>4, <1>5

(* A step that gives no name.                                              *)
LEMMA NamesKept ==
    ASSUME UNCHANGED inits
    PROVE  Room' = Room /\ (AllFit' <=> AllFit)
  BY DEF Room, AllFit

(* Only the first name can need another buffer.                            *)
LEMMA AssignKeepsRoom ==
    ASSUME TargetInv, RoomInv, NEW n \in Names, Assign(n)
    PROVE  RoomInv'
<1> DEFINE new == [size |-> Length[n], text |-> "partial"]
<1>1. NameTypeOK /\ Len(buffers) \in Nat /\ owner = "idle" /\ data' = data
      /\ inits' = Append(inits, n)
  BY DEF Assign, OwnerStep, TargetInv, NameTypeOK
<1>2. Length[n] \in Nat /\ new \in Buffers
  BY TargetAssumption DEF Buffers, Texts
<1>3. /\ inits # <<>> => Room' = Room
      /\ inits = <<>> => Room' = IF Length[n] > ShortSize THEN Length[n] ELSE ShortSize
      /\ AllFit' => Length[n] <= Room'
      /\ AllFit' /\ inits # <<>> => AllFit
  BY <1>1, AppendName
<1>4. Room \in Nat /\ ShortSize \in Nat /\ Room >= ShortSize
  BY <1>1, RoomType
<1>5. inits = <<>> => AllFit /\ Room = ShortSize
  BY DEF Room, AllFit
<1>6. data \in 1..Len(buffers)
  BY <1>1 DEF NameTypeOK
<1>7. AllFit => buffers[data].size = Room
  BY <1>1, <1>6 DEF RoomInv
<1>8. CASE Length[n] <= buffers[data].size /\ owner' = "copy" /\ buffers' = buffers
  <2>1. AllFit' => AllFit /\ Room' = Room
    BY <1>2, <1>3, <1>4, <1>5, <1>7, <1>8
  <2>2. AllFit' => AllFit /\ Room' = Room /\ Len(buffers') = Len(buffers)
    BY <1>8, <2>1
  <2>3. QED
    BY <1>1, <1>8, <2>2 DEF RoomInv
<1>9. CASE ~(Length[n] <= buffers[data].size) /\ owner' = "dispose" /\ buffers' = Append(buffers, new)
  <2>1. AllFit' => inits = <<>>
    BY <1>2, <1>3, <1>4, <1>7, <1>9
  <2>2. inits = <<>> => Room' = Length[n] /\ Room' # ShortSize /\ Len(buffers) = 1 /\ data = 1
    <3> SUFFICES ASSUME inits = <<>>
                 PROVE  Room' = Length[n] /\ Room' # ShortSize /\ Len(buffers) = 1 /\ data = 1
      OBVIOUS
    <3>1. Len(buffers) = 1 /\ Room = ShortSize /\ buffers[data].size = ShortSize
      BY <1>5, <1>7, Zenon DEF RoomInv
    <3>2. data = 1
      BY <1>6, <3>1
    <3>3. Length[n] > ShortSize
      BY <1>2, <1>4, <1>9, <3>1
    <3>4. QED
      BY <1>2, <1>3, <1>4, <3>1, <3>2, <3>3
  <2>3. /\ Len(buffers') = Len(buffers) + 1 /\ buffers'[Len(buffers) + 1] = new
        /\ buffers'[1] = buffers[1]
    BY <1>1, <1>2, <1>6, <1>9, AppendSteps DEF NameTypeOK
  <2>4. new.size = Length[n] /\ new.text = "partial"
    OBVIOUS
  <2> HIDE DEF new
  <2>5. QED
    BY <1>1, <1>9, <2>1, <2>2, <2>3, <2>4 DEF RoomInv
<1>10. QED
  BY <1>8, <1>9 DEF Assign, OwnerStep, Fits

(* The other steps of Init and the destructor write to one buffer.         *)
LEMMA TextKeepsRoom ==
    ASSUME TargetInv, RoomInv, UNCHANGED inits, NEW b \in 1..Len(buffers), NEW t \in Texts,
           Text(b, t), t = "freed" => b # 1 /\ (AllFit => owner' = "exited"),
           owner # "exited", owner' # "dispose", data' \in 1..Len(buffers),
           AllFit /\ Room # ShortSize => owner' = "copy" \/ data' = 2
    PROVE  RoomInv'
<1>1. Room' = Room /\ ShortSize' = ShortSize /\ (AllFit' <=> AllFit)
  BY NamesKept
<1>2. /\ Len(buffers') = Len(buffers) /\ Len(buffers) \in Nat
      /\ buffers'[b].text = t
      /\ \A k \in 1..Len(buffers) :
            buffers'[k].size = buffers[k].size /\ (k # b => buffers'[k] = buffers[k])
  BY TextSteps DEF TargetInv, NameTypeOK
<1>3. data \in 1..Len(buffers)
  BY DEF TargetInv, NameTypeOK
<1>4. QED
  BY <1>1, <1>2, <1>3 DEF RoomInv

(* The same of a step that writes to none.                                 *)
LEMMA MoveKeepsRoom ==
    ASSUME RoomInv, UNCHANGED <<inits, buffers>>, owner # "exited", owner' # "dispose",
           AllFit /\ Room # ShortSize => owner' = "copy" \/ data' = 2
    PROVE  RoomInv'
<1>1. Room' = Room /\ (AllFit' <=> AllFit)
  BY NamesKept
<1>2. QED
  BY <1>1 DEF RoomInv

(* All steps of Init and the destructor.                                   *)
LEMMA NameStepKeepsRoom ==
    ASSUME TargetInv, RoomInv, NameStep
    PROVE  RoomInv'
<1>1. /\ Len(buffers) \in Nat /\ data \in 1..Len(buffers) /\ Len(buffers) \in 1..Len(buffers)
      /\ inits \in Seq(Names)
  BY DEF TargetInv, NameTypeOK
<1>2. {"", "partial", "freed"} \subseteq Texts
  BY DEF Texts
<1>3. CASE Dispose
  <2>1. owner = "dispose" /\ owner' = "copy" /\ UNCHANGED <<inits, data>>
    BY <1>3 DEF Dispose, OwnerStep
  <2>2. CASE UNCHANGED buffers
    BY <2>1, <2>2, MoveKeepsRoom
  <2>3. CASE data # 1 /\ Text(data, "freed")
    <3>1. ~AllFit
      BY <2>1, <2>3 DEF RoomInv
    <3>2. QED
      BY <1>1, <1>2, <2>1, <2>3, <3>1, TextKeepsRoom
  <2>4. QED
    BY <1>3, <2>2, <2>3 DEF Dispose
<1>4. CASE Copy
  <2>1. /\ owner = "copy" /\ owner' = "copied" /\ UNCHANGED inits
        /\ data' = Len(buffers) /\ Text(Len(buffers), "partial")
    BY <1>4 DEF Copy, OwnerStep, Text
  <2>2. AllFit /\ Room # ShortSize => Len(buffers) = 2
    BY DEF RoomInv
  <2>3. QED
    BY <1>1, <1>2, <2>1, <2>2, TextKeepsRoom
<1>5. CASE Copied
  <2>1. /\ owner = "copied" /\ owner' = "pointer" /\ UNCHANGED <<inits, data>>
        /\ Text(data, inits[Len(inits)])
    BY <1>5 DEF Copied, OwnerStep
  <2>2. inits[Len(inits)] \in Names
    BY <1>1, <2>1 DEF TargetInv
  <2>3. inits[Len(inits)] \in Texts /\ inits[Len(inits)] # "freed"
    BY <2>2, TargetAssumption, Zenon DEF Texts
  <2>4. AllFit /\ Room # ShortSize => data = 2
    BY <2>1 DEF RoomInv
  <2>5. QED
    BY <1>1, <2>1, <2>3, <2>4, TextKeepsRoom
<1>6. CASE SetPointer \/ Install
  <2>1. /\ owner \in {"pointer", "install"} /\ owner' \in {"install", "idle"}
        /\ UNCHANGED <<inits, buffers, data>>
    BY <1>6 DEF SetPointer, Install, OwnerStep
  <2>2. AllFit /\ Room # ShortSize => data = 2
    BY <2>1 DEF RoomInv
  <2>3. QED
    BY <2>1, <2>2, MoveKeepsRoom
<1>7. CASE DestroyName
  <2>1. owner = "exiting" /\ owner' = "exited" /\ UNCHANGED <<inits, data>>
    BY <1>7 DEF DestroyName, OwnerStep
  <2>2. AllFit /\ Room # ShortSize => data = 2
    BY <2>1 DEF RoomInv
  <2>3. CASE UNCHANGED buffers
    BY <2>1, <2>2, <2>3, MoveKeepsRoom
  <2>4. CASE data # 1 /\ Text(data, "freed")
    BY <1>1, <1>2, <2>1, <2>2, <2>4, TextKeepsRoom
  <2>5. QED
    BY <1>7, <2>3, <2>4 DEF DestroyName
<1>8. QED
  BY <1>3, <1>4, <1>5, <1>6, <1>7, AssignKeepsRoom DEF NameStep

(* Steps of SetLogCallback free no name.                                   *)
LEMMA CallbackStepKeepsRoom ==
    ASSUME RoomInv, CallbackStep, UNCHANGED nameVars
    PROVE  RoomInv'
<1>1. owner \in {"idle", "swap"} /\ owner' \in {"idle", "swap", "exiting"}
  BY DEF CallbackStep, SetLogCallbackTo, Swap, DestroyOld, DestroyCallback, OwnerStep
<1>2. UNCHANGED <<inits, buffers, data>>
  BY DEF nameVars
<1>3. AllFit /\ Room # ShortSize => data = 2
  BY <1>1 DEF RoomInv
<1>4. QED
  BY <1>1, <1>2, <1>3, MoveKeepsRoom
----------------------------------------------------------------------------
(* What a thread is about to read a name from.                             *)
SeenInv ==
    /\ DOMAIN seen = Threads
    /\ \A t \in Threads : "name" \in DOMAIN seen[t] /\ seen[t].name \in 0..Len(buffers)

(* A thread reads the name that is in use.                                 *)
LEMMA ReadsKeepSeen ==
    ASSUME TargetInv, SeenInv, NEW t \in Threads, Reads(t), UNCHANGED buffers
    PROVE  SeenInv'
<1>1. data \in 0..Len(buffers)
  BY DEF TargetInv, NameTypeOK
<1>2. DOMAIN seen = Threads /\ "name" \in DOMAIN seen[t]
  BY DEF SeenInv
<1>3. ASSUME NEW x, seen' = [seen EXCEPT ![t].unwritten = x] PROVE SeenInv'
  BY <1>2, <1>3, Zenon DEF SeenInv
<1>4. ASSUME NEW x, seen' = [seen EXCEPT ![t].words = x] PROVE SeenInv'
  BY <1>2, <1>4, Zenon DEF SeenInv
<1>5. ASSUME seen' = [seen EXCEPT ![t].name = data] PROVE SeenInv'
  BY <1>1, <1>2, <1>5, Zenon DEF SeenInv
<1>6. ASSUME NEW f, PutTime(t, f) PROVE SeenInv'
  <2>1. PICK c : seen' = [seen EXCEPT ![t].unread = @ \ {f}, ![t].stamp = @ \cup {c}]
    BY <1>6 DEF PutTime
  <2>2. DOMAIN seen' = Threads /\ \A u \in Threads : u # t => seen'[u] = seen[u]
    BY <1>2, <2>1
  <2>3. "name" \in DOMAIN seen'[t] /\ seen'[t].name = seen[t].name
    BY <1>2, <2>1
  <2>4. QED
    BY <1>2, <2>2, <2>3 DEF SeenInv
<1>7. QED
  BY <1>3, <1>4, <1>5, <1>6 DEF Reads, Localtime, ReadName, ReadFunctor

(* A step forgets what was read for it.                                    *)
LEMMA LogStepKeepsSeen ==
    ASSUME TargetInv, SeenInv, NEW t \in Threads, LogStep(t), UNCHANGED buffers
    PROVE  SeenInv'
<1>1. 0 \in 0..Len(buffers)
  BY DEF TargetInv, NameTypeOK
<1>2. PICK w, e : seen' = [seen EXCEPT ![t] = [NothingSeen EXCEPT !.words = w, !.cerr = e]]
  BY DEF LogStep
<1>3. PICK s : s = [NothingSeen EXCEPT !.words = w, !.cerr = e]
  OBVIOUS
<1>4. "name" \in DOMAIN s /\ s.name = 0
  BY <1>3 DEF NothingSeen
<1>5. seen' = [seen EXCEPT ![t] = s]
  BY <1>2, <1>3
<1>6. QED
  BY <1>1, <1>4, <1>5, Zenon DEF SeenInv

(* Buffers are only added.                                                 *)
LEMMA SeenKept ==
    ASSUME TargetInv, TargetInv', SeenInv, UNCHANGED seen, Len(buffers') >= Len(buffers)
    PROVE  SeenInv'
<1>1. Len(buffers) \in Nat /\ Len(buffers') \in Nat
  BY DEF TargetInv, NameTypeOK
<1>2. 0..Len(buffers) \subseteq 0..Len(buffers')
  BY <1>1
<1>3. QED
  BY <1>2 DEF SeenInv
----------------------------------------------------------------------------
NameInv == TargetInv /\ HandlerInv /\ RoomInv /\ SeenInv

(* A step of anybody but the owner.                                        *)
LEMMA RoomKept ==
    ASSUME RoomInv, UNCHANGED <<owner, nameVars>>
    PROVE  RoomInv'
<1>1. UNCHANGED <<inits, buffers, data, owner>>
  BY DEF nameVars
<1>2. Room' = Room /\ (AllFit' <=> AllFit)
  BY <1>1, NamesKept
<1>3. QED
  BY <1>1, <1>2 DEF RoomInv

(* All steps together.                                                     *)
LEMMA NameInvStep ==
    ASSUME NameInv, [TargetNext]_targetVars
    PROVE  NameInv'
<1>1. TargetInv /\ HandlerInv /\ RoomInv /\ SeenInv
  BY DEF NameInv
<1>2. TargetInv' /\ HandlerInv'
  BY <1>1, TargetStepKeeps
<1>3. ASSUME UNCHANGED <<owner, nameVars>> PROVE RoomInv' /\ UNCHANGED buffers
  BY <1>1, <1>3, RoomKept DEF nameVars
<1>4. ASSUME UNCHANGED buffers, UNCHANGED seen PROVE SeenInv'
  BY <1>1, <1>4 DEF SeenInv
<1>5. CASE UNCHANGED targetVars
  <2>1. UNCHANGED <<owner, nameVars>> /\ UNCHANGED seen
    BY <1>5 DEF targetVars, readerVars
  <2>2. QED
    BY <1>2, <1>3, <1>4, <2>1 DEF NameInv
<1>6. CASE NameStep /\ UNCHANGED <<callbackVars, readerVars, threadVars>>
  <2>1. RoomInv' /\ Len(buffers') >= Len(buffers)
    BY <1>1, <1>6, NameStepKeepsRoom, NameStepKeeps
  <2>2. UNCHANGED seen
    BY <1>6 DEF readerVars
  <2>3. SeenInv'
    BY <1>1, <1>2, <2>1, <2>2, SeenKept
  <2>4. QED
    BY <1>2, <2>1, <2>3 DEF NameInv
<1>7. CASE CallbackStep /\ UNCHANGED <<nameVars, readerVars, threadVars>>
  <2>1. RoomInv' /\ UNCHANGED buffers /\ UNCHANGED seen
    BY <1>1, <1>7, CallbackStepKeepsRoom DEF nameVars, readerVars
  <2>2. QED
    BY <1>2, <1>4, <2>1 DEF NameInv
<1>8. ASSUME NEW t \in Threads, UNCHANGED <<owner, nameVars>>, LogStep(t) \/ Reads(t)
      PROVE  NameInv'
  <2>1. RoomInv' /\ UNCHANGED buffers
    BY <1>3, <1>8
  <2>2. SeenInv'
    BY <1>1, <1>8, <2>1, LogStepKeepsSeen, ReadsKeepSeen
  <2>3. QED
    BY <1>2, <2>1, <2>2 DEF NameInv
<1>9. CASE /\ (\E s \in 1..Handlers : Signal(s)) \/ LoadPointer \/ RecordAndExit
           /\ UNCHANGED <<owner, nameVars, callbackVars, threadVars, tm, seen>>
  BY <1>2, <1>3, <1>4, <1>9 DEF NameInv
<1>10. QED
  BY <1>5, <1>6, <1>7, <1>8, <1>9 DEF TargetNext

(* Before the first Init there is one buffer.                              *)
LEMMA InitialNames == TargetInit => NameInv
<1> SUFFICES ASSUME TargetInit PROVE NameInv
  OBVIOUS
<1>1. TargetInv /\ HandlerInv
  BY TargetInitInv, InitialHandler
<1>2. /\ inits = <<>> /\ buffers = <<[size |-> ShortSize, text |-> ""]>>
      /\ owner = "idle" /\ seen = [t \in Threads |-> NothingSeen]
  BY Zenon DEF TargetInit
<1>3. /\ buffers[1].size = ShortSize /\ buffers[1].text # "freed" /\ Len(buffers) = 1
      /\ owner # "dispose"
  BY <1>2
<1>4. Room = ShortSize
  BY <1>2 DEF Room
<1>5. RoomInv
  BY <1>3, <1>4 DEF RoomInv
<1>6. 0 \in 0..Len(buffers)
  BY <1>3
<1>7. SeenInv
  <2>1. "name" \in DOMAIN NothingSeen /\ NothingSeen.name = 0
    BY DEF NothingSeen
  <2>2. QED
    BY <1>2, <1>6, <2>1, Zenon DEF SeenInv
<1>8. QED
  BY <1>1, <1>5, <1>7 DEF NameInv

(* Every pointer that somebody may still read from is that of one of the   *)
(* two buffers, and RoomInv knows both.                                    *)
LEMMA NamesAreAlive == NameInv => NameOutlivesReaders
<1> SUFFICES ASSUME NameInv, AllFit, Room = ShortSize \/ owner # "exited",
                    NEW b \in NamesRead \ {0}
             PROVE  buffers[b].text # "freed"
  BY DEF NameOutlivesReaders, AllFit, Room
<1>1. TargetInv /\ HandlerInv /\ RoomInv /\ SeenInv
  BY DEF NameInv
<1>2. Len(buffers) \in Nat
  BY <1>1 DEF TargetInv, NameTypeOK
<1>3. data \in 0..Len(buffers) /\ gLogFilenamePtr \in 0..Len(buffers)
  BY <1>1 DEF TargetInv, NameTypeOK
<1>4. handler.name \in 0..Len(buffers)
  BY <1>1 DEF HandlerInv
<1>5. \A t \in Threads : seen[t].name \in 0..Len(buffers)
  BY <1>1 DEF SeenInv
<1>6. b \in 1..Len(buffers)
  BY <1>2, <1>3, <1>4, <1>5 DEF NamesRead
<1>7. CASE Room = ShortSize
  BY <1>1, <1>6, <1>7 DEF RoomInv
<1>8. CASE Room # ShortSize
  <2>1. Len(buffers) = 2 /\ buffers[1].text # "freed" /\ buffers[2].text # "freed"
    BY <1>1, <1>8, Zenon DEF RoomInv
  <2>2. b = 1 \/ b = 2
    BY <1>6, <2>1
  <2>3. QED
    BY <2>1, <2>2
<1>9. QED
  BY <1>7, <1>8

(* While no later name is longer than what the first one left room for, no *)
(* thread and no handler reads a file name from freed memory, for any      *)
(* number of threads, of names and of calls of Init.                       *)
THEOREM NameLifetime == TargetSpec => []NameOutlivesReaders
<1>1. NameInv /\ [TargetNext]_targetVars => NameInv'
  BY NameInvStep
<1>2. QED
  BY <1>1, InitialNames, NamesAreAlive, PTL DEF TargetSpec
----------------------------------------------------------------------------
(* What logCallback_ has been given so far: its words are among that, and  *)
(* so is whatever a thread has read of them.                               *)
Given == {given[k] : k \in DOMAIN given}

CallbackInv ==
    /\ given \in Seq(Callables \cup {NoCallable}) /\ given # <<>>
    /\ words \in [Words -> Given]
    /\ logCallback_ = (words["manager"] # NoCallable)
    /\ owner = "swap" => Len(given) > 1
    /\ destroyed \cap (Pointers \cup {NoCallable}) = {}
    /\ Len(given) = 1 /\ owner \notin {"exiting", "exited"} => destroyed = {}

(* What a thread has seen on its way to its next step.                     *)
Times == CallIds \cup {NoCall}
Sights == [unwritten : SUBSET Fields, unread : SUBSET Fields, stamp : SUBSET Times,
           name : Nat, words : Seq(Callables \cup {NoCallable}), cerr : BOOLEAN]

SightInv ==
    /\ tm \in [Fields -> Times]
    /\ seen \in [Threads -> Sights]
    /\ \A t \in Threads : \A k \in DOMAIN seen[t].words : seen[t].words[k] \in Given

(* A call that was turned away: it only returns, and writes nothing.       *)
TurnedAway(c) ==
    /\ c \in CallIds
    /\ c[2] <= calls[c[1]]
    /\ ~InLog(c)
    /\ \A d \in 1..MaxDepth :
          frame[c[1]][d].call = c[2] =>
              frame[c[1]][d].level = "WARN" \/ frame[c[1]][d].pc = "return"

(* A time that is no entry's: such a call's, or the program's own.         *)
NoEntrys(c) == c = NoCall \/ TurnedAway(c)

(* The shared struct tm is written by the one call that holds the mutex,   *)
(* by calls that were turned away and by the program: what stands in the   *)
(* fields that the holder has written is its own time or no entry's.       *)
StampInv ==
    \A t \in Threads :
        At(t, "build") =>
            /\ \A f \in Fields \ seen[t].unwritten : tm[f] = CallOf(t) \/ NoEntrys(tm[f])
            /\ \A c \in seen[t].stamp : c = CallOf(t) \/ NoEntrys(c)
----------------------------------------------------------------------------
(* SetLogCallback adds one callable to what was given.                     *)
LEMMA GivenGrows ==
    ASSUME NEW S, given \in Seq(S), NEW c \in S, given' = Append(given, c)
    PROVE  /\ given' \in Seq(S) /\ Len(given') = Len(given) + 1
           /\ Given \subseteq Given' /\ c \in Given'
<1>1. /\ Len(given) \in Nat /\ DOMAIN given = 1..Len(given) /\ DOMAIN given' = 1..(Len(given) + 1)
      /\ \A k \in DOMAIN given : given'[k] = given[k]
      /\ given'[Len(given) + 1] = c
  OBVIOUS
<1>2. Len(given) + 1 \in DOMAIN given' /\ DOMAIN given \subseteq DOMAIN given'
  BY <1>1
<1>3. QED
  BY <1>1, <1>2 DEF Given

(* The newest of them.                                                     *)
LEMMA NewIsGiven ==
    ASSUME CallbackInv
    PROVE  NewCallable \in Given /\ Len(given) \in Nat \ {0}
BY DEF CallbackInv, NewCallable, Given

(* The steps of SetLogCallback, and of the destructor at exit.             *)
LEMMA CallbackStepKeepsCallback ==
    ASSUME CallbackInv, CallbackStep
    PROVE  CallbackInv' /\ Given \subseteq Given'
<1>1. ASSUME NEW c, Destroy(c)
      PROVE  destroyed' \cap (Pointers \cup {NoCallable}) = {}
  BY <1>1 DEF Destroy, CallbackInv
<1>2. ASSUME NEW c \in Callables \cup {NoCallable}, SetLogCallbackTo(c)
      PROVE  CallbackInv' /\ Given \subseteq Given'
  <2>1. given' = Append(given, c) /\ UNCHANGED <<words, destroyed, logCallback_>>
    BY <1>2 DEF SetLogCallbackTo
  <2>2. /\ given' \in Seq(Callables \cup {NoCallable}) /\ Len(given') = Len(given) + 1
        /\ Given \subseteq Given'
    BY <2>1, GivenGrows DEF CallbackInv
  <2>3. Len(given') > 1 /\ given' # <<>>
    BY <2>1, <2>2, NewIsGiven
  <2>4. words' \in [Words -> Given']
    BY <2>1, <2>2 DEF CallbackInv
  <2>5. QED
    BY <2>1, <2>2, <2>3, <2>4 DEF CallbackInv
<1>3. ASSUME NEW w \in Words, Swap(w) PROVE CallbackInv' /\ Given \subseteq Given'
  <2>1. /\ UNCHANGED <<owner, given, destroyed>>
        /\ words' = [words EXCEPT ![w] = NewCallable]
        /\ logCallback_' = (words'["manager"] # NoCallable)
    BY <1>3 DEF Swap
  <2>2. Given' = Given
    BY <2>1 DEF Given
  <2>3. words' \in [Words -> Given]
    BY <2>1, NewIsGiven DEF CallbackInv
  <2>4. QED
    BY <2>1, <2>2, <2>3 DEF CallbackInv
<1>4. CASE DestroyOld \/ DestroyCallback
  <2>1. PICK c : Destroy(c)
    BY <1>4 DEF DestroyOld, DestroyCallback
  <2>2. UNCHANGED <<given, words, logCallback_>> /\ destroyed' \cap (Pointers \cup {NoCallable}) = {}
    BY <1>1, <2>1 DEF Destroy
  <2>3. (owner = "swap" /\ owner' = "idle") \/ owner' = "exiting"
    BY <1>4 DEF DestroyOld, DestroyCallback, OwnerStep
  <2>4. Given' = Given
    BY <2>2 DEF Given
  <2>5. Len(given) = 1 => owner # "swap"
    BY DEF CallbackInv
  <2>6. QED
    BY <2>2, <2>3, <2>4, <2>5 DEF CallbackInv
<1>5. QED
  BY <1>2, <1>3, <1>4 DEF CallbackStep

(* Whoever is not in SetLogCallback leaves the callback alone.             *)
LEMMA CallbackKept ==
    ASSUME CallbackInv, UNCHANGED callbackVars,
           owner' = owner \/ NameStep
    PROVE  CallbackInv' /\ Given' = Given
<1>1. UNCHANGED <<given, words, destroyed, logCallback_>>
  BY DEF callbackVars
<1>2. owner' = "swap" => owner = "swap"
  BY DEF NameStep, Assign, Dispose, Copy, Copied, SetPointer, Install, DestroyName, OwnerStep
<1>3. owner \in {"exiting", "exited"} => owner' \in {"exiting", "exited"}
  BY DEF NameStep, Assign, Dispose, Copy, Copied, SetPointer, Install, DestroyName, OwnerStep
<1>4. Given' = Given
  BY <1>1 DEF Given
<1>5. QED
  BY <1>1, <1>2, <1>3, <1>4 DEF CallbackInv
----------------------------------------------------------------------------
(* What has been read stays read.                                          *)
LEMMA SightsKept ==
    ASSUME SightInv, UNCHANGED <<tm, seen>>, Given \subseteq Given'
    PROVE  SightInv'
BY DEF SightInv

(* A read adds a value of the object that is read.                         *)
LEMMA SightsOfReads ==
    ASSUME IInv, TargetInv, CallbackInv, SightInv, NEW t \in Threads, Reads(t), UNCHANGED given
    PROVE  SightInv'
<1>1. seen[t] \in Sights /\ tm \in [Fields -> Times] /\ Given' = Given
  BY DEF SightInv, Given
<1>2. StampDue(t) => CallOf(t) \in CallIds
  BY TopOK DEF StampDue, At, IInv
<1>3. ASSUME NEW s \in Sights, seen' = [seen EXCEPT ![t] = s], tm' \in [Fields -> Times],
             \A k \in DOMAIN s.words : s.words[k] \in Given
      PROVE  SightInv'
  BY <1>1, <1>3 DEF SightInv
<1>4. ASSUME NEW f \in Fields, Localtime(t, f) PROVE SightInv'
  <2>1. PICK s : s = [seen[t] EXCEPT !.unwritten = seen[t].unwritten \ {f}]
    OBVIOUS
  <2>2. s \in Sights /\ s.words = seen[t].words
    BY <1>1, <2>1 DEF Sights
  <2>3. CallOf(t) \in Times
    BY <1>2, <1>4 DEF Localtime, Times
  <2>4. seen' = [seen EXCEPT ![t] = s] /\ tm' = [tm EXCEPT ![f] = CallOf(t)]
    BY <1>4, <2>1 DEF Localtime
  <2>5. tm' \in [Fields -> Times]
    BY <1>1, <2>3, <2>4
  <2>6. QED
    BY <1>3, <2>2, <2>4, <2>5 DEF SightInv
<1>5. ASSUME NEW f \in Fields, PutTime(t, f) PROVE SightInv'
  <2>1. PICK c \in Found(f) :
           seen' = [seen EXCEPT ![t].unread = @ \ {f}, ![t].stamp = @ \cup {c}]
    BY <1>5 DEF PutTime
  <2>2. c \in Times
    BY <1>1, <2>1 DEF Found, Times
  <2>3. PICK s : s = [seen[t] EXCEPT !.unread = seen[t].unread \ {f},
                                     !.stamp = seen[t].stamp \cup {c}]
    OBVIOUS
  <2>4. s \in Sights /\ s.words = seen[t].words
    BY <1>1, <2>2, <2>3 DEF Sights
  <2>5. seen' = [seen EXCEPT ![t] = s] /\ tm' = tm
    <3>1. seen \in [Threads -> Sights]
      BY DEF SightInv
    <3>2. seen' = [seen EXCEPT ![t] = s]
      BY <2>1, <2>3, <3>1
    <3>3. QED
      BY <1>5, <3>2 DEF PutTime
  <2>6. QED
    BY <1>1, <1>3, <2>4, <2>5 DEF SightInv
<1>6. CASE ReadName(t)
  <2>1. PICK s : s = [seen[t] EXCEPT !.name = data]
    OBVIOUS
  <2>2. data \in Nat
    BY DEF TargetInv, NameTypeOK
  <2>3. s \in Sights /\ s.words = seen[t].words
    BY <1>1, <2>1, <2>2 DEF Sights
  <2>4. seen' = [seen EXCEPT ![t] = s] /\ tm' = tm
    BY <1>6, <2>1 DEF ReadName
  <2>5. QED
    BY <1>1, <1>3, <2>3, <2>4 DEF SightInv
<1>7. CASE ReadFunctor(t)
  <2>1. PICK x, v, s : /\ x = words["functor"] /\ v = seen[t].words
                       /\ s = [seen[t] EXCEPT !.words = Append(v, x)]
    OBVIOUS
  <2>2. x \in Given /\ Given \subseteq Callables \cup {NoCallable}
    BY <2>1 DEF CallbackInv, Words, Given
  <2>3. v \in Seq(Callables \cup {NoCallable}) /\ \A k \in DOMAIN v : v[k] \in Given
    BY <1>1, <2>1 DEF Sights, SightInv
  <2>4. /\ Append(v, x) \in Seq(Callables \cup {NoCallable})
        /\ \A k \in DOMAIN Append(v, x) : Append(v, x)[k] \in Given
    BY <2>2, <2>3
  <2>5. s \in Sights /\ s.words = Append(v, x)
    BY <1>1, <2>1, <2>4 DEF Sights
  <2>6. seen' = [seen EXCEPT ![t] = s] /\ tm' = tm
    BY <1>7, <2>1 DEF ReadFunctor
  <2>7. QED
    BY <1>1, <1>3, <2>4, <2>5, <2>6
<1>8. QED
  BY <1>4, <1>5, <1>6, <1>7 DEF Reads

(* A step starts over, for its own thread only.                            *)
LEMMA SightsOfSteps ==
    ASSUME IInv, CallbackInv, SightInv, NEW t \in Threads, LogStep(t), UNCHANGED given
    PROVE  /\ SightInv'
           /\ seen'[t].stamp = {} /\ seen'[t].unwritten = Fields
           /\ \A u \in Threads : u # t => seen'[u] = seen[u]
<1>1. PICK v, e, s : /\ v = IF At(t, "invoke") THEN <<words["invoker"]>> ELSE <<>>
                     /\ e = (ReportToStderr(t) /\ Top(t).level # "WARN")
                     /\ s = [NothingSeen EXCEPT !.words = v, !.cerr = e]
  OBVIOUS
<1>2. seen' = [seen EXCEPT ![t] = s] /\ e \in BOOLEAN
  BY <1>1 DEF LogStep
<1>3. words["invoker"] \in Given /\ Given \subseteq Callables \cup {NoCallable}
  BY DEF CallbackInv, Words, Given
<1>4. v \in Seq(Callables \cup {NoCallable}) /\ \A k \in DOMAIN v : v[k] \in Given
  <2>1. CASE v = <<words["invoker"]>>
    BY <1>3, <2>1
  <2>2. CASE v = <<>>
    BY <2>2
  <2>3. QED
    BY <1>1, <2>1, <2>2
<1>5. s = [unwritten |-> Fields, unread |-> Fields, stamp |-> {},
           name |-> 0, words |-> v, cerr |-> e]
  BY <1>1 DEF NothingSeen
<1>6. s \in Sights
  BY <1>2, <1>4, <1>5 DEF Sights
<1>7. tm' = tm
  BY DEF LogStep
<1>8. Given' = Given
  BY DEF Given
<1>9. QED
  BY <1>2, <1>4, <1>5, <1>6, <1>7, <1>8 DEF SightInv
----------------------------------------------------------------------------
(* A thread's step is of its innermost frame, or puts one on top; it       *)
(* leaves the other threads where they are.                                *)
LEMMA OtherThreads ==
    ASSUME IInv, NEW u \in Threads, Call(u) \/ Progress(u) \/ CallbackRelogs(u),
           NEW t \in Threads, t # u
    PROVE  frame'[t] = frame[t] /\ depth'[t] = depth[t]
<1>1. \E n, f : frame' = [frame EXCEPT ![u][n] = f]
  BY DEF Call, CallbackRelogs, Push, Progress, Admit, Reject, Lock, Build, Open, OpenFails,
         WritePart, WriteFails, Inserted, CheckCallback, ReportToStderr, InvokeCallback,
         InvokeEmptyCallback, CallbackReturns, CallbackThrows, AllocFails, Clear, Close,
         Unlock, Return, Goto, Step
<1>2. depth' = depth \/ \E n : depth' = [depth EXCEPT ![u] = n]
  BY DEF Call, CallbackRelogs, Push, Progress, Admit, Reject, Lock, Build, Open, OpenFails,
         WritePart, WriteFails, Inserted, CheckCallback, ReportToStderr, InvokeCallback,
         InvokeEmptyCallback, CallbackReturns, CallbackThrows, AllocFails, Clear, Close,
         Unlock, Return
<1>3. QED
  BY <1>1, <1>2 DEF IInv, CallsTypeOK

(* A frame that moves keeps its call, and one that was turned away or is   *)
(* on its way out goes nowhere else.                                       *)
Away(f) == f.level = "WARN" \/ f.pc = "return"

(* A step moves the innermost frame or removes it.                         *)
LEMMA FrameStep ==
    ASSUME IInv, NEW t \in Threads, Progress(t)
    PROVE  /\ depth[t] > 0 /\ UNCHANGED calls
           /\ \E g \in Frames : /\ Step(t, g)
                                /\ g = NoFrame \/ g.call = Top(t).call
                                /\ Away(Top(t)) => g = NoFrame \/ Away(g)
<1>1. PICK f : f = Top(t)
  OBVIOUS
<1>2. depth[t] > 0 /\ UNCHANGED calls
  BY DEF Progress, Admit, Reject, Lock, Build, Open, OpenFails, WritePart, WriteFails,
         Inserted, CheckCallback, ReportToStderr, InvokeCallback, InvokeEmptyCallback,
         CallbackReturns, CallbackThrows, AllocFails, Clear, Close, Unlock, Return, At
<1>3. f \in Frames /\ FrameOK(f)
  BY <1>1, <1>2, TopOK DEF IInv
<1>4. CASE Return(t)
  <2>1. NoFrame \in Frames
    BY PartsAssumption, BoundsAssumption DEF NoFrame, Frames, Pcs, Levels
  <2>2. QED
    BY <1>2, <1>4, <2>1 DEF Return
<1>5. CASE InvokeEmptyCallback(t) \/ CallbackThrows(t) \/ AllocFails(t)
  <2> DEFINE g == Unwound(f)
  <2>1. Step(t, g)
    BY <1>1, <1>5 DEF InvokeEmptyCallback, CallbackThrows, AllocFails
  <2>2. f.pc # "return"
    BY <1>1, <1>5 DEF InvokeEmptyCallback, CallbackThrows, AllocFails, At
  <2>3. g \in Frames /\ g.call = f.call /\ (Away(f) => Away(g))
    BY <1>3, <2>2 DEF Unwound, Frames, Pcs, Levels, Away
  <2>4. QED
    BY <1>1, <1>2, <2>1, <2>3
<1>6. CASE WritePart(t) \/ WriteFails(t)
  <2>1. PICK n \in 0..Parts : Step(t, [f EXCEPT !.unwritten = n])
    <3>1. f.unwritten - 1 \in 0..Parts \/ ~WritePart(t)
      BY <1>1, <1>3, PartsAssumption DEF WritePart, Frames
    <3>2. 0 \in 0..Parts
      BY PartsAssumption
    <3>3. QED
      BY <1>1, <1>6, <3>1, <3>2 DEF WritePart, WriteFails
  <2>2. [f EXCEPT !.unwritten = n] \in Frames /\ [f EXCEPT !.unwritten = n].call = f.call
    BY <1>3 DEF Frames
  <2>3. Away(f) => Away([f EXCEPT !.unwritten = n])
    BY <1>3 DEF Away, Frames
  <2>4. QED
    BY <1>1, <1>2, <2>1, <2>2, <2>3
<1>7. CASE Reject(t) \/ Inserted(t) \/ OpenFails(t) \/ Open(t)
  <2>1. f.pc \in {"exchange", "write", "open"} /\ ~Away(f)
    BY <1>1, <1>3, <1>7 DEF Reject, Inserted, OpenFails, Open, At, Away, FrameOK
  <2>2. \E g \in Frames : Step(t, g) /\ g.call = f.call
    <3>1. CASE Open(t)
      <4>1. Parts \in 0..Parts /\ "write" \in Pcs
        BY PartsAssumption DEF Pcs
      <4>2. [f EXCEPT !.pc = "write", !.unwritten = Parts] \in Frames
        BY <1>3, <4>1 DEF Frames
      <4>3. QED
        BY <1>1, <1>3, <3>1, <4>2 DEF Open, Frames
    <3>2. CASE ~Open(t)
      <4>1. \A level \in Levels : /\ [f EXCEPT !.pc = "check", !.level = level] \in Frames
                                  /\ [f EXCEPT !.pc = "check", !.level = level].call = f.call
        BY <1>3 DEF Frames, Pcs
      <4>2. QED
        BY <1>1, <1>7, <3>2, <4>1 DEF Reject, Inserted, OpenFails, Levels, MessageLevels
    <3>3. QED
      BY <3>1, <3>2
  <2>3. QED
    BY <1>1, <1>2, <2>1, <2>2
<1>8. CASE \/ Admit(t) \/ Lock(t) \/ Build(t) \/ CheckCallback(t) \/ ReportToStderr(t)
           \/ InvokeCallback(t) \/ CallbackReturns(t) \/ Clear(t) \/ Close(t) \/ Unlock(t)
  <2>1. PICK pc \in Pcs : /\ Step(t, [f EXCEPT !.pc = pc])
                          /\ f.pc # "return"
    BY <1>1, <1>8 DEF Admit, Lock, Build, CheckCallback, ReportToStderr, InvokeCallback,
       CallbackReturns, Clear, Close, Unlock, At, Goto, After, Pcs
  <2>2. [f EXCEPT !.pc = pc] \in Frames /\ [f EXCEPT !.pc = pc].call = f.call
    BY <1>3 DEF Frames
  <2>3. Away(f) => Away([f EXCEPT !.pc = pc])
    BY <1>3, <2>1 DEF Away, Frames
  <2>4. QED
    BY <1>1, <1>2, <2>1, <2>2, <2>3
<1>9. QED
  BY <1>4, <1>5, <1>6, <1>7, <1>8 DEF Progress

(* A call that was turned away stays so in each step of a call ...         *)
LEMMA AwayStaysInProgress ==
    ASSUME IInv, log \in Seq(EntryParts), NEW t \in Threads, Progress(t), NEW c, TurnedAway(c)
    PROVE  TurnedAway(c)'
<1>1. PICK u \in Threads, n \in 1..MaxCalls : c = <<u, n>>
  BY DEF TurnedAway, CallIds
<1>2. /\ n <= calls[u] /\ ~InLog(c)
      /\ \A d \in 1..MaxDepth : frame[u][d].call = n => Away(frame[u][d])
  BY <1>1 DEF TurnedAway, Away
<1>3. PICK g \in Frames : /\ Step(t, g)
                          /\ g = NoFrame \/ g.call = Top(t).call
                          /\ Away(Top(t)) => g = NoFrame \/ Away(g)
  BY FrameStep
<1>4. /\ depth[t] \in 1..MaxDepth /\ frame'[t][depth[t]] = g /\ calls' = calls
      /\ \A w \in Threads, e \in 1..MaxDepth :
            <<w, e>> # <<t, depth[t]>> => frame'[w][e] = frame[w][e]
  BY <1>3, StepFrame, FrameStep DEF IInv
<1>5. \A d \in 1..MaxDepth : frame'[u][d].call = n => Away(frame'[u][d])
  <2>1. SUFFICES ASSUME NEW d \in 1..MaxDepth, frame'[u][d].call = n PROVE Away(frame'[u][d])
    OBVIOUS
  <2>2. CASE <<u, d>> # <<t, depth[t]>>
    BY <1>2, <1>4, <2>1, <2>2
  <2>3. CASE <<u, d>> = <<t, depth[t]>>
    <3>1. g # NoFrame
      BY <1>4, <2>1, <2>3 DEF NoFrame
    <3>2. Top(t) = frame[u][d] /\ Top(t).call = n
      BY <1>3, <1>4, <2>1, <2>3, <3>1 DEF Top
    <3>3. QED
      BY <1>2, <1>3, <1>4, <2>3, <3>1, <3>2
  <2>4. QED
    BY <2>2, <2>3
<1>6. ~InLog(c)'
  <2>1. CASE ~WritePart(t)
    BY <1>2, <2>1, PartAppended DEF InLog
  <2>2. CASE WritePart(t)
    <3>1. log' = Append(log, NextPart(t)) /\ NextPart(t).id = CallOf(t) /\ NextPart(t) \in EntryParts
      BY <2>2, PartAppended DEF NextPart
    <3>2. Top(t).unwritten > 0 /\ Top(t) \in Frames /\ FrameOK(Top(t)) /\ depth[t] > 0
      BY <1>4, <2>2, TopOK DEF WritePart, IInv
    <3>3. ~Away(Top(t))
      BY <3>2 DEF Away, FrameOK, Frames
    <3>4. CallOf(t) # c
      BY <1>1, <1>2, <1>4, <3>3 DEF CallOf, Top
    <3>5. InLog(c)' <=> InLog(c)
      <4>1. PICK m : m = Len(log) + 1
        OBVIOUS
      <4>2. /\ m \in Nat \ {0} /\ DOMAIN log = 1..(m - 1) /\ DOMAIN log' = 1..m
            /\ log'[m] = NextPart(t) /\ \A i \in DOMAIN log : log'[i] = log[i]
        BY <3>1, <4>1, Appended
      <4>3. \A i \in DOMAIN log' : i \in DOMAIN log \/ i = m
        BY <4>2
      <4>4. DOMAIN log \subseteq DOMAIN log'
        BY <4>2
      <4>5. QED
        BY <3>1, <3>4, <4>2, <4>3, <4>4 DEF InLog
    <3>6. QED
      BY <1>2, <3>5
  <2>3. QED
    BY <2>1, <2>2
<1>7. QED
  BY <1>1, <1>2, <1>4, <1>5, <1>6 DEF TurnedAway, Away, CallIds

(* A new call has a number of its own.                                     *)
LEMMA AwayStaysInPush ==
    ASSUME IInv, NEW t \in Threads, Push(t), UNCHANGED log, NEW c, TurnedAway(c)
    PROVE  TurnedAway(c)'
<1>1. PICK u \in Threads, n \in 1..MaxCalls : c = <<u, n>>
  BY DEF TurnedAway, CallIds
<1>2. /\ n <= calls[u] /\ ~InLog(c)
      /\ \A d \in 1..MaxDepth : frame[u][d].call = n => Away(frame[u][d])
  BY <1>1 DEF TurnedAway, Away
<1>3. PICK g : g = NewFrame(calls[t] + 1)
  OBVIOUS
<1>4. /\ frame'[t][depth[t] + 1] = g /\ depth[t] + 1 \in 1..MaxDepth
      /\ \A w \in Threads, e \in 1..MaxDepth :
            <<w, e>> # <<t, depth[t] + 1>> => frame'[w][e] = frame[w][e]
  BY <1>3, PushFrame DEF IInv
<1>5. /\ calls \in [Threads -> 0..MaxCalls] /\ calls' = [calls EXCEPT ![t] = calls[t] + 1]
      /\ g.call = calls[t] + 1
  BY <1>3 DEF IInv, CallsTypeOK, Push, NewFrame
<1>6. n <= calls'[u]
  BY <1>2, <1>5
<1>7. \A d \in 1..MaxDepth : frame'[u][d].call = n => Away(frame'[u][d])
  <2>1. SUFFICES ASSUME NEW d \in 1..MaxDepth, frame'[u][d].call = n PROVE Away(frame'[u][d])
    OBVIOUS
  <2>2. <<u, d>> # <<t, depth[t] + 1>>
    BY <1>2, <1>4, <1>5, <2>1
  <2>3. QED
    BY <1>2, <1>4, <2>1, <2>2
<1>8. ~InLog(c)'
  BY <1>2 DEF InLog
<1>9. QED
  BY <1>1, <1>6, <1>7, <1>8 DEF TurnedAway, Away, CallIds

(* ... and when nothing is called or written.                              *)
LEMMA AwayKept ==
    ASSUME UNCHANGED <<calls, frame, log>>, NEW c, TurnedAway(c)
    PROVE  TurnedAway(c)'
BY DEF TurnedAway, InLog

(* A call in the warning branch has been turned away.                      *)
LEMMA WarnedIsAway ==
    ASSUME IInv, FileInv, NEW t \in Threads, depth[t] > 0, Top(t).level = "WARN"
    PROVE  TurnedAway(CallOf(t))
<1>1. PICK d, n, c : d = depth[t] /\ n = frame[t][d].call /\ c = CallOf(t)
  OBVIOUS
<1>2. /\ d \in 1..MaxDepth /\ c = <<t, n>> /\ c \in CallIds
      /\ FrameFile(Top(t), c) /\ Top(t) = frame[t][d]
  BY <1>1, TopFile DEF Top
<1>3. /\ n \in 1..calls[t]
      /\ \A e \in 1..MaxDepth : frame[t][e].call = n => e = d
  BY <1>1, <1>2, FrameCalls DEF FileInv
<1>4. calls[t] \in Nat /\ n <= calls[t]
  BY <1>3 DEF IInv, CallsTypeOK
<1>5. ~InLog(c)
  BY <1>2 DEF FrameFile
<1>6. \A e \in 1..MaxDepth : frame[t][e].call = n => frame[t][e].level = "WARN"
  BY <1>2, <1>3
<1>7. QED
  BY <1>1, <1>2, <1>4, <1>5, <1>6 DEF TurnedAway

(* Whoever writes the shared struct tm next to a call that builds its      *)
(* entry has been turned away: all others hold the mutex when they do.     *)
LEMMA BuilderIsAlone ==
    ASSUME IInv, NEW t \in Threads, At(t, "build"), NEW u \in Threads, depth[u] > 0,
           Top(u).pc \in {"build", "check", "clear"}, Top(u).level # "WARN"
    PROVE  t = u
<1>1. /\ depth[t] \in 1..MaxDepth /\ FrameOK(Top(t)) /\ Top(t).pc = "build"
      /\ depth[u] \in 1..MaxDepth
  BY TopOK DEF At, IInv
<1>2. Locked(Top(t)) /\ Locked(Top(u))
  BY <1>1 DEF FrameOK, Locked
<1>3. Holding(t, depth[t]) /\ Holding(u, depth[u])
  BY <1>2 DEF Holding, Top
<1>4. QED
  BY <1>1, <1>3 DEF IInv, MutexFollowsScope

(* A step of another thread leaves an entry's time alone.                  *)
LEMMA StampsOfSteps ==
    ASSUME IInv, log \in Seq(EntryParts), CallbackInv, SightInv, StampInv,
           NEW u \in Threads, LogStep(u), UNCHANGED given
    PROVE  StampInv'
<1>1. /\ seen'[u].stamp = {} /\ seen'[u].unwritten = Fields
      /\ \A t \in Threads : t # u => seen'[t] = seen[t]
  BY SightsOfSteps
<1>2. SUFFICES ASSUME NEW t \in Threads, At(t, "build")'
               PROVE  /\ \A f \in Fields \ seen'[t].unwritten : tm'[f] = CallOf(t)' \/ NoEntrys(tm[f])'
                      /\ \A c \in seen'[t].stamp : c = CallOf(t)' \/ NoEntrys(c)'
  BY DEF StampInv, NoEntrys, TurnedAway, InLog
<1>3. CASE t = u
  BY <1>1, <1>3
<1>4. CASE t # u
  <2>1. frame'[t] = frame[t] /\ depth'[t] = depth[t] /\ seen'[t] = seen[t] /\ tm' = tm
    BY <1>1, <1>4, OtherThreads DEF LogStep
  <2>2. At(t, "build") /\ CallOf(t)' = CallOf(t)
    BY <1>2, <2>1 DEF At, Top, CallOf
  <2>3. ASSUME NEW c, NoEntrys(c) PROVE NoEntrys(c)'
    <3>1. CASE c = NoCall
      BY <3>1 DEF NoEntrys
    <3>2. CASE TurnedAway(c) /\ Progress(u)
      BY <3>2, AwayStaysInProgress DEF NoEntrys
    <3>3. CASE TurnedAway(c) /\ (Call(u) \/ CallbackRelogs(u))
      <4>1. Push(u) /\ UNCHANGED log
        BY <3>3 DEF Call, CallbackRelogs
      <4>2. QED
        BY <3>3, <4>1, AwayStaysInPush DEF NoEntrys
    <3>4. QED
      BY <2>3, <3>1, <3>2, <3>3 DEF LogStep, NoEntrys
  <2>4. ASSUME NEW f \in Fields \ seen'[t].unwritten
        PROVE  tm'[f] = CallOf(t)' \/ NoEntrys(tm[f])'
    <3>1. tm[f] = CallOf(t) \/ NoEntrys(tm[f])
      BY <2>1, <2>2 DEF StampInv
    <3>2. PICK c : c = tm[f] /\ c = tm'[f]
      BY <2>1
    <3>3. NoEntrys(c) => NoEntrys(c)'
      BY <2>3
    <3>4. QED
      BY <2>1, <2>2, <3>1, <3>2, <3>3 DEF NoEntrys, TurnedAway, InLog
  <2>5. ASSUME NEW c \in seen'[t].stamp PROVE c = CallOf(t)' \/ NoEntrys(c)'
    BY <2>1, <2>2, <2>3 DEF StampInv
  <2>6. QED
    BY <2>4, <2>5
<1>5. QED
  BY <1>3, <1>4

(* Taking a time: whoever writes to the shared struct tm next to a builder *)
(* has been turned away, all others hold the mutex when they do; and the   *)
(* builder reads only when it has written every field.                     *)
LEMMA StampsOfReads ==
    ASSUME IInv, FileInv, SightInv, StampInv, NEW u \in Threads, Reads(u), UNCHANGED threadVars
    PROVE  StampInv'
<1>1. UNCHANGED <<depth, frame, calls, log>>
  BY DEF threadVars
<1>2. ASSUME NEW c PROVE NoEntrys(c)' <=> NoEntrys(c)
  BY <1>1 DEF NoEntrys, TurnedAway, InLog
<1>3. SUFFICES ASSUME NEW t \in Threads, At(t, "build")
               PROVE  /\ \A f \in Fields \ seen'[t].unwritten : tm'[f] = CallOf(t) \/ NoEntrys(tm'[f])
                      /\ \A c \in seen'[t].stamp : c = CallOf(t) \/ NoEntrys(c)
  BY <1>1 DEF StampInv, At, Top, CallOf, NoEntrys, TurnedAway, InLog
<1>4. /\ \A f \in Fields \ seen[t].unwritten : tm[f] = CallOf(t) \/ NoEntrys(tm[f])
      /\ \A c \in seen[t].stamp : c = CallOf(t) \/ NoEntrys(c)
  BY <1>3 DEF StampInv
<1>5. tm \in [Fields -> Times] /\ seen \in [Threads -> Sights]
  BY DEF SightInv
<1>6. ASSUME NEW g \in Fields, Localtime(u, g)
      PROVE  /\ \A f \in Fields \ seen'[t].unwritten : tm'[f] = CallOf(t) \/ NoEntrys(tm'[f])
             /\ \A c \in seen'[t].stamp : c = CallOf(t) \/ NoEntrys(c)
  <2>1. PICK x : x = CallOf(u)
    OBVIOUS
  <2>2. tm' = [tm EXCEPT ![g] = x] /\ seen' = [seen EXCEPT ![u].unwritten = seen[u].unwritten \ {g}]
    BY <1>6, <2>1 DEF Localtime
  <2>3. \A f \in Fields : tm'[f] = IF f = g THEN x ELSE tm[f]
    BY <1>5, <2>2
  <2>4. seen'[t].stamp = seen[t].stamp /\ Fields \ seen'[t].unwritten \subseteq (Fields \ seen[t].unwritten) \cup {g}
    BY <1>5, <2>2 DEF Sights
  <2>5. x = CallOf(t) \/ NoEntrys(x)
    <3>1. CASE t = u
      BY <2>1, <3>1
    <3>2. CASE t # u
      <4>1. /\ depth[u] > 0 /\ FrameOK(Top(u))
            /\ Top(u).pc \in {"build", "clear"} \/ (Top(u).pc = "check" /\ Top(u).level = "WARN")
        BY <1>6, TopOK DEF Localtime, StampDue, At, IInv
      <4>2. Top(u).level = "WARN"
        BY <1>3, <3>2, <4>1, BuilderIsAlone
      <4>3. QED
        BY <2>1, <4>1, <4>2, WarnedIsAway DEF NoEntrys
    <3>3. QED
      BY <3>1, <3>2
  <2>6. QED
    BY <1>4, <2>3, <2>4, <2>5
<1>7. ASSUME NEW g \in Fields, PutTime(u, g)
      PROVE  /\ \A f \in Fields \ seen'[t].unwritten : tm'[f] = CallOf(t) \/ NoEntrys(tm'[f])
             /\ \A c \in seen'[t].stamp : c = CallOf(t) \/ NoEntrys(c)
  <2>1. tm' = tm /\ seen[u].unwritten = {}
    BY <1>7 DEF PutTime
  <2>2. PICK x \in Found(g) :
           seen' = [seen EXCEPT ![u].unread = @ \ {g}, ![u].stamp = @ \cup {x}]
    BY <1>7 DEF PutTime
  <2>3. /\ seen'[t].unwritten = seen[t].unwritten
        /\ seen'[t].stamp = IF t = u THEN seen[t].stamp \cup {x} ELSE seen[t].stamp
    BY <1>5, <2>2 DEF Sights
  <2>4. t = u => (x = CallOf(t) \/ NoEntrys(x))
    BY <1>4, <2>1, <2>2 DEF Found, NoEntrys
  <2>5. QED
    BY <1>4, <2>1, <2>3, <2>4
<1>8. CASE ReadName(u) \/ ReadFunctor(u)
  <2> DEFINE Kept == seen'[t].stamp = seen[t].stamp /\ seen'[t].unwritten = seen[t].unwritten
  <2>3. ASSUME NEW x, seen' = [seen EXCEPT ![u].name = x] PROVE Kept
    BY <1>5, <2>3 DEF Sights
  <2>4. ASSUME NEW x, seen' = [seen EXCEPT ![u].words = x] PROVE Kept
    BY <1>5, <2>4 DEF Sights
  <2>1. tm' = tm /\ Kept
    BY <1>8, <2>3, <2>4 DEF ReadName, ReadFunctor
  <2>2. QED
    BY <1>4, <2>1
<1>9. QED
  BY <1>6, <1>7, <1>8 DEF Reads

(* Whatever leaves struct tm, threads and file alone.                      *)
LEMMA StampsKept ==
    ASSUME StampInv, UNCHANGED <<tm, seen, threadVars>>
    PROVE  StampInv'
BY DEF StampInv, threadVars, At, Top, CallOf, NoEntrys, TurnedAway, InLog
----------------------------------------------------------------------------
(* What is always true of the readers, on top of what LogStacktrace        *)
(* guarantees and of what is true of the names.                            *)
ReaderInv == CallbackInv /\ SightInv /\ StampInv

(* Nobody has read anything.                                               *)
LEMMA InitialReaders == TargetInit => ReaderInv
<1> SUFFICES ASSUME TargetInit PROVE ReaderInv
  OBVIOUS
<1>1. PICK c \in Callables \cup {NoCallable} : given = <<c>>
  BY DEF TargetInit
<1>2. /\ given \in Seq(Callables \cup {NoCallable}) /\ given # <<>> /\ Len(given) = 1
      /\ given[1] = c /\ DOMAIN given = {1}
  BY <1>1
<1>3. /\ words = [w \in Words |-> c] /\ logCallback_ = (c # NoCallable)
      /\ owner = "idle" /\ destroyed = {} /\ tm = [f \in Fields |-> NoCall]
      /\ seen = [t \in Threads |-> NothingSeen]
  BY <1>2 DEF TargetInit
<1>4. CallbackInv
  <2>1. c \in Given
    BY <1>2 DEF Given
  <2>2. QED
    BY <1>2, <1>3, <2>1 DEF CallbackInv, Words
<1>5. NothingSeen \in Sights /\ NothingSeen.words = <<>>
  BY DEF NothingSeen, Sights
<1>6. SightInv
  BY <1>3, <1>5 DEF SightInv, Times
<1>7. \A t \in Threads : ~At(t, "build")
  <2>1. depth = [t \in Threads |-> 0]
    BY DEF TargetInit, Init
  <2>2. QED
    BY <2>1 DEF At
<1>8. QED
  BY <1>4, <1>6, <1>7 DEF ReaderInv, StampInv

(* All steps together.                                                     *)
LEMMA ReaderStep ==
    ASSUME IInv, FileInv, log \in Seq(EntryParts), TargetInv, ReaderInv, [TargetNext]_targetVars
    PROVE  ReaderInv'
<1>1. CallbackInv /\ SightInv /\ StampInv
  BY DEF ReaderInv
<1>2. CASE UNCHANGED <<callbackVars, tm, seen, threadVars>> /\ (owner' = owner \/ NameStep)
  BY <1>1, <1>2, CallbackKept, SightsKept, StampsKept DEF ReaderInv
<1>3. CASE CallbackStep /\ UNCHANGED <<nameVars, readerVars, threadVars>>
  BY <1>1, <1>3, CallbackStepKeepsCallback, SightsKept, StampsKept DEF ReaderInv, readerVars
<1>4. ASSUME NEW t \in Threads, LogStep(t), UNCHANGED <<owner, given, words, destroyed>>
      PROVE  ReaderInv'
  <2>1. UNCHANGED callbackVars
    BY <1>4, ThreadStep DEF callbackVars
  <2>2. QED
    BY <1>1, <1>4, <2>1, CallbackKept, SightsOfSteps, StampsOfSteps DEF ReaderInv
<1>5. ASSUME NEW t \in Threads, Reads(t), UNCHANGED <<owner, callbackVars, threadVars>>
      PROVE  ReaderInv'
  BY <1>1, <1>5, CallbackKept, SightsOfReads, StampsOfReads DEF ReaderInv, callbackVars
<1>6. CASE UNCHANGED targetVars
  BY <1>2, <1>6 DEF targetVars, readerVars
<1>7. QED
  BY <1>2, <1>3, <1>4, <1>5, <1>6 DEF TargetNext, readerVars

(* The steps of LogTarget keep all of it: what LogStacktrace guarantees of *)
(* its calls holds here because LogTarget implements it.                   *)
THEOREM ReaderInvariance == TargetSpec => [](TargetInv /\ HandlerInv /\ ReaderInv)
<1>1. TargetInit => TargetInv /\ HandlerInv /\ ReaderInv
  BY TargetInitInv, InitialHandler, InitialReaders
<1>2. /\ IInv /\ FileInv /\ log \in Seq(EntryParts)
      /\ TargetInv /\ HandlerInv /\ ReaderInv
      /\ [TargetNext]_targetVars
      => (TargetInv /\ HandlerInv /\ ReaderInv)'
  BY TargetStepKeeps, ReaderStep
<1>3. TargetSpec => [](IInv /\ FileInv /\ log \in Seq(EntryParts))
  BY ImplementsLogStacktrace, FileInvariance, PTL
<1>4. QED
  BY <1>1, <1>2, <1>3, PTL DEF TargetSpec

(* The variables of LogTarget keep their types, and whether the callback   *)
(* is set is what its manager word says.                                   *)
THEOREM TargetTypeCorrect == TargetSpec => []TargetTypeOK
<1>1. TargetInv /\ ReaderInv => TargetTypeOK
  <2> SUFFICES ASSUME TargetInv, CallbackInv PROVE TargetTypeOK
    BY DEF ReaderInv
  <2>1. Given \subseteq Callables \cup {NoCallable}
    BY DEF CallbackInv, Given
  <2>2. words \in [Words -> Callables \cup {NoCallable}]
    BY <2>1 DEF CallbackInv
  <2>3. logCallback_ <=> words["manager"] # NoCallable
    BY DEF CallbackInv
  <2>4. /\ buffers \in Seq([size : Nat, text : Names \cup {"", "partial", "freed"}])
        /\ data \in 1..Len(buffers) /\ gLogFilenamePtr \in 0..Len(buffers)
        /\ installed \in 0..(Handlers + 1)
    BY DEF TargetInv, NameTypeOK, Buffers, Texts
  <2>5. Len(buffers) \in Nat
    BY DEF TargetInv, NameTypeOK
  <2>6. {data, gLogFilenamePtr} \subseteq 0..Len(buffers) /\ data # 0
    <3>1. data \in 0..Len(buffers) /\ gLogFilenamePtr \in 0..Len(buffers) /\ data # 0
      BY <2>5 DEF TargetInv, NameTypeOK
    <3>2. QED
      BY <3>1
  <2>7. QED
    BY <2>2, <2>3, <2>4, <2>6 DEF TargetTypeOK
<1>2. QED
  BY <1>1, ReaderInvariance, PTL

(* Every word that a call has read is one of what logCallback_ was given.  *)
LEMMA CallbacksAreWhole == CallbackInv /\ SightInv => CallbackRunsWhole
<1> SUFFICES ASSUME CallbackInv, SightInv,
                    \/ \A k \in DOMAIN given : given[k] \in Pointers
                    \/ /\ Len(given) = 1 /\ given[1] # NoCallable
                       /\ owner \notin {"exiting", "exited"},
                    NEW t \in Threads
             PROVE  /\ At(t, "invoke") => logCallback_
                    /\ Len(seen[t].words) = 2 => RunsWhole(t)
  BY DEF CallbackRunsWhole
<1>1. NoCallable \notin Given /\ destroyed \cap Given = {} /\ (Given \subseteq Pointers \/ Given = {given[1]})
  <2>1. CASE \A k \in DOMAIN given : given[k] \in Pointers
    <3>1. Given \subseteq Pointers
      BY <2>1 DEF Given
    <3>2. destroyed \cap Pointers = {} /\ NoCallable \notin Pointers
      BY TargetAssumption DEF CallbackInv
    <3>3. QED
      BY <3>1, <3>2
  <2>2. CASE Len(given) = 1 /\ given[1] # NoCallable /\ owner \notin {"exiting", "exited"}
    <3>1. DOMAIN given = {1}
      BY <2>2 DEF CallbackInv
    <3>2. Given = {given[1]} /\ destroyed = {}
      BY <2>2, <3>1 DEF Given, CallbackInv
    <3>3. QED
      BY <2>2, <3>2
  <2>3. QED
    BY <2>1, <2>2
<1>2. logCallback_
  <2>1. words["manager"] \in Given
    BY DEF CallbackInv, Words
  <2>2. QED
    BY <1>1, <2>1 DEF CallbackInv
<1>3. ASSUME Len(seen[t].words) = 2 PROVE RunsWhole(t)
  <2>1. 1 \in DOMAIN seen[t].words /\ 2 \in DOMAIN seen[t].words
    BY <1>3 DEF SightInv, Sights
  <2>2. seen[t].words[1] \in Given /\ seen[t].words[2] \in Given
    BY <2>1 DEF SightInv
  <2>3. QED
    BY <1>1, <2>2 DEF RunsWhole
<1>4. QED
  BY <1>2, <1>3

(* As long as all callbacks are plain functions, or the one that is there  *)
(* stays, every call of logCallback_ finds a callback, and runs one that   *)
(* is whole and alive, whatever SetLogCallback does in the meantime.       *)
THEOREM CallbackIsWhole == TargetSpec => []CallbackRunsWhole
<1>1. QED
  BY CallbacksAreWhole, ReaderInvariance, PTL DEF ReaderInv

(* A call that was turned away is neither in the file nor admitted.        *)
LEMMA StampsAreNoEntrys == IInv /\ StampInv => NoTimeOfAnotherEntry
<1> SUFFICES ASSUME IInv, StampInv, NEW t \in Threads, At(t, "build"),
                    NEW c \in seen[t].stamp \ {CallOf(t), NoCall}
             PROVE  /\ ~InLog(c)
                    /\ ~\E d \in 1..MaxDepth : Inside(c[1], d) /\ frame[c[1]][d].call = c[2]
  BY DEF NoTimeOfAnotherEntry
<1>1. TurnedAway(c)
  BY DEF StampInv, NoEntrys
<1>2. QED
  BY <1>1 DEF TurnedAway, Inside, Admitted

(* Field by field, a timestamp that is not the entry's own belongs to a    *)
(* call that was turned away while the entry was built, or to no call at   *)
(* all, never to another entry, for any number of threads and fields.      *)
THEOREM EntryTimesApart == TargetSpec => []NoTimeOfAnotherEntry
<1>1. TargetSpec => []IInv
  BY ImplementsLogStacktrace, Invariance, PTL
<1>2. QED
  BY <1>1, StampsAreNoEntrys, ReaderInvariance, PTL DEF ReaderInv
============================================================================
