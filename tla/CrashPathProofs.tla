-------------------------- MODULE CrashPathProofs --------------------------
(***************************************************************************)
(* Proofs about CrashPath, for every set of threads and of signals, every  *)
(* number of writes of a record and every fault.                           *)
(***************************************************************************)
EXTENDS CrashPath, TLAPS

IdOf(h) == <<h[1], HandlerOf(h).sig>>

(* A handler runs with its own signal blocked, so a thread's frames have   *)
(* different signals, and the thread and the signal name the frame.        *)
SignalsDiffer == \A h, k \in HandlerIds : IdOf(h) = IdOf(k) => h = k

(* Every handler starts its record at the first part.  It comes to _Exit   *)
(* with the whole record, without a file, or because of another handler.   *)
Progressed(h) ==
    LET f == HandlerOf(h) IN
    /\ f.pc \in {"exchange", "open", "timestamp"} => f.part = 1
    /\ f.pc = "release" => f.part = RecordParts + 1
    /\ f.pc = "exit" =>
          \/ f.part = RecordParts + 1
          \/ f.part = 1 /\ "open" \in CrashFaults
          \/ HandlerIds # {h}

(* What is in the file is what the handlers on the stacks have written so  *)
(* far, and what follows a part of the record being written is of the same *)
(* record.                                                                 *)
WrittenByHandlers ==
    \A i \in DOMAIN crashLog :
        \E h \in HandlerIds : crashLog[i].id = IdOf(h) /\ crashLog[i].part < HandlerOf(h).part

NothingLost ==
    "write" \notin CrashFaults =>
        \A h \in HandlerIds, part \in 1..RecordParts :
            part < HandlerOf(h).part => Recorded(IdOf(h), part)

RecorderIsLast ==
    \A h \in HandlerIds, i, k \in DOMAIN crashLog :
        (Recording(h) /\ crashLog[i].id = IdOf(h) /\ i <= k) => crashLog[k].id = IdOf(h)

CrashInv ==
    /\ CrashTypeOK
    /\ SignalsDiffer
    /\ OneRecorder
    /\ \A h \in HandlerIds : Progressed(h)
    /\ WrittenByHandlers /\ NothingLost /\ RecorderIsLast
    /\ RecordsUnmixed
    /\ process = "exited" => \E h \in HandlerIds : HandlerOf(h).pc = "exit"
----------------------------------------------------------------------------
(* What the two kinds of step do to the frames: a handler is entered, or   *)
(* the innermost one of a thread goes on.                                  *)
LEMMA IdsAre ==
    \A h : h \in HandlerIds <=> \E t \in Threads : \E i \in DOMAIN handlers[t] : h = <<t, i>>
  BY DEF HandlerIds

(* A handler frame has its type, and a name that consists of two values.   *)
LEMMA FramesTyped ==
    ASSUME CrashTypeOK, NEW h \in HandlerIds
    PROVE  HandlerOf(h) \in HandlerFrames /\ IdOf(h) \in Threads \X Signals /\ h = <<h[1], h[2]>>
<1>1. PICK t \in Threads : \E i \in DOMAIN handlers[t] : h = <<t, i>>
  BY IdsAre
<1>2. PICK i \in DOMAIN handlers[t] : h = <<t, i>>
  BY <1>1
<1>3. handlers[t] \in Seq(HandlerFrames)
  BY DEF CrashTypeOK
<1>4. handlers[t][i] \in HandlerFrames
  BY <1>2, <1>3
<1>5. QED
  BY <1>2, <1>4 DEF HandlerOf, IdOf, HandlerFrames

(* A step of the innermost handler leaves all others, and every name.      *)
LEMMA StepHandler ==
    ASSUME CrashTypeOK, NEW t \in Threads, InHandler(t), NEW g \in HandlerFrames,
           g.sig = TopHandler(t).sig, SetHandler(t, g),
           NEW h, h = <<t, Len(handlers[t])>>
    PROVE  /\ h \in HandlerIds /\ HandlerOf(h) = TopHandler(t) /\ TopHandler(t) \in HandlerFrames
           /\ handlers' \in [Threads -> Seq(HandlerFrames)]
           /\ HandlerIds' = HandlerIds
           /\ HandlerOf(h)' = g
           /\ \A k \in HandlerIds : k # h => HandlerOf(k)' = HandlerOf(k)
           /\ \A k \in HandlerIds : IdOf(k)' = IdOf(k)
<1> DEFINE n == Len(handlers[t])
<1>1. handlers[t] \in Seq(HandlerFrames) /\ n \in Nat /\ n \in DOMAIN handlers[t]
  BY DEF CrashTypeOK, InHandler
<1>2. h \in HandlerIds /\ HandlerOf(h) = TopHandler(t)
  BY <1>1, IdsAre DEF HandlerOf, TopHandler
<1>3. [handlers[t] EXCEPT ![n] = g] \in Seq(HandlerFrames)
  BY <1>1
<1>4. handlers' = [handlers EXCEPT ![t] = [handlers[t] EXCEPT ![n] = g]]
  BY DEF SetHandler
<1>5. handlers' \in [Threads -> Seq(HandlerFrames)]
  BY <1>3, <1>4 DEF CrashTypeOK
<1>6. /\ handlers'[t] = [handlers[t] EXCEPT ![n] = g]
      /\ \A u \in Threads : u # t => handlers'[u] = handlers[u]
  BY <1>4 DEF CrashTypeOK
<1>7. \A u \in Threads : DOMAIN handlers'[u] = DOMAIN handlers[u]
  BY <1>6
<1>8. HandlerIds' = HandlerIds
  BY <1>7 DEF HandlerIds
<1>9. HandlerOf(h)' = g
  BY <1>1, <1>6 DEF HandlerOf
<1>10. ASSUME NEW k \in HandlerIds, k # h PROVE HandlerOf(k)' = HandlerOf(k)
  <2>1. PICK u \in Threads : \E i \in DOMAIN handlers[u] : k = <<u, i>>
    BY IdsAre
  <2>2. PICK i \in DOMAIN handlers[u] : k = <<u, i>>
    BY <2>1
  <2>3. u # t \/ i # n
    BY <1>10, <2>2
  <2>4. handlers'[u][i] = handlers[u][i]
    BY <1>6, <2>3
  <2>5. QED
    BY <2>2, <2>4 DEF HandlerOf
<1>11. \A k \in HandlerIds : IdOf(k)' = IdOf(k)
  BY <1>2, <1>9, <1>10 DEF IdOf
<1>12. QED
  BY <1>1, <1>2, <1>5, <1>8, <1>9, <1>10, <1>11, FramesTyped

NewHandler(s) == [sig |-> s, pc |-> "exchange", part |-> 1]

(* A handler that is entered is new, and leaves all others as they are.    *)
LEMMA EnterSteps ==
    ASSUME CrashTypeOK, NEW t \in Threads, NEW s \in Signals, EnterHandler(t, s),
           NEW h, h = <<t, Len(handlers[t]) + 1>>
    PROVE  /\ handlers' \in [Threads -> Seq(HandlerFrames)]
           /\ h \notin HandlerIds /\ HandlerIds' = HandlerIds \cup {h}
           /\ HandlerOf(h)' = NewHandler(s) /\ IdOf(h)' = <<t, s>>
           /\ \A k \in HandlerIds : HandlerOf(k)' = HandlerOf(k) /\ IdOf(k)' = IdOf(k)
<1> DEFINE n == Len(handlers[t])
<1>1. handlers[t] \in Seq(HandlerFrames) /\ n \in Nat /\ DOMAIN handlers[t] = 1..n
  BY DEF CrashTypeOK
<1>2. NewHandler(s) \in HandlerFrames
  BY CrashAssumption DEF NewHandler, HandlerFrames, HandlerPcs
<1>3. handlers' = [handlers EXCEPT ![t] = Append(handlers[t], NewHandler(s))]
  BY DEF EnterHandler, NewHandler
<1>4. /\ Append(handlers[t], NewHandler(s)) \in Seq(HandlerFrames)
      /\ DOMAIN Append(handlers[t], NewHandler(s)) = 1..(n + 1)
      /\ Append(handlers[t], NewHandler(s))[n + 1] = NewHandler(s)
      /\ \A i \in 1..n : Append(handlers[t], NewHandler(s))[i] = handlers[t][i]
  BY <1>1, <1>2
<1>5. handlers' \in [Threads -> Seq(HandlerFrames)]
  BY <1>3, <1>4 DEF CrashTypeOK
<1>6. /\ handlers'[t] = Append(handlers[t], NewHandler(s))
      /\ \A u \in Threads : u # t => handlers'[u] = handlers[u]
  BY <1>3 DEF CrashTypeOK
<1>7. h \notin HandlerIds
  BY <1>1, IdsAre
<1>8. HandlerIds' = HandlerIds \cup {h}
  <2>1. ASSUME NEW k
        PROVE  (\E u \in Threads : \E i \in DOMAIN handlers'[u] : k = <<u, i>>) <=>
                  \/ \E u \in Threads : \E i \in DOMAIN handlers[u] : k = <<u, i>>
                  \/ k = h
    BY <1>1, <1>4, <1>6
  <2>2. \A k : k \in HandlerIds' <=> \E u \in Threads : \E i \in DOMAIN handlers'[u] : k = <<u, i>>
    BY DEF HandlerIds
  <2>3. QED
    BY <2>1, <2>2, IdsAre
<1>9. HandlerOf(h)' = NewHandler(s) /\ IdOf(h)' = <<t, s>>
  BY <1>4, <1>6 DEF HandlerOf, IdOf, NewHandler
<1>10. ASSUME NEW k \in HandlerIds PROVE HandlerOf(k)' = HandlerOf(k) /\ IdOf(k)' = IdOf(k)
  <2>1. PICK u \in Threads : \E i \in DOMAIN handlers[u] : k = <<u, i>>
    BY IdsAre
  <2>2. PICK i \in DOMAIN handlers[u] : k = <<u, i>>
    BY <2>1
  <2>3. handlers'[u][i] = handlers[u][i]
    BY <1>1, <1>4, <1>6
  <2>4. QED
    BY <2>2, <2>3 DEF HandlerOf, IdOf
<1>11. QED
  BY <1>5, <1>7, <1>8, <1>9, <1>10
----------------------------------------------------------------------------
(* The file: what is written for a frame is there because of that frame.   *)
LEMMA PartsOfOne ==
    ASSUME CrashInv, NEW h \in HandlerIds, NEW i \in DOMAIN crashLog, crashLog[i].id = IdOf(h)
    PROVE  crashLog[i].part \in 1..RecordParts /\ crashLog[i].part < HandlerOf(h).part
<1>1. crashLog[i].part \in 1..RecordParts
  <2> DEFINE R == [id : Threads \X Signals, part : 1..RecordParts]
  <2>1. crashLog \in Seq(R)
    BY DEF CrashInv, CrashTypeOK
  <2>2. \A r \in R : r.part \in 1..RecordParts
    OBVIOUS
  <2> HIDE DEF R
  <2>3. crashLog[i] \in R
    BY <2>1
  <2>4. QED
    BY <2>2, <2>3
<1>2. PICK k \in HandlerIds : crashLog[i].id = IdOf(k) /\ crashLog[i].part < HandlerOf(k).part
  BY DEF CrashInv, WrittenByHandlers
<1>3. k = h
  BY <1>2 DEF CrashInv, SignalsDiffer
<1>4. QED
  BY <1>1, <1>2, <1>3

(* A signal is taken: its handler has not written, and none is released.   *)
LEMMA EnterHandlerKeeps ==
    ASSUME CrashInv, NEW t \in Threads, NEW s \in Signals, s \notin Blocked(t), Running,
           EnterHandler(t, s), libcOwner' \in [LibcLocks -> Threads \cup {NoThread}],
           NEW h, h = <<t, Len(handlers[t]) + 1>>
    PROVE  CrashInv'
<1>1. /\ handlers' \in [Threads -> Seq(HandlerFrames)]
      /\ h \notin HandlerIds /\ HandlerIds' = HandlerIds \cup {h}
      /\ HandlerOf(h)' = NewHandler(s) /\ IdOf(h)' = <<t, s>>
      /\ \A k \in HandlerIds : HandlerOf(k)' = HandlerOf(k) /\ IdOf(k)' = IdOf(k)
  BY EnterSteps DEF CrashInv
<1>2. \A k \in HandlerIds : IdOf(k) # <<t, s>>
  <2>1. SUFFICES ASSUME NEW k \in HandlerIds, IdOf(k) = <<t, s>> PROVE FALSE
    OBVIOUS
  <2>2. PICK u \in Threads : \E i \in DOMAIN handlers[u] : k = <<u, i>>
    BY IdsAre
  <2>3. PICK i \in DOMAIN handlers[u] : k = <<u, i>>
    BY <2>2
  <2>4. u = t /\ handlers[t][i].sig = s
    BY <2>1, <2>3 DEF IdOf, HandlerOf
  <2>5. QED
    BY <2>3, <2>4 DEF Blocked
<1>3. UNCHANGED <<process, signalSafeBufferInUse, crashLog>>
  BY DEF EnterHandler
<1>4. CrashTypeOK'
  BY <1>1, <1>3 DEF CrashInv, CrashTypeOK
<1>5. SignalsDiffer'
  <2>1. SignalsDiffer
    BY DEF CrashInv
  <2>2. SUFFICES ASSUME NEW a \in HandlerIds \cup {h}, NEW b \in HandlerIds \cup {h},
                        IdOf(a)' = IdOf(b)'
                 PROVE  a = b
    BY <1>1, Zenon DEF SignalsDiffer
  <2>3. CASE a \in HandlerIds /\ b \in HandlerIds
    BY <1>1, <2>1, <2>2, <2>3 DEF SignalsDiffer
  <2>4. CASE a = h \/ b = h
    BY <1>1, <1>2, <2>2, <2>4
  <2>5. QED
    BY <2>3, <2>4
<1>6. ~Recording(h)' /\ \A k \in HandlerIds : Recording(k)' <=> Recording(k)
  BY <1>1 DEF Recording, NewHandler
<1>7. OneRecorder'
  BY <1>1, <1>3, <1>6 DEF CrashInv, OneRecorder
<1>8. ASSUME NEW k \in HandlerIds' PROVE Progressed(k)'
  <2>1. CASE k = h
    BY <1>1, <2>1 DEF Progressed, NewHandler
  <2>2. CASE k \in HandlerIds
    <3>1. Progressed(k) /\ HandlerOf(k)' = HandlerOf(k)
      BY <1>1, <2>2 DEF CrashInv
    <3>2. HandlerIds # {k} => HandlerIds' # {k}
      BY <1>1, <2>2
    <3>3. QED
      BY <3>1, <3>2 DEF Progressed
  <2>3. QED
    BY <1>1, <2>1, <2>2
<1>9. WrittenByHandlers'
  BY <1>1, <1>3 DEF CrashInv, WrittenByHandlers
<1>10. NothingLost'
  <2>1. \A id, part : Recorded(id, part)' <=> Recorded(id, part)
    BY <1>3 DEF Recorded
  <2>2. \A part \in 1..RecordParts : ~(part < HandlerOf(h)'.part)
    BY <1>1 DEF NewHandler
  <2>3. NothingLost
    BY DEF CrashInv
  <2>4. QED
    BY <1>1, <2>1, <2>2, <2>3 DEF NothingLost
<1>11. RecorderIsLast'
  <2>1. SUFFICES ASSUME NEW k \in HandlerIds', NEW i \in DOMAIN crashLog, NEW j \in DOMAIN crashLog,
                        Recording(k)', crashLog[i].id = IdOf(k)', i <= j
                 PROVE  crashLog[j].id = IdOf(k)'
    BY <1>3 DEF RecorderIsLast
  <2>2. k \in HandlerIds /\ Recording(k) /\ IdOf(k)' = IdOf(k)
    BY <1>1, <1>6, <2>1
  <2>3. RecorderIsLast
    BY DEF CrashInv
  <2>4. QED
    BY <2>1, <2>2, <2>3 DEF RecorderIsLast
<1>12. RecordsUnmixed' /\ process' # "exited"
  BY <1>3 DEF CrashInv, RecordsUnmixed, Running
<1>13. QED
  BY <1>4, <1>5, <1>7, <1>8, <1>9, <1>10, <1>11, <1>12 DEF CrashInv

(* The innermost handler of a thread goes on without writing.  When it     *)
(* starts to record it has written nothing yet.                            *)
LEMMA MoveKeeps ==
    ASSUME CrashInv, NEW t \in Threads, InHandler(t), Running, NEW pc \in HandlerPcs,
           HandlerGoto(t, pc), UNCHANGED <<process, libcOwner, crashLog>>,
           signalSafeBufferInUse' \in BOOLEAN,
           NEW h, h = <<t, Len(handlers[t])>>,
           OneRecorder', Progressed(h)', Recording(h)' => Recording(h) \/ HandlerOf(h).part = 1
    PROVE  CrashInv'
<1> DEFINE g == [TopHandler(t) EXCEPT !.pc = pc]
<1>1. TopHandler(t) \in HandlerFrames
  BY DEF CrashInv, CrashTypeOK, TopHandler, InHandler
<1>2. g \in HandlerFrames /\ g.sig = TopHandler(t).sig /\ g.part = TopHandler(t).part
  BY <1>1 DEF HandlerFrames
<1>3. SetHandler(t, g)
  BY DEF HandlerGoto
<1> HIDE DEF g
<1>4. /\ h \in HandlerIds /\ HandlerOf(h) = TopHandler(t)
      /\ handlers' \in [Threads -> Seq(HandlerFrames)]
      /\ HandlerIds' = HandlerIds
      /\ HandlerOf(h)' = g
      /\ \A k \in HandlerIds : k # h => HandlerOf(k)' = HandlerOf(k)
      /\ \A k \in HandlerIds : IdOf(k)' = IdOf(k)
  BY <1>2, <1>3, StepHandler DEF CrashInv
<1>5. \A k \in HandlerIds : HandlerOf(k)'.part = HandlerOf(k).part
  BY <1>2, <1>4
<1>6. CrashTypeOK'
  BY <1>4 DEF CrashInv, CrashTypeOK
<1>7. SignalsDiffer'
  BY <1>4 DEF CrashInv, SignalsDiffer
<1>8. \A k \in HandlerIds : Progressed(k)'
  BY <1>4 DEF CrashInv, Progressed
<1>9. WrittenByHandlers' /\ NothingLost'
  <2>1. \A id, part : Recorded(id, part)' <=> Recorded(id, part)
    BY DEF Recorded
  <2>2. WrittenByHandlers /\ NothingLost
    BY DEF CrashInv
  <2>3. WrittenByHandlers'
    BY <1>4, <1>5, <2>2 DEF WrittenByHandlers
  <2>4. NothingLost'
    BY <1>4, <1>5, <2>1, <2>2 DEF NothingLost
  <2>5. QED
    BY <2>3, <2>4
<1>10. RecorderIsLast'
  <2>1. SUFFICES ASSUME NEW k \in HandlerIds, NEW i \in DOMAIN crashLog, NEW j \in DOMAIN crashLog,
                        Recording(k)', crashLog[i].id = IdOf(k), i <= j
                 PROVE  crashLog[j].id = IdOf(k)
    BY <1>4 DEF RecorderIsLast
  <2>2. CASE Recording(k)
    BY <2>1, <2>2 DEF CrashInv, RecorderIsLast
  <2>3. CASE ~Recording(k)
    <3>1. k = h /\ HandlerOf(k).part = 1
      BY <1>4, <2>1, <2>3 DEF Recording
    <3>2. crashLog[i].part \in 1..RecordParts /\ crashLog[i].part < 1
      BY <2>1, <3>1, PartsOfOne
    <3>3. QED
      BY <3>2, CrashAssumption
  <2>4. QED
    BY <2>2, <2>3
<1>11. RecordsUnmixed' /\ process' # "exited"
  BY DEF CrashInv, RecordsUnmixed, Running
<1>12. QED
  BY <1>4, <1>6, <1>7, <1>8, <1>9, <1>10, <1>11 DEF CrashInv

(* It writes the next part, or fails to.                                   *)
LEMMA WriteKeeps ==
    ASSUME CrashInv, NEW t \in Threads, WriteRecord(t),
           NEW h, h = <<t, Len(handlers[t])>>
    PROVE  CrashInv'
<1> DEFINE f == TopHandler(t)
           g == [f EXCEPT !.part = @ + 1]
           r == [id |-> IdOf(h), part |-> f.part]
<1>1. /\ CrashTypeOK /\ SignalsDiffer /\ OneRecorder /\ WrittenByHandlers /\ NothingLost
      /\ RecorderIsLast /\ RecordsUnmixed /\ \A k \in HandlerIds : Progressed(k)
  BY DEF CrashInv
<1>2. /\ InHandler(t) /\ Running /\ f.pc = "write" /\ f.part <= RecordParts
      /\ SetHandler(t, g) /\ UNCHANGED <<process, signalSafeBufferInUse, libcOwner>>
  BY DEF WriteRecord, HandlerAt
<1>3. f \in HandlerFrames
  BY <1>1, <1>2 DEF CrashTypeOK, InHandler, TopHandler
<1>4. f.part \in 1..RecordParts /\ f.part + 1 \in 1..(RecordParts + 1)
  BY <1>2, <1>3, CrashAssumption DEF HandlerFrames
<1>5. g \in HandlerFrames /\ g.sig = f.sig /\ g.pc = "write" /\ g.part = f.part + 1
  BY <1>2, <1>3, <1>4 DEF HandlerFrames
<1> HIDE DEF g
<1>6. /\ h \in HandlerIds /\ HandlerOf(h) = f
      /\ handlers' \in [Threads -> Seq(HandlerFrames)]
      /\ HandlerIds' = HandlerIds
      /\ HandlerOf(h)' = g
      /\ \A k \in HandlerIds : k # h => HandlerOf(k)' = HandlerOf(k)
      /\ \A k \in HandlerIds : IdOf(k)' = IdOf(k)
  BY <1>1, <1>2, <1>5, StepHandler
<1>7. IdOf(h) = <<t, f.sig>> /\ IdOf(h) \in Threads \X Signals
  BY <1>1, <1>6, FramesTyped DEF IdOf
<1>8. r \in [id : Threads \X Signals, part : 1..RecordParts] /\ r.id = IdOf(h) /\ r.part = f.part
  BY <1>4, <1>7
<1>9. \/ crashLog' = Append(crashLog, r)
      \/ "write" \in CrashFaults /\ UNCHANGED crashLog
  BY <1>7 DEF WriteRecord
<1> HIDE DEF f, r
<1>10. \A k \in HandlerIds : HandlerOf(k).pc = HandlerOf(k)'.pc /\ (Recording(k)' <=> Recording(k))
  BY <1>2, <1>5, <1>6 DEF Recording
<1>11. \A k \in HandlerIds : Recording(k) => k = h
  BY <1>1, <1>2, <1>6 DEF OneRecorder, Recording
<1>12. \A k \in HandlerIds : HandlerOf(k).part \in Nat /\ HandlerOf(k)'.part \in Nat
                             /\ HandlerOf(k).part <= HandlerOf(k)'.part
  <2>1. \A k \in HandlerIds : HandlerOf(k).part \in Nat
    BY <1>1, FramesTyped DEF HandlerFrames
  <2>2. f.part \in Nat /\ HandlerOf(h).part = f.part /\ HandlerOf(h)'.part = f.part + 1
    BY <1>4, <1>5, <1>6
  <2>3. \A k \in HandlerIds : k # h => HandlerOf(k)'.part = HandlerOf(k).part
    BY <1>6
  <2>4. SUFFICES ASSUME NEW k \in HandlerIds
                 PROVE  HandlerOf(k)'.part \in Nat /\ HandlerOf(k).part <= HandlerOf(k)'.part
    BY <2>1
  <2>5. CASE k = h
    BY <2>2, <2>5
  <2>6. CASE k # h
    BY <2>1, <2>3, <2>6
  <2>7. QED
    BY <2>5, <2>6
<1>13. SignalsDiffer' /\ OneRecorder'
  BY <1>1, <1>2, <1>6, <1>10 DEF SignalsDiffer, OneRecorder
<1>14. \A k \in HandlerIds : Progressed(k)'
  BY <1>1, <1>2, <1>5, <1>6, <1>10 DEF Progressed
<1>15. process' # "exited"
  BY <1>2 DEF Running
<1>16. CASE crashLog' = Append(crashLog, r)
  <2>1. /\ Len(crashLog) \in Nat /\ DOMAIN crashLog = 1..Len(crashLog)
        /\ DOMAIN crashLog' = 1..(Len(crashLog) + 1) /\ crashLog'[Len(crashLog) + 1] = r
        /\ \A i \in DOMAIN crashLog : crashLog'[i] = crashLog[i]
        /\ crashLog' \in Seq([id : Threads \X Signals, part : 1..RecordParts])
    BY <1>1, <1>8, <1>16 DEF CrashTypeOK
  <2>2. CrashTypeOK'
    BY <1>1, <1>2, <1>6, <2>1 DEF CrashTypeOK
  <2>3. WrittenByHandlers'
    <3>1. ASSUME NEW i \in DOMAIN crashLog
          PROVE  \E k \in HandlerIds : crashLog'[i].id = IdOf(k)' /\ crashLog'[i].part < HandlerOf(k)'.part
      <4>1. PICK k \in HandlerIds : crashLog[i].id = IdOf(k) /\ crashLog[i].part < HandlerOf(k).part
        BY <1>1 DEF WrittenByHandlers
      <4>2. crashLog[i].part \in Nat
        BY <4>1, PartsOfOne
      <4>3. HandlerOf(k).part \in Nat /\ HandlerOf(k)'.part \in Nat
            /\ HandlerOf(k).part <= HandlerOf(k)'.part
        BY <1>12
      <4>4. crashLog[i].part < HandlerOf(k)'.part
        BY <4>1, <4>2, <4>3
      <4>5. QED
        BY <1>6, <2>1, <4>1, <4>4
    <3>2. r.id = IdOf(h)' /\ r.part < HandlerOf(h)'.part
      BY <1>4, <1>5, <1>6, <1>8
    <3>3. \A i \in DOMAIN crashLog' : i \in DOMAIN crashLog \/ crashLog'[i] = r
      BY <2>1
    <3>4. QED
      BY <1>6, <3>1, <3>2, <3>3 DEF WrittenByHandlers
  <2>4. NothingLost'
    <3>1. \A id, part : Recorded(id, part) => Recorded(id, part)'
      BY <2>1 DEF Recorded
    <3>2. \A part : part = f.part => Recorded(IdOf(h), part)'
      <4>1. crashLog'[Len(crashLog) + 1] = [id |-> IdOf(h)', part |-> f.part]
        BY <1>6, <2>1 DEF r
      <4>2. QED
        BY <2>1, <4>1 DEF Recorded
    <3>3. SUFFICES ASSUME "write" \notin CrashFaults, NEW k \in HandlerIds, NEW part \in 1..RecordParts,
                          part < HandlerOf(k)'.part
                   PROVE  Recorded(IdOf(k), part)'
      BY <1>6 DEF NothingLost
    <3>4. CASE part < HandlerOf(k).part
      <4>1. Recorded(IdOf(k), part)
        BY <1>1, <3>3, <3>4 DEF NothingLost
      <4>2. IdOf(k)' = IdOf(k)
        BY <1>6
      <4>3. QED
        BY <3>1, <4>1, <4>2
    <3>5. CASE ~(part < HandlerOf(k).part)
      <4>1. k = h
        BY <1>6, <3>3, <3>5
      <4>2. HandlerOf(h).part = f.part /\ HandlerOf(h)'.part = f.part + 1
        BY <1>5, <1>6
      <4>3. part = f.part
        BY <1>4, <3>3, <3>5, <4>1, <4>2
      <4>4. QED
        BY <3>2, <4>1, <4>3
    <3>6. QED
      BY <3>4, <3>5
  <2>5. RecorderIsLast'
    <3>1. SUFFICES ASSUME NEW k \in HandlerIds, NEW i \in DOMAIN crashLog', NEW j \in DOMAIN crashLog',
                          Recording(k), crashLog'[i].id = IdOf(k), i <= j
                   PROVE  crashLog'[j].id = IdOf(k)
      BY <1>6, <1>10 DEF RecorderIsLast
    <3>2. k = h
      BY <1>11, <3>1
    <3>3. CASE j = Len(crashLog) + 1
      BY <1>8, <2>1, <3>2, <3>3
    <3>4. CASE j # Len(crashLog) + 1
      <4>1. i \in DOMAIN crashLog /\ j \in DOMAIN crashLog
        BY <2>1, <3>1, <3>4
      <4>2. QED
        BY <1>1, <2>1, <3>1, <4>1 DEF RecorderIsLast
    <3>5. QED
      BY <3>3, <3>4
  <2>6. RecordsUnmixed'
    <3>1. SUFFICES ASSUME NEW i \in DOMAIN crashLog', NEW j \in DOMAIN crashLog', i < j,
                          crashLog'[i].id = crashLog'[j].id
                   PROVE  /\ crashLog'[i].part < crashLog'[j].part
                          /\ \A k \in i..j : crashLog'[k].id = crashLog'[i].id
      BY DEF RecordsUnmixed
    <3>2. i \in DOMAIN crashLog
      BY <2>1, <3>1
    <3>3. CASE j = Len(crashLog) + 1
      <4>1. crashLog[i].id = IdOf(h)
        BY <1>8, <2>1, <3>1, <3>2, <3>3
      <4>2. crashLog[i].part < f.part
        BY <1>6, <3>2, <4>1, PartsOfOne
      <4>3. Recording(h)
        BY <1>2, <1>6 DEF Recording, f
      <4>4. \A k \in DOMAIN crashLog : i <= k => crashLog[k].id = IdOf(h)
        BY <1>1, <1>6, <3>2, <4>1, <4>3 DEF RecorderIsLast
      <4>5. \A k \in i..j : i <= k /\ (k \in DOMAIN crashLog \/ k = Len(crashLog) + 1)
        BY <2>1, <3>2, <3>3
      <4>6. \A k \in i..j : crashLog'[k].id = IdOf(h)
        <5>1. crashLog'[Len(crashLog) + 1].id = IdOf(h)
          BY <1>8, <2>1
        <5>2. QED
          BY <2>1, <4>4, <4>5, <5>1
      <4>7. QED
        BY <1>8, <2>1, <3>2, <3>3, <4>1, <4>2, <4>6
    <3>4. CASE j # Len(crashLog) + 1
      <4>1. j \in DOMAIN crashLog
        BY <2>1, <3>4
      <4>2. /\ crashLog[i].part < crashLog[j].part
            /\ \A k \in i..j : crashLog[k].id = crashLog[i].id
        BY <1>1, <2>1, <3>1, <3>2, <4>1 DEF RecordsUnmixed
      <4>3. \A k \in i..j : k \in DOMAIN crashLog
        BY <2>1, <3>2, <4>1
      <4>4. QED
        BY <2>1, <3>2, <4>1, <4>2, <4>3
    <3>5. QED
      BY <3>3, <3>4
  <2>7. QED
    BY <1>6, <1>13, <1>14, <1>15, <2>2, <2>3, <2>4, <2>5, <2>6 DEF CrashInv
<1>17. CASE "write" \in CrashFaults /\ UNCHANGED crashLog
  <2>1. CrashTypeOK'
    BY <1>1, <1>2, <1>6, <1>17 DEF CrashTypeOK
  <2>2. WrittenByHandlers'
    <3>1. ASSUME NEW i \in DOMAIN crashLog
          PROVE  \E k \in HandlerIds : crashLog[i].id = IdOf(k)' /\ crashLog[i].part < HandlerOf(k)'.part
      <4>1. PICK k \in HandlerIds : crashLog[i].id = IdOf(k) /\ crashLog[i].part < HandlerOf(k).part
        BY <1>1 DEF WrittenByHandlers
      <4>2. crashLog[i].part \in Nat
        BY <4>1, PartsOfOne
      <4>3. QED
        BY <1>6, <1>12, <4>1, <4>2
    <3>2. QED
      BY <1>6, <1>17, <3>1 DEF WrittenByHandlers
  <2>3. NothingLost'
    BY <1>17 DEF NothingLost
  <2>4. RecorderIsLast'
    BY <1>1, <1>6, <1>10, <1>17 DEF RecorderIsLast
  <2>5. RecordsUnmixed'
    BY <1>1, <1>17 DEF RecordsUnmixed
  <2>6. QED
    BY <1>6, <1>13, <1>14, <1>15, <2>1, <2>2, <2>3, <2>4, <2>5 DEF CrashInv
<1>18. QED
  BY <1>9, <1>16, <1>17
----------------------------------------------------------------------------
(* No handler, no record.                                                  *)
LEMMA InitCrashInv == CrashInit => CrashInv
<1> SUFFICES ASSUME CrashInit PROVE CrashInv
  OBVIOUS
<1>1. HandlerIds = {}
  BY IdsAre DEF CrashInit
<1>2. CrashTypeOK
  <2>1. <<>> \in Seq(HandlerFrames) /\ <<>> \in Seq([id : Threads \X Signals, part : 1..RecordParts])
    OBVIOUS
  <2>2. handlers \in [Threads -> Seq(HandlerFrames)]
    BY <2>1 DEF CrashInit
  <2>3. QED
    BY <2>1, <2>2 DEF CrashInit, CrashTypeOK
<1>3. crashLog = <<>> /\ ~signalSafeBufferInUse /\ process = "running"
  BY DEF CrashInit
<1>4. QED
  BY <1>1, <1>2, <1>3
  DEF CrashInv, SignalsDiffer, OneRecorder, WrittenByHandlers, NothingLost, RecorderIsLast,
      RecordsUnmixed

(* The steps of a handler that write nothing.                              *)
LEMMA HandleKeeps ==
    ASSUME CrashInv, NEW t \in Threads, Handle(t)
    PROVE  CrashInv'
<1> DEFINE f == TopHandler(t)
<1>1. PICK h : h = <<t, Len(handlers[t])>>
  OBVIOUS
<1>2. InHandler(t) /\ Running
  BY DEF Handle, Enter, EnterBusy, OpenLog, OpenLogFails, Timestamp, WriteRecord, CloseLog,
         Release, Exit, HandlerAt
<1>3. CrashTypeOK /\ OneRecorder /\ Progressed(h) /\ h \in HandlerIds /\ HandlerOf(h) = f
      /\ f \in HandlerFrames
  <2>1. CrashTypeOK /\ OneRecorder /\ \A k \in HandlerIds : Progressed(k)
    BY DEF CrashInv
  <2>2. handlers[t] \in Seq(HandlerFrames) /\ Len(handlers[t]) \in DOMAIN handlers[t]
    BY <1>2, <2>1 DEF CrashTypeOK, InHandler
  <2>3. QED
    BY <1>1, <2>1, <2>2, IdsAre DEF HandlerOf, TopHandler
<1>4. ASSUME NEW pc \in HandlerPcs, HandlerGoto(t, pc)
      PROVE  /\ HandlerIds' = HandlerIds
             /\ HandlerOf(h)' = [f EXCEPT !.pc = pc]
             /\ Recording(h)' <=> pc \in {"open", "timestamp", "write", "release"}
             /\ \A k \in HandlerIds : k # h => HandlerOf(k)' = HandlerOf(k)
             /\ \A k \in HandlerIds : k # h => (Recording(k)' <=> Recording(k))
  <2> DEFINE g == [f EXCEPT !.pc = pc]
  <2>1. g \in HandlerFrames /\ g.sig = f.sig /\ g.pc = pc
    BY <1>3 DEF HandlerFrames
  <2>2. SetHandler(t, g)
    BY <1>4 DEF HandlerGoto
  <2>3. /\ HandlerIds' = HandlerIds
        /\ HandlerOf(h)' = g
        /\ \A k \in HandlerIds : k # h => HandlerOf(k)' = HandlerOf(k)
    BY <1>1, <1>2, <1>3, <2>1, <2>2, StepHandler
  <2>4. QED
    BY <2>1, <2>3 DEF Recording
<1>5. CASE Enter(t)
  <2>1. /\ f.pc = "exchange" /\ ~signalSafeBufferInUse /\ signalSafeBufferInUse' = TRUE
        /\ HandlerGoto(t, "open") /\ UNCHANGED <<process, libcOwner, crashLog>> /\ "open" \in HandlerPcs
    BY <1>5 DEF Enter, HandlerAt, HandlerPcs
  <2>2. OneRecorder' /\ HandlerOf(h).part = 1
    BY <1>3, <1>4, <2>1 DEF OneRecorder, Progressed
  <2>3. Progressed(h)'
    BY <1>3, <1>4, <2>1, <2>2 DEF Progressed, HandlerFrames
  <2>4. QED
    BY <1>1, <1>2, <2>1, <2>2, <2>3, MoveKeeps
<1>6. CASE EnterBusy(t)
  <2>1. /\ f.pc = "exchange" /\ signalSafeBufferInUse
        /\ HandlerGoto(t, "exit") /\ "exit" \in HandlerPcs
        /\ UNCHANGED <<process, signalSafeBufferInUse, libcOwner, crashLog>>
    BY <1>6 DEF EnterBusy, HandlerAt, HandlerPcs
  <2>2. PICK k \in HandlerIds : Recording(k)
    BY <1>3, <2>1 DEF OneRecorder
  <2>3. k # h /\ ~Recording(h)
    BY <1>3, <2>1, <2>2 DEF Recording
  <2>4. OneRecorder'
    BY <1>3, <1>4, <2>1, <2>3 DEF OneRecorder
  <2>5. Progressed(h)' /\ ~Recording(h)'
    BY <1>3, <1>4, <2>1, <2>2, <2>3 DEF Progressed, HandlerFrames
  <2>6. QED
    BY <1>1, <1>2, <1>3, <2>1, <2>4, <2>5, MoveKeeps DEF CrashTypeOK
<1>7. CASE OpenLog(t) \/ Timestamp(t) \/ CloseLog(t)
  <2>1. PICK pc \in {"timestamp", "write", "release"} :
          /\ HandlerGoto(t, pc)
          /\ f.pc \in {"open", "timestamp", "write"}
          /\ pc = "timestamp" => f.pc = "open"
          /\ pc = "release" => f.part = RecordParts + 1
          /\ UNCHANGED <<process, signalSafeBufferInUse, libcOwner, crashLog>>
    BY <1>7 DEF OpenLog, Timestamp, CloseLog, HandlerAt
  <2>2. Recording(h) /\ pc \in HandlerPcs
    BY <1>3, <2>1 DEF Recording, HandlerPcs
  <2>3. OneRecorder'
    BY <1>3, <1>4, <2>1, <2>2 DEF OneRecorder
  <2>4. Progressed(h)'
    BY <1>3, <1>4, <2>1, <2>2 DEF Progressed, HandlerFrames
  <2>5. QED
    BY <1>1, <1>2, <1>3, <2>1, <2>2, <2>3, <2>4, MoveKeeps DEF CrashTypeOK
<1>8. CASE OpenLogFails(t) \/ Release(t)
  <2>1. /\ HandlerGoto(t, "exit") /\ "exit" \in HandlerPcs /\ signalSafeBufferInUse' = FALSE
        /\ UNCHANGED <<process, libcOwner, crashLog>>
        /\ f.pc = "release" \/ (f.pc = "open" /\ "open" \in CrashFaults)
    BY <1>8 DEF OpenLogFails, Release, HandlerAt, HandlerPcs
  <2>2. Recording(h)
    BY <1>3, <2>1 DEF Recording
  <2>3. OneRecorder' /\ ~Recording(h)'
    BY <1>3, <1>4, <2>1, <2>2 DEF OneRecorder
  <2>4. Progressed(h)'
    BY <1>3, <1>4, <2>1 DEF Progressed, HandlerFrames
  <2>5. QED
    BY <1>1, <1>2, <2>1, <2>3, <2>4, MoveKeeps
<1>9. CASE WriteRecord(t)
  BY <1>1, <1>9, WriteKeeps
<1>10. CASE Exit(t)
  <2>1. /\ f.pc = "exit" /\ process' = "exited"
        /\ UNCHANGED <<signalSafeBufferInUse, handlers, libcOwner, crashLog>>
    BY <1>10 DEF Exit, HandlerAt
  <2>2. HandlerIds' = HandlerIds /\ \A k : HandlerOf(k)' = HandlerOf(k) /\ IdOf(k)' = IdOf(k)
    BY <2>1 DEF HandlerIds, HandlerOf, IdOf
  <2>3. CrashTypeOK' /\ OneRecorder' /\ SignalsDiffer' /\ \A k \in HandlerIds : Progressed(k)'
    BY <2>1, <2>2 DEF CrashInv, CrashTypeOK, OneRecorder, SignalsDiffer, Progressed, Recording
  <2>4. WrittenByHandlers' /\ NothingLost' /\ RecorderIsLast' /\ RecordsUnmixed'
    BY <2>1, <2>2 DEF CrashInv, WrittenByHandlers, NothingLost, RecorderIsLast, RecordsUnmixed,
                      Recorded, Recording
  <2>5. QED
    BY <1>3, <2>1, <2>2, <2>3, <2>4 DEF CrashInv
<1>11. QED
  BY <1>5, <1>6, <1>7, <1>8, <1>9, <1>10 DEF Handle

(* What changes neither a frame nor the file, and does not exit.           *)
LEMMA OtherKeeps ==
    ASSUME CrashInv, UNCHANGED <<signalSafeBufferInUse, handlers, libcOwner, crashLog>>,
           process' = process \/ process' = "killed"
    PROVE  CrashInv'
<1>1. HandlerIds' = HandlerIds /\ \A k : HandlerOf(k)' = HandlerOf(k) /\ IdOf(k)' = IdOf(k)
  BY DEF HandlerIds, HandlerOf, IdOf
<1>2. CrashTypeOK' /\ OneRecorder' /\ SignalsDiffer' /\ \A k \in HandlerIds : Progressed(k)'
  BY <1>1 DEF CrashInv, CrashTypeOK, OneRecorder, SignalsDiffer, Progressed, Recording
<1>3. WrittenByHandlers' /\ NothingLost' /\ RecorderIsLast' /\ RecordsUnmixed'
  BY <1>1 DEF CrashInv, WrittenByHandlers, NothingLost, RecorderIsLast, RecordsUnmixed,
              Recorded, Recording
<1>4. QED
  BY <1>1, <1>2, <1>3 DEF CrashInv

(* A signal enters a handler, or ends the process at once.                 *)
LEMMA StrikeKeeps ==
    ASSUME CrashInv, NEW t \in Threads, Strike(t)
    PROVE  CrashInv'
<1>1. CASE Kill
  BY <1>1, OtherKeeps DEF Kill
<1>2. ASSUME NEW s \in Signals, Running, s \notin Blocked(t), EnterHandler(t, s),
             UNCHANGED libcOwner \/ \E lock \in LibcLocks : libcOwner' = [libcOwner EXCEPT ![lock] = t]
      PROVE  CrashInv'
  <2>1. libcOwner' \in [LibcLocks -> Threads \cup {NoThread}]
    BY <1>2 DEF CrashInv, CrashTypeOK
  <2>2. QED
    BY <1>2, <2>1, EnterHandlerKeeps
<1>3. Strikes \subseteq Signals /\ StackSignal \in Signals /\ HeldLocks \subseteq LibcLocks
  BY CrashAssumption DEF LibcLocks
<1>4. ASSUME NEW s \in Strikes PROVE Raise(t, s) \/ Fault(t, s) => CrashInv'
  BY <1>1, <1>2, <1>3 DEF Raise, Fault
<1>5. ASSUME NEW s \in Strikes, NEW lock \in HeldLocks, RaiseHolding(t, s, lock) PROVE CrashInv'
  <2>1. Blocked(t) = {}
    BY <1>5 DEF RaiseHolding, InHandler, Blocked
  <2>2. QED
    BY <1>2, <1>3, <1>5, <2>1 DEF RaiseHolding
<1>6. ASSUME Overflow(t) PROVE CrashInv'
  <2>1. Blocked(t) = {} \/ Kill
    BY <1>6 DEF Overflow, InHandler, Blocked
  <2>2. QED
    BY <1>1, <1>2, <1>3, <1>6, <2>1 DEF Overflow
<1>7. QED
  BY <1>4, <1>5, <1>6 DEF Strike

(* All steps together.                                                     *)
LEMMA NextCrashInv == CrashInv /\ [CrashNext]_crashVars => CrashInv'
  BY HandleKeeps, StrikeKeeps, OtherKeeps DEF CrashNext, crashVars

(* The handlers keep CrashInv.                                             *)
THEOREM CrashInvariance == CrashSpec => []CrashInv
  BY InitCrashInv, NextCrashInv, PTL DEF CrashSpec

(* Type correctness of the crash path.                                     *)
THEOREM CrashTypeCorrect == CrashSpec => []CrashTypeOK
<1>1. CrashInv => CrashTypeOK
  BY DEF CrashInv
<1>2. QED
  BY <1>1, CrashInvariance, PTL

(* Whatever signals strike which threads at which step, the flag admits    *)
(* one handler at a time and is released by the one that set it.           *)
THEOREM RecorderIsAlone == CrashSpec => []OneRecorder
<1>1. CrashInv => OneRecorder
  BY DEF CrashInv
<1>2. QED
  BY <1>1, CrashInvariance, PTL

(* Crash records never mix in the file.                                    *)
THEOREM RecordsStayTogether == CrashSpec => []RecordsUnmixed
<1>1. CrashInv => RecordsUnmixed
  BY DEF CrashInv
<1>2. QED
  BY <1>1, CrashInvariance, PTL

(* A crash that no other signal interferes with is recorded in full, or,   *)
(* when the file cannot be opened, not at all.                             *)
THEOREM SingleCrashIsRecorded == CrashSpec => []SingleCrashRecorded
<1>1. ASSUME CrashInv, process = "exited", "write" \notin CrashFaults,
             NEW h \in HandlerIds, HandlerIds = {h}
      PROVE  LET written == {part \in 1..RecordParts : Recorded(IdOf(h), part)}
             IN  \/ written = 1..RecordParts
                 \/ "open" \in CrashFaults /\ written = {}
  <2>1. HandlerOf(h).pc = "exit"
    BY <1>1 DEF CrashInv
  <2>2. \/ HandlerOf(h).part = RecordParts + 1
        \/ HandlerOf(h).part = 1 /\ "open" \in CrashFaults
    BY <1>1, <2>1 DEF CrashInv, Progressed
  <2>3. RecordParts \in Nat
    BY CrashAssumption
  <2>4. ASSUME NEW part \in 1..RecordParts, Recorded(IdOf(h), part) PROVE part < HandlerOf(h).part
    <3>1. PICK i \in DOMAIN crashLog : crashLog[i] = [id |-> IdOf(h), part |-> part]
      BY <2>4 DEF Recorded
    <3>2. crashLog[i].id = IdOf(h) /\ crashLog[i].part = part
      BY <3>1
    <3>3. QED
      BY <1>1, <3>2, PartsOfOne
  <2>5. \A part \in 1..RecordParts : part < HandlerOf(h).part => Recorded(IdOf(h), part)
    BY <1>1 DEF CrashInv, NothingLost
  <2>6. QED
    BY <2>2, <2>3, <2>4, <2>5
<1>2. CrashInv => SingleCrashRecorded
  BY <1>1 DEF SingleCrashRecorded, IdOf
<1>3. QED
  BY <1>2, CrashInvariance, PTL
============================================================================
