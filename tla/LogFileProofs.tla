--------------------------- MODULE LogFileProofs ---------------------------
(***************************************************************************)
(* Proofs about what LogStacktrace leaves in the log file, and about what  *)
(* it reports of it.  The file may have other writers, as it has in        *)
(* ExceptionHandler: only the parts whose id is a call are its entries.    *)
(***************************************************************************)
EXTENDS LogStacktraceProofs

IsEntry(i) == log[i].id \in CallIds

PartsUpTo(c, n) == \A i \in DOMAIN log : log[i].id = c => log[i].part <= n

LastEntryIs(c, n) ==
    \E i \in DOMAIN log :
        /\ log[i] = [id |-> c, part |-> n]
        /\ \A j \in DOMAIN log : j > i => ~IsEntry(j)

(* Each call has a number of its own, and nothing is known yet of the      *)
(* calls that are still to be made.                                        *)
CallNumbers ==
    \A t \in Threads, d, e \in 1..MaxDepth :
        /\ d <= depth[t] => frame[t][d].call <= calls[t]
        /\ d < e /\ e <= depth[t] => frame[t][d].call < frame[t][e].call

Unused ==
    \A t \in Threads, n \in 1..MaxCalls :
        n > calls[t] => ~InLog(<<t, n>>) /\ \A level \in Levels : ~Told(<<t, n>>, level)

(* What a frame f, of the call c, has written and reported so far.         *)
FrameFile(f, c) ==
    /\ f.pc \in {"exchange", "lock", "build", "open"} \/ f.level \in {"WARN", "ERROR"} => ~InLog(c)
    /\ f.unwritten > 0 => PartsUpTo(c, Parts - f.unwritten)
    /\ f.unwritten > 0 /\ f.unwritten < Parts => LastEntryIs(c, Parts - f.unwritten)
    /\ f.pc \in {"exchange", "lock", "build", "open", "write", "check", "invoke"} =>
          \A level \in Levels : ~Told(c, level)
    /\ f.pc \in {"callback", "clear", "close", "unlock", "return"} /\ f.level \in MessageLevels =>
          Told(c, f.level)
    /\ Told(c, "WARN") \/ Told(c, "ERROR") => f.unwritten = 0
    /\ ("write" \notin Faults /\ f.unwritten = 0
        /\ (f.pc = "write" \/ f.level = "FATAL" \/ Told(c, "FATAL"))) => Whole(c)

FramesFile ==
    \A t \in Threads, d \in 1..MaxDepth :
        d <= depth[t] => FrameFile(frame[t][d], <<t, frame[t][d].call>>)

(* The entries among the parts of the file: contiguous, in order, apart.   *)
EntriesTyped == \A i \in DOMAIN log : IsEntry(i) => log[i].part \in 1..Parts

EntriesInOrder ==
    \A i \in DOMAIN log :
        IsEntry(i) =>
            \/ log[i].part = 1 /\ \A j \in 1..(i - 1) : log[j].id # log[i].id
            \/ \E j \in 1..(i - 1) :
                  /\ log[i] = [log[j] EXCEPT !.part = @ + 1]
                  /\ \A k \in (j + 1)..(i - 1) : ~IsEntry(k)

EntriesApart ==
    \A i, j \in DOMAIN log :
        (i < j /\ IsEntry(i) /\ log[i].id = log[j].id) =>
            /\ log[i].part < log[j].part
            /\ \A k \in i..j : IsEntry(k) => log[k].id = log[i].id

FileInv ==
    /\ CallNumbers /\ Unused /\ FramesFile
    /\ EntriesTyped /\ EntriesInOrder /\ EntriesApart
    /\ NoSilentLoss /\ ReportsMatchLog
----------------------------------------------------------------------------
(* The file as a sequence.                                                 *)
LEMMA Appended ==
    ASSUME NEW S, log \in Seq(S), NEW p \in S, log' = Append(log, p), NEW m, m = Len(log) + 1
    PROVE  /\ log' \in Seq(S)
           /\ m \in Nat \ {0} /\ DOMAIN log = 1..(m - 1) /\ DOMAIN log' = 1..m
           /\ log'[m] = p /\ \A i \in DOMAIN log : log'[i] = log[i]
OBVIOUS

(* What is written and reported of one call tells nothing of another.      *)
LEMMA OthersAlone ==
    ASSUME NEW S, log \in Seq(S), NEW c, NEW b, b # c,
           log' = log \/ \E p \in S : p.id = c /\ log' = Append(log, p),
           told' = told \/ \E level : told' = told \cup {[call |-> c, level |-> level]}
    PROVE  /\ InLog(b)' <=> InLog(b)
           /\ Whole(b)' <=> Whole(b)
           /\ \A n : PartsUpTo(b, n)' <=> PartsUpTo(b, n)
           /\ \A level : Told(b, level)' <=> Told(b, level)
<1>1. \A level : Told(b, level)' <=> Told(b, level)
  BY DEF Told
<1>2. CASE log' = log
  BY <1>1, <1>2 DEF InLog, Whole, PartsUpTo
<1>3. CASE \E p \in S : p.id = c /\ log' = Append(log, p)
  <2>1. PICK p \in S : p.id = c /\ log' = Append(log, p)
    BY <1>3
  <2>2. PICK m : m = Len(log) + 1
    OBVIOUS
  <2>3. /\ m \in Nat \ {0} /\ DOMAIN log = 1..(m - 1) /\ DOMAIN log' = 1..m
        /\ log'[m] = p /\ \A i \in DOMAIN log : log'[i] = log[i]
    BY <2>1, <2>2, Appended
  <2>4. \A i \in DOMAIN log' : i \in DOMAIN log \/ i = m
    BY <2>3
  <2>5. DOMAIN log \subseteq DOMAIN log'
    BY <2>3
  <2>6. InLog(b)' <=> InLog(b)
    BY <2>1, <2>3, <2>4, <2>5 DEF InLog
  <2>7. \A n : PartsUpTo(b, n)' <=> PartsUpTo(b, n)
    BY <2>1, <2>3, <2>4, <2>5 DEF PartsUpTo
  <2>8. Whole(b)' <=> Whole(b)
    <3>1. p # [id |-> b, part |-> Parts]
      BY <2>1
    <3>2. QED
      BY <2>3, <2>4, <2>5, <3>1 DEF Whole
  <2>9. QED
    BY <1>1, <2>6, <2>7, <2>8
<1>4. QED
  BY <1>2, <1>3

(* The calls of the frames in use are different, and their ids are calls.  *)
LEMMA FrameCalls ==
    ASSUME IInv, CallNumbers, NEW t \in Threads, NEW d \in 1..MaxDepth, d <= depth[t]
    PROVE  /\ frame[t][d] \in Frames /\ FrameOK(frame[t][d])
           /\ frame[t][d].call \in 1..calls[t]
           /\ <<t, frame[t][d].call>> \in CallIds
           /\ \A e \in 1..MaxDepth : frame[t][e].call = frame[t][d].call => e = d
<1>1. /\ frame[t][d] \in Frames /\ FrameOK(frame[t][d])
      /\ calls[t] \in 0..MaxCalls /\ depth[t] \in 0..MaxDepth
  BY DEF IInv, CallsTypeOK, StackOK
<1>2. frame[t][d].call \in 1..calls[t]
  BY <1>1, BoundsAssumption DEF CallNumbers, Frames, FrameOK
<1>3. <<t, frame[t][d].call>> \in CallIds
  BY <1>1, <1>2, BoundsAssumption DEF CallIds
<1>4. ASSUME NEW e \in 1..MaxDepth, frame[t][e].call = frame[t][d].call PROVE e = d
  <2>1. CASE e > depth[t]
    BY <1>1, <1>2, <1>4, <2>1 DEF IInv, StackOK, NoFrame
  <2>2. CASE e <= depth[t]
    <3>1. frame[t][e] \in Frames
      BY DEF IInv, CallsTypeOK
    <3>2. /\ d < e => frame[t][d].call < frame[t][e].call
          /\ e < d => frame[t][e].call < frame[t][d].call
      BY <2>2 DEF CallNumbers
    <3>3. QED
      BY <1>2, <1>4, <3>2
  <2>3. QED
    BY <1>1, <2>1, <2>2
<1>5. QED
  BY <1>1, <1>2, <1>3, <1>4

(* Only a frame that holds the mutex owes the file something.              *)
LEMMA OnlyWriter ==
    ASSUME IInv, NEW t \in Threads, NEW u \in Threads, NEW d \in 1..MaxDepth, NEW e \in 1..MaxDepth,
           d <= depth[t], e <= depth[u], frame[t][d].unwritten > 0, frame[u][e].unwritten > 0
    PROVE  t = u /\ d = e
<1>1. /\ frame[t][d] \in Frames /\ FrameOK(frame[t][d])
      /\ frame[u][e] \in Frames /\ FrameOK(frame[u][e])
  BY DEF IInv, CallsTypeOK, StackOK
<1>2. \A f \in Frames : FrameOK(f) /\ f.unwritten > 0 => Locked(f)
  BY DEF FrameOK, Frames, Locked, Pcs, Levels
<1>3. Holding(t, d) /\ Holding(u, e)
  BY <1>1, <1>2 DEF Holding
<1>4. logMutex = t /\ logMutex = u
  BY <1>3 DEF IInv, MutexFollowsScope
<1>5. QED
  BY <1>3, <1>4 DEF IInv, OneHolder

(* A step that moves the innermost frame of a thread along, appends at     *)
(* most a part of its entry and reports at most its call, disturbs only    *)
(* what is said about that call and about the order of the file.           *)
LEMMA TopMoves ==
    ASSUME NEW S, log \in Seq(S), IInv, FileInv,
           NEW t \in Threads, depth[t] > 0, NEW c, c = CallOf(t),
           NEW g \in Frames, g.call = Top(t).call, Step(t, g), UNCHANGED <<depth, calls>>,
           \/ log' = log
           \/ Top(t).unwritten > 0 /\ \E p \in S : p.id = c /\ log' = Append(log, p),
           told' = told \/ \E level : told' = told \cup {[call |-> c, level |-> level]},
           FrameFile(g, c)',
           Told(c, "WARN")' \/ Told(c, "ERROR")' => ~InLog(c)',
           EntriesTyped', EntriesInOrder', EntriesApart'
    PROVE  FileInv'
<1>1. /\ depth[t] \in 1..MaxDepth
      /\ frame'[t][depth[t]] = g
      /\ \A u \in Threads, e \in 1..MaxDepth :
            <<u, e>> # <<t, depth[t]>> => frame'[u][e] = frame[u][e]
  BY StepFrame DEF IInv
<1>2. \A u \in Threads, e \in 1..MaxDepth : frame'[u][e].call = frame[u][e].call
  BY <1>1 DEF Top
<1>3. CallNumbers'
  BY <1>2 DEF FileInv, CallNumbers
<1>4. c = <<t, g.call>> /\ g.call \in 1..calls[t] /\ c \in CallIds
  BY <1>1, FrameCalls DEF FileInv, CallOf, Top, IInv, CallsTypeOK
<1>5. \A b : b # c => /\ InLog(b)' <=> InLog(b)
                      /\ Whole(b)' <=> Whole(b)
                      /\ \A n : PartsUpTo(b, n)' <=> PartsUpTo(b, n)
                      /\ \A level : Told(b, level)' <=> Told(b, level)
  BY OthersAlone
<1>6. Unused'
  <2>1. SUFFICES ASSUME NEW u \in Threads, NEW n \in 1..MaxCalls, n > calls[u]
                 PROVE  ~InLog(<<u, n>>)' /\ \A level \in Levels : ~Told(<<u, n>>, level)'
    BY DEF Unused
  <2>2. <<u, n>> # c
    BY <1>4, <2>1 DEF IInv, CallsTypeOK
  <2>3. ~InLog(<<u, n>>) /\ \A level \in Levels : ~Told(<<u, n>>, level)
    BY <2>1 DEF FileInv, Unused
  <2>4. QED
    BY <1>5, <2>2, <2>3
<1>7. FramesFile'
  <2>1. SUFFICES ASSUME NEW u \in Threads, NEW e \in 1..MaxDepth, e <= depth[u]
                 PROVE  FrameFile(frame[u][e], <<u, frame[u][e].call>>)'
    BY DEF FramesFile
  <2>2. CASE <<u, e>> = <<t, depth[t]>>
    <3>1. frame'[u][e] = g /\ <<u, frame'[u][e].call>> = c
      BY <1>1, <1>4, <2>2
    <3>2. QED
      BY <3>1 DEF FrameFile
  <2>3. CASE <<u, e>> # <<t, depth[t]>>
    <3>1. PICK f, b : f = frame[u][e] /\ b = <<u, f.call>>
      OBVIOUS
    <3>2. frame'[u][e] = f
      BY <1>1, <2>3, <3>1
    <3>3. b # c
      <4>1. u = t => f.call # g.call
        BY <1>1, <2>1, <2>3, <3>1, FrameCalls DEF FileInv, Top
      <4>2. QED
        BY <1>4, <3>1, <4>1
    <3>4. FrameFile(f, b)
      BY <2>1, <3>1 DEF FileInv, FramesFile
    <3>5. f.unwritten > 0 => log' = log
      BY <1>1, <2>1, <2>3, <3>1, OnlyWriter DEF Top
    <3>6. f.unwritten > 0 /\ f.unwritten < Parts => LastEntryIs(b, Parts - f.unwritten)'
      BY <3>4, <3>5 DEF FrameFile, LastEntryIs, IsEntry
    <3>7. FrameFile(f, b)'
      BY <1>5, <3>3, <3>4, <3>6 DEF FrameFile
    <3>8. QED
      BY <3>1, <3>2, <3>7 DEF FrameFile
  <2>4. QED
    BY <2>2, <2>3
<1>8. \A b \in CallIds : Finished(b)' => Finished(b) /\ b # c
  <2>1. \A u \in Threads, n \in 1..MaxCalls :
           Finished(<<u, n>>)' => Finished(<<u, n>>) /\ <<u, n>> # c
    <3>1. SUFFICES ASSUME NEW u \in Threads, NEW n \in 1..MaxCalls, Finished(<<u, n>>)'
                   PROVE  Finished(<<u, n>>) /\ <<u, n>> # c
      OBVIOUS
    <3>2. n <= calls[u] /\ \A d \in 1..MaxDepth : frame'[u][d].call # n
      BY <3>1 DEF Finished
    <3>3. Finished(<<u, n>>)
      BY <1>2, <3>2 DEF Finished
    <3>4. <<u, n>> # c
      BY <1>1, <1>4, <3>2
    <3>5. QED
      BY <3>3, <3>4
  <2>2. QED
    BY <2>1 DEF CallIds
<1>9. NoSilentLoss'
  <2>1. NoSilentLoss
    BY DEF FileInv
  <2>2. QED
    BY <1>5, <1>8, <2>1 DEF NoSilentLoss
<1>10. ReportsMatchLog'
  <2>1. ReportsMatchLog
    BY DEF FileInv
  <2>2. SUFFICES ASSUME NEW b \in CallIds
                 PROVE  /\ Told(b, "WARN")' \/ Told(b, "ERROR")' => ~InLog(b)'
                        /\ (Told(b, "FATAL")' /\ Finished(b)' /\ "write" \notin Faults) => Whole(b)'
    BY DEF ReportsMatchLog
  <2>3. CASE b = c
    BY <1>8, <2>3
  <2>4. CASE b # c
    BY <1>5, <1>8, <2>1, <2>4 DEF ReportsMatchLog
  <2>5. QED
    BY <2>3, <2>4
<1>11. QED
  BY <1>3, <1>6, <1>7, <1>9, <1>10 DEF FileInv
----------------------------------------------------------------------------
(* The steps that neither write nor report.                                *)
Silent(t) ==
    \/ Admit(t) \/ Reject(t) \/ Lock(t) \/ Build(t) \/ Open(t) \/ OpenFails(t)
    \/ WriteFails(t) \/ Inserted(t) \/ CheckCallback(t) \/ InvokeEmptyCallback(t)
    \/ CallbackReturns(t) \/ CallbackThrows(t) \/ AllocFails(t)
    \/ Clear(t) \/ Close(t) \/ Unlock(t)

(* What FileInv says of a thread's innermost frame.                        *)
LEMMA TopFile ==
    ASSUME IInv, FileInv, NEW t \in Threads, depth[t] > 0
    PROVE  /\ Top(t) \in Frames /\ FrameOK(Top(t)) /\ depth[t] \in 1..MaxDepth
           /\ CallOf(t) = <<t, Top(t).call>> /\ CallOf(t) \in CallIds
           /\ FrameFile(Top(t), CallOf(t))
<1>1. Top(t) \in Frames /\ FrameOK(Top(t)) /\ depth[t] \in 1..MaxDepth /\ CallOf(t) \in CallIds
  BY TopOK DEF IInv
<1>2. FrameFile(frame[t][depth[t]], <<t, frame[t][depth[t]].call>>)
  BY <1>1 DEF FileInv, FramesFile
<1>3. QED
  BY <1>1, <1>2 DEF CallOf, Top

(* A step that neither writes nor reports moves one frame, of which what   *)
(* is said in FileInv stays true.                                          *)
LEMMA SilentFrame ==
    ASSUME IInv, FileInv, NEW t \in Threads, Silent(t)
    PROVE  /\ depth[t] > 0 /\ UNCHANGED <<depth, calls, log, told>>
           /\ \E g \in Frames : g.call = Top(t).call /\ Step(t, g) /\ FrameFile(g, CallOf(t))
<1>1. PICK f, c : f = Top(t) /\ c = CallOf(t)
  OBVIOUS
<1>2. depth[t] > 0 /\ UNCHANGED <<depth, calls, log, told>>
  BY DEF Silent, Admit, Reject, Lock, Build, Open, OpenFails, WriteFails, Inserted,
         CheckCallback, InvokeEmptyCallback, CallbackReturns, CallbackThrows, AllocFails,
         Clear, Close, Unlock, At
<1>3. f \in Frames /\ FrameOK(f) /\ FrameFile(f, c)
  BY <1>1, <1>2, TopFile
<1>4. SUFFICES \E g \in Frames : g.call = f.call /\ Step(t, g) /\ FrameFile(g, c)
  BY <1>1, <1>2
<1>5. CASE Admit(t) \/ Lock(t) \/ Build(t) \/ Clear(t) \/ Close(t) \/ Unlock(t)
  <2> DEFINE Goes(from, pc) == f.pc = from /\ Step(t, [f EXCEPT !.pc = pc])
  <2>1. \/ Goes("exchange", "lock") \/ Goes("lock", "build") \/ Goes("build", "open")
        \/ Goes("clear", "close") \/ Goes("close", "unlock") \/ Goes("unlock", "return")
    <3>1. CASE Admit(t) \/ Lock(t)
      BY <1>1, <3>1 DEF Admit, Lock, At, Goto
    <3>2. CASE Build(t) \/ Clear(t)
      BY <1>1, <3>2 DEF Build, Clear, At, Goto
    <3>3. CASE Close(t) \/ Unlock(t)
      BY <1>1, <3>3 DEF Close, Unlock, At, Goto
    <3>4. QED
      BY <1>5, <3>1, <3>2, <3>3
  <2>2. \A pc \in Pcs : [f EXCEPT !.pc = pc] \in Frames /\ [f EXCEPT !.pc = pc].call = f.call
    BY <1>3 DEF Frames
  <2>3. PICK pc \in Pcs :
           /\ Step(t, [f EXCEPT !.pc = pc])
           /\ \/ f.pc = "exchange" /\ pc = "lock"
              \/ f.pc = "lock" /\ pc = "build"
              \/ f.pc = "build" /\ pc = "open"
              \/ f.pc = "clear" /\ pc = "close"
              \/ f.pc = "close" /\ pc = "unlock"
              \/ f.pc = "unlock" /\ pc = "return"
    BY <2>1 DEF Pcs
  <2>4. FrameFile([f EXCEPT !.pc = pc], c)
    BY <1>3, <2>3 DEF FrameFile, FrameOK, Frames
  <2>5. QED
    BY <2>2, <2>3, <2>4
<1>6. CASE Reject(t)
  <2> DEFINE g == [f EXCEPT !.pc = "check", !.level = "WARN"]
  <2>1. g \in Frames /\ g.call = f.call /\ Step(t, g)
    BY <1>1, <1>3, <1>6 DEF Reject, Frames, Pcs, Levels, MessageLevels
  <2>2. FrameFile(g, c)
    BY <1>1, <1>3, <1>6 DEF Reject, At, FrameFile, FrameOK, Frames, MessageLevels, Levels
  <2>3. QED
    BY <2>1, <2>2
<1>7. CASE Open(t)
  <2> DEFINE g == [f EXCEPT !.pc = "write", !.unwritten = Parts]
  <2>1. Parts \in 0..Parts /\ Parts > 0
    BY PartsAssumption
  <2>2. g \in Frames /\ g.call = f.call /\ Step(t, g)
    BY <1>1, <1>3, <1>7, <2>1 DEF Open, Frames, Pcs
  <2>3. PartsUpTo(c, 0)
    BY <1>1, <1>3, <1>7 DEF Open, At, FrameFile, InLog, PartsUpTo
  <2>4. PartsUpTo(c, Parts - g.unwritten) /\ ~(g.unwritten < Parts) /\ g.unwritten # 0
    BY <1>3, <2>1, <2>3 DEF Frames
  <2>5. FrameFile(g, c)
    <3>1. g.pc = "write" /\ g.level = "NONE" /\ f.pc = "open"
      BY <1>1, <1>3, <1>7 DEF Open, At, FrameOK, Frames
    <3>2. \A level \in Levels : ~Told(c, level)
      BY <1>3, <3>1 DEF FrameFile
    <3> HIDE DEF g
    <3>3. QED
      BY <2>4, <3>1, <3>2 DEF FrameFile, Levels, MessageLevels
  <2>6. QED
    BY <2>2, <2>5
<1>8. CASE OpenFails(t)
  <2> DEFINE g == [f EXCEPT !.pc = "check", !.level = "ERROR"]
  <2>1. g \in Frames /\ g.call = f.call /\ Step(t, g)
    BY <1>1, <1>3, <1>8 DEF OpenFails, Frames, Pcs, Levels, MessageLevels
  <2>2. FrameFile(g, c)
    BY <1>1, <1>3, <1>8 DEF OpenFails, At, FrameFile, FrameOK, Frames, MessageLevels, Levels
  <2>3. QED
    BY <2>1, <2>2
<1>9. CASE WriteFails(t)
  <2> DEFINE g == [f EXCEPT !.unwritten = 0]
  <2>1. g \in Frames /\ g.call = f.call /\ Step(t, g)
    BY <1>1, <1>3, <1>9, PartsAssumption DEF WriteFails, Frames
  <2>2. FrameFile(g, c)
    BY <1>1, <1>3, <1>9 DEF WriteFails, At, FrameFile, FrameOK, Frames, Levels
  <2>3. QED
    BY <2>1, <2>2
<1>10. CASE Inserted(t)
  <2> DEFINE g == [f EXCEPT !.pc = "check", !.level = "FATAL"]
  <2>1. g \in Frames /\ g.call = f.call /\ Step(t, g)
    BY <1>1, <1>3, <1>10 DEF Inserted, Frames, Pcs, Levels, MessageLevels
  <2>2. FrameFile(g, c)
    BY <1>1, <1>3, <1>10 DEF Inserted, At, FrameFile, FrameOK, Frames, MessageLevels, Levels
  <2>3. QED
    BY <2>1, <2>2
<1>11. CASE CheckCallback(t)
  <2> DEFINE g == [f EXCEPT !.pc = "invoke"]
  <2>1. g \in Frames /\ g.call = f.call /\ Step(t, g)
    BY <1>1, <1>3, <1>11 DEF CheckCallback, Goto, Frames, Pcs
  <2>2. FrameFile(g, c)
    BY <1>1, <1>3, <1>11 DEF CheckCallback, At, FrameFile, FrameOK, Frames, MessageLevels, Levels
  <2>3. QED
    BY <2>1, <2>2
<1>12. CASE CallbackReturns(t)
  <2> DEFINE g == [f EXCEPT !.pc = After(f.level)]
  <2>1. g \in Frames /\ g.call = f.call /\ Step(t, g)
    BY <1>1, <1>3, <1>12 DEF CallbackReturns, Goto, After, Frames, Pcs
  <2>2. FrameFile(g, c)
    BY <1>1, <1>3, <1>12
    DEF CallbackReturns, At, After, FrameFile, FrameOK, Frames, MessageLevels, Levels
  <2>3. QED
    BY <2>1, <2>2
<1>13. CASE InvokeEmptyCallback(t) \/ CallbackThrows(t) \/ AllocFails(t)
  <2> DEFINE g == Unwound(f)
  <2>1. g \in Frames /\ g.call = f.call /\ Step(t, g)
    BY <1>1, <1>3, <1>13
    DEF InvokeEmptyCallback, CallbackThrows, AllocFails, Unwound, Frames, Pcs, Levels
  <2>2. f.pc \in {"invoke", "callback", "build", "check"}
    BY <1>1, <1>13 DEF InvokeEmptyCallback, CallbackThrows, AllocFails, At
  <2>3. FrameFile(g, c)
    BY <1>3, <2>2 DEF Unwound, FrameFile, FrameOK, Frames, MessageLevels, Levels
  <2>4. QED
    BY <2>1, <2>3
<1>14. QED
  BY <1>5, <1>6, <1>7, <1>8, <1>9, <1>10, <1>11, <1>12, <1>13 DEF Silent

(* So such a step keeps FileInv.                                           *)
LEMMA SilentKeeps ==
    ASSUME NEW S, log \in Seq(S), IInv, FileInv, NEW t \in Threads, Silent(t)
    PROVE  FileInv'
<1>1. depth[t] > 0 /\ UNCHANGED <<depth, calls, log, told>>
  BY SilentFrame
<1>2. PICK c : c = CallOf(t)
  OBVIOUS
<1>3. PICK g \in Frames : g.call = Top(t).call /\ Step(t, g) /\ FrameFile(g, c)
  BY <1>2, SilentFrame
<1>4. FrameFile(g, c)'
  BY <1>1, <1>3 DEF FrameFile, InLog, Told, Whole, PartsUpTo, LastEntryIs, IsEntry
<1>5. EntriesTyped' /\ EntriesInOrder' /\ EntriesApart'
  BY <1>1 DEF FileInv, EntriesTyped, EntriesInOrder, EntriesApart, IsEntry
<1>6. Told(c, "WARN")' \/ Told(c, "ERROR")' => ~InLog(c)'
  <2>1. ReportsMatchLog /\ c \in CallIds
    BY <1>1, <1>2, TopFile DEF FileInv
  <2>2. QED
    BY <1>1, <2>1 DEF ReportsMatchLog, Told, InLog
<1>7. log' = log /\ told' = told /\ UNCHANGED <<depth, calls>>
  BY <1>1
<1>8. QED
  BY <1>1, <1>2, <1>3, <1>4, <1>5, <1>6, <1>7, TopMoves

(* The steps that report.                                                  *)
LEMMA ReportKeeps ==
    ASSUME NEW S, log \in Seq(S), IInv, FileInv, NEW t \in Threads,
           ReportToStderr(t) \/ InvokeCallback(t)
    PROVE  FileInv'
<1>1. PICK f, c : f = Top(t) /\ c = CallOf(t)
  OBVIOUS
<1>2. /\ depth[t] > 0 /\ UNCHANGED <<depth, calls, log>>
      /\ told' = told \cup {[call |-> c, level |-> f.level]}
      /\ f.pc \in {"check", "invoke"}
      /\ \E pc \in {"callback", "return", "clear"} : Step(t, [f EXCEPT !.pc = pc])
  BY <1>1 DEF ReportToStderr, InvokeCallback, At, Report, Goto, After
<1>3. f \in Frames /\ FrameOK(f) /\ FrameFile(f, c) /\ c \in CallIds
  BY <1>1, <1>2, TopFile
<1>4. PICK pc \in {"callback", "return", "clear"} : Step(t, [f EXCEPT !.pc = pc])
  BY <1>2
<1>5. f.level \in MessageLevels /\ (f.level \in {"WARN", "ERROR"} => f.unwritten = 0 /\ ~InLog(c))
  BY <1>2, <1>3 DEF FrameOK, FrameFile
<1>6. \A level \in Levels : Told(c, level)' <=> level = f.level
  <2>1. \A level \in Levels : ~Told(c, level)
    BY <1>2, <1>3 DEF FrameFile
  <2>2. QED
    BY <1>2, <2>1 DEF Told
<1>7. PICK g : g = [f EXCEPT !.pc = pc]
  OBVIOUS
<1>8. /\ g \in Frames /\ g.call = f.call /\ Step(t, g)
      /\ g.pc = pc /\ g.level = f.level /\ g.unwritten = f.unwritten
  BY <1>3, <1>4, <1>7 DEF Frames, Pcs
<1>9. /\ InLog(c)' <=> InLog(c)
      /\ Whole(c)' <=> Whole(c)
      /\ \A n : (PartsUpTo(c, n)' <=> PartsUpTo(c, n)) /\ (LastEntryIs(c, n)' <=> LastEntryIs(c, n))
  BY <1>2 DEF InLog, Whole, PartsUpTo, LastEntryIs, IsEntry
<1>10. FrameFile(g, c)'
  <2>1. f.level \in Levels /\ "WARN" \in Levels /\ "ERROR" \in Levels /\ "FATAL" \in Levels
    BY <1>5 DEF Levels, MessageLevels
  <2>2. QED
    BY <1>3, <1>4, <1>5, <1>6, <1>8, <1>9, <2>1 DEF FrameFile
<1>11. Told(c, "WARN")' \/ Told(c, "ERROR")' => ~InLog(c)'
  BY <1>5, <1>6, <1>9 DEF Levels, MessageLevels
<1>12. EntriesTyped' /\ EntriesInOrder' /\ EntriesApart'
  BY <1>2 DEF FileInv, EntriesTyped, EntriesInOrder, EntriesApart, IsEntry
<1>13. /\ log' = log /\ UNCHANGED <<depth, calls>>
       /\ \E level : told' = told \cup {[call |-> c, level |-> level]}
  BY <1>2
<1>14. QED
  BY <1>1, <1>2, <1>8, <1>10, <1>11, <1>12, <1>13, TopMoves

(* An entry part that was in order still is after one more part.           *)
LEMMA OrderKept ==
    ASSUME EntriesInOrder, NEW m \in Nat \ {0}, DOMAIN log = 1..(m - 1),
           \A i \in DOMAIN log : log'[i] = log[i] /\ (IsEntry(i)' <=> IsEntry(i)),
           NEW i \in DOMAIN log, IsEntry(i)
    PROVE  \/ log'[i].part = 1 /\ \A j \in 1..(i - 1) : log'[j].id # log'[i].id
           \/ \E j \in 1..(i - 1) :
                 /\ log'[i] = [log'[j] EXCEPT !.part = @ + 1]
                 /\ \A k \in (j + 1)..(i - 1) : ~IsEntry(k)'
<1>1. \A j \in 1..(i - 1) : j \in DOMAIN log /\ (j + 1)..(i - 1) \subseteq DOMAIN log
  OBVIOUS
<1>2. \/ log[i].part = 1 /\ \A j \in 1..(i - 1) : log[j].id # log[i].id
      \/ \E j \in 1..(i - 1) :
            /\ log[i] = [log[j] EXCEPT !.part = @ + 1]
            /\ \A k \in (j + 1)..(i - 1) : ~IsEntry(k)
  BY DEF EntriesInOrder
<1>3. CASE log[i].part = 1 /\ \A j \in 1..(i - 1) : log[j].id # log[i].id
  BY <1>1, <1>3
<1>4. CASE \E j \in 1..(i - 1) :
              /\ log[i] = [log[j] EXCEPT !.part = @ + 1]
              /\ \A k \in (j + 1)..(i - 1) : ~IsEntry(k)
  <2>1. PICK j \in 1..(i - 1) :
              /\ log[i] = [log[j] EXCEPT !.part = @ + 1]
              /\ \A k \in (j + 1)..(i - 1) : ~IsEntry(k)
    BY <1>4
  <2>2. log'[i] = [log'[j] EXCEPT !.part = @ + 1]
    BY <1>1, <2>1
  <2>3. \A k \in (j + 1)..(i - 1) : ~IsEntry(k)'
    BY <1>1, <2>1
  <2>4. QED
    BY <2>2, <2>3
<1>5. QED
  BY <1>2, <1>3, <1>4

(* The next part of the entry of the frame that holds the mutex: it goes   *)
(* right after the part before it, apart from what is not of an entry.     *)
LEMMA WriteKeeps ==
    ASSUME NEW S, log \in Seq(S), EntryParts \subseteq S, IInv, FileInv,
           NEW t \in Threads, WritePart(t)
    PROVE  FileInv'
<1>1. PICK f, c, p, m : f = Top(t) /\ c = CallOf(t) /\ p = NextPart(t) /\ m = Len(log) + 1
  OBVIOUS
<1>2. PICK g : g = [f EXCEPT !.unwritten = f.unwritten - 1]
  OBVIOUS
<1>3. /\ depth[t] > 0 /\ UNCHANGED <<depth, calls, told>>
      /\ f.unwritten > 0 /\ f.pc \in {"write", "close"}
      /\ log' = Append(log, p) /\ Step(t, g)
  BY <1>1, <1>2 DEF WritePart, At
<1>4. /\ f \in Frames /\ FrameOK(f) /\ FrameFile(f, c)
      /\ depth[t] \in 1..MaxDepth /\ c = <<t, f.call>> /\ c \in CallIds
  BY <1>1, <1>3, TopFile
<1>5. PICK u : u = f.unwritten
  OBVIOUS
<1>6. u \in 1..Parts /\ Parts \in Nat /\ u - 1 \in 0..Parts /\ Parts + 1 - u \in 1..Parts
  BY <1>3, <1>4, <1>5, PartsAssumption DEF Frames
<1>7. p = [id |-> c, part |-> Parts + 1 - u]
  BY <1>1, <1>5 DEF NextPart
<1>8. p \in S
  BY <1>4, <1>6, <1>7 DEF EntryParts
<1>9. /\ m \in Nat \ {0} /\ DOMAIN log = 1..(m - 1) /\ DOMAIN log' = 1..m
      /\ log'[m] = p /\ \A i \in DOMAIN log : log'[i] = log[i]
  BY <1>1, <1>3, <1>8, Appended
<1>10. g \in Frames /\ g.call = f.call /\ g.pc = f.pc /\ g.level = f.level /\ g.unwritten = u - 1
  BY <1>2, <1>4, <1>5, <1>6 DEF Frames
<1>11. /\ IsEntry(m)' /\ \A i \in DOMAIN log : IsEntry(i)' <=> IsEntry(i)
       /\ log'[m].id = c /\ log'[m].part = Parts + 1 - u
  BY <1>4, <1>7, <1>9 DEF IsEntry
<1>12. PartsUpTo(c, Parts - u)
  BY <1>3, <1>4, <1>5 DEF FrameFile
<1>13. \/ u = Parts /\ \A i \in DOMAIN log : log[i].id # c
       \/ u < Parts /\ LastEntryIs(c, Parts - u)
  <2>1. CASE u = Parts
    <3>1. ASSUME NEW i \in DOMAIN log, log[i].id = c PROVE FALSE
      <4>1. log[i].part <= 0
        BY <1>6, <1>12, <2>1, <3>1 DEF PartsUpTo
      <4>2. log[i].part \in 1..Parts
        BY <1>4, <3>1 DEF FileInv, EntriesTyped, IsEntry
      <4>3. QED
        BY <1>6, <4>1, <4>2
    <3>2. QED
      BY <2>1, <3>1
  <2>2. CASE u # Parts
    BY <1>3, <1>4, <1>5, <1>6, <2>2 DEF FrameFile
  <2>3. QED
    BY <2>1, <2>2
<1>14. EntriesTyped'
  BY <1>6, <1>9, <1>11 DEF FileInv, EntriesTyped
<1>15. EntriesInOrder'
  <2>1. SUFFICES ASSUME NEW i \in 1..m, IsEntry(i)'
                 PROVE  \/ log'[i].part = 1 /\ \A j \in 1..(i - 1) : log'[j].id # log'[i].id
                        \/ \E j \in 1..(i - 1) :
                              /\ log'[i] = [log'[j] EXCEPT !.part = @ + 1]
                              /\ \A k \in (j + 1)..(i - 1) : ~IsEntry(k)'
    BY <1>9 DEF EntriesInOrder
  <2>2. CASE i # m
    <3>1. i \in DOMAIN log /\ IsEntry(i)
      BY <1>9, <1>11, <2>1, <2>2
    <3>2. QED
      BY <1>9, <1>11, <3>1, OrderKept DEF FileInv
  <2>3. CASE i = m
    <3>1. CASE u = Parts /\ \A j \in DOMAIN log : log[j].id # c
      BY <1>6, <1>9, <1>11, <2>3, <3>1
    <3>2. CASE u < Parts /\ LastEntryIs(c, Parts - u)
      <4>1. PICK j \in DOMAIN log : /\ log[j] = [id |-> c, part |-> Parts - u]
                                    /\ \A k \in DOMAIN log : k > j => ~IsEntry(k)
        BY <3>2 DEF LastEntryIs
      <4>2. log'[m] = [log'[j] EXCEPT !.part = @ + 1]
        BY <1>6, <1>7, <1>9, <4>1
      <4>3. \A k \in (j + 1)..(m - 1) : k \in DOMAIN log /\ k > j
        BY <1>9, <4>1
      <4>4. \A k \in (j + 1)..(m - 1) : ~IsEntry(k)'
        BY <1>11, <4>1, <4>3
      <4>5. j \in 1..(m - 1)
        BY <1>9, <4>1
      <4>6. QED
        BY <2>3, <4>2, <4>4, <4>5
    <3>3. QED
      BY <1>13, <3>1, <3>2
  <2>4. QED
    BY <2>2, <2>3
<1>16. EntriesApart'
  <2>1. EntriesApart
    BY DEF FileInv
  <2>2. SUFFICES ASSUME NEW i \in 1..m, NEW j \in 1..m, i < j, IsEntry(i)', log'[i].id = log'[j].id
                 PROVE  /\ log'[i].part < log'[j].part
                        /\ \A k \in i..j : IsEntry(k)' => log'[k].id = log'[i].id
    BY <1>9 DEF EntriesApart
  <2>3. i \in DOMAIN log /\ IsEntry(i) /\ log'[i] = log[i]
    BY <1>9, <1>11, <2>2
  <2>4. CASE j # m
    <3>1. j \in DOMAIN log /\ log'[j] = log[j] /\ i..j \subseteq DOMAIN log
      BY <1>9, <2>2, <2>4
    <3>2. log[i].part < log[j].part /\ \A k \in i..j : IsEntry(k) => log[k].id = log[i].id
      BY <2>1, <2>2, <2>3, <3>1 DEF EntriesApart
    <3>3. QED
      BY <1>9, <1>11, <2>3, <3>1, <3>2
  <2>5. CASE j = m
    <3>1. log[i].id = c /\ log[i].part <= Parts - u /\ log[i].part \in 1..Parts
      BY <1>11, <1>12, <2>1, <2>2, <2>3, <2>5 DEF PartsUpTo, FileInv, EntriesTyped
    <3>2. log'[i].part < log'[j].part
      BY <1>6, <1>11, <2>3, <2>5, <3>1
    <3>3. PICK n \in DOMAIN log : /\ log[n].id = c
                                  /\ \A k \in DOMAIN log : k > n => ~IsEntry(k)
      BY <1>13, <2>3, <3>1 DEF LastEntryIs
    <3>4. ASSUME NEW k \in i..j, IsEntry(k)' PROVE log'[k].id = c
      <4>1. CASE k = m
        BY <1>11, <4>1
      <4>2. CASE k # m
        <5>1. k \in DOMAIN log /\ IsEntry(k) /\ log'[k] = log[k] /\ i <= k /\ ~(k > n)
          BY <1>9, <1>11, <2>3, <2>5, <3>3, <3>4, <4>2
        <5>2. CASE i = n
          BY <1>9, <3>3, <5>1, <5>2
        <5>3. CASE i < n
          <6>1. k \in i..n
            BY <1>9, <2>3, <3>3, <5>1
          <6>2. log[k].id = log[i].id
            BY <2>1, <2>3, <3>1, <3>3, <5>1, <5>3, <6>1 DEF EntriesApart
          <6>3. QED
            BY <3>1, <5>1, <6>2
        <5>4. CASE i > n
          BY <2>3, <3>3, <5>4
        <5>5. QED
          BY <1>9, <2>3, <3>3, <5>2, <5>3, <5>4
      <4>3. QED
        BY <4>1, <4>2
    <3>5. QED
      BY <2>3, <3>1, <3>2, <3>4
  <2>6. QED
    BY <2>4, <2>5
<1>17. ~Told(c, "WARN")' /\ ~Told(c, "ERROR")' /\ f.level \notin {"WARN", "ERROR"}
  BY <1>3, <1>4 DEF FrameFile, FrameOK, Told
<1>18. FrameFile(g, c)'
  <2>1. PartsUpTo(c, Parts - (u - 1))'
    <3>1. SUFFICES ASSUME NEW i \in 1..m, log'[i].id = c PROVE log'[i].part <= Parts - (u - 1)
      BY <1>9 DEF PartsUpTo
    <3>2. CASE i = m
      BY <1>6, <1>11, <3>2
    <3>3. CASE i # m
      <4>1. i \in DOMAIN log /\ log[i].id = c /\ log'[i] = log[i]
        BY <1>9, <3>1, <3>3
      <4>2. log[i].part \in 1..Parts /\ log[i].part <= Parts - u
        BY <1>4, <1>12, <4>1 DEF PartsUpTo, FileInv, EntriesTyped, IsEntry
      <4>3. QED
        BY <1>6, <4>1, <4>2
    <3>4. QED
      BY <3>2, <3>3
  <2>2. LastEntryIs(c, Parts - (u - 1))'
    <3>1. p = [id |-> c, part |-> Parts - (u - 1)]
      BY <1>6, <1>7
    <3>2. m \in DOMAIN log' /\ \A j \in DOMAIN log' : ~(j > m)
      BY <1>9
    <3>3. QED
      BY <1>9, <3>1, <3>2 DEF LastEntryIs
  <2>3. u - 1 = 0 => Whole(c)'
    <3>1. u - 1 = 0 => p = [id |-> c, part |-> Parts]
      BY <1>6, <1>7
    <3>2. QED
      BY <1>9, <3>1 DEF Whole
  <2>4. /\ g.pc = "write" => \A level \in Levels : ~Told(c, level)'
        /\ g.pc \in {"write", "close"}
        /\ g.pc = "close" /\ g.level \in MessageLevels => Told(c, g.level)'
    BY <1>3, <1>4, <1>10 DEF FrameFile, Told
  <2>5. QED
    BY <1>10, <1>17, <2>1, <2>2, <2>3, <2>4 DEF FrameFile
<1>19. QED
  <2>1. told' = told /\ p.id = c /\ UNCHANGED <<depth, calls>>
    BY <1>3, <1>7
  <2>2. Top(t).unwritten > 0 /\ Top(t).call = g.call
    BY <1>1, <1>3, <1>10
  <2>3. Told(c, "WARN")' \/ Told(c, "ERROR")' => ~InLog(c)'
    BY <1>17
  <2>4. QED
    BY <1>1, <1>3, <1>8, <1>10, <1>14, <1>15, <1>16, <1>18, <2>1, <2>2, <2>3, TopMoves

(* A call that returns settles its account: what its frame still knows is  *)
(* what is asked of a call that is over.                                   *)
LEMMA ReturnSettles ==
    ASSUME NEW S, log \in Seq(S), IInv, FileInv, NEW t \in Threads, Return(t)
    PROVE  FileInv'
<1>1. PICK f, c : f = Top(t) /\ c = CallOf(t)
  OBVIOUS
<1>2. /\ depth[t] > 0 /\ f.pc = "return" /\ UNCHANGED <<calls, log>>
      /\ IF f.level = "THROWN" THEN told' = told \cup {[call |-> c, level |-> "THROWN"]}
                               ELSE told' = told
      /\ Step(t, NoFrame)
      /\ depth' = [depth EXCEPT ![t] = @ - 1]
  BY <1>1 DEF Return, At, Report
<1>3. /\ f \in Frames /\ FrameOK(f) /\ FrameFile(f, c)
      /\ depth[t] \in 1..MaxDepth /\ c = <<t, f.call>> /\ c \in CallIds
      /\ f = frame[t][depth[t]]
  BY <1>1, <1>2, TopFile DEF Top
<1>4. f.unwritten = 0 /\ f.level \in MessageLevels \cup {"THROWN"}
  BY <1>2, <1>3 DEF FrameOK, Frames, Levels
<1>5. NoFrame \in Frames
  BY PartsAssumption, BoundsAssumption DEF NoFrame, Frames, Pcs, Levels
<1>6. /\ frame'[t][depth[t]] = NoFrame
      /\ \A u \in Threads, e \in 1..MaxDepth :
            <<u, e>> # <<t, depth[t]>> => frame'[u][e] = frame[u][e]
  BY <1>2, <1>5, StepFrame DEF IInv
<1>7. /\ depth'[t] = depth[t] - 1 /\ \A u \in Threads : u # t => depth'[u] = depth[u]
      /\ \A u \in Threads : depth[u] \in 0..MaxDepth
  BY <1>2 DEF IInv, CallsTypeOK
<1>8. \A u \in Threads, e \in 1..MaxDepth :
         e <= depth'[u] => e <= depth[u] /\ <<u, e>> # <<t, depth[t]>>
  BY <1>3, <1>7
<1>9. told' = told \/ \E level : told' = told \cup {[call |-> c, level |-> level]}
  BY <1>2
<1>10. log' = log
  BY <1>2
<1>11. \A b : b # c => /\ InLog(b)' <=> InLog(b)
                       /\ Whole(b)' <=> Whole(b)
                       /\ \A n : PartsUpTo(b, n)' <=> PartsUpTo(b, n)
                       /\ \A level : Told(b, level)' <=> Told(b, level)
  BY <1>9, <1>10, OthersAlone
<1>12. CallNumbers'
  BY <1>2, <1>6, <1>8 DEF FileInv, CallNumbers
<1>13. Unused'
  <2>1. SUFFICES ASSUME NEW u \in Threads, NEW n \in 1..MaxCalls, n > calls[u]
                 PROVE  ~InLog(<<u, n>>)' /\ \A level \in Levels : ~Told(<<u, n>>, level)'
    BY <1>2 DEF Unused
  <2>2. f.call \in 1..calls[t]
    BY <1>3, FrameCalls DEF FileInv
  <2>3. <<u, n>> # c
    BY <1>3, <2>1, <2>2 DEF IInv, CallsTypeOK
  <2>4. ~InLog(<<u, n>>) /\ \A level \in Levels : ~Told(<<u, n>>, level)
    BY <2>1 DEF FileInv, Unused
  <2>5. QED
    BY <1>11, <2>3, <2>4
<1>14. FramesFile'
  <2>1. SUFFICES ASSUME NEW u \in Threads, NEW e \in 1..MaxDepth, e <= depth'[u]
                 PROVE  FrameFile(frame[u][e], <<u, frame[u][e].call>>)'
    BY DEF FramesFile
  <2>2. PICK h, b : h = frame[u][e] /\ b = <<u, h.call>>
    OBVIOUS
  <2>3. frame'[u][e] = h /\ e <= depth[u] /\ <<u, e>> # <<t, depth[t]>>
    BY <1>6, <1>8, <2>1, <2>2
  <2>4. b # c
    <3>1. u = t => h.call # f.call
      BY <1>3, <2>2, <2>3, FrameCalls DEF FileInv
    <3>2. QED
      BY <1>3, <2>2, <3>1
  <2>5. FrameFile(h, b)
    BY <2>2, <2>3 DEF FileInv, FramesFile
  <2>6. \A n : LastEntryIs(b, n)' <=> LastEntryIs(b, n)
    BY <1>10 DEF LastEntryIs, IsEntry
  <2>7. FrameFile(h, b)'
    BY <1>11, <2>4, <2>5, <2>6 DEF FrameFile
  <2>8. QED
    BY <2>2, <2>3, <2>7 DEF FrameFile
<1>15. EntriesTyped' /\ EntriesInOrder' /\ EntriesApart'
  BY <1>10 DEF FileInv, EntriesTyped, EntriesInOrder, EntriesApart, IsEntry
<1>16. \A b \in CallIds : b # c => (Finished(b)' <=> Finished(b))
  <2>1. SUFFICES ASSUME NEW u \in Threads, NEW n \in 1..MaxCalls, <<u, n>> # c
                 PROVE  Finished(<<u, n>>)' <=> Finished(<<u, n>>)
    BY DEF CallIds
  <2>2. \A d \in 1..MaxDepth : frame'[u][d].call = n <=> frame[u][d].call = n
    <3>1. u = t => f.call # n /\ NoFrame.call # n
      BY <1>3, <2>1 DEF NoFrame
    <3>2. QED
      BY <1>3, <1>6, <3>1
  <2>3. QED
    BY <1>2, <2>2 DEF Finished
<1>17. Whole(c)' <=> Whole(c)
  BY <1>10 DEF Whole
<1>18. "write" \notin Faults =>
          Whole(c) \/ \E level \in {"WARN", "ERROR", "THROWN"} : Told(c, level)'
  <2>1. CASE f.level = "THROWN"
    BY <1>2, <2>1 DEF Told
  <2>2. CASE f.level \in {"WARN", "ERROR"}
    <3>1. Told(c, f.level) /\ told' = told
      BY <1>2, <1>3, <2>2 DEF FrameFile, MessageLevels
    <3>2. Told(c, f.level)'
      BY <3>1 DEF Told
    <3>3. QED
      BY <2>2, <3>2
  <2>3. CASE f.level = "FATAL"
    BY <1>3, <1>4, <2>3 DEF FrameFile
  <2>4. QED
    BY <1>4, <2>1, <2>2, <2>3 DEF MessageLevels
<1>19. NoSilentLoss'
  <2>1. SUFFICES ASSUME "write" \notin Faults, NEW b \in CallIds, Finished(b)'
                 PROVE  Whole(b)' \/ \E level \in {"WARN", "ERROR", "THROWN"} : Told(b, level)'
    BY DEF NoSilentLoss
  <2>2. CASE b = c
    BY <1>17, <1>18, <2>1, <2>2
  <2>3. CASE b # c
    BY <1>11, <1>16, <2>1, <2>3 DEF FileInv, NoSilentLoss
  <2>4. QED
    BY <2>2, <2>3
<1>20. ReportsMatchLog'
  <2>1. ReportsMatchLog
    BY DEF FileInv
  <2>2. SUFFICES ASSUME NEW b \in CallIds
                 PROVE  /\ Told(b, "WARN")' \/ Told(b, "ERROR")' => ~InLog(b)'
                        /\ (Told(b, "FATAL")' /\ Finished(b)' /\ "write" \notin Faults) => Whole(b)'
    BY DEF ReportsMatchLog
  <2>3. CASE b = c
    <3>1. \A level \in MessageLevels : Told(c, level)' => Told(c, level)
      BY <1>2 DEF Told, MessageLevels
    <3>2. "WARN" \in MessageLevels /\ "ERROR" \in MessageLevels /\ "FATAL" \in MessageLevels
      BY DEF MessageLevels
    <3>3. InLog(c)' <=> InLog(c)
      BY <1>10 DEF InLog
    <3>4. Told(c, "FATAL") /\ "write" \notin Faults => Whole(c)
      BY <1>3, <1>4 DEF FrameFile
    <3>5. Told(c, "WARN") \/ Told(c, "ERROR") => ~InLog(c)
      BY <1>3, <2>1 DEF ReportsMatchLog
    <3>6. QED
      BY <1>17, <2>3, <3>1, <3>2, <3>3, <3>4, <3>5
  <2>4. CASE b # c
    BY <1>11, <1>16, <2>1, <2>4 DEF ReportsMatchLog
  <2>5. QED
    BY <2>3, <2>4
<1>21. QED
  BY <1>12, <1>13, <1>14, <1>15, <1>19, <1>20 DEF FileInv

(* A new call has written and reported nothing.                            *)
LEMMA PushFile ==
    ASSUME IInv, FileInv, NEW t \in Threads, Push(t), UNCHANGED <<log, told>>
    PROVE  FileInv'
<1>1. PICK f, c, n : n = calls[t] + 1 /\ f = NewFrame(n) /\ c = <<t, n>>
  OBVIOUS
<1>2. /\ f \in Frames
      /\ depth[t] + 1 \in 1..MaxDepth
      /\ frame'[t][depth[t] + 1] = f
      /\ \A u \in Threads, e \in 1..MaxDepth :
            <<u, e>> # <<t, depth[t] + 1>> => frame'[u][e] = frame[u][e]
      /\ depth'[t] = depth[t] + 1
      /\ \A u \in Threads : u # t => depth'[u] = depth[u]
  BY <1>1, PushFrame DEF IInv
<1>3. /\ f.call = n /\ f.pc = "exchange" /\ f.level = "NONE" /\ f.unwritten = 0
      /\ n \in 1..MaxCalls /\ c \in CallIds
      /\ calls[t] \in Nat /\ n = calls[t] + 1
      /\ calls'[t] = n /\ \A u \in Threads : u # t => calls'[u] = calls[u]
      /\ \A u \in Threads : depth[u] \in 0..MaxDepth /\ calls[u] \in 0..MaxCalls
  BY <1>1, BoundsAssumption DEF NewFrame, Push, IInv, CallsTypeOK, CallIds
<1>4. frame[t][depth[t] + 1].call = 0
  BY <1>2, <1>3 DEF IInv, StackOK, NoFrame
<1>5. \A u \in Threads, e \in 1..MaxDepth :
         e <= depth'[u] => <<u, e>> = <<t, depth[t] + 1>> \/ e <= depth[u]
  BY <1>2, <1>3
<1>6. \A b : /\ InLog(b)' <=> InLog(b)
             /\ Whole(b)' <=> Whole(b)
             /\ \A k : PartsUpTo(b, k)' <=> PartsUpTo(b, k)
             /\ \A k : LastEntryIs(b, k)' <=> LastEntryIs(b, k)
             /\ \A level : Told(b, level)' <=> Told(b, level)
  BY DEF InLog, Whole, PartsUpTo, LastEntryIs, IsEntry, Told
<1>7. ~InLog(c) /\ \A level \in Levels : ~Told(c, level)
  BY <1>1, <1>3 DEF FileInv, Unused
<1>8. CallNumbers'
  <2>1. SUFFICES ASSUME NEW u \in Threads, NEW d \in 1..MaxDepth, NEW e \in 1..MaxDepth
                 PROVE  /\ d <= depth'[u] => frame'[u][d].call <= calls'[u]
                        /\ d < e /\ e <= depth'[u] => frame'[u][d].call < frame'[u][e].call
    BY DEF CallNumbers
  <2>2. CASE u # t
    BY <1>2, <1>3, <2>2 DEF FileInv, CallNumbers
  <2>3. CASE u = t
    <3>1. \A k \in 1..MaxDepth : k <= depth[t] => frame[t][k].call \in 1..calls[t]
      BY FrameCalls DEF FileInv
    <3>2. d <= depth[t] => frame'[t][d].call = frame[t][d].call
      BY <1>2, <1>3
    <3>3. e <= depth[t] => frame'[t][e].call = frame[t][e].call
      BY <1>2, <1>3
    <3>4. d < e /\ e <= depth[t] => frame[t][d].call < frame[t][e].call
      BY DEF FileInv, CallNumbers
    <3>5. CASE d <= depth[t] /\ e <= depth[t]
      BY <1>2, <1>3, <2>3, <3>1, <3>2, <3>3, <3>4, <3>5
    <3>6. CASE d <= depth[t] /\ e = depth[t] + 1
      BY <1>2, <1>3, <2>3, <3>1, <3>2, <3>6
    <3>7. CASE d = depth[t] + 1
      BY <1>2, <1>3, <2>3, <3>7
    <3>8. CASE d > depth[t] + 1 \/ e > depth[t] + 1
      BY <1>2, <1>3, <2>3, <3>1, <3>2, <3>8
    <3>9. QED
      BY <1>3, <3>5, <3>6, <3>7, <3>8
  <2>4. QED
    BY <2>2, <2>3
<1>9. Unused'
  <2>1. Unused
    BY DEF FileInv
  <2>2. \A u \in Threads, k \in 1..MaxCalls : k > calls'[u] => k > calls[u]
    BY <1>3
  <2>3. QED
    BY <1>6, <2>1, <2>2 DEF Unused
<1>10. FramesFile'
  <2>1. SUFFICES ASSUME NEW u \in Threads, NEW e \in 1..MaxDepth, e <= depth'[u]
                 PROVE  FrameFile(frame[u][e], <<u, frame[u][e].call>>)'
    BY DEF FramesFile
  <2>2. PICK h, b : h = frame'[u][e] /\ b = <<u, h.call>>
    OBVIOUS
  <2>3. CASE <<u, e>> = <<t, depth[t] + 1>>
    <3>1. h = f /\ b = c
      BY <1>1, <1>2, <1>3, <2>2, <2>3
    <3>2. FrameFile(h, b)'
      BY <1>3, <1>6, <1>7, <3>1 DEF FrameFile, Levels, MessageLevels
    <3>3. QED
      BY <2>2, <3>2 DEF FrameFile
  <2>4. CASE <<u, e>> # <<t, depth[t] + 1>>
    <3>1. h = frame[u][e] /\ e <= depth[u]
      BY <1>2, <1>5, <2>1, <2>2, <2>4
    <3>2. FrameFile(h, b)
      BY <2>2, <3>1 DEF FileInv, FramesFile
    <3>3. FrameFile(h, b)'
      BY <1>6, <3>2 DEF FrameFile
    <3>4. QED
      BY <2>2, <3>3 DEF FrameFile
  <2>5. QED
    BY <2>3, <2>4
<1>11. EntriesTyped' /\ EntriesInOrder' /\ EntriesApart'
  BY DEF FileInv, EntriesTyped, EntriesInOrder, EntriesApart, IsEntry
<1>12. \A b \in CallIds : Finished(b)' => Finished(b)
  <2>1. SUFFICES ASSUME NEW u \in Threads, NEW k \in 1..MaxCalls, Finished(<<u, k>>)'
                 PROVE  Finished(<<u, k>>)
    BY DEF CallIds
  <2>2. k <= calls'[u] /\ \A d \in 1..MaxDepth : frame'[u][d].call # k
    BY <2>1 DEF Finished
  <2>3. k <= calls[u]
    <3>1. u = t => k # n
      BY <1>2, <1>3, <2>2
    <3>2. QED
      BY <1>3, <2>2, <3>1
  <2>4. \A d \in 1..MaxDepth : frame[u][d].call # k
    <3>1. ASSUME NEW d \in 1..MaxDepth PROVE frame[u][d].call # k
      <4>1. CASE <<u, d>> = <<t, depth[t] + 1>>
        BY <1>4, <4>1
      <4>2. CASE <<u, d>> # <<t, depth[t] + 1>>
        BY <1>2, <2>2, <4>2
      <4>3. QED
        BY <4>1, <4>2
    <3>2. QED
      BY <3>1
  <2>5. QED
    BY <2>3, <2>4 DEF Finished
<1>13. NoSilentLoss' /\ ReportsMatchLog'
  <2>1. NoSilentLoss /\ ReportsMatchLog
    BY DEF FileInv
  <2>2. QED
    BY <1>6, <1>12, <2>1 DEF NoSilentLoss, ReportsMatchLog
<1>14. QED
  BY <1>8, <1>9, <1>10, <1>11, <1>13 DEF FileInv

(* What leaves calls and frames alone, and writes nothing that belongs to  *)
(* an entry, is of no account: SetLogCallback, or another writer.          *)
LEMMA ForeignKeeps ==
    ASSUME NEW S, log \in Seq(S), IInv, FileInv,
           UNCHANGED <<depth, frame, calls, told>>,
           log' = log \/ \E p \in S : p.id \notin CallIds /\ log' = Append(log, p)
    PROVE  FileInv'
<1>1. CASE log' = log
  <2>1. CallNumbers' /\ Unused'
    BY <1>1 DEF FileInv, CallNumbers, Unused, InLog, Told
  <2>2. FramesFile'
    <3>1. SUFFICES ASSUME NEW u \in Threads, NEW e \in 1..MaxDepth, e <= depth[u]
                   PROVE  FrameFile(frame[u][e], <<u, frame[u][e].call>>)'
      BY DEF FramesFile
    <3>2. PICK h, b : h = frame[u][e] /\ b = <<u, h.call>>
      OBVIOUS
    <3>3. FrameFile(h, b)
      BY <3>1, <3>2 DEF FileInv, FramesFile
    <3>4. FrameFile(h, b)'
      BY <1>1, <3>3 DEF FrameFile, InLog, Told, Whole, PartsUpTo, LastEntryIs, IsEntry
    <3>5. QED
      BY <3>2, <3>4 DEF FrameFile
  <2>3. EntriesTyped' /\ EntriesInOrder' /\ EntriesApart'
    BY <1>1 DEF FileInv, EntriesTyped, EntriesInOrder, EntriesApart, IsEntry
  <2>4. NoSilentLoss' /\ ReportsMatchLog'
    BY <1>1 DEF FileInv, NoSilentLoss, ReportsMatchLog, Finished, InLog, Told, Whole
  <2>5. QED
    BY <2>1, <2>2, <2>3, <2>4 DEF FileInv
<1>2. CASE \E p \in S : p.id \notin CallIds /\ log' = Append(log, p)
  <2>1. PICK p \in S : p.id \notin CallIds /\ log' = Append(log, p)
    BY <1>2
  <2>2. PICK m : m = Len(log) + 1
    OBVIOUS
  <2>3. /\ m \in Nat \ {0} /\ DOMAIN log = 1..(m - 1) /\ DOMAIN log' = 1..m
        /\ log'[m] = p /\ \A i \in DOMAIN log : log'[i] = log[i]
    BY <2>1, <2>2, Appended
  <2>4. /\ ~IsEntry(m)' /\ \A i \in DOMAIN log : IsEntry(i)' <=> IsEntry(i)
        /\ \A i \in DOMAIN log' : i \in DOMAIN log \/ i = m
        /\ DOMAIN log \subseteq DOMAIN log'
    BY <2>1, <2>3 DEF IsEntry
  <2>5. \A b \in CallIds : /\ InLog(b)' <=> InLog(b)
                           /\ Whole(b)' <=> Whole(b)
                           /\ \A n : PartsUpTo(b, n)' <=> PartsUpTo(b, n)
                           /\ \A level : Told(b, level)' <=> Told(b, level)
    <3>1. SUFFICES ASSUME NEW b \in CallIds
                   PROVE  /\ InLog(b)' <=> InLog(b)
                          /\ Whole(b)' <=> Whole(b)
                          /\ \A n : PartsUpTo(b, n)' <=> PartsUpTo(b, n)
                          /\ \A level : Told(b, level)' <=> Told(b, level)
      OBVIOUS
    <3>2. PICK c : c = p.id
      OBVIOUS
    <3>3. b # c /\ \E q \in S : q.id = c /\ log' = Append(log, q)
      BY <2>1, <3>2
    <3>4. told' = told
      OBVIOUS
    <3>5. QED
      BY <3>3, <3>4, OthersAlone
  <2>6. \A b \in CallIds : \A n : LastEntryIs(b, n) => LastEntryIs(b, n)'
    <3>1. SUFFICES ASSUME NEW b \in CallIds, NEW n, LastEntryIs(b, n) PROVE LastEntryIs(b, n)'
      OBVIOUS
    <3>2. PICK i \in DOMAIN log : log[i] = [id |-> b, part |-> n]
                                  /\ \A j \in DOMAIN log : j > i => ~IsEntry(j)
      BY <3>1 DEF LastEntryIs
    <3>3. i \in DOMAIN log' /\ log'[i] = [id |-> b, part |-> n]
      BY <2>3, <2>4, <3>2
    <3>4. \A j \in DOMAIN log' : j > i => ~IsEntry(j)'
      BY <2>4, <3>2
    <3>5. QED
      BY <3>3, <3>4 DEF LastEntryIs
  <2>7. CallNumbers' /\ Unused'
    <3>1. \A t \in Threads, n \in 1..MaxCalls : <<t, n>> \in CallIds
      BY DEF CallIds
    <3>2. QED
      BY <2>5, <3>1 DEF FileInv, CallNumbers, Unused
  <2>8. FramesFile'
    <3>1. SUFFICES ASSUME NEW u \in Threads, NEW e \in 1..MaxDepth, e <= depth[u]
                   PROVE  FrameFile(frame[u][e], <<u, frame[u][e].call>>)'
      BY DEF FramesFile
    <3>2. PICK h, b : h = frame[u][e] /\ b = <<u, h.call>>
      OBVIOUS
    <3>3. FrameFile(h, b)
      BY <3>1, <3>2 DEF FileInv, FramesFile
    <3>4. b \in CallIds
      BY <3>1, <3>2, FrameCalls DEF FileInv
    <3>5. FrameFile(h, b)'
      BY <2>5, <2>6, <3>3, <3>4 DEF FrameFile
    <3>6. QED
      BY <3>2, <3>5 DEF FrameFile
  <2>9. EntriesTyped' /\ EntriesInOrder' /\ EntriesApart'
    <3>1. \A i \in DOMAIN log' : IsEntry(i)' => i \in DOMAIN log /\ IsEntry(i)
      BY <2>4
    <3>2. EntriesTyped'
      BY <2>3, <3>1 DEF FileInv, EntriesTyped
    <3>3. EntriesInOrder'
      BY <2>3, <2>4, <3>1, OrderKept DEF FileInv, EntriesInOrder
    <3>4. EntriesApart'
      <4>1. SUFFICES ASSUME NEW i \in 1..m, NEW j \in 1..m, i < j, IsEntry(i)', log'[i].id = log'[j].id
                     PROVE  /\ log'[i].part < log'[j].part
                            /\ \A k \in i..j : IsEntry(k)' => log'[k].id = log'[i].id
        BY <2>3 DEF EntriesApart
      <4>2. IsEntry(j)'
        BY <4>1 DEF IsEntry
      <4>3. /\ i \in DOMAIN log /\ j \in DOMAIN log /\ IsEntry(i)
            /\ log'[i] = log[i] /\ log'[j] = log[j] /\ i..j \subseteq DOMAIN log
        BY <2>3, <3>1, <4>1, <4>2
      <4>4. log[i].part < log[j].part /\ \A k \in i..j : IsEntry(k) => log[k].id = log[i].id
        BY <4>1, <4>3 DEF FileInv, EntriesApart
      <4>5. QED
        BY <2>3, <2>4, <4>3, <4>4
    <3>5. QED
      BY <3>2, <3>3, <3>4
  <2>10. NoSilentLoss' /\ ReportsMatchLog'
    <3>1. NoSilentLoss /\ ReportsMatchLog
      BY DEF FileInv
    <3>2. \A b \in CallIds : Finished(b)' <=> Finished(b)
      BY DEF Finished
    <3>3. QED
      BY <2>5, <3>1, <3>2 DEF NoSilentLoss, ReportsMatchLog
  <2>11. QED
    BY <2>7, <2>8, <2>9, <2>10 DEF FileInv
<1>3. QED
  BY <1>1, <1>2
----------------------------------------------------------------------------
(* Together: every step of a frame, in whatever file.                      *)
LEMMA ProgressFile ==
    ASSUME NEW S, log \in Seq(S), EntryParts \subseteq S, IInv, FileInv,
           NEW t \in Threads, Progress(t)
    PROVE  FileInv'
<1>1. CASE Silent(t)
  BY <1>1, SilentKeeps
<1>2. CASE ReportToStderr(t) \/ InvokeCallback(t)
  BY <1>2, ReportKeeps
<1>3. CASE WritePart(t)
  BY <1>3, WriteKeeps
<1>4. CASE Return(t)
  BY <1>4, ReturnSettles
<1>5. QED
  BY <1>1, <1>2, <1>3, <1>4 DEF Progress, Silent

(* Nothing has been called, written or reported.                           *)
LEMMA InitFile == Init => FileInv
<1>1. SUFFICES ASSUME Init PROVE FileInv
  OBVIOUS
<1>2. log = <<>> /\ DOMAIN log = {} /\ told = {}
  BY <1>1 DEF Init
<1>3. /\ \A t \in Threads : depth[t] = 0 /\ calls[t] = 0
      /\ \A d \in 1..MaxDepth : ~(d <= 0)
  BY <1>1 DEF Init
<1>4. CallNumbers
  BY <1>3 DEF CallNumbers
<1>5. Unused
  BY <1>2 DEF Unused, InLog, Told
<1>6. FramesFile
  BY <1>3 DEF FramesFile
<1>7. EntriesTyped /\ EntriesInOrder /\ EntriesApart
  BY <1>2 DEF EntriesTyped, EntriesInOrder, EntriesApart
<1>8. \A c \in CallIds : ~Finished(c) /\ \A level : ~Told(c, level)
  BY <1>2, <1>3 DEF CallIds, Finished, Told
<1>9. NoSilentLoss /\ ReportsMatchLog
  BY <1>8 DEF NoSilentLoss, ReportsMatchLog
<1>10. QED
  BY <1>4, <1>5, <1>6, <1>7, <1>9 DEF FileInv

(* The file of LogStacktrace alone has entries only.                       *)
THEOREM FileInvariance == Spec => [](IInv /\ FileInv /\ log \in Seq(EntryParts))
<1> DEFINE Inv == IInv /\ FileInv /\ log \in Seq(EntryParts)
<1>1. Init => Inv
  BY InitIInv, InitFile DEF Init
<1>2. Inv /\ [Next]_vars => Inv'
  <2>1. SUFFICES ASSUME IInv, FileInv, log \in Seq(EntryParts), [Next]_vars PROVE Inv'
    OBVIOUS
  <2>2. IInv'
    BY <2>1, NextIInv
  <2>3. ASSUME NEW t \in Threads, Progress(t) PROVE FileInv' /\ log' \in Seq(EntryParts)
    BY <2>1, <2>3, ProgressFile, PartAppended
  <2>4. ASSUME NEW t \in Threads, Call(t) \/ CallbackRelogs(t)
        PROVE  FileInv' /\ log' \in Seq(EntryParts)
    <3>1. Push(t) /\ UNCHANGED <<log, told>>
      BY <2>4 DEF Call, CallbackRelogs
    <3>2. QED
      BY <2>1, <3>1, PushFile
  <2>5. CASE SetLogCallback \/ UNCHANGED vars
    <3>1. UNCHANGED <<depth, frame, calls, told>> /\ log' = log
      BY <2>5 DEF SetLogCallback, vars
    <3>2. FileInv'
      BY <2>1, <3>1, ForeignKeeps
    <3>3. QED
      BY <2>1, <2>2, <3>1, <3>2
  <2>6. FileInv' /\ log' \in Seq(EntryParts)
    BY <2>1, <2>3, <2>4, <2>5 DEF Next
  <2>7. QED
    BY <2>2, <2>6
<1>3. QED
  BY <1>1, <1>2, PTL DEF Spec

(* In the file every entry is one run of parts in order, also when the     *)
(* stream flushes after the flag is cleared and the next call is admitted. *)
THEOREM EntriesStayWhole == Spec => []EntriesContiguous
<1>1. IInv /\ FileInv /\ log \in Seq(EntryParts) => EntriesContiguous
  <2>1. SUFFICES ASSUME FileInv, log \in Seq(EntryParts), NEW i \in DOMAIN log
                 PROVE  \/ log[i].part = 1 /\ \A j \in 1..(i - 1) : log[j].id # log[i].id
                        \/ i > 1 /\ log[i] = [log[i - 1] EXCEPT !.part = @ + 1]
    BY DEF EntriesContiguous
  <2>2. \A j \in DOMAIN log : IsEntry(j)
    <3>1. \A r \in EntryParts : r.id \in CallIds
      BY DEF EntryParts
    <3>2. \A j \in DOMAIN log : log[j] \in EntryParts
      BY <2>1
    <3>3. QED
      BY <3>1, <3>2 DEF IsEntry
  <2>3. i \in Nat /\ i >= 1 /\ 1..i \subseteq DOMAIN log
    BY <2>1
  <2>4. \/ log[i].part = 1 /\ \A j \in 1..(i - 1) : log[j].id # log[i].id
        \/ \E j \in 1..(i - 1) :
              /\ log[i] = [log[j] EXCEPT !.part = @ + 1]
              /\ \A k \in (j + 1)..(i - 1) : ~IsEntry(k)
    BY <2>1, <2>2 DEF FileInv, EntriesInOrder
  <2>5. ASSUME NEW j \in 1..(i - 1), \A k \in (j + 1)..(i - 1) : ~IsEntry(k) PROVE j = i - 1
    <3>1. SUFFICES ASSUME j # i - 1 PROVE FALSE
      OBVIOUS
    <3>2. i - 1 \in (j + 1)..(i - 1) /\ i - 1 \in DOMAIN log
      BY <2>3, <3>1
    <3>3. QED
      BY <2>2, <2>5, <3>2
  <2>6. QED
    BY <2>3, <2>4, <2>5
<1>2. QED
  BY <1>1, FileInvariance, PTL

(* While the file accepts what is written to it, a call that is over has   *)
(* left its entry, or a warning, an error or an exception.                 *)
THEOREM CallsAreAccounted == Spec => []NoSilentLoss
<1>1. FileInv => NoSilentLoss
  BY DEF FileInv
<1>2. QED
  BY <1>1, FileInvariance, PTL

(* What is reported of a call is true of the file.                         *)
THEOREM ReportsAreTrue == Spec => []ReportsMatchLog
<1>1. FileInv => ReportsMatchLog
  BY DEF FileInv
<1>2. QED
  BY <1>1, FileInvariance, PTL
============================================================================
