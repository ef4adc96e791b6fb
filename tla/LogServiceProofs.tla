-------------------------- MODULE LogServiceProofs --------------------------
(***************************************************************************)
(* Proof that LogStacktrace implements LogService: every step is a step of *)
(* the service or leaves its state alone.                                  *)
(***************************************************************************)
EXTENDS LogFileProofs, SequenceTheorems

(* The state of the service, as Service substitutes it.                    *)
Queue    == AsQueue(Owners) \o AsQueue(Waiters)
Recorded == {c \in CallIds : Whole(c)}
Jammed   == loggingInProgress /\ ~\E a \in Activations : Inside(a[1], a[2])

Waiting(f) == Admitted(f) /\ f.pc = "lock"

(* The variables of the service are these three.                           *)
LEMMA ServiceState ==
    /\ Service!vars = <<Queue, Recorded, Jammed>>
    /\ Service!vars' = <<Queue', Recorded', Jammed'>>
  BY DEF Service!vars, Queue, Recorded, Jammed

(* The sets of the refinement mapping in terms of frames.                  *)
MembersAre ==
    /\ Owners \subseteq Activations /\ Waiters \subseteq Activations
    /\ \A t \in Threads, d \in 1..MaxDepth :
          /\ <<t, d>> \in Owners <=> Locked(frame[t][d])
          /\ <<t, d>> \in Waiters <=> Waiting(frame[t][d])
    /\ Jammed <=> loggingInProgress /\ \A t \in Threads, d \in 1..MaxDepth : ~Admitted(frame[t][d])

(* So it is in every state ...                                             *)
LEMMA Members == MembersAre
<1>1. Owners \subseteq Activations /\ Waiters \subseteq Activations
  BY DEF Owners, Waiters
<1>2. \A t \in Threads, d \in 1..MaxDepth :
         /\ <<t, d>> \in Owners <=> Locked(frame[t][d])
         /\ <<t, d>> \in Waiters <=> Waiting(frame[t][d])
  BY DEF Owners, Waiters, Activations, Holding, Inside, Waiting
<1>3. (\E a \in Activations : Admitted(frame[a[1]][a[2]])) <=>
         \E t \in Threads, d \in 1..MaxDepth : Admitted(frame[t][d])
  <2>1. ASSUME NEW a \in Activations, Admitted(frame[a[1]][a[2]])
        PROVE  \E t \in Threads, d \in 1..MaxDepth : Admitted(frame[t][d])
    <3>1. a[1] \in Threads /\ a[2] \in 1..MaxDepth
      BY DEF Activations
    <3>2. QED
      BY <2>1, <3>1
  <2>2. ASSUME NEW t \in Threads, NEW d \in 1..MaxDepth, Admitted(frame[t][d])
        PROVE  \E a \in Activations : Admitted(frame[a[1]][a[2]])
    <3>1. <<t, d>> \in Activations /\ <<t, d>>[1] = t /\ <<t, d>>[2] = d
      BY DEF Activations
    <3>2. QED
      BY <2>2, <3>1
  <2>3. QED
    BY <2>1, <2>2
<1>4. QED
  BY <1>1, <1>2, <1>3 DEF MembersAre, Jammed, Inside

(* ... and in the next one.                                                *)
LEMMA MembersNext == MembersAre'
  BY Members, PTL

(* The queue: no owner or one, no waiter or one.                           *)
CallAt(a) == <<a[1], frame[a[1]][a[2]].call>>

QueueIs ==
    /\ Owners = {} => AsQueue(Owners) = <<>>
    /\ Waiters = {} => AsQueue(Waiters) = <<>>
    /\ \A a : (Owners = {a} => AsQueue(Owners) = <<CallAt(a)>>)
             /\ (Waiters = {a} => AsQueue(Waiters) = <<CallAt(a)>>)

(* So it is in every state ...                                             *)
LEMMA QueueOf == QueueIs
  BY DEF QueueIs, AsQueue, CallAt

(* ... and in the next one.                                                *)
LEMMA QueueOfNext == QueueIs'
  BY QueueOf, PTL

(* The queue from its two parts.                                           *)
LEMMA Joined ==
    ASSUME NEW a, NEW b
    PROVE  /\ <<>> \o <<>> = <<>> /\ <<a>> \o <<>> = <<a>> /\ <<>> \o <<b>> = <<b>>
           /\ <<a>> \o <<b>> = Append(<<a>>, b) /\ Append(<<>>, b) = <<b>>
           /\ Head(<<a>>) = a /\ Tail(<<a>>) = <<>>
           /\ Head(Append(<<a>>, b)) = a /\ Tail(Append(<<a>>, b)) = <<b>>
<1>1. <<>> \in Seq({a, b}) /\ <<a>> \in Seq({a, b}) /\ <<b>> \in Seq({a, b})
  OBVIOUS
<1>2. <<>> \o <<>> = <<>> /\ <<a>> \o <<>> = <<a>> /\ <<>> \o <<b>> = <<b>>
  BY <1>1, ConcatEmptySeq
<1>3. <<a>> \o <<b>> = Append(<<a>>, b)
  BY <1>1, AppendIsConcat
<1>4. Append(<<>>, b) = <<b>>
  BY <1>1, <1>2, AppendIsConcat
<1>5. Head(<<a>>) = a /\ Tail(<<a>>) = <<>> /\ <<a>> # <<>>
  OBVIOUS
<1>6. Head(Append(<<a>>, b)) = a /\ Tail(Append(<<a>>, b)) = <<b>>
  BY <1>1, <1>4, <1>5, HeadTailAppend
<1>7. QED
  BY <1>2, <1>3, <1>4, <1>5, <1>6

(* One call holds the mutex at most, and one waits for it.                 *)
LEMMA AtMostOne ==
    ASSUME IInv, NEW a, NEW b
    PROVE  /\ a \in Owners /\ b \in Owners => a = b
           /\ a \in Waiters /\ b \in Waiters => a = b
<1>1. ASSUME NEW t \in Threads, NEW d \in 1..MaxDepth, NEW u \in Threads, NEW e \in 1..MaxDepth
      PROVE  /\ Holding(t, d) /\ Holding(u, e) => t = u /\ d = e
             /\ Inside(t, d) /\ Inside(u, e) => t = u /\ d = e
  BY <1>1 DEF IInv, OneHolder, MutexFollowsScope, OneAdmitted
<1>2. QED
  BY <1>1 DEF Owners, Waiters, Activations
----------------------------------------------------------------------------
(* A step that changes nobody's standing leaves queue and shutter alone.   *)
LEMMA SameStanding ==
    ASSUME IInv, loggingInProgress' = loggingInProgress,
           \A u \in Threads, e \in 1..MaxDepth :
              /\ Locked(frame'[u][e]) <=> Locked(frame[u][e])
              /\ Waiting(frame'[u][e]) <=> Waiting(frame[u][e])
              /\ Admitted(frame'[u][e]) <=> Admitted(frame[u][e])
              /\ Locked(frame[u][e]) \/ Waiting(frame[u][e]) =>
                    frame'[u][e].call = frame[u][e].call
    PROVE  Queue' = Queue /\ (Jammed' <=> Jammed)
<1>1. MembersAre /\ MembersAre' /\ QueueIs /\ QueueIs'
  BY Members, MembersNext, QueueOf, QueueOfNext
<1>2. Jammed' <=> Jammed
  BY <1>1 DEF MembersAre
<1>3. \A a \in Activations : \E t \in Threads, d \in 1..MaxDepth : a = <<t, d>>
  BY DEF Activations
<1>4. Owners' = Owners /\ Waiters' = Waiters
  <2>1. \A a \in Activations : (a \in Owners' <=> a \in Owners) /\ (a \in Waiters' <=> a \in Waiters)
    BY <1>1, <1>3 DEF MembersAre
  <2>2. /\ Owners \subseteq Activations /\ Waiters \subseteq Activations
        /\ Owners' \subseteq Activations /\ Waiters' \subseteq Activations
    BY <1>1 DEF MembersAre
  <2>3. QED
    BY <2>1, <2>2
<1>5. ASSUME NEW a \in Activations, a \in Owners \/ a \in Waiters PROVE CallAt(a)' = CallAt(a)
  BY <1>1, <1>3, <1>5 DEF MembersAre, CallAt
<1>6. AsQueue(Owners)' = AsQueue(Owners)
  <2>1. CASE Owners = {}
    BY <1>1, <1>4, <2>1 DEF QueueIs
  <2>2. CASE Owners # {}
    <3>1. PICK a : a \in Owners
      BY <2>2
    <3>2. Owners = {a} /\ a \in Activations
      BY <1>1, <3>1, AtMostOne DEF MembersAre
    <3>3. CallAt(a)' = CallAt(a)
      BY <1>5, <3>1, <3>2
    <3>4. QED
      BY <1>1, <1>4, <3>2, <3>3 DEF QueueIs
  <2>3. QED
    BY <2>1, <2>2
<1>7. AsQueue(Waiters)' = AsQueue(Waiters)
  <2>1. CASE Waiters = {}
    BY <1>1, <1>4, <2>1 DEF QueueIs
  <2>2. CASE Waiters # {}
    <3>1. PICK a : a \in Waiters
      BY <2>2
    <3>2. Waiters = {a} /\ a \in Activations
      BY <1>1, <3>1, AtMostOne DEF MembersAre
    <3>3. CallAt(a)' = CallAt(a)
      BY <1>5, <3>1, <3>2
    <3>4. QED
      BY <1>1, <1>4, <3>2, <3>3 DEF QueueIs
  <2>3. QED
    BY <2>1, <2>2
<1>8. QED
  BY <1>2, <1>6, <1>7 DEF Queue

(* ... as do the steps of a frame between admission and report, and those  *)
(* of a call that was turned away.                                         *)
Steady(t) ==
    \/ Reject(t) \/ Build(t) \/ Open(t) \/ OpenFails(t) \/ WritePart(t) \/ WriteFails(t)
    \/ Inserted(t) \/ CheckCallback(t) \/ ReportToStderr(t) \/ InvokeCallback(t)
    \/ CallbackReturns(t) \/ Close(t)

Unwinds(t) == InvokeEmptyCallback(t) \/ CallbackThrows(t) \/ AllocFails(t)

SameFrameStanding(f, g) ==
    /\ Locked(g) <=> Locked(f)
    /\ Waiting(g) <=> Waiting(f)
    /\ Admitted(g) <=> Admitted(f)

(* Such a step moves one frame, which holds and waits for what it did.     *)
LEMMA SteadyFrame ==
    ASSUME IInv, NEW t \in Threads, Steady(t) \/ (Unwinds(t) /\ Top(t).level = "WARN")
    PROVE  /\ depth[t] > 0 /\ loggingInProgress' = loggingInProgress
           /\ \E g \in Frames : Step(t, g) /\ g.call = Top(t).call /\ SameFrameStanding(Top(t), g)
<1>1. PICK f : f = Top(t)
  OBVIOUS
<1>2. depth[t] > 0 /\ loggingInProgress' = loggingInProgress
  BY DEF Steady, Unwinds, Reject, Build, Open, OpenFails, WritePart, WriteFails, Inserted,
         CheckCallback, ReportToStderr, InvokeCallback, InvokeEmptyCallback,
         CallbackReturns, CallbackThrows, AllocFails, Close, At
<1>3. f \in Frames /\ FrameOK(f)
  BY <1>1, <1>2, TopOK DEF IInv
<1>4. SUFFICES \E g \in Frames : Step(t, g) /\ g.call = f.call /\ SameFrameStanding(f, g)
  BY <1>1, <1>2
<1>5. CASE Build(t) \/ CheckCallback(t) \/ InvokeCallback(t) \/ Close(t)
  <2> DEFINE Goes(from, pc) == f.pc = from /\ Step(t, [f EXCEPT !.pc = pc])
  <2>1. \/ Goes("build", "open") \/ Goes("check", "invoke")
        \/ Goes("invoke", "callback") \/ Goes("close", "unlock")
    <3>1. CASE Build(t) \/ CheckCallback(t)
      BY <1>1, <3>1 DEF Build, CheckCallback, At, Goto
    <3>2. CASE InvokeCallback(t) \/ Close(t)
      BY <1>1, <3>2 DEF InvokeCallback, Close, At, Goto
    <3>3. QED
      BY <1>5, <3>1, <3>2
  <2>2. \A pc \in Pcs : [f EXCEPT !.pc = pc] \in Frames /\ [f EXCEPT !.pc = pc].call = f.call
    BY <1>3 DEF Frames
  <2>3. PICK pc \in Pcs :
           /\ Step(t, [f EXCEPT !.pc = pc])
           /\ \/ f.pc = "build" /\ pc = "open"
              \/ f.pc = "check" /\ pc = "invoke"
              \/ f.pc = "invoke" /\ pc = "callback"
              \/ f.pc = "close" /\ pc = "unlock"
    BY <2>1 DEF Pcs
  <2>4. SameFrameStanding(f, [f EXCEPT !.pc = pc])
    BY <1>3, <2>3 DEF SameFrameStanding, Waiting, Admitted, Locked, FrameOK, Frames
  <2>5. QED
    BY <2>2, <2>3, <2>4
<1>6. CASE ReportToStderr(t) \/ CallbackReturns(t)
  <2> DEFINE g == [f EXCEPT !.pc = After(f.level)]
  <2>1. Step(t, g) /\ f.pc \in {"check", "callback"}
    BY <1>1, <1>6 DEF ReportToStderr, CallbackReturns, Goto, At
  <2>2. g \in Frames /\ g.call = f.call /\ SameFrameStanding(f, g)
    BY <1>3, <2>1
    DEF After, Frames, Pcs, FrameOK, SameFrameStanding, Waiting, Admitted, Locked, MessageLevels
  <2>3. QED
    BY <2>1, <2>2
<1>7. CASE Reject(t)
  <2> DEFINE g == [f EXCEPT !.pc = "check", !.level = "WARN"]
  <2>1. Step(t, g) /\ f.pc = "exchange"
    BY <1>1, <1>7 DEF Reject, At
  <2>2. g \in Frames /\ g.call = f.call /\ SameFrameStanding(f, g)
    BY <1>3, <2>1
    DEF Frames, Pcs, Levels, MessageLevels, FrameOK, SameFrameStanding, Waiting, Admitted, Locked
  <2>3. QED
    BY <2>1, <2>2
<1>8. CASE Open(t)
  <2> DEFINE g == [f EXCEPT !.pc = "write", !.unwritten = Parts]
  <2>1. Step(t, g) /\ f.pc = "open" /\ Parts \in 0..Parts
    BY <1>1, <1>8, PartsAssumption DEF Open, At
  <2>2. g \in Frames /\ g.call = f.call /\ SameFrameStanding(f, g)
    BY <1>3, <2>1 DEF Frames, Pcs, FrameOK, SameFrameStanding, Waiting, Admitted, Locked
  <2>3. QED
    BY <2>1, <2>2
<1>9. CASE OpenFails(t)
  <2> DEFINE g == [f EXCEPT !.pc = "check", !.level = "ERROR"]
  <2>1. Step(t, g) /\ f.pc = "open"
    BY <1>1, <1>9 DEF OpenFails, At
  <2>2. g \in Frames /\ g.call = f.call /\ SameFrameStanding(f, g)
    BY <1>3, <2>1
    DEF Frames, Pcs, Levels, MessageLevels, FrameOK, SameFrameStanding, Waiting, Admitted, Locked
  <2>3. QED
    BY <2>1, <2>2
<1>10. CASE WritePart(t)
  <2> DEFINE g == [f EXCEPT !.unwritten = f.unwritten - 1]
  <2>1. Step(t, g) /\ f.unwritten - 1 \in 0..Parts
    BY <1>1, <1>3, <1>10, PartsAssumption DEF WritePart, Frames
  <2>2. g \in Frames /\ g.call = f.call /\ SameFrameStanding(f, g)
    BY <1>3, <2>1 DEF Frames, SameFrameStanding, Waiting, Admitted, Locked
  <2>3. QED
    BY <2>1, <2>2
<1>11. CASE WriteFails(t)
  <2> DEFINE g == [f EXCEPT !.unwritten = 0]
  <2>1. Step(t, g) /\ 0 \in 0..Parts
    BY <1>1, <1>11, PartsAssumption DEF WriteFails
  <2>2. g \in Frames /\ g.call = f.call /\ SameFrameStanding(f, g)
    BY <1>3, <2>1 DEF Frames, SameFrameStanding, Waiting, Admitted, Locked
  <2>3. QED
    BY <2>1, <2>2
<1>12. CASE Inserted(t)
  <2> DEFINE g == [f EXCEPT !.pc = "check", !.level = "FATAL"]
  <2>1. Step(t, g) /\ f.pc = "write"
    BY <1>1, <1>12 DEF Inserted, At
  <2>2. g \in Frames /\ g.call = f.call /\ SameFrameStanding(f, g)
    BY <1>3, <2>1
    DEF Frames, Pcs, Levels, MessageLevels, FrameOK, SameFrameStanding, Waiting, Admitted, Locked
  <2>3. QED
    BY <2>1, <2>2
<1>13. CASE Unwinds(t) /\ f.level = "WARN"
  <2> DEFINE g == Unwound(f)
  <2>1. Step(t, g)
    BY <1>1, <1>13 DEF Unwinds, InvokeEmptyCallback, CallbackThrows, AllocFails
  <2>2. g \in Frames /\ g.call = f.call /\ SameFrameStanding(f, g)
    BY <1>3, <1>13 DEF Unwound, Frames, Pcs, Levels, SameFrameStanding, Waiting, Admitted, Locked
  <2>3. QED
    BY <2>1, <2>2
<1>14. QED
  BY <1>1, <1>5, <1>6, <1>7, <1>8, <1>9, <1>10, <1>11, <1>12, <1>13 DEF Steady

(* So the service sees nothing of it but what is written.                  *)
LEMMA SteadyKeeps ==
    ASSUME IInv, NEW t \in Threads, Steady(t) \/ (Unwinds(t) /\ Top(t).level = "WARN")
    PROVE  Queue' = Queue /\ (Jammed' <=> Jammed)
<1>1. depth[t] > 0 /\ loggingInProgress' = loggingInProgress
  BY SteadyFrame
<1>2. PICK g \in Frames : Step(t, g) /\ g.call = Top(t).call /\ SameFrameStanding(Top(t), g)
  BY SteadyFrame
<1>3. /\ depth[t] \in 1..MaxDepth
      /\ frame'[t][depth[t]] = g
      /\ \A u \in Threads, e \in 1..MaxDepth :
            <<u, e>> # <<t, depth[t]>> => frame'[u][e] = frame[u][e]
  BY <1>1, <1>2, StepFrame DEF IInv
<1>4. ASSUME NEW u \in Threads, NEW e \in 1..MaxDepth
      PROVE  /\ SameFrameStanding(frame[u][e], frame'[u][e])
             /\ frame'[u][e].call = frame[u][e].call
  <2>1. CASE <<u, e>> = <<t, depth[t]>>
    BY <1>2, <1>3, <2>1 DEF Top
  <2>2. CASE <<u, e>> # <<t, depth[t]>>
    BY <1>3, <2>2 DEF SameFrameStanding
  <2>3. QED
    BY <2>1, <2>2
<1>5. QED
  BY <1>1, <1>4, SameStanding DEF SameFrameStanding

(* So do a new call and the end of one.                                    *)
LEMMA EdgesKeep ==
    ASSUME IInv, NEW t \in Threads, loggingInProgress' = loggingInProgress, Push(t) \/ Return(t)
    PROVE  Queue' = Queue /\ (Jammed' <=> Jammed)
<1>1. PICK g, d : /\ d \in 1..MaxDepth /\ frame'[t][d] = g /\ ~Locked(g) /\ ~Admitted(g)
                  /\ ~Locked(frame[t][d]) /\ ~Admitted(frame[t][d])
                  /\ \A u \in Threads, e \in 1..MaxDepth :
                        <<u, e>> # <<t, d>> => frame'[u][e] = frame[u][e]
  <2>1. CASE Push(t)
    <3>1. LET f == NewFrame(calls[t] + 1) IN
          /\ ~Admitted(f) /\ ~Locked(f)
          /\ depth[t] + 1 \in 1..MaxDepth
          /\ frame'[t][depth[t] + 1] = f
          /\ \A u \in Threads, e \in 1..MaxDepth :
                <<u, e>> # <<t, depth[t] + 1>> => frame'[u][e] = frame[u][e]
      BY <2>1, PushFrame DEF IInv
    <3>2. frame[t][depth[t] + 1] = NoFrame
      BY <3>1 DEF IInv, StackOK, CallsTypeOK
    <3>3. ~Admitted(NoFrame) /\ ~Locked(NoFrame)
      BY DEF NoFrame, Admitted, Locked
    <3>4. QED
      BY <3>1, <3>2, <3>3
  <2>2. CASE Return(t)
    <3>1. depth[t] > 0 /\ Top(t).pc = "return" /\ Step(t, NoFrame)
      BY <2>2 DEF Return, At
    <3>2. /\ NoFrame \in Frames
          /\ ~Admitted(NoFrame) /\ ~Locked(NoFrame)
          /\ ~Admitted(Top(t)) /\ ~Locked(Top(t))
      BY <3>1, PartsAssumption, BoundsAssumption
      DEF NoFrame, Frames, Pcs, Levels, Admitted, Locked
    <3>3. /\ depth[t] \in 1..MaxDepth
          /\ frame'[t][depth[t]] = NoFrame
          /\ \A u \in Threads, e \in 1..MaxDepth :
                <<u, e>> # <<t, depth[t]>> => frame'[u][e] = frame[u][e]
      BY <3>1, <3>2, StepFrame DEF IInv
    <3>4. QED
      BY <3>2, <3>3 DEF Top
  <2>3. QED
    BY <2>1, <2>2
<1>2. \A u \in Threads, e \in 1..MaxDepth :
         \/ frame'[u][e] = frame[u][e]
         \/ /\ ~Locked(frame'[u][e]) /\ ~Admitted(frame'[u][e])
            /\ ~Locked(frame[u][e]) /\ ~Admitted(frame[u][e])
  BY <1>1
<1>3. QED
  BY <1>2, SameStanding DEF Waiting
----------------------------------------------------------------------------
(* The steps that the service sees.  First what all of them do to frames.  *)
LEMMA OneFrameMoves ==
    ASSUME IInv, NEW t \in Threads, depth[t] > 0,
           NEW g \in Frames, Step(t, g), g.call = Top(t).call, NEW a, a = <<t, depth[t]>>
    PROVE  /\ a \in Activations /\ CallAt(a) = CallOf(t) /\ CallAt(a)' = CallOf(t)
           /\ a \in Owners <=> Locked(Top(t))
           /\ a \in Owners' <=> Locked(g)
           /\ a \in Waiters <=> Waiting(Top(t))
           /\ a \in Waiters' <=> Waiting(g)
           /\ \A b : b # a => /\ b \in Owners' <=> b \in Owners
                              /\ b \in Waiters' <=> b \in Waiters
                              /\ b \in Owners => CallAt(b)' = CallAt(b)
<1>1. /\ depth[t] \in 1..MaxDepth
      /\ frame'[t][depth[t]] = g
      /\ \A u \in Threads, e \in 1..MaxDepth :
            <<u, e>> # <<t, depth[t]>> => frame'[u][e] = frame[u][e]
  BY StepFrame DEF IInv
<1>2. MembersAre /\ MembersAre'
  BY Members, MembersNext
<1>3. a \in Activations /\ CallAt(a) = CallOf(t) /\ CallAt(a)' = CallOf(t)
  BY <1>1 DEF Activations, CallAt, CallOf, Top
<1>4. /\ a \in Owners <=> Locked(Top(t))
      /\ a \in Owners' <=> Locked(g)
      /\ a \in Waiters <=> Waiting(Top(t))
      /\ a \in Waiters' <=> Waiting(g)
  BY <1>1, <1>2 DEF MembersAre, Top
<1>5. ASSUME NEW b, b # a
      PROVE  /\ b \in Owners' <=> b \in Owners
             /\ b \in Waiters' <=> b \in Waiters
             /\ b \in Owners => CallAt(b)' = CallAt(b)
  <2>1. CASE b \in Activations
    <3>1. PICK u \in Threads, e \in 1..MaxDepth : b = <<u, e>>
      BY <2>1 DEF Activations
    <3>2. frame'[u][e] = frame[u][e]
      BY <1>1, <1>5, <3>1
    <3>3. CallAt(b)' = CallAt(b)
      BY <3>1, <3>2 DEF CallAt
    <3>4. QED
      BY <1>2, <3>1, <3>2, <3>3 DEF MembersAre
  <2>2. CASE b \notin Activations
    BY <1>2, <2>2 DEF MembersAre
  <2>3. QED
    BY <2>1, <2>2
<1>6. QED
  BY <1>3, <1>4, <1>5

(* The queue with nobody in it, one call or two.                           *)
LEMMA QueueForms ==
    ASSUME IInv
    PROVE  /\ Owners = {} \/ \E a \in Activations : Owners = {a}
           /\ Waiters = {} \/ \E a \in Activations : Waiters = {a}
<1>1. Owners \subseteq Activations /\ Waiters \subseteq Activations
  BY Members DEF MembersAre
<1>2. QED
  BY <1>1, AtMostOne

(* Passing the flag is being accepted.                                     *)
LEMMA AdmitAccepts ==
    ASSUME IInv, FileInv, NEW t \in Threads, Admit(t)
    PROVE  \E c \in CallIds : Service!Accept(c)
<1>1. PICK f, c, a, g : /\ f = Top(t) /\ c = CallOf(t) /\ a = <<t, depth[t]>>
                        /\ g = [f EXCEPT !.pc = "lock"]
  OBVIOUS
<1>2. /\ depth[t] > 0 /\ f.pc = "exchange" /\ Step(t, g) /\ log' = log
      /\ ~loggingInProgress /\ loggingInProgress'
  BY <1>1 DEF Admit, At, Goto
<1>3. f \in Frames /\ FrameOK(f) /\ FrameFile(f, c) /\ c \in CallIds /\ depth[t] \in 1..MaxDepth
  BY <1>1, <1>2, TopFile
<1>4. g \in Frames /\ g.call = f.call /\ ~Locked(g) /\ ~Locked(f) /\ Waiting(g) /\ Admitted(g)
  BY <1>1, <1>2, <1>3 DEF Frames, Pcs, FrameOK, Locked, Admitted, Waiting
<1>5. /\ a \in Activations /\ CallAt(a)' = c
      /\ a \notin Owners /\ a \notin Owners' /\ a \in Waiters'
      /\ \A b : b # a => /\ b \in Owners' <=> b \in Owners
                         /\ b \in Waiters' <=> b \in Waiters
                         /\ b \in Owners => CallAt(b)' = CallAt(b)
  BY <1>1, <1>2, <1>4, OneFrameMoves
<1>6. MembersAre /\ MembersAre' /\ QueueIs /\ QueueIs'
  BY Members, MembersNext, QueueOf, QueueOfNext
<1>7. ~Jammed
  BY <1>2, <1>6 DEF MembersAre
<1>8. ~Jammed'
  <2>1. frame'[t][depth[t]] = g
    BY <1>2, <1>4, StepFrame DEF IInv
  <2>2. QED
    BY <1>3, <1>4, <1>6, <2>1 DEF MembersAre
<1>9. Waiters = {} /\ Waiters' = {a} /\ Owners' = Owners
  <2>1. \A u \in Threads, d \in 1..MaxDepth : ~Waiting(frame[u][d])
    BY <1>2 DEF IInv, OneAdmitted, Inside, Waiting
  <2>2. \A b \in Activations : b \notin Waiters
    BY <1>6, <2>1 DEF MembersAre, Activations
  <2>3. Waiters = {}
    BY <1>6, <2>2 DEF MembersAre
  <2>4. Waiters' = {a}
    BY <1>5, <2>3
  <2>5. Owners' = Owners
    BY <1>5
  <2>6. QED
    BY <2>3, <2>4, <2>5
<1>10. AsQueue(Waiters) = <<>> /\ AsQueue(Waiters)' = <<c>>
  BY <1>5, <1>6, <1>9 DEF QueueIs
<1>11. c \notin Recorded /\ Recorded' = Recorded
  <2>1. ~Whole(c)
    <3>1. ~InLog(c)
      BY <1>2, <1>3 DEF FrameFile
    <3>2. QED
      BY <3>1 DEF InLog, Whole
  <2>2. QED
    BY <1>2, <2>1 DEF Recorded, Whole
<1>12. /\ Len(Queue) < 2 /\ \A i \in DOMAIN Queue : Queue[i] # c
       /\ Queue' = Append(Queue, c)
  <2>1. CASE Owners = {}
    <3>1. Queue = <<>> /\ Queue' = <<c>>
      BY <1>6, <1>9, <1>10, <2>1, Joined DEF Queue, QueueIs
    <3>2. QED
      BY <3>1, Joined
  <2>2. CASE \E b \in Activations : Owners = {b}
    <3>1. PICK b \in Activations : Owners = {b}
      BY <2>2
    <3>2. PICK o : o = CallAt(b)
      OBVIOUS
    <3>3. o = CallAt(b)'
      BY <1>5, <3>1, <3>2
    <3>4. AsQueue(Owners) = <<o>> /\ AsQueue(Owners)' = <<o>>
      BY <1>6, <1>9, <3>1, <3>2, <3>3 DEF QueueIs
    <3>5. Queue = <<o>> /\ Queue' = Append(<<o>>, c)
      BY <1>10, <3>4, Joined DEF Queue
    <3>6. o # c
      <4>1. PICK u \in Threads, d \in 1..MaxDepth : b = <<u, d>>
        BY DEF Activations
      <4>2. o = <<u, frame[u][d].call>> /\ <<u, d>> # <<t, depth[t]>>
        BY <1>1, <1>5, <3>1, <3>2, <4>1 DEF CallAt
      <4>3. u = t => frame[u][d].call # f.call
        BY <1>1, <1>3, <4>2, FrameCalls DEF FileInv, Top
      <4>4. QED
        BY <1>1, <4>2, <4>3 DEF CallOf
    <3>7. QED
      BY <3>5, <3>6
  <2>3. QED
    BY <2>1, <2>2, QueueForms
<1>13. Service!Accept(c)
  BY <1>7, <1>8, <1>11, <1>12 DEF Service!Accept, Queue, Recorded, Jammed
<1>14. QED
  BY <1>3, <1>13

(* Getting the mutex does not change the order: the waiter becomes the     *)
(* owner.                                                                  *)
LEMMA LockStutters ==
    ASSUME IInv, NEW t \in Threads, Lock(t)
    PROVE  Queue' = Queue /\ (Jammed' <=> Jammed)
<1>1. PICK f, a, g : f = Top(t) /\ a = <<t, depth[t]>> /\ g = [f EXCEPT !.pc = "build"]
  OBVIOUS
<1>2. /\ depth[t] > 0 /\ f.pc = "lock" /\ Step(t, g)
      /\ loggingInProgress' = loggingInProgress /\ logMutex = NoThread
  BY <1>1 DEF Lock, At, Goto
<1>3. f \in Frames /\ FrameOK(f) /\ depth[t] \in 1..MaxDepth
  BY <1>1, <1>2, TopOK DEF IInv
<1>4. g \in Frames /\ g.call = f.call /\ Locked(g) /\ ~Waiting(g) /\ Waiting(f) /\ Admitted(g)
  BY <1>1, <1>2, <1>3 DEF Frames, Pcs, FrameOK, Locked, Admitted, Waiting
<1>5. /\ a \in Activations /\ CallAt(a)' = CallAt(a)
      /\ a \in Owners' /\ a \in Waiters /\ a \notin Waiters'
      /\ \A b : b # a => /\ b \in Owners' <=> b \in Owners
                         /\ b \in Waiters' <=> b \in Waiters
  BY <1>1, <1>2, <1>4, OneFrameMoves
<1>6. MembersAre /\ MembersAre' /\ QueueIs /\ QueueIs'
  BY Members, MembersNext, QueueOf, QueueOfNext
<1>7. Owners = {}
  <2>1. \A u \in Threads, d \in 1..MaxDepth : ~Locked(frame[u][d])
    BY <1>2, ThreadsAssumption DEF IInv, MutexFollowsScope, Holding
  <2>2. QED
    BY <1>6, <2>1 DEF MembersAre, Activations
<1>8. Waiters = {a} /\ Waiters' = {} /\ Owners' = {a}
  BY <1>5, <1>7, AtMostOne
<1>9. PICK c : c = CallAt(a)
  OBVIOUS
<1>10. AsQueue(Owners) = <<>> /\ AsQueue(Waiters) = <<c>>
  BY <1>6, <1>7, <1>8, <1>9 DEF QueueIs
<1>11. AsQueue(Owners)' = <<c>> /\ AsQueue(Waiters)' = <<>>
  <2>1. AsQueue(Owners)' = <<CallAt(a)'>> /\ AsQueue(Waiters)' = <<>>
    BY <1>6, <1>8 DEF QueueIs
  <2>2. QED
    BY <1>5, <1>9, <2>1
<1>12. Queue' = Queue
  BY <1>10, <1>11, Joined DEF Queue
<1>13. ~Jammed /\ ~Jammed'
  <2>1. frame'[t][depth[t]] = g /\ Admitted(frame[t][depth[t]])
    BY <1>1, <1>2, <1>4, StepFrame DEF IInv, Top, Waiting
  <2>2. QED
    BY <1>3, <1>4, <1>6, <2>1 DEF MembersAre
<1>14. QED
  BY <1>12, <1>13

(* Nor does clearing the flag.                                             *)
LEMMA ClearStutters ==
    ASSUME IInv, NEW t \in Threads, Clear(t)
    PROVE  Queue' = Queue /\ (Jammed' <=> Jammed)
<1>1. PICK f, a, g : f = Top(t) /\ a = <<t, depth[t]>> /\ g = [f EXCEPT !.pc = "close"]
  OBVIOUS
<1>2. depth[t] > 0 /\ f.pc = "clear" /\ Step(t, g) /\ ~loggingInProgress'
  BY <1>1 DEF Clear, At, Goto
<1>3. f \in Frames /\ FrameOK(f) /\ depth[t] \in 1..MaxDepth
  BY <1>1, <1>2, TopOK DEF IInv
<1>4. /\ g \in Frames /\ g.call = f.call
      /\ Locked(g) /\ Locked(f) /\ ~Waiting(g) /\ ~Waiting(f) /\ Admitted(f)
  BY <1>1, <1>2, <1>3 DEF Frames, Pcs, FrameOK, Locked, Admitted, Waiting
<1>5. /\ CallAt(a)' = CallAt(a)
      /\ a \in Owners' /\ a \in Owners /\ a \notin Waiters /\ a \notin Waiters'
      /\ \A b : b # a => /\ b \in Owners' <=> b \in Owners
                         /\ b \in Waiters' <=> b \in Waiters
  BY <1>1, <1>2, <1>4, OneFrameMoves
<1>6. MembersAre /\ MembersAre' /\ QueueIs /\ QueueIs'
  BY Members, MembersNext, QueueOf, QueueOfNext
<1>7. Waiters = {}
  <2>1. ASSUME NEW u \in Threads, NEW d \in 1..MaxDepth, Waiting(frame[u][d]) PROVE FALSE
    <3>1. Inside(u, d) /\ Inside(t, depth[t])
      BY <1>1, <1>4, <2>1 DEF Inside, Waiting, Top
    <3>2. u = t /\ d = depth[t]
      BY <1>3, <3>1 DEF IInv, OneAdmitted
    <3>3. QED
      BY <1>1, <1>4, <2>1, <3>2 DEF Top
  <2>2. QED
    BY <1>6, <2>1 DEF MembersAre, Activations
<1>8. Owners = {a} /\ Owners' = {a} /\ Waiters' = {}
  BY <1>5, <1>7, AtMostOne
<1>9. AsQueue(Owners) = <<CallAt(a)>> /\ AsQueue(Waiters) = <<>>
  BY <1>6, <1>7, <1>8 DEF QueueIs
<1>10. AsQueue(Owners)' = <<CallAt(a)'>> /\ AsQueue(Waiters)' = <<>>
  BY <1>6, <1>8 DEF QueueIs
<1>11. Queue' = Queue
  BY <1>5, <1>9, <1>10 DEF Queue
<1>12. ~Jammed /\ ~Jammed'
  <2>1. Admitted(frame[t][depth[t]])
    BY <1>1, <1>4 DEF Top
  <2>2. QED
    BY <1>2, <1>3, <1>6, <2>1 DEF MembersAre
<1>13. QED
  BY <1>11, <1>12

(* Releasing the mutex is leaving the queue.                               *)
LEMMA UnlockLeaves ==
    ASSUME IInv, NEW t \in Threads, Unlock(t)
    PROVE  Service!Leave
<1>1. PICK f, a, g, c : /\ f = Top(t) /\ a = <<t, depth[t]>> /\ g = [f EXCEPT !.pc = "return"]
                        /\ c = CallAt(a)
  OBVIOUS
<1>2. /\ depth[t] > 0 /\ f.pc = "unlock" /\ Step(t, g)
      /\ loggingInProgress' = loggingInProgress /\ log' = log
  BY <1>1 DEF Unlock, At, Goto
<1>3. f \in Frames /\ FrameOK(f) /\ depth[t] \in 1..MaxDepth
  BY <1>1, <1>2, TopOK DEF IInv
<1>4. /\ g \in Frames /\ g.call = f.call
      /\ ~Locked(g) /\ Locked(f) /\ ~Waiting(g) /\ ~Waiting(f) /\ ~Admitted(f) /\ ~Admitted(g)
  BY <1>1, <1>2, <1>3 DEF Frames, Pcs, FrameOK, Locked, Admitted, Waiting
<1>5. /\ a \notin Owners' /\ a \in Owners /\ a \notin Waiters /\ a \notin Waiters'
      /\ \A b : b # a => /\ b \in Owners' <=> b \in Owners
                         /\ b \in Waiters' <=> b \in Waiters
  BY <1>1, <1>2, <1>4, OneFrameMoves
<1>6. MembersAre /\ MembersAre' /\ QueueIs /\ QueueIs'
  BY Members, MembersNext, QueueOf, QueueOfNext
<1>7. Owners = {a} /\ Owners' = {} /\ Waiters' = Waiters
  BY <1>5, AtMostOne
<1>8. AsQueue(Owners) = <<c>> /\ AsQueue(Owners)' = <<>>
  BY <1>1, <1>6, <1>7 DEF QueueIs
<1>9. \A u \in Threads, e \in 1..MaxDepth :
         frame'[u][e] = frame[u][e] \/ (~Admitted(frame[u][e]) /\ ~Admitted(frame'[u][e]))
  <2>1. /\ frame'[t][depth[t]] = g /\ frame[t][depth[t]] = f
        /\ \A u \in Threads, e \in 1..MaxDepth :
              <<u, e>> # <<t, depth[t]>> => frame'[u][e] = frame[u][e]
    BY <1>1, <1>2, <1>4, StepFrame DEF IInv, Top
  <2>2. QED
    BY <1>4, <2>1
<1>10. Jammed' <=> Jammed
  BY <1>2, <1>6, <1>9 DEF MembersAre
<1>11. Recorded' = Recorded
  BY <1>2 DEF Recorded, Whole
<1>12. Queue # <<>> /\ Queue' = Tail(Queue)
  <2>1. CASE Waiters = {}
    <3>1. AsQueue(Waiters) = <<>> /\ AsQueue(Waiters)' = <<>>
      BY <1>6, <1>7, <2>1 DEF QueueIs
    <3>2. Queue = <<c>> /\ Queue' = <<>>
      BY <1>8, <3>1, Joined DEF Queue
    <3>3. QED
      BY <3>2
  <2>2. CASE \E b \in Activations : Waiters = {b}
    <3>1. PICK b \in Activations : Waiters = {b}
      BY <2>2
    <3>2. PICK w : w = CallAt(b)
      OBVIOUS
    <3>3. CallAt(b)' = w
      <4>1. PICK u \in Threads, d \in 1..MaxDepth : b = <<u, d>>
        BY DEF Activations
      <4>2. Admitted(frame[u][d])
        BY <1>6, <3>1, <4>1 DEF MembersAre, Waiting
      <4>3. frame'[u][d] = frame[u][d]
        BY <1>9, <4>2
      <4>4. QED
        BY <3>2, <4>1, <4>3 DEF CallAt
    <3>4. AsQueue(Waiters) = <<w>> /\ AsQueue(Waiters)' = <<w>>
      BY <1>6, <1>7, <3>1, <3>2, <3>3 DEF QueueIs
    <3>5. Queue = Append(<<c>>, w) /\ Queue' = <<w>>
      BY <1>8, <3>4, Joined DEF Queue
    <3>6. QED
      BY <3>5, Joined
  <2>3. QED
    BY <2>1, <2>2, QueueForms
<1>13. QED
  BY <1>10, <1>11, <1>12 DEF Service!Leave, Queue, Recorded, Jammed

(* An exception from inside an admitted call shuts the service.            *)
LEMMA UnwindingJams ==
    ASSUME IInv, NEW t \in Threads, Unwinds(t), Top(t).level # "WARN"
    PROVE  Service!Jam
<1>1. PICK f, a, g : f = Top(t) /\ a = <<t, depth[t]>> /\ g = Unwound(f)
  OBVIOUS
<1>2. /\ depth[t] > 0 /\ f.pc \in {"invoke", "callback", "build", "check"} /\ Step(t, g)
      /\ loggingInProgress' = loggingInProgress /\ log' = log
  BY <1>1 DEF Unwinds, InvokeEmptyCallback, CallbackThrows, AllocFails, At
<1>3. f \in Frames /\ FrameOK(f) /\ depth[t] \in 1..MaxDepth
  BY <1>1, <1>2, TopOK DEF IInv
<1>4. /\ g \in Frames /\ g.call = f.call
      /\ Locked(g) /\ Locked(f) /\ ~Waiting(g) /\ ~Waiting(f) /\ Admitted(f) /\ ~Admitted(g)
  BY <1>1, <1>2, <1>3 DEF Unwound, Frames, Pcs, Levels, FrameOK, Locked, Admitted, Waiting
<1>5. /\ CallAt(a)' = CallAt(a)
      /\ a \in Owners' /\ a \in Owners /\ a \notin Waiters /\ a \notin Waiters'
      /\ \A b : b # a => /\ b \in Owners' <=> b \in Owners
                         /\ b \in Waiters' <=> b \in Waiters
  BY <1>1, <1>2, <1>4, OneFrameMoves
<1>6. MembersAre /\ MembersAre' /\ QueueIs /\ QueueIs'
  BY Members, MembersNext, QueueOf, QueueOfNext
<1>7. /\ loggingInProgress
      /\ \A u \in Threads, d \in 1..MaxDepth :
            Admitted(frame[u][d]) => u = t /\ d = depth[t]
  <2>1. Inside(t, depth[t])
    BY <1>1, <1>4 DEF Inside, Top
  <2>2. QED
    BY <1>3, <2>1 DEF IInv, OneAdmitted, Inside
<1>8. Waiters = {}
  <2>1. ASSUME NEW u \in Threads, NEW d \in 1..MaxDepth, Waiting(frame[u][d]) PROVE FALSE
    BY <1>1, <1>4, <1>7, <2>1 DEF Waiting, Top
  <2>2. QED
    BY <1>6, <2>1 DEF MembersAre, Activations
<1>9. Owners = {a} /\ Owners' = {a} /\ Waiters' = {}
  BY <1>5, <1>8, AtMostOne
<1>10. AsQueue(Owners) = <<CallAt(a)>> /\ AsQueue(Waiters) = <<>>
  BY <1>6, <1>8, <1>9 DEF QueueIs
<1>11. AsQueue(Owners)' = <<CallAt(a)'>> /\ AsQueue(Waiters)' = <<>>
  BY <1>6, <1>9 DEF QueueIs
<1>12. Queue' = Queue /\ Len(Queue) = 1
  <2>1. Queue = <<CallAt(a)>>
    BY <1>10, Joined DEF Queue
  <2>2. Queue' = Queue
    BY <1>5, <1>10, <1>11 DEF Queue
  <2>3. QED
    BY <2>1, <2>2
<1>13. ~Jammed /\ Jammed'
  <2>1. Admitted(frame[t][depth[t]])
    BY <1>1, <1>4 DEF Top
  <2>2. \A u \in Threads, e \in 1..MaxDepth : ~Admitted(frame'[u][e])
    <3>1. /\ frame'[t][depth[t]] = g
          /\ \A u \in Threads, e \in 1..MaxDepth :
                <<u, e>> # <<t, depth[t]>> => frame'[u][e] = frame[u][e]
      BY <1>1, <1>2, <1>4, StepFrame DEF IInv
    <3>2. QED
      BY <1>4, <1>7, <3>1
  <2>3. QED
    BY <1>2, <1>3, <1>6, <1>7, <2>1, <2>2 DEF MembersAre
<1>14. Recorded' = Recorded
  BY <1>2 DEF Recorded, Whole
<1>15. QED
  BY <1>12, <1>13, <1>14 DEF Service!Jam, Queue, Recorded, Jammed

(* The last part of an entry records it; the parts before it do not.       *)
LEMMA WriteRecords ==
    ASSUME IInv, FileInv, log \in Seq(EntryParts), NEW t \in Threads, WritePart(t)
    PROVE  Service!Record \/ Recorded' = Recorded
<1>1. PICK f, c, p, m, a : /\ f = Top(t) /\ c = CallOf(t) /\ p = NextPart(t) /\ m = Len(log) + 1
                           /\ a = <<t, depth[t]>>
  OBVIOUS
<1>2. /\ depth[t] > 0 /\ f.unwritten > 0 /\ f.pc \in {"write", "close"} /\ log' = Append(log, p)
  BY <1>1 DEF WritePart, At
<1>3. /\ f \in Frames /\ FrameOK(f) /\ FrameFile(f, c)
      /\ depth[t] \in 1..MaxDepth /\ c \in CallIds
  BY <1>1, <1>2, TopFile
<1>4. p = [id |-> c, part |-> Parts + 1 - f.unwritten] /\ p \in EntryParts
  <2>1. f.unwritten \in 1..Parts /\ Parts + 1 - f.unwritten \in 1..Parts
    BY <1>2, <1>3, PartsAssumption DEF Frames
  <2>2. QED
    BY <1>1, <1>3, <2>1 DEF NextPart, EntryParts
<1>5. /\ m \in Nat \ {0} /\ DOMAIN log = 1..(m - 1) /\ DOMAIN log' = 1..m
      /\ log'[m] = p /\ \A i \in DOMAIN log : log'[i] = log[i]
  BY <1>1, <1>2, <1>4, Appended
<1>6. \A b \in CallIds : Whole(b)' <=> Whole(b) \/ p = [id |-> b, part |-> Parts]
  <2>1. \A i \in DOMAIN log' : i \in DOMAIN log \/ i = m
    BY <1>5
  <2>2. DOMAIN log \subseteq DOMAIN log' /\ m \in DOMAIN log'
    BY <1>5
  <2>3. QED
    BY <1>5, <2>1, <2>2 DEF Whole
<1>7. CASE f.unwritten # 1
  <2>1. Parts + 1 - f.unwritten # Parts
    BY <1>2, <1>3, <1>7, PartsAssumption DEF Frames
  <2>2. \A b \in CallIds : p # [id |-> b, part |-> Parts]
    BY <1>4, <2>1
  <2>3. QED
    BY <1>6, <2>2 DEF Recorded
<1>8. CASE f.unwritten = 1
  <2>1. p = [id |-> c, part |-> Parts]
    BY <1>4, <1>8, PartsAssumption
  <2>2. Recorded' = Recorded \cup {c}
    BY <1>3, <1>6, <2>1 DEF Recorded
  <2>3. c \notin Recorded
    <3>1. PartsUpTo(c, Parts - 1)
      BY <1>3, <1>8 DEF FrameFile
    <3>2. ~(Parts <= Parts - 1)
      BY PartsAssumption
    <3>3. QED
      BY <3>1, <3>2 DEF Recorded, Whole, PartsUpTo
  <2>4. Queue # <<>> /\ Head(Queue) = c
    <3>1. Locked(f) /\ f.level # "WARN"
      BY <1>2, <1>3 DEF FrameOK, Locked
    <3>2. a \in Owners /\ CallAt(a) = c
      <4>1. MembersAre
        BY Members
      <4>2. QED
        BY <1>1, <1>3, <3>1, <4>1 DEF MembersAre, CallAt, CallOf, Top
    <3>3. Owners = {a}
      <4>1. \A b \in Owners : b = a
        BY <3>2, AtMostOne
      <4>2. QED
        BY <3>2, <4>1
    <3>4. AsQueue(Owners) = <<c>>
      BY <3>2, <3>3, QueueOf DEF QueueIs
    <3>5. CASE Waiters = {}
      <4>1. Queue = <<c>>
        BY <3>4, <3>5, QueueOf, Joined DEF Queue, QueueIs
      <4>2. QED
        BY <4>1, Joined
    <3>6. CASE \E b \in Activations : Waiters = {b}
      <4>1. PICK b \in Activations : Waiters = {b}
        BY <3>6
      <4>2. PICK w : w = CallAt(b)
        OBVIOUS
      <4>3. Queue = Append(<<c>>, w)
        <5>1. AsQueue(Waiters) = <<w>>
          BY <4>1, <4>2, QueueOf DEF QueueIs
        <5>2. Queue = <<c>> \o <<w>>
          BY <3>4, <5>1 DEF Queue
        <5>3. QED
          BY <5>2, Joined
      <4>4. QED
        BY <4>3, Joined
    <3>7. QED
      BY <3>5, <3>6, QueueForms
  <2>5. Queue' = Queue /\ Jammed' = Jammed
    <3>1. Queue' = Queue /\ (Jammed' <=> Jammed)
      BY SteadyKeeps DEF Steady
    <3>2. QED
      BY <3>1 DEF Jammed
  <2>6. QED
    BY <2>2, <2>3, <2>4, <2>5 DEF Service!Record, Queue, Recorded, Jammed
<1>9. QED
  BY <1>7, <1>8
----------------------------------------------------------------------------
(* The service starts empty.                                               *)
LEMMA ServiceInit == Init => Service!Init
<1>1. SUFFICES ASSUME Init PROVE Service!Init
  OBVIOUS
<1>2. \A t \in Threads, d \in 1..MaxDepth : ~Locked(frame[t][d]) /\ ~Waiting(frame[t][d])
  BY <1>1 DEF Init, NoFrame, Locked, Waiting, Admitted
<1>3. Owners = {} /\ Waiters = {}
  BY <1>2, Members DEF MembersAre, Activations
<1>4. Queue = <<>>
  BY <1>3, QueueOf, Joined DEF Queue, QueueIs
<1>5. Recorded = {} /\ Jammed = FALSE
  BY <1>1 DEF Init, Recorded, Whole, Jammed
<1>6. QED
  BY <1>4, <1>5 DEF Service!Init, Queue, Recorded, Jammed

(* Every step of the code is one of the service, or none.                  *)
LEMMA ServiceStep ==
    ASSUME IInv, FileInv, log \in Seq(EntryParts), [Next]_vars
    PROVE  [Service!Next]_Service!vars
<1>1. ASSUME Queue' = Queue, Jammed' <=> Jammed, Recorded' = Recorded PROVE Service!vars' = Service!vars
  <2>1. Jammed' = Jammed
    BY <1>1 DEF Jammed
  <2>2. QED
    BY <1>1, <2>1, ServiceState
<1>2. log' = log => Recorded' = Recorded
  BY DEF Recorded, Whole
<1>3. ASSUME NEW t \in Threads, Progress(t) PROVE [Service!Next]_Service!vars
  <2>1. ~WritePart(t) => log' = log
    BY <1>3, PartAppended
  <2>2. CASE Admit(t)
    BY <2>2, AdmitAccepts DEF Service!Next
  <2>3. CASE Lock(t) \/ Clear(t)
    BY <1>1, <1>2, <2>3, LockStutters, ClearStutters DEF Lock, Clear
  <2>4. CASE Unlock(t)
    BY <2>4, UnlockLeaves DEF Service!Next
  <2>5. CASE Return(t)
    BY <1>1, <1>2, <2>5, EdgesKeep DEF Return
  <2>6. CASE Unwinds(t) /\ Top(t).level # "WARN"
    BY <2>6, UnwindingJams DEF Service!Next
  <2>7. CASE Steady(t) \/ (Unwinds(t) /\ Top(t).level = "WARN")
    <3>1. Queue' = Queue /\ (Jammed' <=> Jammed)
      BY <2>7, SteadyKeeps
    <3>2. CASE WritePart(t)
      BY <1>1, <3>1, <3>2, WriteRecords DEF Service!Next
    <3>3. CASE ~WritePart(t)
      BY <1>1, <1>2, <2>1, <3>1, <3>3
    <3>4. QED
      BY <3>2, <3>3
  <2>8. QED
    BY <1>3, <2>2, <2>3, <2>4, <2>5, <2>6, <2>7 DEF Progress, Steady, Unwinds
<1>4. ASSUME NEW t \in Threads, Call(t) \/ CallbackRelogs(t) PROVE Service!vars' = Service!vars
  <2>1. Push(t) /\ loggingInProgress' = loggingInProgress /\ log' = log
    BY <1>4 DEF Call, CallbackRelogs
  <2>2. QED
    BY <1>1, <1>2, <2>1, EdgesKeep
<1>5. CASE SetLogCallback \/ UNCHANGED vars
  <2>1. frame' = frame /\ loggingInProgress' = loggingInProgress /\ log' = log
    BY <1>5 DEF SetLogCallback, vars
  <2>2. Queue' = Queue /\ (Jammed' <=> Jammed)
    BY <2>1, SameStanding
  <2>3. QED
    BY <1>1, <1>2, <2>1, <2>2
<1>6. QED
  BY <1>3, <1>4, <1>5 DEF Next

(* LogStacktrace records the calls it admits one at a time and in the      *)
(* order in which they passed the flag, whatever the threads and callbacks *)
(* do; nothing but an exception shuts it.                                  *)
THEOREM ServiceImplemented == Spec => ImplementsLogService
<1>1. Init => Service!Init
  BY ServiceInit
<1>2. IInv /\ FileInv /\ log \in Seq(EntryParts) /\ [Next]_vars => [Service!Next]_Service!vars
  BY ServiceStep
<1>3. QED
  BY <1>1, <1>2, FileInvariance, PTL DEF Spec, ImplementsLogService, Service!Spec
============================================================================
