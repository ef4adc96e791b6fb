------------------------ MODULE LogStacktraceProofs ------------------------
(***************************************************************************)
(* Proofs about LogStacktrace, for every set of threads, every bound and   *)
(* every behaviour of the callback and of the environment.                 *)
(***************************************************************************)
EXTENDS LogStacktrace, TLAPS

(* Everything but the file, which has other writers in ExceptionHandler.   *)
CallsTypeOK ==
    /\ loggingInProgress \in BOOLEAN
    /\ logMutex \in Threads \cup {NoThread}
    /\ logCallback_ \in BOOLEAN
    /\ depth \in [Threads -> 0..MaxDepth]
    /\ frame \in [Threads -> [1..MaxDepth -> Frames]]
    /\ calls \in [Threads -> 0..MaxCalls]
    /\ told \subseteq [call : CallIds, level : Levels]

(* The steps of Next change the top frame only.  What they do to the other *)
(* variables is then all that a proof has to look at.                      *)
LEMMA StepFrame ==
    ASSUME CallsTypeOK, NEW t \in Threads, depth[t] > 0, NEW f \in Frames, Step(t, f)
    PROVE  /\ frame' \in [Threads -> [1..MaxDepth -> Frames]]
           /\ depth[t] \in 1..MaxDepth
           /\ frame'[t][depth[t]] = f
           /\ \A u \in Threads, e \in 1..MaxDepth :
                 <<u, e>> # <<t, depth[t]>> => frame'[u][e] = frame[u][e]
  BY BoundsAssumption DEF CallsTypeOK, Step

(* The innermost frame of a thread that is in a call.                      *)
LEMMA TopIsFrame ==
    ASSUME CallsTypeOK, NEW t \in Threads, depth[t] > 0
    PROVE  depth[t] \in 1..MaxDepth /\ Top(t) \in Frames /\ CallOf(t) = <<t, Top(t).call>>
  BY BoundsAssumption DEF CallsTypeOK, Top, CallOf
----------------------------------------------------------------------------
(* What is always true of a frame in use: which branch its report belongs  *)
(* to follows from where it is, and when its stream owes the file nothing. *)
FrameOK(f) ==
    /\ f.call # 0
    /\ f.pc # "none"
    /\ f.pc \in {"exchange", "lock", "build", "open", "write"} => f.level = "NONE"
    /\ f.pc \in {"check", "invoke", "callback"} => f.level \in MessageLevels
    /\ f.pc = "clear" => f.level \in {"FATAL", "ERROR"}
    /\ f.pc \in {"close", "unlock"} => f.level \in {"FATAL", "ERROR", "THROWN"}
    /\ f.pc = "return" => f.level # "NONE"
    /\ f.pc \in {"exchange", "lock", "build", "open", "unlock", "return"} => f.unwritten = 0
    /\ f.level \in {"WARN", "ERROR"} => f.unwritten = 0

(* A stack is a run of frames in use, and all but the innermost are inside *)
(* a callback, or, under the call of a terminate handler, where the        *)
(* exception left them.                                                    *)
Left == {"callback", "invoke", "build", "check"}

StackOK ==
    \A t \in Threads, d \in 1..MaxDepth :
        /\ d <= depth[t] => FrameOK(frame[t][d])
        /\ d < depth[t] => frame[t][d].pc \in Left
        /\ d > depth[t] => frame[t][d] = NoFrame

(* A thread holds the mutex in one frame only.                             *)
OneHolder ==
    \A t \in Threads, d, e \in 1..MaxDepth :
        Holding(t, d) /\ Holding(t, e) => d = e

IInv ==
    /\ CallsTypeOK
    /\ StackOK
    /\ OneAdmitted
    /\ MutexFollowsScope
    /\ OneHolder
----------------------------------------------------------------------------
(* What StackOK says of it.                                                *)
LEMMA TopOK ==
    ASSUME CallsTypeOK, StackOK, NEW t \in Threads, depth[t] > 0
    PROVE  /\ depth[t] \in 1..MaxDepth
           /\ Top(t) \in Frames /\ FrameOK(Top(t))
           /\ CallOf(t) \in CallIds
<1>1. depth[t] \in 1..MaxDepth /\ Top(t) \in Frames
  BY TopIsFrame
<1>2. FrameOK(Top(t))
  BY <1>1 DEF StackOK, Top
<1>3. Top(t).call \in 1..MaxCalls
  BY <1>1, <1>2, BoundsAssumption DEF Frames, FrameOK
<1>4. QED
  BY <1>1, <1>2, <1>3 DEF CallOf, CallIds

(* Most steps move one frame along and leave flag, mutex and depth alone;  *)
(* the frame may stop being admitted but not start.                        *)
Quiet(t) ==
    /\ depth[t] > 0
    /\ UNCHANGED <<loggingInProgress, logMutex, depth>>
    /\ \E f \in Frames :
        /\ FrameOK(f)
        /\ Step(t, f)
        /\ Admitted(f) => Admitted(Top(t))
        /\ Locked(f) <=> Locked(Top(t))

(* These fifteen are of that kind.                                         *)
LEMMA QuietSteps ==
    ASSUME CallsTypeOK, StackOK, NEW t \in Threads,
           \/ Reject(t) \/ Build(t) \/ Open(t) \/ OpenFails(t) \/ WritePart(t)
           \/ WriteFails(t) \/ Inserted(t) \/ CheckCallback(t) \/ ReportToStderr(t)
           \/ InvokeCallback(t) \/ InvokeEmptyCallback(t) \/ CallbackReturns(t)
           \/ CallbackThrows(t) \/ AllocFails(t) \/ Close(t)
    PROVE  Quiet(t)
<1> DEFINE f == Top(t)
<1>1. depth[t] > 0
  BY DEF Reject, Build, Open, OpenFails, WritePart, WriteFails, Inserted, CheckCallback,
         ReportToStderr, InvokeCallback, InvokeEmptyCallback, CallbackReturns,
         CallbackThrows, AllocFails, Close, At
<1>2. f \in Frames /\ FrameOK(f)
  BY <1>1, TopOK
<1>3. CASE Reject(t)
  <2> DEFINE g == [f EXCEPT !.pc = "check", !.level = "WARN"]
  <2>1. g \in Frames /\ FrameOK(g) /\ ~Locked(g) /\ ~Admitted(g) /\ ~Locked(f)
    BY <1>2, <1>3 DEF Reject, At, Frames, Pcs, Levels, FrameOK, MessageLevels, Locked, Admitted
  <2>2. QED
    BY <1>1, <1>3, <2>1 DEF Reject, Quiet
<1>4. CASE Build(t)
  <2> DEFINE g == [f EXCEPT !.pc = "open"]
  <2>1. g \in Frames /\ FrameOK(g) /\ Locked(g) /\ Locked(f) /\ Admitted(f)
    BY <1>2, <1>4 DEF Build, At, Frames, Pcs, Levels, FrameOK, MessageLevels, Locked, Admitted
  <2>2. QED
    BY <1>1, <1>4, <2>1 DEF Build, Goto, Quiet
<1>5. CASE Open(t)
  <2> DEFINE g == [f EXCEPT !.pc = "write", !.unwritten = Parts]
  <2>0. Parts \in 0..Parts /\ "write" \in Pcs
    BY PartsAssumption DEF Pcs
  <2>1. g \in Frames
    BY <1>2, <2>0 DEF Frames
  <2>2. FrameOK(g)
    BY <1>2, <1>5 DEF Open, At, FrameOK, Frames
  <2>3. Locked(g) /\ Locked(f) /\ Admitted(f)
    BY <1>2, <1>5 DEF Open, At, FrameOK, Frames, Locked, Admitted, MessageLevels
  <2>4. QED
    BY <1>1, <1>5, <2>1, <2>2, <2>3 DEF Open, Quiet
<1>6. CASE OpenFails(t)
  <2> DEFINE g == [f EXCEPT !.pc = "check", !.level = "ERROR"]
  <2>1. g \in Frames /\ FrameOK(g) /\ Locked(g) /\ Locked(f) /\ Admitted(f)
    BY <1>2, <1>6 DEF OpenFails, At, Frames, Pcs, Levels, FrameOK, MessageLevels, Locked, Admitted
  <2>2. QED
    BY <1>1, <1>6, <2>1 DEF OpenFails, Quiet
<1>7. CASE WritePart(t)
  <2> DEFINE g == [f EXCEPT !.unwritten = @ - 1]
  <2>0. f.unwritten - 1 \in 0..Parts
    BY <1>2, <1>7, PartsAssumption DEF WritePart, Frames
  <2>1. g \in Frames
    BY <1>2, <2>0 DEF Frames
  <2>2. FrameOK(g)
    BY <1>2, <1>7 DEF WritePart, At, FrameOK, Frames
  <2>3. Locked(g) /\ Locked(f) /\ (Admitted(g) <=> Admitted(f))
    BY <1>2, <1>7 DEF WritePart, At, FrameOK, Frames, Locked, Admitted, MessageLevels
  <2>4. QED
    BY <1>1, <1>7, <2>1, <2>2, <2>3 DEF WritePart, Quiet
<1>8. CASE WriteFails(t)
  <2> DEFINE g == [f EXCEPT !.unwritten = 0]
  <2>1. g \in Frames
    BY <1>2, <1>8, PartsAssumption DEF WriteFails, Frames, Pcs, Levels
  <2>2. FrameOK(g)
    BY <1>2, <1>8 DEF WriteFails, At, FrameOK, Frames
  <2>3. Locked(g) /\ Locked(f) /\ (Admitted(g) <=> Admitted(f))
    BY <1>2, <1>8 DEF WriteFails, At, FrameOK, Frames, Locked, Admitted, MessageLevels
  <2>4. QED
    BY <1>1, <1>8, <2>1, <2>2, <2>3 DEF WriteFails, Quiet
<1>9. CASE Inserted(t)
  <2> DEFINE g == [f EXCEPT !.pc = "check", !.level = "FATAL"]
  <2>1. g \in Frames /\ FrameOK(g) /\ Locked(g) /\ Locked(f) /\ Admitted(f)
    BY <1>2, <1>9 DEF Inserted, At, Frames, Pcs, Levels, FrameOK, MessageLevels, Locked, Admitted
  <2>2. QED
    BY <1>1, <1>9, <2>1 DEF Inserted, Quiet
<1>10. CASE CheckCallback(t)
  <2> DEFINE g == [f EXCEPT !.pc = "invoke"]
  <2>1. g \in Frames /\ FrameOK(g) /\ (Locked(g) <=> Locked(f)) /\ (Admitted(g) <=> Admitted(f))
    BY <1>2, <1>10
    DEF CheckCallback, At, Frames, Pcs, Levels, FrameOK, MessageLevels, Locked, Admitted
  <2>2. QED
    BY <1>1, <1>10, <2>1 DEF CheckCallback, Goto, Quiet
<1>11. CASE ReportToStderr(t) \/ CallbackReturns(t)
  <2> DEFINE g == [f EXCEPT !.pc = After(f.level)]
  <2>1. g \in Frames /\ FrameOK(g) /\ (Locked(g) <=> Locked(f)) /\ (Admitted(g) <=> Admitted(f))
    BY <1>2, <1>11
    DEF ReportToStderr, CallbackReturns, At, After, Frames, Pcs, Levels, FrameOK,
        MessageLevels, Locked, Admitted
  <2>2. QED
    BY <1>1, <1>11, <2>1 DEF ReportToStderr, CallbackReturns, Goto, Quiet
<1>12. CASE InvokeCallback(t)
  <2> DEFINE g == [f EXCEPT !.pc = "callback"]
  <2>1. g \in Frames /\ FrameOK(g) /\ (Locked(g) <=> Locked(f)) /\ (Admitted(g) <=> Admitted(f))
    BY <1>2, <1>12
    DEF InvokeCallback, At, Frames, Pcs, Levels, FrameOK, MessageLevels, Locked, Admitted
  <2>2. QED
    BY <1>1, <1>12, <2>1 DEF InvokeCallback, Goto, Quiet
<1>13. CASE InvokeEmptyCallback(t) \/ CallbackThrows(t) \/ AllocFails(t)
  <2> DEFINE g == Unwound(f)
  <2>1. g \in Frames /\ FrameOK(g) /\ (Locked(g) <=> Locked(f)) /\ ~Admitted(g)
    BY <1>2, <1>13
    DEF InvokeEmptyCallback, CallbackThrows, AllocFails, At, Unwound, Frames, Pcs, Levels,
        FrameOK, MessageLevels, Locked, Admitted
  <2>2. QED
    BY <1>1, <1>13, <2>1 DEF InvokeEmptyCallback, CallbackThrows, AllocFails, Quiet
<1>14. CASE Close(t)
  <2> DEFINE g == [f EXCEPT !.pc = "unlock"]
  <2>1. g \in Frames /\ FrameOK(g) /\ Locked(g) /\ Locked(f) /\ ~Admitted(g)
    BY <1>2, <1>14 DEF Close, At, Frames, Pcs, Levels, FrameOK, MessageLevels, Locked, Admitted
  <2>2. QED
    BY <1>1, <1>14, <2>1 DEF Close, Goto, Quiet
<1>15. QED
  BY <1>3, <1>4, <1>5, <1>6, <1>7, <1>8, <1>9, <1>10, <1>11, <1>12, <1>13, <1>14
----------------------------------------------------------------------------
(* A call, made by the thread's own code or by a callback, puts one frame  *)
(* on top of the stack.                                                    *)
LEMMA PushFrame ==
    ASSUME CallsTypeOK, NEW t \in Threads, Push(t)
    PROVE  LET f == NewFrame(calls[t] + 1) IN
           /\ f \in Frames /\ FrameOK(f) /\ ~Admitted(f) /\ ~Locked(f)
           /\ calls' \in [Threads -> 0..MaxCalls]
           /\ depth' \in [Threads -> 0..MaxDepth]
           /\ frame' \in [Threads -> [1..MaxDepth -> Frames]]
           /\ depth[t] + 1 \in 1..MaxDepth
           /\ frame'[t][depth[t] + 1] = f
           /\ \A u \in Threads, e \in 1..MaxDepth :
                 <<u, e>> # <<t, depth[t] + 1>> => frame'[u][e] = frame[u][e]
           /\ depth'[t] = depth[t] + 1
           /\ \A u \in Threads : u # t => depth'[u] = depth[u]
<1> DEFINE f == NewFrame(calls[t] + 1)
<1>1. calls[t] + 1 \in 1..MaxCalls /\ depth[t] + 1 \in 1..MaxDepth
  BY BoundsAssumption DEF CallsTypeOK, Push
<1>2. calls[t] + 1 \in 0..MaxCalls /\ calls[t] + 1 # 0 /\ 0 \in 0..Parts
  BY <1>1, PartsAssumption
<1>3. f \in Frames
  BY <1>2 DEF NewFrame, Frames, Pcs, Levels
<1>4. FrameOK(f) /\ ~Admitted(f) /\ ~Locked(f)
  BY <1>2 DEF NewFrame, FrameOK, Admitted, Locked
<1>5. calls' \in [Threads -> 0..MaxCalls] /\ depth' \in [Threads -> 0..MaxDepth]
  BY <1>1 DEF CallsTypeOK, Push
<1>6. depth'[t] = depth[t] + 1 /\ \A u \in Threads : u # t => depth'[u] = depth[u]
  BY DEF CallsTypeOK, Push
<1>7. frame' = [frame EXCEPT ![t][depth[t] + 1] = f]
  BY DEF Push
<1>8. /\ frame' \in [Threads -> [1..MaxDepth -> Frames]]
      /\ frame'[t][depth[t] + 1] = f
      /\ \A u \in Threads, e \in 1..MaxDepth :
            <<u, e>> # <<t, depth[t] + 1>> => frame'[u][e] = frame[u][e]
  <2> HIDE DEF f
  <2> QED
    BY <1>1, <1>3, <1>7 DEF CallsTypeOK
<1>9. QED
  BY <1>1, <1>3, <1>4, <1>5, <1>6, <1>8

(* Every step of a frame keeps the variables in their types.               *)
LEMMA ProgressType ==
    ASSUME CallsTypeOK, StackOK, NEW t \in Threads, Progress(t)
    PROVE  CallsTypeOK'
<1> DEFINE f == Top(t)
<1>1. depth[t] > 0
  BY DEF Progress, Reject, Build, Open, OpenFails, WritePart, WriteFails, Inserted,
          CheckCallback, ReportToStderr, InvokeCallback, InvokeEmptyCallback,
          CallbackReturns, CallbackThrows, AllocFails, Close, At, Admit, Lock, Clear,
          Unlock, Return
<1>2. depth[t] \in 1..MaxDepth /\ f \in Frames /\ CallOf(t) \in CallIds
  BY <1>1, TopOK
<1>3. frame' \in [Threads -> [1..MaxDepth -> Frames]]
  <2>1. SUFFICES \E g \in Frames : Step(t, g)
    BY <1>1, StepFrame
  <2>2. \A pc \in Pcs : [f EXCEPT !.pc = pc] \in Frames
    BY <1>2 DEF Frames
  <2>3. CASE Admit(t) \/ Lock(t) \/ Clear(t) \/ Unlock(t)
    BY <2>2, <2>3 DEF Admit, Lock, Clear, Unlock, Goto, Pcs
  <2>4. CASE Return(t)
    <3>1. NoFrame \in Frames
      BY PartsAssumption, BoundsAssumption DEF NoFrame, Frames, Pcs, Levels
    <3>2. QED
      BY <2>4, <3>1 DEF Return
  <2>5. CASE Quiet(t)
    BY <2>5 DEF Quiet
  <2>6. QED
    BY <2>3, <2>4, <2>5, QuietSteps DEF Progress
<1>4. told' \subseteq [call : CallIds, level : Levels]
  <2>1. \/ told' = told
        \/ told' = told \cup {[call |-> CallOf(t), level |-> f.level]}
        \/ told' = told \cup {[call |-> CallOf(t), level |-> "THROWN"]}
    BY DEF Progress, Reject, Build, Open, OpenFails, WritePart, WriteFails, Inserted,
            CheckCallback, ReportToStderr, InvokeCallback, InvokeEmptyCallback,
            CallbackReturns, CallbackThrows, AllocFails, Close, Admit, Lock, Clear,
            Unlock, Return, Report
  <2>2. f.level \in Levels /\ "THROWN" \in Levels
    BY <1>2 DEF Frames, Levels
  <2>3. QED
    BY <1>2, <2>1, <2>2 DEF CallsTypeOK
<1>5. /\ loggingInProgress' \in BOOLEAN
      /\ logMutex' \in Threads \cup {NoThread}
      /\ logCallback_' \in BOOLEAN
      /\ calls' \in [Threads -> 0..MaxCalls]
  BY DEF CallsTypeOK, Progress, Reject, Build, Open, OpenFails, WritePart, WriteFails,
          Inserted, CheckCallback, ReportToStderr, InvokeCallback, InvokeEmptyCallback,
          CallbackReturns, CallbackThrows, AllocFails, Close, Admit, Lock, Clear, Unlock,
          Return
<1>6. depth' \in [Threads -> 0..MaxDepth]
  <2>1. CASE Return(t)
    BY <1>2, <2>1, BoundsAssumption DEF Return, CallsTypeOK
  <2>2. CASE ~Return(t)
    BY <2>2 DEF CallsTypeOK, Progress, Reject, Build, Open, OpenFails, WritePart,
            WriteFails, Inserted, CheckCallback, ReportToStderr, InvokeCallback,
            InvokeEmptyCallback, CallbackReturns, CallbackThrows, AllocFails, Close, Admit,
            Lock, Clear, Unlock
  <2>3. QED
    BY <2>1, <2>2
<1>7. QED
  BY <1>3, <1>4, <1>5, <1>6 DEF CallsTypeOK
----------------------------------------------------------------------------
(* The shape of the stacks, and who is admitted and who holds the mutex.   *)
Exclusion == StackOK /\ OneAdmitted /\ MutexFollowsScope /\ OneHolder

(* A frame that is replaced by a good one leaves a good stack.             *)
LEMMA StackStep ==
    ASSUME CallsTypeOK, StackOK, NEW t \in Threads, depth[t] > 0, UNCHANGED depth,
           NEW g \in Frames, FrameOK(g), Step(t, g)
    PROVE  StackOK'
<1>1. SUFFICES ASSUME NEW u \in Threads, NEW d \in 1..MaxDepth
               PROVE  /\ d <= depth[u] => FrameOK(frame'[u][d])
                      /\ d < depth[u] => frame'[u][d].pc \in Left
                      /\ d > depth[u] => frame'[u][d] = NoFrame
  BY DEF StackOK
<1>2. depth[t] \in 1..MaxDepth /\ frame'[t][depth[t]] = g
  BY StepFrame
<1>3. CASE <<u, d>> = <<t, depth[t]>>
  BY <1>2, <1>3
<1>4. CASE <<u, d>> # <<t, depth[t]>>
  <2>1. frame'[u][d] = frame[u][d]
    BY <1>4, StepFrame
  <2>2. QED
    BY <2>1 DEF StackOK
<1>5. QED
  BY <1>3, <1>4

(* Quiet steps keep flag and mutex where they are.                         *)
LEMMA QuietKeeps ==
    ASSUME IInv, NEW t \in Threads, Quiet(t)
    PROVE  Exclusion'
<1>1. PICK g \in Frames : /\ FrameOK(g) /\ Step(t, g)
                          /\ Admitted(g) => Admitted(Top(t))
                          /\ Locked(g) <=> Locked(Top(t))
  BY DEF Quiet
<1>2. depth[t] > 0 /\ UNCHANGED <<loggingInProgress, logMutex, depth>>
  BY DEF Quiet
<1>3. /\ depth[t] \in 1..MaxDepth
      /\ frame'[t][depth[t]] = g
      /\ \A u \in Threads, e \in 1..MaxDepth :
            <<u, e>> # <<t, depth[t]>> => frame'[u][e] = frame[u][e]
  BY <1>1, <1>2, StepFrame DEF IInv
<1>4. StackOK'
  BY <1>1, <1>2, StackStep DEF IInv
<1>5. \A u \in Threads, e \in 1..MaxDepth :
         /\ Inside(u, e)' => Inside(u, e)
         /\ Holding(u, e)' <=> Holding(u, e)
  BY <1>1, <1>3 DEF Inside, Holding, Top
<1>6. OneAdmitted' /\ MutexFollowsScope' /\ OneHolder'
  BY <1>2, <1>5 DEF IInv, OneAdmitted, MutexFollowsScope, OneHolder
<1>7. QED
  BY <1>4, <1>6 DEF Exclusion

(* A new frame holds nothing yet.                                          *)
LEMMA PushKeeps ==
    ASSUME IInv, NEW t \in Threads, Push(t), UNCHANGED <<loggingInProgress, logMutex>>,
           depth[t] > 0 => Top(t).pc \in Left
    PROVE  Exclusion'
<1> DEFINE f == NewFrame(calls[t] + 1)
<1>1. /\ FrameOK(f) /\ ~Admitted(f) /\ ~Locked(f)
      /\ depth[t] + 1 \in 1..MaxDepth
      /\ frame'[t][depth[t] + 1] = f
      /\ \A u \in Threads, e \in 1..MaxDepth :
            <<u, e>> # <<t, depth[t] + 1>> => frame'[u][e] = frame[u][e]
      /\ depth'[t] = depth[t] + 1
      /\ \A u \in Threads : u # t => depth'[u] = depth[u]
  BY PushFrame DEF IInv
<1> HIDE DEF f
<1>2. frame[t][depth[t] + 1] = NoFrame
  BY <1>1 DEF IInv, StackOK, CallsTypeOK
<1>3. ~Admitted(NoFrame) /\ ~Locked(NoFrame)
  BY DEF NoFrame, Admitted, Locked
<1>4. \A u \in Threads, e \in 1..MaxDepth :
         /\ Inside(u, e)' <=> Inside(u, e)
         /\ Holding(u, e)' <=> Holding(u, e)
  BY <1>1, <1>2, <1>3 DEF Inside, Holding
<1>5. OneAdmitted' /\ MutexFollowsScope' /\ OneHolder'
  BY <1>4 DEF IInv, OneAdmitted, MutexFollowsScope, OneHolder
<1>6. StackOK'
  <2>1. SUFFICES ASSUME NEW u \in Threads, NEW d \in 1..MaxDepth
                 PROVE  /\ d <= depth'[u] => FrameOK(frame'[u][d])
                        /\ d < depth'[u] => frame'[u][d].pc \in Left
                        /\ d > depth'[u] => frame'[u][d] = NoFrame
    BY DEF StackOK
  <2>2. CASE u # t
    BY <1>1, <2>2 DEF IInv, StackOK
  <2>3. CASE u = t /\ d = depth[t] + 1
    BY <1>1, <2>3 DEF IInv, CallsTypeOK
  <2>4. CASE u = t /\ d # depth[t] + 1
    <3>1. depth[t] \in 0..MaxDepth /\ frame'[u][d] = frame[u][d]
      BY <1>1, <2>4 DEF IInv, CallsTypeOK
    <3>2. d = depth[t] => frame[u][d].pc \in Left
      BY <2>4, <3>1 DEF Top
    <3>3. QED
      BY <1>1, <2>4, <3>1, <3>2 DEF IInv, StackOK
  <2>5. QED
    BY <2>2, <2>3, <2>4
<1>7. QED
  BY <1>5, <1>6 DEF Exclusion

(* The other four steps of a frame, one lemma each.                        *)
LEMMA AdmitKeeps ==
    ASSUME IInv, NEW t \in Threads, Admit(t)
    PROVE  Exclusion'
<1> DEFINE g == [Top(t) EXCEPT !.pc = "lock"]
<1>1. depth[t] > 0 /\ Top(t) \in Frames /\ FrameOK(Top(t)) /\ Top(t).pc = "exchange"
  BY TopOK DEF IInv, Admit, At
<1>2. g \in Frames /\ FrameOK(g) /\ Step(t, g) /\ ~Locked(g) /\ ~Locked(Top(t))
  BY <1>1 DEF Admit, Goto, Frames, Pcs, FrameOK, Locked
<1>3. /\ depth[t] \in 1..MaxDepth
      /\ frame'[t][depth[t]] = g
      /\ \A u \in Threads, e \in 1..MaxDepth :
            <<u, e>> # <<t, depth[t]>> => frame'[u][e] = frame[u][e]
  BY <1>1, <1>2, StepFrame DEF IInv
<1>4. StackOK'
  BY <1>1, <1>2, StackStep DEF IInv, Admit
<1>5. \A u \in Threads, e \in 1..MaxDepth : ~Inside(u, e)
  BY DEF IInv, OneAdmitted, Admit
<1>6. \A u \in Threads, e \in 1..MaxDepth : Inside(u, e)' => <<u, e>> = <<t, depth[t]>>
  BY <1>3, <1>5 DEF Inside
<1>7. OneAdmitted'
  BY <1>3, <1>6 DEF OneAdmitted, Admit
<1>8. \A u \in Threads, e \in 1..MaxDepth : Holding(u, e)' <=> Holding(u, e)
  BY <1>2, <1>3 DEF Holding, Top
<1>9. MutexFollowsScope' /\ OneHolder'
  BY <1>8 DEF IInv, MutexFollowsScope, OneHolder, Admit
<1>10. QED
  BY <1>4, <1>7, <1>9 DEF Exclusion

(* The frame that takes the mutex is the one that was admitted.            *)
LEMMA LockKeeps ==
    ASSUME IInv, NEW t \in Threads, Lock(t)
    PROVE  Exclusion'
<1> DEFINE g == [Top(t) EXCEPT !.pc = "build"]
<1>1. depth[t] > 0 /\ Top(t) \in Frames /\ FrameOK(Top(t)) /\ Top(t).pc = "lock"
  BY TopOK DEF IInv, Lock, At
<1>2. g \in Frames /\ FrameOK(g) /\ Step(t, g) /\ Locked(g) /\ Admitted(Top(t))
  BY <1>1 DEF Lock, Goto, Frames, Pcs, FrameOK, Locked, Admitted
<1>3. /\ depth[t] \in 1..MaxDepth
      /\ frame'[t][depth[t]] = g
      /\ \A u \in Threads, e \in 1..MaxDepth :
            <<u, e>> # <<t, depth[t]>> => frame'[u][e] = frame[u][e]
  BY <1>1, <1>2, StepFrame DEF IInv
<1>4. StackOK'
  BY <1>1, <1>2, StackStep DEF IInv, Lock
<1>5. \A u \in Threads, e \in 1..MaxDepth : Inside(u, e)' => Inside(u, e)
  BY <1>2, <1>3 DEF Inside, Top
<1>6. OneAdmitted'
  BY <1>5 DEF IInv, OneAdmitted, Lock
<1>7. \A u \in Threads, e \in 1..MaxDepth : ~Holding(u, e)
  BY ThreadsAssumption DEF IInv, MutexFollowsScope, Lock
<1>8. \A u \in Threads, e \in 1..MaxDepth : Holding(u, e)' <=> <<u, e>> = <<t, depth[t]>>
  BY <1>2, <1>3, <1>7 DEF Holding
<1>9. logMutex' = t
  BY DEF Lock
<1>10. MutexFollowsScope' /\ OneHolder'
  BY <1>3, <1>8, <1>9 DEF MutexFollowsScope, OneHolder
<1>11. QED
  BY <1>4, <1>6, <1>10 DEF Exclusion

(* The flag is cleared by the frame that was admitted.                     *)
LEMMA ClearKeeps ==
    ASSUME IInv, NEW t \in Threads, Clear(t)
    PROVE  Exclusion'
<1> DEFINE g == [Top(t) EXCEPT !.pc = "close"]
<1>1. depth[t] > 0 /\ Top(t) \in Frames /\ FrameOK(Top(t)) /\ Top(t).pc = "clear"
  BY TopOK DEF IInv, Clear, At
<1>2. /\ g \in Frames /\ FrameOK(g) /\ Step(t, g)
      /\ Locked(g) /\ Locked(Top(t)) /\ ~Admitted(g) /\ Admitted(Top(t))
  BY <1>1 DEF Clear, Goto, Frames, Pcs, FrameOK, Locked, Admitted
<1>3. /\ depth[t] \in 1..MaxDepth
      /\ frame'[t][depth[t]] = g
      /\ \A u \in Threads, e \in 1..MaxDepth :
            <<u, e>> # <<t, depth[t]>> => frame'[u][e] = frame[u][e]
  BY <1>1, <1>2, StepFrame DEF IInv
<1>4. StackOK'
  BY <1>1, <1>2, StackStep DEF IInv, Clear
<1>5. \A u \in Threads, e \in 1..MaxDepth : Inside(u, e) => <<u, e>> = <<t, depth[t]>>
  BY <1>2, <1>3 DEF IInv, OneAdmitted, Inside, Top
<1>6. \A u \in Threads, e \in 1..MaxDepth : ~Inside(u, e)'
  BY <1>2, <1>3, <1>5 DEF Inside
<1>7. \A u \in Threads, e \in 1..MaxDepth : Holding(u, e)' <=> Holding(u, e)
  BY <1>2, <1>3 DEF Holding, Top
<1>8. OneAdmitted'
  BY <1>6 DEF OneAdmitted
<1>9. MutexFollowsScope' /\ OneHolder'
  BY <1>7 DEF IInv, MutexFollowsScope, OneHolder, Clear
<1>10. QED
  BY <1>4, <1>8, <1>9 DEF Exclusion

(* The mutex is released by the frame that held it.                        *)
LEMMA UnlockKeeps ==
    ASSUME IInv, NEW t \in Threads, Unlock(t)
    PROVE  Exclusion'
<1> DEFINE g == [Top(t) EXCEPT !.pc = "return"]
<1>1. depth[t] > 0 /\ Top(t) \in Frames /\ FrameOK(Top(t)) /\ Top(t).pc = "unlock"
  BY TopOK DEF IInv, Unlock, At
<1>2. /\ g \in Frames /\ FrameOK(g) /\ Step(t, g)
      /\ ~Locked(g) /\ Locked(Top(t)) /\ ~Admitted(g)
  BY <1>1 DEF Unlock, Goto, Frames, Pcs, FrameOK, Locked, Admitted
<1>3. /\ depth[t] \in 1..MaxDepth
      /\ frame'[t][depth[t]] = g
      /\ \A u \in Threads, e \in 1..MaxDepth :
            <<u, e>> # <<t, depth[t]>> => frame'[u][e] = frame[u][e]
  BY <1>1, <1>2, StepFrame DEF IInv
<1>4. StackOK'
  BY <1>1, <1>2, StackStep DEF IInv, Unlock
<1>5. \A u \in Threads, e \in 1..MaxDepth : Inside(u, e)' => Inside(u, e)
  BY <1>2, <1>3 DEF Inside
<1>6. OneAdmitted'
  BY <1>5 DEF IInv, OneAdmitted, Unlock
<1>7. \A u \in Threads, e \in 1..MaxDepth : Holding(u, e) => <<u, e>> = <<t, depth[t]>>
  <2>1. Holding(t, depth[t])
    BY <1>2 DEF Holding, Top
  <2>2. logMutex = t
    BY <1>3, <2>1 DEF IInv, MutexFollowsScope
  <2>3. QED
    BY <1>3, <2>1, <2>2 DEF IInv, MutexFollowsScope, OneHolder
<1>8. \A u \in Threads, e \in 1..MaxDepth : ~Holding(u, e)'
  BY <1>2, <1>3, <1>7 DEF Holding
<1>9. MutexFollowsScope' /\ OneHolder'
  BY <1>8, ThreadsAssumption DEF MutexFollowsScope, OneHolder, Unlock
<1>10. QED
  BY <1>4, <1>6, <1>9 DEF Exclusion

(* A frame that goes holds nothing.                                        *)
LEMMA ReturnKeeps ==
    ASSUME IInv, NEW t \in Threads, Return(t)
    PROVE  Exclusion'
<1>1. depth[t] > 0 /\ Top(t).pc = "return" /\ UNCHANGED <<loggingInProgress, logMutex>>
  BY DEF Return, At
<1>2. /\ NoFrame \in Frames
      /\ ~Admitted(NoFrame) /\ ~Locked(NoFrame)
      /\ ~Admitted(Top(t)) /\ ~Locked(Top(t))
  BY <1>1, PartsAssumption, BoundsAssumption
  DEF NoFrame, Frames, Pcs, Levels, Admitted, Locked
<1>3. /\ depth[t] \in 1..MaxDepth
      /\ frame'[t][depth[t]] = NoFrame
      /\ \A u \in Threads, e \in 1..MaxDepth :
            <<u, e>> # <<t, depth[t]>> => frame'[u][e] = frame[u][e]
  BY <1>1, <1>2, StepFrame DEF IInv, Return
<1>4. \A u \in Threads, e \in 1..MaxDepth :
         /\ Inside(u, e)' <=> Inside(u, e)
         /\ Holding(u, e)' <=> Holding(u, e)
  BY <1>2, <1>3 DEF Inside, Holding, Top
<1>5. OneAdmitted' /\ MutexFollowsScope' /\ OneHolder'
  BY <1>1, <1>4 DEF IInv, OneAdmitted, MutexFollowsScope, OneHolder
<1>6. depth'[t] = depth[t] - 1 /\ \A u \in Threads : u # t => depth'[u] = depth[u]
  BY DEF IInv, CallsTypeOK, Return
<1>7. StackOK'
  <2>1. SUFFICES ASSUME NEW u \in Threads, NEW d \in 1..MaxDepth
                 PROVE  /\ d <= depth'[u] => FrameOK(frame'[u][d])
                        /\ d < depth'[u] => frame'[u][d].pc \in Left
                        /\ d > depth'[u] => frame'[u][d] = NoFrame
    BY DEF StackOK
  <2>2. CASE u # t
    BY <1>3, <1>6, <2>2 DEF IInv, StackOK
  <2>3. CASE u = t /\ d = depth[t]
    BY <1>3, <1>6, <2>3
  <2>4. CASE u = t /\ d # depth[t]
    BY <1>3, <1>6, <2>4 DEF IInv, StackOK
  <2>5. QED
    BY <2>2, <2>3, <2>4
<1>8. QED
  BY <1>5, <1>7 DEF Exclusion
----------------------------------------------------------------------------
(* No frame is in use.                                                     *)
LEMMA InitIInv == Init => IInv
<1>1. SUFFICES ASSUME Init PROVE IInv
  OBVIOUS
<1>2. NoFrame \in Frames /\ ~Admitted(NoFrame) /\ ~Locked(NoFrame)
  BY PartsAssumption, BoundsAssumption DEF NoFrame, Frames, Pcs, Levels, Admitted, Locked
<1>3. \A t \in Threads, d \in 1..MaxDepth : frame[t][d] = NoFrame /\ depth[t] = 0
  BY <1>1 DEF Init
<1>4. CallsTypeOK
  <2>1. 0 \in 0..MaxDepth /\ 0 \in 0..MaxCalls /\ logCallback_ \in BOOLEAN
    BY <1>1, BoundsAssumption, CallbackAssumption DEF Init
  <2>2. frame \in [Threads -> [1..MaxDepth -> Frames]]
    BY <1>1, <1>2 DEF Init
  <2>3. QED
    BY <1>1, <2>1, <2>2 DEF Init, CallsTypeOK
<1>5. StackOK
  BY <1>3 DEF StackOK
<1>6. OneAdmitted /\ MutexFollowsScope /\ OneHolder
  BY <1>1, <1>2, <1>3, ThreadsAssumption
  DEF Init, OneAdmitted, MutexFollowsScope, OneHolder, Inside, Holding
<1>7. QED
  BY <1>4, <1>5, <1>6 DEF IInv

(* The three kinds of step: of a frame, a new call, and one that leaves    *)
(* every frame alone.                                                      *)
LEMMA ProgressInv ==
    ASSUME IInv, NEW t \in Threads, Progress(t)
    PROVE  IInv'
<1>1. CallsTypeOK'
  BY ProgressType DEF IInv
<1>2. CASE Quiet(t)
  BY <1>1, <1>2, QuietKeeps DEF IInv, Exclusion
<1>3. CASE Admit(t) \/ Lock(t) \/ Clear(t) \/ Unlock(t) \/ Return(t)
  BY <1>1, <1>3, AdmitKeeps, LockKeeps, ClearKeeps, UnlockKeeps, ReturnKeeps
  DEF IInv, Exclusion
<1>4. QED
  BY <1>2, <1>3, QuietSteps DEF Progress, IInv

(* A call keeps all of IInv, also on a stack that was not unwound.         *)
LEMMA PushInv ==
    ASSUME IInv, NEW t \in Threads, Push(t),
           UNCHANGED <<loggingInProgress, logMutex, logCallback_, told>>,
           depth[t] > 0 => Top(t).pc \in Left
    PROVE  IInv'
<1>1. Exclusion'
  BY PushKeeps
<1>2. CallsTypeOK'
  BY PushFrame DEF IInv, CallsTypeOK
<1>3. QED
  BY <1>1, <1>2 DEF IInv, Exclusion

(* So does a step that touches no frame.                                   *)
LEMMA FramesAloneInv ==
    ASSUME IInv, UNCHANGED <<loggingInProgress, logMutex, depth, frame, calls, told>>,
           logCallback_' \in BOOLEAN
    PROVE  IInv'
BY DEF IInv, CallsTypeOK, StackOK, OneAdmitted, MutexFollowsScope, OneHolder, Inside, Holding

(* All steps together.                                                     *)
LEMMA NextIInv == IInv /\ [Next]_vars => IInv'
<1>1. SUFFICES ASSUME IInv, [Next]_vars PROVE IInv'
  OBVIOUS
<1>2. ASSUME NEW t \in Threads, Call(t) PROVE IInv'
  BY <1>1, <1>2, PushInv DEF Call
<1>3. ASSUME NEW t \in Threads, CallbackRelogs(t) PROVE IInv'
  BY <1>1, <1>3, PushInv DEF CallbackRelogs, At, Left
<1>4. ASSUME NEW t \in Threads, Progress(t) PROVE IInv'
  BY <1>1, <1>4, ProgressInv
<1>5. CASE SetLogCallback \/ UNCHANGED vars
  <2>1. logCallback_' \in BOOLEAN
    BY <1>1, <1>5 DEF SetLogCallback, vars, IInv, CallsTypeOK
  <2>2. QED
    BY <1>1, <1>5, <2>1, FramesAloneInv DEF SetLogCallback, vars
<1>6. QED
  BY <1>1, <1>2, <1>3, <1>4, <1>5 DEF Next

(* The inductive invariant holds in every reachable state.                 *)
THEOREM Invariance == Spec => []IInv
<1>1. QED
  BY InitIInv, NextIInv, PTL DEF Spec
----------------------------------------------------------------------------
(* A step of a frame appends the next part of its own call or nothing.     *)
EntryParts == [id : CallIds, part : 1..Parts]

(* Only WritePart appends to the file.                                     *)
LEMMA PartAppended ==
    ASSUME IInv, NEW t \in Threads, Progress(t)
    PROVE  \/ log' = log /\ ~WritePart(t)
           \/ WritePart(t) /\ log' = Append(log, NextPart(t)) /\ NextPart(t) \in EntryParts
<1>1. CASE WritePart(t)
  <2>1. /\ depth[t] \in 1..MaxDepth /\ Top(t) \in Frames /\ CallOf(t) \in CallIds
        /\ Top(t).unwritten > 0
    BY <1>1, TopOK DEF IInv, WritePart, At
  <2>2. Parts + 1 - Top(t).unwritten \in 1..Parts
    BY <2>1, PartsAssumption DEF Frames
  <2>3. NextPart(t) \in EntryParts
    BY <2>1, <2>2 DEF NextPart, EntryParts
  <2>4. QED
    BY <1>1, <2>3 DEF WritePart
<1>2. CASE ~WritePart(t)
  BY <1>2
  DEF Progress, Reject, Build, Open, OpenFails, WriteFails, Inserted,
      CheckCallback, ReportToStderr, InvokeCallback, InvokeEmptyCallback, CallbackReturns,
      CallbackThrows, AllocFails, Close, Admit, Lock, Clear, Unlock, Return
<1>3. QED
  BY <1>1, <1>2

(* All variables keep their types.                                         *)
THEOREM TypeCorrect == Spec => []TypeOK
<1> DEFINE LogTyped == log \in Seq(EntryParts)
<1>1. Init => LogTyped
  BY DEF Init
<1>2. IInv /\ LogTyped /\ [Next]_vars => LogTyped'
  <2>1. SUFFICES ASSUME IInv, LogTyped, [Next]_vars PROVE LogTyped'
    OBVIOUS
  <2>2. ASSUME NEW t \in Threads, Progress(t) PROVE LogTyped'
    BY <2>1, <2>2, PartAppended
  <2>3. ASSUME NEW t \in Threads, Call(t) \/ CallbackRelogs(t) PROVE LogTyped'
    BY <2>1, <2>3 DEF Call, CallbackRelogs
  <2>4. CASE SetLogCallback \/ UNCHANGED vars
    BY <2>1, <2>4 DEF SetLogCallback, vars
  <2>5. QED
    BY <2>1, <2>2, <2>3, <2>4 DEF Next
<1>3. IInv /\ LogTyped => TypeOK
  BY DEF IInv, CallsTypeOK, TypeOK, EntryParts
<1>4. QED
  BY <1>1, <1>2, <1>3, Invariance, PTL DEF Spec

(* The flag admits one call at a time in the whole process, from its       *)
(* exchange to its store of false, whatever callbacks do.                  *)
THEOREM FlagIsExclusive == Spec => []OneAdmitted
<1>1. IInv => OneAdmitted
  BY DEF IInv
<1>2. QED
  BY <1>1, Invariance, PTL

(* logMutex is owned by exactly the thread with a live lock_guard, also    *)
(* after exceptions.                                                       *)
THEOREM MutexIsScoped == Spec => []MutexFollowsScope
<1>1. IInv => MutexFollowsScope
  BY DEF IInv
<1>2. QED
  BY <1>1, Invariance, PTL

(* A nested call never waits for the mutex that its own thread holds: the  *)
(* outer call would be inside its callback, hence admitted as well.        *)
LEMMA NotItsOwnMutex == IInv => NoSelfDeadlock
<1>1. SUFFICES ASSUME IInv, NEW t \in Threads, At(t, "lock"), logMutex = t PROVE FALSE
  BY DEF NoSelfDeadlock
<1>2. depth[t] \in 1..MaxDepth /\ FrameOK(Top(t)) /\ Top(t).pc = "lock"
  BY <1>1, TopOK DEF IInv, At
<1>3. Inside(t, depth[t]) /\ ~Holding(t, depth[t])
  BY <1>2 DEF Inside, Holding, Admitted, Locked, FrameOK, Top
<1>4. PICK d \in 1..MaxDepth : Holding(t, d)
  BY <1>1 DEF IInv, MutexFollowsScope
<1>5. d < depth[t]
  <2>1. d # depth[t]
    BY <1>3, <1>4
  <2>2. ~(d > depth[t])
    BY <1>1, <1>4 DEF IInv, StackOK, Holding, Locked, NoFrame
  <2>3. QED
    BY <1>2, <2>1, <2>2
<1>6. Inside(t, d)
  <2>1. frame[t][d].pc \in Left
    BY <1>1, <1>5 DEF IInv, StackOK
  <2>2. QED
    BY <1>4, <2>1 DEF Inside, Holding, Admitted, Locked, Left
<1>7. QED
  BY <1>1, <1>2, <1>3, <1>5, <1>6 DEF IInv, OneAdmitted

(* So in every reachable state.                                            *)
THEOREM NeverSelfDeadlocked == Spec => []NoSelfDeadlock
<1>1. QED
  BY NotItsOwnMutex, Invariance, PTL

(* Only the owner of the mutex appends to the file, the flush in the       *)
(* destructor of the stream included.                                      *)
THEOREM WritesAreLocked == Spec => AppendUnderMutex
<1> DEFINE Locked1 == log' # log =>
          \E t \in Threads :
              /\ logMutex = t /\ logMutex' = t
              /\ \E p \in [id : {t} \X (1..MaxCalls), part : 1..Parts] : log' = Append(log, p)
<1>1. ASSUME IInv, [Next]_vars PROVE [Locked1]_vars
  <2>1. SUFFICES ASSUME log' # log PROVE Locked1
    OBVIOUS
  <2>2. PICK t \in Threads : WritePart(t)
    BY <1>1, <2>1
    DEF Next, vars, Progress, Reject, Build, Open, OpenFails, WriteFails, Inserted,
        CheckCallback, ReportToStderr, InvokeCallback, InvokeEmptyCallback, CallbackReturns,
        CallbackThrows, AllocFails, Close, Admit, Lock, Clear, Unlock, Return, Call,
        CallbackRelogs, SetLogCallback
  <2>3. depth[t] \in 1..MaxDepth /\ Top(t) \in Frames /\ FrameOK(Top(t)) /\ CallOf(t) \in CallIds
    BY <1>1, <2>2, TopOK DEF IInv, WritePart, At
  <2>4. logMutex = t /\ logMutex' = t
    <3>1. Locked(Top(t))
      BY <2>2, <2>3 DEF WritePart, At, FrameOK, Locked, MessageLevels
    <3>2. QED
      BY <1>1, <2>2, <2>3, <3>1 DEF IInv, MutexFollowsScope, Holding, Top, WritePart
  <2>5. NextPart(t) \in [id : {t} \X (1..MaxCalls), part : 1..Parts]
    <3>1. CallOf(t) \in {t} \X (1..MaxCalls)
      BY <2>3 DEF CallOf, CallIds
    <3>2. Parts + 1 - Top(t).unwritten \in 1..Parts
      BY <2>2, <2>3, PartsAssumption DEF WritePart, Frames
    <3>3. QED
      BY <3>1, <3>2 DEF NextPart
  <2>6. QED
    BY <2>2, <2>4, <2>5 DEF WritePart
<1>2. QED
  BY <1>1, Invariance, PTL DEF Spec, AppendUnderMutex
============================================================================
