-------------------------- MODULE StacktraceProofs --------------------------
(***************************************************************************)
(* Proofs about Stacktrace, for every configuration of the build, every    *)
(* size of the buffer and every depth of the call stack.                   *)
(***************************************************************************)
EXTENDS Stacktrace, SequenceTheorems, WellFoundedInduction, TLAPS

(* The smaller of two numbers.                                             *)
LEMMA MinOfTwo ==
    ASSUME NEW a \in Nat, NEW b \in Nat
    PROVE  Min({a, b}) \in {a, b} /\ Min({a, b}) <= a /\ Min({a, b}) <= b
<1>1. \E x \in {a, b} : \A y \in {a, b} : x =< y
  OBVIOUS
<1>2. QED
  BY <1>1 DEF Min
----------------------------------------------------------------------------
(* What CMake lists and what the #if lines leave in fit together: the      *)
(* macros tell which back end is there, and there is one.                  *)
Builds == {Build(c) : c \in Configurations}

(* Each system and option leaves one definition of CaptureImpl.            *)
LEMMA OneFile ==
    ASSUME NEW c \in Configurations
    PROVE  /\ HasBoost(c) => Build(c).captureImpls = {"Stacktrace.cpp"}
           /\ ~HasBoost(c) /\ c.system = "Linux" =>
                 Build(c).captureImpls = {"StacktraceLinuxNative.cpp"}
           /\ ~HasBoost(c) /\ c.system = "Darwin" =>
                 Build(c).captureImpls = {"StacktraceMacNative.cpp"}
           /\ ~HasBoost(c) /\ c.system = "other" =>
                 Build(c).captureImpls = {"StacktraceFallback.cpp"}
<1>1. c.system \in {"Linux", "Darwin", "other"}
  BY DEF Configurations
<1>2. /\ "HAS_BOOST" \in Defines(c) <=> HasBoost(c)
      /\ "PLATFORM_LINUX" \in Defines(c) <=> c.system = "Linux"
      /\ "PLATFORM_MAC" \in Defines(c) <=> c.system = "Darwin"
  BY <1>1 DEF Defines
<1>3. Build(c).captureImpls = {file \in Sources(c) : Compiles(file, Defines(c))}
  BY DEF Build
<1>4. \A file \in Sources(c) :
         Compiles(file, Defines(c)) <=>
            \/ file = "Stacktrace.cpp" /\ HasBoost(c)
            \/ file = "StacktraceLinuxNative.cpp" /\ c.system = "Linux" /\ ~HasBoost(c)
            \/ file = "StacktraceMacNative.cpp" /\ c.system = "Darwin" /\ ~HasBoost(c)
            \/ file = "StacktraceFallback.cpp" /\ c.system = "other" /\ ~HasBoost(c)
  <2>1. "HAS_BOOST" \notin Defines(c) /\ "PLATFORM_LINUX" \notin Defines(c)
        /\ "PLATFORM_MAC" \notin Defines(c) <=>
           Defines(c) \cap {"HAS_BOOST", "PLATFORM_LINUX", "PLATFORM_MAC"} = {}
    OBVIOUS
  <2>2. \A file \in Sources(c) :
           file \in {"Stacktrace.cpp", "StacktraceLinuxNative.cpp", "StacktraceMacNative.cpp",
                     "StacktraceFallback.cpp"}
    BY DEF Sources
  <2>3. QED
    BY <1>1, <1>2, <2>1, <2>2 DEF Compiles
<1>5. \A file : file \in Sources(c) <=>
         \/ file = "Stacktrace.cpp"
         \/ file = "StacktraceLinuxNative.cpp" /\ c.system = "Linux" /\ ~HasBoost(c)
         \/ file = "StacktraceMacNative.cpp" /\ c.system = "Darwin" /\ ~HasBoost(c)
         \/ file = "StacktraceFallback.cpp" /\ c.system = "other"
  BY DEF Sources
<1>6. QED
  BY <1>1, <1>3, <1>4, <1>5

(* What is known of the build from the macros alone.                       *)
LEMMA BuildKnown ==
    ASSUME build \in Builds
    PROVE  /\ Boost => build.captureImpls = {"Stacktrace.cpp"} /\ ~Libunwind
           /\ ~Boost => \/ build.captureImpls = {"StacktraceLinuxNative.cpp"}
                        \/ build.captureImpls = {"StacktraceMacNative.cpp"}
                        \/ build.captureImpls = {"StacktraceFallback.cpp"}
<1>1. PICK c \in Configurations : build = Build(c)
  BY DEF Builds
<1>2. /\ Boost <=> HasBoost(c)
      /\ Libunwind => ~HasBoost(c)
  BY <1>1 DEF Boost, Libunwind, Build, Defines, HasLibunwind
<1>3. c.system \in {"Linux", "Darwin", "other"}
  BY DEF Configurations
<1>4. QED
  BY <1>1, <1>2, <1>3, OneFile
----------------------------------------------------------------------------
(* The bounds of the capture loop, for the build at hand.                  *)
LEMMA LoopBounds ==
    ASSUME build \in Builds, depth \in Nat
    PROVE  /\ FirstLevel \in {1, 3} /\ (FirstLevel = 1 <=> Boost)
           /\ LastLevel \in Nat /\ LastLevel <= depth
           /\ Boost => LastLevel = depth
           /\ ~Boost => LastLevel <= BufferSize + 2
           /\ LastLevel = 0 \/ LastLevel >= depth \/ (LastLevel >= BufferSize /\ depth > BufferSize)
<1>1. BufferSize \in Nat /\ BufferSize + 2 \in Nat
  BY StacktraceAssumption
<1>2. FirstLevel \in {1, 3} /\ (FirstLevel = 1 <=> Boost)
  BY DEF FirstLevel
<1>3. CASE build.captureImpls = {"Stacktrace.cpp"}
  BY <1>1, <1>2, <1>3, BuildKnown DEF LastLevel, CapturedBy
<1>4. CASE ~Boost /\ build.captureImpls = {"StacktraceLinuxNative.cpp"}
  <2>1. LastLevel = Min({depth, BufferSize})
    BY <1>4 DEF LastLevel, CapturedBy
  <2>2. QED
    BY <1>1, <1>2, <1>4, <2>1, MinOfTwo
<1>5. CASE ~Boost /\ build.captureImpls = {"StacktraceMacNative.cpp"}
  <2>1. PICK b \in Nat : b \in {BufferSize, BufferSize + 2} /\ LastLevel = Min({depth, b})
    BY <1>1, <1>5 DEF LastLevel, CapturedBy
  <2>2. QED
    BY <1>1, <1>2, <1>5, <2>1, MinOfTwo
<1>6. CASE ~Boost /\ build.captureImpls = {"StacktraceFallback.cpp"}
  <2>1. LastLevel = 0
    BY <1>6 DEF LastLevel, CapturedBy
  <2>2. QED
    BY <1>1, <1>2, <1>6, <2>1
<1>7. QED
  BY <1>3, <1>4, <1>5, <1>6, BuildKnown
----------------------------------------------------------------------------
(* frames_ holds the levels from the first one on, one for each turn of    *)
(* the loop; once the loop has ended, all up to the last one, or nothing.  *)
TraceInv ==
    /\ build \in Builds
    /\ depth \in Nat
    /\ library \in Nat /\ LibraryMayBe(library)
    /\ pc \in {"construct", "capture", "render", "done"}
    /\ i \in Nat \ {0}
    /\ frames_ \in Seq(FrameRecords)
    /\ \A k \in DOMAIN frames_ : frames_[k].address = FirstLevel + k - 1
    /\ pc = "construct" => frames_ = <<>>
    /\ pc = "capture" => /\ i = FirstLevel + Len(frames_)
                         /\ frames_ = <<>> \/ i <= LastLevel + 1
    /\ pc \in {"render", "done"} => frames_ = <<>> \/ FirstLevel + Len(frames_) = LastLevel + 1

(* The constructor is entered.                                             *)
LEMMA InitTraceInv == TraceInit => TraceInv
<1>1. SUFFICES ASSUME TraceInit PROVE TraceInv
  OBVIOUS
<1>2. build \in Builds
  BY <1>1 DEF TraceInit, Builds
<1>3. /\ depth \in Nat /\ library \in Nat /\ LibraryMayBe(library)
  BY <1>1, StacktraceAssumption DEF TraceInit
<1>4. pc = "construct" /\ i = 1 /\ frames_ = <<>>
  BY <1>1 DEF TraceInit
<1>5. frames_ \in Seq(FrameRecords) /\ DOMAIN frames_ = {}
  BY <1>4
<1>6. QED
  BY <1>2, <1>3, <1>4, <1>5 DEF TraceInv

(* The build and the stack stay as they are.                               *)
LEMMA GivenKept ==
    ASSUME UNCHANGED given
    PROVE  /\ Boost' = Boost /\ FirstLevel' = FirstLevel /\ LastLevel' = LastLevel
           /\ \A n : LibraryMayBe(n)' <=> LibraryMayBe(n)
BY DEF given, Boost, Libunwind, FirstLevel, LastLevel, LibraryMayBe, CapturedBy

(* What a loop finds at a level is a frame record.                         *)
LEMMA FoundIsFrame ==
    ASSUME NEW n \in Nat, NEW f \in FrameFound(n)
    PROVE  f \in FrameRecords /\ f.address = n
<1>1. PICK g \in BOOLEAN : f = [address |-> n, filename |-> g, lineNumber |-> Boost /\ g]
  BY DEF FrameFound
<1>2. (Boost /\ g) \in BOOLEAN
  OBVIOUS
<1>3. QED
  BY <1>1, <1>2, Zenon DEF FrameRecords

(* One turn of the capture loop.                                           *)
LEMMA CaptureFrameKeeps ==
    ASSUME TraceInv, CaptureFrame
    PROVE  TraceInv'
<1>1. PICK f \in FrameFound(i) : frames_' = Append(frames_, f)
  BY DEF CaptureFrame
<1>2. f \in FrameRecords /\ f.address = i
  BY <1>1, FoundIsFrame DEF TraceInv
<1>3. UNCHANGED given /\ pc = "capture" /\ pc' = "capture" /\ i' = i + 1 /\ i <= LastLevel
  BY DEF CaptureFrame
<1>4. LastLevel \in Nat /\ FirstLevel \in Nat
  BY LoopBounds DEF TraceInv
<1>5. i = FirstLevel + Len(frames_) /\ frames_ \in Seq(FrameRecords) /\ i \in Nat
  BY <1>3 DEF TraceInv
<1>6. /\ frames_' \in Seq(FrameRecords) /\ Len(frames_') = Len(frames_) + 1
      /\ \A k \in DOMAIN frames_' : k \in DOMAIN frames_ \/ k = Len(frames_) + 1
      /\ \A k \in DOMAIN frames_ : frames_'[k] = frames_[k]
      /\ frames_'[Len(frames_) + 1] = f
  BY <1>1, <1>2, <1>5
<1>7. \A k \in DOMAIN frames_' : frames_'[k].address = FirstLevel + k - 1
  <2>1. SUFFICES ASSUME NEW k \in DOMAIN frames_' PROVE frames_'[k].address = FirstLevel + k - 1
    OBVIOUS
  <2>2. CASE k \in DOMAIN frames_
    BY <1>6, <2>2 DEF TraceInv
  <2>3. CASE k = Len(frames_) + 1
    <3>1. Len(frames_) \in Nat
      BY <1>5
    <3>2. FirstLevel + k - 1 = i
      BY <1>4, <1>5, <2>3, <3>1
    <3>3. QED
      BY <1>2, <1>6, <2>3, <3>2
  <2>4. QED
    BY <1>6, <2>1, <2>2, <2>3
<1>8. i' = FirstLevel + Len(frames_') /\ i' <= LastLevel + 1 /\ i' \in Nat \ {0}
  BY <1>3, <1>4, <1>5, <1>6
<1>9. QED
  BY <1>3, <1>6, <1>7, <1>8, GivenKept DEF TraceInv, given

(* One turn of the rendering loop.                                         *)
LEMMA RenderFrameKeeps ==
    ASSUME TraceInv, RenderFrame
    PROVE  TraceInv'
<1>1. /\ pc = "render" /\ pc' = "render" /\ i' = i + 1
      /\ UNCHANGED given /\ frames_' = frames_
  BY DEF RenderFrame
<1>2. i' \in Nat \ {0}
  BY <1>1 DEF TraceInv
<1>3. QED
  BY <1>1, <1>2, GivenKept DEF TraceInv, given

(* All steps together.                                                     *)
LEMMA NextTraceInv == TraceInv /\ [TraceNext]_traceVars => TraceInv'
<1>1. SUFFICES ASSUME TraceInv, [TraceNext]_traceVars PROVE TraceInv'
  OBVIOUS
<1>2. CASE Construct
  <2>1. /\ pc = "construct" /\ UNCHANGED given /\ UNCHANGED frames_
        /\ \/ pc' = "capture" /\ i' = FirstLevel
           \/ pc' = "render" /\ i' = 1
    BY <1>2 DEF Construct
  <2>2. frames_ = <<>> /\ Len(frames_) = 0
    BY <1>1, <2>1 DEF TraceInv
  <2>3. FirstLevel \in {1, 3}
    BY DEF FirstLevel
  <2>4. QED
    BY <1>1, <2>1, <2>2, <2>3, GivenKept DEF TraceInv, given
<1>3. CASE Captured
  <2>1. /\ pc = "capture" /\ i > LastLevel /\ pc' = "render" /\ i' = 1
        /\ UNCHANGED given /\ UNCHANGED frames_
    BY <1>3 DEF Captured
  <2>2. LastLevel \in Nat /\ FirstLevel \in Nat /\ Len(frames_) \in Nat
    BY <1>1, LoopBounds DEF TraceInv
  <2>3. frames_ = <<>> \/ FirstLevel + Len(frames_) = LastLevel + 1
    BY <1>1, <2>1, <2>2 DEF TraceInv
  <2>4. QED
    BY <1>1, <2>1, <2>3, GivenKept DEF TraceInv, given
<1>4. CASE Rendered
  BY <1>1, <1>4, GivenKept DEF Rendered, TraceInv, given
<1>5. CASE UNCHANGED traceVars
  <2>1. UNCHANGED given
    BY <1>5 DEF traceVars, given
  <2>2. QED
    BY <1>1, <1>5, <2>1, GivenKept DEF traceVars, TraceInv, given
<1>6. QED
  BY <1>1, <1>2, <1>3, <1>4, <1>5, CaptureFrameKeeps, RenderFrameKeeps DEF TraceNext

(* Every reachable state of the capture and of the rendering loop.         *)
THEOREM TraceInvariance == TraceSpec => []TraceInv
<1>1. QED
  BY InitTraceInv, NextTraceInv, PTL DEF TraceSpec
----------------------------------------------------------------------------
(* Whatever the system, the options and what CMake finds, one CaptureImpl  *)
(* is left to link.                                                        *)
THEOREM OneBackEndLinked == TraceSpec => []OneBackEnd
<1>1. TraceInv => OneBackEnd
  <2>1. SUFFICES ASSUME TraceInv PROVE OneBackEnd
    OBVIOUS
  <2>2. PICK file : build.captureImpls = {file}
    BY <2>1, BuildKnown DEF TraceInv
  <2>3. QED
    BY <2>2 DEF OneBackEnd
<1>2. QED
  BY <1>1, TraceInvariance, PTL

(* No native back end keeps more frames than its buffer has room for,      *)
(* libunwind's two steps ahead of the loop included.                       *)
THEOREM TraceTypeCorrect == TraceSpec => []TraceTypeOK
<1>1. TraceInv => TraceTypeOK
  <2>1. SUFFICES ASSUME TraceInv, ~Boost PROVE Len(frames_) <= BufferSize
    BY DEF TraceInv, TraceTypeOK
  <2>2. /\ FirstLevel = 3 /\ LastLevel \in Nat /\ LastLevel <= BufferSize + 2
        /\ BufferSize \in Nat /\ Len(frames_) \in Nat
    BY <2>1, LoopBounds, StacktraceAssumption DEF TraceInv
  <2>3. CASE frames_ = <<>>
    BY <2>2, <2>3
  <2>4. CASE frames_ # <<>>
    <3>1. FirstLevel + Len(frames_) <= LastLevel + 1
      BY <2>1, <2>2, <2>4 DEF TraceInv
    <3>2. QED
      BY <2>2, <3>1
  <2>5. QED
    BY <2>3, <2>4
<1>2. QED
  BY <1>1, TraceInvariance, PTL

(* A trace starts at or above the caller and has no gaps; what is missing  *)
(* are outer frames for which the buffer had no room.                      *)
THEOREM CallerIsCaptured == TraceSpec => []CallerCaptured
<1>1. TraceInv => CallerCaptured
  <2>1. SUFFICES ASSUME TraceInv, pc = "render", frames_ # <<>>, BufferSize > library
                 PROVE  /\ library + 1 \in Levels
                        /\ \A k \in DOMAIN frames_ : frames_[k].address = frames_[1].address + k - 1
                        /\ depth \notin Levels => ~Boost /\ depth > BufferSize
    BY DEF CallerCaptured
  <2>2. /\ FirstLevel \in {1, 3} /\ (FirstLevel = 1 <=> Boost)
        /\ LastLevel \in Nat /\ LastLevel <= depth /\ (Boost => LastLevel = depth)
        /\ LastLevel = 0 \/ LastLevel >= depth \/ (LastLevel >= BufferSize /\ depth > BufferSize)
    BY <2>1, LoopBounds DEF TraceInv
  <2>3. /\ Len(frames_) \in Nat \ {0} /\ DOMAIN frames_ = 1..Len(frames_)
        /\ FirstLevel + Len(frames_) = LastLevel + 1
        /\ \A k \in DOMAIN frames_ : frames_[k].address = FirstLevel + k - 1
    BY <2>1, <2>2 DEF TraceInv
  <2>4. \A n \in FirstLevel..LastLevel : n \in Levels
    <3>1. SUFFICES ASSUME NEW n \in FirstLevel..LastLevel PROVE n \in Levels
      OBVIOUS
    <3>2. n - FirstLevel + 1 \in DOMAIN frames_ /\ frames_[n - FirstLevel + 1].address = n
      BY <2>2, <2>3, <3>1
    <3>3. QED
      BY <3>2 DEF Levels
  <2>5. /\ library \in Nat /\ depth \in Nat /\ BufferSize \in Nat
        /\ library < depth /\ library >= 1 /\ (~Boost => library >= 2)
    BY <2>1, StacktraceAssumption DEF TraceInv, LibraryMayBe
  <2>6. LastLevel # 0
    BY <2>2, <2>3
  <2>7. library + 1 \in FirstLevel..LastLevel
    BY <2>1, <2>2, <2>5, <2>6
  <2>8. depth \notin Levels => ~Boost /\ depth > BufferSize
    <3>1. LastLevel >= FirstLevel
      BY <2>2, <2>3
    <3>2. LastLevel = depth => depth \in FirstLevel..LastLevel
      BY <2>2, <2>5, <3>1
    <3>3. QED
      BY <2>2, <2>4, <2>5, <2>6, <3>2
  <2>9. \A k \in DOMAIN frames_ : frames_[k].address = frames_[1].address + k - 1
    BY <2>2, <2>3
  <2>10. QED
    BY <2>4, <2>7, <2>8, <2>9
<1>2. QED
  BY <1>1, TraceInvariance, PTL

----------------------------------------------------------------------------
(* How the place of a frame is found.  A line is a sequence of tokens.     *)
Tokens == {"f", "n", "p", "d", "l", "9", ":", "?", "+", "(", ")", "_", "@", NL}

LEMMA OneToken ==
    /\ {"(", ")", ":", "_", "@", NL} \subseteq Tokens
    /\ \A t \in Tokens : <<t>> \in Seq(Tokens) /\ Len(<<t>>) = 1 /\ <<t>>[1] = t
<1>1. {"(", ")", ":", "_", "@", NL} \subseteq Tokens
  BY DEF Tokens
<1>2. \A t \in Tokens : <<t>> \in Seq(Tokens) /\ Len(<<t>>) = 1 /\ <<t>>[1] = t
  OBVIOUS
<1>3. QED
  BY <1>1, <1>2

LEMMA LeastIs ==
    ASSUME NEW S \in SUBSET Nat, NEW m \in S, \A x \in S : m <= x
    PROVE  Min(S) = m
<1>1. \A x \in S : (\A y \in S : x =< y) => x = m
  OBVIOUS
<1>2. \E x \in S : \A y \in S : x =< y
  OBVIOUS
<1>3. QED
  BY <1>1, <1>2 DEF Min

LEMMA GreatestIs ==
    ASSUME NEW S \in SUBSET Nat, NEW m \in S, \A x \in S : m >= x
    PROVE  Max(S) = m
<1>1. \A x \in S : (\A y \in S : x >= y) => x = m
  OBVIOUS
<1>2. \E x \in S : \A y \in S : x >= y
  OBVIOUS
<1>3. QED
  BY <1>1, <1>2 DEF Max

LEMMA HasGreatest ==
    ASSUME NEW S \in SUBSET Nat, S # {}, NEW n \in Nat, \A x \in S : x <= n
    PROVE  Max(S) \in S /\ \A x \in S : x <= Max(S)
<1> DEFINE T == {n - x : x \in S}
<1>1. T \subseteq Nat /\ T # {}
  <2>1. \A x \in S : n - x \in Nat
    OBVIOUS
  <2>2. PICK x \in S : TRUE
    OBVIOUS
  <2>3. n - x \in T
    OBVIOUS
  <2>4. QED
    BY <2>1, <2>3
<1>2. PICK d \in T : \A e \in T : ~(<<e, d>> \in OpToRel(<, Nat))
  BY <1>1, WFMin, NatLessThanWellFounded
<1>3. \A e \in T : ~(e < d)
  BY <1>1, <1>2 DEF OpToRel
<1>4. PICK m \in S : d = n - m
  OBVIOUS
<1>5. \A x \in S : m >= x
  <2> TAKE x \in S
  <2>1. ~(n - x < n - m)
    BY <1>3, <1>4
  <2>2. QED
    BY <2>1
<1>6. QED
  BY <1>5, GreatestIs

(* A sequence that is put together of two is taken apart again.            *)
LEMMA TwoParts ==
    ASSUME NEW u \in Seq(Tokens), NEW v \in Seq(Tokens)
    PROVE  LET s == u \o v IN
           /\ s \in Seq(Tokens)
           /\ Len(u) \in Nat /\ Len(v) \in Nat /\ Len(s) = Len(u) + Len(v)
           /\ \A k \in 1..Len(u) : s[k] = u[k]
           /\ \A k \in 1..Len(v) : s[Len(u) + k] = v[k]
           /\ SubSeq(s, 1, Len(u)) = u
           /\ SubSeq(s, Len(u) + 1, Len(s)) = v
<1> DEFINE s == u \o v
<1>1. /\ Len(u) \in Nat /\ Len(v) \in Nat
      /\ u \in [1..Len(u) -> Tokens] /\ v \in [1..Len(v) -> Tokens]
  BY LenProperties
<1>2. /\ s \in Seq(Tokens) /\ Len(s) = Len(u) + Len(v)
      /\ \A k \in 1..(Len(u) + Len(v)) : s[k] = IF k <= Len(u) THEN u[k] ELSE v[k - Len(u)]
  BY ConcatProperties
<1> HIDE DEF s
<1>3. /\ \A k \in 1..Len(u) : s[k] = u[k]
      /\ \A k \in 1..Len(v) : s[Len(u) + k] = v[k]
  <2>1. ASSUME NEW k \in 1..Len(v)
        PROVE  s[Len(u) + k] = v[k]
    <3>1. Len(u) + k \in 1..(Len(u) + Len(v)) /\ ~(Len(u) + k <= Len(u)) /\ Len(u) + k - Len(u) = k
      BY <1>1
    <3>2. QED
      BY <1>2, <3>1
  <2>2. QED
    BY <1>1, <1>2, <2>1
<1>4. SubSeq(s, 1, Len(u)) = u
  <2>1. \A k \in 1..Len(u) : s[k] \in Tokens
    BY <1>1, <1>3
  <2>2. /\ SubSeq(s, 1, Len(u)) \in Seq(Tokens)
        /\ Len(SubSeq(s, 1, Len(u))) = Len(u)
        /\ \A k \in 1..Len(u) : SubSeq(s, 1, Len(u))[k] = s[k]
    BY <1>1, <2>1, SubSeqProperties
  <2>3. QED
    BY <1>3, <2>2, SeqEqual
<1>5. SubSeq(s, Len(u) + 1, Len(s)) = v
  <2> DEFINE t == SubSeq(s, Len(u) + 1, Len(s))
  <2>1. \A k \in (Len(u) + 1)..Len(s) : s[k] \in Tokens
    BY <1>1, <1>2
  <2>2. /\ t \in Seq(Tokens)
        /\ Len(t) = Len(v)
        /\ \A k \in 1..Len(v) : t[k] = s[Len(u) + k]
    BY <1>1, <1>2, <2>1, SubSeqProperties
  <2>3. QED
    BY <1>3, <2>2, SeqEqual
<1>6. QED
  BY <1>1, <1>2, <1>3, <1>4, <1>5 DEF s

LEMMA Grouped ==
    ASSUME NEW u \in Seq(Tokens), NEW v \in Seq(Tokens), NEW w \in Seq(Tokens)
    PROVE  (u \o v) \o w = u \o (v \o w)
BY ConcatAssociative

LEMMA Joined ==
    ASSUME NEW u \in Seq(Tokens), NEW v \in Seq(Tokens), NEW n \in Nat, NEW m \in Nat,
           Len(u) = n, Len(v) = m
    PROVE  /\ u \o v \in Seq(Tokens) /\ Len(u \o v) = n + m
           /\ \A k \in 1..n : (u \o v)[k] = u[k]
           /\ \A k \in 1..m : (u \o v)[n + k] = v[k]
BY TwoParts

LEMMA NeitherHas ==
    ASSUME NEW u \in Seq(Tokens), NEW v \in Seq(Tokens), NEW B,
           \A k \in 1..Len(u) : u[k] \notin B,
           \A k \in 1..Len(v) : v[k] \notin B
    PROVE  /\ u \o v \in Seq(Tokens)
           /\ \A k \in 1..Len(u \o v) : (u \o v)[k] \notin B
<1> DEFINE s == u \o v
<1>1. /\ s \in Seq(Tokens)
      /\ Len(u) \in Nat /\ Len(v) \in Nat /\ Len(s) = Len(u) + Len(v)
      /\ \A k \in 1..Len(u) : s[k] = u[k]
      /\ \A k \in 1..Len(v) : s[Len(u) + k] = v[k]
  BY TwoParts
<1> HIDE DEF s
<1>2. ASSUME NEW k \in 1..Len(s)
      PROVE  s[k] \notin B
  <2>1. CASE k <= Len(u)
    BY <1>1, <2>1
  <2>2. CASE k > Len(u)
    <3>1. k - Len(u) \in 1..Len(v) /\ k = Len(u) + (k - Len(u))
      BY <1>1, <2>2
    <3>2. QED
      BY <1>1, <3>1
  <2>3. QED
    BY <1>1, <2>1, <2>2
<1>3. QED
  BY <1>1, <1>2 DEF s

(* The last place of a token.                                              *)
LEMMA LastTokenIs ==
    ASSUME NEW u \in Seq(Tokens), NEW v \in Seq(Tokens), NEW t \in Tokens,
           \A k \in 1..Len(v) : v[k] # t
    PROVE  LET s == (u \o <<t>>) \o v
               I == {k \in 1..Len(s) : s[k] = t}
           IN  /\ s \in Seq(Tokens) /\ Len(s) = Len(u) + 1 + Len(v)
               /\ I # {} /\ Max(I) = Len(u) + 1
               /\ SubSeq(s, Len(u) + 2, Len(s)) = v
<1> DEFINE s == (u \o <<t>>) \o v
           I == {k \in 1..Len(s) : s[k] = t}
<1>1. <<t>> \in Seq(Tokens) /\ Len(<<t>>) = 1 /\ <<t>>[1] = t
  OBVIOUS
<1>2. /\ u \o <<t>> \in Seq(Tokens) /\ Len(u \o <<t>>) = Len(u) + 1 /\ Len(u) \in Nat
      /\ (u \o <<t>>)[Len(u) + 1] = t
  BY <1>1, TwoParts
<1>3. /\ s \in Seq(Tokens) /\ Len(s) = Len(u) + 1 + Len(v) /\ Len(v) \in Nat
      /\ s[Len(u) + 1] = t
      /\ \A k \in 1..Len(v) : s[Len(u) + 1 + k] = v[k]
      /\ SubSeq(s, Len(u) + 2, Len(s)) = v
  BY <1>2, TwoParts
<1> HIDE DEF s
<1>4. Len(u) + 1 \in I
  BY <1>2, <1>3
<1>5. \A k \in I : Len(u) + 1 >= k
  <2> SUFFICES ASSUME NEW k \in 1..Len(s), k > Len(u) + 1 PROVE s[k] # t
    BY <1>2, <1>3
  <2>1. k - (Len(u) + 1) \in 1..Len(v)
    BY <1>2, <1>3
  <2>2. s[Len(u) + 1 + (k - (Len(u) + 1))] = v[k - (Len(u) + 1)]
    BY <1>3, <2>1
  <2>3. QED
    BY <1>2, <2>1, <2>2
<1>6. I \in SUBSET Nat
  OBVIOUS
<1> HIDE DEF I
<1>7. Max(I) = Len(u) + 1
  BY <1>4, <1>5, <1>6, GreatestIs
<1>8. QED
  BY <1>3, <1>4, <1>7 DEF s, I

(* fgets: a line that the buffer has room for is read as a whole.          *)
LEMMA WholeLine ==
    ASSUME NEW u \in Seq(Tokens), NEW v \in Seq(Tokens),
           \A k \in 1..Len(u) : u[k] # NL,
           Len(u) < LineLimit
    PROVE  LET text == (u \o <<NL>>) \o v IN
           /\ Fgets(text) = u \o <<NL>>
           /\ AfterFgets(text) = v
           /\ Chomp(Fgets(text)) = u
<1> DEFINE text == (u \o <<NL>>) \o v
           l == u \o <<NL>>
           I == {k \in 1..Len(text) : text[k] = NL}
<1>1. <<NL>> \in Seq(Tokens) /\ Len(<<NL>>) = 1 /\ <<NL>>[1] = NL
  BY OneToken
<1>2. /\ l \in Seq(Tokens) /\ Len(l) = Len(u) + 1 /\ Len(u) \in Nat
      /\ l[Len(u) + 1] = NL
      /\ SubSeq(l, 1, Len(u)) = u
      /\ \A k \in 1..Len(u) : l[k] = u[k]
  BY <1>1, TwoParts
<1>3. /\ text \in Seq(Tokens) /\ Len(text) = Len(u) + 1 + Len(v) /\ Len(v) \in Nat
      /\ \A k \in 1..(Len(u) + 1) : text[k] = l[k]
      /\ SubSeq(text, 1, Len(u) + 1) = l
      /\ SubSeq(text, Len(u) + 2, Len(text)) = v
  BY <1>2, TwoParts
<1> HIDE DEF text, l
<1>4. Len(u) + 1 \in I
  BY <1>2, <1>3
<1>5. \A k \in I : Len(u) + 1 <= k
  BY <1>2, <1>3
<1>6. Min(I) = Len(u) + 1
  <2>1. I \in SUBSET Nat
    OBVIOUS
  <2> HIDE DEF I
  <2>2. QED
    BY <1>4, <1>5, <2>1, LeastIs
<1>7. Len(u) + 1 \in 1..LineLimit
  BY <1>2, LineLimitAssumption
<1>8. Fgets(text) = l
  <2>1. SelectInSeq(text, LAMBDA c : c = NL) = Len(u) + 1
    BY <1>4, <1>6 DEF SelectInSeq
  <2>2. QED
    BY <1>3, <1>7, <2>1 DEF Fgets
<1>9. AfterFgets(text) = v
  <2>1. Len(l) + 1 = Len(u) + 2
    BY <1>2
  <2>2. QED
    BY <1>3, <1>8, <2>1 DEF AfterFgets
<1>10. Chomp(l) = u
  BY <1>2 DEF Chomp, Last, Front
<1>11. QED
  BY <1>8, <1>9, <1>10 DEF text, l

(* What is behind the last " at ", and what is in the last parentheses.    *)
LEMMA AfterAtIs ==
    ASSUME NEW u \in Seq(Tokens), NEW v \in Seq(Tokens), \A k \in 1..Len(v) : v[k] # "@"
    PROVE  LET s == (u \o <<"@">>) \o v IN HasAt(s) /\ AfterAt(s) = v
<1> DEFINE s == (u \o <<"@">>) \o v
           I == {k \in 1..Len(s) : s[k] = "@"}
<1>1. "@" \in Tokens
  BY OneToken
<1>2. /\ s \in Seq(Tokens) /\ I # {} /\ Max(I) = Len(u) + 1
      /\ SubSeq(s, Len(u) + 2, Len(s)) = v
  BY <1>1, LastTokenIs
<1> HIDE DEF s
<1>3. Len(u) \in Nat /\ DOMAIN s = 1..Len(s)
  BY <1>2, LenProperties
<1>4. SelectLastInSeq(s, LAMBDA c : c = "@") = Len(u) + 1
  BY <1>2 DEF SelectLastInSeq
<1>5. AfterAt(s) = v
  <2>1. (Len(u) + 1) + 1 = Len(u) + 2
    BY <1>3
  <2>2. QED
    BY <1>2, <1>4, <2>1 DEF AfterAt
<1>6. HasAt(s)
  BY <1>2, <1>3 DEF HasAt
<1>7. QED
  BY <1>5, <1>6 DEF s

LEMMA InParensIs ==
    ASSUME NEW u \in Seq(Tokens), NEW v \in Seq(Tokens), \A k \in 1..Len(v) : v[k] # "("
    PROVE  LET s == (u \o <<"(">>) \o (v \o <<")">>) IN EndsInParens(s) /\ InParens(s) = v
<1> DEFINE w == v \o <<")">>
           s == (u \o <<"(">>) \o w
           I == {k \in 1..Len(s) : s[k] = "("}
<1>1. /\ "(" \in Tokens /\ <<"(">> \in Seq(Tokens) /\ Len(<<"(">>) = 1
      /\ <<")">> \in Seq(Tokens) /\ Len(<<")">>) = 1 /\ <<")">>[1] = ")"
  BY OneToken
<1>2. /\ w \in Seq(Tokens) /\ Len(v) \in Nat /\ Len(w) = Len(v) + 1
      /\ \A k \in 1..Len(v) : w[k] = v[k]
      /\ w[Len(v) + 1] = ")"
      /\ SubSeq(w, 1, Len(v)) = v
  BY <1>1, TwoParts
<1> HIDE DEF w
<1>3. \A k \in 1..Len(w) : w[k] # "("
  BY <1>2
<1>4. /\ s \in Seq(Tokens) /\ I # {} /\ Max(I) = Len(u) + 1 /\ Len(s) = Len(u) + 1 + Len(w)
      /\ SubSeq(s, Len(u) + 2, Len(s)) = w
  BY <1>1, <1>2, <1>3, LastTokenIs
<1>5. /\ u \o <<"(">> \in Seq(Tokens) /\ Len(u \o <<"(">>) = Len(u) + 1 /\ Len(u) \in Nat
  BY <1>1, TwoParts
<1>6. \A k \in 1..Len(w) : s[Len(u) + 1 + k] = w[k]
  BY <1>2, <1>5, TwoParts
<1> HIDE DEF s
<1>7. OpenParen(s) = Len(u) + 1
  BY <1>4 DEF OpenParen, SelectLastInSeq
<1>8. Last(s) = ")"
  BY <1>2, <1>4, <1>5, <1>6 DEF Last
<1>9. InParens(s) = v
  <2> DEFINE t == SubSeq(s, Len(u) + 2, Len(s) - 1)
  <2>1. \A k \in (Len(u) + 2)..(Len(s) - 1) : s[k] \in Tokens
    BY <1>4, <1>5
  <2>2. /\ t \in Seq(Tokens) /\ Len(t) = Len(v)
        /\ \A k \in 1..Len(v) : t[k] = s[Len(u) + 1 + k]
    BY <1>2, <1>4, <1>5, <2>1, SubSeqProperties
  <2>3. \A k \in 1..Len(v) : t[k] = v[k]
    BY <1>2, <1>6, <2>2
  <2> HIDE DEF t
  <2>4. t = v
    BY <2>2, <2>3, SeqEqual
  <2>5. QED
    BY <1>5, <1>7, <2>4 DEF InParens, t
<1>10. QED
  BY <1>4, <1>5, <1>7, <1>8, <1>9 DEF EndsInParens, s, w

(* What is a file and a line, and what is not.                             *)
LEMMA FileLineIs ==
    ASSUME NEW file \in Seq(Tokens), NEW number \in Seq(Tokens),
           file # <<>>, \A k \in 1..Len(number) : number[k] = "9"
    PROVE  IsFileLine((file \o <<":">>) \o number)
<1> DEFINE s == (file \o <<":">>) \o number
           I == {k \in 1..Len(s) : s[k] = ":"}
<1>1. ":" \in Tokens /\ \A k \in 1..Len(number) : number[k] # ":"
  BY OneToken
<1>2. /\ s \in Seq(Tokens) /\ Len(s) = Len(file) + 1 + Len(number)
      /\ I # {} /\ Max(I) = Len(file) + 1
  BY <1>1, LastTokenIs
<1>3. file \o <<":">> \in Seq(Tokens) /\ Len(file \o <<":">>) = Len(file) + 1
      /\ Len(file) \in Nat /\ Len(number) \in Nat
  BY <1>1, OneToken, TwoParts
<1>4. \A k \in 1..Len(number) : s[Len(file) + 1 + k] = "9"
  BY <1>3, TwoParts
<1> HIDE DEF s
<1>5. LastColon(s) = Len(file) + 1
  BY <1>2 DEF LastColon, SelectLastInSeq
<1>6. \A k \in (Len(file) + 2)..Len(s) : s[k] = "9"
  <2> TAKE k \in (Len(file) + 2)..Len(s)
  <2>1. k - (Len(file) + 1) \in 1..Len(number) /\ k = Len(file) + 1 + (k - (Len(file) + 1))
    BY <1>2, <1>3
  <2>2. QED
    BY <1>4, <2>1
<1>7. Len(file) > 0
  BY <1>3, EmptySeq
<1>8. Len(file) + 1 + 1 = Len(file) + 2 /\ Len(file) + 1 > 1
  BY <1>3, <1>7
<1>9. QED
  BY <1>5, <1>6, <1>8 DEF IsFileLine, s

(* A text with a token that is no digit, and behind it neither a colon nor *)
(* an " at ", has no place at its end.                                     *)
LEMMA NoPlaceAtEnd ==
    ASSUME NEW s \in Seq(Tokens), NEW n \in 1..Len(s), s[n] # "9",
           \A k \in n..Len(s) : s[k] \notin {":", "@"}
    PROVE  ~IsFileLine(AfterAt(s))
<1> DEFINE At1 == {k \in 1..Len(s) : s[k] = "@"}
           p == SelectLastInSeq(s, LAMBDA c : c = "@")
           t == SubSeq(s, p + 1, Len(s))
           Colons == {k \in 1..Len(t) : t[k] = ":"}
           L == Len(s)
<1>1. L \in Nat /\ n \in Nat /\ 1 <= n /\ n <= L
  BY LenProperties
<1>2. p \in Nat /\ p < n
  <2>1. p = IF At1 # {} THEN Max(At1) ELSE 0
    BY DEF SelectLastInSeq
  <2>2. \A k \in At1 : k < n
    BY <1>1
  <2>3. At1 \in SUBSET Nat /\ \A k \in At1 : k <= L
    BY <1>1
  <2> HIDE DEF p, At1, L
  <2>4. CASE At1 = {}
    BY <1>1, <2>1, <2>4
  <2>5. CASE At1 # {}
    <3>1. Max(At1) \in At1
      BY <1>1, <2>3, <2>5, HasGreatest
    <3>2. QED
      BY <2>1, <2>2, <2>3, <2>5, <3>1
  <2>6. QED
    BY <2>4, <2>5
<1> HIDE DEF p
<1>3. t \in Seq(Tokens) /\ Len(t) = L - p /\ \A k \in 1..(L - p) : t[k] = s[p + k]
  <2>1. \A k \in (p + 1)..L : s[k] \in Tokens
    BY <1>1, <1>2, ElementOfSeq
  <2>2. /\ t \in Seq(Tokens)
        /\ Len(t) = IF p + 1 <= L THEN L - (p + 1) + 1 ELSE 0
        /\ \A k \in 1..(L - (p + 1) + 1) : t[k] = s[(p + 1) + k - 1]
    BY <1>1, <1>2, <2>1, SubSeqProperties
  <2> HIDE DEF t, L
  <2>3. L - (p + 1) + 1 = L - p /\ \A k \in 1..(L - p) : (p + 1) + k - 1 = p + k
    BY <1>1, <1>2
  <2>4. QED
    BY <1>1, <1>2, <2>2, <2>3
<1> HIDE DEF t, L
<1>4. n - p \in 1..Len(t) /\ t[n - p] # "9"
  BY <1>1, <1>2, <1>3
<1>5. LastColon(t) \in Nat /\ LastColon(t) < n - p
  <2>1. LastColon(t) = IF Colons # {} THEN Max(Colons) ELSE 0
    BY DEF LastColon, SelectLastInSeq
  <2>2. \A k \in Colons : k < n - p
    <3> SUFFICES ASSUME NEW k \in 1..Len(t), k >= n - p PROVE t[k] # ":"
      BY <1>1, <1>2, <1>3
    <3>1. p + k \in n..L /\ t[k] = s[p + k]
      BY <1>1, <1>2, <1>3
    <3>2. QED
      BY <3>1 DEF L
  <2>3. Len(t) \in Nat /\ Colons \in SUBSET Nat /\ \A k \in Colons : k <= Len(t)
    BY <1>1, <1>2, <1>3
  <2> HIDE DEF Colons
  <2>4. CASE Colons = {}
    BY <1>1, <1>2, <2>1, <2>4
  <2>5. CASE Colons # {}
    <3>1. Max(Colons) \in Colons
      BY <2>3, <2>5, HasGreatest
    <3>2. QED
      BY <2>1, <2>2, <2>3, <2>5, <3>1
  <2>6. QED
    BY <2>4, <2>5
<1>6. n - p \in (LastColon(t) + 1)..Len(t)
  BY <1>1, <1>2, <1>4, <1>5
<1>7. ~IsFileLine(t)
  BY <1>4, <1>6 DEF IsFileLine
<1>8. AfterAt(s) = t
  BY DEF AfterAt, p, t, L
<1>9. QED
  BY <1>7, <1>8

LEMMA NoColonNoFileLine ==
    ASSUME NEW s \in Seq(Tokens), \A k \in 1..Len(s) : s[k] # ":"
    PROVE  ~IsFileLine(s)
<1>1. LastColon(s) = 0
  BY DEF LastColon, SelectLastInSeq
<1>2. QED
  BY <1>1 DEF IsFileLine

(* Where no colon has a name in front of it and a digit behind it, nothing *)
(* matches.                                                                *)
Quiet(u) == \A k \in 2..(Len(u) - 1) : u[k] = ":" /\ InName(u[k - 1]) => u[k + 1] # "9"

LEMMA QuietIs ==
    ASSUME NEW s \in Seq(Tokens)
    PROVE  Quiet(s) <=> ~Numbered(s)
BY DEF Quiet, Numbered, RawColons

LEMMA NothingMatches ==
    ASSUME NEW s \in Seq(Tokens), Quiet(s)
    PROVE  RawMatch(s) = <<>>
<1>1. RawColons(s) = {}
  BY QuietIs DEF Numbered
<1>2. QED
  BY <1>1 DEF RawMatch

(* Where the first colon with a digit behind it is that of the place, the  *)
(* place matches.                                                          *)
LEMMA PlaceMatches ==
    ASSUME NEW s \in Seq(Tokens), NEW start \in Nat, NEW colon \in Nat, NEW end \in Nat,
           1 < start, start < colon, colon < end, end < Len(s),
           s[colon] = ":",
           \A k \in 2..(colon - 1) : s[k] = ":" /\ InName(s[k - 1]) => s[k + 1] # "9",
           \A k \in start..(colon - 1) : InName(s[k]),
           ~InName(s[start - 1]),
           \A k \in (colon + 1)..end : s[k] = "9",
           s[end + 1] # "9"
    PROVE  RawMatch(s) = SubSeq(s, start, end)
<1> DEFINE Starts == {k \in 1..(colon - 1) : \A n \in k..(colon - 1) : InName(s[n])}
           Ends == {k \in (colon + 1)..Len(s) : \A n \in (colon + 1)..k : s[n] = "9"}
<1>1. Len(s) \in Nat
  BY LenProperties
<1>2. colon \in RawColons(s)
  <2>1. colon - 1 \in start..(colon - 1) /\ colon + 1 \in (colon + 1)..end
        /\ colon \in 2..(Len(s) - 1)
    BY <1>1
  <2>2. QED
    BY <2>1 DEF RawColons
<1>3. \A c \in RawColons(s) : colon <= c
  BY <1>1 DEF RawColons
<1>4. Min(RawColons(s)) = colon /\ RawColons(s) # {}
  <2>1. RawColons(s) \in SUBSET Nat
    BY <1>1 DEF RawColons
  <2>2. QED
    BY <1>2, <1>3, <2>1, LeastIs
<1>5. Min(Starts) = start
  <2>1. Starts \in SUBSET Nat /\ start \in Starts
    OBVIOUS
  <2>2. \A k \in Starts : start <= k
    <3> SUFFICES ASSUME NEW k \in 1..(colon - 1), k < start PROVE k \notin Starts
      BY <2>1
    <3>1. start - 1 \in k..(colon - 1)
      OBVIOUS
    <3>2. QED
      BY <3>1
  <2> HIDE DEF Starts
  <2>3. QED
    BY <2>1, <2>2, LeastIs
<1>6. Max(Ends) = end
  <2>1. Ends \in SUBSET Nat /\ end \in Ends
    BY <1>1
  <2>2. \A k \in Ends : end >= k
    <3> SUFFICES ASSUME NEW k \in (colon + 1)..Len(s), end < k PROVE k \notin Ends
      BY <1>1, <2>1
    <3>1. end + 1 \in (colon + 1)..k
      BY <1>1
    <3>2. QED
      BY <3>1
  <2> HIDE DEF Ends
  <2>3. QED
    BY <2>1, <2>2, GreatestIs
<1>7. QED
  BY <1>4, <1>5, <1>6 DEF RawMatch

(* Answers of any length: of the names and files the proofs use only that  *)
(* they are one line each and that a file is not empty.                    *)
Note == <<"_", "(", "d", "_", "9", ")">>

LineTokens == Tokens \ {NL}

AnyAnswers == [name : Seq(LineTokens),
               file : Seq(LineTokens) \ {<<>>},
               number : {<<"?">>} \cup (Seq({"9"}) \ {<<>>}),
               note : {<<>>, Note}]

LEMMA AnswersAreAny == Answers \subseteq AnyAnswers
<1> SUFFICES ASSUME NEW a \in Answers PROVE a \in AnyAnswers
  OBVIOUS
<1> DEFINE NameIsRight == a.name \in Seq(LineTokens)
           FileIsRight == a.file \in Seq(LineTokens) \ {<<>>}
           NumberIsRight == a.number \in {<<"?">>} \cup (Seq({"9"}) \ {<<>>})
<1> DEFINE LS == Seq(LineTokens)
<1>1. NameIsRight
  <2>1. CASE a.name = <<"f">>
    <3>1. <<"f">> \in LS
      BY DEF Tokens, LineTokens, NL
    <3>2. QED
      BY <2>1, <3>1
  <2>2. CASE a.name = <<"n", ":", ":", "f", "(", ")">>
    <3>1. <<"n", ":", ":", "f", "(", ")">> \in LS
      BY DEF Tokens, LineTokens, NL
    <3>2. QED
      BY <2>2, <3>1
  <2>3. CASE a.name = <<"f", "(", "l", "@", "p", ":", "9", ":", "9", ")">>
    <3>1. <<"f", "(", "l", "@", "p", ":", "9", ":", "9", ")">> \in LS
      BY DEF Tokens, LineTokens, NL
    <3>2. QED
      BY <2>3, <3>1
  <2>4. ASSUME NEW n \in {LineLimit - 1, LineLimit}, a.name = [k \in 1..n |-> "f"]
        PROVE  NameIsRight
    <3>1. n \in Nat
      BY LineLimitAssumption
    <3>2. [k \in 1..n |-> "f"] \in LS
      BY <3>1 DEF Tokens, LineTokens, NL
    <3>3. QED
      BY <2>4, <3>2
  <2>5. QED
    BY <2>1, <2>2, <2>3, <2>4 DEF Answers, Names
<1>2. FileIsRight
  <2>1. CASE a.file = <<"p">>
    <3>1. <<"p">> \in LS /\ Len(<<"p">>) = 1
      BY DEF Tokens, LineTokens, NL
    <3>2. QED
      BY <2>1, <3>1
  <2>2. CASE a.file = <<"?">>
    <3>1. <<"?">> \in LS /\ Len(<<"?">>) = 1
      BY DEF Tokens, LineTokens, NL
    <3>2. QED
      BY <2>2, <3>1
  <2>6. CASE a.file = <<"p", "_", "p">>
    <3>1. <<"p", "_", "p">> \in LS /\ Len(<<"p", "_", "p">>) = 3
      BY DEF Tokens, LineTokens, NL
    <3>2. a.file \in LS /\ Len(a.file) = 3
      BY <2>6, <3>1, Zenon
    <3>3. a.file # <<>>
      BY <3>2
    <3>4. QED
      BY <3>2, <3>3
  <2>7. CASE a.file = <<"p", "@", "p">>
    <3>1. <<"p", "@", "p">> \in LS /\ Len(<<"p", "@", "p">>) = 3
      BY DEF Tokens, LineTokens, NL
    <3>2. QED
      BY <2>7, <3>1
  <2>3. CASE a.file = <<"p", "(", "p", ")">>
    <3>1. <<"p", "(", "p", ")">> \in LS /\ Len(<<"p", "(", "p", ")">>) = 4
      BY DEF Tokens, LineTokens, NL
    <3>2. QED
      BY <2>3, <3>1
  <2>4. CASE a.file = <<"p", ":", "9">>
    <3>1. <<"p", ":", "9">> \in LS /\ Len(<<"p", ":", "9">>) = 3
      BY DEF Tokens, LineTokens, NL
    <3>2. QED
      BY <2>4, <3>1
  <2>5. CASE a.file = [k \in 1..(LineLimit - 3) |-> "p"]
    <3> DEFINE n == LineLimit - 3
    <3>1. n \in Nat \ {0}
      BY LineLimitAssumption
    <3> HIDE DEF n
    <3>2. [k \in 1..n |-> "p"] \in LS /\ Len([k \in 1..n |-> "p"]) = n
      BY <3>1 DEF Tokens, LineTokens, NL
    <3>3. a.file \in LS /\ Len(a.file) = n
      BY <2>5, <3>2 DEF n
    <3>4. a.file # <<>>
      BY <3>1, <3>3
    <3>5. QED
      BY <3>3, <3>4
  <2>8. QED
    BY <2>1, <2>2, <2>3, <2>4, <2>5, <2>6, <2>7 DEF Answers, Files
<1>3. NumberIsRight
  <2>1. CASE a.number = <<"?">>
    BY <2>1
  <2>2. CASE a.number = <<"9">>
    <3>1. a.number \in Seq({"9"}) /\ Len(a.number) = 1
      BY <2>2
    <3>2. QED
      BY <3>1
  <2>3. CASE a.number = <<"9", "9">>
    <3>1. a.number \in Seq({"9"}) /\ Len(a.number) = 2
      BY <2>3
    <3>2. QED
      BY <3>1
  <2>4. QED
    BY <2>1, <2>2, <2>3 DEF Answers
<1>4. a.note \in {<<>>, Note}
  BY DEF Answers, Notes, Note
<1>5. a = [name |-> a.name, file |-> a.file, number |-> a.number, note |-> a.note]
  BY DEF Answers
<1> HIDE DEF NameIsRight, FileIsRight, NumberIsRight
<1>6. QED
  BY <1>1, <1>2, <1>3, <1>4, <1>5 DEF AnyAnswers, NameIsRight, FileIsRight, NumberIsRight

LEMMA AnswerParts ==
    ASSUME NEW a \in AnyAnswers
    PROVE  /\ a.name \in Seq(Tokens) /\ Len(a.name) \in Nat
           /\ \A k \in 1..Len(a.name) : a.name[k] # NL
           /\ a.file \in Seq(Tokens) /\ Len(a.file) \in Nat \ {0} /\ a.file # <<>>
           /\ \A k \in 1..Len(a.file) : a.file[k] # NL
           /\ a.number \in Seq(Tokens) /\ Len(a.number) \in Nat \ {0}
           /\ a.number = <<"?">> \/ \A k \in 1..Len(a.number) : a.number[k] = "9"
           /\ a.note \in {<<>>, Note}
<1>1. /\ a.name \in Seq(LineTokens)
      /\ a.file \in Seq(LineTokens) /\ a.file # <<>>
      /\ a.number = <<"?">> \/ (a.number \in Seq({"9"}) /\ a.number # <<>>)
      /\ a.note \in {<<>>, Note}
  BY DEF AnyAnswers
<1>2. \A S \in SUBSET Tokens : \A u \in Seq(S) :
         /\ u \in Seq(Tokens) /\ Len(u) \in Nat /\ (u # <<>> => Len(u) # 0)
         /\ \A k \in 1..Len(u) : u[k] \in S
  <2> TAKE S \in SUBSET Tokens
  <2> TAKE u \in Seq(S)
  <2>1. Len(u) \in Nat /\ u \in [1..Len(u) -> S] /\ (u # <<>> => Len(u) # 0)
    BY LenProperties, EmptySeq
  <2>2. u \in Seq(Tokens)
    OBVIOUS
  <2>3. QED
    BY <2>1, <2>2
<1>3. LineTokens \subseteq Tokens /\ {"9"} \subseteq Tokens
  BY DEF LineTokens, Tokens
<1>4. /\ a.name \in Seq(Tokens) /\ Len(a.name) \in Nat
      /\ \A k \in 1..Len(a.name) : a.name[k] # NL
  BY <1>1, <1>2, <1>3 DEF LineTokens
<1>5. /\ a.file \in Seq(Tokens) /\ Len(a.file) \in Nat \ {0}
      /\ \A k \in 1..Len(a.file) : a.file[k] # NL
  BY <1>1, <1>2, <1>3 DEF LineTokens
<1>6. /\ a.number \in Seq(Tokens) /\ Len(a.number) \in Nat \ {0}
      /\ a.number = <<"?">> \/ \A k \in 1..Len(a.number) : a.number[k] = "9"
  <2>1. CASE a.number = <<"?">>
    <3>1. "?" \in Tokens
      BY DEF Tokens
    <3>2. Len(a.number) = 1 /\ a.number \in Seq(Tokens)
      BY <2>1, <3>1, OneToken
    <3>3. QED
      BY <2>1, <3>2
  <2>2. CASE a.number \in Seq({"9"}) /\ a.number # <<>>
    BY <1>2, <1>3, <2>2
  <2>3. QED
    BY <1>1, <2>1, <2>2
<1>7. QED
  BY <1>1, <1>4, <1>5, <1>6

LEMMA NoteParts ==
    /\ Note \in Seq(Tokens) /\ Len(Note) = 6
    /\ Note[1] = "_" /\ Note[2] = "(" /\ Note[6] = ")"
    /\ \A k \in 1..6 : Note[k] \notin {NL, "@", ":"}
    /\ \A k \in 3..6 : Note[k] # "("
<1>1. /\ Len(Note) = 6
      /\ Note[1] = "_" /\ Note[2] = "(" /\ Note[3] = "d" /\ Note[4] = "_" /\ Note[5] = "9"
      /\ Note[6] = ")"
  BY DEF Note
<1>2. \A k \in 1..6 : Note[k] \notin {NL, "@", ":"}
  <2>1. \A k \in 1..6 : k \in {1, 2, 3, 4, 5, 6}
    OBVIOUS
  <2>2. \A k \in 1..6 : Note[k] \in {"_", "(", "d", "9", ")"}
    BY <1>1, <2>1
  <2>3. QED
    BY <2>2 DEF NL
<1>3. \A k \in 3..6 : Note[k] # "("
  <2>1. \A k \in 3..6 : k \in {3, 4, 5, 6}
    OBVIOUS
  <2>2. QED
    BY <1>1, <2>1
<1>4. Note \in Seq(Tokens)
  BY DEF Note, Tokens
<1>5. QED
  BY <1>1, <1>2, <1>3, <1>4

LEMMA SomeNote == Note # <<>>
<1>1. Len(Note) = 6 /\ Len(<<>>) = 0
  BY NoteParts
<1>2. QED
  BY <1>1

(* In the parentheses of a note is no place.                               *)
LEMMA NoteHasNoPlace ==
    ASSUME NEW u \in Seq(Tokens)
    PROVE  ~IsFileLine(InParens(u \o Note))
<1> DEFINE s == u \o Note
           N == Len(u)
           I == {k \in 1..Len(s) : s[k] = "("}
           inside == SubSeq(s, N + 3, N + 5)
<1>1. N \in Nat
  BY LenProperties
<1>2. s \in Seq(Tokens) /\ Len(s) = N + 6 /\ \A k \in 1..6 : s[N + k] = Note[k]
  <2>1. Note \in Seq(Tokens) /\ Len(Note) = 6
    BY NoteParts
  <2>2. /\ s \in Seq(Tokens) /\ Len(s) = N + Len(Note)
        /\ \A k \in 1..Len(Note) : s[N + k] = Note[k]
    BY <2>1, TwoParts
  <2>3. QED
    BY <2>1, <2>2
<1> HIDE DEF N, s
<1>3. N + 2 \in I
  <2>1. 2 \in 1..6 /\ N + 2 \in 1..Len(s)
    BY <1>1, <1>2
  <2>2. s[N + 2] = "("
    BY <1>2, <2>1, NoteParts
  <2>3. QED
    BY <2>1, <2>2
<1>4. \A k \in I : N + 2 >= k
  <2> SUFFICES ASSUME NEW k \in (N + 3)..(N + 6) PROVE s[k] # "("
    BY <1>1, <1>2
  <2>1. k - N \in 3..6 /\ k - N \in 1..6 /\ k = N + (k - N)
    BY <1>1
  <2>2. QED
    BY <1>2, <2>1, NoteParts
<1>5. I \in SUBSET Nat
  OBVIOUS
<1> HIDE DEF I
<1>6. OpenParen(s) = N + 2
  BY <1>3, <1>4, <1>5, GreatestIs DEF OpenParen, SelectLastInSeq, I
<1>7. InParens(s) = inside
  <2>1. OpenParen(s) + 1 = N + 3 /\ Len(s) - 1 = N + 5
    BY <1>1, <1>2, <1>6
  <2>2. InParens(s) = SubSeq(s, OpenParen(s) + 1, Len(s) - 1)
    BY DEF InParens
  <2>3. QED
    BY <2>1, <2>2
<1>8. inside \in Seq(Tokens) /\ Len(inside) = 3 /\ \A k \in 1..3 : inside[k] = s[N + 2 + k]
  <2>1. \A k \in (N + 3)..(N + 5) : s[k] \in Tokens
    BY <1>1, <1>2
  <2> DEFINE lo == N + 3
             hi == N + 5
  <2>2. lo \in Int /\ hi \in Int /\ lo <= hi + 1 /\ hi - lo + 1 = 3
        /\ \A k \in 1..3 : lo + k - 1 = N + 2 + k
    BY <1>1
  <2>3. inside = SubSeq(s, lo, hi) /\ \A k \in lo..hi : s[k] \in Tokens
    BY <2>1
  <2> HIDE DEF lo, hi, inside
  <2>4. /\ inside \in Seq(Tokens) /\ Len(inside) = IF lo <= hi THEN hi - lo + 1 ELSE 0
        /\ \A k \in 1..(hi - lo + 1) : inside[k] = s[lo + k - 1]
    BY <2>2, <2>3, SubSeqProperties
  <2>5. QED
    BY <1>1, <2>2, <2>4
<1>9. \A k \in 1..3 : inside[k] # ":"
  <2> TAKE k \in 1..3
  <2>1. k + 2 \in 1..6 /\ N + 2 + k = N + (k + 2)
    BY <1>1
  <2>2. QED
    BY <1>2, <1>8, <2>1, NoteParts
<1> HIDE DEF inside
<1>10. QED
  BY <1>7, <1>8, <1>9, NoColonNoFileLine DEF s

LEMMA PlaceParts ==
    ASSUME NEW a \in AnyAnswers
    PROVE  LET F == Len(a.file)
               M == Len(a.number)
           IN  /\ PlaceIn(a) \in Seq(Tokens) /\ Len(PlaceIn(a)) = F + 1 + M
               /\ \A k \in 1..F : PlaceIn(a)[k] = a.file[k]
               /\ PlaceIn(a)[F + 1] = ":"
               /\ \A k \in 1..M : PlaceIn(a)[F + 1 + k] = a.number[k]
<1> DEFINE F == Len(a.file)
           M == Len(a.number)
           fc == a.file \o <<":">>
<1>1. /\ a.file \in Seq(Tokens) /\ F \in Nat /\ F > 0
      /\ a.number \in Seq(Tokens) /\ M \in Nat /\ M > 0
  BY AnswerParts
<1>2. <<":">> \in Seq(Tokens) /\ Len(<<":">>) = 1 /\ <<":">>[1] = ":"
  BY OneToken
<1> HIDE DEF F, M
<1>3. /\ fc \in Seq(Tokens) /\ Len(fc) = F + 1
      /\ \A k \in 1..F : fc[k] = a.file[k]
      /\ fc[F + 1] = ":"
  <2>1. Len(a.file) = F
    BY DEF F
  <2>2. /\ fc \in Seq(Tokens) /\ Len(fc) = Len(a.file) + Len(<<":">>)
        /\ \A k \in 1..Len(a.file) : fc[k] = a.file[k]
        /\ \A k \in 1..Len(<<":">>) : fc[Len(a.file) + k] = <<":">>[k]
    BY <1>1, <1>2, TwoParts
  <2>3. QED
    BY <1>2, <2>1, <2>2
<1> HIDE DEF fc
<1>4. /\ PlaceIn(a) \in Seq(Tokens) /\ Len(PlaceIn(a)) = F + 1 + M
      /\ \A k \in 1..F : PlaceIn(a)[k] = a.file[k]
      /\ PlaceIn(a)[F + 1] = ":"
      /\ \A k \in 1..M : PlaceIn(a)[F + 1 + k] = a.number[k]
  <2>1. Len(a.number) = M /\ F + 1 \in Nat /\ PlaceIn(a) = fc \o a.number
    BY <1>1 DEF M, PlaceIn, fc
  <2>2. /\ fc \o a.number \in Seq(Tokens) /\ Len(fc \o a.number) = Len(fc) + Len(a.number)
        /\ \A k \in 1..Len(fc) : (fc \o a.number)[k] = fc[k]
        /\ \A k \in 1..Len(a.number) : (fc \o a.number)[Len(fc) + k] = a.number[k]
    BY <1>1, <1>3, TwoParts
  <2>3. F + 1 \in 1..(F + 1) /\ \A k \in 1..F : k \in 1..(F + 1)
    BY <1>1
  <2>4. QED
    BY <1>3, <2>1, <2>2, <2>3
<1>5. QED
  BY <1>4 DEF F, M

LEMMA PlaceTokens ==
    ASSUME NEW a \in AnyAnswers, NEW B, ":" \notin B, "?" \notin B, "9" \notin B,
           \A k \in 1..Len(a.file) : a.file[k] \notin B
    PROVE  \A k \in 1..Len(PlaceIn(a)) : PlaceIn(a)[k] \notin B
<1> DEFINE fc == a.file \o <<":">>
<1>1. /\ a.file \in Seq(Tokens) /\ a.number \in Seq(Tokens)
      /\ a.number = <<"?">> \/ \A k \in 1..Len(a.number) : a.number[k] = "9"
  BY AnswerParts
<1>2. \A k \in 1..Len(a.number) : a.number[k] \in {"?", "9"}
  <2>1. CASE a.number = <<"?">>
    <3>1. Len(a.number) = 1 /\ a.number[1] = "?"
      BY <2>1
    <3>2. QED
      BY <3>1
  <2>2. QED
    BY <1>1, <2>1
<1>3. /\ <<":">> \in Seq(Tokens)
      /\ \A k \in 1..Len(<<":">>) : <<":">>[k] \notin B
      /\ \A k \in 1..Len(a.number) : a.number[k] \notin B
  <2>1. <<":">> \in Seq(Tokens) /\ Len(<<":">>) = 1 /\ <<":">>[1] = ":"
    BY OneToken
  <2>2. \A k \in 1..Len(<<":">>) : <<":">>[k] \notin B
    BY <2>1
  <2>3. QED
    BY <1>2, <2>1, <2>2
<1>4. fc \in Seq(Tokens) /\ \A k \in 1..Len(fc) : fc[k] \notin B
  BY <1>1, <1>3, NeitherHas
<1> HIDE DEF fc
<1>5. \A k \in 1..Len(fc \o a.number) : (fc \o a.number)[k] \notin B
  BY <1>1, <1>3, <1>4, NeitherHas
<1>6. QED
  BY <1>5 DEF PlaceIn, fc

(* What ResolveAddress returns of an answer of addr2line that fits, token  *)
(* by token.                                                               *)
LEMMA ReadOnLinux ==
    ASSUME NEW a \in AnyAnswers, FitsAddr2line(a)
    PROVE  LET s == ResolvedOnLinux(Addr2line(a))
               second == PlaceIn(a) \o a.note
               N == Len(a.name)
               F == Len(a.file)
               M == Len(a.number)
           IN  /\ s = (a.name \o <<"@">>) \o second
               /\ second \in Seq(Tokens) /\ s \in Seq(Tokens)
               /\ Len(s) = N + F + M + 2 + Len(a.note) /\ Len(a.note) \in Nat
               /\ \A k \in 1..N : s[k] = a.name[k]
               /\ s[N + 1] = "@"
               /\ \A k \in 1..F : s[N + 1 + k] = a.file[k]
               /\ s[N + F + 2] = ":"
               /\ \A k \in 1..M : s[N + F + 2 + k] = a.number[k]
               /\ \A k \in 1..Len(a.note) : s[N + F + M + 2 + k] = a.note[k]
<1> DEFINE second == PlaceIn(a) \o a.note
           N == Len(a.name)
           F == Len(a.file)
           M == Len(a.number)
           first == a.name \o <<"@">>
           joined == first \o second
<1>1. /\ a.name \in Seq(Tokens) /\ N \in Nat
      /\ \A k \in 1..N : a.name[k] # NL
      /\ a.file \in Seq(Tokens) /\ F \in Nat \ {0}
      /\ \A k \in 1..F : a.file[k] # NL
      /\ a.number \in Seq(Tokens) /\ M \in Nat \ {0}
      /\ a.number = <<"?">> \/ \A k \in 1..M : a.number[k] = "9"
      /\ a.note \in {<<>>, Note}
  BY AnswerParts
<1>2. \A k \in 1..M : a.number[k] \in {"?", "9"}
  <2>1. CASE a.number = <<"?">>
    <3>1. M = 1 /\ a.number[1] = "?"
      BY <2>1
    <3>2. QED
      BY <3>1
  <2>2. QED
    BY <1>1, <2>1
<1>3. a.note \in Seq(Tokens) /\ Len(a.note) \in Nat
      /\ \A k \in 1..Len(a.note) : a.note[k] # NL
  <2>1. CASE a.note = <<>>
    <3>1. Len(a.note) = 0 /\ a.note \in Seq(Tokens)
      BY <2>1
    <3>2. QED
      BY <3>1
  <2>2. CASE a.note = Note
    <3>1. Len(a.note) = 6 /\ a.note \in Seq(Tokens) /\ \A k \in 1..6 : a.note[k] # NL
      BY <2>2, NoteParts
    <3>2. QED
      BY <3>1
  <2>3. QED
    BY <1>1, <2>1, <2>2
<1> HIDE DEF N, F, M
<1>4. /\ <<"@">> \in Seq(Tokens) /\ Len(<<"@">>) = 1 /\ <<"@">>[1] = "@"
      /\ <<NL>> \in Seq(Tokens) /\ Len(<<NL>>) = 1
  BY OneToken
<1> DEFINE Q == Len(a.note)
<1>n. N \in Nat /\ F \in Nat /\ F > 0 /\ M \in Nat /\ M > 0 /\ Q \in Nat
  BY <1>1, <1>3
<1>6. /\ PlaceIn(a) \in Seq(Tokens) /\ Len(PlaceIn(a)) = F + 1 + M
      /\ \A k \in 1..F : PlaceIn(a)[k] = a.file[k]
      /\ PlaceIn(a)[F + 1] = ":"
      /\ \A k \in 1..M : PlaceIn(a)[F + 1 + k] = a.number[k]
  BY <1>n, PlaceParts DEF F, M
<1>7. /\ second \in Seq(Tokens) /\ Len(second) = F + 1 + M + Q
      /\ \A k \in 1..(F + 1 + M) : second[k] = PlaceIn(a)[k]
      /\ \A k \in 1..Q : second[F + 1 + M + k] = a.note[k]
  <2>1. F + 1 + M \in Nat
    BY <1>n
  <2>2. QED
    BY <1>3, <1>6, <2>1, Joined
<1> HIDE DEF Q
<1>8. \A k \in 1..Len(second) : second[k] # NL
  <2> DEFINE B == {NL}
  <2>1. ":" \notin B /\ "?" \notin B /\ "9" \notin B /\ \A k \in 1..Len(a.file) : a.file[k] \notin B
    BY <1>1 DEF NL, F
  <2>2. a.note \in Seq(Tokens) /\ \A k \in 1..Len(a.note) : a.note[k] \notin B
    BY <1>3
  <2> HIDE DEF B
  <2>3. PlaceIn(a) \in Seq(Tokens) /\ \A k \in 1..Len(PlaceIn(a)) : PlaceIn(a)[k] \notin B
    BY <1>6, <2>1, PlaceTokens
  <2>4. \A k \in 1..Len(second) : second[k] \notin B
    BY <2>2, <2>3, NeitherHas
  <2>5. QED
    BY <2>4 DEF B
<1>9. ResolvedOnLinux(Addr2line(a)) = joined
  <2> DEFINE rest == second \o <<NL>>
             text == (a.name \o <<NL>>) \o rest
  <2>1. Addr2line(a) = text
    BY DEF Addr2line
  <2>2. N < LineLimit /\ Len(second) < LineLimit
    BY DEF FitsAddr2line, N
  <2>3. rest \in Seq(Tokens) /\ Len(rest) = Len(second) + 1
    BY <1>4, <1>7, TwoParts
  <2>4. Len(rest) # 0
    BY <1>n, <1>7, <2>3
  <2> HIDE DEF rest
  <2>5. AfterFgets(text) = rest /\ Chomp(Fgets(text)) = a.name
    BY <1>1, <2>2, <2>3, WholeLine DEF N
  <2>6. a.name \o <<NL>> \in Seq(Tokens) /\ Len(a.name \o <<NL>>) = N + 1
    BY <1>1, <1>4, TwoParts DEF N
  <2>7. Len(text) # 0
    BY <1>1, <2>3, <2>4, <2>6, TwoParts
  <2>8. Chomp(Fgets(rest)) = second
    <3> HIDE DEF second
    <3>1. <<>> \in Seq(Tokens)
      OBVIOUS
    <3>2. Chomp(Fgets((second \o <<NL>>) \o <<>>)) = second
      BY <1>7, <1>8, <2>2, <3>1, WholeLine
    <3>3. rest \o <<>> = rest
      BY <2>3, ConcatEmptySeq
    <3>4. QED
      BY <3>2, <3>3 DEF rest
  <2> HIDE DEF text, second
  <2>9. text # <<>> /\ rest # <<>>
    BY <2>4, <2>7
  <2>10. QED
    BY <2>1, <2>5, <2>8, <2>9 DEF ResolvedOnLinux
<1> HIDE DEF second
<1>10. /\ first \in Seq(Tokens) /\ Len(first) = N + 1
       /\ \A k \in 1..N : first[k] = a.name[k]
       /\ first[N + 1] = "@"
  BY <1>1, <1>4, TwoParts DEF N
<1> HIDE DEF first
<1>11. /\ joined \in Seq(Tokens) /\ Len(joined) = N + 1 + Len(second)
       /\ \A k \in 1..(N + 1) : joined[k] = first[k]
       /\ \A k \in 1..Len(second) : joined[N + 1 + k] = second[k]
  <2>1. N + 1 \in Nat /\ Len(second) \in Nat
    BY <1>n, <1>7
  <2>2. QED
    BY <1>7, <1>10, <2>1, Joined
<1> HIDE DEF joined
<1>12. /\ Len(joined) = N + F + M + 2 + Q
       /\ \A k \in 1..N : joined[k] = a.name[k]
       /\ joined[N + 1] = "@"
  <2>1. N + 1 \in 1..(N + 1) /\ \A k \in 1..N : k \in 1..(N + 1)
    BY <1>n
  <2>2. N + 1 + (F + 1 + M + Q) = N + F + M + 2 + Q
    BY <1>n
  <2>3. QED
    BY <1>7, <1>10, <1>11, <2>1, <2>2
<1>13. /\ \A k \in 1..F : joined[N + 1 + k] = a.file[k]
       /\ joined[N + F + 2] = ":"
  <2>1. \A k \in 1..F : k \in 1..Len(second) /\ k \in 1..(F + 1 + M)
    BY <1>n, <1>7
  <2>2. F + 1 \in 1..Len(second) /\ F + 1 \in 1..(F + 1 + M) /\ N + 1 + (F + 1) = N + F + 2
    BY <1>n, <1>7
  <2>3. QED
    BY <1>6, <1>7, <1>11, <2>1, <2>2
<1>14. ASSUME NEW k \in 1..M
       PROVE  joined[N + F + 2 + k] = a.number[k]
  <2>1. F + 1 + k \in 1..Len(second) /\ F + 1 + k \in 1..(F + 1 + M)
        /\ N + 1 + (F + 1 + k) = N + F + 2 + k
    BY <1>n, <1>7
  <2>2. QED
    BY <1>6, <1>7, <1>11, <2>1
<1>15. ASSUME NEW k \in 1..Q
       PROVE  joined[N + F + M + 2 + k] = a.note[k]
  <2>1. F + 1 + M + k \in 1..Len(second) /\ N + 1 + (F + 1 + M + k) = N + F + M + 2 + k
    BY <1>n, <1>7
  <2>2. QED
    BY <1>7, <1>11, <2>1
<1>16. QED
  BY <1>3, <1>7, <1>9, <1>11, <1>12, <1>13, <1>14, <1>15 DEF second, joined, first, N, F, M, Q

(* A place with a number is a file and a line.                             *)
LEMMA PlaceIsFileLine ==
    ASSUME NEW a \in AnyAnswers, a.number # <<"?">>
    PROVE  IsFileLine(PlaceIn(a))
<1>1. /\ a.file \in Seq(Tokens) /\ a.file # <<>>
      /\ a.number \in Seq(Tokens) /\ \A k \in 1..Len(a.number) : a.number[k] = "9"
  BY AnswerParts
<1>2. IsFileLine((a.file \o <<":">>) \o a.number)
  BY <1>1, FileLineIs
<1>3. QED
  BY <1>2 DEF PlaceIn

(* What addr2line printed when it fits: nothing in it but the place is     *)
(* matched, ...                                                            *)
LEMMA NoMatchBefore ==
    ASSUME NEW a \in AnyAnswers, FitsAddr2line(a), ~Numbered(a.name), ~Numbered(a.file)
    PROVE  LET s == ResolvedOnLinux(Addr2line(a)) IN
           \A k \in 2..(Len(a.name) + Len(a.file) + 1) :
               s[k] = ":" /\ InName(s[k - 1]) => s[k + 1] # "9"
<1> DEFINE s == ResolvedOnLinux(Addr2line(a))
           N == Len(a.name)
           F == Len(a.file)
<1>1. /\ N \in Nat /\ F \in Nat
      /\ \A k \in 2..(N - 1) : a.name[k] = ":" /\ InName(a.name[k - 1]) => a.name[k + 1] # "9"
      /\ \A k \in 2..(F - 1) : a.file[k] = ":" /\ InName(a.file[k - 1]) => a.file[k + 1] # "9"
  <2>1. a.name \in Seq(Tokens) /\ a.file \in Seq(Tokens) /\ N \in Nat /\ F \in Nat
    BY AnswerParts
  <2>2. Quiet(a.name) /\ Quiet(a.file)
    BY <2>1, QuietIs
  <2>3. QED
    BY <2>1, <2>2 DEF Quiet
<1>2. /\ \A k \in 1..N : s[k] = a.name[k]
      /\ s[N + 1] = "@"
      /\ \A k \in 1..F : s[N + 1 + k] = a.file[k]
      /\ s[N + F + 2] = ":"
  BY ReadOnLinux
<1> HIDE DEF s, N, F
<1>3. ASSUME NEW k \in 2..(N + F + 1), s[k] = ":", InName(s[k - 1])
      PROVE  s[k + 1] # "9"
  <2>1. CASE k < N
    <3>1. k \in 2..(N - 1) /\ k \in 1..N /\ k + 1 \in 1..N /\ k - 1 \in 1..N
      BY <1>1, <2>1
    <3>2. QED
      BY <1>1, <1>2, <1>3, <3>1
  <2>2. CASE k = N
    BY <1>2, <2>2
  <2>3. CASE k = N + 1
    BY <1>2, <1>3, <2>3
  <2>4. CASE k = N + 2
    <3>1. s[k - 1] = "@"
      BY <1>1, <1>2, <2>4
    <3>2. QED
      BY <1>3, <3>1 DEF InName, Spaces
  <2>5. CASE k > N + 2 /\ k < N + F + 1
    <3> DEFINE j == k - (N + 1)
    <3>1. /\ j \in 2..(F - 1) /\ j \in 1..F /\ j + 1 \in 1..F /\ j - 1 \in 1..F
          /\ k = N + 1 + j /\ k + 1 = N + 1 + (j + 1) /\ k - 1 = N + 1 + (j - 1)
      BY <1>1, <2>5
    <3> HIDE DEF j
    <3>2. s[k] = a.file[j] /\ s[k + 1] = a.file[j + 1] /\ s[k - 1] = a.file[j - 1]
      BY <1>2, <3>1
    <3>3. QED
      BY <1>1, <1>3, <3>1, <3>2
  <2>6. CASE k = N + F + 1
    <3>1. k + 1 = N + F + 2
      BY <1>1, <2>6
    <3>2. QED
      BY <1>2, <3>1
  <2>7. QED
    BY <1>1, <2>1, <2>2, <2>3, <2>4, <2>5, <2>6
<1>4. QED
  BY <1>3 DEF s, N, F

(* ... there is no place at its end when the number is missing or a note   *)
(* follows, ...                                                            *)
LEMMA NoPlaceBehindAt ==
    ASSUME NEW a \in AnyAnswers, FitsAddr2line(a), a.number = <<"?">> \/ a.note = Note
    PROVE  ~IsFileLine(AfterAt(ResolvedOnLinux(Addr2line(a))))
<1> DEFINE s == ResolvedOnLinux(Addr2line(a))
           front == Len(a.name) + Len(a.file)
           M == Len(a.number)
           Q == Len(a.note)
<1>1. /\ s \in Seq(Tokens) /\ Len(s) = Len(a.name) + Len(a.file) + M + 2 + Q
      /\ \A k \in 1..M : s[Len(a.name) + Len(a.file) + 2 + k] = a.number[k]
      /\ \A k \in 1..Q : s[Len(a.name) + Len(a.file) + M + 2 + k] = a.note[k]
  BY ReadOnLinux
<1>2. /\ Len(a.name) \in Nat /\ Len(a.file) \in Nat /\ M \in Nat /\ M > 0
      /\ a.note \in {<<>>, Note}
  BY AnswerParts
<1>3. front \in Nat
  <2>1. \A x, y \in Nat : x + y \in Nat
    OBVIOUS
  <2>2. QED
    BY <1>2, <2>1
<1>4. CASE a.note = Note
  <2>1. Q = 6 /\ a.note[6] = ")"
    BY <1>4, NoteParts
  <2> HIDE DEF s, front, M, Q
  <2>2. Len(s) = front + M + 2 + 6 /\ 6 \in 1..Q /\ Len(s) \in 1..Len(s)
    <3>1. Len(s) = front + M + 2 + 6 /\ 6 \in 1..Q
      BY <1>1, <2>1 DEF front
    <3>2. QED
      BY <1>2, <1>3, <3>1
  <2>3. s[Len(s)] = ")"
    BY <1>1, <2>1, <2>2 DEF front
  <2>4. \A k \in Len(s)..Len(s) : s[k] = ")"
    BY <1>2, <1>3, <2>2, <2>3
  <2>5. QED
    BY <1>1, <2>2, <2>3, <2>4, NoPlaceAtEnd DEF s
<1>5. CASE a.note = <<>>
  <2>1. a.number = <<"?">>
    BY <1>5, SomeNote
  <2>2. M = 1 /\ a.number[1] = "?" /\ Q = 0
    BY <1>5, <2>1
  <2> HIDE DEF s, front, M, Q
  <2>3. Len(s) = front + 2 + 1 /\ 1 \in 1..M /\ Len(s) \in 1..Len(s)
    <3>1. Len(s) = front + 1 + 2 + 0 /\ 1 \in 1..M
      BY <1>1, <2>2 DEF front
    <3>2. QED
      BY <1>3, <3>1
  <2>4. s[Len(s)] = "?"
    BY <1>1, <2>2, <2>3 DEF front
  <2>5. \A k \in Len(s)..Len(s) : s[k] = "?"
    BY <1>3, <2>3, <2>4
  <2>6. QED
    BY <1>1, <2>3, <2>4, <2>5, NoPlaceAtEnd DEF s
<1>6. QED
  BY <1>2, <1>4, <1>5

(* ... and no place in parentheses.                                        *)
LEMMA NoPlaceInParens ==
    ASSUME NEW a \in AnyAnswers, FitsAddr2line(a), a.number = <<"?">> \/ a.note = Note
    PROVE  LET s == ResolvedOnLinux(Addr2line(a)) IN
           ~(EndsInParens(s) /\ IsFileLine(InParens(s)))
<1> DEFINE s == ResolvedOnLinux(Addr2line(a))
           first == a.name \o <<"@">>
<1>1. /\ s = first \o (PlaceIn(a) \o a.note)
      /\ Len(s) = Len(a.name) + Len(a.file) + Len(a.number) + 2 + Len(a.note)
      /\ \A k \in 1..Len(a.number) : s[Len(a.name) + Len(a.file) + 2 + k] = a.number[k]
  BY ReadOnLinux
<1>2. a.note \in {<<>>, Note} /\ a.name \in Seq(Tokens)
      /\ Len(a.name) \in Nat /\ Len(a.file) \in Nat
  BY AnswerParts
<1>3. first \in Seq(Tokens) /\ PlaceIn(a) \in Seq(Tokens) /\ Note \in Seq(Tokens)
  BY <1>2, OneToken, TwoParts, PlaceParts, NoteParts
<1>4. CASE a.note = Note
  <2> HIDE DEF first
  <2>1. (first \o PlaceIn(a)) \o Note = first \o (PlaceIn(a) \o Note)
    BY <1>3, Grouped
  <2>2. first \o PlaceIn(a) \in Seq(Tokens)
    BY <1>3, TwoParts
  <2>3. ~IsFileLine(InParens((first \o PlaceIn(a)) \o Note))
    BY <2>2, NoteHasNoPlace
  <2>4. QED
    BY <1>1, <1>4, <2>1, <2>3
<1>5. CASE a.note = <<>>
  <2>1. a.number = <<"?">>
    BY <1>5, SomeNote
  <2>2. Len(a.number) = 1 /\ a.number[1] = "?" /\ Len(a.note) = 0
    BY <1>5, <2>1
  <2> DEFINE front == Len(a.name) + Len(a.file)
  <2>3. front \in Nat
    <3>1. \A x, y \in Nat : x + y \in Nat
      OBVIOUS
    <3>2. Len(a.name) \in Nat /\ Len(a.file) \in Nat
      BY <1>2
    <3>3. QED
      BY <3>1, <3>2
  <2>4. Len(s) = front + Len(a.number) + 2 + Len(a.note)
        /\ \A k \in 1..Len(a.number) : s[front + 2 + k] = a.number[k]
    BY <1>1
  <2> HIDE DEF s, front
  <2>5. Len(s) = front + 2 + 1 /\ 1 \in 1..Len(a.number)
    BY <2>2, <2>3, <2>4
  <2>6. s[Len(s)] = "?"
    <3>1. s[front + 2 + 1] = a.number[1]
      BY <2>4, <2>5
    <3>2. QED
      BY <2>2, <2>5, <3>1
  <2>7. QED
    BY <2>6 DEF EndsInParens, Last, s
<1>6. QED
  BY <1>2, <1>4, <1>5

(* Without a number nothing is taken for a place.                          *)
LEMMA NoPlaceOnLinux ==
    ASSUME NEW a \in AnyAnswers, FitsAddr2line(a), a.number = <<"?">>, ~MisleadsAddr2line(a)
    PROVE  ExtractFileLine(ResolvedOnLinux(Addr2line(a))) = <<>>
<1> DEFINE s == ResolvedOnLinux(Addr2line(a))
           N == Len(a.name)
           F == Len(a.file)
           M == Len(a.number)
           Q == Len(a.note)
<1>0. ~Numbered(a.name) /\ ~Numbered(a.file)
  BY DEF MisleadsAddr2line
<1>1. s \in Seq(Tokens)
  BY ReadOnLinux
<1>2. /\ Len(s) = N + F + M + 2 + Q /\ Q \in Nat
      /\ s[N + F + 2] = ":"
      /\ \A k \in 1..M : s[N + F + 2 + k] = a.number[k]
      /\ \A k \in 1..Q : s[N + F + M + 2 + k] = a.note[k]
  BY ReadOnLinux
<1>3. a.name \in Seq(Tokens) /\ N \in Nat /\ F \in Nat /\ a.note \in {<<>>, Note}
  BY AnswerParts
<1>4. M = 1 /\ a.number[1] = "?"
  OBVIOUS
<1>5. \A k \in 1..Q : a.note[k] # ":"
  <2>1. CASE a.note = <<>>
    <3>1. Len(a.note) = 0
      BY <2>1
    <3>2. QED
      BY <3>1
  <2>2. CASE a.note = Note
    <3>1. Len(Note) = 6 /\ \A k \in 1..6 : Note[k] # ":"
      BY NoteParts
    <3>2. QED
      BY <2>2, <3>1
  <2>3. QED
    BY <1>3, <2>1, <2>2
<1>6. ~IsFileLine(AfterAt(s))
  BY NoPlaceBehindAt
<1>7. ~(EndsInParens(s) /\ IsFileLine(InParens(s)))
  BY NoPlaceInParens
<1>8. \A k \in 2..(N + F + 1) : s[k] = ":" /\ InName(s[k - 1]) => s[k + 1] # "9"
  BY <1>0, NoMatchBefore
<1>9. N \in Nat /\ F \in Nat /\ Q \in Nat
  BY <1>2, <1>3
<1>10. /\ s[N + F + 2 + 1] = "?" /\ Len(s) = N + F + 2 + 1 + Q
       /\ \A k \in 1..Q : s[N + F + 2 + 1 + k] = a.note[k]
  <2> HIDE DEF s, N, F, Q, M
  <2>1. N + F + M + 2 = N + F + 2 + 1 /\ N + F + M + 2 + Q = N + F + 2 + 1 + Q /\ 1 \in 1..M
    BY <1>4, <1>9
  <2>2. s[N + F + 2 + 1] = a.number[1]
    BY <1>2, <2>1
  <2>3. \A k \in 1..Q : s[N + F + 2 + 1 + k] = a.note[k]
    BY <1>2, <2>1
  <2>4. QED
    BY <1>2, <1>4, <2>1, <2>2, <2>3
<1> HIDE DEF s, N, F, Q, M
<1>11. Quiet(s)
  <2> SUFFICES ASSUME NEW k \in 2..(Len(s) - 1), s[k] = ":", InName(s[k - 1]) PROVE s[k + 1] # "9"
    BY DEF Quiet
  <2>1. CASE k <= N + F + 1
    BY <1>8, <1>9, <2>1
  <2>2. CASE k = N + F + 2
    BY <1>10, <2>2
  <2>3. CASE k = N + F + 2 + 1
    BY <1>10, <2>3
  <2>4. CASE k > N + F + 2 + 1
    <3>1. k - (N + F + 2 + 1) \in 1..Q /\ k = N + F + 2 + 1 + (k - (N + F + 2 + 1))
      BY <1>9, <1>10, <2>4
    <3>2. QED
      BY <1>5, <1>10, <3>1
  <2>5. QED
    BY <1>9, <2>1, <2>2, <2>3, <2>4
<1>12. RawMatch(s) = <<>>
  BY <1>1, <1>11, NothingMatches
<1>13. QED
  BY <1>6, <1>7, <1>12 DEF ExtractFileLine, s

(* With a number the place is found, with or without a note behind it.     *)
LEMMA PlaceOnLinux ==
    ASSUME NEW a \in AnyAnswers, FitsAddr2line(a), a.number # <<"?">>, ~MisleadsAddr2line(a)
    PROVE  ExtractFileLine(ResolvedOnLinux(Addr2line(a))) = PlaceIn(a)
<1> DEFINE s == ResolvedOnLinux(Addr2line(a))
           second == PlaceIn(a) \o a.note
           first == a.name \o <<"@">>
           N == Len(a.name)
           F == Len(a.file)
           M == Len(a.number)
<1>1. /\ s = first \o second
      /\ second \in Seq(Tokens) /\ s \in Seq(Tokens)
  BY ReadOnLinux
<1>2. /\ a.name \in Seq(Tokens) /\ N \in Nat
      /\ F \in Nat \ {0} /\ M \in Nat \ {0}
      /\ \A k \in 1..M : a.number[k] = "9"
      /\ a.note \in {<<>>, Note}
  BY AnswerParts
<1>3. PlaceIn(a) \in Seq(Tokens) /\ Len(PlaceIn(a)) = F + 1 + M
  BY PlaceParts
<1>4. /\ \A k \in 1..F : a.file[k] # "@"
      /\ a.note # <<>> => ~Numbered(a.name) /\ \A k \in 1..F : InName(a.file[k])
  <2>1. /\ ~HasAt(a.file)
        /\ a.note # <<>> => ~Numbered(a.name) /\ \A k \in DOMAIN a.file : InName(a.file[k])
    BY DEF MisleadsAddr2line
  <2>2. DOMAIN a.file = 1..F
    BY AnswerParts, LenProperties
  <2>3. QED
    BY <2>1, <2>2 DEF HasAt
<1>5. CASE a.note = <<>>
  <2>1. second = PlaceIn(a)
    BY <1>3, <1>5, ConcatEmptySeq
  <2>0. AfterAt(s) = second /\ HasAt(s)
    <3> DEFINE B == {"@"}
    <3>1. ":" \notin B /\ "?" \notin B /\ "9" \notin B /\ \A k \in 1..Len(a.file) : a.file[k] \notin B
      BY <1>4
    <3> HIDE DEF B
    <3>2. \A k \in 1..Len(PlaceIn(a)) : PlaceIn(a)[k] \notin B
      BY <3>1, PlaceTokens
    <3> HIDE DEF second
    <3>3. \A k \in 1..Len(second) : second[k] # "@"
      BY <2>1, <3>2 DEF B
    <3>4. AfterAt(first \o second) = second /\ HasAt(first \o second)
      BY <1>1, <1>2, <3>3, AfterAtIs
    <3>5. QED
      BY <1>1, <3>4
  <2>2. IsFileLine(PlaceIn(a))
    BY PlaceIsFileLine
  <2> HIDE DEF s, second
  <2>3. QED
    BY <2>0, <2>1, <2>2 DEF ExtractFileLine, s
<1>6. CASE a.note = Note
  <2>1. ~IsFileLine(AfterAt(s))
    BY <1>6, NoPlaceBehindAt
  <2>2. ~(EndsInParens(s) /\ IsFileLine(InParens(s)))
    BY <1>6, NoPlaceInParens
  <2>3. /\ Len(s) = N + F + M + 2 + Len(a.note)
        /\ s[N + 1] = "@"
        /\ \A k \in 1..F : s[N + 1 + k] = a.file[k]
        /\ s[N + F + 2] = ":"
        /\ \A k \in 1..M : s[N + F + 2 + k] = a.number[k]
        /\ \A k \in 1..Len(a.note) : s[N + F + M + 2 + k] = a.note[k]
    BY ReadOnLinux
  <2>4. Len(a.note) = 6 /\ a.note[1] = "_"
    BY <1>6, NoteParts
  <2>m. ~Numbered(a.name) /\ \A k \in 1..F : InName(a.file[k])
    <3>4. a.note # <<>>
      BY <1>6, SomeNote
    <3>5. QED
      BY <1>4, <3>4
  <2>5. \A k \in 2..(N + F + 1) : s[k] = ":" /\ InName(s[k - 1]) => s[k + 1] # "9"
    <3>1. a.file \in Seq(Tokens)
      BY AnswerParts
    <3>2. F \in Nat
      BY <1>2
    <3>3. Quiet(a.file)
      BY <2>m, <3>2 DEF Quiet, InName
    <3>4. ~Numbered(a.file)
      BY <3>1, <3>3, QuietIs
    <3>5. QED
      BY <2>m, <3>4, NoMatchBefore
  <2>6. \A k \in 1..(F + 1 + M) : s[N + 1 + k] = PlaceIn(a)[k]
    <3>1. first \in Seq(Tokens) /\ Len(first) = N + 1
      BY <1>2, OneToken, TwoParts
    <3>2. Note \in Seq(Tokens)
      BY NoteParts
    <3>3. s = (first \o PlaceIn(a)) \o Note
      <4> HIDE DEF s, first
      <4>1. (first \o PlaceIn(a)) \o Note = first \o (PlaceIn(a) \o Note)
        BY <1>3, <3>1, <3>2, Grouped
      <4>2. QED
        BY <1>1, <1>6, <4>1
    <3> HIDE DEF s, first, second, N, F, M
    <3>4. N + 1 \in Nat /\ F + 1 + M \in Nat
      BY <1>2
    <3>5. /\ first \o PlaceIn(a) \in Seq(Tokens) /\ Len(first \o PlaceIn(a)) = N + 1 + (F + 1 + M)
          /\ \A k \in 1..(F + 1 + M) : (first \o PlaceIn(a))[N + 1 + k] = PlaceIn(a)[k]
      <4>1. /\ first \o PlaceIn(a) \in Seq(Tokens)
            /\ Len(first \o PlaceIn(a)) = Len(first) + Len(PlaceIn(a))
            /\ \A k \in 1..Len(PlaceIn(a)) : (first \o PlaceIn(a))[Len(first) + k] = PlaceIn(a)[k]
        BY <1>3, <3>1, TwoParts
      <4>2. QED
        BY <1>3, <3>1, <4>1
    <3>6. \A k \in 1..(N + 1 + (F + 1 + M)) : s[k] = (first \o PlaceIn(a))[k]
      BY <3>2, <3>3, <3>5, TwoParts
    <3>7. \A k \in 1..(F + 1 + M) : N + 1 + k \in 1..(N + 1 + (F + 1 + M))
      BY <3>4
    <3>8. QED
      BY <3>5, <3>6, <3>7
  <2> DEFINE start == N + 2
             colon == N + F + 2
             end == N + F + M + 2
  <2>n. N \in Nat /\ F \in Nat /\ F > 0 /\ M \in Nat /\ M > 0
    BY <1>2
  <2> HIDE DEF s, N, F, M
  <2>7. \A k \in start..(colon - 1) : InName(s[k])
    <3> SUFFICES ASSUME NEW k \in start..(colon - 1) PROVE InName(s[k])
      OBVIOUS
    <3>1. k - (N + 1) \in 1..F /\ k = N + 1 + (k - (N + 1))
      BY <2>n
    <3>2. s[N + 1 + (k - (N + 1))] = a.file[k - (N + 1)]
      BY <2>3, <3>1
    <3>3. QED
      BY <2>m, <3>1, <3>2
  <2>8. \A k \in (colon + 1)..end : s[k] = "9"
    <3> SUFFICES ASSUME NEW k \in (colon + 1)..end PROVE s[k] = "9"
      OBVIOUS
    <3>1. k - (N + F + 2) \in 1..M /\ k = N + F + 2 + (k - (N + F + 2))
      BY <2>n
    <3>2. QED
      BY <1>2, <2>3, <3>1
  <2>9. /\ start \in Nat /\ colon \in Nat /\ end \in Nat
        /\ 1 < start /\ start < colon /\ colon < end
        /\ colon - 1 = N + F + 1 /\ start - 1 = N + 1
    BY <2>n
  <2>10. Len(s) = end + 6
    BY <2>n, <2>3, <2>4
  <2>11. end < Len(s)
    BY <2>9, <2>10
  <2>12. s[end + 1] = "_" /\ ~InName(s[start - 1]) /\ s[colon] = ":"
    <3>1. 1 \in 1..6
      OBVIOUS
    <3>2. s[end + 1] = "_"
      BY <2>3, <2>4, <3>1
    <3>3. ~InName(s[start - 1])
      BY <2>3, <2>9 DEF InName, Spaces
    <3>4. QED
      BY <2>3, <3>2, <3>3
  <2>13. \A k \in 2..(colon - 1) : s[k] = ":" /\ InName(s[k - 1]) => s[k + 1] # "9"
    BY <2>5, <2>9
  <2> DEFINE t == SubSeq(s, start, end)
  <2>14. t = PlaceIn(a)
    <3>1. end - start + 1 = F + 1 + M /\ \A k \in 1..(F + 1 + M) : start + k - 1 = N + 1 + k
      BY <2>n
    <3> HIDE DEF start, end
    <3>2. \A k \in start..end : s[k] \in Tokens
      <4>1. \A k \in start..end : k \in 1..Len(s)
        BY <2>9, <2>10
      <4>2. s \in Seq(Tokens)
        BY <1>1
      <4>3. QED
        BY <4>1, <4>2, ElementOfSeq
    <3>3. /\ t \in Seq(Tokens) /\ Len(t) = IF start <= end THEN end - start + 1 ELSE 0
          /\ \A k \in 1..(end - start + 1) : t[k] = s[start + k - 1]
      BY <2>9, <3>2, SubSeqProperties
    <3> HIDE DEF t
    <3>4. Len(t) = F + 1 + M
      BY <2>9, <3>1, <3>3
    <3>5. \A k \in 1..(F + 1 + M) : t[k] = PlaceIn(a)[k]
      BY <2>6, <3>1, <3>3
    <3>6. QED
      BY <1>3, <3>3, <3>4, <3>5, SeqEqual
  <2> HIDE DEF start, colon, end, t
  <2>15. RawMatch(s) = t
    BY <1>1, <2>7, <2>8, <2>9, <2>11, <2>12, <2>13, PlaceMatches DEF t
  <2>16. QED
    BY <2>1, <2>2, <2>14, <2>15 DEF ExtractFileLine, s
<1>7. QED
  BY <1>2, <1>5, <1>6

(* What ResolveAddress returns of an answer of atos that fits.             *)
AtosHead(a) == a.name \o <<"_", "(", "l", ")", "_">>
AtosTail(a) == IF a.number = <<"?">> THEN <<"+", "_", "9">> ELSE <<"(">> \o PlaceIn(a) \o <<")">>

LEMMA StaysQuiet ==
    ASSUME NEW u \in Seq(Tokens), Quiet(u),
           NEW v \in Seq(Tokens), \A k \in 1..Len(v) : v[k] \notin {":", "9"}
    PROVE  Quiet(u \o v)
<1> DEFINE s == u \o v
<1>1. /\ Len(u) \in Nat /\ Len(v) \in Nat /\ Len(s) = Len(u) + Len(v)
      /\ \A k \in 1..Len(u) : s[k] = u[k]
      /\ \A k \in 1..Len(v) : s[Len(u) + k] = v[k]
  BY TwoParts
<1> HIDE DEF s
<1>2. ASSUME NEW k \in 2..(Len(s) - 1), s[k] = ":", InName(s[k - 1])
      PROVE  s[k + 1] # "9"
  <2>1. CASE k < Len(u)
    <3>1. k \in 2..(Len(u) - 1) /\ k \in 1..Len(u) /\ k + 1 \in 1..Len(u) /\ k - 1 \in 1..Len(u)
      BY <1>1, <2>1
    <3>2. QED
      BY <1>1, <1>2, <3>1 DEF Quiet
  <2>2. CASE k >= Len(u)
    <3>1. k + 1 - Len(u) \in 1..Len(v) /\ k + 1 = Len(u) + (k + 1 - Len(u))
      BY <1>1, <2>2
    <3>2. QED
      BY <1>1, <3>1
  <2>3. QED
    BY <1>1, <2>1, <2>2
<1>3. QED
  BY <1>2 DEF Quiet, s

LEMMA AtosHeadParts ==
    ASSUME NEW a \in AnyAnswers
    PROVE  /\ AtosHead(a) \in Seq(Tokens)
           /\ \A k \in 1..Len(AtosHead(a)) : AtosHead(a)[k] # NL
           /\ ~Numbered(a.name) => Quiet(AtosHead(a))
<1> DEFINE pre == <<"_", "(", "l", ")", "_">>
           B == {NL}
<1>1. a.name \in Seq(Tokens) /\ \A k \in 1..Len(a.name) : a.name[k] \notin B
  BY AnswerParts
<1>2. pre \in Seq(Tokens) /\ \A k \in 1..Len(pre) : pre[k] \notin B \cup {":", "9"}
  <2>1. \A k \in 1..5 : k \in {1, 2, 3, 4, 5}
    OBVIOUS
  <2>2. /\ Len(pre) = 5 /\ pre[1] = "_" /\ pre[2] = "(" /\ pre[3] = "l" /\ pre[4] = ")"
        /\ pre[5] = "_"
    OBVIOUS
  <2>3. pre \in Seq(Tokens)
    BY DEF Tokens
  <2> HIDE DEF pre
  <2>4. \A k \in 1..5 : pre[k] \in {"_", "(", "l", ")"}
    BY <2>1, <2>2
  <2>5. QED
    BY <2>2, <2>3, <2>4 DEF NL
<1> HIDE DEF pre, B
<1>3. /\ a.name \o pre \in Seq(Tokens)
      /\ \A k \in 1..Len(a.name \o pre) : (a.name \o pre)[k] \notin B
  BY <1>1, <1>2, NeitherHas
<1>4. ~Numbered(a.name) => Quiet(a.name \o pre)
  BY <1>1, <1>2, QuietIs, StaysQuiet
<1>5. QED
  BY <1>3, <1>4 DEF AtosHead, pre, B

LEMMA AtosTailParts ==
    ASSUME NEW a \in AnyAnswers
    PROVE  /\ AtosTail(a) \in Seq(Tokens)
           /\ \A k \in 1..Len(AtosTail(a)) : AtosTail(a)[k] # NL
<1> DEFINE B == {NL}
<1>1. CASE a.number = <<"?">>
  <2> DEFINE t == <<"+", "_", "9">>
  <2>1. AtosTail(a) = t
    BY <1>1 DEF AtosTail
  <2>2. t \in Seq(Tokens)
    BY DEF Tokens
  <2>3. Len(t) = 3 /\ t[1] = "+" /\ t[2] = "_" /\ t[3] = "9" /\ \A k \in 1..3 : k \in {1, 2, 3}
    OBVIOUS
  <2>4. \A k \in 1..3 : t[k] \notin B
    BY <2>3 DEF NL
  <2> HIDE DEF t
  <2>5. QED
    BY <2>1, <2>2, <2>3, <2>4
<1>2. CASE a.number # <<"?">>
  <2> DEFINE open == <<"(">>
             close == <<")">>
             op == open \o PlaceIn(a)
  <2>1. /\ open \in Seq(Tokens) /\ \A k \in 1..Len(open) : open[k] \notin B
        /\ close \in Seq(Tokens) /\ \A k \in 1..Len(close) : close[k] \notin B
    <3>1. /\ open \in Seq(Tokens) /\ Len(open) = 1 /\ open[1] = "("
          /\ close \in Seq(Tokens) /\ Len(close) = 1 /\ close[1] = ")"
      BY OneToken
    <3>2. "(" \notin B /\ ")" \notin B
      BY DEF NL
    <3> HIDE DEF open, close, B
    <3>3. QED
      BY <3>1, <3>2
  <2>2. PlaceIn(a) \in Seq(Tokens) /\ \A k \in 1..Len(PlaceIn(a)) : PlaceIn(a)[k] \notin B
    <3>1. ":" \notin B /\ "?" \notin B /\ "9" \notin B /\ \A k \in 1..Len(a.file) : a.file[k] \notin B
      BY AnswerParts DEF NL
    <3> HIDE DEF B
    <3>2. QED
      BY <3>1, PlaceParts, PlaceTokens
  <2>3. AtosTail(a) = op \o close
    BY <1>2 DEF AtosTail
  <2> HIDE DEF open, close, B
  <2>4. op \in Seq(Tokens) /\ \A k \in 1..Len(op) : op[k] \notin B
    BY <2>1, <2>2, NeitherHas
  <2> HIDE DEF op
  <2>5. op \o close \in Seq(Tokens) /\ \A k \in 1..Len(op \o close) : (op \o close)[k] \notin B
    BY <2>1, <2>4, NeitherHas
  <2>6. QED
    BY <2>3, <2>5 DEF B
<1>3. QED
  BY <1>1, <1>2

LEMMA ReadOnMac ==
    ASSUME NEW a \in AnyAnswers, FitsAtos(a)
    PROVE  LET s == ResolvedOnMac(Atos(a)) IN
           /\ s = AtosHead(a) \o AtosTail(a)
           /\ s \in Seq(Tokens)
<1> DEFINE u == AtosHead(a) \o AtosTail(a)
           B == {NL}
<1>1. /\ AtosHead(a) \in Seq(Tokens)
      /\ \A k \in 1..Len(AtosHead(a)) : AtosHead(a)[k] \notin B
  BY AtosHeadParts
<1>2. /\ AtosTail(a) \in Seq(Tokens)
      /\ \A k \in 1..Len(AtosTail(a)) : AtosTail(a)[k] \notin B
  BY AtosTailParts
<1> HIDE DEF B
<1>3. u \in Seq(Tokens) /\ \A k \in 1..Len(u) : u[k] \notin B
  BY <1>1, <1>2, NeitherHas
<1>4. Atos(a) = u \o <<NL>>
  BY DEF Atos, AtosHead, AtosTail
<1> HIDE DEF u
<1>5. Len(u) < LineLimit
  <2>1. <<NL>> \in Seq(Tokens) /\ Len(<<NL>>) = 1
    BY OneToken
  <2>2. Len(u \o <<NL>>) = Len(u) + 1 /\ Len(u) \in Nat
    BY <1>3, <2>1, TwoParts
  <2>3. QED
    BY <1>4, <2>2, LineLimitAssumption DEF FitsAtos
<1>6. Chomp(Fgets(Atos(a))) = u
  <2>1. \A k \in 1..Len(u) : u[k] # NL
    BY <1>3 DEF B
  <2>2. <<>> \in Seq(Tokens)
    OBVIOUS
  <2>3. Chomp(Fgets((u \o <<NL>>) \o <<>>)) = u
    BY <1>3, <1>5, <2>1, <2>2, WholeLine
  <2>4. u \o <<NL>> \in Seq(Tokens)
    BY <1>3, OneToken, TwoParts
  <2>5. (u \o <<NL>>) \o <<>> = u \o <<NL>>
    BY <2>4, ConcatEmptySeq
  <2>6. QED
    BY <1>4, <2>3, <2>5
<1>7. QED
  BY <1>3, <1>6 DEF ResolvedOnMac, u

(* A place in parentheses at the end is found, whatever is in the name: a  *)
(* text that ends in a parenthesis has no place behind an " at ".          *)
LEMMA PlaceOnMac ==
    ASSUME NEW a \in AnyAnswers, FitsAtos(a), a.number # <<"?">>, ~MisleadsAtos(a)
    PROVE  ExtractFileLine(ResolvedOnMac(Atos(a))) = PlaceIn(a)
<1> DEFINE s == ResolvedOnMac(Atos(a))
           head == AtosHead(a)
           place == PlaceIn(a)
           open == <<"(">>
           close == <<")">>
<1>1. s = head \o ((open \o place) \o close) /\ s \in Seq(Tokens)
  BY ReadOnMac DEF AtosTail
<1>2. /\ head \in Seq(Tokens) /\ place \in Seq(Tokens)
      /\ open \in Seq(Tokens) /\ close \in Seq(Tokens)
      /\ Len(close) = 1 /\ close[1] = ")"
  BY AtosHeadParts, PlaceParts, OneToken
<1>3. \A k \in 1..Len(place) : place[k] # "("
  <2> DEFINE B == {"("}
  <2>1. DOMAIN a.file = 1..Len(a.file)
    BY AnswerParts, LenProperties
  <2>2. ":" \notin B /\ "?" \notin B /\ "9" \notin B /\ \A k \in 1..Len(a.file) : a.file[k] \notin B
    BY <2>1 DEF MisleadsAtos
  <2> HIDE DEF B
  <2>3. \A k \in 1..Len(PlaceIn(a)) : PlaceIn(a)[k] \notin B
    BY <2>2, PlaceTokens
  <2>4. QED
    BY <2>3 DEF B
<1>4. IsFileLine(place)
  BY PlaceIsFileLine
<1>5. s = (head \o open) \o (place \o close)
  <2> HIDE DEF s, head, place, open, close
  <2>1. (open \o place) \o close = open \o (place \o close)
    BY <1>2, Grouped
  <2>2. place \o close \in Seq(Tokens)
    BY <1>2, TwoParts
  <2>3. (head \o open) \o (place \o close) = head \o (open \o (place \o close))
    BY <1>2, <2>2, Grouped
  <2>4. QED
    BY <1>1, <2>1, <2>3
<1>6. ~IsFileLine(AfterAt(s))
  <2> DEFINE most == head \o (open \o place)
  <2> HIDE DEF s, head, place, open, close
  <2>1. open \o place \in Seq(Tokens)
    BY <1>2, TwoParts
  <2>2. most \in Seq(Tokens) /\ s = most \o close
    <3>1. (head \o (open \o place)) \o close = head \o ((open \o place) \o close)
      BY <1>2, <2>1, Grouped
    <3>2. head \o (open \o place) \in Seq(Tokens)
      BY <1>2, <2>1, TwoParts
    <3>3. QED
      BY <1>1, <3>1, <3>2
  <2> HIDE DEF most
  <2>3. Len(most) \in Nat /\ Len(s) = Len(most) + 1 /\ s[Len(most) + 1] = ")"
    <3>1. /\ Len(most) \in Nat /\ Len(most \o close) = Len(most) + Len(close)
          /\ \A k \in 1..Len(close) : (most \o close)[Len(most) + k] = close[k]
      BY <1>2, <2>2, TwoParts
    <3>2. 1 \in 1..1
      OBVIOUS
    <3>3. QED
      BY <1>2, <2>2, <3>1, <3>2
  <2> DEFINE n == Len(s)
  <2>4. n \in 1..Len(s) /\ s[n] # "9" /\ \A k \in n..Len(s) : s[k] \notin {":", "@"}
    <3>1. \A k \in n..Len(s) : k = Len(most) + 1
      BY <2>3
    <3>2. n \in 1..Len(s)
      BY <2>3
    <3>3. QED
      BY <2>3, <3>1, <3>2
  <2> HIDE DEF n
  <2>5. QED
    BY <1>1, <2>4, NoPlaceAtEnd
<1> HIDE DEF s, head, place
<1>7. EndsInParens(s) /\ InParens(s) = place
  BY <1>2, <1>3, <1>5, InParensIs
<1>8. QED
  BY <1>4, <1>6, <1>7 DEF ExtractFileLine, s, place

LEMMA NoPlaceOnMac ==
    ASSUME NEW a \in AnyAnswers, FitsAtos(a), a.number = <<"?">>, ~MisleadsAtos(a)
    PROVE  ExtractFileLine(ResolvedOnMac(Atos(a))) = <<>>
<1> DEFINE s == ResolvedOnMac(Atos(a))
           head == AtosHead(a)
           t == <<"+", "_", "9">>
           H == Len(head)
<1>1. s = head \o t /\ s \in Seq(Tokens)
  BY ReadOnMac DEF AtosTail
<1>2. /\ head \in Seq(Tokens) /\ Quiet(head)
  BY AtosHeadParts DEF MisleadsAtos
<1>3. t \in Seq(Tokens)
  BY DEF Tokens
<1>4. Len(t) = 3 /\ t[1] = "+" /\ t[2] = "_" /\ t[3] = "9"
  OBVIOUS
<1> HIDE DEF s, head, t
<1>5. /\ H \in Nat /\ Len(s) = H + 3
      /\ \A k \in 1..H : s[k] = head[k]
      /\ s[H + 1] = "+" /\ s[H + 2] = "_" /\ s[H + 3] = "9"
  <2>1. /\ H \in Nat /\ Len(s) = H + 3
        /\ \A k \in 1..H : s[k] = head[k]
        /\ \A k \in 1..3 : s[H + k] = t[k]
    <3>1. /\ Len(head) \in Nat /\ Len(head \o t) = Len(head) + Len(t)
          /\ \A k \in 1..Len(head) : (head \o t)[k] = head[k]
          /\ \A k \in 1..Len(t) : (head \o t)[Len(head) + k] = t[k]
      BY <1>2, <1>3, TwoParts
    <3>2. QED
      BY <1>1, <1>4, <3>1
  <2>2. 1 \in 1..3 /\ 2 \in 1..3 /\ 3 \in 1..3
    OBVIOUS
  <2>3. QED
    BY <1>4, <2>1, <2>2
<1> HIDE DEF H
<1>n. H \in Nat /\ Len(s) - 1 = H + 2
  <2>1. H \in Nat /\ Len(s) = H + 3
    BY <1>5
  <2>2. QED
    BY <2>1
<1>6. ~EndsInParens(s)
  BY <1>5 DEF EndsInParens, Last
<1>0. ~IsFileLine(AfterAt(s))
  <2>0. H \in Nat /\ Len(s) = H + 3
    BY <1>5
  <2>1. H + 2 \in 1..Len(s) /\ s[H + 2] # "9"
    <3>1. H + 2 \in 1..Len(s)
      BY <2>0
    <3>2. QED
      BY <1>5, <3>1
  <2>2. \A k \in (H + 2)..Len(s) : s[k] \in {"_", "9"}
    <3>1. \A k \in (H + 2)..Len(s) : k = H + 2 \/ k = H + 3
      BY <2>0
    <3>2. QED
      BY <1>5, <3>1
  <2>3. QED
    BY <1>1, <2>1, <2>2, NoPlaceAtEnd
<1>7. Quiet(s)
  <2> SUFFICES ASSUME NEW k \in 2..(Len(s) - 1), s[k] = ":", InName(s[k - 1]) PROVE s[k + 1] # "9"
    BY DEF Quiet
  <2>1. CASE k < H
    <3>1. k \in 2..(H - 1) /\ k \in 1..H /\ k + 1 \in 1..H /\ k - 1 \in 1..H
      BY <1>n, <2>1
    <3>2. QED
      BY <1>2, <1>5, <3>1 DEF Quiet, H
  <2>2. CASE k = H
    BY <1>5, <2>2
  <2>3. CASE k = H + 1 \/ k = H + 2
    BY <1>5, <2>3
  <2>4. k \in 1..(H + 2)
    BY <1>n
  <2>5. QED
    BY <1>n, <2>1, <2>2, <2>3, <2>4
<1>8. RawMatch(s) = <<>>
  BY <1>1, <1>7, NothingMatches
<1>9. QED
  BY <1>0, <1>6, <1>8 DEF ExtractFileLine, s

(* On both systems, what ExtractFileLine finds is the place that the tool  *)
(* printed and nothing else, or nothing when it has no line number,        *)
(* however long the names are and whatever characters are in them, for     *)
(* every answer that is readable: its lines fit in the buffers, and it is  *)
(* none of those that mislead the search.                                  *)
THEOREM LocationIsPlace ==
    ASSUME NEW a \in AnyAnswers, Readable(a)
    PROVE  Location(a) = Place(a)
<1>e. a # NoAnswer
  <2>1. Len(a.number) # 0
    BY AnswerParts
  <2>2. Len(NoAnswer.number) = 0
    BY DEF NoAnswer
  <2>3. QED
    BY <2>1, <2>2
<1>1. CASE OnMac
  <2>1. Location(a) = ExtractFileLine(ResolvedOnMac(Atos(a))) /\ FitsAtos(a) /\ ~MisleadsAtos(a)
    BY <1>e, <1>1 DEF Location, Readable
  <2>2. QED
    BY <2>1, PlaceOnMac, NoPlaceOnMac DEF Place
<1>2. CASE ~OnMac
  <2>1. Location(a) = ExtractFileLine(ResolvedOnLinux(Addr2line(a))) /\ FitsAddr2line(a) /\ ~MisleadsAddr2line(a)
    BY <1>e, <1>2 DEF Location, Readable
  <2>2. QED
    BY <2>1, PlaceOnLinux, NoPlaceOnLinux DEF Place
<1>3. QED
  BY <1>1, <1>2

(* A line shows the place that the tool found for its address, whole, or   *)
(* what it would show without a tool, for every build, call stack, method  *)
(* of printing and size of the buffers.                                    *)
THEOREM PlacesAreWhole == TraceSpec => []PlaceIsWhole
<1>1. TraceInit => PlaceIsWhole
  BY DEF TraceInit, NoLine, PlaceIsWhole
<1>2. PlaceIsWhole /\ [TraceNext]_traceVars => PlaceIsWhole'
  <2>1. SUFFICES ASSUME PlaceIsWhole, [TraceNext]_traceVars
                 PROVE  PlaceIsWhole'
    OBVIOUS
  <2>2. ASSUME UNCHANGED <<build, line>> PROVE PlaceIsWhole'
    BY <2>1, <2>2 DEF PlaceIsWhole, Readable, OnMac
  <2>3. CASE Construct \/ CaptureFrame \/ Captured \/ Rendered \/ UNCHANGED traceVars
    BY <2>2, <2>3 DEF Construct, CaptureFrame, Captured, Rendered, given, traceVars
  <2>4. CASE RenderFrame
    <3> DEFINE f == frames_[i]
    <3>1. build' = build
      BY <2>4 DEF RenderFrame, given
    <3>2. PICK a \in IF AsksTool(f) THEN ToolAnswers(f) ELSE {NoAnswer} :
             line' = [answer |-> a,
                      place |-> IF Location(a) # <<>> THEN Location(a)
                                ELSE IF SourceKnown(f) THEN SourcePlace
                                ELSE IF f.filename THEN Module
                                ELSE <<>>]
      BY <2>4 DEF RenderFrame
    <3>3. line'.answer = a
      BY <3>2
    <3>4. SUFFICES ASSUME a # NoAnswer, Readable(a)
                   PROVE  IF Place(a) = <<>> THEN line'.place \in {SourcePlace, Module, <<>>}
                          ELSE line'.place = Place(a)
      BY <3>1, <3>3 DEF PlaceIsWhole, Readable, OnMac
    <3>5. a \in AnyAnswers
      BY <3>2, <3>4, AnswersAreAny DEF ToolAnswers
    <3>6. Location(a) = Place(a)
      BY <3>4, <3>5, LocationIsPlace
    <3>7. line'.place = IF Place(a) # <<>> THEN Place(a)
                        ELSE IF SourceKnown(f) THEN SourcePlace
                        ELSE IF f.filename THEN Module ELSE <<>>
      BY <3>2, <3>6
    <3>8. QED
      BY <3>7
  <2>5. QED
    BY <2>1, <2>3, <2>4 DEF TraceNext
<1>3. QED
  BY <1>1, <1>2, PTL DEF TraceSpec
============================================================================
