----------------------------- MODULE Stacktrace ----------------------------
(***************************************************************************)
(* The class Stacktrace: CaptureImpl of each back end copies the call      *)
(* stack into frames_, and ToString or ToStringSimple writes one line for  *)
(* each frame (src/stacktrace/src/).  Both are loops that this module      *)
(* steps through.                                                          *)
(*                                                                         *)
(* The call stack is given: level 1 is CaptureImpl, or what the compiler   *)
(* made it a part of; the levels up to library are the library's own, the  *)
(* next one is the caller whose trace is wanted.                           *)
(***************************************************************************)
EXTENDS ResolveAddress, BackEnds

CONSTANTS
    BufferSize,         \* DEFAULT_MAX_FRAMES
    Systems,            \* the systems that the library is built for
    Depths,             \* bound: how deep the call stack is ...
    BoostDepths,        \* ... and in builds with Boost
    LibraryFrames       \* how many of its levels may be the library's

ASSUME StacktraceAssumption ==
    /\ BufferSize \in Nat \ {0}
    /\ Systems \subseteq {"Linux", "Darwin", "other"}
    /\ Depths \cup BoostDepths \cup LibraryFrames \subseteq Nat

VARIABLES
    build,      \* what the library was compiled to, see Build
    depth,      \* of the call stack
    library,    \* levels of it that are the library's
    method,     \* the loop that writes the lines, see Methods
    pc,         \* "construct", "capture", "render" or "done"
    i,          \* the loop counter: the level, or the frame, that is next
    frames_,
    line        \* the line that was written last

given == <<build, depth, library, method>>
traceVars == <<given, pc, i, frames_, line>>
----------------------------------------------------------------------------
Boost == "HAS_BOOST" \in build.defines
Libunwind == "HAS_LIBUNWIND" \in build.defines
OnMac == build.apple

Module == <<"module">>
SourcePlace == <<"s", ":", "9">>
NoAnswer == [name |-> <<>>, file |-> <<>>, number |-> <<>>, note |-> <<>>]
NoLine == [place |-> <<>>, answer |-> NoAnswer]

(* What the back end finds out about an address, besides a symbol, which   *)
(* is only printed: dladdr may know the module, Boost the file and line.   *)
FrameFound(level) ==
    {[address |-> level, filename |-> f, lineNumber |-> Boost /\ f] : f \in BOOLEAN}

(* The native back ends are source files of their own, so that CaptureImpl *)
(* and the constructor, which calls it, are two levels.  With Boost they   *)
(* may be one.                                                             *)
LibraryMayBe(n) == n < depth /\ n >= IF Boost THEN 1 ELSE 2

(* ToString has a loop of its own with Boost, and is ToStringWithLineInfo  *)
(* without; ToStringSimple always is.                                      *)
Methods == IF Boost THEN {"ToString", "ToStringWithLineInfo"} ELSE {"ToStringWithLineInfo"}

TraceInit ==
    /\ build \in {Build(c) : c \in {d \in Configurations : d.system \in Systems}}
    /\ depth \in IF Boost THEN BoostDepths ELSE Depths
    /\ library \in {n \in LibraryFrames : LibraryMayBe(n)}
    /\ method \in Methods
    /\ pc = "construct" /\ i = 1 /\ frames_ = <<>> /\ line = NoLine

CapturedBy(file) == file \in build.captureImpls

(* Faulty variants: one frame too many is skipped; the buffer overruns.    *)
FirstLevelSkippingThree == IF Boost THEN 1 ELSE 4
LastLevelUnbuffered == IF CapturedBy("StacktraceFallback.cpp") THEN 0 ELSE depth

(* Where each loop starts and ends.  backtrace() fills a buffer whose      *)
(* first two addresses are skipped; libunwind takes a step before the loop *)
(* and one in its condition, and stops once frames_ is full; boost starts  *)
(* at the top and has no limit.  The constructor's maxFrames is not among  *)
(* the limits: it only reserves memory.                                    *)
FirstLevel == IF Boost THEN 1 ELSE 3
LastLevel ==
    CASE CapturedBy("Stacktrace.cpp") -> depth
      [] CapturedBy("StacktraceLinuxNative.cpp") -> Min({depth, BufferSize})
      [] CapturedBy("StacktraceMacNative.cpp") -> Min({depth, IF Libunwind THEN BufferSize + 2 ELSE BufferSize})
      [] CapturedBy("StacktraceFallback.cpp") -> 0

Construct ==
    /\ pc = "construct"
    /\ \/ pc' = "capture" /\ i' = FirstLevel
       \/ Libunwind /\ pc' = "render" /\ i' = 1    \* unw_init_local fails
    /\ UNCHANGED <<given, frames_, line>>

CaptureFrame ==
    /\ pc = "capture"
    /\ i <= LastLevel
    /\ \E f \in FrameFound(i) : frames_' = Append(frames_, f)
    /\ i' = i + 1
    /\ UNCHANGED <<given, pc, line>>

Captured ==
    /\ pc = "capture"
    /\ i > LastLevel
    /\ pc' = "render" /\ i' = 1
    /\ UNCHANGED <<given, frames_, line>>
----------------------------------------------------------------------------
(* The command of ResolveAddress prints an answer, or it cannot be run.    *)
(* On macOS it needs the module, which ResolveAddress asks dladdr for, and *)
(* is tried a second time without the load address when the first one      *)
(* prints nothing.  The native frames' file name is dladdr's as well;      *)
(* Boost's says nothing of what dladdr will find.                          *)
ToolAnswers(f) == {NoAnswer} \cup (IF OnMac /\ ~Boost /\ ~f.filename THEN {} ELSE Answers)

(* The file it looks the address up in.  atos is given the module that     *)
(* dladdr found; addr2line opens /proc/self/exe, which is then its own.    *)
ToolReads == IF OnMac THEN "program" ELSE "addr2line"

Location(a) ==
    IF a = NoAnswer THEN <<>>
    ELSE ExtractFileLine(IF OnMac THEN ResolvedOnMac(Atos(a)) ELSE ResolvedOnLinux(Addr2line(a)))

SourceKnown(f) == f.filename /\ f.lineNumber

(* ToString asks for the place of a frame only when the back end knows     *)
(* none; ToStringWithLineInfo always does, and prefers the answer.         *)
AsksTool(f) == method = "ToStringWithLineInfo" \/ ~SourceKnown(f)

(* One turn of the loop in ToString (Boost), or in ToStringWithLineInfo.   *)
RenderFrame ==
    LET f == frames_[i] IN
    /\ pc = "render"
    /\ i <= Len(frames_)
    /\ \E a \in IF AsksTool(f) THEN ToolAnswers(f) ELSE {NoAnswer} :
        LET location == Location(a) IN
        line' = [answer |-> a,
                 place |-> IF location # <<>> THEN location
                           ELSE IF SourceKnown(f) THEN SourcePlace
                           ELSE IF f.filename THEN Module
                           ELSE <<>>]
    /\ i' = i + 1
    /\ UNCHANGED <<given, pc, frames_>>

Rendered ==
    /\ pc = "render"
    /\ i > Len(frames_)
    /\ pc' = "done"
    /\ UNCHANGED <<given, i, frames_, line>>

TraceNext == Construct \/ CaptureFrame \/ Captured \/ RenderFrame \/ Rendered

TraceSpec == TraceInit /\ [][TraceNext]_traceVars
----------------------------------------------------------------------------
FrameRecords == [address : Nat, filename : BOOLEAN, lineNumber : BOOLEAN]
Levels == {frames_[k].address : k \in DOMAIN frames_}

(* The native back ends can hold no more than their buffer.                *)
TraceTypeOK ==
    /\ frames_ \in Seq(FrameRecords)
    /\ ~Boost => Len(frames_) <= BufferSize
    /\ pc \in {"construct", "capture", "render", "done"}

(* Whatever the options, the system and what CMake finds, there is exactly *)
(* one CaptureImpl to link.                                                *)
OneBackEnd == \E file \in build.captureImpls : build.captureImpls = {file}

(* However much of CaptureImpl and its callers the compiler has inlined,   *)
(* as long as a native back end keeps the constructor's call of            *)
(* CaptureImpl a call, a trace that is not empty starts at or above the    *)
(* caller's frame, has no gaps, and loses outer frames only when the       *)
(* buffer is full.                                                         *)
CallerCaptured ==
    (pc = "render" /\ frames_ # <<>> /\ BufferSize > library) =>
        /\ library + 1 \in Levels
        /\ \A k \in DOMAIN frames_ : frames_[k].address = frames_[1].address + k - 1
        /\ depth \notin Levels => ~Boost /\ depth > BufferSize

(* A line shows the place that the tool found for its address, whole, or   *)
(* what it would show without a tool: never half of a place, and never a   *)
(* piece of a function's name.  What can spoil it is a tool's line too     *)
(* long for its buffer, and the answers that mislead the search.           *)
Readable(a) ==
    IF OnMac THEN FitsAtos(a) /\ ~MisleadsAtos(a)
    ELSE FitsAddr2line(a) /\ ~MisleadsAddr2line(a)

PlaceIsWhole ==
    (line.answer # NoAnswer /\ Readable(line.answer)) =>
        IF Place(line.answer) = <<>> THEN line.place \in {SourcePlace, Module, <<>>}
        ELSE line.place = Place(line.answer)

(* What the documents say of addr2line -e /proc/self/exe: it finds the     *)
(* file and line of the program's frames.                                  *)
PlaceOfProgram ==
    line.place \in {<<>>, Module, SourcePlace} \/ ToolReads = "program"
============================================================================
