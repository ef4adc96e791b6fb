------------------------------ MODULE BackEnds ------------------------------
(***************************************************************************)
(* What the build makes of the class Stacktrace: which source files CMake  *)
(* lists and which macros it defines (src/stacktrace/CMakeLists.txt), and  *)
(* which definitions of CaptureImpl the #if lines then leave in.           *)
(***************************************************************************)
Configurations ==
    [system : {"Linux", "Darwin", "other"}, useBoost : BOOLEAN, boostRoot : BOOLEAN,
     useLibunwind : BOOLEAN, libunwindFound : BOOLEAN]

HasBoost(c) == c.useBoost /\ c.boostRoot
HasLibunwind(c) == c.system = "Darwin" /\ ~HasBoost(c) /\ c.useLibunwind /\ c.libunwindFound

Sources(c) ==
    {"Stacktrace.cpp"}
    \cup (IF c.system = "Linux" /\ ~HasBoost(c) THEN {"StacktraceLinuxNative.cpp"} ELSE {})
    \cup (IF c.system = "Darwin" /\ ~HasBoost(c) THEN {"StacktraceMacNative.cpp"} ELSE {})
    \cup (IF c.system = "other" THEN {"StacktraceFallback.cpp"} ELSE {})

(* Faulty variant: the definition of STACKTRACE_HAS_BOOST is missing.      *)
DefinesWithoutBoost(c) ==
    (IF c.system = "Linux" THEN {"PLATFORM_LINUX"} ELSE {})
    \cup (IF c.system = "Darwin" THEN {"PLATFORM_MAC"} ELSE {})
    \cup (IF HasLibunwind(c) THEN {"HAS_LIBUNWIND"} ELSE {})

Defines(c) ==
    (IF HasBoost(c) THEN {"HAS_BOOST"} ELSE {})
    \cup (IF c.system = "Linux" THEN {"PLATFORM_LINUX"} ELSE {})
    \cup (IF c.system = "Darwin" THEN {"PLATFORM_MAC"} ELSE {})
    \cup (IF HasLibunwind(c) THEN {"HAS_LIBUNWIND"} ELSE {})

(* The #if lines around CaptureImpl in the file, for these macros.         *)
Compiles(file, defined) ==
    CASE file = "Stacktrace.cpp" -> "HAS_BOOST" \in defined
      [] file = "StacktraceLinuxNative.cpp" -> "PLATFORM_LINUX" \in defined /\ "HAS_BOOST" \notin defined
      [] file = "StacktraceMacNative.cpp" -> "PLATFORM_MAC" \in defined /\ "HAS_BOOST" \notin defined
      [] file = "StacktraceFallback.cpp" ->
            defined \cap {"HAS_BOOST", "PLATFORM_LINUX", "PLATFORM_MAC"} = {}

(* All that the library still shows of its configuration.  __APPLE__ is    *)
(* the compiler's own.                                                     *)
Build(c) ==
    [captureImpls |-> {file \in Sources(c) : Compiles(file, Defines(c))},
     defines |-> Defines(c), apple |-> c.system = "Darwin"]
============================================================================
