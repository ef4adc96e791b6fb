----------------------------- MODULE TestSuite -----------------------------
(***************************************************************************)
(* The programs that use the library: the test driver hello                *)
(* (src/src/main.cpp), the five examples, the adapter demo and the unit    *)
(* tests.  Each is reduced to the failures that it provokes, one after     *)
(* another, and to the catch clauses that each of them meets on its way    *)
(* out.  Threads are started and joined at once, so one step at a time is  *)
(* all that happens; that LogStacktrace and the signal handlers do their   *)
(* work is the subject of LogStacktrace and CrashPath.                     *)
(***************************************************************************)
EXTENDS Naturals, Sequences, FiniteSets

CONSTANT Programs       \* the program runs looked at, of AllPrograms
----------------------------------------------------------------------------
(* A failure: what happens, the catch clauses from the inside out, and the *)
(* thread it happens in.  A clause logs, throws the same exception again,  *)
(* throws a new one around it, or drops it.  "traced" is a                 *)
(* StacktraceException, "plain" any other std::exception; what is not an   *)
(* exception and not std::terminate is a signal.                           *)
Clauses == {"log", "rethrow", "nest", "drop"}

Uncaught(e) == [event |-> e, clauses |-> <<>>, thread |-> "main"]
Caught(e, clauses) == [event |-> e, clauses |-> clauses, thread |-> "main"]
InThread(e) == [event |-> e, clauses |-> <<>>, thread |-> "thread"]

(* The test cases of main.cpp, by what they do.                            *)
DeepCallStack == <<Uncaught("traced")>>
NestedExceptions == <<Caught("traced", <<"nest", "log">>)>>
ThreadException == <<InThread("plain")>>
CustomException == <<Uncaught("traced")>>
InvalidMemory == <<Uncaught("SIGSEGV")>>
DivisionByZero == <<Uncaught("SIGFPE")>>
LogicError == <<Uncaught("traced")>>
RuntimeError == <<Uncaught("traced")>>
OutOfRange == <<Uncaught("plain")>>
InvalidArgument == <<Uncaught("traced")>>
LengthError == <<Uncaught("traced")>>
OverflowError == <<Uncaught("traced")>>
UnderflowError == <<Uncaught("traced")>>
RethrowException == <<Caught("traced", <<"rethrow", "log">>)>>
MultipleExceptions == <<Caught("traced", <<"log">>), Caught("traced", <<"log">>)>>
ExceptionWithInner == <<Caught("traced", <<"drop">>), Caught("traced", <<"log">>)>>
FutureException ==
    <<[event |-> "traced", clauses |-> <<"log">>, thread |-> "async"]>>
VoidPointerDereference == <<Uncaught("SIGSEGV")>>
StackOverflow == <<Uncaught("SIGSEGV")>>
Abort == <<Uncaught("SIGABRT")>>
IllegalInstruction == <<Uncaught("SIGILL")>>
Sigtrap == <<Uncaught("SIGTRAP")>>
BadAlloc == <<Uncaught("plain")>>
BadCast == <<Caught("plain", <<"log">>)>>
BadTypeid == <<Caught("plain", <<"log">>)>>
BadException == <<Uncaught("traced")>>
NullFunctionPointer == <<Uncaught("SIGSEGV")>>
AssertionFailure == <<Uncaught("terminate")>>
ExceptionInConstructor == <<Caught("traced", <<"log">>)>>
ExceptionInDestructor == <<Caught("traced", <<"log">>)>>
Sigpipe == <<Uncaught("SIGPIPE")>>
Sigsys == <<Uncaught("SIGSYS")>>
SignalInChildThread == <<InThread("SIGSEGV")>>

(* RunTest's switch.                                                       *)
TestCase == <<
    DeepCallStack, NestedExceptions, ThreadException, CustomException, InvalidMemory,
    DivisionByZero, LogicError, RuntimeError, OutOfRange, InvalidArgument,
    LengthError, OverflowError, UnderflowError, RethrowException, MultipleExceptions,
    ExceptionWithInner, FutureException, VoidPointerDereference, StackOverflow, Abort,
    IllegalInstruction, Sigtrap, BadAlloc, BadCast, BadTypeid,
    BadException, NullFunctionPointer, AssertionFailure, ExceptionInConstructor, ExceptionInDestructor,
    Sigpipe, Sigsys, SignalInChildThread>>

safeTests == <<1, 2, 4, 7, 8, 9, 10, 11, 12, 13, 14, 15, 16, 17, 23, 24, 25, 26>>

(* A program: the tests or the code of main that it runs in turn, whether  *)
(* RunTest's catch clauses are around them, whether it removes the log     *)
(* file first, and what it then sends to its own log by itself.            *)
Hello(cases) == [cases |-> cases, runTest |-> TRUE, removes |-> TRUE, messages |-> <<>>]
Main(failures) == [cases |-> <<failures>>, runTest |-> FALSE, removes |-> FALSE, messages |-> <<>>]

HelloAll == Hello([k \in DOMAIN safeTests |-> TestCase[safeTests[k]]])
HelloOne == {Hello(<<TestCase[k]>>) : k \in DOMAIN TestCase}
HelloOutOfRange == Hello(<<>>)
HelloNotANumber == [Hello(<<<<Uncaught("plain")>>>>) EXCEPT !.runTest = FALSE]    \* std::stoi throws
ExampleNestedCall == Main(<<Caught("traced", <<"log">>)>>)
ExampleSigfpe == Main(<<Uncaught("SIGFPE")>>)
ExampleSigsegv == Main(<<Uncaught("SIGSEGV")>>)
ExampleStackOverflow == Main(<<Uncaught("SIGSEGV")>>)
ExampleUncaughtException == Main(<<Uncaught("plain")>>)
DemoLogAdapter ==
    [Main(<<Caught("plain", <<"log">>)>>) EXCEPT !.messages = <<"INFO", "ERROR">>]
UnitTests == Main(<<Caught("plain", <<"drop">>), Caught("plain", <<"drop">>)>>)

HelloPrograms == {HelloAll, HelloOutOfRange, HelloNotANumber} \cup HelloOne
AllPrograms == HelloPrograms \cup
    {ExampleNestedCall, ExampleSigfpe, ExampleSigsegv, ExampleStackOverflow,
     ExampleUncaughtException, DemoLogAdapter, UnitTests}

ASSUME ProgramsAssumption == Programs \subseteq AllPrograms

VARIABLES
    program,
    pc,         \* "start", "next", "run", "unwind", or "ended"
    test,       \* the case that runs, as an index into program.cases
    failure,    \* its failure that is next, or is under way
    clause,     \* the catch clause that the exception comes to next
    exception,  \* its type, and where the trace that it carries was taken
    log,        \* the entries and records in the log file
    printed,    \* the levels of what the adapter has printed
    status      \* the exit status, once pc is "ended"

suiteVars == <<program, pc, test, failure, clause, exception, log, printed, status>>
----------------------------------------------------------------------------
NoException == [type |-> "none", trace |-> "none"]
Stale == [test |-> 0, failure |-> 0, kind |-> "entry", trace |-> "none"]

(* The signals that Init installs the handler for, and those that the      *)
(* handler has a name for.                                                 *)
Registered == {"SIGSEGV", "SIGBUS", "SIGABRT", "SIGFPE", "SIGILL", "SIGTRAP", "SIGPIPE", "SIGSYS"}
Named == {"SIGSEGV", "SIGABRT", "SIGFPE", "SIGBUS", "SIGILL", "SIGTRAP", "SIGPIPE", "SIGSYS"}
GetSignalName(sig) == IF sig \in Named THEN sig ELSE "UNKNOWN"

Kinds == {"entry", "terminate", "UNKNOWN"} \cup Named

SuiteInit ==
    /\ program \in Programs
    /\ pc = "start" /\ test = 1 /\ failure = 1 /\ clause = 1
    /\ exception = NoException
    /\ log \in {<<>>, <<Stale>>} /\ printed = <<>>
    /\ status = 0

Case == program.cases[test]
Current == Case[failure]
Happens(event) == pc = "run" /\ failure <= Len(Case) /\ Current.event = event
ClauseIs(c) == pc = "unwind" /\ clause <= Len(Current.clauses) /\ Current.clauses[clause] = c
NoClauseLeft == pc = "unwind" /\ clause > Len(Current.clauses)

(* The adapter of the demo, which turns a level into the number that the   *)
(* LOG_DEBUG macro knows it by and prints that number's name.              *)
MapLogLevel == [DEBUG |-> 0, INFO |-> 1, WARN |-> 2, ERROR |-> 3, FATAL |-> 4]
LevelStr == <<"DEBUG", "INFO", "WARN", "ERROR", "FATAL">>
OnlineLogAdapter(levels) ==
    printed' = printed \o [k \in DOMAIN levels |-> LevelStr[MapLogLevel[levels[k]] + 1]]

Record(kind, trace) ==
    log' = Append(log, [test |-> test, failure |-> failure, kind |-> kind, trace |-> trace])

(* LogStacktrace gives each entry to the callback, which only the demo has.*)
HasAdapter == program.messages # <<>>
LogStacktrace(kind, trace) ==
    /\ Record(kind, trace)
    /\ OnlineLogAdapter(IF HasAdapter THEN <<"FATAL">> ELSE <<>>)

(* Faulty variant: the catch clause takes a new trace.                     *)
TraceTakenAgain == "catch"

(* The trace of an entry: the exception's own, or one taken in the clause. *)
TraceLogged == IF exception.type = "traced" THEN exception.trace ELSE "catch"

(* Faulty variants: the log is not removed; RunTest has no clause for      *)
(* other exceptions; an exception is logged again on its way out.          *)
StartWithoutRemove ==
    /\ pc = "start" /\ pc' = "next"
    /\ UNCHANGED <<program, test, failure, clause, exception, log, printed, status>>

GuardedForTraced == program.runTest /\ Current.thread = "main" /\ exception.type = "traced"

RethrowLogged ==
    /\ ClauseIs("rethrow")
    /\ clause' = clause + 1
    /\ LogStacktrace("entry", TraceLogged)
    /\ UNCHANGED <<program, pc, test, failure, exception, status>>

(* ExceptionHandler::Init, and in hello the removal of the last run's log. *)
Start ==
    /\ pc = "start" /\ pc' = "next"
    /\ log' = IF program.removes THEN <<>> ELSE log
    /\ UNCHANGED <<program, test, failure, clause, exception, printed, status>>

BeginTest ==
    /\ pc = "next" /\ test <= Len(program.cases)
    /\ pc' = "run" /\ failure' = 1
    /\ UNCHANGED <<program, test, clause, exception, log, printed, status>>

(* A StacktraceException takes its trace where it is constructed.          *)
Throw(event) ==
    /\ Happens(event)
    /\ exception' = [type |-> event, trace |-> IF event = "traced" THEN "throw" ELSE "none"]
    /\ pc' = "unwind" /\ clause' = 1
    /\ UNCHANGED <<program, test, failure, log, printed, status>>

NextFailure ==
    /\ pc' = "run" /\ failure' = failure + 1 /\ exception' = NoException
    /\ UNCHANGED <<program, test, clause, status>>

CatchAndLog == ClauseIs("log") /\ LogStacktrace("entry", TraceLogged) /\ NextFailure
CatchAndDrop == ClauseIs("drop") /\ UNCHANGED <<log, printed>> /\ NextFailure

Rethrow ==
    /\ ClauseIs("rethrow")
    /\ clause' = clause + 1
    /\ UNCHANGED <<program, pc, test, failure, exception, log, printed, status>>

(* throw_with_nested: a new StacktraceException, constructed in the clause.*)
ThrowWithNested ==
    /\ ClauseIs("nest")
    /\ clause' = clause + 1
    /\ exception' = [type |-> "traced", trace |-> "catch"]
    /\ UNCHANGED <<program, pc, test, failure, log, printed, status>>

(* RunTest's clauses are around what runs in its own thread.               *)
Guarded == program.runTest /\ Current.thread = "main"

RunTestCatches ==
    /\ NoClauseLeft /\ Guarded
    /\ LogStacktrace("entry", TraceLogged)
    /\ pc' = "next" /\ test' = test + 1 /\ exception' = NoException
    /\ UNCHANGED <<program, failure, clause, status>>

End(s) == pc' = "ended" /\ status' = s /\ UNCHANGED <<program, test, failure, clause, exception>>

(* The terminate handler logs where it is called, and exits.               *)
Terminate ==
    /\ Happens("terminate") \/ (NoClauseLeft /\ ~Guarded)
    /\ LogStacktrace("terminate", "throw")
    /\ End(1)

IsSignal(event) == event \notin {"traced", "plain", "terminate"}

(* The handler's record; a signal without a handler just ends the process. *)
Signal ==
    /\ pc = "run" /\ failure <= Len(Case)
    /\ IsSignal(Current.event)
    /\ IF Current.event \in Registered THEN Record(GetSignalName(Current.event), "throw")
       ELSE UNCHANGED log
    /\ UNCHANGED printed
    /\ End(1)

EndTest ==
    /\ pc = "run" /\ failure > Len(Case)
    /\ pc' = "next" /\ test' = test + 1
    /\ UNCHANGED <<program, failure, clause, exception, log, printed, status>>

EndProgram ==
    /\ pc = "next" /\ test > Len(program.cases)
    /\ OnlineLogAdapter(program.messages)
    /\ UNCHANGED log
    /\ End(0)

SuiteNext ==
    \/ Start \/ BeginTest \/ Throw("traced") \/ Throw("plain")
    \/ CatchAndLog \/ CatchAndDrop \/ Rethrow \/ ThrowWithNested
    \/ RunTestCatches \/ Terminate \/ Signal \/ EndTest \/ EndProgram

SuiteSpec == SuiteInit /\ [][SuiteNext]_suiteVars
----------------------------------------------------------------------------
Entries == [test : 0..Len(program.cases), failure : Nat, kind : Kinds,
            trace : {"none", "throw", "catch"}]
FailureOf(e) == program.cases[e.test][e.failure]

(* The log of hello holds entries of its own run only.                     *)
SuiteTypeOK ==
    /\ program \in Programs
    /\ exception.type \in {"none", "traced", "plain"}
    /\ log \in Seq(Entries)
    /\ status \in {0, 1}
    /\ program.removes /\ pc # "start" => \A k \in DOMAIN log : log[k] # Stale

HasClause(f, c) == \E k \in DOMAIN f.clauses : f.clauses[k] = c
Precedes(d, e) == d.test < e.test \/ (d.test = e.test /\ d.failure < e.failure)
Fresh == {k \in DOMAIN log : log[k] # Stale}

(* Whatever fails is in the log when the program ends, once and in the     *)
(* order in which it happened, but for what a catch clause drops; a signal *)
(* is there under its own name, and the adapter, which passes on every     *)
(* entry, has printed as many of the highest level.                        *)
EachFailureLoggedOnce ==
    /\ \A j, k \in Fresh : j < k => Precedes(log[j], log[k])
    /\ \A k \in Fresh :
        LET event == FailureOf(log[k]).event IN
        IF IsSignal(event) THEN log[k].kind = event
        ELSE log[k].kind = "terminate" => pc = "ended" /\ k = Len(log)
    /\ HasAdapter =>
        Cardinality({k \in DOMAIN printed : printed[k] = "FATAL"}) = Cardinality(Fresh)
    /\ pc = "ended" =>
        \A n \in 1..Len(program.cases) : \A f \in DOMAIN program.cases[n] :
            \/ HasClause(program.cases[n][f], "drop")
            \/ \E k \in Fresh : log[k].test = n /\ log[k].failure = f
            \/ status = 1 /\ Precedes(log[Len(log)], [test |-> n, failure |-> f])

(* An entry about a StacktraceException shows where it was thrown, however *)
(* far it has come, through threads and rethrows; an entry about another   *)
(* exception, or about one thrown around the first, shows the catch clause.*)
ThrowPointShown ==
    \A k \in Fresh :
        log[k].kind = "entry" =>
            LET f == FailureOf(log[k])
            IN  log[k].trace = "throw" <=> (f.event = "traced" /\ ~HasClause(f, "nest"))

(* The tests listed as safe do not end the process, one by one or all      *)
(* together; a test ends it only by a signal, by std::terminate, or in a   *)
(* thread of its own.                                                      *)
RunTestContains ==
    (pc = "ended" /\ status = 1 /\ program.runTest) =>
        /\ IsSignal(Current.event) \/ Current.event = "terminate" \/ Current.thread = "thread"
        /\ \A k \in DOMAIN safeTests : Case # TestCase[safeTests[k]]
============================================================================
