-------------------------- MODULE TestSuiteProofs ---------------------------
(***************************************************************************)
(* Proofs about TestSuite, for every choice of programs to look at.  The   *)
(* first half shows that the programs are well formed; the second uses     *)
(* nothing else of them.                                                   *)
(***************************************************************************)
EXTENDS TestSuite, FiniteSetTheorems, TLAPS

(* What a failure can be: a clause that ends the exception is the last,    *)
(* and an exception that a future carries is caught where it is asked for. *)
Events == {"traced", "plain", "terminate"} \cup Registered
Threads == {"main", "thread", "async"}
Stops(f) == HasClause(f, "log") \/ HasClause(f, "drop")
Failures ==
    {f \in [event : Events, clauses : Seq(Clauses), thread : Threads] :
        /\ \A c \in DOMAIN f.clauses : f.clauses[c] \in {"log", "drop"} => c = Len(f.clauses)
        /\ f.thread = "async" => Stops(f)}

(* A failure that gets past its own clauses is the last of its test.       *)
Cases ==
    {case \in Seq(Failures) : \A f \in DOMAIN case : f < Len(case) => Stops(case[f])}

(* Only the demo has an adapter: it provokes no signal, and sends no entry *)
(* of the highest level by itself.                                         *)
WellFormed(p) ==
    /\ p.cases \in Seq(Cases)
    /\ p.runTest \in BOOLEAN
    /\ p.removes \in BOOLEAN
    /\ p.messages \in Seq({"INFO", "ERROR"})
    /\ p.messages # <<>> =>
          \A n \in DOMAIN p.cases : \A f \in DOMAIN p.cases[n] : ~IsSignal(p.cases[n][f].event)

(* A test that RunTest can contain.                                        *)
IsContained(case) ==
    \A f \in DOMAIN case :
        case[f].event \in {"traced", "plain"} /\ case[f].thread # "thread"
----------------------------------------------------------------------------
(* Which strings are the names of signals.                                 *)
LEMMA SignalsAreRegistered ==
    \A e \in Events : IsSignal(e) <=> e \in Registered
BY DEF Events, IsSignal, Registered

LEMMA UncaughtIsFailure ==
    ASSUME NEW e \in Events
    PROVE  Uncaught(e) \in Failures /\ InThread(e) \in Failures
BY DEF Failures, Uncaught, InThread, Threads

(* The catch clauses that the programs have.                               *)
ClauseLists == {<<"log">>, <<"drop">>, <<"nest", "log">>, <<"rethrow", "log">>}

LEMMA CaughtIsFailure ==
    ASSUME NEW e \in Events, NEW clauses \in ClauseLists, NEW thread \in Threads
    PROVE  LET f == [event |-> e, clauses |-> clauses, thread |-> thread]
           IN  f \in Failures /\ Stops(f)
<1> DEFINE f == [event |-> e, clauses |-> clauses, thread |-> thread]
<1> DEFINE StopsLast ==
              /\ clauses \in Seq(Clauses)
              /\ \E c \in DOMAIN clauses : clauses[c] = "log" \/ clauses[c] = "drop"
              /\ \A c \in DOMAIN clauses : clauses[c] \in {"log", "drop"} => c = Len(clauses)
<1>1. StopsLast
  <2>1. ASSUME NEW last \in {"log", "drop"}, clauses = <<last>>
        PROVE  StopsLast
    <3>1. DOMAIN clauses = {1} /\ Len(clauses) = 1 /\ clauses[1] = last
      BY <2>1
    <3>2. clauses \in Seq(Clauses)
      BY <2>1 DEF Clauses
    <3>3. QED
      BY <3>1, <3>2
  <2>2. CASE clauses = <<"nest", "log">>
    <3>1. /\ DOMAIN clauses = {1, 2} /\ Len(clauses) = 2
          /\ clauses[1] = "nest" /\ clauses[2] = "log"
          /\ clauses \in Seq(Clauses)
      BY <2>2 DEF Clauses
    <3>2. QED
      BY <3>1
  <2>3. CASE clauses = <<"rethrow", "log">>
    <3>1. /\ DOMAIN clauses = {1, 2} /\ Len(clauses) = 2
          /\ clauses[1] = "rethrow" /\ clauses[2] = "log"
          /\ clauses \in Seq(Clauses)
      BY <2>3 DEF Clauses
    <3>2. QED
      BY <3>1
  <2>4. QED
    BY <2>1, <2>2, <2>3 DEF ClauseLists
<1>2. Stops(f)
  BY <1>1 DEF Stops, HasClause
<1>3. f \in Failures
  BY <1>1, <1>2 DEF Failures
<1>4. QED
  BY <1>2, <1>3

LEMMA OneFailureIsCase ==
    ASSUME NEW f \in Failures
    PROVE  <<f>> \in Cases
BY DEF Cases

LEMMA TwoFailuresAreCase ==
    ASSUME NEW f \in Failures, NEW g \in Failures, Stops(f)
    PROVE  <<f, g>> \in Cases
BY DEF Cases

(* The test cases, by their shapes.                                        *)
LEMMA UncaughtCases ==
    \A e \in Events : <<Uncaught(e)>> \in Cases /\ <<InThread(e)>> \in Cases
BY UncaughtIsFailure, OneFailureIsCase

LEMMA CaughtCases ==
    \A e \in Events, clauses \in ClauseLists :
        /\ Caught(e, clauses) \in Failures
        /\ Stops(Caught(e, clauses))
        /\ <<Caught(e, clauses)>> \in Cases
<1> TAKE e \in Events, clauses \in ClauseLists
<1>1. Caught(e, clauses) \in Failures /\ Stops(Caught(e, clauses))
  BY CaughtIsFailure DEF Caught, Threads
<1>2. QED
  BY <1>1, OneFailureIsCase

LEMMA TestCasesAreCases ==
    /\ DOMAIN TestCase = 1..33
    /\ \A k \in 1..33 : TestCase[k] \in Cases
<1>1. {"SIGSEGV", "SIGFPE", "SIGABRT", "SIGILL", "SIGTRAP", "SIGPIPE", "SIGSYS",
       "traced", "plain", "terminate"} \subseteq Events
  BY DEF Events, Registered
<1>2. {<<"log">>, <<"drop">>, <<"nest", "log">>, <<"rethrow", "log">>} \subseteq ClauseLists
  BY DEF ClauseLists
<1>3. {DeepCallStack, CustomException, LogicError, RuntimeError, InvalidArgument,
       LengthError, OverflowError, UnderflowError, BadException} \subseteq Cases
  BY <1>1, UncaughtCases DEF DeepCallStack, CustomException, LogicError, RuntimeError,
     InvalidArgument, LengthError, OverflowError, UnderflowError, BadException
<1>4. {OutOfRange, BadAlloc, ThreadException, AssertionFailure} \subseteq Cases
  BY <1>1, UncaughtCases DEF OutOfRange, BadAlloc, ThreadException, AssertionFailure
<1>5. {InvalidMemory, DivisionByZero, VoidPointerDereference, StackOverflow, Abort,
       IllegalInstruction, Sigtrap, NullFunctionPointer, Sigpipe, Sigsys,
       SignalInChildThread} \subseteq Cases
  BY <1>1, UncaughtCases DEF InvalidMemory, DivisionByZero, VoidPointerDereference,
     StackOverflow, Abort, IllegalInstruction, Sigtrap, NullFunctionPointer, Sigpipe, Sigsys,
     SignalInChildThread
<1>6. {NestedExceptions, RethrowException, BadCast, BadTypeid, ExceptionInConstructor,
       ExceptionInDestructor} \subseteq Cases
  BY <1>1, <1>2, CaughtCases DEF NestedExceptions, RethrowException, BadCast, BadTypeid,
     ExceptionInConstructor, ExceptionInDestructor
<1>7. {MultipleExceptions, ExceptionWithInner} \subseteq Cases
  BY <1>1, <1>2, CaughtCases, TwoFailuresAreCase DEF MultipleExceptions, ExceptionWithInner
<1>8. FutureException \in Cases
  BY <1>1, <1>2, CaughtIsFailure, OneFailureIsCase DEF FutureException, Threads
<1>9. DOMAIN TestCase = 1..33
  BY DEF TestCase
<1>10. \A k \in 1..33 : TestCase[k] \in Cases
  BY <1>3, <1>4, <1>5, <1>6, <1>7, <1>8 DEF TestCase
<1>11. QED
  BY <1>9, <1>10

(* None of the tests listed as safe fails in a way that RunTest cannot     *)
(* contain.                                                                *)
LEMMA SafeTestsAreContained ==
    /\ DOMAIN safeTests = 1..18
    /\ \A k \in 1..18 : safeTests[k] \in 1..33 /\ IsContained(TestCase[safeTests[k]])
<1>1. DOMAIN safeTests = 1..18 /\ \A k \in 1..18 : safeTests[k] \in 1..33
  BY DEF safeTests
<1>2. \A e \in {"traced", "plain"} :
         /\ IsContained(<<Uncaught(e)>>)
         /\ \A clauses \in ClauseLists : IsContained(<<Caught(e, clauses)>>)
  BY DEF IsContained, Uncaught, Caught
<1>3. {<<"log">>, <<"drop">>, <<"nest", "log">>, <<"rethrow", "log">>} \subseteq ClauseLists
  BY DEF ClauseLists
<1>4. /\ IsContained(DeepCallStack) /\ IsContained(CustomException) /\ IsContained(LogicError)
      /\ IsContained(RuntimeError) /\ IsContained(InvalidArgument) /\ IsContained(LengthError)
      /\ IsContained(OverflowError) /\ IsContained(UnderflowError) /\ IsContained(BadException)
      /\ IsContained(OutOfRange) /\ IsContained(BadAlloc)
  BY <1>2 DEF DeepCallStack, CustomException, LogicError, RuntimeError, InvalidArgument,
     LengthError, OverflowError, UnderflowError, BadException, OutOfRange, BadAlloc
<1>5. /\ IsContained(NestedExceptions) /\ IsContained(RethrowException)
      /\ IsContained(BadCast) /\ IsContained(BadTypeid)
  BY <1>2, <1>3 DEF NestedExceptions, RethrowException, BadCast, BadTypeid
<1>6. IsContained(MultipleExceptions) /\ IsContained(ExceptionWithInner)
  BY DEF IsContained, MultipleExceptions, ExceptionWithInner, Caught
<1>7. IsContained(FutureException)
  BY DEF IsContained, FutureException
<1>8. \A n \in {1, 2, 4, 7, 8, 9, 10, 11, 12, 13, 14, 15, 16, 17, 23, 24, 25, 26} :
         IsContained(TestCase[n])
  BY <1>4, <1>5, <1>6, <1>7 DEF TestCase
<1>9. \A k \in 1..18 : IsContained(TestCase[safeTests[k]])
  BY <1>8 DEF safeTests
<1>10. QED
  BY <1>1, <1>9

LEMMA HelloIsWellFormed ==
    ASSUME NEW cases \in Seq(Cases)
    PROVE  WellFormed(Hello(cases))
BY DEF WellFormed, Hello

LEMMA MainIsWellFormed ==
    ASSUME NEW failures \in Cases
    PROVE  WellFormed(Main(failures))
BY DEF WellFormed, Main

(* Whatever is looked at, is well formed.                                  *)
LEMMA ProgramsAreWellFormed ==
    \A p \in Programs : WellFormed(p)
<1>1. {"SIGSEGV", "SIGFPE", "traced", "plain"} \subseteq Events
  BY DEF Events, Registered
<1>2. {<<"log">>, <<"drop">>} \subseteq ClauseLists
  BY DEF ClauseLists
<1>3. WellFormed(HelloAll)
  <2>1. [k \in DOMAIN safeTests |-> TestCase[safeTests[k]]] \in Seq(Cases)
    BY SafeTestsAreContained, TestCasesAreCases
  <2>2. QED
    BY <2>1, HelloIsWellFormed DEF HelloAll
<1>4. \A p \in HelloOne : WellFormed(p)
  <2>1. \A k \in DOMAIN TestCase : <<TestCase[k]>> \in Seq(Cases)
    BY TestCasesAreCases
  <2>2. QED
    BY <2>1, HelloIsWellFormed DEF HelloOne
<1>5. WellFormed(HelloOutOfRange)
  <2>1. <<>> \in Seq(Cases)
    OBVIOUS
  <2>2. QED
    BY <2>1, HelloIsWellFormed DEF HelloOutOfRange
<1>6. WellFormed(HelloNotANumber)
  <2>1. <<Uncaught("plain")>> \in Cases
    BY <1>1, UncaughtCases
  <2>2. <<<<Uncaught("plain")>>>> \in Seq(Cases)
    BY <2>1
  <2>3. QED
    BY <2>2 DEF HelloNotANumber, Hello, WellFormed
<1>7. /\ WellFormed(ExampleNestedCall) /\ WellFormed(ExampleSigfpe)
      /\ WellFormed(ExampleSigsegv) /\ WellFormed(ExampleStackOverflow)
      /\ WellFormed(ExampleUncaughtException)
  BY <1>1, <1>2, UncaughtCases, CaughtCases, MainIsWellFormed DEF ExampleNestedCall,
     ExampleSigfpe, ExampleSigsegv, ExampleStackOverflow, ExampleUncaughtException
<1>8. WellFormed(UnitTests)
  BY <1>1, <1>2, CaughtCases, TwoFailuresAreCase, MainIsWellFormed DEF UnitTests
<1>9. WellFormed(DemoLogAdapter)
  <2> DEFINE caught == Caught("plain", <<"log">>)
  <2>1. <<<<caught>>>> \in Seq(Cases)
    BY <1>1, <1>2, CaughtCases
  <2>2. \A n \in DOMAIN <<<<caught>>>> : \A f \in DOMAIN <<<<caught>>>>[n] :
           <<<<caught>>>>[n][f] = caught
    OBVIOUS
  <2>3. ~IsSignal(caught.event)
    BY DEF IsSignal, Caught
  <2>4. /\ DemoLogAdapter.cases = <<<<caught>>>>
        /\ DemoLogAdapter.runTest = FALSE /\ DemoLogAdapter.removes = FALSE
        /\ DemoLogAdapter.messages = <<"INFO", "ERROR">>
    <3>1. Main(<<caught>>) = [cases |-> <<<<caught>>>>, runTest |-> FALSE, removes |-> FALSE,
                               messages |-> <<>>]
      BY DEF Main
    <3>2. DemoLogAdapter = [Main(<<caught>>) EXCEPT !.messages = <<"INFO", "ERROR">>]
      BY DEF DemoLogAdapter
    <3> HIDE DEF caught
    <3>3. QED
      BY <3>1, <3>2
  <2>5. <<"INFO", "ERROR">> \in Seq({"INFO", "ERROR"})
    OBVIOUS
  <2> HIDE DEF caught
  <2>6. QED
    BY <2>1, <2>2, <2>3, <2>4, <2>5 DEF WellFormed
<1>10. \A p \in AllPrograms : WellFormed(p)
  BY <1>3, <1>4, <1>5, <1>6, <1>7, <1>8, <1>9 DEF AllPrograms, HelloPrograms
<1>11. QED
  BY <1>10, ProgramsAssumption
----------------------------------------------------------------------------
(* The inductive invariant.  The indices are where the code is.            *)
Traces == {"none", "throw", "catch"}
FailsNow == pc = "unwind" \/ (pc = "ended" /\ status = 1)

InRange ==
    /\ program \in Programs
    /\ pc \in {"start", "next", "run", "unwind", "ended"}
    /\ test \in Nat \ {0} /\ failure \in Nat \ {0} /\ clause \in Nat \ {0}
    /\ exception \in [type : {"none", "traced", "plain"}, trace : Traces]
    /\ status \in {0, 1}
    /\ pc = "start" => test = 1
    /\ pc = "run" \/ FailsNow => test \in DOMAIN program.cases
    /\ pc = "run" => failure <= Len(Case) + 1
    /\ FailsNow => failure \in DOMAIN Case
    /\ pc = "ended" /\ status = 0 => test > Len(program.cases)

(* What is under way is an exception; it has the trace of its throw until  *)
(* a clause throws another one around it, and no clause before this one    *)
(* has stopped it.                                                         *)
Carried ==
    pc = "unwind" =>
        /\ Current.event \in {"traced", "plain"}
        /\ clause <= Len(Current.clauses) + 1
        /\ exception.type = "traced" /\ exception.trace = "throw" <=>
              /\ Current.event = "traced"
              /\ \A c \in 1..(clause - 1) : Current.clauses[c] # "nest"
        /\ \A c \in 1..(clause - 1) : Current.clauses[c] \notin {"log", "drop"}

(* The failures that are behind the program.                               *)
Passed(n, f) ==
    \/ pc \in {"start", "next"} /\ n < test
    \/ pc \in {"run", "unwind"} /\ (n < test \/ (n = test /\ f < failure))
    \/ pc = "ended" /\ (status = 0 \/ n < test \/ (n = test /\ f <= failure))

(* Each fresh entry is about a failure that is behind the program, and     *)
(* says what it should of it.                                              *)
EntryIsRight(e) ==
    /\ e.test \in DOMAIN program.cases
    /\ e.failure \in DOMAIN program.cases[e.test]
    /\ IsSignal(FailureOf(e).event) => e.kind = FailureOf(e).event
    /\ e.kind = "entry" =>
          (e.trace = "throw" <=> (FailureOf(e).event = "traced" /\ ~HasClause(FailureOf(e), "nest")))

LogRecords == [test : Nat, failure : Nat, kind : Kinds, trace : Traces]

Logged ==
    /\ log \in Seq(LogRecords)
    /\ pc = "start" \/ ~program.removes \/ \A k \in DOMAIN log : log[k] # Stale
    /\ \A k \in Fresh : EntryIsRight(log[k]) /\ Passed(log[k].test, log[k].failure)
    /\ \A k \in Fresh : log[k].kind = "terminate" => pc = "ended" /\ k = Len(log)
    /\ \A j, k \in Fresh : j < k => Precedes(log[j], log[k])
    /\ \A n \in DOMAIN program.cases : \A f \in DOMAIN program.cases[n] :
          Passed(n, f) =>
             \/ HasClause(program.cases[n][f], "drop")
             \/ \E k \in Fresh : log[k].test = n /\ log[k].failure = f
    /\ pc = "ended" /\ status = 1 =>
          log[Len(log)].test = test /\ log[Len(log)].failure = failure

(* The adapter has printed one line of the highest level for each entry.   *)
Adapted ==
    /\ printed \in Seq({"DEBUG", "INFO", "WARN", "ERROR", "FATAL"})
    /\ HasAdapter =>
          Cardinality({k \in DOMAIN printed : printed[k] = "FATAL"}) = Cardinality(Fresh)

(* Where RunTest is around what failed, the process ends by what it cannot *)
(* catch.                                                                  *)
EndsOutside ==
    (pc = "ended" /\ status = 1 /\ program.runTest) =>
        IsSignal(Current.event) \/ Current.event = "terminate" \/ Current.thread = "thread"

SuiteInv == InRange /\ Carried /\ Logged /\ Adapted /\ EndsOutside
----------------------------------------------------------------------------
(* What is known of the failure that the indices are at.                   *)
LEMMA CaseIsCase ==
    ASSUME InRange
    PROVE  /\ program.cases \in Seq(Cases)
           /\ \A n \in DOMAIN program.cases :
                 program.cases[n] \in Seq(Failures) /\ program.cases[n] \in Cases
           /\ test \in DOMAIN program.cases =>
                 /\ Case \in Cases /\ Case \in Seq(Failures)
                 /\ failure \in DOMAIN Case => Current \in Failures
<1>1. WellFormed(program)
  BY ProgramsAreWellFormed DEF InRange
<1>2. program.cases \in Seq(Cases)
  BY <1>1 DEF WellFormed
<1>3. \A case \in Cases : case \in Seq(Failures)
  BY DEF Cases
<1>4. QED
  BY <1>2, <1>3 DEF Case, Current

LEMMA FailureFields ==
    ASSUME NEW f \in Failures
    PROVE  /\ f.event \in Events
           /\ f.clauses \in Seq(Clauses)
           /\ f.thread \in Threads
           /\ \A c \in DOMAIN f.clauses : f.clauses[c] \in {"log", "drop"} => c = Len(f.clauses)
           /\ f.thread = "async" => Stops(f)
BY DEF Failures

(* The index of the failure that an action is at.                          *)
LEMMA IndexInRange ==
    ASSUME InRange, test \in DOMAIN program.cases
    PROVE  /\ Len(Case) \in Nat /\ DOMAIN Case = 1..Len(Case)
           /\ Len(program.cases) \in Nat /\ DOMAIN program.cases = 1..Len(program.cases)
BY CaseIsCase

LEMMA InRangeInit ==
    ASSUME SuiteInit
    PROVE  InRange
BY DEF SuiteInit, InRange, NoException, Traces, FailsNow

LEMMA InRangeStep ==
    ASSUME InRange, [SuiteNext]_suiteVars
    PROVE  InRange'
<1> USE DEF InRange, FailsNow
<1>0. Len(program.cases) \in Nat /\ DOMAIN program.cases = 1..Len(program.cases)
  BY CaseIsCase
<1>1. CASE Start
  BY <1>1 DEF Start
<1>2. CASE BeginTest
  <2>1. test \in DOMAIN program.cases
    BY <1>0, <1>2 DEF BeginTest
  <2>2. Len(Case) \in Nat
    BY <2>1, IndexInRange
  <2>3. Case' = Case
    BY <1>2 DEF BeginTest, Case
  <2>4. QED
    BY <1>2, <2>1, <2>2, <2>3 DEF BeginTest
<1>3. ASSUME NEW event \in {"traced", "plain"}, Throw(event)
      PROVE  InRange'
  <2>1. test \in DOMAIN program.cases /\ failure \in DOMAIN Case
    BY <1>3, IndexInRange DEF Throw, Happens
  <2>2. Case' = Case
    BY <1>3 DEF Throw, Case
  <2>3. QED
    BY <1>3, <2>1, <2>2 DEF Throw, Happens, Traces
<1>4. CASE CatchAndLog \/ CatchAndDrop
  <2>1. pc = "unwind" /\ NextFailure
    BY <1>4 DEF CatchAndLog, CatchAndDrop, ClauseIs
  <2>2. Case' = Case
    BY <2>1 DEF NextFailure, Case
  <2>3. failure <= Len(Case)
    BY <2>1, IndexInRange
  <2>4. Len(Case) \in Nat
    BY <2>1, IndexInRange
  <2>5. QED
    BY <2>1, <2>2, <2>3, <2>4 DEF NextFailure, NoException, Traces
<1>5. CASE Rethrow \/ ThrowWithNested
  <2>1. Case' = Case
    BY <1>5 DEF Rethrow, ThrowWithNested, Case
  <2>2. QED
    BY <1>5, <2>1 DEF Rethrow, ThrowWithNested, ClauseIs, Traces
<1>6. CASE RunTestCatches
  BY <1>6 DEF RunTestCatches, NoException, Traces
<1>7. CASE Terminate
  <2>1. Case' = Case
    BY <1>7 DEF Terminate, End, Case
  <2>2. test \in DOMAIN program.cases /\ failure \in DOMAIN Case
    BY <1>7, IndexInRange DEF Terminate, Happens, NoClauseLeft
  <2>3. QED
    BY <1>7, <2>1, <2>2 DEF Terminate, End
<1>8. CASE Signal
  <2>1. Case' = Case
    BY <1>8 DEF Signal, End, Case
  <2>2. test \in DOMAIN program.cases /\ failure \in DOMAIN Case
    BY <1>8, IndexInRange DEF Signal
  <2>3. QED
    BY <1>8, <2>1, <2>2 DEF Signal, End
<1>9. CASE EndTest
  BY <1>9 DEF EndTest
<1>10. CASE EndProgram
  BY <1>10 DEF EndProgram, End
<1>11. CASE UNCHANGED suiteVars
  BY <1>11 DEF suiteVars, Case
<1>12. QED
  BY <1>1, <1>2, <1>3, <1>4, <1>5, <1>6, <1>7, <1>8, <1>9, <1>10, <1>11 DEF SuiteNext
----------------------------------------------------------------------------
(* What the exception carries.                                             *)
LEMMA CarriedStep ==
    ASSUME InRange, Carried, [SuiteNext]_suiteVars
    PROVE  Carried'
<1>1. ASSUME NEW event \in {"traced", "plain"}, Throw(event)
      PROVE  Carried'
  <2>1. Current' = Current /\ Current.event = event
    BY <1>1 DEF Throw, Happens, Current, Case
  <2>2. Current \in Failures
    BY <1>1, CaseIsCase, IndexInRange DEF Throw, Happens, InRange
  <2>3. Len(Current.clauses) \in Nat
    BY <2>2, FailureFields
  <2>4. clause' = 1 /\ exception'.type = event
        /\ (exception'.trace = "throw" <=> event = "traced")
    BY <1>1 DEF Throw
  <2>5. QED
    BY <2>1, <2>3, <2>4 DEF Carried
<1>2. ASSUME Rethrow \/ ThrowWithNested
      PROVE  Carried'
  <2>1. Current' = Current
    BY <1>2 DEF Rethrow, ThrowWithNested, Current, Case
  <2>2. pc = "unwind" /\ clause <= Len(Current.clauses) /\ clause' = clause + 1 /\ clause \in Nat \ {0}
    BY <1>2 DEF Rethrow, ThrowWithNested, ClauseIs, InRange
  <2>3. Current \in Failures
    BY <2>2, CaseIsCase DEF InRange, FailsNow
  <2>4. Len(Current.clauses) \in Nat
    BY <2>3, FailureFields
  <2>5. \A c \in 1..(clause' - 1) : c \in 1..(clause - 1) \/ c = clause
    BY <2>2
  <2>6. CASE Rethrow
    <3>1. Current.clauses[clause] = "rethrow" /\ exception' = exception
      BY <2>6 DEF Rethrow, ClauseIs
    <3>2. \A c \in 1..(clause - 1) : c \in 1..(clause' - 1)
      BY <2>2
    <3>3. QED
      BY <2>1, <2>2, <2>4, <2>5, <3>1, <3>2 DEF Carried
  <2>7. CASE ThrowWithNested
    <3>1. Current.clauses[clause] = "nest" /\ exception'.trace = "catch"
      BY <2>7 DEF ThrowWithNested, ClauseIs
    <3>2. clause \in 1..(clause' - 1)
      BY <2>2
    <3>3. QED
      BY <2>1, <2>2, <2>4, <2>5, <3>1, <3>2 DEF Carried
  <2>8. QED
    BY <1>2, <2>6, <2>7
<1>3. CASE UNCHANGED suiteVars
  BY <1>3 DEF suiteVars, Carried, Current, Case
<1>4. CASE Start \/ BeginTest \/ CatchAndLog \/ CatchAndDrop \/ RunTestCatches
           \/ Terminate \/ Signal \/ EndTest \/ EndProgram
  <2>1. pc' # "unwind"
    BY <1>4 DEF Start, BeginTest, CatchAndLog, CatchAndDrop, NextFailure, RunTestCatches,
       Terminate, Signal, End, EndTest, EndProgram
  <2>2. QED
    BY <2>1 DEF Carried
<1>5. QED
  BY <1>1, <1>2, <1>3, <1>4 DEF SuiteNext

(* What is logged of an exception that a clause stops, or that gets past   *)
(* all of them, has the trace that it should have.                         *)
LEMMA TraceLoggedIsRight ==
    ASSUME InRange, Carried, pc = "unwind",
           ClauseIs("log") \/ NoClauseLeft
    PROVE  TraceLogged = "throw" <=> Current.event = "traced" /\ ~HasClause(Current, "nest")
<1>1. Current \in Failures
  BY CaseIsCase DEF InRange, FailsNow
<1>2. /\ Len(Current.clauses) \in Nat /\ DOMAIN Current.clauses = 1..Len(Current.clauses)
      /\ \A c \in DOMAIN Current.clauses :
            Current.clauses[c] \in {"log", "drop"} => c = Len(Current.clauses)
  BY <1>1, FailureFields
<1>3. \A c \in DOMAIN Current.clauses :
         c \in 1..(clause - 1) \/ (c = clause /\ Current.clauses[c] = "log")
  BY <1>2 DEF ClauseIs, NoClauseLeft, InRange
<1>4. \A c \in 1..(clause - 1) : c \in DOMAIN Current.clauses
  BY <1>2 DEF Carried, InRange
<1>5. HasClause(Current, "nest") <=> \E c \in 1..(clause - 1) : Current.clauses[c] = "nest"
  BY <1>3, <1>4 DEF HasClause
<1>6. TraceLogged = "throw" <=> exception.type = "traced" /\ exception.trace = "throw"
  BY DEF TraceLogged
<1>7. QED
  BY <1>5, <1>6 DEF Carried

(* An exception that gets past all of its clauses has none that stops it.  *)
LEMMA PastAllClauses ==
    ASSUME InRange, Carried, NoClauseLeft
    PROVE  ~Stops(Current) /\ failure = Len(Case)
<1>1. pc = "unwind" /\ Current \in Failures /\ Case \in Cases /\ failure \in DOMAIN Case
  BY CaseIsCase DEF NoClauseLeft, InRange, FailsNow
<1>2. Len(Current.clauses) \in Nat /\ DOMAIN Current.clauses = 1..Len(Current.clauses)
  BY <1>1, FailureFields
<1>3. \A c \in DOMAIN Current.clauses : c \in 1..(clause - 1)
  BY <1>1, <1>2 DEF NoClauseLeft, InRange
<1>4. ~Stops(Current)
  BY <1>1, <1>3 DEF Carried, Stops, HasClause
<1>5. QED
  BY <1>1, <1>4, IndexInRange DEF Cases, Current, InRange, FailsNow
----------------------------------------------------------------------------
(* Which failures a step leaves behind: those that handle one, that one;   *)
(* the others none.                                                        *)
Quiet ==
    \/ Start \/ BeginTest \/ Throw("traced") \/ Throw("plain")
    \/ Rethrow \/ ThrowWithNested \/ EndTest \/ EndProgram \/ UNCHANGED suiteVars

Handles == CatchAndLog \/ CatchAndDrop \/ RunTestCatches \/ Terminate \/ Signal

LEMMA StepKinds == [SuiteNext]_suiteVars => Quiet \/ Handles
BY DEF SuiteNext, Quiet, Handles

LEMMA QuietPassesNone ==
    ASSUME InRange, Quiet,
           NEW n \in DOMAIN program.cases, NEW f \in DOMAIN program.cases[n]
    PROVE  Passed(n, f)' <=> Passed(n, f)
<1>1. /\ DOMAIN program.cases = 1..Len(program.cases) /\ Len(program.cases) \in Nat
      /\ DOMAIN program.cases[n] = 1..Len(program.cases[n]) /\ Len(program.cases[n]) \in Nat
  BY CaseIsCase
<1>2. test \in Nat /\ failure \in Nat
  BY DEF InRange
<1>3. CASE Start
  BY <1>3 DEF Start, Passed
<1>4. CASE BeginTest
  BY <1>1, <1>2, <1>4 DEF BeginTest, Passed
<1>5. CASE Throw("traced") \/ Throw("plain")
  BY <1>5 DEF Throw, Happens, Passed
<1>6. CASE Rethrow \/ ThrowWithNested
  BY <1>6 DEF Rethrow, ThrowWithNested, Passed
<1>7. CASE EndTest
  BY <1>1, <1>2, <1>7 DEF EndTest, Passed, Case
<1>8. CASE EndProgram
  BY <1>1, <1>2, <1>8 DEF EndProgram, End, Passed
<1>9. CASE UNCHANGED suiteVars
  BY <1>9 DEF suiteVars, Passed
<1>10. QED
  BY <1>3, <1>4, <1>5, <1>6, <1>7, <1>8, <1>9 DEF Quiet

LEMMA HandlesAtFailure ==
    ASSUME InRange, Handles
    PROVE  /\ pc \in {"run", "unwind"}
           /\ test \in DOMAIN program.cases /\ failure \in DOMAIN Case
           /\ Current \in Failures
           /\ program' = program
           /\ \A n, f : Passed(n, f) => n < test \/ (n = test /\ f < failure)
<1>1. pc \in {"run", "unwind"} /\ program' = program
  BY DEF Handles, CatchAndLog, CatchAndDrop, NextFailure, RunTestCatches, Terminate, Signal,
     Happens, ClauseIs, NoClauseLeft, End
<1>2. test \in DOMAIN program.cases
  BY <1>1 DEF InRange, FailsNow
<1>3. pc = "run" => failure <= Len(Case)
  BY DEF Handles, CatchAndLog, CatchAndDrop, RunTestCatches, Terminate, Signal,
     Happens, ClauseIs, NoClauseLeft
<1>4. failure \in DOMAIN Case
  BY <1>1, <1>2, <1>3, IndexInRange DEF InRange, FailsNow
<1>5. QED
  BY <1>1, <1>2, <1>4, CaseIsCase DEF Passed

LEMMA HandlesPassesOne ==
    ASSUME InRange, Carried, Handles,
           NEW n \in DOMAIN program.cases, NEW f \in DOMAIN program.cases[n]
    PROVE  Passed(n, f)' <=> Passed(n, f) \/ (n = test /\ f = failure)
<1>1. /\ DOMAIN program.cases = 1..Len(program.cases) /\ Len(program.cases) \in Nat
      /\ DOMAIN program.cases[n] = 1..Len(program.cases[n]) /\ Len(program.cases[n]) \in Nat
  BY CaseIsCase
<1>2. test \in Nat /\ failure \in Nat /\ n \in Nat /\ f \in Nat
  BY <1>1 DEF InRange
<1>3. pc \in {"run", "unwind"}
  BY HandlesAtFailure
<1>4. CASE CatchAndLog \/ CatchAndDrop
  BY <1>2, <1>3, <1>4 DEF CatchAndLog, CatchAndDrop, NextFailure, Passed
<1>5. CASE RunTestCatches
  <2>1. failure = Len(Case)
    BY <1>5, PastAllClauses DEF RunTestCatches
  <2>2. n = test => f <= failure
    BY <1>1, <2>1 DEF Case
  <2>3. QED
    BY <1>2, <1>3, <1>5, <2>2 DEF RunTestCatches, Passed
<1>6. CASE Terminate \/ Signal
  <2>1. pc' = "ended" /\ status' = 1 /\ test' = test /\ failure' = failure
    BY <1>6 DEF Terminate, Signal, End
  <2>2. QED
    BY <1>2, <1>3, <2>1 DEF Passed
<1>7. QED
  BY <1>4, <1>5, <1>6 DEF Handles
----------------------------------------------------------------------------
(* What a step that handles a failure writes.                              *)
RightFor(f, kind, trace) ==
    /\ kind \in Kinds /\ trace \in Traces
    /\ IsSignal(f.event) => kind = f.event
    /\ kind = "entry" => (trace = "throw" <=> (f.event = "traced" /\ ~HasClause(f, "nest")))

LEMMA WhatIsRecorded ==
    ASSUME InRange, Carried, Handles
    PROVE  \/ log' = log /\ HasClause(Current, "drop") /\ pc' # "ended"
           \/ \E kind, trace :
                 /\ Record(kind, trace)
                 /\ RightFor(Current, kind, trace)
                 /\ kind = "terminate" => pc' = "ended"
<1>1. Current \in Failures
  BY HandlesAtFailure
<1>2. Current.event \in Events
  BY <1>1, FailureFields
<1>3. TraceLogged \in Traces
  BY DEF TraceLogged, InRange, Traces
<1>4. CASE CatchAndDrop
  <2>1. clause \in DOMAIN Current.clauses /\ Current.clauses[clause] = "drop"
    BY <1>1, <1>4, FailureFields DEF CatchAndDrop, ClauseIs, InRange
  <2>2. QED
    BY <1>4, <2>1 DEF CatchAndDrop, NextFailure, HasClause
<1>5. CASE CatchAndLog \/ RunTestCatches
  <2>1. pc = "unwind" /\ (ClauseIs("log") \/ NoClauseLeft) /\ Record("entry", TraceLogged)
    BY <1>5 DEF CatchAndLog, RunTestCatches, LogStacktrace, ClauseIs, NoClauseLeft
  <2>2. ~IsSignal(Current.event)
    BY <2>1 DEF Carried, IsSignal
  <2>3. RightFor(Current, "entry", TraceLogged)
    BY <1>3, <2>1, <2>2, TraceLoggedIsRight DEF RightFor, Kinds
  <2>4. QED
    BY <2>1, <2>3
<1>6. CASE Terminate
  <2>1. Record("terminate", "throw") /\ pc' = "ended"
    BY <1>6 DEF Terminate, LogStacktrace, End
  <2>2. ~IsSignal(Current.event)
    BY <1>6 DEF Terminate, Happens, NoClauseLeft, Carried, IsSignal
  <2>3. RightFor(Current, "terminate", "throw")
    BY <2>2 DEF RightFor, Kinds, Traces
  <2>4. QED
    BY <2>1, <2>3
<1>7. CASE Signal
  <2>1. Current.event \in Registered
    BY <1>2, <1>7, SignalsAreRegistered DEF Signal
  <2>2. GetSignalName(Current.event) = Current.event /\ Current.event \in Named
    BY <2>1 DEF GetSignalName, Registered, Named
  <2>3. Record(Current.event, "throw")
    BY <1>7, <2>1, <2>2 DEF Signal
  <2>4. RightFor(Current, Current.event, "throw") /\ Current.event # "terminate"
    BY <2>1, <2>2 DEF RightFor, Kinds, Traces, Named, Registered
  <2>5. QED
    BY <2>3, <2>4
<1>8. QED
  BY <1>4, <1>5, <1>6, <1>7 DEF Handles

(* The log after a record.                                                 *)
LEMMA RecordAppends ==
    ASSUME log \in Seq(LogRecords), test \in Nat \ {0}, failure \in Nat,
           NEW kind \in Kinds, NEW trace \in Traces, Record(kind, trace)
    PROVE  /\ log' \in Seq(LogRecords)
           /\ Len(log) \in Nat /\ Len(log') = Len(log) + 1
           /\ DOMAIN log = 1..Len(log) /\ DOMAIN log' = 1..(Len(log) + 1)
           /\ \A k \in DOMAIN log : log'[k] = log[k]
           /\ log'[Len(log) + 1] = [test |-> test, failure |-> failure, kind |-> kind, trace |-> trace]
           /\ Fresh' = Fresh \cup {Len(log) + 1}
<1> DEFINE entry == [test |-> test, failure |-> failure, kind |-> kind, trace |-> trace]
<1>1. entry \in LogRecords /\ entry # Stale
  BY DEF LogRecords, Stale
<1>2. log' = Append(log, entry)
  BY DEF Record
<1> HIDE DEF entry
<1>3. /\ log' \in Seq(LogRecords)
      /\ Len(log) \in Nat /\ Len(log') = Len(log) + 1
      /\ DOMAIN log = 1..Len(log) /\ DOMAIN log' = 1..(Len(log) + 1)
      /\ \A k \in DOMAIN log : log'[k] = log[k]
      /\ log'[Len(log) + 1] = entry
  BY <1>1, <1>2
<1>4. Fresh' = {k \in DOMAIN log' : log'[k] # Stale}
  BY DEF Fresh
<1>5. Fresh' = Fresh \cup {Len(log) + 1}
  BY <1>1, <1>3, <1>4 DEF Fresh
<1>6. QED
  BY <1>3, <1>5 DEF entry

(* Where a step that handles a failure ends the program, it is still there.*)
LEMMA HandlesEnds ==
    ASSUME Handles
    PROVE  pc' # "start" /\ (pc' = "ended" => test' = test /\ failure' = failure)
BY DEF Handles, CatchAndLog, CatchAndDrop, NextFailure, RunTestCatches, Terminate, Signal, End

LEMMA RecordKeepsLogged ==
    ASSUME InRange, Carried, Logged, Handles, NEW kind, NEW trace,
           Record(kind, trace), RightFor(Current, kind, trace),
           kind = "terminate" => pc' = "ended"
    PROVE  Logged'
<1> DEFINE last == Len(log) + 1
<1>1. /\ pc \in {"run", "unwind"} /\ program' = program
      /\ test \in DOMAIN program.cases /\ failure \in DOMAIN Case
      /\ \A n, f : Passed(n, f) => n < test \/ (n = test /\ f < failure)
  BY HandlesAtFailure
<1>2. /\ log' \in Seq(LogRecords)
      /\ Len(log) \in Nat /\ Len(log') = last
      /\ DOMAIN log = 1..Len(log) /\ DOMAIN log' = 1..last
      /\ \A k \in DOMAIN log : log'[k] = log[k]
      /\ log'[last] = [test |-> test, failure |-> failure, kind |-> kind, trace |-> trace]
      /\ Fresh' = Fresh \cup {last}
  BY RecordAppends DEF Logged, InRange, RightFor
<1>3. Fresh \subseteq DOMAIN log
  BY DEF Fresh
<1>4. \A k \in Fresh : log'[k] = log[k]
  BY <1>2, <1>3
<1>5. log'[last].test = test /\ log'[last].failure = failure
      /\ log'[last].kind = kind /\ log'[last].trace = trace
  BY <1>2
<1> HIDE DEF last
<1>6. /\ test \in Nat /\ test > 0
      /\ DOMAIN program.cases[test] = DOMAIN Case
  BY DEF InRange, Case
<1>7. pc' = "start" \/ ~program'.removes \/ \A k \in DOMAIN log' : log'[k] # Stale
  <2>1. log'[last] # Stale
    BY <1>5, <1>6 DEF Stale
  <2>2. \A k \in DOMAIN log' : k \in DOMAIN log \/ k = last
    BY <1>2 DEF last
  <2>3. QED
    BY <1>1, <1>2, <2>1, <2>2 DEF Logged
<1>8. ASSUME NEW k \in Fresh'
      PROVE  EntryIsRight(log[k])' /\ Passed(log[k].test, log[k].failure)'
  <2>1. CASE k \in Fresh
    <3>1. log'[k] = log[k] /\ EntryIsRight(log[k]) /\ Passed(log[k].test, log[k].failure)
      BY <1>4, <2>1 DEF Logged
    <3>2. EntryIsRight(log[k])'
      BY <1>1, <3>1 DEF EntryIsRight, FailureOf
    <3> DEFINE n == log[k].test
               f == log[k].failure
    <3>3. n \in DOMAIN program.cases /\ f \in DOMAIN program.cases[n] /\ Passed(n, f)
      BY <3>1 DEF EntryIsRight
    <3> HIDE DEF n, f
    <3>4. \A m \in DOMAIN program.cases : \A g \in DOMAIN program.cases[m] :
             Passed(m, g) => Passed(m, g)'
      BY HandlesPassesOne
    <3>5. n' = n /\ f' = f
      BY <3>1 DEF n, f
    <3>6. Passed(n, f)'
      BY <3>3, <3>4, <3>5 DEF Passed
    <3>7. QED
      BY <3>2, <3>6 DEF n, f
  <2>2. CASE k = last
    <3>1. EntryIsRight(log[k])'
      BY <1>1, <1>5, <1>6, <2>2 DEF EntryIsRight, FailureOf, RightFor, Current, Case
    <3>2. \A m \in DOMAIN program.cases : \A g \in DOMAIN program.cases[m] :
             m = test /\ g = failure => Passed(m, g)'
      BY HandlesPassesOne
    <3>3. Passed(log[k].test, log[k].failure)'
      BY <1>1, <1>5, <1>6, <2>2, <3>2 DEF Passed
    <3>4. QED
      BY <3>1, <3>3
  <2>3. QED
    BY <1>2, <2>1, <2>2
<1>9. \A k \in Fresh' : log'[k].kind = "terminate" => pc' = "ended" /\ k = Len(log')
  BY <1>1, <1>2, <1>4, <1>5 DEF Logged
<1>10. \A j, k \in Fresh' : j < k => Precedes(log'[j], log'[k])
  <2>1. \A j, k \in Fresh : j < k => Precedes(log'[j], log'[k])
    BY <1>4 DEF Logged
  <2>2. \A j \in Fresh : Precedes(log'[j], log'[last])
    BY <1>1, <1>4, <1>5 DEF Logged, Precedes
  <2>3. \A j \in Fresh : ~(last < j)
    BY <1>2, <1>3 DEF last
  <2>4. ~(last < last)
    BY <1>2 DEF last
  <2>5. QED
    BY <1>2, <2>1, <2>2, <2>3, <2>4
<1>11. ASSUME NEW n \in DOMAIN program.cases, NEW f \in DOMAIN program.cases[n], Passed(n, f)'
       PROVE  \/ HasClause(program.cases[n][f], "drop")
              \/ \E k \in Fresh' : log'[k].test = n /\ log'[k].failure = f
  <2>1. Passed(n, f) \/ (n = test /\ f = failure)
    BY <1>11, HandlesPassesOne
  <2>2. QED
    BY <1>2, <1>4, <1>5, <2>1 DEF Logged
<1>12. pc' = "ended" /\ status' = 1 =>
          log'[Len(log')].test = test' /\ log'[Len(log')].failure = failure'
  BY <1>2, <1>5, HandlesEnds
<1>13. QED
  BY <1>1, <1>2, <1>7, <1>8, <1>9, <1>10, <1>11, <1>12 DEF Logged

(* Steps that write nothing.                                               *)
LEMMA SameLogKeepsLogged ==
    ASSUME Logged, UNCHANGED <<log, program>>,
           \A n \in DOMAIN program.cases : \A f \in DOMAIN program.cases[n] :
              /\ Passed(n, f) => Passed(n, f)'
              /\ Passed(n, f)' => Passed(n, f) \/ HasClause(program.cases[n][f], "drop"),
           pc = "start" => pc' = "start" \/ ~program.removes,
           pc = "ended" => pc' = "ended",
           pc' = "ended" /\ status' = 1 =>
              log[Len(log)].test = test' /\ log[Len(log)].failure = failure'
    PROVE  Logged'
<1>1. Fresh' = Fresh
  BY DEF Fresh
<1>2. ASSUME NEW k \in Fresh
      PROVE  EntryIsRight(log[k])' /\ Passed(log[k].test, log[k].failure)'
  <2> DEFINE n == log[k].test
             f == log[k].failure
  <2>1. EntryIsRight(log[k]) /\ Passed(n, f)
    BY DEF Logged
  <2>2. n \in DOMAIN program.cases /\ f \in DOMAIN program.cases[n] /\ n' = n /\ f' = f
    BY <2>1 DEF EntryIsRight
  <2> HIDE DEF n, f
  <2>3. Passed(n, f)'
    BY <2>1, <2>2 DEF Passed
  <2>4. QED
    BY <2>1, <2>3 DEF EntryIsRight, FailureOf, n, f
<1>3. \A k \in Fresh : log'[k].kind = "terminate" => pc' = "ended" /\ k = Len(log')
  BY DEF Logged
<1>4. \A n \in DOMAIN program.cases : \A f \in DOMAIN program.cases[n] :
         Passed(n, f)' =>
            \/ HasClause(program.cases[n][f], "drop")
            \/ \E k \in Fresh : log[k].test = n /\ log[k].failure = f
  BY DEF Logged
<1>5. pc' = "start" \/ ~program'.removes \/ \A k \in DOMAIN log' : log'[k] # Stale
  BY DEF Logged
<1>6. QED
  BY <1>1, <1>2, <1>3, <1>4, <1>5 DEF Logged

LEMMA QuietKeepsLogged ==
    ASSUME InRange, Logged, Quiet
    PROVE  Logged'
<1>1. \A n \in DOMAIN program.cases : \A f \in DOMAIN program.cases[n] :
         Passed(n, f)' <=> Passed(n, f)
  BY QuietPassesNone
<1>2. program' = program
  BY DEF Quiet, Start, BeginTest, Throw, Rethrow, ThrowWithNested, EndTest, EndProgram, End,
     suiteVars
<1>3. CASE Start /\ program.removes
  <2>1. log' = <<>> /\ Fresh' = {}
    BY <1>3 DEF Start, Fresh
  <2>2. \A n \in DOMAIN program.cases : \A f \in DOMAIN program.cases[n] : ~Passed(n, f)
    BY <1>3, CaseIsCase DEF Start, InRange, Passed
  <2>3. pc' = "next" /\ <<>> \in Seq(LogRecords) /\ DOMAIN log' = {}
    BY <1>3, <2>1 DEF Start
  <2>4. QED
    BY <1>1, <1>2, <2>1, <2>2, <2>3 DEF Logged
<1>4. CASE ~(Start /\ program.removes)
  <2>1. log' = log
    BY <1>4 DEF Quiet, Start, BeginTest, Throw, Rethrow, ThrowWithNested, EndTest, EndProgram,
       suiteVars
  <2>2. pc = "start" => pc' = "start" \/ ~program.removes
    BY <1>4 DEF Quiet, Start, BeginTest, Throw, Happens, Rethrow, ThrowWithNested, ClauseIs,
       EndTest, EndProgram, suiteVars
  <2>3. pc = "ended" => pc' = "ended"
    BY DEF Quiet, Start, BeginTest, Throw, Happens, Rethrow, ThrowWithNested, ClauseIs,
       EndTest, EndProgram, suiteVars
  <2>4. pc' = "ended" /\ status' = 1 => UNCHANGED suiteVars
    BY DEF Quiet, Start, BeginTest, Throw, Rethrow, ThrowWithNested, ClauseIs, EndTest,
       EndProgram, End
  <2>5. pc' = "ended" /\ status' = 1 =>
           log[Len(log)].test = test' /\ log[Len(log)].failure = failure'
    BY <2>4 DEF Logged, suiteVars
  <2>6. QED
    BY <1>1, <1>2, <2>1, <2>2, <2>3, <2>5, SameLogKeepsLogged
<1>5. QED
  BY <1>3, <1>4

LEMMA LoggedStep ==
    ASSUME InRange, Carried, Logged, [SuiteNext]_suiteVars
    PROVE  Logged'
<1>1. CASE Quiet
  BY <1>1, QuietKeepsLogged
<1>2. CASE Handles
  <2>1. ASSUME log' = log, HasClause(Current, "drop"), pc' # "ended"
        PROVE  Logged'
    <3>1. program' = program /\ pc \in {"run", "unwind"}
      BY <1>2, HandlesAtFailure
    <3>2. \A n \in DOMAIN program.cases : \A f \in DOMAIN program.cases[n] :
             Passed(n, f)' <=> Passed(n, f) \/ (n = test /\ f = failure)
      BY <1>2, HandlesPassesOne
    <3>3. Current = program.cases[test][failure]
      BY DEF Current, Case
    <3>4. QED
      BY <2>1, <3>1, <3>2, <3>3, SameLogKeepsLogged
  <2>2. ASSUME NEW kind, NEW trace, Record(kind, trace), RightFor(Current, kind, trace),
               kind = "terminate" => pc' = "ended"
        PROVE  Logged'
    BY <1>2, <2>2, RecordKeepsLogged
  <2>3. QED
    BY <1>2, <2>1, <2>2, WhatIsRecorded
<1>3. QED
  BY <1>1, <1>2, StepKinds
----------------------------------------------------------------------------
(* What the adapter prints: the levels' own names, whatever number they    *)
(* went through.                                                           *)
Levels == {"DEBUG", "INFO", "WARN", "ERROR", "FATAL"}
FatalLines == {k \in DOMAIN printed : printed[k] = "FATAL"}

LEMMA AdapterPrintsLevels ==
    ASSUME NEW levels \in Seq(Levels), OnlineLogAdapter(levels)
    PROVE  printed' = printed \o levels
<1>1. \A l \in Levels : LevelStr[MapLogLevel[l] + 1] = l
  BY DEF Levels, LevelStr, MapLogLevel
<1>2. [k \in DOMAIN levels |-> LevelStr[MapLogLevel[levels[k]] + 1]] = levels
  BY <1>1
<1>3. QED
  BY <1>2 DEF OnlineLogAdapter

LEMMA FatalPrinted ==
    ASSUME printed \in Seq(Levels), printed' = printed \o <<"FATAL">>
    PROVE  /\ printed' \in Seq(Levels)
           /\ Len(printed) \in Nat
           /\ FatalLines' = FatalLines \cup {Len(printed) + 1}
<1>1. <<"FATAL">> \in Seq(Levels) /\ Len(printed) \in Nat /\ DOMAIN printed = 1..Len(printed)
  BY DEF Levels
<1>2. /\ printed' \in Seq(Levels) /\ DOMAIN printed' = 1..(Len(printed) + 1)
      /\ \A k \in DOMAIN printed : printed'[k] = printed[k]
      /\ printed'[Len(printed) + 1] = "FATAL"
  BY <1>1
<1>3. FatalLines' = {k \in DOMAIN printed' : printed'[k] = "FATAL"}
  BY DEF FatalLines
<1>4. FatalLines' = FatalLines \cup {Len(printed) + 1}
  BY <1>1, <1>2, <1>3 DEF FatalLines
<1>5. QED
  BY <1>1, <1>2, <1>4

LEMMA OthersPrinted ==
    ASSUME printed \in Seq(Levels), NEW levels \in Seq({"INFO", "ERROR"}),
           printed' = printed \o levels
    PROVE  printed' \in Seq(Levels) /\ FatalLines' = FatalLines
<1>1. levels \in Seq(Levels) /\ Len(printed) \in Nat /\ Len(levels) \in Nat
      /\ DOMAIN printed = 1..Len(printed) /\ DOMAIN levels = 1..Len(levels)
  BY DEF Levels
<1>2. /\ printed' \in Seq(Levels) /\ DOMAIN printed' = 1..(Len(printed) + Len(levels))
      /\ \A k \in DOMAIN printed : printed'[k] = printed[k]
      /\ \A k \in DOMAIN printed' :
            k \in DOMAIN printed \/ (k - Len(printed) \in DOMAIN levels /\ printed'[k] = levels[k - Len(printed)])
  BY <1>1
<1>3. \A k \in DOMAIN printed' : k \in DOMAIN printed \/ printed'[k] # "FATAL"
  BY <1>2
<1>4. \A k \in DOMAIN printed : k \in DOMAIN printed'
  BY <1>1, <1>2
<1>5. FatalLines' = {k \in DOMAIN printed' : printed'[k] = "FATAL"}
  BY DEF FatalLines
<1>6. QED
  BY <1>2, <1>3, <1>4, <1>5 DEF FatalLines

(* A set of indices grows by one when the next index joins it.             *)
LEMMA OneMoreIndex ==
    ASSUME NEW n \in Nat, NEW S \in SUBSET (1..n)
    PROVE  Cardinality(S \cup {n + 1}) = Cardinality(S) + 1
<1>1. IsFiniteSet(S)
  <2>1. IsFiniteSet(1..n)
    BY FS_Interval
  <2>2. QED
    BY <2>1, FS_Subset
<1>2. n + 1 \notin S
  OBVIOUS
<1>3. QED
  BY <1>1, <1>2, FS_AddElement

(* Before the program has begun, nothing is behind it.                     *)
LEMMA NothingFreshAtStart ==
    ASSUME InRange, Logged, pc = "start"
    PROVE  Fresh = {}
<1>1. \A k \in Fresh : log[k].test \in DOMAIN program.cases /\ log[k].test < 1
  BY DEF Logged, EntryIsRight, Passed, InRange
<1>2. QED
  BY <1>1, CaseIsCase

LEMMA AdaptedStep ==
    ASSUME InRange, Carried, Logged, Adapted, [SuiteNext]_suiteVars
    PROVE  Adapted'
<1>1. HasAdapter' = HasAdapter
  BY DEF HasAdapter, SuiteNext, Start, BeginTest, Throw, CatchAndLog, CatchAndDrop, NextFailure,
     Rethrow, ThrowWithNested, RunTestCatches, Terminate, Signal, End, EndTest, EndProgram,
     suiteVars
<1>2. printed \in Seq(Levels) /\ (HasAdapter => Cardinality(FatalLines) = Cardinality(Fresh))
  BY DEF Adapted, Levels, FatalLines
<1> DEFINE OneLineEach ==
              /\ printed' \in Seq(Levels)
              /\ HasAdapter => Cardinality(FatalLines') = Cardinality(Fresh')
<1>3. SUFFICES OneLineEach
  BY <1>1 DEF Adapted, Levels, FatalLines
<1>4. ASSUME UNCHANGED <<log, printed>>
      PROVE  OneLineEach
  BY <1>2, <1>4 DEF Fresh, FatalLines
<1>5. CASE Start
  <2>1. Fresh = {} /\ Fresh' = {}
    BY <1>5, NothingFreshAtStart DEF Start, Fresh
  <2>2. printed' = printed
    BY <1>5 DEF Start
  <2>3. QED
    BY <1>2, <2>1, <2>2 DEF FatalLines
<1>6. ASSUME NEW kind \in Kinds, NEW trace \in Traces, LogStacktrace(kind, trace)
      PROVE  OneLineEach
  <2>1. log \in Seq(LogRecords) /\ test \in Nat \ {0} /\ failure \in Nat
    BY DEF Logged, InRange
  <2>2. Len(log) \in Nat /\ DOMAIN log = 1..Len(log) /\ Fresh' = Fresh \cup {Len(log) + 1}
    BY <1>6, <2>1, RecordAppends DEF LogStacktrace
  <2>3. CASE HasAdapter
    <3>1. <<"FATAL">> \in Seq(Levels)
      BY DEF Levels
    <3>2. printed' = printed \o <<"FATAL">>
      BY <1>6, <2>3, <3>1, AdapterPrintsLevels DEF LogStacktrace
    <3>3. printed' \in Seq(Levels) /\ Len(printed) \in Nat
          /\ FatalLines' = FatalLines \cup {Len(printed) + 1}
      BY <1>2, <3>2, FatalPrinted
    <3>4. Fresh \in SUBSET (1..Len(log)) /\ FatalLines \in SUBSET (1..Len(printed))
      BY <1>2, <2>2 DEF Fresh, FatalLines
    <3>5. Cardinality(Fresh') = Cardinality(Fresh) + 1
      BY <2>2, <3>4, OneMoreIndex
    <3>6. Cardinality(FatalLines') = Cardinality(FatalLines) + 1
      BY <3>3, <3>4, OneMoreIndex
    <3>7. QED
      BY <1>2, <2>3, <3>3, <3>5, <3>6
  <2>4. CASE ~HasAdapter
    <3>1. <<>> \in Seq(Levels)
      OBVIOUS
    <3>2. printed' = printed \o <<>>
      BY <1>6, <2>4, <3>1, AdapterPrintsLevels DEF LogStacktrace
    <3>3. printed' = printed
      BY <1>2, <3>2
    <3>4. QED
      BY <1>2, <2>4, <3>3
  <2>5. QED
    BY <2>3, <2>4
<1>7. CASE Terminate
  BY <1>6, <1>7 DEF Terminate, Kinds, Traces
<1>8. CASE CatchAndLog \/ RunTestCatches
  <2>1. TraceLogged \in Traces
    BY DEF TraceLogged, InRange, Traces
  <2>2. QED
    BY <1>6, <1>8, <2>1 DEF CatchAndLog, RunTestCatches, Kinds
<1>9. CASE Signal
  <2>1. IsSignal(Current.event) /\ test \in DOMAIN program.cases /\ failure \in DOMAIN Case
        /\ printed' = printed
    BY <1>9, HandlesAtFailure DEF Handles, Signal
  <2>2. WellFormed(program)
    BY ProgramsAreWellFormed DEF InRange
  <2>3. ~HasAdapter
    BY <2>1, <2>2 DEF WellFormed, HasAdapter, Current, Case
  <2>4. QED
    BY <1>2, <2>1, <2>3
<1>10. CASE EndProgram
  <2>1. program.messages \in Seq({"INFO", "ERROR"})
    BY ProgramsAreWellFormed DEF InRange, WellFormed
  <2>2. program.messages \in Seq(Levels)
    BY <2>1 DEF Levels
  <2>3. printed' = printed \o program.messages /\ log' = log
    BY <1>10, <2>2, AdapterPrintsLevels DEF EndProgram
  <2>4. printed' \in Seq(Levels) /\ FatalLines' = FatalLines /\ Fresh' = Fresh
    BY <1>2, <2>1, <2>3, OthersPrinted DEF Fresh
  <2>5. QED
    BY <1>2, <2>4
<1>11. CASE BeginTest \/ Throw("traced") \/ Throw("plain") \/ CatchAndDrop \/ Rethrow
            \/ ThrowWithNested \/ EndTest \/ UNCHANGED suiteVars
  BY <1>4, <1>11 DEF BeginTest, Throw, CatchAndDrop, Rethrow, ThrowWithNested, EndTest, suiteVars
<1>12. QED
  BY <1>5, <1>7, <1>8, <1>9, <1>10, <1>11 DEF SuiteNext
----------------------------------------------------------------------------
(* How the process ends.                                                   *)
LEMMA EndsOutsideStep ==
    ASSUME InRange, Carried, EndsOutside, [SuiteNext]_suiteVars
    PROVE  EndsOutside'
<1>1. CASE Terminate
  <2>1. Current' = Current /\ program' = program
    BY <1>1 DEF Terminate, End, Current, Case
  <2>2. CASE Happens("terminate")
    BY <2>1, <2>2 DEF Happens, EndsOutside
  <2>3. CASE NoClauseLeft /\ ~Guarded
    <3>1. Current \in Failures /\ ~Stops(Current)
      BY <2>3, CaseIsCase, PastAllClauses DEF NoClauseLeft, InRange, FailsNow
    <3>2. Current.thread \in {"main", "thread"}
      BY <3>1, FailureFields DEF Threads
    <3>3. QED
      BY <2>1, <2>3, <3>2 DEF Guarded, EndsOutside
  <2>4. QED
    BY <1>1, <2>2, <2>3 DEF Terminate
<1>2. CASE Signal
  BY <1>2 DEF Signal, End, EndsOutside, Current, Case
<1>3. CASE UNCHANGED suiteVars
  BY <1>3 DEF suiteVars, EndsOutside, Current, Case
<1>4. CASE \/ Start \/ BeginTest \/ Throw("traced") \/ Throw("plain") \/ CatchAndLog \/ CatchAndDrop
           \/ Rethrow \/ ThrowWithNested \/ RunTestCatches \/ EndTest \/ EndProgram
  <2>1. pc' # "ended" \/ status' # 1
    BY <1>4 DEF Start, BeginTest, Throw, CatchAndLog, CatchAndDrop, NextFailure, Rethrow,
       ThrowWithNested, ClauseIs, RunTestCatches, EndTest, EndProgram, End
  <2>2. QED
    BY <2>1 DEF EndsOutside
<1>5. QED
  BY <1>1, <1>2, <1>3, <1>4 DEF SuiteNext

LEMMA SuiteInvInit == SuiteInit => SuiteInv
<1> SUFFICES ASSUME SuiteInit PROVE SuiteInv
  OBVIOUS
<1>1. InRange
  BY InRangeInit
<1>2. pc = "start" /\ test = 1 /\ log \in {<<>>, <<Stale>>} /\ printed = <<>>
  BY DEF SuiteInit
<1>3. Stale \in LogRecords
  BY DEF Stale, LogRecords, Kinds, Traces
<1>4. log \in Seq(LogRecords) /\ \A k \in DOMAIN log : log[k] = Stale
  <2>1. CASE log = <<>>
    <3>1. DOMAIN log = {} /\ log \in Seq(LogRecords)
      BY <2>1
    <3>2. QED
      BY <3>1
  <2>2. CASE log = <<Stale>>
    <3>1. DOMAIN log = {1} /\ log[1] = Stale /\ log \in Seq(LogRecords)
      BY <1>3, <2>2
    <3>2. QED
      BY <3>1
  <2>3. QED
    BY <1>2, <2>1, <2>2
<1>5. Fresh = {}
  BY <1>4 DEF Fresh
<1>6. \A n \in DOMAIN program.cases : \A f : ~Passed(n, f)
  BY <1>1, <1>2, CaseIsCase DEF Passed
<1>7. Logged
  BY <1>2, <1>4, <1>5, <1>6 DEF Logged
<1>8. Adapted
  <2>1. DOMAIN printed = {}
    BY <1>2
  <2>2. {k \in DOMAIN printed : printed[k] = "FATAL"} = {}
    BY <2>1
  <2>3. QED
    BY <1>2, <1>5, <2>2 DEF Adapted
<1>9. Carried /\ EndsOutside
  BY <1>2 DEF Carried, EndsOutside
<1>10. QED
  BY <1>1, <1>7, <1>8, <1>9 DEF SuiteInv

LEMMA SuiteInvStep == SuiteInv /\ [SuiteNext]_suiteVars => SuiteInv'
BY InRangeStep, CarriedStep, LoggedStep, AdaptedStep, EndsOutsideStep DEF SuiteInv

(* The invariant that the theorems below rest on: where a program is,      *)
(* what the exception under way carries, what each entry of the log says,  *)
(* and that whatever failed so far is there.                               *)
THEOREM SuiteInvariant == SuiteSpec => []SuiteInv
BY SuiteInvInit, SuiteInvStep, PTL DEF SuiteSpec
----------------------------------------------------------------------------
(* The entries of the log are well formed, and the log of hello holds      *)
(* those of its own run only.                                              *)
THEOREM SuiteTypes == SuiteSpec => []SuiteTypeOK
<1>1. SuiteInv => SuiteTypeOK
  <2> SUFFICES ASSUME InRange, Logged PROVE SuiteTypeOK
    BY DEF SuiteInv
  <2>1. \A k \in DOMAIN log : log[k] \in Entries
    <3> TAKE k \in DOMAIN log
    <3>1. log[k] \in LogRecords
      BY DEF Logged
    <3>2. log[k].test \in 0..Len(program.cases)
      <4>1. Len(program.cases) \in Nat /\ DOMAIN program.cases = 1..Len(program.cases)
        BY CaseIsCase
      <4>2. CASE log[k] = Stale
        BY <4>1, <4>2 DEF Stale
      <4>3. CASE log[k] # Stale
        BY <4>1, <4>3 DEF Logged, Fresh, EntryIsRight
      <4>4. QED
        BY <4>2, <4>3
    <3>3. QED
      BY <3>1, <3>2 DEF LogRecords, Entries, Traces
  <2>2. log \in Seq(Entries)
    BY <2>1 DEF Logged
  <2>3. QED
    BY <2>2 DEF SuiteTypeOK, InRange, Logged
<1>2. QED
  BY <1>1, SuiteInvariant, PTL

(* When a program ends, whatever failed is in its log, once, in order and  *)
(* under its own name, but for what a catch clause drops; nothing is       *)
(* logged of what would have come after the end.                           *)
THEOREM FailuresAreLoggedOnce == SuiteSpec => []EachFailureLoggedOnce
<1>1. SuiteInv => EachFailureLoggedOnce
  <2> SUFFICES ASSUME InRange, Logged, Adapted PROVE EachFailureLoggedOnce
    BY DEF SuiteInv
  <2>1. \A k \in Fresh :
           IF IsSignal(FailureOf(log[k]).event) THEN log[k].kind = FailureOf(log[k]).event
           ELSE log[k].kind = "terminate" => pc = "ended" /\ k = Len(log)
    BY DEF Logged, EntryIsRight
  <2>2. ASSUME pc = "ended", NEW n \in 1..Len(program.cases), NEW f \in DOMAIN program.cases[n]
        PROVE  \/ HasClause(program.cases[n][f], "drop")
               \/ \E k \in Fresh : log[k].test = n /\ log[k].failure = f
               \/ status = 1 /\ Precedes(log[Len(log)], [test |-> n, failure |-> f])
    <3>1. n \in DOMAIN program.cases /\ n \in Nat /\ f \in Nat
      BY CaseIsCase
    <3>2. CASE Passed(n, f)
      BY <3>1, <3>2 DEF Logged
    <3>3. CASE ~Passed(n, f)
      <4>1. status = 1 /\ ~(n < test) /\ ~(n = test /\ f <= failure)
        BY <2>2, <3>3 DEF Passed, InRange
      <4>2. log[Len(log)].test = test /\ log[Len(log)].failure = failure
        BY <2>2, <4>1 DEF Logged
      <4>3. test < n \/ (test = n /\ failure < f)
        BY <3>1, <4>1 DEF InRange
      <4>4. QED
        BY <4>1, <4>2, <4>3 DEF Precedes
    <3>4. QED
      BY <3>2, <3>3
  <2>3. QED
    BY <2>1, <2>2 DEF EachFailureLoggedOnce, Logged, Adapted
<1>2. QED
  BY <1>1, SuiteInvariant, PTL

(* An entry about a StacktraceException shows the throw, through every     *)
(* clause that throws it again; any other entry shows the catch clause.    *)
THEOREM ThrowPointsAreShown == SuiteSpec => []ThrowPointShown
<1>1. SuiteInv => ThrowPointShown
  BY DEF SuiteInv, Logged, EntryIsRight, ThrowPointShown
<1>2. QED
  BY <1>1, SuiteInvariant, PTL

(* What RunTest is around ends the process only by a signal, by            *)
(* std::terminate or in a thread of its own, and never does a test that is *)
(* listed as safe.                                                         *)
THEOREM RunTestDoesContain == SuiteSpec => []RunTestContains
<1>1. SuiteInv => RunTestContains
  <2> SUFFICES ASSUME InRange, EndsOutside, pc = "ended", status = 1, program.runTest
               PROVE  /\ IsSignal(Current.event) \/ Current.event = "terminate" \/ Current.thread = "thread"
                      /\ \A k \in DOMAIN safeTests : Case # TestCase[safeTests[k]]
    BY DEF SuiteInv, RunTestContains
  <2>1. IsSignal(Current.event) \/ Current.event = "terminate" \/ Current.thread = "thread"
    BY DEF EndsOutside
  <2>2. ~IsContained(Case)
    <3>1. failure \in DOMAIN Case
      BY DEF InRange, FailsNow
    <3>2. QED
      BY <2>1, <3>1 DEF IsContained, Current, IsSignal
  <2>3. QED
    BY <2>1, <2>2, SafeTestsAreContained
<1>2. QED
  BY <1>1, SuiteInvariant, PTL
=============================================================================
