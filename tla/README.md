# Verification of the stack trace logger

This directory holds TLA+ models of the C++ program in `src/`: a library that
captures stack traces (`src/stacktrace`), an exception handler that logs them
(`src/src/ExceptionHandler.cpp`), and the programs that use both. The models are
checked by TLC on small instances, and all of their safety properties are proved by
TLAPS for every value of the constants. Every definition that stands for code is listed with its lines in
`PROJECT.json`, under `map`.

Contents: 1 the system, 2 the plan, 3 the modules and the code, 4 what the runs show,
5 bounds, 6 fairness, 7 what is proved, 8 disagreements found, 9 what is not modelled.

## 1. The system

| Component | State | Operations | Works with |
|---|---|---|---|
| **LogStacktrace**, the ordinary log path (`ExceptionHandler.cpp:229-269`) | `loggingInProgress` (atomic flag), `logMutex`, `logCallback_`, the file, an `ofstream` and a `lock_guard` in each call | `LogStacktrace` (two overloads), `SetLogCallback` | called by any thread, by the terminate handler and by the user's callback, which it calls |
| **Crash path**, the signal handlers (`:144-182`, `:204-216`) | `signalSafeBufferInUse` (atomic flag), `gLogFilenamePtr`, the alternate stack, the mask of each thread | `SignalSafeLogStacktrace`, `GetTimestampSafe` | started by the kernel on any thread at any step; appends to the same file; ends with `_Exit(1)` |
| **ExceptionHandler**, the process after `Init` (`:184-218`) | both of the above, the terminate handler | `Init`, the terminate handler | `std::terminate` runs `LogStacktrace` without unwinding, then `_Exit(1)` |
| **Log target** (`:84-97`, `:184-216`, `:275-277`) | `logFilename_` and its buffer, `gLogFilenamePtr`, the words of `logCallback_`, the `struct tm` of `std::localtime` | `Init`, `SetLogCallback`, `GetTimestamp`, destructors at exit | read by both log paths, and by `main.cpp`'s own messages (the `struct tm`); no lock protects it |
| **Stacktrace** (`stacktrace/src/Stacktrace.cpp`) | `frames_`, the string stream | constructor, `ToString`, `ToStringWithLineInfo`, `ResolveAddress`, `ExtractFileLine`, `Demangle` | its back end; `addr2line` or `atos` through `popen` |
| **Stacktrace back ends** | none | `CaptureImpl`, `DladdrResolve` | one is chosen when the library is built |
| **Test driver** (`main.cpp`) | the log file | 33 test cases, `RunTest`, `main` | everything above |
| **Examples, unit tests, demo adapter** | none | one `main` each, `OnlineLogAdapter` | everything above |
| **Build files and scripts** | none | choice of the back end (`stacktrace/CMakeLists.txt` and the `#if` lines), shell driver of the tests | - |

What is hard here, and what each part has to get right:

- *LogStacktrace* uses two locks in an order of its own: the flag is taken before the
  mutex and cleared before it is released, and while the stream still buffers text.
  A callback runs in the middle. It may throw, which destroys stream and lock but
  leaves the flag set; it may log again, on a thread that holds a mutex that is not
  recursive; and it may be replaced between the test of `logCallback_` and the call.
  Right means: one call at a time between exchange and store; the mutex follows its
  scope; entries do not mix in the file; every call is in the file or reported; every
  call returns.
- *The crash path* runs on top of anything. Its mask is empty, so a handler of another
  signal may start inside it, and handlers on other threads at the same time. Right
  means: one record at a time, records do not mix, a lone crash is recorded whole, and
  the process ends, whatever the interrupted code holds.
- *ExceptionHandler* adds `std::terminate`, which calls `LogStacktrace` on top of a call
  that was never unwound, and `_Exit`, which stops all other threads where they are.
  Right means: no wait for one's own mutex, the entry accounted for, the process ends.
- *The log target* is read by both paths without a lock. A second `Init` writes the name that
  a call is about to open, and may free the memory that the signal handler's pointer
  refers to; `SetLogCallback` swaps the words of a `std::function` that another thread calls;
  the destructors at the end of the process do the same once more. Right means: under
  the use that the code supports, nobody reads a freed name or calls a mixture of two
  callbacks, no entry shows the time of another one, and both paths agree on the file.
- *Stacktrace* has buffers of fixed size: 64 addresses, 256 or 512 characters of a tool's
  output, 2 frames to skip. It looks for file and line in text whose parts can look like one.
  Right means: the caller is in the trace, and a line shows the place that the tool found, whole,
  or none. Its back end is chosen twice, by CMake
  and by the preprocessor, which have to agree.
- *The programs* decide which exceptions reach which catch clause. Right means: each
  failure is logged once, with the trace of the throw where the exception carries one,
  and only the tests that should end the process do.

`PROJECT.json` lists these hazards one by one, at their lines, with the properties that
guard against them.

## 2. The plan

Order of work, most important first:

1. `LogService`, `LogStacktrace`: the log path and the service it implements. *(done)*
2. `LogStacktraceProofs`: type correctness, flag, mutex, no wait for oneself. *(done)*
3. `CrashPath`, then `ExceptionHandler`, which composes both with `std::terminate`. *(done)*
4. `ResolveAddress`, `Stacktrace`: capture, resolution and rendering. *(done)*
5. `TestSuite`: the programs. *(done)*
6. `LogTarget`: the file name, the pointer into it that the crash path reads, the callback
   object with its words and the shared `struct tm`, across several `Init` and `SetLogCallback`
   calls, threads that log, a signal, and the destructors at exit. *(done)*
7. `BackEnds`: which of the back ends each configuration builds. *(done)*
8. `LogTargetProofs`: the refinement of `LogStacktrace`, the file both paths use, the lifetime
   of the names. *(done)*
9. `LogFileProofs`: entries in the file, what is reported of them, no silent loss. *(done)*
10. `LogServiceProofs`: the refinement of `LogService`, step by step. *(done)*
11. `CrashPathProofs`: types, one recorder, records apart, a lone crash recorded. *(done)*
12. `ExceptionHandlerProofs`: the same guarantees under terminate handlers and signals. *(done)*
13. `StacktraceProofs`: the build, the buffer, the caller. *(done)*
14. `LogTargetProofs`, second part: types, callbacks, timestamps. *(done)*
15. `TestSuiteProofs`: the programs, from what a program may look like. *(done)*
16. `StacktraceProofs`, second part: what `ExtractFileLine` finds in any readable answer. *(done)*

What is left is out of the prover's reach: liveness.

## 3. The modules and the code

| Module | Models | Notes |
|---|---|---|
| `LogService` | the promise of the log path: calls are accepted, recorded one at a time in the order of acceptance, and an exception may shut the service | abstract specification, no threads |
| `LogStacktrace` | the log path | EXTENDed by `ExceptionHandler`; `ImplementsLogService` refines `LogService` |
| `LogStacktraceProofs` | - | theorems about flag, mutex and stacks in `LogStacktrace` |
| `LogFileProofs` | - | theorems about the file; EXTENDS `LogStacktraceProofs`; also valid when others append to the file |
| `LogServiceProofs` | - | the refinement of `LogService`; EXTENDS `LogFileProofs` |
| `CrashPath` | signals and their handlers | INSTANCEd by `ExceptionHandler` with the log file as `crashLog` |
| `CrashPathProofs` | - | theorems about `CrashPath` |
| `ExceptionHandler` | the process after `Init` | composition of the two |
| `ExceptionHandlerProofs` | - | theorems about the composition; EXTENDS `LogFileProofs` |
| `LogTarget` | the objects that no lock protects, and all who write and read them | EXTENDS `LogStacktrace`, whose steps it refines |
| `LogTargetProofs` | - | theorems about `LogTarget`; EXTENDS `LogFileProofs` |
| `ResolveAddress` | what the tools print, `fgets`, `ExtractFileLine` | operators only |
| `BackEnds` | CMake's sources and macros, the `#if` lines around `CaptureImpl` | operators only |
| `Stacktrace` | the constructor, the capture loops, the rendering loops | EXTENDS `ResolveAddress` and `BackEnds` |
| `StacktraceProofs` | - | theorems about `Stacktrace`, the choice of its back end, and `ResolveAddress` |
| `TestSuite` | the programs | sequential |
| `TestSuiteProofs` | - | theorems about `TestSuite` |
| `MC...` | - | constant values for the runs |

**LogStacktrace.** `frame[t]` is the stack of `LogStacktrace` calls that thread `t` is in,
`depth[t]` its height. A frame has the point it has reached, the branch whose message it
reports (`WARN` for a call that is turned away, `ERROR` when the file does not open, `FATAL`
after the entry is inserted), and the parts of its text that the stream has not yet
written. `Call` pushes a frame; `Admit` and `Reject` are the two outcomes of the exchange in
line 234; `Lock`, `Build`, `Open`, `OpenFails`, `WritePart`, `Inserted` are lines 244-252;
`CheckCallback`, `InvokeCallback`, `CallbackReturns` and their companions are the three
copies of "callback or stderr"; `Clear`, `Close`, `Unlock`, `Return` are line 268 and the
destructors. A part may be written while `<<` runs or by the destructor of the stream, as
the buffer happens to fill: the model allows every split. `Unwound` is C++ unwinding:
it runs the destructors of the locals that are alive at that point and does not touch
the flag. `SetLogCallback` is a step between any two others.

**CrashPath.** `handlers[t]` is the stack of handler frames on thread `t`. `Raise` is an
asynchronous or raised signal (held back while its own handler runs), `Fault` a faulting
instruction (fatal while its signal is blocked), `Overflow` an exhausted stack (fatal
without an alternate stack). `Enter` ... `Exit` follow lines 144-205. `libcOwner` says
who holds the C library's locks that the handler itself may need: the time zone's, which `localtime_r`
takes (line 62), and the heap's, because the first `backtrace` of a process (line 174) loads libgcc, which
allocates. A signal that stops a thread inside the C library (`RaiseHolding`) leaves it their owner,
and nobody ever unlocks them again. `HeldLocks` is what a run lets signals find held; in a process
that called `backtrace` before, the heap's is never waited for, and not among them.

**ExceptionHandler.** The threads of `LogStacktrace` and the handlers of `CrashPath` share
the file. A thread runs ordinary code only while it is in no handler and the process
runs. `Terminate` pushes the terminate handler's call on top of a stack that is not
unwound; `TerminateExits` is `_Exit(1)`; an exception out of the terminate handler's own call
is `abort()`, which raises SIGABRT.

**LogTarget.** The owner thread's position is `owner`: it is idle, in the steps of `Init`, in
those of `SetLogCallback`, or past `main`. `buffers` are the memory that `logFilename_` has had,
the first of them inside the string object (15 characters in libstdc++; `hello`'s own name,
`stacktrace.log`, fits, those of the examples, the demo and the tests do not). `Assign`, `Dispose`, `Copy` and
`Copied` are line 185 as libstdc++ carries it out, `SetPointer` is line 186, `Install` is the
terminate handler and each `sigaction` in turn. `words` are the functor, the manager and the
invoker of `logCallback_`, which an assignment swaps one by one in the compiler's order;
`logCallback_` of `LogStacktrace` is whether the manager is set. `DestroyCallback` and `DestroyName` are
the destructors, in the reverse order of lines 84-85. On the other side, `LogStep` is a step of
`LogStacktrace` that waits until its thread has made the reads it depends on: `Localtime` and
`PutTime` (line 93), `ReadName` (248, and the messages of 256 and 259), `ReadFunctor` (237, 253, 261).
`tm` says for each field of the shared `struct tm` whose time it holds. `localtime` writes the fields one
by one and `put_time` reads them one by one, in any order, and `stamp` collects whose times went into an
entry. `GetTimestamp` of `main.cpp` (lines 20-35, behind `LOG_INFO` and `LOG_ERROR`) writes the same object
from any thread; a read finds such a time (`NoCall`) or the one written last (`Found`). `Signal`, `LoadPointer` and
`RecordAndExit` are what the crash path has to do with it. A read that races with a write
sees the old word, the new one, or, in a name, `"partial"`.

**ResolveAddress, BackEnds and Stacktrace.** Text is a sequence of tokens, coarse where
`ExtractFileLine` does not look: a letter for a run of plain characters, `9` for a digit, and
`:`, `(`, `)` and the line end for themselves, `_` for a space, `@` for `" at "`. `Answers` are the shapes of output
that the tools have (external to `src/`): C++ names with colons and parentheses or with the place of a
lambda in them, paths with a space, a parenthesis, a colon or `" at "`, unknown places, a discriminator
note, names and paths too long for the buffer. `method` is the loop that writes the lines: with Boost
`ToString` has its own, which asks for a place only where the back end knows none, and `ToStringSimple`
is `ToStringWithLineInfo`, which always asks; without Boost both are the latter. A frame without a
module has no answer from `atos` in the native build; with Boost, `ResolveAddress` asks `dladdr` by itself. The call stack of
`Stacktrace` is a number of levels; `build` is what one of the 48 configurations (system, two options,
whether Boost and libunwind are found) is compiled to: the definitions of `CaptureImpl` that are
left, the macros and `__APPLE__`. There are seven different ones.

**TestSuite.** A program is a sequence of tests, a test a sequence of failures, a failure
an event (an exception with a trace, one without, `std::terminate`, a signal), the catch
clauses it meets from the inside out, and its thread. Each test case and each `main` is a
definition of its own. `Registered` and `Named` are the two lists of signals in
`ExceptionHandler.cpp`, for which `Init` installs the handler and to which the handler gives a name.
The demo passes every entry to `OnlineLogAdapter`, which maps levels twice. `hello` is modelled with each of its
33 arguments, with none, with a number out of range and with something that is no
number.

## 4. What the runs show

| Run | Shows |
|---|---|
| `log_calls` | Two threads, nested calls, every fault, a callback that may do anything and be replaced at any time. The flag admits one call at a time (`OneAdmitted`); the mutex is held by exactly the thread whose `lock_guard` is alive, whatever is thrown (`MutexFollowsScope`); nobody waits for its own mutex (`NoSelfDeadlock`); entries are contiguous although text is flushed after the flag is cleared (`EntriesContiguous`, `AppendUnderMutex`); every call returns (`EveryCallReturns`), and the flag is cleared again unless an exception went through a call (`FlagReleased`). |
| `log_service` | Three threads, so that one finishes, one waits and one is turned away. No call is lost in silence, reports agree with the file, and the code refines `LogService`. |
| `crash_path` | Three threads, two signals, nested and at once: at most one handler records, records do not mix, a lone crash is recorded whole (or not at all when the file cannot be opened), and a started handler leads to the end of the process unless a signal stopped a thread inside the C library, in `localtime` or where it allocates. |
| `terminate` | Uncaught exceptions from every place that can throw, inside calls and callbacks: the terminate handler never waits for its own thread, accounts for its entry, and ends the process. |
| `crash_while_logging` | SIGSEGV at every step of both paths, except inside the C library (see `claim_signal_safe`): the process ends, and entries do not mix with each other. (A crash record can land inside an entry.) |
| `log_target` | `Init` and `SetLogCallback` called again, and the destructors at exit, against two threads that log and a signal at any step. No name is read from freed memory as long as later names fit where the first one did, and at exit if it is in the object itself (`NameOutlivesReaders`); outside `Init` both paths write to the same, last named file, and no handler is there before it has a name (`CrashFileIsLogFile`); functions can be exchanged under running calls, and a callback of any kind can stay, without a call of half of it (`CallbackRunsWhole`); the time in an entry can be a mixture, but nothing in it is another entry's (`NoTimeOfAnotherEntry`). |
| `stacktrace` | All configurations: exactly one `CaptureImpl` is built (`OneBackEnd`). Stacks that fit or not: the buffer is not overrun, the caller is in the trace (`CallerCaptured`), and a line shows the whole place or none, for every answer that is readable (`PlaceIsWhole`): it fits in the buffers, and is none of the forms that the search misreads (section 8). |
| `test_suite` | Every program: each failure is logged exactly once, under the right name and in order until the process ends, the adapter prints each entry, entries carry the trace of the throw where there is one, the old log is gone, and `RunTest` contains what it should. |
| `claim_...` | See section 8: statements of the documents that the code does not keep. |

Each property of a passing run has a mutant in `PROJECT.json`: a plausible mistake in a
mapped definition, kept in the module as a "faulty variant", under which TLC finds the
property violated.

## 5. Bounds, and why they are enough

- `Threads`: two show every race between a call and another; three are needed where one
  finishes after clearing the flag, a second is admitted and waits, and a third is turned
  away (`log_service`), and for three handlers at once (`crash_path`).
- `MaxCalls = 2`, `MaxDepth = 2`: a second call meets what the first has left behind (a flag
  that stays set, text in the buffer), and a nested call meets its own thread's locks. In
  the code the nesting has no bound: see section 8.
- `Parts = 2`: an entry has a part that is written before the flag is cleared and one after.
- `RecordParts = 2` in `crash_path`: a record can be cut between its writes. Where records
  only have to be told from entries, 1.
- Two signals: one can nest in the other; a signal cannot nest in itself.
- `log_target`: `MaxOperations = 2` is two calls of `Init`, two of `SetLogCallback` or one of each, before
  `main` is left; what a third would do is what the second does, with another first. Three
  names: one that fits into the string object, two that do not. Two functions, because a
  mixture needs two, and one closure. `Handlers = 2`: a signal whose handler is there, and one
  whose handler is not there yet. Each thread makes one call, which the other's overlaps. Two `Fields`
  make a mixture.
- `BufferSize = 4` for 64 and `LineLimit = 20` for 256: a stack of 4 fits, one of 7 does not;
  for each limit there are answers below, at and above it (`LineLimitAssumption`: a line has room
  for a file, a colon and a number at least). `Answers` are 210: five names, seven files, three
  numbers, two notes. Boost's loop has no limit, so
  its depth is 3.
- `LibraryFrames = {1, 2, 3}`: how many of the innermost levels are the library's own. The native
  back ends are source files of their own, so that `CaptureImpl` and the constructor that calls
  it are at least two levels (`LibraryMayBe`); with Boost, whose `CaptureImpl` is in the constructor's
  file and skips nothing, they may be one. Link-time optimisation, which the build files do
  not ask for, could make them one elsewhere too.
- `TestSuite` is finite as it is.

`CHECK_DEADLOCK FALSE` is set throughout: a process in which every thread has made its calls,
or has ended, has nothing left to do.

## 6. Fairness

`FairSpec` of `LogStacktrace` has weak fairness of `Progress(t)` for each thread: a thread inside
a call is scheduled again and again, and a callback returns or throws in the end. Weak
fairness is enough although the mutex is contended, because at most one call waits for
it (`OneAdmitted`). Nothing has to call `LogStacktrace`, and `SetLogCallback` need not happen.
`CrashSpec` and `SystemSpec` have the same for handler frames and for the end of the terminate
handler. No signal has to arrive, nothing has to be thrown. Without these assumptions
a thread might never be scheduled, which no code can prevent. While
the process runs, a thread in a handler does not run its ordinary code.

## 7. What is proved

The theorems hold for every value of the constants that satisfies the named ASSUMEs of the
modules: every set of threads, every `MaxDepth`, `MaxCalls`, `Parts` and `RecordParts`, every set of faults
and everything a callback may do; every set of signals; names of any length; a buffer of any size; a
line of any length above 3.
`LogStacktrace`'s assumptions say only that `NoThread` is not a thread, that the bounds are naturals and
the sets what they are declared to be. `SystemAssumption` adds that signals are not numbers of
calls, so that a crash record is told from an entry (in the file their texts differ).
`TargetAssumption` adds that no name is one of the words for an empty, half-written or freed
buffer, that lengths are naturals, that an empty callback is no callable, that `Init` installs a
handler, and that callbacks are exchanged. TLC evaluates all of them on the instances of the runs.

| Module | Theorem | Statement |
|---|---|---|
| `LogStacktraceProofs` | `Invariance` | `Spec => []IInv` |
| | `TypeCorrect` | `Spec => []TypeOK` |
| | `FlagIsExclusive` | `Spec => []OneAdmitted` |
| | `MutexIsScoped` | `Spec => []MutexFollowsScope` |
| | `NeverSelfDeadlocked` | `Spec => []NoSelfDeadlock` |
| | `WritesAreLocked` | `Spec => AppendUnderMutex` |
| `LogFileProofs` | `FileInvariance` | `Spec => [](IInv /\ FileInv /\ log \in Seq(EntryParts))` |
| | `EntriesStayWhole` | `Spec => []EntriesContiguous` |
| | `CallsAreAccounted` | `Spec => []NoSilentLoss` |
| | `ReportsAreTrue` | `Spec => []ReportsMatchLog` |
| `LogServiceProofs` | `ServiceImplemented` | `Spec => ImplementsLogService` |
| `CrashPathProofs` | `CrashInvariance` | `CrashSpec => []CrashInv` |
| | `CrashTypeCorrect` | `CrashSpec => []CrashTypeOK` |
| | `RecorderIsAlone` | `CrashSpec => []OneRecorder` |
| | `RecordsStayTogether` | `CrashSpec => []RecordsUnmixed` |
| | `SingleCrashIsRecorded` | `CrashSpec => []SingleCrashRecorded` |
| `ExceptionHandlerProofs` | `SystemInvariance` | `SystemSpec => []SystemInv` |
| | `SystemTypeCorrect` | `SystemSpec => []SystemTypeOK` |
| | `SystemNeverSelfDeadlocked` | `SystemSpec => []NoSelfDeadlockInSystem` |
| | `SystemEntriesApart` | `SystemSpec => []EntriesUnmixed` |
| | `TerminateIsAccounted` | `SystemSpec => []TerminateAccounted` |
| `LogTargetProofs` | `ImplementsLogStacktrace` | `TargetSpec => Spec` |
| | `CrashFileInvariant` | `TargetSpec => []CrashFileIsLogFile` |
| | `NameLifetime` | `TargetSpec => []NameOutlivesReaders` |
| | `ReaderInvariance` | `TargetSpec => [](TargetInv /\ HandlerInv /\ ReaderInv)` |
| | `TargetTypeCorrect` | `TargetSpec => []TargetTypeOK` |
| | `CallbackIsWhole` | `TargetSpec => []CallbackRunsWhole` |
| | `EntryTimesApart` | `TargetSpec => []NoTimeOfAnotherEntry` |
| `StacktraceProofs` | `TraceInvariance` | `TraceSpec => []TraceInv` |
| | `OneBackEndLinked` | `TraceSpec => []OneBackEnd` |
| | `TraceTypeCorrect` | `TraceSpec => []TraceTypeOK` |
| | `CallerIsCaptured` | `TraceSpec => []CallerCaptured` |
| | `LocationIsPlace` | every answer in `AnyAnswers` that is `Readable`: `Location(a) = Place(a)` |
| | `PlacesAreWhole` | `TraceSpec => []PlaceIsWhole` |
| `TestSuiteProofs` | `SuiteInvariant` | `SuiteSpec => []SuiteInv` |
| | `SuiteTypes` | `SuiteSpec => []SuiteTypeOK` |
| | `FailuresAreLoggedOnce` | `SuiteSpec => []EachFailureLoggedOnce` |
| | `ThrowPointsAreShown` | `SuiteSpec => []ThrowPointShown` |
| | `RunTestDoesContain` | `SuiteSpec => []RunTestContains` |

Every inductive invariant was checked by TLC as an invariant of its instance before it was proved.
The arguments:

**Flag, mutex, stacks.** None of the safety invariants is inductive alone. `OneAdmitted` needs to
know that a frame that has just been pushed is not admitted; `MutexFollowsScope` needs to know
that a thread holds the mutex in one frame only, or `Unlock` would free it under another frame.
`IInv` therefore adds `StackOK` and `OneHolder`. `StackOK` says that frames in use are a prefix of the
stack, that a frame's branch agrees with the point it has reached, and that all but the
innermost are at a point in `Left`: inside a callback, or, because the terminate handler calls
`LogStacktrace` on a stack that was not unwound, wherever an exception can leave a frame. That
is weaker than what `LogStacktrace` alone needs, so that the same invariant serves the process.
`CallsTypeOK` leaves the log out of the types for the same reason: in the process it holds
crash records too. Most of the actions only move one frame along without changing what it holds:
`QuietSteps` shows this once for fifteen of them, and `QuietKeeps` that such steps keep the
invariant; the others have a lemma each. `NeverSelfDeadlocked` then follows: a thread that waits
for the mutex is admitted, so its outer frames are not, and a frame that holds the mutex
and is not admitted is never under another one.

**The file.** `FileInv` adds to the properties what each frame has done so far (`FrameFile`): a
frame that has not opened its stream has nothing in the file; one whose stream owes it
`unwritten` parts has written exactly the ones before, and if it has begun, the last entry part
in the file is its own; its reports agree with its branch. That the last part is its own is what keeps
entries contiguous, because the next writer has to wait for the mutex, and the stream is flushed
before it is released. Frames in use have different call numbers, none above `calls`, and nothing is
known of calls to come. The lemmas are stated for a file in which others may append parts
of their own (`IsEntry` tells the entries from them), so that they can be cited for the process.

**The service.** The refinement is proved step by step: the queue is the call that holds the
mutex, if any, followed by the call that is admitted and waits, if any; recorded are the calls whose
entry is whole. `Admit` is `Accept`, `Unlock` is `Leave`, the last `WritePart` of an entry is `Record`, a step
that leaves the flag set with nobody inside is `Jam`, and every other step stutters, `Clear` and `Lock`
included: after the flag is cleared the call is still in the queue, and taking the mutex moves it from
the waiting to the holding part of the same sequence. `IInv` says that each part has at most one
member, `FileInv` that a call records once, and at the head of the queue.

**The crash path.** `OneRecorder` is kept because only the handler that found the flag clear goes past the
exchange, and only it releases. For the records, `CrashInv` says which parts the file can hold: those
that a handler still on a stack has written (a handler never returns), all of them if writes
succeed, and that nothing follows a part of the record in progress but parts of the same. A
handler is named by its thread and signal, because its own signal is blocked while it runs.
`SingleCrashRecorded` needs in addition how a handler can have come to `_Exit`: with its record
complete, without a file, or turned away, and then there is another handler.

**The process.** `SystemInv` is `IInv` and `FileInv` again, with a file that holds crash records too. A step of
`LogStacktrace` keeps it by the lemmas of `LogStacktraceProofs` and `LogFileProofs`; `Terminate` pushes a frame
on top of one at a point in `Left`; a step of a handler touches the handlers and appends a foreign
part (`Foreign`), which `ForeignKeeps` shows to be harmless.

**The log target.** A step of a thread in `LogTarget` is by definition one of its steps in
`LogStacktrace` that waits for its reads (`ThreadStep`); a step of `SetLogCallback` changes nothing
that `LogStacktrace` knows of, or sets or empties `logCallback_` when it swaps the manager
(`OwnersStep`); the rest stutters. So the theorems about `LogStacktrace` hold in `LogTarget` too. For the
file both paths use, `TargetInv` says what each step of `Init` has established before the next one (the
text after the copy, the pointer after line 186, all handlers at the end) and `HandlerInv` that a
handler which was entered was installed, so that the pointer was set. For the lifetime of the
names, `RoomInv` counts the buffers: as long as all names fit in what the first one left room
for, there is none but the one inside the object, or exactly one more, of the first
name's size, in use from the first copy on and freed by the destructor only. `SeenInv` and
`HandlerInv` keep every pointer that a thread or the handler has read among these two.
For the callback, `CallbackInv` and `SightInv` say that every word of `logCallback_`, and every word that a call
has read of it, is one of what it was given; nothing that is a plain function is ever destroyed,
and nothing at all while the first callback stays. For the timestamps, `StampInv` says that while
a call builds its entry, the fields of the shared `struct tm` that it has written, and all it has read, are
its own time or no entry's (`NoEntrys`): the program's, or that of a call that is
`TurnedAway`, not in the file and only on its way back. Whatever other call could write to it at that point
would hold the mutex (`BuilderIsAlone`). `TurnedAway` is stable (`AwayStaysInProgress`, `AwayStaysInPush`), since
such a call writes nothing and numbers of calls are not used twice.

**Stacktrace.** `OneFile` computes what CMake lists and the `#if` lines leave, for all configurations;
`BuildKnown` and `LoopBounds` draw from it the first and the last level that the loop captures.
`TraceInv` says that `frames_` holds the levels from the first one on, one for each turn of the loop. The caller is there because the library's own levels
are fewer than `depth` and, except with Boost, at least two (`LibraryMayBe`).

**The place of a frame.** `AnyAnswers` drops the bounds of `Answers`: function names and files of any length
and of any tokens but a line end, line numbers of any length or `?`, with the note or without it.
`AnswersAreAny` shows that the answers of the model are among them. The theorem is about those that are
`Readable`: lines that fit in the buffers, and none of the forms in `MisleadsAddr2line` and `MisleadsAtos`, on which
the code does go wrong (section 8). On Linux `ReadOnLinux` says token by token what `ResolveAddress` makes of the
two lines; behind its last `" at "` is the place and the note. Without a note that is a file and a line
(`PlaceIsFileLine`), whatever is in the name. With one it is not, nor is what the note has in parentheses
(`NoPlaceBehindAt`, `NoPlaceInParens`, `NoteHasNoPlace`), and the third format is searched: no colon in front has a
digit behind it (`NoMatchBefore`, from `Numbered` of the name and the file), so that the leftmost match is the place,
and `" at "` in front of it and the space behind it keep it from taking in more (`PlaceMatches`). On macOS the
place is in the last parentheses, and a text that ends in a parenthesis has none behind an `" at "` (`PlaceOnMac`).
Without a number none of the formats matches, as what is in front is `Quiet`. The lemmas take
sequences apart by index (`TwoParts`, `LastTokenIs`, `WholeLine`) and know minimum and maximum by what characterises
them (`LeastIs`, `GreatestIs`, `HasGreatest`), so that no induction over the text is needed.

**The programs.** The first half of `TestSuiteProofs` shows that each of `AllPrograms` is `WellFormed`: only the last
clause of a failure ends the exception, only the last failure of a test gets past its own clauses, and
what comes out of a future is caught where it is asked for. The second half uses nothing else of the
programs, so that it also holds for any others of that form. `SuiteInv` has five parts. `Carried` says what
the exception under way carries at each clause: the trace of its throw, until a clause throws a new one
around it. `Logged` says that each entry since the start agrees with its failure, that the entries
are in the order of the failures, and that every failure that the program has got past (`Passed`) has
its entry or was dropped. No step gets past more than one failure (`HandlesPassesOne`), and the steps that do
append its entry (`RecordAppends`). `Adapted` counts what the adapter printed, and `EndsOutside` says by what a program
can have ended.

Only model-checked is liveness: `EveryCallReturns`, `FlagReleased`, `CrashEndsProcess`, `TerminateEndsProcess` and
`CrashEndsSystem`. Fairness and ENABLED are out of the prover's reach.

## 8. Disagreements and observations

Checked by runs that end in a violation:

1. `claim_reentrant`: the flag belongs to the process, not to the thread. Of two threads that
   log at the same time one is turned away "re-entrant" and its entry is lost, although
   the documents call the function thread-safe.
2. `claim_terminate_records`: the terminate handler is turned away in the same manner, and the
   process exits without the stack trace of the uncaught exception.
3. `claim_signal_safe`: `localtime_r`, documented as signal-safe, takes a lock of the C
   library. A signal that interrupts `std::localtime` in `GetTimestamp` leaves a handler that
   waits for ever. The same page calls `backtrace` signal-safe (line 25): its first call in a process
   loads libgcc, which allocates, and can wait for the heap's lock. The premise of `CrashEndsProcess`
   names both cases.
4. `claim_addr2line`: `addr2line -e /proc/self/exe` reads `addr2line`'s own executable. Running
   the program confirms it: every frame is printed `at ??:0`.

Seen while modelling, not stated as claims:

- The argument of `Stacktrace` reserves memory and limits nothing: `CaptureImpl` captures up to
  `DEFAULT_MAX_FRAMES` frames, or all of them with Boost. `src/docs/02-api.md:26` calls it the
  largest number of frames captured.
- `src/CMakeLists.txt:34` sets `BOOST_ROOT` after line 28 has added the subdirectory `stacktrace`, which
  sets the cache entry `BOOST_ROOT` to the empty string if it is not given: the library is built
  without Boost unless `-DBOOST_ROOT=...` is on the command line, whatever lines 30-33 are
  edited to.
- A second `Init` with a longer name frees the buffer of the first one while a thread may be
  opening it, and before line 186 has moved `gLogFilenamePtr`. At exit the buffer of a name on the
  heap is freed while the handlers stay installed. `NameOutlivesReaders` names both cases.
- `SetLogCallback` under a running call is safe between plain functions only: a closure can be
  called through another's invoker, or after it is destroyed.
- The warning branch uses the shared `struct tm` outside the mutex, and so does `GetTimestamp` of `main.cpp`
  (line 26; `main.cpp:101` does it in the threads of a test). Writers and readers go through it field by
  field, so that an entry can show a mixture of times: its own, the program's, and those of calls that
  were turned away. `NoTimeOfAnotherEntry` says that it is no more than that.
- `LogStacktrace` before `Init` opens the file `""`, which fails: the entry is reported and not written.
- An exception from the callback, from `bad_alloc` or from an emptied `std::function` leaves the
  flag set: every later call in the process is turned away. `FlagReleased` and `LogService`'s
  `Jam` say exactly this much.
- A callback that logs on every message nests without bound: each nested call is turned
  away, warns through the callback, and is nested again.
- The success message is sent before the stream is flushed, and also when a write failed.
  `ReportsMatchLog` is stated for files that accept writes.
- A second crashing thread finds the flag set, prints "re-entrant" and calls `_Exit`, which cuts
  off the record of the first.
- `sigaltstack` holds for the thread that called `Init`. A stack overflow elsewhere ends the
  process without a record.
- `addr2line` prints `??:0` for an unknown place, and `ExtractFileLine` accepts it: the line shows
  `at ??:0` instead of the module's name. With `??:?` the module is shown.
- In `ToStringWithLineInfo` frame numbers are hexadecimal after the first frame without a
  symbol, until a line number is printed (line 228). `ToStringSimple` gets there with Boost too; only
  `ToString` with Boost sets the base back (line 176).
- A path longer than the buffer can lose the end of its line number and still be
  accepted. `PlaceIsWhole` is stated for lines that fit.
- `ExtractFileLine` misreads some answers (`MisleadsAddr2line`, `MisleadsAtos`). With a discriminator note behind the
  number the first two formats fail, and the third cuts a path at its last space (`/my dir/foo.cpp:12
  (discriminator 3)` gives `dir/foo.cpp:12`) or at a colon, or finds a number in the function's name. A path
  with `" at "` in it is cut there. Of an `atos` line, a path with a parenthesis is cut. And when the
  place is unknown, a number in the name is taken for it.
- `src/README.md:112-114` lists test 28 as safe and 30 as a crash, and `main.cpp:743` lists 29 and
  30 as tests that end the process. The code ends in 28, by `std::terminate`, and catches
  29 and 30.

## 9. What is not modelled

- The text of entries, messages and timestamps (whose timestamp it is, is in `LogTarget`), the base of
  the frame numbers, and `Demangle`. No property depends on them.
- What makes a C library wait inside a signal handler, besides the locks of `libcOwner`: an allocator with
  several heaps may have the lock free that the model has taken, which is the step of a signal that
  finds no lock held.
- In `LogStacktrace`, `CrashPath` and `ExceptionHandler` the callback is replaced in one step and the
  name is there: what races with them is in `LogTarget`, which has one owner thread, one
  signal handler and no exceptions out of callbacks. Two threads that both call `Init` are not
  modelled.
- The branch of `Init` for systems other than Linux and macOS (`std::signal`, lines 217-226). It
  installs the same handlers without an alternate stack.
- `std::cerr` and the standard output.
- The targets of the programs and the linked libraries in the build files, and the shell scripts:
  they keep no state of the program.
- `STACKTRACE_HAS_LIBBACKTRACE`: its branch in the Linux back end is empty and captures nothing, as
  the `fallback` build does.
