----------------------------- MODULE LogTarget -----------------------------
(***************************************************************************)
(* The objects of ExceptionHandler that no lock protects: logFilename_,    *)
(* the pointer gLogFilenamePtr into it, the words of the std::function     *)
(* logCallback_, and the struct tm that std::localtime shares, field by    *)
(* field.  One thread (the owner) calls Init and SetLogCallback and leaves *)
(* main, which runs the destructors of the first two; the threads of       *)
(* LogStacktrace.tla and one signal handler read them in the meantime, and *)
(* main.cpp's own messages take the time too.                              *)
(*                                                                         *)
(* What an operation of std::string or std::function does step by step is  *)
(* that of libstdc++.  A read that races with a write sees the old value,  *)
(* the new one or half of each.                                            *)
(***************************************************************************)
EXTENDS LogStacktrace

CONSTANTS
    Names,          \* the file names that Init is given
    Length,         \* of each name
    ShortSize,      \* the longest name that fits in the string object itself
    Callables,      \* what SetLogCallback is given ...
    Pointers,       \* ... of which these are plain functions
    NoCallable,     \* an empty std::function
    Handlers,       \* sigaction calls in Init
    Fields,         \* of struct tm
    MaxOperations   \* bound: calls of Init and of SetLogCallback

ASSUME TargetAssumption ==
    /\ Names \cap {"", "partial", "freed"} = {}
    /\ Length \in [Names -> Nat]
    /\ ShortSize \in Nat
    /\ Pointers \subseteq Callables
    /\ NoCallable \notin Callables
    /\ Handlers \in Nat \ {0} /\ MaxOperations \in Nat
    /\ CallbackChanges

VARIABLES
    owner,      \* where the owner is in what it does
    inits,      \* the names given to Init so far
    buffers,    \* the buffers of logFilename_; the first is inside the object
    data,       \* the one in use
    gLogFilenamePtr,    \* the one that the crash path uses, 0 for nullptr
    installed,  \* the handlers installed: terminate, then the signals in turn
    given,      \* what logCallback_ was given, its first content included
    words,      \* the words of logCallback_
    destroyed,  \* the callables that were destroyed
    tm,         \* for each field of the shared struct tm, the call whose time it holds
    seen,       \* what each thread has read for its next step
    handler     \* a signal handler, and the pointer that it has read

nameVars == <<inits, buffers, data, gLogFilenamePtr, installed>>
callbackVars == <<given, words, destroyed, logCallback_>>
readerVars == <<tm, seen, handler>>
threadVars == <<loggingInProgress, logMutex, depth, frame, calls, log, told>>
targetVars == <<owner, nameVars, callbackVars, readerVars, threadVars>>
----------------------------------------------------------------------------
Words == {"functor", "manager", "invoker"}
NoCall == <<>>
NothingSeen == [unwritten |-> Fields, unread |-> Fields, stamp |-> {},
                name |-> 0, words |-> <<>>, cerr |-> FALSE]

TargetInit ==
    /\ Init
    /\ given \in {<<c>> : c \in Callables \cup {NoCallable}}
    /\ logCallback_ = (given[1] # NoCallable)
    /\ words = [w \in Words |-> given[1]]
    /\ buffers = <<[size |-> ShortSize, text |-> ""]>>
    /\ data = 1 /\ gLogFilenamePtr = 0 /\ installed = 0 /\ inits = <<>>
    /\ owner = "idle" /\ destroyed = {}
    /\ tm = [f \in Fields |-> NoCall]
    /\ seen = [t \in Threads |-> NothingSeen]
    /\ handler = [pc |-> "none", name |-> 0]

OwnerStep(from, to) == owner = from /\ owner' = to
MayOperate == Len(inits) + Len(given) <= MaxOperations
----------------------------------------------------------------------------
(* Init: a string that needs a larger buffer disposes of the old one; the  *)
(* name is copied, then the pointer is set, and only then the handlers are *)
(* installed, one by one.  Installing one again changes nothing.           *)

(* Faulty variants: the string is always built anew; the pointer is set by *)
(* the first Init only; one handler too many is counted.                   *)
FitsNever(n) == FALSE
SetPointerOnce ==
    /\ OwnerStep("pointer", "install")
    /\ gLogFilenamePtr' = IF gLogFilenamePtr = 0 THEN data ELSE gLogFilenamePtr
    /\ UNCHANGED <<inits, buffers, data, installed>>

InstallOneMore ==
    /\ owner = "install" /\ installed <= Handlers + 1
    /\ installed' = installed + 1
    /\ UNCHANGED <<owner, inits, buffers, data, gLogFilenamePtr>>

Fits(n) == Length[n] <= buffers[data].size

Text(b, s) == buffers' = [buffers EXCEPT ![b].text = s]

Assign(n) ==
    /\ MayOperate
    /\ inits' = Append(inits, n)
    /\ \/ Fits(n) /\ OwnerStep("idle", "copy") /\ UNCHANGED buffers
       \/ /\ ~Fits(n) /\ OwnerStep("idle", "dispose")
          /\ buffers' = Append(buffers, [size |-> Length[n], text |-> "partial"])
    /\ UNCHANGED <<data, gLogFilenamePtr, installed>>

Dispose ==
    /\ OwnerStep("dispose", "copy")
    /\ IF data = 1 THEN UNCHANGED buffers ELSE Text(data, "freed")
    /\ UNCHANGED <<inits, data, gLogFilenamePtr, installed>>

Copy ==
    /\ OwnerStep("copy", "copied")
    /\ data' = Len(buffers) /\ Text(data', "partial")
    /\ UNCHANGED <<inits, gLogFilenamePtr, installed>>

Copied ==
    /\ OwnerStep("copied", "pointer")
    /\ Text(data, inits[Len(inits)])
    /\ UNCHANGED <<inits, data, gLogFilenamePtr, installed>>

SetPointer ==
    /\ OwnerStep("pointer", "install")
    /\ gLogFilenamePtr' = data
    /\ UNCHANGED <<inits, buffers, data, installed>>

Install ==
    /\ IF installed <= Handlers
       THEN installed' = installed + 1 /\ OwnerStep("install", "install")
       ELSE UNCHANGED installed /\ OwnerStep("install", "idle")
    /\ UNCHANGED <<inits, buffers, data, gLogFilenamePtr>>

(* The destructor of the string frees a buffer, and clears nothing.        *)
DestroyName ==
    /\ OwnerStep("exiting", "exited")
    /\ IF data = 1 THEN UNCHANGED buffers ELSE Text(data, "freed")
    /\ UNCHANGED <<inits, data, gLogFilenamePtr, installed>>

NameStep ==
    \/ \E n \in Names : Assign(n)
    \/ Dispose \/ Copy \/ Copied \/ SetPointer \/ Install \/ DestroyName
----------------------------------------------------------------------------
(* SetLogCallback: the words of logCallback_ are swapped with those of the *)
(* new callback, in the compiler's order, then the old callable, which the *)
(* new one's object now holds, is destroyed.  A closure is given once.     *)
NewCallable == given[Len(given)]

(* Faulty variant: logCallback_ is emptied before it is assigned.          *)
SwapEmptying(w) ==
    /\ owner = "swap" /\ words[w] # NewCallable
    /\ words' = [words EXCEPT ![w] = IF @ = NoCallable THEN NewCallable ELSE NoCallable]
    /\ logCallback_' = (words'["manager"] # NoCallable)
    /\ UNCHANGED <<owner, given, destroyed>>

SetLogCallbackTo(c) ==
    /\ MayOperate
    /\ c \in Pointers \cup {NoCallable} \/ \A k \in DOMAIN given : given[k] # c
    /\ OwnerStep("idle", "swap")
    /\ given' = Append(given, c)
    /\ UNCHANGED <<words, destroyed, logCallback_>>

Swap(w) ==
    /\ owner = "swap" /\ words[w] # NewCallable
    /\ words' = [words EXCEPT ![w] = NewCallable]
    /\ logCallback_' = (words'["manager"] # NoCallable)
    /\ UNCHANGED <<owner, given, destroyed>>

Destroy(c) ==
    /\ destroyed' = destroyed \cup ({c} \ (Pointers \cup {NoCallable}))
    /\ UNCHANGED <<given, words, logCallback_>>

DestroyOld ==
    /\ \A w \in Words : words[w] = NewCallable
    /\ OwnerStep("swap", "idle")
    /\ Destroy(given[Len(given) - 1])

(* At exit, where it comes before DestroyName.                             *)
DestroyCallback == OwnerStep("idle", "exiting") /\ Destroy(NewCallable)

CallbackStep ==
    \/ \E c \in Callables \cup {NoCallable} : SetLogCallbackTo(c)
    \/ \E w \in Words : Swap(w)
    \/ DestroyOld \/ DestroyCallback
----------------------------------------------------------------------------
(* A thread in LogStacktrace.  GetTimestamp runs in the warning branch,    *)
(* which holds no lock, and under the mutex in BuildLogContent and for     *)
(* what goes to std::cerr behind the check.  localtime fills the struct tm *)
(* field by field, in whatever order.                                      *)
StampDue(t) ==
    \/ At(t, "build")
    \/ At(t, "check") /\ Top(t).level = "WARN"
    \/ At(t, "clear") /\ seen[t].cerr

Localtime(t, f) ==
    /\ StampDue(t) /\ f \in seen[t].unwritten
    /\ tm' = [tm EXCEPT ![f] = CallOf(t)]
    /\ seen' = [seen EXCEPT ![t].unwritten = @ \ {f}]

(* GetTimestamp of main.cpp, behind LOG_INFO and LOG_ERROR, takes no lock  *)
(* either, and any thread outside LogStacktrace may call it: whoever reads *)
(* a field finds what was written last, or a time of main.cpp's.           *)
Found(f) == {tm[f], NoCall}

(* put_time reads the struct tm field by field too.  Only for an entry     *)
(* does it matter what it reads.                                           *)
PutTime(t, f) ==
    /\ At(t, "build") /\ seen[t].unwritten = {} /\ f \in seen[t].unread
    /\ \E c \in Found(f) :
          seen' = [seen EXCEPT ![t].unread = @ \ {f}, ![t].stamp = @ \cup {c}]
    /\ UNCHANGED tm

(* The stream reads the name, and so do the message that it did not open   *)
(* and, on std::cerr, the one that it did.                                 *)
NameDue(t) ==
    \/ At(t, "open")
    \/ At(t, "check") /\ Top(t).level = "ERROR"
    \/ At(t, "clear") /\ seen[t].cerr /\ Top(t).level = "FATAL"

ReadName(t) ==
    /\ NameDue(t) /\ seen[t].name = 0
    /\ seen' = [seen EXCEPT ![t].name = data]
    /\ UNCHANGED tm

(* A call of logCallback_ reads the invoker and the functor.               *)
ReadFunctor(t) ==
    /\ At(t, "callback") /\ Len(seen[t].words) = 1
    /\ seen' = [seen EXCEPT ![t].words = Append(@, words["functor"])]
    /\ UNCHANGED tm

Reads(t) ==
    (\E f \in Fields : Localtime(t, f) \/ PutTime(t, f)) \/ ReadName(t) \/ ReadFunctor(t)

(* The step of LogStacktrace that follows.  An empty name opens nothing.   *)
LogStep(t) ==
    /\ StampDue(t) => seen[t].unwritten = {}
    /\ At(t, "build") => seen[t].unread = {}
    /\ NameDue(t) => seen[t].name # 0
    /\ At(t, "callback") => Len(seen[t].words) = 2
    /\ Call(t) \/ Progress(t) \/ CallbackRelogs(t)
    /\ (At(t, "open") /\ buffers[seen[t].name].text = "") => OpenFails(t)
    /\ UNCHANGED tm
    /\ seen' = [seen EXCEPT ![t] = [NothingSeen EXCEPT
           !.words = IF At(t, "invoke") THEN <<words["invoker"]>> ELSE <<>>,
           !.cerr = ReportToStderr(t) /\ Top(t).level # "WARN"]]

(* A signal without a handler kills the process; the handler reads the     *)
(* pointer and opens the file; the record and _Exit(1) are in CrashPath.   *)
Signal(s) ==
    /\ handler.pc = "none"
    /\ handler' = [handler EXCEPT !.pc = IF s < installed THEN "load" ELSE "killed"]

LoadPointer == handler.pc = "load" /\ handler' = [pc |-> "open", name |-> gLogFilenamePtr]

RecordAndExit == handler.pc = "open" /\ handler' = [handler EXCEPT !.pc = "exited"]

TargetNext ==
    /\ handler.pc \notin {"killed", "exited"}
    /\ \/ NameStep /\ UNCHANGED <<callbackVars, readerVars, threadVars>>
       \/ CallbackStep /\ UNCHANGED <<nameVars, readerVars, threadVars>>
       \/ \E t \in Threads :
             \/ LogStep(t) /\ UNCHANGED <<owner, nameVars, given, words, destroyed, handler>>
             \/ Reads(t) /\ UNCHANGED <<owner, nameVars, callbackVars, threadVars, handler>>
       \/ /\ (\E s \in 1..Handlers : Signal(s)) \/ LoadPointer \/ RecordAndExit
          /\ UNCHANGED <<owner, nameVars, callbackVars, threadVars, tm, seen>>

TargetSpec == TargetInit /\ [][TargetNext]_targetVars
----------------------------------------------------------------------------
TargetTypeOK ==
    /\ buffers \in Seq([size : Nat, text : Names \cup {"", "partial", "freed"}])
    /\ {data, gLogFilenamePtr} \subseteq 0..Len(buffers) /\ data # 0
    /\ installed \in 0..(Handlers + 1)
    /\ words \in [Words -> Callables \cup {NoCallable}]
    /\ logCallback_ <=> words["manager"] # NoCallable

(* The buffers that somebody is about to read a file name from.            *)
NamesRead ==
    {data, gLogFilenamePtr} \cup {seen[t].name : t \in Threads}
    \cup (IF handler.pc = "open" THEN {handler.name} ELSE {})

(* As long as no name is longer than what the first one left room for, no  *)
(* thread and no handler reads a name from memory that is freed, however   *)
(* often Init is called in the meantime; and if the first name is short    *)
(* enough to live inside the object, not even when the destructors of the  *)
(* process have run.                                                       *)
NameOutlivesReaders ==
    LET room == IF inits # <<>> /\ Length[inits[1]] > ShortSize THEN Length[inits[1]] ELSE ShortSize
    IN  (/\ \A k \in DOMAIN inits : Length[inits[k]] <= room
         /\ room = ShortSize \/ owner # "exited") =>
            \A b \in NamesRead \ {0} : buffers[b].text # "freed"

(* Outside Init both log paths use the same file, the one that was named   *)
(* last; and no handler is there to be run, or to be entered, before the   *)
(* crash path has a name to use.                                           *)
CrashFileIsLogFile ==
    /\ (inits # <<>> /\ owner \in {"idle", "swap", "exiting"}) =>
            /\ gLogFilenamePtr = data /\ installed = Handlers + 1
            /\ buffers[data].text = inits[Len(inits)]
    /\ installed > 0 => gLogFilenamePtr # 0
    /\ handler.pc = "open" => handler.name # 0

(* A call of logCallback_ runs one callable, and one that is alive.        *)
RunsWhole(t) ==
    LET invoker == seen[t].words[1]
        functor == seen[t].words[2]
    IN  /\ NoCallable \notin {invoker, functor}
        /\ invoker = functor \/ {invoker, functor} \subseteq Pointers
        /\ functor \notin destroyed

(* A plain function can be replaced by another at any moment, under        *)
(* running calls, and any callable can stay while it is not replaced: each *)
(* call then finds a callback that is not empty, and runs the old one or   *)
(* the new one, never a mixture and nothing that is destroyed, also while  *)
(* the process exits if it is a plain function.                            *)
CallbackRunsWhole ==
    (\/ \A k \in DOMAIN given : given[k] \in Pointers
     \/ Len(given) = 1 /\ given[1] # NoCallable /\ owner \notin {"exiting", "exited"}) =>
        \A t \in Threads :
            /\ At(t, "invoke") => logCallback_
            /\ Len(seen[t].words) = 2 => RunsWhole(t)

(* No lock protects the shared struct tm, so that the timestamp in an      *)
(* entry of the log can be a mixture; but what is not the call's own in it *)
(* was written in the meantime by a call that was turned away, or by the   *)
(* program itself.  No field is the time of another entry, written or yet  *)
(* to be written, though all take theirs in the same object.               *)
NoTimeOfAnotherEntry ==
    \A t \in Threads : At(t, "build") =>
        \A c \in seen[t].stamp \ {CallOf(t), NoCall} :
            /\ ~InLog(c)
            /\ ~\E d \in 1..MaxDepth : Inside(c[1], d) /\ frame[c[1]][d].call = c[2]
============================================================================
