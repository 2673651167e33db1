--------------------------- MODULE ExceptionHandler ---------------------------
(***************************************************************************)
(* What happens when a thread faults: the unhandled exception filter       *)
(* (exception_handler.cpp), the one stack trace all threads share          *)
(* (stack_trace.cpp), and the set of the traces that are in the log.       *)
(*                                                                         *)
(* The trace is filled under a mutex and read without it.  A step is what  *)
(* a thread does between two points where another thread's fault can       *)
(* matter.  The hash of a trace stands for the frames it is computed of.   *)
(***************************************************************************)
EXTENDS Integers, Sequences, FiniteSets

CONSTANTS
    Threads,
    ScriptThread,   \* the thread of the game that runs its scripts
    Faults,         \* the exceptions there may be, with
    Stack,          \* the frames StackWalk64 finds,
    Instruction,    \* the instruction execution would be resumed behind, and
    StackReadable,  \* those in which Rsp can be read,
    PassedOn,       \* those that are breakpoints or debug output, and
    NoStdException, \* those that are C++ exceptions of another type
    Frames,         \* return addresses; none is 0
    FrameLimit,     \* how many m_frame_pointers has room for
    None

ASSUME HandlerAssumption ==
    /\ ScriptThread \in Threads
    /\ Stack \in [Faults -> Seq(Frames)]
    /\ Instruction \in [Faults -> {"unreadable", "undecodable", "jump", "other"}]
    /\ StackReadable \subseteq Faults
    /\ PassedOn \subseteq Faults
    /\ NoStdException \subseteq Faults
    /\ 0 \notin Frames
    /\ FrameLimit \in Nat \ {0}
    /\ None \notin Threads \cup Faults

VARIABLES
    pc,                 \* where each thread is: in the "game", or in the filter
    fault,              \* what the filter was called with
    trace_hash,         \* a local variable of the filter
    m,                  \* new_stack_trace's mutex: the thread that holds it, or None
    m_dump,             \* the frames in the text
    m_frame_pointers,
    logged_exceptions,
    log,                \* history: the texts that were logged
    in_script_vm,       \* g.in_script_vm
    filter,             \* the process's filter: the game's, ours, or ours "freed"
    ended,              \* has the process ended?
    quiet               \* history: nobody filled the trace while another read it

traceVars == <<m, m_dump, m_frame_pointers>>
loggedVars == <<logged_exceptions, log>>
vars == <<pc, fault, trace_hash, traceVars, loggedVars, in_script_vm, filter,
          ended, quiet>>

Positions == 1 .. FrameLimit
FramePointers == [Positions -> Frames \cup {0}]

Filling == {"script", "grab", "dump"}   \* in new_stack_trace, with the mutex
Reading == {"hash", "find", "log"}      \* behind it

TypeOK ==
    /\ pc \in [Threads -> {"game", "lock", "insert", "resume"} \cup Filling \cup Reading]
    /\ fault \in [Threads -> Faults \cup {None}]
    /\ \A t \in Threads : pc[t] # "game" => fault[t] \in Faults
    /\ trace_hash \in [Threads -> FramePointers]
    /\ m \in Threads \cup {None}
    /\ m_dump \in Seq(Frames)
    /\ m_frame_pointers \in FramePointers
    /\ logged_exceptions \subseteq FramePointers
    /\ log \subseteq Seq(Frames)
    /\ in_script_vm \in BOOLEAN
    /\ filter \in {"game", "ours", "freed"}
    /\ ended \in BOOLEAN /\ quiet \in BOOLEAN

NoFrames == [i \in Positions |-> 0]

Init ==
    /\ pc = [t \in Threads |-> "game"]
    /\ fault = [t \in Threads |-> None]
    /\ trace_hash = [t \in Threads |-> NoFrames]
    /\ m = None
    /\ m_dump = <<>>
    /\ m_frame_pointers = NoFrames
    /\ logged_exceptions = {}
    /\ log = {}
    /\ in_script_vm = FALSE
    /\ filter = "game"
    /\ ended = FALSE
    /\ quiet = TRUE

\* A thread is in the filter, whose code is gone.
Dangling == filter = "freed" /\ \E t \in Threads : pc[t] # "game"

Alive == ~ended /\ ~Dangling

\* Thread t goes on in the filter.
Goes(t, from, to) ==
    /\ Alive
    /\ pc[t] = from
    /\ pc' = [pc EXCEPT ![t] = to]
    /\ UNCHANGED <<fault, in_script_vm, filter>>

Ends ==
    /\ ended' = TRUE
    /\ UNCHANGED <<pc, fault, trace_hash, traceVars, loggedVars, in_script_vm, filter, quiet>>

------------------------------------------------------------------------------
(* The process around the filter *)

\* The constructor, first thing on the main thread.
Install ==
    /\ Alive
    /\ filter = "game"
    /\ filter' = "ours"
    /\ UNCHANGED <<pc, fault, trace_hash, traceVars, loggedVars, in_script_vm, ended, quiet>>

\* FreeLibraryAndExitThread does not return: ~exception_handler, which would
\* set the game's filter again, is never executed.
Unload ==
    /\ Alive
    /\ filter = "ours"
    /\ filter' = "freed"
    /\ UNCHANGED <<pc, fault, trace_hash, traceVars, loggedVars, in_script_vm, ended, quiet>>

\* script_vm sets and clears the flag around a call of the game.
EnterVM ==
    /\ Alive
    /\ filter = "ours"
    /\ pc[ScriptThread] = "game" /\ ~in_script_vm
    /\ in_script_vm' = TRUE
    /\ UNCHANGED <<pc, fault, trace_hash, traceVars, loggedVars, filter, ended, quiet>>

LeaveVM ==
    /\ Alive
    /\ filter = "ours"
    /\ pc[ScriptThread] = "game" /\ in_script_vm
    /\ in_script_vm' = FALSE
    /\ UNCHANGED <<pc, fault, trace_hash, traceVars, loggedVars, filter, ended, quiet>>

\* A thread faults.  What the filter passes on ends the process.
Fault(t, f) ==
    /\ Alive
    /\ pc[t] = "game"
    /\ filter = "ours" /\ f \notin PassedOn
    /\ pc' = [pc EXCEPT ![t] = "lock"]
    /\ fault' = [fault EXCEPT ![t] = f]
    /\ UNCHANGED <<trace_hash, traceVars, loggedVars, in_script_vm, filter, ended, quiet>>

FaultEnds(t, f) ==
    /\ Alive
    /\ pc[t] = "game"
    /\ filter # "ours" \/ f \in PassedOn
    /\ Ends

------------------------------------------------------------------------------
(* new_stack_trace *)

Begins(t) ==
    /\ Goes(t, "lock", "script")
    /\ m_dump' = <<>>
    /\ quiet' = (quiet /\ \A u \in Threads : pc[u] \notin Reading)
    /\ UNCHANGED <<trace_hash, m_frame_pointers, loggedVars, ended>>

\* Mutation: without the mutex.
BeginWithoutLock(t) ==
    /\ Begins(t)
    /\ UNCHANGED m

LockTrace(t) ==
    /\ Begins(t)
    /\ m = None
    /\ m' = t

\* A thread that faults while it holds the mutex waits for itself, or is told
\* so by an exception, which nothing catches.
RelockThrows(t) ==
    /\ Alive
    /\ pc[t] = "lock" /\ m = t
    /\ Ends

\* dump_script_info follows the script thread in the TLS, which is null on the
\* threads that run no scripts: a fault in the filter.
DumpScriptInfo(t) ==
    /\ Goes(t, "script", IF in_script_vm /\ t # ScriptThread THEN "lock" ELSE "grab")
    /\ UNCHANGED <<trace_hash, traceVars, loggedVars, ended, quiet>>

\* grab_stacktrace.  What an earlier, longer walk has left behind stays.
GrabStacktrace(t) ==
    /\ Goes(t, "grab", "dump")
    /\ m_frame_pointers' =
         [i \in Positions |-> IF i <= Len(Stack[fault[t]]) THEN Stack[fault[t]][i]
                              ELSE m_frame_pointers[i]]
    /\ UNCHANGED <<trace_hash, m, m_dump, loggedVars, ended, quiet>>

\* The entries before the first that is 0
Shown(frames) ==
    LET shown == {n \in Positions : \A i \in 1 .. n : frames[i] # 0}
    IN  [i \in 1 .. Cardinality(shown) |-> frames[i]]

\* Mutation: a text that is complete does not give the mutex back.
DumpAndKeep(t) ==
    /\ Goes(t, "dump", IF fault[t] \in NoStdException THEN "lock" ELSE "hash")
    /\ m_dump' = Shown(m_frame_pointers)
    /\ UNCHANGED <<trace_hash, m, m_frame_pointers, loggedVars, ended, quiet>>

\* dump_stacktrace and dump_cpp_exception, which takes any C++ exception for a
\* std::exception: another fault in the filter.  Then the mutex is unlocked.
DumpStacktrace(t) ==
    /\ m_dump' = Shown(m_frame_pointers)
    /\ \/ /\ fault[t] \in NoStdException
          /\ Goes(t, "dump", "lock")
          /\ UNCHANGED m
       \/ /\ fault[t] \notin NoStdException
          /\ Goes(t, "dump", "hash")
          /\ m' = None
    /\ UNCHANGED <<trace_hash, m_frame_pointers, loggedVars, ended, quiet>>

------------------------------------------------------------------------------
(* vectored_exception_handler, behind new_stack_trace *)

HashStackTrace(t) ==
    /\ Goes(t, "hash", "find")
    /\ trace_hash' = [trace_hash EXCEPT ![t] = m_frame_pointers]
    /\ UNCHANGED <<traceVars, loggedVars, ended, quiet>>

FindException(t) ==
    /\ Goes(t, "find", IF trace_hash[t] \in logged_exceptions THEN "resume" ELSE "log")
    /\ UNCHANGED <<trace_hash, traceVars, loggedVars, ended, quiet>>

LogTrace(t) ==
    /\ Goes(t, "log", "insert")
    /\ log' = log \cup {m_dump}
    /\ UNCHANGED <<trace_hash, traceVars, logged_exceptions, ended, quiet>>

InsertException(t) ==
    /\ Goes(t, "insert", "resume")
    /\ logged_exceptions' = logged_exceptions \cup {trace_hash[t]}
    /\ UNCHANGED <<trace_hash, traceVars, log, ended, quiet>>

\* Nothing guards the set: inserting while another thread inserts or searches
\* may lose the hash, or lead astray through a tree that is being changed.
InsertRaces(t) ==
    /\ \E u \in Threads \ {t} : pc[u] \in {"find", "insert"}
    /\ \/ /\ Goes(t, "insert", "resume")
          /\ UNCHANGED <<trace_hash, traceVars, loggedVars, ended, quiet>>
       \/ /\ Alive
          /\ pc[t] = "insert"
          /\ Ends

\* Where execution can be resumed: in the caller, whose address is on the
\* stack, after a jump or at an instruction that cannot be read; else behind
\* the instruction, if its length is known.
CanResume(f) ==
    IF Instruction[f] \in {"unreadable", "jump"} THEN f \in StackReadable
    ELSE Instruction[f] = "other"

Resume(t) ==
    /\ Alive
    /\ pc[t] = "resume"
    /\ CanResume(fault[t])
    /\ pc' = [pc EXCEPT ![t] = "game"]
    /\ fault' = [fault EXCEPT ![t] = None]
    /\ trace_hash' = [trace_hash EXCEPT ![t] = NoFrames]
    /\ UNCHANGED <<traceVars, loggedVars, in_script_vm, filter, ended, quiet>>

GiveUp(t) ==
    /\ Alive
    /\ pc[t] = "resume"
    /\ ~CanResume(fault[t])
    /\ Ends

------------------------------------------------------------------------------
Handler(t) ==
    \/ LockTrace(t) \/ RelockThrows(t)
    \/ DumpScriptInfo(t) \/ GrabStacktrace(t) \/ DumpStacktrace(t)
    \/ HashStackTrace(t) \/ FindException(t) \/ LogTrace(t)
    \/ InsertException(t) \/ InsertRaces(t)
    \/ Resume(t) \/ GiveUp(t)

Next ==
    \/ Install \/ Unload
    \/ EnterVM \/ LeaveVM
    \/ \E t \in Threads :
         \/ \E f \in Faults : Fault(t, f) \/ FaultEnds(t, f)
         \/ Handler(t)

Spec == Init /\ [][Next]_vars

\* A thread in the filter is scheduled, and gets a mutex that is free again and
\* again although others fault, too.  Nothing is assumed of the faults, of the
\* scripts, or of what an exception from the mutex leads to.
Fairness ==
    \A t \in Threads :
        /\ SF_vars(LockTrace(t))
        /\ WF_vars(Handler(t) /\ pc[t] # "lock")

FairSpec == Spec /\ Fairness

------------------------------------------------------------------------------
(* Properties *)

\* Where the frames of a fault are that m_frame_pointers has room for
Walked(f) == {i \in Positions : i <= Len(Stack[f])}

\* The text shows the frames of the fault, whatever else behind them.
Shows(text, f) ==
    \A i \in Walked(f) : i <= Len(text) /\ text[i] = Stack[f][i]

\* Execution is resumed after a fault only when a text with its frames is in
\* the log, although all threads share one trace and one set of the traces that
\* were logged; unless a thread has filled the trace while another was still
\* reading it, which the mutex does not exclude.
HandledIsLogged ==
    quiet => \A t \in Threads :
               pc[t] = "resume" => \E text \in log : Shows(text, fault[t])

\* A thread in the filter waits for the mutex it holds.
SelfDeadlock == \E t \in Threads : pc[t] = "lock" /\ m = t

\* Whoever faults is resumed, or the process ends, unless some thread has
\* faulted again in new_stack_trace: then everyone who faults waits for ever.
HandlerEnds ==
    \A t \in Threads :
        pc[t] = "lock" ~> pc[t] = "game" \/ ended \/ Dangling \/ SelfDeadlock
==============================================================================
