------------------------------- MODULE Settings -------------------------------
(***************************************************************************)
(* big::menu_settings (core/settings.cpp): the options the menu edits in   *)
(* place, the file they are kept in, the loading of that file at start-up, *)
(* and the job that saves it, which runs on the thread pool until the menu *)
(* is unloaded.  The pool is the abstract JobPool that ThreadPool          *)
(* implements.                                                             *)
(*                                                                         *)
(* Three threads meet: the main thread (init, then the unloading at the    *)
(* end of main.cpp), the worker that runs the autosave loop, and the       *)
(* render thread, on which the user changes options.  Nothing is locked:   *)
(* a snapshot of the options reads them one by one while they change.      *)
(* The process may crash at any point and be started again on the file it  *)
(* left.                                                                   *)
(***************************************************************************)
EXTENDS Integers

CONSTANTS
    KeyCount,       \* the options, in the order in which they are serialised
    MaxValue,       \* an option has a value in 0..MaxValue; 0 is its default
    Reuse,          \* may an option get a value it had before?
    InitialFiles,   \* what the file may hold before the first launch
    MaxLaunches,    \* bound: launches of the program
    MaxFailures     \* bound: openings of the file for writing that fail

ASSUME SettingsAssumption ==
    /\ KeyCount \in Nat \ {0}
    /\ MaxValue \in Nat
    /\ Reuse \in BOOLEAN
    /\ MaxLaunches \in Nat \ {0}
    /\ MaxFailures \in Nat

Keys == 1..KeyCount
Values == 0..MaxValue
Absent == -1        \* the key is not in the file
Unreadable == -2    \* the key has a value of the wrong JSON type

Options == [Keys -> Values]
Defaults == [k \in Keys |-> 0]

\* A settings file does not exist, does not parse (an empty or truncated file
\* among others), holds a JSON value that is no object, or an object.
Object(data) == [kind |-> "object", data |-> data]
NoObject(kind) == [kind |-> kind, data |-> Defaults]
Missing == NoObject("missing")
Garbage == NoObject("garbage")
Scalar == NoObject("scalar")

Files == {Missing, Garbage, Scalar}
           \cup {Object(data) : data \in [Keys -> Values \cup {Absent, Unreadable}]}

ASSUME FilesAssumption == InitialFiles \subseteq Files

Worker == "worker"
Autosave == "autosave"
NoJob == "none"

VARIABLES
    options,        \* the options themselves, members of g
    m_options,      \* the JSON last read or last compared with
    m_running,
    file,           \* what is on the disk
    should_save,    \* load()'s local variable
    mainPc,         \* where the main thread is
    saverPc,        \* where the autosave job is
    snapshot,       \* the JSON the job builds from the options
    position,       \* the next key of the snapshot
    fileOpen,       \* did the job's last save() get the file open?
    launches, failures,
    pending, executing, finished, open, stopped     \* the thread pool

poolVars == <<pending, executing, finished, open, stopped>>
saverVars == <<saverPc, snapshot, position, fileOpen>>
bounds == <<launches, failures>>
vars == <<options, m_options, m_running, file, should_save, mainPc, saverVars,
          bounds, poolVars>>

Pool ==
    INSTANCE JobPool WITH
      Jobs <- {Autosave}, Threads <- {Worker}, None <- NoJob

LoadPcs == {"load", "truncate_default", "write_default", "parse", "compare",
            "apply", "truncate", "save", "push"}
UnloadPcs == {"unhooked", "close", "join"}

TypeOK ==
    /\ options \in Options
    /\ m_options \in [Keys -> Values \cup {Absent, Unreadable}]
    /\ m_running \in BOOLEAN
    /\ file \in Files
    /\ should_save \in BOOLEAN
    /\ mainPc \in LoadPcs \cup UnloadPcs \cup
                  {"running", "unloaded", "aborted", "off"}
    /\ saverPc \in {"none", "test", "sleep", "snapshot", "compare", "truncate",
                    "resnapshot", "write"}
    /\ snapshot \in Options
    /\ position \in 1..(KeyCount + 1)
    /\ fileOpen \in BOOLEAN
    /\ launches \in 0..MaxLaunches
    /\ failures \in 0..MaxFailures
    /\ Pool!TypeOK

\* A fresh process, which has just called init().
Fresh ==
    /\ options = Defaults
    /\ m_options = Defaults
    /\ m_running = TRUE
    /\ should_save = FALSE
    /\ mainPc = "load"
    /\ saverPc = "none"
    /\ snapshot = Defaults
    /\ position = 1
    /\ fileOpen = FALSE
    /\ Pool!Init

Init ==
    /\ file \in InitialFiles
    /\ launches = 1
    /\ failures = 0
    /\ Fresh

Alive == mainPc \notin {"off", "aborted", "unloaded"}

\* Opening the file for writing truncates it, or fails and leaves it alone;
\* neither is reported to the caller.
OpenForWriting(opened) ==
    \/ /\ opened
       /\ file' = Garbage
       /\ UNCHANGED failures
    \/ /\ ~opened
       /\ failures < MaxFailures
       /\ failures' = failures + 1
       /\ UNCHANGED file

------------------------------------------------------------------------------
(* load(), on the main thread: nobody else uses the options yet *)

LoadStart ==
    /\ mainPc = "load"
    /\ mainPc' = IF file.kind = "missing" THEN "truncate_default" ELSE "parse"
    /\ UNCHANGED <<options, m_options, m_running, file, should_save, saverVars,
                   bounds, poolVars>>

\* write_default_config(): m_default_options is what *this was when load()
\* began, the defaults.  When the file does not open nothing is written.
TruncateDefault ==
    /\ mainPc = "truncate_default"
    /\ \E opened \in BOOLEAN :
         /\ OpenForWriting(opened)
         /\ mainPc' = IF opened THEN "write_default" ELSE "parse"
    /\ UNCHANGED <<options, m_options, m_running, should_save, saverVars,
                   launches, poolVars>>

\* Mutation: the default config is not written.
WriteDefaultEmpty ==
    /\ mainPc = "write_default"
    /\ file' = Garbage
    /\ mainPc' = "parse"
    /\ UNCHANGED <<options, m_options, m_running, should_save, saverVars,
                   bounds, poolVars>>

WriteDefault ==
    /\ mainPc = "write_default"
    /\ file' = Object(Defaults)
    /\ mainPc' = "parse"
    /\ UNCHANGED <<options, m_options, m_running, should_save, saverVars,
                   bounds, poolVars>>

\* file >> m_options: a file that is missing or does not parse throws, and the
\* handler writes the default config and loads again.
Parse ==
    /\ mainPc = "parse"
    /\ IF file.kind \in {"missing", "garbage"}
       THEN /\ mainPc' = "truncate_default"
            /\ UNCHANGED m_options
       ELSE /\ mainPc' = "compare"
            /\ m_options' = file.data
    /\ UNCHANGED <<options, m_running, file, should_save, saverVars, bounds,
                   poolVars>>

\* Mutation: what the file lacks is not reported.
CompareDefaultsSilently ==
    /\ mainPc = "compare"
    /\ IF file.kind = "scalar"
       THEN /\ mainPc' = "aborted"
            /\ UNCHANGED <<m_options, should_save>>
       ELSE /\ mainPc' = "apply"
            /\ m_options' = [k \in Keys |-> IF m_options[k] = Absent
                                            THEN Defaults[k] ELSE m_options[k]]
            /\ should_save' = FALSE
    /\ UNCHANGED <<options, m_running, file, saverVars, bounds, poolVars>>

\* deep_compare(m_options, m_default_options): keys the file lacks get their
\* default.  On a value that is no object the first m_options[key] throws a
\* type_error that load() does not catch: main's handler then destroys the
\* thread pool, whose managing thread nobody joined, and the process aborts.
CompareDefaults ==
    /\ mainPc = "compare"
    /\ IF file.kind = "scalar"
       THEN /\ mainPc' = "aborted"
            /\ UNCHANGED <<m_options, should_save>>
       ELSE /\ mainPc' = "apply"
            /\ m_options' = [k \in Keys |-> IF m_options[k] = Absent
                                            THEN Defaults[k] ELSE m_options[k]]
            /\ should_save' = \E k \in Keys : m_options[k] = Absent
    /\ UNCHANGED <<options, m_running, file, saverVars, bounds, poolVars>>

\* Mutation: the type of a value is not looked at.
AnyKey == Keys

\* from_json(m_options, *this) assigns the options in order up to the first
\* value of a wrong type, which ends load() without a save.
BeforeUnreadable == {k \in Keys : \A i \in 1..k : m_options[i] # Unreadable}

Apply ==
    /\ mainPc = "apply"
    /\ options' = [k \in Keys |-> IF k \in BeforeUnreadable
                                  THEN m_options[k] ELSE options[k]]
    /\ mainPc' = IF BeforeUnreadable = Keys /\ should_save
                 THEN "truncate" ELSE "push"
    /\ UNCHANGED <<m_options, m_running, file, should_save, saverVars, bounds,
                   poolVars>>

TruncateUpdated ==
    /\ mainPc = "truncate"
    /\ \E opened \in BOOLEAN :
         /\ OpenForWriting(opened)
         /\ mainPc' = IF opened THEN "save" ELSE "push"
    /\ UNCHANGED <<options, m_options, m_running, should_save, saverVars,
                   launches, poolVars>>

\* Mutation: the defaults are saved, not the options.
SaveDefaults ==
    /\ mainPc = "save"
    /\ file' = Object(Defaults)
    /\ mainPc' = "push"
    /\ UNCHANGED <<options, m_options, m_running, should_save, saverVars,
                   bounds, poolVars>>

SaveUpdated ==
    /\ mainPc = "save"
    /\ file' = Object(options)
    /\ mainPc' = "push"
    /\ UNCHANGED <<options, m_options, m_running, should_save, saverVars,
                   bounds, poolVars>>

PushAutosave ==
    /\ mainPc = "push"
    /\ Pool!Submit(Autosave)
    /\ mainPc' = "running"
    /\ UNCHANGED <<options, m_options, m_running, file, should_save, saverVars,
                   bounds>>

------------------------------------------------------------------------------
(* The user *)

Change(k, v) ==
    /\ mainPc = "running"
    /\ v # options[k]
    /\ Reuse \/ v > options[k]
    /\ options' = [options EXCEPT ![k] = v]
    /\ UNCHANGED <<m_options, m_running, file, should_save, mainPc, saverVars,
                   bounds, poolVars>>

------------------------------------------------------------------------------
(* The autosave job, on a worker of the pool *)

StartAutosave ==
    /\ Alive
    /\ Pool!Start(Worker, Autosave)
    /\ saverPc' = "test"
    /\ UNCHANGED <<options, m_options, m_running, file, should_save, mainPc,
                   snapshot, position, fileOpen, bounds>>

\* while (m_running): the loop goes on, or the job and with it the worker's
\* work on it is over.
TestRunning ==
    /\ Alive
    /\ saverPc = "test"
    /\ \/ /\ m_running
          /\ saverPc' = "sleep"
          /\ UNCHANGED poolVars
       \/ /\ ~m_running
          /\ saverPc' = "none"
          /\ Pool!Finish(Worker)
    /\ UNCHANGED <<options, m_options, m_running, file, should_save, mainPc,
                   snapshot, position, fileOpen, bounds>>

SleepOver ==
    /\ Alive
    /\ saverPc = "sleep"
    /\ saverPc' = "snapshot"
    /\ position' = 1
    /\ UNCHANGED <<options, m_options, m_running, file, should_save, mainPc,
                   snapshot, fileOpen, bounds, poolVars>>

\* to_json reads one option after the other; attempt_save does it once, save a
\* second time.
ReadOption(pc, next) ==
    /\ Alive
    /\ saverPc = pc
    /\ IF position \in Keys
       THEN /\ snapshot' = [snapshot EXCEPT ![position] = options[position]]
            /\ position' = position + 1
            /\ UNCHANGED saverPc
       ELSE /\ saverPc' = next
            /\ UNCHANGED <<snapshot, position>>
    /\ UNCHANGED <<options, m_options, m_running, file, should_save, mainPc,
                   fileOpen, bounds, poolVars>>

\* Mutation: only the first option is compared.
CompareFirstOption ==
    /\ Alive
    /\ saverPc = "compare"
    /\ saverPc' = IF m_options[1] # snapshot[1] THEN "truncate" ELSE "test"
    /\ m_options' = snapshot
    /\ UNCHANGED <<options, m_running, file, should_save, mainPc, snapshot,
                   position, fileOpen, bounds, poolVars>>

\* deep_compare(m_options, j, true) brings m_options up to date as it compares.
CompareSnapshot ==
    /\ Alive
    /\ saverPc = "compare"
    /\ saverPc' = IF m_options # snapshot THEN "truncate" ELSE "test"
    /\ m_options' = snapshot
    /\ UNCHANGED <<options, m_running, file, should_save, mainPc, snapshot,
                   position, fileOpen, bounds, poolVars>>

TruncateFile ==
    /\ Alive
    /\ saverPc = "truncate"
    /\ fileOpen' \in BOOLEAN
    /\ OpenForWriting(fileOpen')
    /\ saverPc' = "resnapshot"
    /\ position' = 1
    /\ UNCHANGED <<options, m_options, m_running, should_save, mainPc, snapshot,
                   launches, poolVars>>

WriteSnapshot ==
    /\ Alive
    /\ saverPc = "write"
    /\ file' = IF fileOpen THEN Object(snapshot) ELSE file
    /\ saverPc' = "test"
    /\ UNCHANGED <<options, m_options, m_running, should_save, mainPc, snapshot,
                   position, fileOpen, bounds, poolVars>>

Saver ==
    \/ StartAutosave
    \/ TestRunning
    \/ SleepOver
    \/ ReadOption("snapshot", "compare")
    \/ CompareSnapshot
    \/ TruncateFile
    \/ ReadOption("resnapshot", "write")
    \/ WriteSnapshot

------------------------------------------------------------------------------
(* Unloading, on the main thread *)

MainGoes(from, to) ==
    /\ mainPc = from
    /\ mainPc' = to
    /\ UNCHANGED <<options, m_options, file, should_save, saverVars, bounds>>

\* g_running is false, the hooks are disabled: the render thread does not call
\* the menu any more.
DisableHooks ==
    /\ MainGoes("running", "unhooked")
    /\ UNCHANGED <<m_running, poolVars>>

\* Mutation: m_running stays set.
DestroySettingsForgotten ==
    /\ MainGoes("unhooked", "close")
    /\ UNCHANGED <<m_running, poolVars>>

\* g.destroy()
DestroySettings ==
    /\ MainGoes("unhooked", "close")
    /\ m_running' = FALSE
    /\ UNCHANGED poolVars

\* thread_pool::destroy()
ClosePool ==
    /\ MainGoes("close", "join")
    /\ Pool!Close
    /\ UNCHANGED m_running

\* Mutation: the main thread goes on without joining the pool.
LeavePool ==
    /\ MainGoes("join", "unloaded")
    /\ UNCHANGED <<m_running, poolVars>>

JoinPool ==
    /\ MainGoes("join", "unloaded")
    /\ Pool!Stop
    /\ UNCHANGED m_running

------------------------------------------------------------------------------
(* The process *)

\* The game ends or crashes: what was in memory is gone.
Crash ==
    /\ Alive
    /\ mainPc' = "off"
    /\ UNCHANGED <<options, m_options, m_running, file, should_save, saverVars,
                   bounds, poolVars>>

Launch ==
    /\ ~Alive
    /\ launches < MaxLaunches
    /\ launches' = launches + 1
    /\ options' = Defaults
    /\ m_options' = Defaults
    /\ m_running' = TRUE
    /\ should_save' = FALSE
    /\ mainPc' = "load"
    /\ saverPc' = "none"
    /\ snapshot' = Defaults
    /\ position' = 1
    /\ fileOpen' = FALSE
    /\ pending' = {}
    /\ executing' = [t \in {Worker} |-> NoJob]
    /\ finished' = {}
    /\ open' = TRUE
    /\ stopped' = FALSE
    /\ UNCHANGED <<file, failures>>

Load ==
    \/ LoadStart \/ TruncateDefault \/ WriteDefault \/ Parse \/ CompareDefaults
    \/ Apply \/ TruncateUpdated \/ SaveUpdated \/ PushAutosave

Unload == DestroySettings \/ ClosePool \/ JoinPool

Next ==
    \/ Load
    \/ \E k \in Keys, v \in Values : Change(k, v)
    \/ Saver
    \/ DisableHooks
    \/ Unload
    \/ Crash
    \/ Launch

Spec == Init /\ [][Next]_vars

\* The main thread and the job run when they can: the pool starts a pushed job
\* and destroy() returns once the job has ended (PushedJobServed and
\* DestroyReturns of ThreadPool).  Nothing makes the user change an option or
\* unload the menu, or the process crash or start.
Fairness == WF_vars(Load) /\ WF_vars(Saver) /\ WF_vars(Unload)

FairSpec == Spec /\ Fairness
------------------------------------------------------------------------------
(* Properties *)

Saving == saverPc \in {"truncate", "resnapshot", "write"}

\* Unloading never cuts a save short: when the pool has been destroyed the
\* file is whole, however the last save and the unloading interleave.
UnloadLeavesFileWhole == mainPc = "unloaded" => file.kind = "object"

\* After a load that found every option readable (and could write) the file,
\* m_options and the options agree: what the file lacked has been added to it,
\* what it held is what the menu starts with.
LoadAgreesWithFile ==
    mainPc = "push" /\ failures = 0 /\ BeforeUnreadable = Keys
      => m_options = options /\ file = Object(options)

\* When options never get an old value back, and once no option is unreadable,
\* the file is at least as new as m_options, which decides whether to save, and
\* no newer than the options, in spite of save()'s second snapshot and of
\* options that change while it is taken.
FileBetweenComparedAndCurrent ==
    mainPc = "running" /\ ~Saving /\ BeforeUnreadable = Keys /\ ~Reuse /\ failures = 0 =>
      /\ file.kind = "object"
      /\ \A k \in Keys : m_options[k] <= file.data[k] /\ file.data[k] <= options[k]

\* A launch ends up running, whatever a user or a crash made of the file, if it can
\* be opened in the end: load() calls itself again after each failure, so that a
\* file that can never be opened makes it recur for ever (MaxFailures excludes it).
LaunchCompletes == (mainPc = "load") ~> (mainPc \in {"running", "off"})

\* Unloading ends although the autosave job occupies a thread of the pool.
UnloadCompletes == (mainPc = "close") ~> (mainPc \in {"unloaded", "off"})

\* Options that no longer change while the menu runs are saved, if the file opens
\* whenever it is written: an opening that fails is not repeated.
SavedEventually ==
    <>[](mainPc = "running") /\ <>[][FALSE]_options /\ [](failures = 0)
      => <>[](file = Object(options))
==============================================================================
