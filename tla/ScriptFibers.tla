----------------------------- MODULE ScriptFibers -----------------------------
(***************************************************************************)
(* Scripts and fibers: big::script (script.cpp), big::script_mgr           *)
(* (script_mgr.cpp), big::fiber_pool (fiber_pool.cpp), execute_as_script   *)
(* (gta_util.hpp) and the hook that ticks them (hooks::run_script_threads).*)
(*                                                                         *)
(* Everything cooperative happens on one thread, the game's script thread. *)
(* Its hook borrows the identity of the game script main_persistent, takes *)
(* the manager's mutex and resumes the scripts in turn; control is then in *)
(* that script's fiber until it yields.  The fibers of the pool take jobs  *)
(* from a stack that the render thread pushes into; a job may yield in the *)
(* middle and goes on, on the same fiber, when it is resumed.  The main    *)
(* thread disables the hook and removes all scripts while the game thread  *)
(* may be anywhere in a tick.                                              *)
(***************************************************************************)
EXTENDS FiniteSets, Naturals, Sequences

CONSTANTS
    Services,   \* the scripts that are not the pool's: backend::loop, the gui's
    Fibers,     \* the scripts of the pool, fiber_pool(10) in main.cpp
    Order,      \* m_scripts, in the order of registration
    Jobs,       \* the jobs queued, each of them once
    Endless,    \* the jobs that yield for ever (a model that never loads)
    Yields,     \* bound: how often another job yields
    MaxSleep,   \* bound: the longest yield(time), in clock ticks
    GameThread, MainThread, None

Scripts == Services \cup Fibers

ASSUME ScriptsAssumption ==
    /\ Order \in Seq(Scripts)
    /\ {Order[i] : i \in DOMAIN Order} = Scripts
    /\ Services \cap Fibers = {}
    /\ Endless \subseteq Jobs
    /\ Yields \in Nat
    /\ MaxSleep \in Nat
    /\ Fibers # {}
    /\ None \notin Jobs \cup Scripts \cup {GameThread, MainThread}
    /\ GameThread \notin Scripts

VARIABLES
    m_scripts,
    m_mutex,        \* the script manager's: the thread that holds it, or None
    control,        \* the fiber the game's script thread executes
    gamePc,         \* where the game thread is in the hook
    next,           \* tick_internal's position in m_scripts
    m_script_thread,            \* in the thread's TLS: the game script that runs,
    m_is_script_thread_active,  \* and whether one does
    og_thread,      \* execute_as_script's local variable
    gameScript, gameActive,     \* history: what the game itself has put there
    fiberPc,        \* where a fiber of the pool is, while it runs or is suspended
    fiberJob,       \* the job a fiber of the pool is executing
    sleeping,       \* m_wake_time: clock ticks until a script may be resumed
    yieldsLeft,     \* of each job
    m_jobs,         \* the stack of queued jobs
    finished,       \* history: the jobs that ran to their end
    g_running,
    hooked,         \* run_script_threads is enabled
    mainPc          \* where the main thread is

jobVars == <<fiberJob, yieldsLeft, m_jobs, finished>>
tlsVars == <<m_script_thread, m_is_script_thread_active>>
gameVars == <<gameScript, gameActive>>
hookVars == <<gamePc, next, tlsVars, og_thread, gameVars>>
vars == <<m_scripts, m_mutex, control, hookVars, fiberPc, sleeping, jobVars,
          g_running, hooked, mainPc>>

GameScripts == {"main_persistent", "other"}

Elements(s) == {s[i] : i \in DOMAIN s}

TypeOK ==
    /\ m_scripts \in {Order, <<>>}
    /\ m_mutex \in {GameThread, MainThread, None}
    /\ control \in Scripts \cup {GameThread}
    /\ gamePc \in {"game", "lock", "iterate", "restore"}
    /\ next \in 1..(Len(Order) + 1)
    /\ m_script_thread \in GameScripts \cup {None}
    /\ og_thread \in GameScripts \cup {None}
    /\ gameScript \in GameScripts \cup {None}
    /\ m_is_script_thread_active \in BOOLEAN
    /\ gameActive \in BOOLEAN
    /\ fiberPc \in [Fibers -> {"tick", "job", "yield"}]
    /\ fiberJob \in [Fibers -> Jobs \cup {None}]
    /\ sleeping \in [Scripts -> 0..MaxSleep]
    /\ yieldsLeft \in [Jobs -> 0..Yields]
    /\ m_jobs \in Seq(Jobs)
    /\ finished \in SUBSET Jobs
    /\ g_running \in BOOLEAN
    /\ hooked \in BOOLEAN
    /\ mainPc \in {"running", "remove", "removed"}

\* The scripts are registered, the hook has just been enabled.
Init ==
    /\ m_scripts = Order
    /\ m_mutex = None
    /\ control = GameThread
    /\ gamePc = "game"
    /\ next = 1
    /\ m_script_thread = None
    /\ og_thread = None
    /\ gameScript = None
    /\ m_is_script_thread_active = FALSE
    /\ gameActive = FALSE
    /\ fiberPc = [f \in Fibers |-> "tick"]
    /\ fiberJob = [f \in Fibers |-> None]
    /\ sleeping = [s \in Scripts |-> 0]
    /\ yieldsLeft = [j \in Jobs |-> Yields]
    /\ m_jobs = <<>>
    /\ finished = {}
    /\ g_running = TRUE
    /\ hooked = TRUE
    /\ mainPc = "running"

------------------------------------------------------------------------------
(* The game's script thread: hooks::run_script_threads *)

\* Between two calls the game has made any script, or none, the current one; it
\* need not say the same in both fields.
GameRunsScripts(t, active) ==
    /\ gamePc = "game"
    /\ gameVars # <<t, active>>
    /\ m_script_thread' = t /\ m_is_script_thread_active' = active
    /\ gameScript' = t /\ gameActive' = active
    /\ UNCHANGED <<m_scripts, m_mutex, control, gamePc, next, og_thread, fiberPc,
                   sleeping, jobVars, g_running, hooked, mainPc>>

\* When no main_persistent thread lives, execute_as_script does nothing.
BorrowMainPersistent ==
    /\ gamePc = "game"
    /\ hooked
    /\ g_running
    /\ og_thread' = m_script_thread
    /\ m_script_thread' = "main_persistent"
    /\ m_is_script_thread_active' = TRUE
    /\ gamePc' = "lock"
    /\ UNCHANGED <<m_scripts, m_mutex, control, next, gameVars, fiberPc,
                   sleeping, jobVars, g_running, hooked, mainPc>>

LockScripts ==
    /\ gamePc = "lock"
    /\ m_mutex = None
    /\ m_mutex' = GameThread
    /\ next' = 1
    /\ gamePc' = "iterate"
    /\ UNCHANGED <<m_scripts, control, tlsVars, og_thread, gameVars,
                   fiberPc, sleeping, jobVars, g_running, hooked, mainPc>>

\* script::tick: resume the fiber unless it sleeps.  Every script is enabled:
\* none is toggleable.
TickScript ==
    /\ gamePc = "iterate"
    /\ control = GameThread
    /\ next <= Len(m_scripts)
    /\ next' = next + 1
    /\ control' = IF sleeping[m_scripts[next]] = 0
                  THEN m_scripts[next] ELSE GameThread
    /\ UNCHANGED <<m_scripts, m_mutex, gamePc, tlsVars, og_thread, gameVars,
                   fiberPc, sleeping, jobVars, g_running, hooked, mainPc>>

\* Mutation: the mutex is not released.
KeepScriptsLocked ==
    /\ gamePc = "iterate"
    /\ control = GameThread
    /\ next > Len(m_scripts)
    /\ gamePc' = "restore"
    /\ UNCHANGED <<m_scripts, m_mutex, control, next, tlsVars, og_thread,
                   gameVars, fiberPc, sleeping, jobVars, g_running, hooked, mainPc>>

UnlockScripts ==
    /\ gamePc = "iterate"
    /\ control = GameThread
    /\ next > Len(m_scripts)
    /\ m_mutex' = None
    /\ gamePc' = "restore"
    /\ UNCHANGED <<m_scripts, control, next, tlsVars, og_thread,
                   gameVars, fiberPc, sleeping, jobVars, g_running, hooked, mainPc>>

\* Mutation: no script is active after the callback.
DeactivateScriptThread ==
    /\ gamePc = "restore"
    /\ m_script_thread' = og_thread
    /\ m_is_script_thread_active' = FALSE
    /\ gamePc' = "game"
    /\ UNCHANGED <<m_scripts, m_mutex, control, next, og_thread, gameVars, fiberPc,
                   sleeping, jobVars, g_running, hooked, mainPc>>

\* Only the thread was remembered; whether it was active is concluded from it.
RestoreScriptThread ==
    /\ gamePc = "restore"
    /\ m_script_thread' = og_thread
    /\ m_is_script_thread_active' = (og_thread # None)
    /\ gamePc' = "game"
    /\ UNCHANGED <<m_scripts, m_mutex, control, next, og_thread, gameVars, fiberPc,
                   sleeping, jobVars, g_running, hooked, mainPc>>

Tick ==
    \/ LockScripts \/ TickScript \/ UnlockScripts \/ RestoreScriptThread

------------------------------------------------------------------------------
(* The fibers *)

\* script::yield: set or clear the wake time, go back to the thread's fiber.
YieldFor(s, time) ==
    /\ sleeping' = [sleeping EXCEPT ![s] = time]
    /\ control' = GameThread

ServiceTicks(s) ==
    /\ s \in Services
    /\ control = s
    /\ YieldFor(s, 0)
    /\ UNCHANGED <<m_scripts, m_mutex, hookVars, fiberPc, jobVars, g_running,
                   hooked, mainPc>>

\* Mutation: the whole stack is emptied.
TakeJobAndReset(f) ==
    /\ control = f
    /\ fiberPc[f] = "tick"
    /\ m_jobs # <<>>
    /\ fiberJob' = [fiberJob EXCEPT ![f] = m_jobs[Len(m_jobs)]]
    /\ m_jobs' = <<>>
    /\ fiberPc' = [fiberPc EXCEPT ![f] = "job"]
    /\ UNCHANGED <<m_scripts, m_mutex, control, hookVars, sleeping, yieldsLeft,
                   finished, g_running, hooked, mainPc>>

\* fiber_tick with a job on the stack: pop it under the pool's mutex, invoke it.
TakeJob(f) ==
    /\ control = f
    /\ fiberPc[f] = "tick"
    /\ m_jobs # <<>>
    /\ fiberJob' = [fiberJob EXCEPT ![f] = m_jobs[Len(m_jobs)]]
    /\ m_jobs' = SubSeq(m_jobs, 1, Len(m_jobs) - 1)
    /\ fiberPc' = [fiberPc EXCEPT ![f] = "job"]
    /\ UNCHANGED <<m_scripts, m_mutex, control, hookVars, sleeping, yieldsLeft,
                   finished, g_running, hooked, mainPc>>

NoJob(f) ==
    /\ control = f
    /\ fiberPc[f] = "tick"
    /\ m_jobs = <<>>
    /\ fiberPc' = [fiberPc EXCEPT ![f] = "yield"]
    /\ UNCHANGED <<m_scripts, m_mutex, control, hookVars, sleeping, jobVars,
                   g_running, hooked, mainPc>>

\* Mutation: the bound on the yields of a job is not looked at.
JobYieldsTooOften(f, time) ==
    /\ control = f
    /\ fiberPc[f] = "job"
    /\ \/ /\ fiberJob[f] \in Endless
          /\ UNCHANGED yieldsLeft
       \/ /\ fiberJob[f] \notin Endless
          /\ yieldsLeft' = [yieldsLeft EXCEPT ![fiberJob[f]] = @ - 1]
    /\ YieldFor(f, time)
    /\ UNCHANGED <<m_scripts, m_mutex, hookVars, fiberPc, fiberJob, m_jobs,
                   finished, g_running, hooked, mainPc>>

JobYields(f, time) ==
    /\ control = f
    /\ fiberPc[f] = "job"
    /\ \/ /\ fiberJob[f] \in Endless
          /\ UNCHANGED yieldsLeft
       \/ /\ fiberJob[f] \notin Endless
          /\ yieldsLeft[fiberJob[f]] > 0
          /\ yieldsLeft' = [yieldsLeft EXCEPT ![fiberJob[f]] = @ - 1]
    /\ YieldFor(f, time)
    /\ UNCHANGED <<m_scripts, m_mutex, hookVars, fiberPc, fiberJob, m_jobs,
                   finished, g_running, hooked, mainPc>>

JobReturns(f) ==
    /\ control = f
    /\ fiberPc[f] = "job"
    /\ fiberJob[f] \notin Endless
    /\ finished' = finished \cup {fiberJob[f]}
    /\ fiberJob' = [fiberJob EXCEPT ![f] = None]
    /\ fiberPc' = [fiberPc EXCEPT ![f] = "yield"]
    /\ UNCHANGED <<m_scripts, m_mutex, control, hookVars, sleeping, yieldsLeft,
                   m_jobs, g_running, hooked, mainPc>>

\* Mutation: the loop does not come back to fiber_tick.
FiberStays(f) ==
    /\ control = f
    /\ fiberPc[f] = "yield"
    /\ YieldFor(f, 0)
    /\ fiberPc' = [fiberPc EXCEPT ![f] = "yield"]
    /\ UNCHANGED <<m_scripts, m_mutex, hookVars, jobVars, g_running, hooked,
                   mainPc>>

\* fiber_func's own yield, between two jobs.
FiberYields(f) ==
    /\ control = f
    /\ fiberPc[f] = "yield"
    /\ YieldFor(f, 0)
    /\ fiberPc' = [fiberPc EXCEPT ![f] = "tick"]
    /\ UNCHANGED <<m_scripts, m_mutex, hookVars, jobVars, g_running, hooked,
                   mainPc>>

Fiber(f) ==
    \/ TakeJob(f) \/ NoJob(f) \/ JobReturns(f) \/ FiberYields(f)
    \/ \E time \in 0..MaxSleep : JobYields(f, time)

TimePasses ==
    /\ \E s \in Scripts : sleeping[s] > 0
    /\ sleeping' = [s \in Scripts |-> IF sleeping[s] = 0 THEN 0 ELSE sleeping[s] - 1]
    /\ UNCHANGED <<m_scripts, m_mutex, control, hookVars, fiberPc, jobVars,
                   g_running, hooked, mainPc>>

------------------------------------------------------------------------------
(* The render thread *)

QueueJob(j) ==
    /\ j \notin Elements(m_jobs) \cup Elements(fiberJob) \cup finished
    /\ m_jobs' = Append(m_jobs, j)
    /\ UNCHANGED <<m_scripts, m_mutex, control, hookVars, fiberPc, fiberJob,
                   sleeping, yieldsLeft, finished, g_running, hooked, mainPc>>

\* "Unload Menu Clean"
AskToUnload ==
    /\ g_running
    /\ g_running' = FALSE
    /\ UNCHANGED <<m_scripts, m_mutex, control, hookVars, fiberPc, sleeping,
                   jobVars, hooked, mainPc>>

------------------------------------------------------------------------------
(* The main thread *)

\* hooking::disable: no further call of the hook; one in flight goes on.
DisableHook ==
    /\ mainPc = "running"
    /\ ~g_running
    /\ hooked' = FALSE
    /\ mainPc' = "remove"
    /\ UNCHANGED <<m_scripts, m_mutex, control, hookVars, fiberPc, sleeping,
                   jobVars, g_running>>

\* Mutation: the scripts are removed without the mutex.
RemoveWithoutLock ==
    /\ mainPc = "remove"
    /\ m_scripts' = <<>>
    /\ mainPc' = "removed"
    /\ UNCHANGED <<m_mutex, control, hookVars, fiberPc, sleeping, jobVars,
                   g_running, hooked>>

\* remove_all_scripts: deletes every fiber under the manager's mutex.
RemoveAllScripts ==
    /\ mainPc = "remove"
    /\ m_mutex = None
    /\ m_scripts' = <<>>
    /\ mainPc' = "removed"
    /\ UNCHANGED <<m_mutex, control, hookVars, fiberPc, sleeping, jobVars,
                   g_running, hooked>>

Next ==
    \/ \E t \in GameScripts \cup {None}, active \in BOOLEAN : GameRunsScripts(t, active)
    \/ BorrowMainPersistent
    \/ Tick
    \/ \E s \in Services : ServiceTicks(s)
    \/ \E f \in Fibers : Fiber(f)
    \/ TimePasses
    \/ \E j \in Jobs : QueueJob(j)
    \/ AskToUnload
    \/ DisableHook
    \/ RemoveAllScripts

Spec == Init /\ [][Next]_vars

\* The game calls the hook again and again, a fiber that has control runs on,
\* a mutex that is free again and again is obtained, and time passes.  Nothing
\* makes the render thread queue a job or the user ask for the unloading.
Fairness ==
    /\ WF_vars(BorrowMainPersistent)
    /\ SF_vars(LockScripts)
    /\ WF_vars(TickScript \/ UnlockScripts \/ RestoreScriptThread)
    /\ \A s \in Services : WF_vars(ServiceTicks(s))
    /\ \A f \in Fibers :
         /\ WF_vars(TakeJob(f) \/ NoJob(f) \/ FiberYields(f))
         /\ WF_vars(JobReturns(f) \/ \E time \in 0..MaxSleep : JobYields(f, time))
    /\ WF_vars(TimePasses)
    /\ WF_vars(DisableHook)
    /\ SF_vars(RemoveAllScripts)

FairSpec == Spec /\ Fairness
------------------------------------------------------------------------------
(* Properties *)

\* A script executes only inside a tick, while the game thread holds the
\* manager's mutex, and exists: remove_all_scripts, on another thread, never
\* deletes the fiber that has control or that the tick will come to.
RunningScriptExists ==
    control # GameThread =>
      /\ m_mutex = GameThread
      /\ gamePc = "iterate"
      /\ control \in Elements(m_scripts)

\* Scripts call natives as main_persistent, and the game gets both fields of its
\* TLS back when its own code runs again, however many fibers were switched to in
\* between: the script always, and that one is active if the game had said so
\* exactly when there was one.
IdentityIsBorrowed ==
    /\ control # GameThread => tlsVars = <<"main_persistent", TRUE>>
    /\ gamePc = "game" =>
        /\ m_script_thread = gameScript
        /\ gameActive = (gameScript # None) => m_is_script_thread_active = gameActive

\* A queued job is executed before the unloading as long as some fiber is left
\* that no endless job occupies; other jobs that yield do not keep it waiting.
QueuedJobTaken ==
    Cardinality(Endless) < Cardinality(Fibers) =>
      \A j \in Jobs :
        (j \in Elements(m_jobs)) ~> (j \in Elements(fiberJob) \cup finished \/ ~g_running)

\* The main thread gets the manager's mutex and removes the scripts, even if
\* it asks for it while a tick is resuming them.
ScriptsRemoved == (~g_running) ~> (mainPc = "removed")

\* The fiber pool keeps the contract of JobPool until the scripts are removed,
\* which closes it; the jobs then suspended are abandoned, so it never stops.
Abstract ==
    INSTANCE JobPool WITH
      Threads <- Fibers,
      pending <- Elements(m_jobs),
      executing <- fiberJob,
      open <- (m_scripts # <<>>),
      stopped <- FALSE

ImplementsJobPool == Abstract!Spec
==============================================================================
