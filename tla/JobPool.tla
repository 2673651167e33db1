------------------------------- MODULE JobPool -------------------------------
(***************************************************************************)
(* What big::thread_pool promises to the code that pushes jobs into it,    *)
(* whatever its mutex, its condition variable and its threads do: a job    *)
(* is executed at most once, by a thread of the pool that executes no      *)
(* other; once the pool is closed no job is started; and the pool reports  *)
(* that it stopped only when no job executes any more.  Jobs still pending *)
(* when the pool closed are abandoned: that, too, is the contract.         *)
(***************************************************************************)
CONSTANTS
    Jobs,       \* the jobs the program ever pushes
    Threads,    \* the threads of the pool
    None        \* no job

VARIABLES
    pending,    \* pushed, not yet started
    executing,  \* what each thread executes, a job or None
    finished,   \* executed to the end, or to the exception that ended them
    open,       \* the pool still starts jobs
    stopped     \* destroy() has returned

jobVars == <<pending, executing, finished, open, stopped>>

TypeOK ==
    /\ pending \in SUBSET Jobs
    /\ executing \in [Threads -> Jobs \cup {None}]
    /\ finished \in SUBSET Jobs
    /\ open \in BOOLEAN
    /\ stopped \in BOOLEAN

Init ==
    /\ pending = {}
    /\ executing = [t \in Threads |-> None]
    /\ finished = {}
    /\ open = TRUE
    /\ stopped = FALSE

Executing == {executing[t] : t \in Threads} \ {None}

\* A job is accepted at any time, even by a pool that will never start it.
Submit(j) ==
    /\ j \notin pending \cup Executing \cup finished
    /\ pending' = pending \cup {j}
    /\ UNCHANGED <<executing, finished, open, stopped>>

Start(t, j) ==
    /\ open
    /\ j \in pending
    /\ executing[t] = None
    /\ pending' = pending \ {j}
    /\ executing' = [executing EXCEPT ![t] = j]
    /\ UNCHANGED <<finished, open, stopped>>

Finish(t) ==
    /\ executing[t] # None
    /\ finished' = finished \cup {executing[t]}
    /\ executing' = [executing EXCEPT ![t] = None]
    /\ UNCHANGED <<pending, open, stopped>>

Close ==
    /\ open
    /\ open' = FALSE
    /\ UNCHANGED <<pending, executing, finished, stopped>>

Stop ==
    /\ ~open
    /\ ~stopped
    /\ Executing = {}
    /\ stopped' = TRUE
    /\ UNCHANGED <<pending, executing, finished, open>>

Next ==
    \/ \E j \in Jobs : Submit(j)
    \/ \E t \in Threads, j \in Jobs : Start(t, j)
    \/ \E t \in Threads : Finish(t)
    \/ Close
    \/ Stop

Spec == Init /\ [][Next]_jobVars
==============================================================================
