------------------------------ MODULE ThreadPool ------------------------------
(***************************************************************************)
(* big::thread_pool (thread_pool.cpp): worker threads take jobs from a     *)
(* stack guarded by a mutex and sleep on a condition variable while there  *)
(* are none.  Four kinds of threads meet here:                             *)
(*   - the managing thread, started by the constructor, which creates the  *)
(*     workers (create);                                                   *)
(*   - the workers (run);                                                  *)
(*   - the threads that call push;                                         *)
(*   - the main thread, which calls destroy.                               *)
(* The mutex is explicit: every step below is either made while its thread *)
(* holds m_lock or, as in the code, without it.                            *)
(***************************************************************************)
EXTENDS FiniteSets, Naturals, Sequences

CONSTANTS
    Workers,    \* the threads create() starts: hardware_concurrency() of them
    Pushers,    \* the threads that call push()
    Jobs,       \* the jobs pushed, each of them once
    Main,       \* the thread that calls destroy()
    None        \* no thread, no job

ASSUME WorkersAssumption == IsFiniteSet(Workers)
ASSUME ThreadsAssumption ==
    /\ None \notin Workers \cup Pushers \cup Jobs \cup {Main}
    /\ Main \notin Workers \cup Pushers
    /\ Workers \cap Pushers = {}

VARIABLES
    m_accept_jobs,
    m_job_stack,                \* the top is the last element
    m_available_thread_count,
    m_lock,                     \* the thread that holds the mutex, or None
    managerPc,                  \* where create() is
    workerPc,                   \* where run() is, per worker
    job,                        \* run()'s local variable, per worker
    pusherPc,                   \* where push() is, per pusher
    func,                       \* push()'s argument, per pusher
    mainPc,                     \* where destroy() is
    finishedJobs,               \* history: the jobs executed to their end
    pushedJobs                  \* history: the jobs that push() has been given

vars == <<m_accept_jobs, m_job_stack, m_available_thread_count, m_lock,
          managerPc, workerPc, job, pusherPc, func, mainPc, finishedJobs,
          pushedJobs>>

WorkerCount == Cardinality(Workers)

Threads == Workers \cup Pushers \cup {Main}

OnStack == {m_job_stack[i] : i \in DOMAIN m_job_stack}

\* The jobs that a push() or a run() has in a local variable.
InHand == ({func[p] : p \in Pushers} \cup {job[w] : w \in Workers}) \ {None}

TypeOK ==
    /\ m_accept_jobs \in BOOLEAN
    /\ m_job_stack \in Seq(Jobs)
    /\ m_available_thread_count \in 0..WorkerCount
    /\ m_lock \in Threads \cup {None}
    /\ managerPc \in {"start", "spawning", "done"}
    /\ workerPc \in [Workers -> {"unborn", "lock", "test", "sleep", "waiting",
                                 "take", "claimed", "executing", "executed",
                                 "exited"}]
    /\ job \in [Workers -> Jobs \cup {None}]
    /\ pusherPc \in [Pushers -> {"idle", "lock", "push", "notify"}]
    /\ func \in [Pushers -> Jobs \cup {None}]
    /\ mainPc \in {"running", "join_manager", "lock", "close", "notify",
                   "join_workers", "destroyed"}
    /\ finishedJobs \in SUBSET Jobs
    /\ pushedJobs \in SUBSET Jobs

\* The state the constructor leaves: the managing thread exists, no worker.
Init ==
    /\ m_accept_jobs = TRUE
    /\ m_job_stack = <<>>
    /\ m_available_thread_count = 0
    /\ m_lock = None
    /\ managerPc = "start"
    /\ workerPc = [w \in Workers |-> "unborn"]
    /\ job = [w \in Workers |-> None]
    /\ pusherPc = [p \in Pushers |-> "idle"]
    /\ func = [p \in Pushers |-> None]
    /\ mainPc = "running"
    /\ finishedJobs = {}
    /\ pushedJobs = {}

\* notify_all: every thread that waits on the condition variable goes on to
\* take the mutex again.
Awakened ==
    [w \in Workers |-> IF workerPc[w] = "waiting" THEN "lock" ELSE workerPc[w]]

------------------------------------------------------------------------------
(* create(), on the managing thread *)

\* Mutation: one thread too few is counted.
SetAvailableOneShort ==
    /\ managerPc = "start"
    /\ m_available_thread_count' = WorkerCount - 1
    /\ managerPc' = "spawning"
    /\ UNCHANGED <<m_accept_jobs, m_job_stack, m_lock, workerPc, job, pusherPc,
                   func, mainPc, finishedJobs, pushedJobs>>

SetAvailable ==
    /\ managerPc = "start"
    /\ m_available_thread_count' = WorkerCount
    /\ managerPc' = "spawning"
    /\ UNCHANGED <<m_accept_jobs, m_job_stack, m_lock, workerPc, job, pusherPc,
                   func, mainPc, finishedJobs, pushedJobs>>

SpawnWorker(w) ==
    /\ managerPc = "spawning"
    /\ workerPc[w] = "unborn"
    /\ workerPc' = [workerPc EXCEPT ![w] = "lock"]
    /\ UNCHANGED <<m_accept_jobs, m_job_stack, m_available_thread_count, m_lock,
                   managerPc, job, pusherPc, func, mainPc, finishedJobs, pushedJobs>>

ManagerDone ==
    /\ managerPc = "spawning"
    /\ \A w \in Workers : workerPc[w] # "unborn"
    /\ managerPc' = "done"
    /\ UNCHANGED <<m_accept_jobs, m_job_stack, m_available_thread_count, m_lock,
                   workerPc, job, pusherPc, func, mainPc, finishedJobs, pushedJobs>>

Manager == SetAvailable \/ (\E w \in Workers : SpawnWorker(w)) \/ ManagerDone

------------------------------------------------------------------------------
(* push(), on any of the pushers *)

BeginPush(p, j) ==
    /\ pusherPc[p] = "idle"
    /\ j \notin pushedJobs
    /\ pusherPc' = [pusherPc EXCEPT ![p] = "lock"]
    /\ func' = [func EXCEPT ![p] = j]
    /\ pushedJobs' = pushedJobs \cup {j}
    /\ UNCHANGED <<m_accept_jobs, m_job_stack, m_available_thread_count, m_lock,
                   managerPc, workerPc, job, mainPc, finishedJobs>>

LockForPush(p) ==
    /\ pusherPc[p] = "lock"
    /\ m_lock = None
    /\ m_lock' = p
    /\ pusherPc' = [pusherPc EXCEPT ![p] = "push"]
    /\ UNCHANGED <<m_accept_jobs, m_job_stack, m_available_thread_count,
                   managerPc, workerPc, job, func, mainPc, finishedJobs, pushedJobs>>

\* Mutation: a job the pool has no idle worker for is refused.
PushUnlessStarved(p) ==
    /\ pusherPc[p] = "push"
    /\ m_job_stack' = IF m_available_thread_count <= Len(m_job_stack)
                      THEN m_job_stack ELSE Append(m_job_stack, func[p])
    /\ m_lock' = None
    /\ pusherPc' = [pusherPc EXCEPT ![p] = "notify"]
    /\ func' = [func EXCEPT ![p] = None]
    /\ UNCHANGED <<m_accept_jobs, m_available_thread_count, managerPc, workerPc,
                   job, mainPc, finishedJobs, pushedJobs>>

\* A pool with fewer idle workers than jobs only logs a warning.
PushAndUnlock(p) ==
    /\ pusherPc[p] = "push"
    /\ m_job_stack' = Append(m_job_stack, func[p])
    /\ m_lock' = None
    /\ pusherPc' = [pusherPc EXCEPT ![p] = "notify"]
    /\ func' = [func EXCEPT ![p] = None]
    /\ UNCHANGED <<m_accept_jobs, m_available_thread_count, managerPc, workerPc,
                   job, mainPc, finishedJobs, pushedJobs>>

\* Mutation: push() wakes nobody.
NotifyPushedForgotten(p) ==
    /\ pusherPc[p] = "notify"
    /\ pusherPc' = [pusherPc EXCEPT ![p] = "idle"]
    /\ UNCHANGED <<m_accept_jobs, m_job_stack, m_available_thread_count, m_lock,
                   managerPc, workerPc, job, func, mainPc, finishedJobs, pushedJobs>>

NotifyPushed(p) ==
    /\ pusherPc[p] = "notify"
    /\ workerPc' = Awakened
    /\ pusherPc' = [pusherPc EXCEPT ![p] = "idle"]
    /\ UNCHANGED <<m_accept_jobs, m_job_stack, m_available_thread_count, m_lock,
                   managerPc, job, func, mainPc, finishedJobs, pushedJobs>>

------------------------------------------------------------------------------
(* run(), on a worker *)

\* The mutex is taken at the top of the loop and, inside wait(), after every
\* wake-up: either way the predicate is tested next.
LockForWait(w) ==
    /\ workerPc[w] = "lock"
    /\ m_lock = None
    /\ m_lock' = w
    /\ workerPc' = [workerPc EXCEPT ![w] = "test"]
    /\ UNCHANGED <<m_accept_jobs, m_job_stack, m_available_thread_count,
                   managerPc, job, pusherPc, func, mainPc, finishedJobs, pushedJobs>>

TestPredicate(w) ==
    /\ workerPc[w] = "test"
    /\ workerPc' = [workerPc EXCEPT ![w] =
                      IF m_job_stack # <<>> \/ ~m_accept_jobs
                      THEN "take" ELSE "sleep"]
    /\ UNCHANGED <<m_accept_jobs, m_job_stack, m_available_thread_count, m_lock,
                   managerPc, job, pusherPc, func, mainPc, finishedJobs, pushedJobs>>

\* wait() gives the mutex back and starts to wait in one step.
Sleep(w) ==
    /\ workerPc[w] = "sleep"
    /\ m_lock' = None
    /\ workerPc' = [workerPc EXCEPT ![w] = "waiting"]
    /\ UNCHANGED <<m_accept_jobs, m_job_stack, m_available_thread_count,
                   managerPc, job, pusherPc, func, mainPc, finishedJobs, pushedJobs>>

\* A condition variable may also wake a thread nobody notified.
SpuriousWakeup(w) ==
    /\ workerPc[w] = "waiting"
    /\ workerPc' = [workerPc EXCEPT ![w] = "lock"]
    /\ UNCHANGED <<m_accept_jobs, m_job_stack, m_available_thread_count, m_lock,
                   managerPc, job, pusherPc, func, mainPc, finishedJobs, pushedJobs>>

LeaveLoop(w) ==
    /\ workerPc[w] = "take"
    /\ ~m_accept_jobs
    /\ m_lock' = None
    /\ workerPc' = [workerPc EXCEPT ![w] = "exited"]
    /\ UNCHANGED <<m_accept_jobs, m_job_stack, m_available_thread_count,
                   managerPc, job, pusherPc, func, mainPc, finishedJobs, pushedJobs>>

\* The branch that finds the stack empty and goes round the loop again is
\* never taken: the predicate has just excluded it under the same lock.
TakeJob(w) ==
    /\ workerPc[w] = "take"
    /\ m_accept_jobs
    /\ job' = [job EXCEPT ![w] = m_job_stack[Len(m_job_stack)]]
    /\ m_job_stack' = SubSeq(m_job_stack, 1, Len(m_job_stack) - 1)
    /\ m_lock' = None
    /\ workerPc' = [workerPc EXCEPT ![w] = "claimed"]
    /\ UNCHANGED <<m_accept_jobs, m_available_thread_count, managerPc, pusherPc,
                   func, mainPc, finishedJobs, pushedJobs>>

CountBusy(w) ==
    /\ workerPc[w] = "claimed"
    /\ m_available_thread_count' = m_available_thread_count - 1
    /\ workerPc' = [workerPc EXCEPT ![w] = "executing"]
    /\ UNCHANGED <<m_accept_jobs, m_job_stack, m_lock, managerPc, job, pusherPc,
                   func, mainPc, finishedJobs, pushedJobs>>

\* The job returns, or throws a std::exception that run() catches and logs.
FinishJob(w) ==
    /\ workerPc[w] = "executing"
    /\ finishedJobs' = finishedJobs \cup {job[w]}
    /\ job' = [job EXCEPT ![w] = None]
    /\ workerPc' = [workerPc EXCEPT ![w] = "executed"]
    /\ UNCHANGED <<m_accept_jobs, m_job_stack, m_available_thread_count, m_lock,
                   managerPc, pusherPc, func, mainPc, pushedJobs>>

\* Mutation: a worker that is idle again is not counted.
CountIdleForgotten(w) ==
    /\ workerPc[w] = "executed"
    /\ workerPc' = [workerPc EXCEPT ![w] = "lock"]
    /\ UNCHANGED <<m_accept_jobs, m_job_stack, m_available_thread_count, m_lock,
                   managerPc, job, pusherPc, func, mainPc, finishedJobs, pushedJobs>>

CountIdle(w) ==
    /\ workerPc[w] = "executed"
    /\ m_available_thread_count' = m_available_thread_count + 1
    /\ workerPc' = [workerPc EXCEPT ![w] = "lock"]
    /\ UNCHANGED <<m_accept_jobs, m_job_stack, m_lock, managerPc, job, pusherPc,
                   func, mainPc, finishedJobs, pushedJobs>>

------------------------------------------------------------------------------
(* destroy(), on the main thread *)

BeginDestroy ==
    /\ mainPc = "running"
    /\ mainPc' = "join_manager"
    /\ UNCHANGED <<m_accept_jobs, m_job_stack, m_available_thread_count, m_lock,
                   managerPc, workerPc, job, pusherPc, func, finishedJobs, pushedJobs>>

\* Mutation: destroy() does not wait for the managing thread.
JoinManagerEarly ==
    /\ mainPc = "join_manager"
    /\ mainPc' = "lock"
    /\ UNCHANGED <<m_accept_jobs, m_job_stack, m_available_thread_count, m_lock,
                   managerPc, workerPc, job, pusherPc, func, finishedJobs, pushedJobs>>

JoinManager ==
    /\ mainPc = "join_manager"
    /\ managerPc = "done"
    /\ mainPc' = "lock"
    /\ UNCHANGED <<m_accept_jobs, m_job_stack, m_available_thread_count, m_lock,
                   managerPc, workerPc, job, pusherPc, func, finishedJobs, pushedJobs>>

\* Mutation: destroy() clears m_accept_jobs without the mutex.
CloseWithoutLock ==
    /\ mainPc = "lock"
    /\ m_accept_jobs' = FALSE
    /\ mainPc' = "notify"
    /\ UNCHANGED <<m_job_stack, m_available_thread_count, m_lock,
                   managerPc, workerPc, job, pusherPc, func, finishedJobs, pushedJobs>>

LockForClose ==
    /\ mainPc = "lock"
    /\ m_lock = None
    /\ m_lock' = Main
    /\ mainPc' = "close"
    /\ UNCHANGED <<m_accept_jobs, m_job_stack, m_available_thread_count,
                   managerPc, workerPc, job, pusherPc, func, finishedJobs, pushedJobs>>

CloseAndUnlock ==
    /\ mainPc = "close"
    /\ m_accept_jobs' = FALSE
    /\ m_lock' = None
    /\ mainPc' = "notify"
    /\ UNCHANGED <<m_job_stack, m_available_thread_count, managerPc, workerPc,
                   job, pusherPc, func, finishedJobs, pushedJobs>>

\* Mutation: destroy() wakes nobody.
NotifyClosedForgotten ==
    /\ mainPc = "notify"
    /\ mainPc' = "join_workers"
    /\ UNCHANGED <<m_accept_jobs, m_job_stack, m_available_thread_count, m_lock,
                   managerPc, workerPc, job, pusherPc, func, finishedJobs, pushedJobs>>

NotifyClosed ==
    /\ mainPc = "notify"
    /\ workerPc' = Awakened
    /\ mainPc' = "join_workers"
    /\ UNCHANGED <<m_accept_jobs, m_job_stack, m_available_thread_count, m_lock,
                   managerPc, job, pusherPc, func, finishedJobs, pushedJobs>>

\* Mutation: the workers are detached, not joined.
DetachWorkers ==
    /\ mainPc = "join_workers"
    /\ mainPc' = "destroyed"
    /\ UNCHANGED <<m_accept_jobs, m_job_stack, m_available_thread_count, m_lock,
                   managerPc, workerPc, job, pusherPc, func, finishedJobs, pushedJobs>>

\* The loop joins the workers the managing thread has created, one by one; it
\* ends when all of them have left run().
JoinWorkers ==
    /\ mainPc = "join_workers"
    /\ \A w \in Workers : workerPc[w] \in {"unborn", "exited"}
    /\ mainPc' = "destroyed"
    /\ UNCHANGED <<m_accept_jobs, m_job_stack, m_available_thread_count, m_lock,
                   managerPc, workerPc, job, pusherPc, func, finishedJobs, pushedJobs>>

------------------------------------------------------------------------------

Worker(w) ==
    \/ LockForWait(w) \/ TestPredicate(w) \/ Sleep(w) \/ SpuriousWakeup(w)
    \/ LeaveLoop(w) \/ TakeJob(w) \/ CountBusy(w) \/ FinishJob(w)
    \/ CountIdle(w)

Pusher(p) ==
    \/ \E j \in Jobs : BeginPush(p, j)
    \/ LockForPush(p) \/ PushAndUnlock(p) \/ NotifyPushed(p)

Destroy ==
    \/ BeginDestroy \/ JoinManager \/ LockForClose \/ CloseAndUnlock
    \/ NotifyClosed \/ JoinWorkers

Next ==
    \/ Manager
    \/ \E p \in Pushers : Pusher(p)
    \/ \E w \in Workers : Worker(w)
    \/ Destroy

Spec == Init /\ [][Next]_vars

\* A thread that can run runs; a thread that waits for the mutex gets it at
\* some time if it is free again and again; a job ends.  Nothing makes a
\* pusher push, the main thread call destroy, or a wake-up be spurious.
Fairness ==
    /\ WF_vars(Manager)
    /\ \A p \in Pushers :
         /\ SF_vars(LockForPush(p))
         /\ WF_vars(PushAndUnlock(p))
         /\ WF_vars(NotifyPushed(p))
    /\ \A w \in Workers :
         /\ SF_vars(LockForWait(w))
         /\ WF_vars(TestPredicate(w) \/ Sleep(w))
         /\ WF_vars(LeaveLoop(w) \/ TakeJob(w))
         /\ WF_vars(CountBusy(w) \/ FinishJob(w) \/ CountIdle(w))
    /\ SF_vars(LockForClose)
    /\ WF_vars(JoinManager \/ CloseAndUnlock \/ NotifyClosed \/ JoinWorkers)

FairSpec == Spec /\ Fairness
------------------------------------------------------------------------------
(* Properties *)

\* A worker never sleeps through work: while one waits on the condition
\* variable and its predicate is true, a thread stands before the notify_all
\* that will wake it (push and destroy notify after they unlock).
NoMissedWakeup ==
    (\E w \in Workers : workerPc[w] = "waiting")
      /\ (m_job_stack # <<>> \/ ~m_accept_jobs)
    => \/ mainPc = "notify"
       \/ \E p \in Pushers : pusherPc[p] = "notify"

\* Each job that push() was given is with its pusher, on the stack, with a worker
\* or finished.
NoneLost == pushedJobs = InHand \cup OnStack \cup finishedJobs

\* A job is on the stack at most once, or with one worker, or finished, never two
\* of these.
NoneTwice ==
    /\ \A i, k \in DOMAIN m_job_stack :
         m_job_stack[i] = m_job_stack[k] => i = k
    /\ \A v, w \in Workers : job[v] # None /\ job[v] = job[w] => v = w
    /\ \A w \in Workers : job[w] \notin OnStack \cup finishedJobs
    /\ OnStack \cap finishedJobs = {}

\* No job is lost and none executed twice, by whichever threads; what is on the
\* stack when the pool is closed stays there.
JobInOnePlace == NoneLost /\ NoneTwice

\* The atomic counter push() compares the stack with counts the workers that
\* are not between its decrement and its increment, whatever jobs they hold,
\* so it neither wraps below zero nor drifts, although it is updated outside
\* the mutex.
Counted == {w \in Workers : workerPc[w] \in {"executing", "executed"}}

AvailableIsIdle ==
    managerPc # "start"
      => m_available_thread_count = WorkerCount - Cardinality(Counted)

\* When destroy() returns no thread of the pool is left: every worker create()
\* ever starts has exited, so no job executes and m_thread_pool.clear()
\* destroys no joinable thread.
DestroyedIsQuiet ==
    mainPc = "destroyed" =>
      \A w \in Workers : workerPc[w] = "exited" /\ job[w] = None

\* Once m_accept_jobs is false no worker takes a job, not even one that had
\* already tested the predicate when destroy() closed the pool.
NoJobTakenOnceClosed ==
    [][~m_accept_jobs => \A w \in Workers : job'[w] \in {job[w], None}]_vars

\* destroy() returns, whatever jobs are queued or executing when it is called
\* and whether or not the managing thread has created all the workers.
DestroyReturns == (mainPc = "join_manager") ~> (mainPc = "destroyed")

\* A pushed job is executed unless the pool is closed first, although workers
\* take the newest job first.
PushedJobServed ==
    \A j \in Jobs : (j \in OnStack) ~> (j \in finishedJobs \/ ~m_accept_jobs)

\* The threads, the mutex and the condition variable implement the abstract
\* job pool.  What destroy() waits for is what the abstract pool promises.
Abstract ==
    INSTANCE JobPool WITH
      Threads <- Workers,
      pending <- OnStack,
      executing <- job,
      finished <- finishedJobs,
      open <- m_accept_jobs,
      stopped <- (mainPc = "destroyed")

ImplementsJobPool == Abstract!Spec
==============================================================================
