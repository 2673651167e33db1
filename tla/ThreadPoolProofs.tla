--------------------------- MODULE ThreadPoolProofs ---------------------------
(***************************************************************************)
(* Proofs about ThreadPool, for any finite set of workers, any set of      *)
(* pushers and any set of jobs.  IInv is the inductive invariant: the      *)
(* types, who holds m_lock where, which phase each thread can be in when   *)
(* another has passed a given point, where a job can be, and the properties *)
(* themselves.                                                             *)
(***************************************************************************)
EXTENDS ThreadPool, TLAPS, FiniteSetTheorems

(* TypeOK without the bound of the counter, which needs the counting. *)
Types ==
    /\ m_accept_jobs \in BOOLEAN
    /\ m_job_stack \in Seq(Jobs)
    /\ m_available_thread_count \in Int
    /\ m_lock \in Threads \cup {None}
    /\ managerPc \in {"start", "spawning", "done"}
    /\ workerPc \in [Workers -> {"unborn", "lock", "test", "sleep", "waiting",
                                 "take", "claimed", "executing", "executed",
                                 "exited"}]
    /\ job \in [Workers -> Jobs \cup {None}]
    /\ pusherPc \in [Pushers -> {"idle", "lock", "push", "notify"}]
    /\ func \in [Pushers -> Jobs \cup {None}]
    /\ mainPc \in {"running", "join_manager", "lock", "close", "notify",
                   "join_workers", "destroyed"}
    /\ finishedJobs \in SUBSET Jobs
    /\ pushedJobs \in SUBSET Jobs

(* A thread is inside a critical section exactly when it holds the mutex. *)
Mutex ==
    /\ \A w \in Workers :
         workerPc[w] \in {"test", "sleep", "take"} <=> m_lock = w
    /\ \A p \in Pushers : pusherPc[p] = "push" <=> m_lock = p
    /\ mainPc = "close" <=> m_lock = Main

(* What a worker has read under the mutex still holds when it acts on it. *)
Predicate ==
    \A w \in Workers :
      /\ workerPc[w] = "sleep" => m_job_stack = <<>> /\ m_accept_jobs
      /\ workerPc[w] = "take" => m_job_stack # <<>> \/ ~m_accept_jobs

(* How far the managing thread and the workers are, given where the main   *)
(* thread is.                                                              *)
Phases ==
    /\ managerPc = "start" =>
         /\ m_available_thread_count = 0
         /\ \A w \in Workers : workerPc[w] = "unborn"
    /\ managerPc = "done" => \A w \in Workers : workerPc[w] # "unborn"
    /\ mainPc \notin {"running", "join_manager"} => managerPc = "done"
    /\ m_accept_jobs <=> mainPc \in {"running", "join_manager", "lock", "close"}
    /\ mainPc = "destroyed" => \A w \in Workers : workerPc[w] = "exited"
    /\ m_accept_jobs => \A w \in Workers : workerPc[w] # "exited"

(* Which local variables hold a job. *)
Holding ==
    /\ \A w \in Workers : job[w] # None <=> workerPc[w] \in {"claimed", "executing"}
    /\ \A p \in Pushers : func[p] # None <=> pusherPc[p] \in {"lock", "push"}

(* A job about to be pushed is nowhere else. *)
PushedJobIsNew ==
    /\ \A p, q \in Pushers : func[p] # None /\ func[p] = func[q] => p = q
    /\ \A p \in Pushers :
         /\ func[p] \notin OnStack \cup finishedJobs
         /\ \A w \in Workers : job[w] # None => job[w] # func[p]

IInv ==
    /\ Types
    /\ Mutex
    /\ Predicate
    /\ Phases
    /\ Holding
    /\ PushedJobIsNew
    /\ JobInOnePlace
    /\ AvailableIsIdle
    /\ NoMissedWakeup
------------------------------------------------------------------------------
(* Every step preserves every part of the invariant *)

(* hardware_concurrency() is a number.                                     *)
LEMMA WorkerCountType == WorkerCount \in Nat
  BY WorkersAssumption, FS_CardinalityType DEF WorkerCount

(* The types.                                                               *)
LEMMA TypesStep ==
    ASSUME Types, Mutex, Predicate, Holding, Next
    PROVE  Types'
  <1> USE DEF Types, Mutex, Predicate, Holding, Threads
  <1>1. ASSUME SetAvailable PROVE Types'
    BY <1>1, WorkerCountType DEF SetAvailable
  <1>2. ASSUME NEW w \in Workers, SpawnWorker(w) PROVE Types'
    BY <1>2, ThreadsAssumption DEF SpawnWorker
  <1>3. ASSUME ManagerDone PROVE Types'
    BY <1>3, ThreadsAssumption DEF ManagerDone
  <1>4. ASSUME NEW p \in Pushers, NEW j \in Jobs, BeginPush(p, j) PROVE Types'
    BY <1>4, ThreadsAssumption DEF BeginPush
  <1>5. ASSUME NEW p \in Pushers, LockForPush(p) PROVE Types'
    BY <1>5, ThreadsAssumption DEF LockForPush
  <1>6. ASSUME NEW p \in Pushers, PushAndUnlock(p) PROVE Types'
    BY <1>6, ThreadsAssumption DEF PushAndUnlock
  <1>7. ASSUME NEW p \in Pushers, NotifyPushed(p) PROVE Types'
    BY <1>7, ThreadsAssumption DEF NotifyPushed, Awakened
  <1>8. ASSUME NEW w \in Workers, LockForWait(w) PROVE Types'
    BY <1>8, ThreadsAssumption DEF LockForWait
  <1>9. ASSUME NEW w \in Workers, TestPredicate(w) PROVE Types'
    BY <1>9, ThreadsAssumption DEF TestPredicate
  <1>10. ASSUME NEW w \in Workers, Sleep(w) PROVE Types'
    BY <1>10, ThreadsAssumption DEF Sleep
  <1>11. ASSUME NEW w \in Workers, SpuriousWakeup(w) PROVE Types'
    BY <1>11, ThreadsAssumption DEF SpuriousWakeup
  <1>12. ASSUME NEW w \in Workers, LeaveLoop(w) PROVE Types'
    BY <1>12, ThreadsAssumption DEF LeaveLoop
  <1>13. ASSUME NEW w \in Workers, TakeJob(w) PROVE Types'
    BY <1>13, ThreadsAssumption DEF TakeJob
  <1>14. ASSUME NEW w \in Workers, CountBusy(w) PROVE Types'
    BY <1>14, ThreadsAssumption DEF CountBusy
  <1>15. ASSUME NEW w \in Workers, FinishJob(w) PROVE Types'
    BY <1>15, ThreadsAssumption DEF FinishJob
  <1>16. ASSUME NEW w \in Workers, CountIdle(w) PROVE Types'
    BY <1>16, ThreadsAssumption DEF CountIdle
  <1>17. ASSUME BeginDestroy PROVE Types'
    BY <1>17, ThreadsAssumption DEF BeginDestroy
  <1>18. ASSUME JoinManager PROVE Types'
    BY <1>18, ThreadsAssumption DEF JoinManager
  <1>19. ASSUME LockForClose PROVE Types'
    BY <1>19, ThreadsAssumption DEF LockForClose
  <1>20. ASSUME CloseAndUnlock PROVE Types'
    BY <1>20, ThreadsAssumption DEF CloseAndUnlock
  <1>21. ASSUME NotifyClosed PROVE Types'
    BY <1>21, ThreadsAssumption DEF NotifyClosed, Awakened
  <1>22. ASSUME JoinWorkers PROVE Types'
    BY <1>22, ThreadsAssumption DEF JoinWorkers
  <1> QED
    BY <1>1, <1>2, <1>3, <1>4, <1>5, <1>6, <1>7, <1>8, <1>9, <1>10, <1>11, <1>12, <1>13, <1>14, <1>15, <1>16, <1>17, <1>18, <1>19, <1>20, <1>21, <1>22 DEF Next, Manager, Pusher, Worker, Destroy

(* The mutex.                                                               *)
LEMMA MutexStep ==
    ASSUME Types, Mutex, Next
    PROVE  Mutex'
  <1> USE DEF Types, Mutex, Threads
  <1>1. ASSUME SetAvailable PROVE Mutex'
    BY <1>1, ThreadsAssumption DEF SetAvailable
  <1>2. ASSUME NEW w \in Workers, SpawnWorker(w) PROVE Mutex'
    BY <1>2, ThreadsAssumption DEF SpawnWorker
  <1>3. ASSUME ManagerDone PROVE Mutex'
    BY <1>3, ThreadsAssumption DEF ManagerDone
  <1>4. ASSUME NEW p \in Pushers, NEW j \in Jobs, BeginPush(p, j) PROVE Mutex'
    BY <1>4, ThreadsAssumption DEF BeginPush
  <1>5. ASSUME NEW p \in Pushers, LockForPush(p) PROVE Mutex'
    BY <1>5, ThreadsAssumption DEF LockForPush
  <1>6. ASSUME NEW p \in Pushers, PushAndUnlock(p) PROVE Mutex'
    BY <1>6, ThreadsAssumption DEF PushAndUnlock
  <1>7. ASSUME NEW p \in Pushers, NotifyPushed(p) PROVE Mutex'
    BY <1>7, ThreadsAssumption DEF NotifyPushed, Awakened
  <1>8. ASSUME NEW w \in Workers, LockForWait(w) PROVE Mutex'
    BY <1>8, ThreadsAssumption DEF LockForWait
  <1>9. ASSUME NEW w \in Workers, TestPredicate(w) PROVE Mutex'
    BY <1>9, ThreadsAssumption DEF TestPredicate
  <1>10. ASSUME NEW w \in Workers, Sleep(w) PROVE Mutex'
    BY <1>10, ThreadsAssumption DEF Sleep
  <1>11. ASSUME NEW w \in Workers, SpuriousWakeup(w) PROVE Mutex'
    BY <1>11, ThreadsAssumption DEF SpuriousWakeup
  <1>12. ASSUME NEW w \in Workers, LeaveLoop(w) PROVE Mutex'
    BY <1>12, ThreadsAssumption DEF LeaveLoop
  <1>13. ASSUME NEW w \in Workers, TakeJob(w) PROVE Mutex'
    BY <1>13, ThreadsAssumption DEF TakeJob
  <1>14. ASSUME NEW w \in Workers, CountBusy(w) PROVE Mutex'
    BY <1>14, ThreadsAssumption DEF CountBusy
  <1>15. ASSUME NEW w \in Workers, FinishJob(w) PROVE Mutex'
    BY <1>15, ThreadsAssumption DEF FinishJob
  <1>16. ASSUME NEW w \in Workers, CountIdle(w) PROVE Mutex'
    BY <1>16, ThreadsAssumption DEF CountIdle
  <1>17. ASSUME BeginDestroy PROVE Mutex'
    BY <1>17, ThreadsAssumption DEF BeginDestroy
  <1>18. ASSUME JoinManager PROVE Mutex'
    BY <1>18, ThreadsAssumption DEF JoinManager
  <1>19. ASSUME LockForClose PROVE Mutex'
    BY <1>19, ThreadsAssumption DEF LockForClose
  <1>20. ASSUME CloseAndUnlock PROVE Mutex'
    BY <1>20, ThreadsAssumption DEF CloseAndUnlock
  <1>21. ASSUME NotifyClosed PROVE Mutex'
    BY <1>21, ThreadsAssumption DEF NotifyClosed, Awakened
  <1>22. ASSUME JoinWorkers PROVE Mutex'
    BY <1>22, ThreadsAssumption DEF JoinWorkers
  <1> QED
    BY <1>1, <1>2, <1>3, <1>4, <1>5, <1>6, <1>7, <1>8, <1>9, <1>10, <1>11, <1>12, <1>13, <1>14, <1>15, <1>16, <1>17, <1>18, <1>19, <1>20, <1>21, <1>22 DEF Next, Manager, Pusher, Worker, Destroy

(* Nobody changes the predicate while a worker holds the mutex.             *)
LEMMA PredicateStep ==
    ASSUME Types, Mutex, Predicate, Next
    PROVE  Predicate'
  <1> USE DEF Types, Mutex, Predicate, Threads
  <1>1. ASSUME SetAvailable PROVE Predicate'
    BY <1>1, ThreadsAssumption DEF SetAvailable
  <1>2. ASSUME NEW w \in Workers, SpawnWorker(w) PROVE Predicate'
    BY <1>2, ThreadsAssumption DEF SpawnWorker
  <1>3. ASSUME ManagerDone PROVE Predicate'
    BY <1>3, ThreadsAssumption DEF ManagerDone
  <1>4. ASSUME NEW p \in Pushers, NEW j \in Jobs, BeginPush(p, j) PROVE Predicate'
    BY <1>4, ThreadsAssumption DEF BeginPush
  <1>5. ASSUME NEW p \in Pushers, LockForPush(p) PROVE Predicate'
    BY <1>5, ThreadsAssumption DEF LockForPush
  <1>6. ASSUME NEW p \in Pushers, PushAndUnlock(p) PROVE Predicate'
    BY <1>6, ThreadsAssumption DEF PushAndUnlock
  <1>7. ASSUME NEW p \in Pushers, NotifyPushed(p) PROVE Predicate'
    BY <1>7, ThreadsAssumption DEF NotifyPushed, Awakened
  <1>8. ASSUME NEW w \in Workers, LockForWait(w) PROVE Predicate'
    BY <1>8, ThreadsAssumption DEF LockForWait
  <1>9. ASSUME NEW w \in Workers, TestPredicate(w) PROVE Predicate'
    BY <1>9, ThreadsAssumption DEF TestPredicate
  <1>10. ASSUME NEW w \in Workers, Sleep(w) PROVE Predicate'
    BY <1>10, ThreadsAssumption DEF Sleep
  <1>11. ASSUME NEW w \in Workers, SpuriousWakeup(w) PROVE Predicate'
    BY <1>11, ThreadsAssumption DEF SpuriousWakeup
  <1>12. ASSUME NEW w \in Workers, LeaveLoop(w) PROVE Predicate'
    BY <1>12, ThreadsAssumption DEF LeaveLoop
  <1>13. ASSUME NEW w \in Workers, TakeJob(w) PROVE Predicate'
    BY <1>13, ThreadsAssumption DEF TakeJob
  <1>14. ASSUME NEW w \in Workers, CountBusy(w) PROVE Predicate'
    BY <1>14, ThreadsAssumption DEF CountBusy
  <1>15. ASSUME NEW w \in Workers, FinishJob(w) PROVE Predicate'
    BY <1>15, ThreadsAssumption DEF FinishJob
  <1>16. ASSUME NEW w \in Workers, CountIdle(w) PROVE Predicate'
    BY <1>16, ThreadsAssumption DEF CountIdle
  <1>17. ASSUME BeginDestroy PROVE Predicate'
    BY <1>17, ThreadsAssumption DEF BeginDestroy
  <1>18. ASSUME JoinManager PROVE Predicate'
    BY <1>18, ThreadsAssumption DEF JoinManager
  <1>19. ASSUME LockForClose PROVE Predicate'
    BY <1>19, ThreadsAssumption DEF LockForClose
  <1>20. ASSUME CloseAndUnlock PROVE Predicate'
    BY <1>20, ThreadsAssumption DEF CloseAndUnlock
  <1>21. ASSUME NotifyClosed PROVE Predicate'
    BY <1>21, ThreadsAssumption DEF NotifyClosed, Awakened
  <1>22. ASSUME JoinWorkers PROVE Predicate'
    BY <1>22, ThreadsAssumption DEF JoinWorkers
  <1> QED
    BY <1>1, <1>2, <1>3, <1>4, <1>5, <1>6, <1>7, <1>8, <1>9, <1>10, <1>11, <1>12, <1>13, <1>14, <1>15, <1>16, <1>17, <1>18, <1>19, <1>20, <1>21, <1>22 DEF Next, Manager, Pusher, Worker, Destroy

(* The phases.                                                              *)
LEMMA PhasesStep ==
    ASSUME Types, Mutex, Phases, Next
    PROVE  Phases'
  <1> USE DEF Types, Mutex, Phases, Threads
  <1>1. ASSUME SetAvailable PROVE Phases'
    BY <1>1, ThreadsAssumption DEF SetAvailable
  <1>2. ASSUME NEW w \in Workers, SpawnWorker(w) PROVE Phases'
    BY <1>2, ThreadsAssumption DEF SpawnWorker
  <1>3. ASSUME ManagerDone PROVE Phases'
    BY <1>3, ThreadsAssumption DEF ManagerDone
  <1>4. ASSUME NEW p \in Pushers, NEW j \in Jobs, BeginPush(p, j) PROVE Phases'
    BY <1>4, ThreadsAssumption DEF BeginPush
  <1>5. ASSUME NEW p \in Pushers, LockForPush(p) PROVE Phases'
    BY <1>5, ThreadsAssumption DEF LockForPush
  <1>6. ASSUME NEW p \in Pushers, PushAndUnlock(p) PROVE Phases'
    BY <1>6, ThreadsAssumption DEF PushAndUnlock
  <1>7. ASSUME NEW p \in Pushers, NotifyPushed(p) PROVE Phases'
    BY <1>7, ThreadsAssumption DEF NotifyPushed, Awakened
  <1>8. ASSUME NEW w \in Workers, LockForWait(w) PROVE Phases'
    BY <1>8, ThreadsAssumption DEF LockForWait
  <1>9. ASSUME NEW w \in Workers, TestPredicate(w) PROVE Phases'
    BY <1>9, ThreadsAssumption DEF TestPredicate
  <1>10. ASSUME NEW w \in Workers, Sleep(w) PROVE Phases'
    BY <1>10, ThreadsAssumption DEF Sleep
  <1>11. ASSUME NEW w \in Workers, SpuriousWakeup(w) PROVE Phases'
    BY <1>11, ThreadsAssumption DEF SpuriousWakeup
  <1>12. ASSUME NEW w \in Workers, LeaveLoop(w) PROVE Phases'
    BY <1>12, ThreadsAssumption DEF LeaveLoop
  <1>13. ASSUME NEW w \in Workers, TakeJob(w) PROVE Phases'
    BY <1>13, ThreadsAssumption DEF TakeJob
  <1>14. ASSUME NEW w \in Workers, CountBusy(w) PROVE Phases'
    BY <1>14, ThreadsAssumption DEF CountBusy
  <1>15. ASSUME NEW w \in Workers, FinishJob(w) PROVE Phases'
    BY <1>15, ThreadsAssumption DEF FinishJob
  <1>16. ASSUME NEW w \in Workers, CountIdle(w) PROVE Phases'
    BY <1>16, ThreadsAssumption DEF CountIdle
  <1>17. ASSUME BeginDestroy PROVE Phases'
    BY <1>17, ThreadsAssumption DEF BeginDestroy
  <1>18. ASSUME JoinManager PROVE Phases'
    BY <1>18, ThreadsAssumption DEF JoinManager
  <1>19. ASSUME LockForClose PROVE Phases'
    BY <1>19, ThreadsAssumption DEF LockForClose
  <1>20. ASSUME CloseAndUnlock PROVE Phases'
    BY <1>20, ThreadsAssumption DEF CloseAndUnlock
  <1>21. ASSUME NotifyClosed PROVE Phases'
    BY <1>21, ThreadsAssumption DEF NotifyClosed, Awakened
  <1>22. ASSUME JoinWorkers PROVE Phases'
    BY <1>22, ThreadsAssumption DEF JoinWorkers
  <1> QED
    BY <1>1, <1>2, <1>3, <1>4, <1>5, <1>6, <1>7, <1>8, <1>9, <1>10, <1>11, <1>12, <1>13, <1>14, <1>15, <1>16, <1>17, <1>18, <1>19, <1>20, <1>21, <1>22 DEF Next, Manager, Pusher, Worker, Destroy

(* The local variables that hold a job.                                     *)
LEMMA HoldingStep ==
    ASSUME Types, Mutex, Predicate, Holding, Next
    PROVE  Holding'
  <1> USE DEF Types, Mutex, Predicate, Holding, Threads
  <1>1. ASSUME SetAvailable PROVE Holding'
    BY <1>1, ThreadsAssumption DEF SetAvailable
  <1>2. ASSUME NEW w \in Workers, SpawnWorker(w) PROVE Holding'
    BY <1>2, ThreadsAssumption DEF SpawnWorker
  <1>3. ASSUME ManagerDone PROVE Holding'
    BY <1>3, ThreadsAssumption DEF ManagerDone
  <1>4. ASSUME NEW p \in Pushers, NEW j \in Jobs, BeginPush(p, j) PROVE Holding'
    BY <1>4, ThreadsAssumption DEF BeginPush
  <1>5. ASSUME NEW p \in Pushers, LockForPush(p) PROVE Holding'
    BY <1>5, ThreadsAssumption DEF LockForPush
  <1>6. ASSUME NEW p \in Pushers, PushAndUnlock(p) PROVE Holding'
    BY <1>6, ThreadsAssumption DEF PushAndUnlock
  <1>7. ASSUME NEW p \in Pushers, NotifyPushed(p) PROVE Holding'
    BY <1>7, ThreadsAssumption DEF NotifyPushed, Awakened
  <1>8. ASSUME NEW w \in Workers, LockForWait(w) PROVE Holding'
    BY <1>8, ThreadsAssumption DEF LockForWait
  <1>9. ASSUME NEW w \in Workers, TestPredicate(w) PROVE Holding'
    BY <1>9, ThreadsAssumption DEF TestPredicate
  <1>10. ASSUME NEW w \in Workers, Sleep(w) PROVE Holding'
    BY <1>10, ThreadsAssumption DEF Sleep
  <1>11. ASSUME NEW w \in Workers, SpuriousWakeup(w) PROVE Holding'
    BY <1>11, ThreadsAssumption DEF SpuriousWakeup
  <1>12. ASSUME NEW w \in Workers, LeaveLoop(w) PROVE Holding'
    BY <1>12, ThreadsAssumption DEF LeaveLoop
  <1>13. ASSUME NEW w \in Workers, TakeJob(w) PROVE Holding'
    BY <1>13, ThreadsAssumption DEF TakeJob
  <1>14. ASSUME NEW w \in Workers, CountBusy(w) PROVE Holding'
    BY <1>14, ThreadsAssumption DEF CountBusy
  <1>15. ASSUME NEW w \in Workers, FinishJob(w) PROVE Holding'
    BY <1>15, ThreadsAssumption DEF FinishJob
  <1>16. ASSUME NEW w \in Workers, CountIdle(w) PROVE Holding'
    BY <1>16, ThreadsAssumption DEF CountIdle
  <1>17. ASSUME BeginDestroy PROVE Holding'
    BY <1>17, ThreadsAssumption DEF BeginDestroy
  <1>18. ASSUME JoinManager PROVE Holding'
    BY <1>18, ThreadsAssumption DEF JoinManager
  <1>19. ASSUME LockForClose PROVE Holding'
    BY <1>19, ThreadsAssumption DEF LockForClose
  <1>20. ASSUME CloseAndUnlock PROVE Holding'
    BY <1>20, ThreadsAssumption DEF CloseAndUnlock
  <1>21. ASSUME NotifyClosed PROVE Holding'
    BY <1>21, ThreadsAssumption DEF NotifyClosed, Awakened
  <1>22. ASSUME JoinWorkers PROVE Holding'
    BY <1>22, ThreadsAssumption DEF JoinWorkers
  <1> QED
    BY <1>1, <1>2, <1>3, <1>4, <1>5, <1>6, <1>7, <1>8, <1>9, <1>10, <1>11, <1>12, <1>13, <1>14, <1>15, <1>16, <1>17, <1>18, <1>19, <1>20, <1>21, <1>22 DEF Next, Manager, Pusher, Worker, Destroy

(* Pushing adds the pushed job to m_job_stack and nothing else.            *)
LEMMA PushElements ==
    ASSUME NEW S, NEW s \in Seq(S), NEW x \in S
    PROVE  /\ Append(s, x) \in Seq(S)
           /\ Append(s, x) # <<>>
           /\ {Append(s, x)[i] : i \in DOMAIN Append(s, x)} =
                {s[i] : i \in DOMAIN s} \cup {x}
  <1> DEFINE t == Append(s, x)
  <1>1. /\ t \in Seq(S) /\ t # <<>>
        /\ DOMAIN t = DOMAIN s \cup {Len(s) + 1}
        /\ \A i \in DOMAIN s : t[i] = s[i]
        /\ t[Len(s) + 1] = x
    OBVIOUS
  <1> HIDE DEF t
  <1>2. {t[i] : i \in DOMAIN t} = {s[i] : i \in DOMAIN s} \cup {x}
    BY <1>1
  <1> QED
    BY <1>1, <1>2 DEF t

(* Popping m_job_stack, which holds each job once, takes its top job away  *)
(* and nothing else.                                                       *)
LEMMA PopElements ==
    ASSUME NEW S, NEW s \in Seq(S), s # <<>>,
           \A i, k \in DOMAIN s : s[i] = s[k] => i = k
    PROVE  /\ SubSeq(s, 1, Len(s) - 1) \in Seq(S)
           /\ s[Len(s)] \in S
           /\ s[Len(s)] \in {s[i] : i \in DOMAIN s}
           /\ {SubSeq(s, 1, Len(s) - 1)[i] : i \in DOMAIN SubSeq(s, 1, Len(s) - 1)} =
                {s[i] : i \in DOMAIN s} \ {s[Len(s)]}
           /\ \A i, k \in DOMAIN SubSeq(s, 1, Len(s) - 1) :
                SubSeq(s, 1, Len(s) - 1)[i] = SubSeq(s, 1, Len(s) - 1)[k] => i = k
  <1> DEFINE t == SubSeq(s, 1, Len(s) - 1)
  <1>1. /\ t \in Seq(S) /\ s[Len(s)] \in S
        /\ Len(s) \in DOMAIN s
        /\ DOMAIN t = DOMAIN s \ {Len(s)}
        /\ \A i \in DOMAIN t : t[i] = s[i]
    OBVIOUS
  <1> HIDE DEF t
  <1>2. {t[i] : i \in DOMAIN t} = {s[i] : i \in DOMAIN s} \ {s[Len(s)]}
    BY <1>1
  <1> QED
    BY <1>1, <1>2 DEF t

(* What push() does to the stack.                                          *)
LEMMA PushStep ==
    ASSUME Types, Holding, PushedJobIsNew, NoneTwice,
           NEW p \in Pushers, PushAndUnlock(p)
    PROVE  /\ func[p] \in Jobs
           /\ OnStack \subseteq Jobs
           /\ OnStack' = OnStack \cup {func[p]}
           /\ \A i, k \in DOMAIN m_job_stack' : m_job_stack'[i] = m_job_stack'[k] => i = k
  <1>1. /\ func[p] \in Jobs
        /\ func[p] \notin OnStack
        /\ m_job_stack \in Seq(Jobs)
        /\ m_job_stack' = Append(m_job_stack, func[p])
    BY ThreadsAssumption DEF Types, Holding, PushedJobIsNew, PushAndUnlock
  <1>2. /\ \A i, k \in DOMAIN m_job_stack : m_job_stack[i] = m_job_stack[k] => i = k
        /\ \A i \in DOMAIN m_job_stack : m_job_stack[i] # func[p]
        /\ OnStack \subseteq Jobs
    BY <1>1 DEF NoneTwice, OnStack
  <1>3. OnStack = {m_job_stack[i] : i \in DOMAIN m_job_stack}
    BY DEF OnStack
  <1> DEFINE t == Append(m_job_stack, func[p])
  <1>4. /\ DOMAIN m_job_stack = 1 .. Len(m_job_stack)
        /\ Len(m_job_stack) \in Nat
        /\ DOMAIN t = 1 .. Len(m_job_stack) + 1
        /\ \A i \in DOMAIN m_job_stack : t[i] = m_job_stack[i]
        /\ t[Len(m_job_stack) + 1] = func[p]
    BY <1>1
  <1>5. {t[i] : i \in DOMAIN t} = {m_job_stack[i] : i \in DOMAIN m_job_stack} \cup {func[p]}
    BY <1>1, PushElements
  <1>6. m_job_stack' = t
    BY <1>1
  <1> HIDE DEF t
  <1>7. OnStack' = {t[i] : i \in DOMAIN t}
    BY <1>6 DEF OnStack
  <1>8. \A i, k \in DOMAIN t : t[i] = t[k] => i = k
    BY <1>2, <1>4
  <1> QED BY <1>1, <1>2, <1>3, <1>5, <1>6, <1>7, <1>8

(* What a worker that takes a job does to the stack.                       *)
LEMMA TakeStep ==
    ASSUME Types, Predicate, NoneTwice, NEW w \in Workers, TakeJob(w)
    PROVE  /\ job'[w] \in Jobs
           /\ job'[w] \in OnStack
           /\ OnStack' = OnStack \ {job'[w]}
           /\ \A v \in Workers \ {w} : job'[v] = job[v]
           /\ \A i, k \in DOMAIN m_job_stack' : m_job_stack'[i] = m_job_stack'[k] => i = k
  <1>1. /\ m_job_stack \in Seq(Jobs)
        /\ m_job_stack # <<>>
        /\ m_job_stack' = SubSeq(m_job_stack, 1, Len(m_job_stack) - 1)
        /\ job'[w] = m_job_stack[Len(m_job_stack)]
        /\ \A v \in Workers \ {w} : job'[v] = job[v]
    BY DEF Types, Predicate, TakeJob
  <1>2. \A i, k \in DOMAIN m_job_stack : m_job_stack[i] = m_job_stack[k] => i = k
    BY DEF NoneTwice
  <1> DEFINE t == SubSeq(m_job_stack, 1, Len(m_job_stack) - 1)
  <1>3. /\ m_job_stack[Len(m_job_stack)] \in Jobs
        /\ m_job_stack[Len(m_job_stack)] \in {m_job_stack[i] : i \in DOMAIN m_job_stack}
        /\ {t[i] : i \in DOMAIN t} =
             {m_job_stack[i] : i \in DOMAIN m_job_stack} \ {m_job_stack[Len(m_job_stack)]}
        /\ \A i, k \in DOMAIN t : t[i] = t[k] => i = k
    BY <1>1, <1>2, PopElements
  <1> HIDE DEF t
  <1>4. m_job_stack' = t
    BY <1>1 DEF t
  <1>5. OnStack' = {t[i] : i \in DOMAIN t}
    BY <1>4 DEF OnStack
  <1>6. OnStack = {m_job_stack[i] : i \in DOMAIN m_job_stack}
    BY DEF OnStack
  <1> QED BY <1>1, <1>3, <1>4, <1>5, <1>6

(* A job about to be pushed stays new until it is.                          *)
LEMMA PushedJobIsNewStep ==
    ASSUME Types, Predicate, Holding, PushedJobIsNew, NoneLost, NoneTwice, Next
    PROVE  PushedJobIsNew'
  <1> USE DEF Types, Holding, PushedJobIsNew
  <1>1. ASSUME SetAvailable PROVE PushedJobIsNew'
    BY <1>1, ThreadsAssumption DEF SetAvailable, OnStack
  <1>2. ASSUME NEW w \in Workers, SpawnWorker(w) PROVE PushedJobIsNew'
    BY <1>2, ThreadsAssumption DEF SpawnWorker, OnStack
  <1>3. ASSUME ManagerDone PROVE PushedJobIsNew'
    BY <1>3, ThreadsAssumption DEF ManagerDone, OnStack
  <1>4. ASSUME NEW p \in Pushers, NEW j \in Jobs, BeginPush(p, j) PROVE PushedJobIsNew'
    BY <1>4, ThreadsAssumption DEF BeginPush, NoneLost, InHand, OnStack
  <1>5. ASSUME NEW p \in Pushers, LockForPush(p) PROVE PushedJobIsNew'
    BY <1>5, ThreadsAssumption DEF LockForPush, OnStack
  <1>6. ASSUME NEW p \in Pushers, PushAndUnlock(p) PROVE PushedJobIsNew'
    <2>1. /\ func[p] \in Jobs
          /\ OnStack \subseteq Jobs
          /\ OnStack' = OnStack \cup {func[p]}
          /\ \A i, k \in DOMAIN m_job_stack' : m_job_stack'[i] = m_job_stack'[k] => i = k
      BY <1>6, PushStep
    <2>2. /\ func' = [func EXCEPT ![p] = None]
          /\ job' = job
          /\ finishedJobs' = finishedJobs
      BY <1>6 DEF PushAndUnlock
    <2> QED BY <2>1, <2>2, ThreadsAssumption
  <1>7. ASSUME NEW p \in Pushers, NotifyPushed(p) PROVE PushedJobIsNew'
    BY <1>7, ThreadsAssumption DEF NotifyPushed, Awakened, OnStack
  <1>8. ASSUME NEW w \in Workers, LockForWait(w) PROVE PushedJobIsNew'
    BY <1>8, ThreadsAssumption DEF LockForWait, OnStack
  <1>9. ASSUME NEW w \in Workers, TestPredicate(w) PROVE PushedJobIsNew'
    BY <1>9, ThreadsAssumption DEF TestPredicate, OnStack
  <1>10. ASSUME NEW w \in Workers, Sleep(w) PROVE PushedJobIsNew'
    BY <1>10, ThreadsAssumption DEF Sleep, OnStack
  <1>11. ASSUME NEW w \in Workers, SpuriousWakeup(w) PROVE PushedJobIsNew'
    BY <1>11, ThreadsAssumption DEF SpuriousWakeup, OnStack
  <1>12. ASSUME NEW w \in Workers, LeaveLoop(w) PROVE PushedJobIsNew'
    BY <1>12, ThreadsAssumption DEF LeaveLoop, OnStack
  <1>13. ASSUME NEW w \in Workers, TakeJob(w) PROVE PushedJobIsNew'
    <2>1. /\ job'[w] \in Jobs
          /\ job'[w] \in OnStack
          /\ OnStack' = OnStack \ {job'[w]}
          /\ \A v \in Workers \ {w} : job'[v] = job[v]
          /\ \A i, k \in DOMAIN m_job_stack' : m_job_stack'[i] = m_job_stack'[k] => i = k
      BY <1>13, TakeStep
    <2>2. func' = func /\ finishedJobs' = finishedJobs
      BY <1>13 DEF TakeJob
    <2> QED BY <2>1, <2>2, ThreadsAssumption
  <1>14. ASSUME NEW w \in Workers, CountBusy(w) PROVE PushedJobIsNew'
    BY <1>14, ThreadsAssumption DEF CountBusy, OnStack
  <1>15. ASSUME NEW w \in Workers, FinishJob(w) PROVE PushedJobIsNew'
    BY <1>15, ThreadsAssumption DEF FinishJob, OnStack
  <1>16. ASSUME NEW w \in Workers, CountIdle(w) PROVE PushedJobIsNew'
    BY <1>16, ThreadsAssumption DEF CountIdle, OnStack
  <1>17. ASSUME BeginDestroy PROVE PushedJobIsNew'
    BY <1>17, ThreadsAssumption DEF BeginDestroy, OnStack
  <1>18. ASSUME JoinManager PROVE PushedJobIsNew'
    BY <1>18, ThreadsAssumption DEF JoinManager, OnStack
  <1>19. ASSUME LockForClose PROVE PushedJobIsNew'
    BY <1>19, ThreadsAssumption DEF LockForClose, OnStack
  <1>20. ASSUME CloseAndUnlock PROVE PushedJobIsNew'
    BY <1>20, ThreadsAssumption DEF CloseAndUnlock, OnStack
  <1>21. ASSUME NotifyClosed PROVE PushedJobIsNew'
    BY <1>21, ThreadsAssumption DEF NotifyClosed, Awakened, OnStack
  <1>22. ASSUME JoinWorkers PROVE PushedJobIsNew'
    BY <1>22, ThreadsAssumption DEF JoinWorkers, OnStack
  <1> QED
    BY <1>1, <1>2, <1>3, <1>4, <1>5, <1>6, <1>7, <1>8, <1>9, <1>10, <1>11, <1>12, <1>13, <1>14, <1>15, <1>16, <1>17, <1>18, <1>19, <1>20, <1>21, <1>22
       DEF Next, Manager, Pusher, Worker, Destroy

(* A job moves from place to place and is never copied.                     *)
LEMMA NoneTwiceStep ==
    ASSUME Types, Predicate, Holding, PushedJobIsNew, NoneTwice, Next
    PROVE  NoneTwice'
  <1> USE DEF Types, Holding, NoneTwice
  <1>1. ASSUME SetAvailable PROVE NoneTwice'
    BY <1>1, ThreadsAssumption DEF SetAvailable, OnStack
  <1>2. ASSUME NEW w \in Workers, SpawnWorker(w) PROVE NoneTwice'
    BY <1>2, ThreadsAssumption DEF SpawnWorker, OnStack
  <1>3. ASSUME ManagerDone PROVE NoneTwice'
    BY <1>3, ThreadsAssumption DEF ManagerDone, OnStack
  <1>4. ASSUME NEW p \in Pushers, NEW j \in Jobs, BeginPush(p, j) PROVE NoneTwice'
    BY <1>4, ThreadsAssumption DEF BeginPush, OnStack
  <1>5. ASSUME NEW p \in Pushers, LockForPush(p) PROVE NoneTwice'
    BY <1>5, ThreadsAssumption DEF LockForPush, OnStack
  <1>6. ASSUME NEW p \in Pushers, PushAndUnlock(p) PROVE NoneTwice'
    <2>1. /\ func[p] \in Jobs
          /\ OnStack \subseteq Jobs
          /\ OnStack' = OnStack \cup {func[p]}
          /\ \A i, k \in DOMAIN m_job_stack' : m_job_stack'[i] = m_job_stack'[k] => i = k
      BY <1>6, PushStep
    <2>2. /\ func' = [func EXCEPT ![p] = None]
          /\ job' = job
          /\ finishedJobs' = finishedJobs
      BY <1>6 DEF PushAndUnlock
    <2> QED BY <2>1, <2>2, ThreadsAssumption DEF PushedJobIsNew
  <1>7. ASSUME NEW p \in Pushers, NotifyPushed(p) PROVE NoneTwice'
    BY <1>7, ThreadsAssumption DEF NotifyPushed, Awakened, OnStack
  <1>8. ASSUME NEW w \in Workers, LockForWait(w) PROVE NoneTwice'
    BY <1>8, ThreadsAssumption DEF LockForWait, OnStack
  <1>9. ASSUME NEW w \in Workers, TestPredicate(w) PROVE NoneTwice'
    BY <1>9, ThreadsAssumption DEF TestPredicate, OnStack
  <1>10. ASSUME NEW w \in Workers, Sleep(w) PROVE NoneTwice'
    BY <1>10, ThreadsAssumption DEF Sleep, OnStack
  <1>11. ASSUME NEW w \in Workers, SpuriousWakeup(w) PROVE NoneTwice'
    BY <1>11, ThreadsAssumption DEF SpuriousWakeup, OnStack
  <1>12. ASSUME NEW w \in Workers, LeaveLoop(w) PROVE NoneTwice'
    BY <1>12, ThreadsAssumption DEF LeaveLoop, OnStack
  <1>13. ASSUME NEW w \in Workers, TakeJob(w) PROVE NoneTwice'
    <2>1. /\ job'[w] \in Jobs
          /\ job'[w] \in OnStack
          /\ OnStack' = OnStack \ {job'[w]}
          /\ \A v \in Workers \ {w} : job'[v] = job[v]
          /\ \A i, k \in DOMAIN m_job_stack' : m_job_stack'[i] = m_job_stack'[k] => i = k
      BY <1>13, TakeStep
    <2>2. func' = func /\ finishedJobs' = finishedJobs
      BY <1>13 DEF TakeJob
    <2> QED BY <2>1, <2>2, ThreadsAssumption
  <1>14. ASSUME NEW w \in Workers, CountBusy(w) PROVE NoneTwice'
    BY <1>14, ThreadsAssumption DEF CountBusy, OnStack
  <1>15. ASSUME NEW w \in Workers, FinishJob(w) PROVE NoneTwice'
    BY <1>15, ThreadsAssumption DEF FinishJob, OnStack
  <1>16. ASSUME NEW w \in Workers, CountIdle(w) PROVE NoneTwice'
    BY <1>16, ThreadsAssumption DEF CountIdle, OnStack
  <1>17. ASSUME BeginDestroy PROVE NoneTwice'
    BY <1>17, ThreadsAssumption DEF BeginDestroy, OnStack
  <1>18. ASSUME JoinManager PROVE NoneTwice'
    BY <1>18, ThreadsAssumption DEF JoinManager, OnStack
  <1>19. ASSUME LockForClose PROVE NoneTwice'
    BY <1>19, ThreadsAssumption DEF LockForClose, OnStack
  <1>20. ASSUME CloseAndUnlock PROVE NoneTwice'
    BY <1>20, ThreadsAssumption DEF CloseAndUnlock, OnStack
  <1>21. ASSUME NotifyClosed PROVE NoneTwice'
    BY <1>21, ThreadsAssumption DEF NotifyClosed, Awakened, OnStack
  <1>22. ASSUME JoinWorkers PROVE NoneTwice'
    BY <1>22, ThreadsAssumption DEF JoinWorkers, OnStack
  <1> QED
    BY <1>1, <1>2, <1>3, <1>4, <1>5, <1>6, <1>7, <1>8, <1>9, <1>10, <1>11, <1>12, <1>13, <1>14, <1>15, <1>16, <1>17, <1>18, <1>19, <1>20, <1>21, <1>22
       DEF Next, Manager, Pusher, Worker, Destroy

(* A job leaves the hand of a thread only for the stack or to be finished.  *)
LEMMA NoneLostStep ==
    ASSUME Types, Predicate, Holding, PushedJobIsNew, NoneTwice, NoneLost, Next
    PROVE  NoneLost'
  <1> USE DEF Types, Holding, NoneLost
  <1>1. ASSUME SetAvailable PROVE NoneLost'
    BY <1>1 DEF SetAvailable, InHand, OnStack
  <1>2. ASSUME NEW w \in Workers, SpawnWorker(w) PROVE NoneLost'
    BY <1>2 DEF SpawnWorker, InHand, OnStack
  <1>3. ASSUME ManagerDone PROVE NoneLost'
    BY <1>3 DEF ManagerDone, InHand, OnStack
  <1>4. ASSUME NEW p \in Pushers, NEW j \in Jobs, BeginPush(p, j) PROVE NoneLost'
    <2>1. /\ func[p] = None
          /\ func' = [func EXCEPT ![p] = j]
          /\ pushedJobs' = pushedJobs \cup {j}
          /\ UNCHANGED <<job, m_job_stack, finishedJobs>>
      BY <1>4 DEF BeginPush
    <2>2. InHand' = InHand \cup {j}
      BY <2>1, ThreadsAssumption DEF InHand
    <2> QED BY <2>1, <2>2 DEF OnStack
  <1>5. ASSUME NEW p \in Pushers, LockForPush(p) PROVE NoneLost'
    BY <1>5 DEF LockForPush, InHand, OnStack
  <1>6. ASSUME NEW p \in Pushers, PushAndUnlock(p) PROVE NoneLost'
    <2>1. /\ func[p] \in Jobs
          /\ OnStack' = OnStack \cup {func[p]}
      BY <1>6, PushStep
    <2>2. /\ func' = [func EXCEPT ![p] = None]
          /\ job' = job
          /\ UNCHANGED <<finishedJobs, pushedJobs>>
      BY <1>6 DEF PushAndUnlock
    <2>3. InHand' \cup {func[p]} = InHand
      BY <2>1, <2>2, ThreadsAssumption DEF InHand
    <2> QED BY <2>1, <2>2, <2>3
  <1>7. ASSUME NEW p \in Pushers, NotifyPushed(p) PROVE NoneLost'
    BY <1>7 DEF NotifyPushed, InHand, OnStack
  <1>8. ASSUME NEW w \in Workers, LockForWait(w) PROVE NoneLost'
    BY <1>8 DEF LockForWait, InHand, OnStack
  <1>9. ASSUME NEW w \in Workers, TestPredicate(w) PROVE NoneLost'
    BY <1>9 DEF TestPredicate, InHand, OnStack
  <1>10. ASSUME NEW w \in Workers, Sleep(w) PROVE NoneLost'
    BY <1>10 DEF Sleep, InHand, OnStack
  <1>11. ASSUME NEW w \in Workers, SpuriousWakeup(w) PROVE NoneLost'
    BY <1>11 DEF SpuriousWakeup, InHand, OnStack
  <1>12. ASSUME NEW w \in Workers, LeaveLoop(w) PROVE NoneLost'
    BY <1>12 DEF LeaveLoop, InHand, OnStack
  <1>13. ASSUME NEW w \in Workers, TakeJob(w) PROVE NoneLost'
    <2>1. /\ job'[w] \in Jobs
          /\ job'[w] \in OnStack
          /\ OnStack' = OnStack \ {job'[w]}
          /\ \A v \in Workers \ {w} : job'[v] = job[v]
      BY <1>13, TakeStep
    <2>2. UNCHANGED <<func, finishedJobs, pushedJobs>> /\ job[w] = None
      BY <1>13 DEF TakeJob
    <2>3. InHand' = InHand \cup {job'[w]}
      BY <2>1, <2>2, ThreadsAssumption DEF InHand
    <2> QED BY <2>1, <2>2, <2>3
  <1>14. ASSUME NEW w \in Workers, CountBusy(w) PROVE NoneLost'
    BY <1>14 DEF CountBusy, InHand, OnStack
  <1>15. ASSUME NEW w \in Workers, FinishJob(w) PROVE NoneLost'
    <2>1. /\ job[w] # None
          /\ job' = [job EXCEPT ![w] = None]
          /\ finishedJobs' = finishedJobs \cup {job[w]}
          /\ UNCHANGED <<func, m_job_stack, pushedJobs>>
      BY <1>15 DEF FinishJob
    <2>2. InHand' \cup {job[w]} = InHand
      BY <2>1 DEF InHand
    <2> QED BY <2>1, <2>2 DEF OnStack
  <1>16. ASSUME NEW w \in Workers, CountIdle(w) PROVE NoneLost'
    BY <1>16 DEF CountIdle, InHand, OnStack
  <1>17. ASSUME BeginDestroy PROVE NoneLost'
    BY <1>17 DEF BeginDestroy, InHand, OnStack
  <1>18. ASSUME JoinManager PROVE NoneLost'
    BY <1>18 DEF JoinManager, InHand, OnStack
  <1>19. ASSUME LockForClose PROVE NoneLost'
    BY <1>19 DEF LockForClose, InHand, OnStack
  <1>20. ASSUME CloseAndUnlock PROVE NoneLost'
    BY <1>20 DEF CloseAndUnlock, InHand, OnStack
  <1>21. ASSUME NotifyClosed PROVE NoneLost'
    BY <1>21 DEF NotifyClosed, InHand, OnStack
  <1>22. ASSUME JoinWorkers PROVE NoneLost'
    BY <1>22 DEF JoinWorkers, InHand, OnStack
  <1> QED
    BY <1>1, <1>2, <1>3, <1>4, <1>5, <1>6, <1>7, <1>8, <1>9, <1>10, <1>11, <1>12, <1>13, <1>14, <1>15, <1>16, <1>17, <1>18, <1>19, <1>20, <1>21, <1>22
       DEF Next, Manager, Pusher, Worker, Destroy

(* The workers being counted are finitely many.                            *)
LEMMA CountedFinite == IsFiniteSet(Counted) /\ Cardinality(Counted) \in 0..WorkerCount
  <1>1. Counted \subseteq Workers
    BY DEF Counted
  <1> QED BY <1>1, WorkersAssumption, WorkerCountType, FS_Subset, FS_CardinalityType DEF WorkerCount

(* The counter follows the workers between decrement and increment.        *)
LEMMA AvailableStep ==
    ASSUME Types, Phases, AvailableIsIdle, Next
    PROVE  AvailableIsIdle'
  <1> USE DEF Types, Phases, AvailableIsIdle
  <1>1. ASSUME SetAvailable PROVE AvailableIsIdle'
    <2>1. Counted' = {}
      BY <1>1 DEF SetAvailable, Counted
    <2> QED BY <1>1, <2>1, WorkerCountType, FS_EmptySet DEF SetAvailable, WorkerCount
  <1>2. ASSUME NEW w \in Workers, SpawnWorker(w) PROVE AvailableIsIdle'
    <2>1. Counted' = Counted
      BY <1>2 DEF SpawnWorker, Counted
    <2> QED BY <1>2, <2>1 DEF SpawnWorker, WorkerCount
  <1>3. ASSUME ManagerDone PROVE AvailableIsIdle'
    <2>1. Counted' = Counted
      BY <1>3 DEF ManagerDone, Counted
    <2> QED BY <1>3, <2>1 DEF ManagerDone, WorkerCount
  <1>4. ASSUME NEW p \in Pushers, NEW j \in Jobs, BeginPush(p, j) PROVE AvailableIsIdle'
    <2>1. Counted' = Counted
      BY <1>4 DEF BeginPush, Counted
    <2> QED BY <1>4, <2>1 DEF BeginPush, WorkerCount
  <1>5. ASSUME NEW p \in Pushers, LockForPush(p) PROVE AvailableIsIdle'
    <2>1. Counted' = Counted
      BY <1>5 DEF LockForPush, Counted
    <2> QED BY <1>5, <2>1 DEF LockForPush, WorkerCount
  <1>6. ASSUME NEW p \in Pushers, PushAndUnlock(p) PROVE AvailableIsIdle'
    <2>1. Counted' = Counted
      BY <1>6 DEF PushAndUnlock, Counted
    <2> QED BY <1>6, <2>1 DEF PushAndUnlock, WorkerCount
  <1>7. ASSUME NEW p \in Pushers, NotifyPushed(p) PROVE AvailableIsIdle'
    <2>1. Counted' = Counted
      BY <1>7 DEF NotifyPushed, Awakened, Counted
    <2> QED BY <1>7, <2>1 DEF NotifyPushed, Awakened, WorkerCount
  <1>8. ASSUME NEW w \in Workers, LockForWait(w) PROVE AvailableIsIdle'
    <2>1. Counted' = Counted
      BY <1>8 DEF LockForWait, Counted
    <2> QED BY <1>8, <2>1 DEF LockForWait, WorkerCount
  <1>9. ASSUME NEW w \in Workers, TestPredicate(w) PROVE AvailableIsIdle'
    <2>1. Counted' = Counted
      BY <1>9 DEF TestPredicate, Counted
    <2> QED BY <1>9, <2>1 DEF TestPredicate, WorkerCount
  <1>10. ASSUME NEW w \in Workers, Sleep(w) PROVE AvailableIsIdle'
    <2>1. Counted' = Counted
      BY <1>10 DEF Sleep, Counted
    <2> QED BY <1>10, <2>1 DEF Sleep, WorkerCount
  <1>11. ASSUME NEW w \in Workers, SpuriousWakeup(w) PROVE AvailableIsIdle'
    <2>1. Counted' = Counted
      BY <1>11 DEF SpuriousWakeup, Counted
    <2> QED BY <1>11, <2>1 DEF SpuriousWakeup, WorkerCount
  <1>12. ASSUME NEW w \in Workers, LeaveLoop(w) PROVE AvailableIsIdle'
    <2>1. Counted' = Counted
      BY <1>12 DEF LeaveLoop, Counted
    <2> QED BY <1>12, <2>1 DEF LeaveLoop, WorkerCount
  <1>13. ASSUME NEW w \in Workers, TakeJob(w) PROVE AvailableIsIdle'
    <2>1. Counted' = Counted
      BY <1>13 DEF TakeJob, Counted
    <2> QED BY <1>13, <2>1 DEF TakeJob, WorkerCount
  <1>14. ASSUME NEW w \in Workers, CountBusy(w) PROVE AvailableIsIdle'
    <2>1. Counted' = Counted \cup {w} /\ w \notin Counted
      BY <1>14 DEF CountBusy, Counted
    <2>2. Cardinality(Counted') = Cardinality(Counted) + 1
      BY <2>1, CountedFinite, FS_AddElement
    <2>3. managerPc # "start"
      BY <1>14 DEF CountBusy
    <2> QED BY <1>14, <2>2, <2>3, CountedFinite, WorkerCountType DEF CountBusy, WorkerCount
  <1>15. ASSUME NEW w \in Workers, FinishJob(w) PROVE AvailableIsIdle'
    <2>1. Counted' = Counted
      BY <1>15 DEF FinishJob, Counted
    <2> QED BY <1>15, <2>1 DEF FinishJob, WorkerCount
  <1>16. ASSUME NEW w \in Workers, CountIdle(w) PROVE AvailableIsIdle'
    <2>1. Counted' = Counted \ {w} /\ w \in Counted
      BY <1>16 DEF CountIdle, Counted
    <2>2. Cardinality(Counted') = Cardinality(Counted) - 1
      BY <2>1, CountedFinite, FS_RemoveElement
    <2>3. managerPc # "start"
      BY <1>16 DEF CountIdle
    <2> QED BY <1>16, <2>2, <2>3, CountedFinite, WorkerCountType DEF CountIdle, WorkerCount
  <1>17. ASSUME BeginDestroy PROVE AvailableIsIdle'
    <2>1. Counted' = Counted
      BY <1>17 DEF BeginDestroy, Counted
    <2> QED BY <1>17, <2>1 DEF BeginDestroy, WorkerCount
  <1>18. ASSUME JoinManager PROVE AvailableIsIdle'
    <2>1. Counted' = Counted
      BY <1>18 DEF JoinManager, Counted
    <2> QED BY <1>18, <2>1 DEF JoinManager, WorkerCount
  <1>19. ASSUME LockForClose PROVE AvailableIsIdle'
    <2>1. Counted' = Counted
      BY <1>19 DEF LockForClose, Counted
    <2> QED BY <1>19, <2>1 DEF LockForClose, WorkerCount
  <1>20. ASSUME CloseAndUnlock PROVE AvailableIsIdle'
    <2>1. Counted' = Counted
      BY <1>20 DEF CloseAndUnlock, Counted
    <2> QED BY <1>20, <2>1 DEF CloseAndUnlock, WorkerCount
  <1>21. ASSUME NotifyClosed PROVE AvailableIsIdle'
    <2>1. Counted' = Counted
      BY <1>21 DEF NotifyClosed, Awakened, Counted
    <2> QED BY <1>21, <2>1 DEF NotifyClosed, Awakened, WorkerCount
  <1>22. ASSUME JoinWorkers PROVE AvailableIsIdle'
    <2>1. Counted' = Counted
      BY <1>22 DEF JoinWorkers, Counted
    <2> QED BY <1>22, <2>1 DEF JoinWorkers, WorkerCount
  <1> QED
    BY <1>1, <1>2, <1>3, <1>4, <1>5, <1>6, <1>7, <1>8, <1>9, <1>10, <1>11, <1>12, <1>13, <1>14, <1>15, <1>16, <1>17, <1>18, <1>19, <1>20, <1>21, <1>22
       DEF Next, Manager, Pusher, Worker, Destroy

(* Who makes the predicate true has yet to notify; who notifies leaves    *)
(* nobody waiting; who falls asleep has just found it false.               *)
LEMMA NoMissedWakeupStep ==
    ASSUME Types, Mutex, Predicate, Phases, JobInOnePlace, NoMissedWakeup, Next
    PROVE  NoMissedWakeup'
  <1> USE DEF Types, Mutex, Predicate, Phases, NoMissedWakeup, Threads
  <1>1. ASSUME SetAvailable PROVE NoMissedWakeup'
    BY <1>1, ThreadsAssumption DEF SetAvailable
  <1>2. ASSUME NEW w \in Workers, SpawnWorker(w) PROVE NoMissedWakeup'
    BY <1>2, ThreadsAssumption DEF SpawnWorker
  <1>3. ASSUME ManagerDone PROVE NoMissedWakeup'
    BY <1>3, ThreadsAssumption DEF ManagerDone
  <1>4. ASSUME NEW p \in Pushers, NEW j \in Jobs, BeginPush(p, j) PROVE NoMissedWakeup'
    BY <1>4, ThreadsAssumption DEF BeginPush
  <1>5. ASSUME NEW p \in Pushers, LockForPush(p) PROVE NoMissedWakeup'
    BY <1>5, ThreadsAssumption DEF LockForPush
  <1>6. ASSUME NEW p \in Pushers, PushAndUnlock(p) PROVE NoMissedWakeup'
    <2>1. pusherPc'[p] = "notify"
      BY <1>6 DEF PushAndUnlock
    <2> QED BY <2>1
  <1>7. ASSUME NEW p \in Pushers, NotifyPushed(p) PROVE NoMissedWakeup'
    BY <1>7, ThreadsAssumption DEF NotifyPushed, Awakened
  <1>8. ASSUME NEW w \in Workers, LockForWait(w) PROVE NoMissedWakeup'
    BY <1>8, ThreadsAssumption DEF LockForWait
  <1>9. ASSUME NEW w \in Workers, TestPredicate(w) PROVE NoMissedWakeup'
    BY <1>9, ThreadsAssumption DEF TestPredicate
  <1>10. ASSUME NEW w \in Workers, Sleep(w) PROVE NoMissedWakeup'
    BY <1>10, ThreadsAssumption DEF Sleep
  <1>11. ASSUME NEW w \in Workers, SpuriousWakeup(w) PROVE NoMissedWakeup'
    BY <1>11, ThreadsAssumption DEF SpuriousWakeup
  <1>12. ASSUME NEW w \in Workers, LeaveLoop(w) PROVE NoMissedWakeup'
    BY <1>12, ThreadsAssumption DEF LeaveLoop
  <1>13. ASSUME NEW w \in Workers, TakeJob(w) PROVE NoMissedWakeup'
    <2>1. m_job_stack # <<>> /\ m_accept_jobs
      BY <1>13 DEF TakeJob
    <2>2. \A v \in Workers : workerPc'[v] = "waiting" => workerPc[v] = "waiting"
      BY <1>13 DEF TakeJob
    <2> QED BY <1>13, <2>1, <2>2 DEF TakeJob
  <1>14. ASSUME NEW w \in Workers, CountBusy(w) PROVE NoMissedWakeup'
    BY <1>14, ThreadsAssumption DEF CountBusy
  <1>15. ASSUME NEW w \in Workers, FinishJob(w) PROVE NoMissedWakeup'
    BY <1>15, ThreadsAssumption DEF FinishJob
  <1>16. ASSUME NEW w \in Workers, CountIdle(w) PROVE NoMissedWakeup'
    BY <1>16, ThreadsAssumption DEF CountIdle
  <1>17. ASSUME BeginDestroy PROVE NoMissedWakeup'
    BY <1>17, ThreadsAssumption DEF BeginDestroy
  <1>18. ASSUME JoinManager PROVE NoMissedWakeup'
    BY <1>18, ThreadsAssumption DEF JoinManager
  <1>19. ASSUME LockForClose PROVE NoMissedWakeup'
    BY <1>19, ThreadsAssumption DEF LockForClose
  <1>20. ASSUME CloseAndUnlock PROVE NoMissedWakeup'
    BY <1>20, ThreadsAssumption DEF CloseAndUnlock
  <1>21. ASSUME NotifyClosed PROVE NoMissedWakeup'
    BY <1>21, ThreadsAssumption DEF NotifyClosed, Awakened
  <1>22. ASSUME JoinWorkers PROVE NoMissedWakeup'
    BY <1>22, ThreadsAssumption DEF JoinWorkers
  <1> QED
    BY <1>1, <1>2, <1>3, <1>4, <1>5, <1>6, <1>7, <1>8, <1>9, <1>10, <1>11, <1>12, <1>13, <1>14, <1>15, <1>16, <1>17, <1>18, <1>19, <1>20, <1>21, <1>22
       DEF Next, Manager, Pusher, Worker, Destroy

------------------------------------------------------------------------------
(* The theorems *)

(* The constructor leaves a state that satisfies the invariant.            *)
LEMMA InitIInv == Init => IInv
  <1> SUFFICES ASSUME Init PROVE IInv
    OBVIOUS
  <1> USE ThreadsAssumption DEF Init
  <1>1. OnStack = {}
    BY DEF OnStack
  <1>2. Types /\ Mutex /\ Predicate /\ Phases /\ Holding
    BY DEF Types, Mutex, Predicate, Phases, Holding, Threads
  <1>3. PushedJobIsNew /\ JobInOnePlace
    BY <1>1 DEF PushedJobIsNew, JobInOnePlace, NoneLost, NoneTwice, InHand
  <1>4. AvailableIsIdle /\ NoMissedWakeup
    BY DEF AvailableIsIdle, NoMissedWakeup
  <1> QED BY <1>2, <1>3, <1>4 DEF IInv

(* Every step, and every stuttering step, preserves it.                    *)
LEMMA NextIInv == IInv /\ [Next]_vars => IInv'
  <1> SUFFICES ASSUME IInv, [Next]_vars PROVE IInv'
    OBVIOUS
  <1>1. CASE Next
    BY <1>1, TypesStep, MutexStep, PredicateStep, PhasesStep, HoldingStep,
       PushedJobIsNewStep, NoneTwiceStep, NoneLostStep, AvailableStep, NoMissedWakeupStep
       DEF IInv, JobInOnePlace
  <1>2. CASE UNCHANGED vars
    <2> USE <1>2 DEF IInv, vars
    <2>1. Types' /\ Mutex' /\ Predicate' /\ Phases' /\ Holding'
      BY DEF Types, Mutex, Predicate, Phases, Holding, Threads
    <2>2. PushedJobIsNew' /\ JobInOnePlace'
      BY DEF PushedJobIsNew, JobInOnePlace, NoneLost, NoneTwice, InHand, OnStack
    <2>3. AvailableIsIdle' /\ NoMissedWakeup'
      BY DEF AvailableIsIdle, NoMissedWakeup, Counted, WorkerCount
    <2> QED BY <2>1, <2>2, <2>3
  <1> QED BY <1>1, <1>2

(* IInv is an invariant of the thread pool.                                *)
THEOREM Invariance == Spec => []IInv
  BY InitIInv, NextIInv, PTL DEF Spec

(* Every variable keeps its type; in particular the counter of available   *)
(* threads, which the workers update outside the mutex, stays between zero *)
(* and the number of threads: it never wraps.                              *)
THEOREM TypeCorrect == Spec => []TypeOK
  <1>1. IInv => TypeOK
    <2> SUFFICES ASSUME IInv PROVE TypeOK
      OBVIOUS
    <2>1. m_available_thread_count \in 0..WorkerCount
      <3>1. CASE managerPc # "start"
        BY <3>1, CountedFinite, WorkerCountType DEF IInv, AvailableIsIdle
      <3>2. CASE managerPc = "start"
        BY <3>2, WorkerCountType DEF IInv, Phases
      <3> QED BY <3>1, <3>2
    <2> QED BY <2>1 DEF IInv, Types, TypeOK
  <1> QED BY <1>1, Invariance, PTL

(* No worker sleeps while there is work or the pool is closed, unless the  *)
(* notify_all that wakes it is still to come.                              *)
THEOREM WakeupsNotMissed == Spec => []NoMissedWakeup
  <1>1. IInv => NoMissedWakeup
    BY DEF IInv
  <1> QED BY <1>1, Invariance, PTL

(* Each job push() was given is in one of a job's places, and from when it *)
(* is on the stack in only one: none is lost, none executed twice.         *)
THEOREM JobsConserved == Spec => []JobInOnePlace
  <1>1. IInv => JobInOnePlace
    BY DEF IInv
  <1> QED BY <1>1, Invariance, PTL

(* The counter of available threads is exact.                              *)
THEOREM AvailableCounted == Spec => []AvailableIsIdle
  <1>1. IInv => AvailableIsIdle
    BY DEF IInv
  <1> QED BY <1>1, Invariance, PTL

(* After destroy() no thread of the pool is left.                          *)
THEOREM DestroyQuiesces == Spec => []DestroyedIsQuiet
  <1>1. IInv => DestroyedIsQuiet
    BY DEF IInv, Phases, Holding, Types, DestroyedIsQuiet
  <1> QED BY <1>1, Invariance, PTL

(* A closed pool gives no worker a job.                                    *)
THEOREM ClosedPoolIdles == Spec => NoJobTakenOnceClosed
  <1>1. IInv /\ [Next]_vars =>
          [~m_accept_jobs => \A w \in Workers : job'[w] \in {job[w], None}]_vars
    <2> SUFFICES ASSUME IInv, Next, ~m_accept_jobs, NEW v \in Workers
                 PROVE  job'[v] \in {job[v], None}
      OBVIOUS
    <2>1. ASSUME NEW w \in Workers, TakeJob(w) PROVE FALSE
      BY <2>1 DEF TakeJob
    <2>2. ASSUME NEW w \in Workers, FinishJob(w) PROVE job'[v] \in {job[v], None}
      BY <2>2 DEF FinishJob, IInv, Types
    <2>3. ASSUME \A w \in Workers : ~TakeJob(w) /\ ~FinishJob(w)
          PROVE  job' = job
      BY <2>3 DEF Next, Manager, Pusher, Worker, Destroy, SetAvailable,
         SpawnWorker, ManagerDone, BeginPush, LockForPush, PushAndUnlock,
         NotifyPushed, LockForWait, TestPredicate, Sleep, SpuriousWakeup,
         LeaveLoop, CountBusy, CountIdle, BeginDestroy, JoinManager,
         LockForClose, CloseAndUnlock, NotifyClosed, JoinWorkers
    <2> QED BY <2>1, <2>2, <2>3
  <1> QED BY <1>1, Invariance, PTL DEF Spec, NoJobTakenOnceClosed

------------------------------------------------------------------------------
(* The thread pool implements the abstract job pool *)

(* Every step of the pool is a step of the abstract pool or changes nothing *)
(* of it.                                                                   *)
LEMMA StepSimulation ==
    ASSUME IInv, Next
    PROVE  [Abstract!Next]_(Abstract!jobVars)
  <1>1. ASSUME SetAvailable PROVE [Abstract!Next]_(Abstract!jobVars)
    BY <1>1 DEF SetAvailable, Abstract!jobVars, OnStack
  <1>2. ASSUME NEW w \in Workers, SpawnWorker(w) PROVE [Abstract!Next]_(Abstract!jobVars)
    BY <1>2 DEF SpawnWorker, Abstract!jobVars, OnStack
  <1>3. ASSUME ManagerDone PROVE [Abstract!Next]_(Abstract!jobVars)
    BY <1>3 DEF ManagerDone, Abstract!jobVars, OnStack
  <1>4. ASSUME NEW p \in Pushers, NEW j \in Jobs, BeginPush(p, j) PROVE [Abstract!Next]_(Abstract!jobVars)
    BY <1>4 DEF BeginPush, Abstract!jobVars, OnStack
  <1>5. ASSUME NEW p \in Pushers, LockForPush(p) PROVE [Abstract!Next]_(Abstract!jobVars)
    BY <1>5 DEF LockForPush, Abstract!jobVars, OnStack
  <1>6. ASSUME NEW p \in Pushers, PushAndUnlock(p) PROVE [Abstract!Next]_(Abstract!jobVars)
    <2>1. PICK j \in Jobs : j = func[p]
      BY <1>6, PushStep DEF IInv, JobInOnePlace
    <2>2. /\ j \notin OnStack \cup finishedJobs
          /\ \A w \in Workers : job[w] # j
          /\ OnStack' = OnStack \cup {j}
      BY <1>6, <2>1, PushStep, ThreadsAssumption DEF IInv, JobInOnePlace, PushedJobIsNew
    <2>3. Abstract!Submit(j)
      BY <1>6, <2>2 DEF PushAndUnlock, Abstract!Submit, Abstract!Executing
    <2> QED BY <2>3 DEF Abstract!Next
  <1>7. ASSUME NEW p \in Pushers, NotifyPushed(p) PROVE [Abstract!Next]_(Abstract!jobVars)
    BY <1>7 DEF NotifyPushed, Abstract!jobVars, OnStack
  <1>8. ASSUME NEW w \in Workers, LockForWait(w) PROVE [Abstract!Next]_(Abstract!jobVars)
    BY <1>8 DEF LockForWait, Abstract!jobVars, OnStack
  <1>9. ASSUME NEW w \in Workers, TestPredicate(w) PROVE [Abstract!Next]_(Abstract!jobVars)
    BY <1>9 DEF TestPredicate, Abstract!jobVars, OnStack
  <1>10. ASSUME NEW w \in Workers, Sleep(w) PROVE [Abstract!Next]_(Abstract!jobVars)
    BY <1>10 DEF Sleep, Abstract!jobVars, OnStack
  <1>11. ASSUME NEW w \in Workers, SpuriousWakeup(w) PROVE [Abstract!Next]_(Abstract!jobVars)
    BY <1>11 DEF SpuriousWakeup, Abstract!jobVars, OnStack
  <1>12. ASSUME NEW w \in Workers, LeaveLoop(w) PROVE [Abstract!Next]_(Abstract!jobVars)
    BY <1>12 DEF LeaveLoop, Abstract!jobVars, OnStack
  <1>13. ASSUME NEW w \in Workers, TakeJob(w) PROVE [Abstract!Next]_(Abstract!jobVars)
    <2>1. PICK j \in Jobs : j = job'[w]
      BY <1>13, TakeStep DEF IInv, JobInOnePlace
    <2>2. j \in OnStack /\ OnStack' = OnStack \ {j}
      BY <1>13, <2>1, TakeStep DEF IInv, JobInOnePlace
    <2>3. job[w] = None /\ job' = [job EXCEPT ![w] = j]
      BY <1>13, <2>1 DEF TakeJob, IInv, Types, Holding
    <2>4. Abstract!Start(w, j)
      BY <1>13, <2>2, <2>3 DEF TakeJob, Abstract!Start
    <2> QED BY <2>4 DEF Abstract!Next
  <1>14. ASSUME NEW w \in Workers, CountBusy(w) PROVE [Abstract!Next]_(Abstract!jobVars)
    BY <1>14 DEF CountBusy, Abstract!jobVars, OnStack
  <1>15. ASSUME NEW w \in Workers, FinishJob(w) PROVE [Abstract!Next]_(Abstract!jobVars)
    <2>1. job[w] # None
      BY <1>15 DEF FinishJob, IInv, Types, Holding
    <2>2. Abstract!Finish(w)
      BY <1>15, <2>1 DEF FinishJob, Abstract!Finish, OnStack
    <2> QED BY <2>2 DEF Abstract!Next
  <1>16. ASSUME NEW w \in Workers, CountIdle(w) PROVE [Abstract!Next]_(Abstract!jobVars)
    BY <1>16 DEF CountIdle, Abstract!jobVars, OnStack
  <1>17. ASSUME BeginDestroy PROVE [Abstract!Next]_(Abstract!jobVars)
    BY <1>17 DEF BeginDestroy, Abstract!jobVars, OnStack
  <1>18. ASSUME JoinManager PROVE [Abstract!Next]_(Abstract!jobVars)
    BY <1>18 DEF JoinManager, Abstract!jobVars, OnStack
  <1>19. ASSUME LockForClose PROVE [Abstract!Next]_(Abstract!jobVars)
    BY <1>19 DEF LockForClose, Abstract!jobVars, OnStack
  <1>20. ASSUME CloseAndUnlock PROVE [Abstract!Next]_(Abstract!jobVars)
    <2>1. m_accept_jobs
      BY <1>20 DEF CloseAndUnlock, IInv, Phases
    <2>2. Abstract!Close
      BY <1>20, <2>1 DEF CloseAndUnlock, Abstract!Close, OnStack
    <2> QED BY <2>2 DEF Abstract!Next
  <1>21. ASSUME NotifyClosed PROVE [Abstract!Next]_(Abstract!jobVars)
    BY <1>21 DEF NotifyClosed, Abstract!jobVars, OnStack
  <1>22. ASSUME JoinWorkers PROVE [Abstract!Next]_(Abstract!jobVars)
    <2>1. ~m_accept_jobs
      BY <1>22 DEF JoinWorkers, IInv, Phases
    <2>2. \A w \in Workers : job[w] = None
      BY <1>22 DEF JoinWorkers, IInv, Holding
    <2>3. Abstract!Stop
      BY <1>22, <2>1, <2>2 DEF JoinWorkers, Abstract!Stop, Abstract!Executing, OnStack
    <2> QED BY <2>3 DEF Abstract!Next
  <1> QED
    BY <1>1, <1>2, <1>3, <1>4, <1>5, <1>6, <1>7, <1>8, <1>9, <1>10, <1>11, <1>12, <1>13, <1>14, <1>15, <1>16, <1>17, <1>18, <1>19, <1>20, <1>21, <1>22
       DEF Next, Manager, Pusher, Worker, Destroy

(* With its mutex, its condition variable and its threads, thread_pool      *)
(* keeps the contract of the abstract job pool: a job runs at most once, a  *)
(* thread executes one job at a time, none starts after the pool is closed  *)
(* and none runs when destroy() has returned.                               *)
THEOREM Implementation == Spec => ImplementsJobPool
  <1>1. Init => Abstract!Init
    BY DEF Init, Abstract!Init, OnStack
  <1>2. IInv /\ [Next]_vars => [Abstract!Next]_(Abstract!jobVars)
    <2> SUFFICES ASSUME IInv, [Next]_vars PROVE [Abstract!Next]_(Abstract!jobVars)
      OBVIOUS
    <2>1. CASE UNCHANGED vars
      BY <2>1 DEF vars, Abstract!jobVars, OnStack
    <2> QED BY <2>1, StepSimulation
  <1> QED BY <1>1, <1>2, Invariance, PTL DEF Spec, ImplementsJobPool, Abstract!Spec
------------------------------------------------------------------------------
(* No deadlock *)

(* The guards of what a thread does of itself, without being woken for no  *)
(* reason, without a new push and without destroy being called.            *)
ManagerCanStep == managerPc # "done"

PusherCanStep(p) ==
    \/ pusherPc[p] = "lock" /\ m_lock = None
    \/ pusherPc[p] \in {"push", "notify"}

WorkerCanStep(w) ==
    \/ workerPc[w] = "lock" /\ m_lock = None
    \/ workerPc[w] \in {"test", "sleep", "take", "claimed", "executing", "executed"}

DestroyCanStep ==
    \/ mainPc = "join_manager" /\ managerPc = "done"
    \/ mainPc = "lock" /\ m_lock = None
    \/ mainPc \in {"close", "notify"}
    \/ mainPc = "join_workers" /\ \A w \in Workers : workerPc[w] \in {"unborn", "exited"}

CanStep ==
    \/ ManagerCanStep
    \/ \E p \in Pushers : PusherCanStep(p)
    \/ \E w \in Workers : WorkerCanStep(w)
    \/ DestroyCanStep

(* While destroy is under way, or while an open pool that has workers has  *)
(* jobs on its stack, not every thread waits for another one.              *)
NeverStuck ==
    \/ mainPc \notin {"running", "destroyed"}
    \/ m_accept_jobs /\ m_job_stack # <<>> /\ Workers # {}
    => CanStep

(* A thread that holds the mutex can always go on.                         *)
LEMMA HolderCanStep ==
    ASSUME Types, Mutex, m_lock # None
    PROVE  CanStep
  <1> USE DEF Mutex, CanStep
  <1>1. m_lock \in Workers \cup Pushers \cup {Main}
    BY DEF Types, Threads
  <1>2. CASE m_lock \in Workers
    BY <1>2 DEF WorkerCanStep
  <1>3. CASE m_lock \in Pushers
    BY <1>3 DEF PusherCanStep
  <1>4. CASE m_lock = Main
    BY <1>4 DEF DestroyCanStep
  <1> QED BY <1>1, <1>2, <1>3, <1>4

(* A worker that waits although its predicate is true is about to be woken. *)
LEMMA NotifierCanStep ==
    ASSUME NoMissedWakeup, NEW w \in Workers, workerPc[w] = "waiting",
           m_job_stack # <<>> \/ ~m_accept_jobs
    PROVE  CanStep
  BY DEF NoMissedWakeup, CanStep, PusherCanStep, DestroyCanStep

(* With the mutex free, only a worker that sleeps or has exited cannot go on. *)
LEMMA WorkerOrAsleep ==
    ASSUME Types, Phases, managerPc = "done", m_lock = None, ~CanStep,
           NEW w \in Workers
    PROVE  workerPc[w] \in {"waiting", "exited"}
  BY DEF Types, Phases, CanStep, WorkerCanStep

LEMMA IInvNeverStuck == IInv => NeverStuck
  <1> SUFFICES ASSUME IInv, ~CanStep,
                      \/ mainPc \notin {"running", "destroyed"}
                      \/ m_accept_jobs /\ m_job_stack # <<>> /\ Workers # {}
               PROVE  FALSE
    BY DEF NeverStuck
  <1> USE DEF IInv
  <1>1. m_lock = None
    BY HolderCanStep
  <1>2. managerPc = "done"
    BY DEF CanStep, ManagerCanStep
  <1>3. CASE mainPc \notin {"running", "destroyed"}
    <2>1. mainPc = "join_workers"
      BY <1>1, <1>2, <1>3 DEF Types, CanStep, DestroyCanStep
    <2>2. ~m_accept_jobs
      BY <2>1 DEF Phases
    <2>3. PICK w \in Workers : workerPc[w] \notin {"unborn", "exited"}
      BY <2>1 DEF CanStep, DestroyCanStep
    <2>4. workerPc[w] = "waiting"
      BY <1>1, <1>2, <2>3, WorkerOrAsleep
    <2> QED BY <2>2, <2>4, NotifierCanStep
  <1>4. CASE m_accept_jobs /\ m_job_stack # <<>> /\ Workers # {}
    <2>1. PICK w \in Workers : TRUE
      BY <1>4
    <2>2. CASE workerPc[w] = "waiting"
      BY <1>4, <2>2, NotifierCanStep
    <2>3. CASE workerPc[w] # "waiting"
      <3>1. workerPc[w] = "exited"
        BY <1>1, <1>2, <2>3, WorkerOrAsleep
      <3> QED BY <1>4, <3>1 DEF Phases
    <2> QED BY <2>2, <2>3
  <1> QED BY <1>3, <1>4

(* The pool does not deadlock: neither while destroy() waits for the        *)
(* threads, nor while jobs are queued.                                      *)
THEOREM NoDeadlock == Spec => []NeverStuck
  BY IInvNeverStuck, Invariance, PTL
==============================================================================
