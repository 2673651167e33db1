------------------------- MODULE ScriptFibersProofs -------------------------
(***************************************************************************)
(* Proofs about ScriptFibers, for any scripts in any order, any jobs, and   *)
(* any times for which jobs sleep.  IInv is the inductive invariant: the    *)
(* types, who holds the manager's mutex where, whose identity the script    *)
(* thread has where, and where jobs are.                                   *)
(***************************************************************************)
EXTENDS ScriptFibers, TLAPS

(* The game thread has the mutex exactly in the loop over the scripts; the  *)
(* main thread's critical section is one step.                             *)
Mutex ==
    /\ m_mutex = GameThread <=> gamePc = "iterate"
    /\ m_mutex \in {GameThread, None}
    /\ m_scripts # Order => mainPc = "removed"
    /\ mainPc = "removed" => m_scripts = <<>>

(* What execute_as_script has stored, and what it has put in its place:    *)
(* afterwards the game has its script again, and that it is active is      *)
(* concluded from it, unless the game has said something else since.       *)
Identity ==
    /\ gamePc \in {"lock", "iterate"} =>
         m_script_thread = "main_persistent" /\ m_is_script_thread_active = TRUE
    /\ gamePc # "game" => og_thread = gameScript
    /\ gamePc = "game" =>
         /\ m_script_thread = gameScript
         /\ \/ m_is_script_thread_active = gameActive
            \/ m_is_script_thread_active = (gameScript # None)

(* A fiber has a job exactly when it is inside one.                        *)
Holding == \A f \in Fibers : fiberJob[f] # None <=> fiberPc[f] = "job"

(* A job is on the stack once, or on one fiber, or finished.               *)
JobInOnePlace ==
    /\ \A i, k \in DOMAIN m_jobs : m_jobs[i] = m_jobs[k] => i = k
    /\ \A f \in Fibers : fiberJob[f] \notin Elements(m_jobs)

IInv ==
    /\ TypeOK
    /\ Mutex
    /\ RunningScriptExists
    /\ Identity
    /\ Holding
    /\ JobInOnePlace
------------------------------------------------------------------------------
(* The scripts and the stack *)

(* There are scripts, those of the pool, so that their removal is seen.    *)
LEMMA OrderElements ==
    /\ Order # <<>>
    /\ Len(Order) \in Nat
    /\ \A i \in 1..Len(Order) : Order[i] \in Scripts
    /\ DOMAIN Order = 1..Len(Order)
  BY ScriptsAssumption DEF Scripts

(* Queueing adds the queued job to m_jobs and nothing else.                *)
LEMMA PushElements ==
    ASSUME NEW S, NEW s \in Seq(S), NEW x \in S
    PROVE  /\ Append(s, x) \in Seq(S)
           /\ Append(s, x) # <<>>
           /\ {Append(s, x)[i] : i \in DOMAIN Append(s, x)} =
                {s[i] : i \in DOMAIN s} \cup {x}
  <1> DEFINE t == Append(s, x)
  <1>1. /\ t \in Seq(S) /\ t # <<>>
        /\ DOMAIN t = DOMAIN s \cup {Len(s) + 1}
        /\ \A i \in DOMAIN s : t[i] = s[i]
        /\ t[Len(s) + 1] = x
    OBVIOUS
  <1> HIDE DEF t
  <1>2. {t[i] : i \in DOMAIN t} = {s[i] : i \in DOMAIN s} \cup {x}
    BY <1>1
  <1> QED
    BY <1>1, <1>2 DEF t

(* Taking the top job of m_jobs, which holds each job once, takes that job *)
(* away and nothing else.                                                  *)
LEMMA PopElements ==
    ASSUME NEW S, NEW s \in Seq(S), s # <<>>,
           \A i, k \in DOMAIN s : s[i] = s[k] => i = k
    PROVE  /\ SubSeq(s, 1, Len(s) - 1) \in Seq(S)
           /\ s[Len(s)] \in S
           /\ s[Len(s)] \in {s[i] : i \in DOMAIN s}
           /\ {SubSeq(s, 1, Len(s) - 1)[i] : i \in DOMAIN SubSeq(s, 1, Len(s) - 1)} =
                {s[i] : i \in DOMAIN s} \ {s[Len(s)]}
           /\ \A i, k \in DOMAIN SubSeq(s, 1, Len(s) - 1) :
                SubSeq(s, 1, Len(s) - 1)[i] = SubSeq(s, 1, Len(s) - 1)[k] => i = k
  <1> DEFINE t == SubSeq(s, 1, Len(s) - 1)
  <1>1. /\ t \in Seq(S) /\ s[Len(s)] \in S
        /\ Len(s) \in DOMAIN s
        /\ DOMAIN t = DOMAIN s \ {Len(s)}
        /\ \A i \in DOMAIN t : t[i] = s[i]
    OBVIOUS
  <1> HIDE DEF t
  <1>2. {t[i] : i \in DOMAIN t} = {s[i] : i \in DOMAIN s} \ {s[Len(s)]}
    BY <1>1
  <1> QED
    BY <1>1, <1>2 DEF t

(* fiber_tick takes the job on top of the stack, and only it.              *)
LEMMA TakeStep ==
    ASSUME TypeOK, JobInOnePlace, NEW f \in Fibers, TakeJob(f)
    PROVE  /\ m_jobs' \in Seq(Jobs)
           /\ fiberJob'[f] \in Jobs
           /\ fiberJob'[f] \in Elements(m_jobs)
           /\ fiberJob' = [fiberJob EXCEPT ![f] = fiberJob'[f]]
           /\ Elements(m_jobs') = Elements(m_jobs) \ {fiberJob'[f]}
           /\ \A i, k \in DOMAIN m_jobs' : m_jobs'[i] = m_jobs'[k] => i = k
  <1>1. m_jobs \in Seq(Jobs) /\ m_jobs # <<>>
    BY DEF TakeJob, TypeOK
  <1>2. \A i, k \in DOMAIN m_jobs : m_jobs[i] = m_jobs[k] => i = k
    BY DEF JobInOnePlace
  <1>3. fiberJob'[f] = m_jobs[Len(m_jobs)] /\ m_jobs' = SubSeq(m_jobs, 1, Len(m_jobs) - 1)
    BY DEF TakeJob, TypeOK
  <1>4. fiberJob' = [fiberJob EXCEPT ![f] = fiberJob'[f]]
    BY <1>3 DEF TakeJob
  <1> DEFINE t == SubSeq(m_jobs, 1, Len(m_jobs) - 1)
  <1>5. /\ t \in Seq(Jobs)
        /\ m_jobs[Len(m_jobs)] \in Jobs
        /\ m_jobs[Len(m_jobs)] \in {m_jobs[i] : i \in DOMAIN m_jobs}
        /\ {t[i] : i \in DOMAIN t} =
             {m_jobs[i] : i \in DOMAIN m_jobs} \ {m_jobs[Len(m_jobs)]}
        /\ \A i, k \in DOMAIN t : t[i] = t[k] => i = k
    BY <1>1, <1>2, PopElements
  <1> HIDE DEF t
  <1>6. m_jobs' = t
    BY <1>3 DEF t
  <1>7. Elements(m_jobs') = {t[i] : i \in DOMAIN t}
    BY <1>6 DEF Elements
  <1>8. Elements(m_jobs) = {m_jobs[i] : i \in DOMAIN m_jobs}
    BY DEF Elements
  <1> QED BY <1>3, <1>4, <1>5, <1>6, <1>7, <1>8

(* queue_job puts one job on the stack.                                    *)
LEMMA QueueStep ==
    ASSUME TypeOK, NEW j \in Jobs, QueueJob(j)
    PROVE  /\ m_jobs' \in Seq(Jobs)
           /\ Elements(m_jobs') = Elements(m_jobs) \cup {j}
           /\ Len(m_jobs) \in Nat
           /\ Len(m_jobs') = Len(m_jobs) + 1
           /\ m_jobs'[Len(m_jobs) + 1] = j
           /\ \A i \in 1..Len(m_jobs) : m_jobs'[i] = m_jobs[i]
  <1>1. m_jobs \in Seq(Jobs) /\ m_jobs' = Append(m_jobs, j)
    BY DEF TypeOK, QueueJob
  <1>2. Elements(m_jobs') = Elements(m_jobs) \cup {j}
    BY <1>1, PushElements DEF Elements
  <1> QED BY <1>1, <1>2
------------------------------------------------------------------------------
(* Every step preserves every part of the invariant *)

(* The types.                                                              *)
LEMMA TypesStep ==
    ASSUME TypeOK, Holding, JobInOnePlace, Next
    PROVE  TypeOK'
  <1> USE DEF TypeOK, Scripts, hookVars, tlsVars, gameVars, jobVars
  <1>1. ASSUME NEW t \in GameScripts \cup {None}, NEW active \in BOOLEAN, GameRunsScripts(t, active) PROVE TypeOK'
    BY <1>1 DEF GameRunsScripts
  <1>2. ASSUME BorrowMainPersistent PROVE TypeOK'
    BY <1>2, ScriptsAssumption, OrderElements DEF BorrowMainPersistent, GameScripts
  <1>3. ASSUME LockScripts PROVE TypeOK'
    BY <1>3, OrderElements DEF LockScripts
  <1>4. ASSUME TickScript PROVE TypeOK'
    BY <1>4, OrderElements DEF TickScript
  <1>5. ASSUME UnlockScripts PROVE TypeOK'
    BY <1>5 DEF UnlockScripts
  <1>6. ASSUME RestoreScriptThread PROVE TypeOK'
    BY <1>6 DEF RestoreScriptThread
  <1>7. ASSUME NEW s \in Services, ServiceTicks(s) PROVE TypeOK'
    BY <1>7, ScriptsAssumption DEF ServiceTicks, YieldFor
  <1>8. ASSUME NEW f \in Fibers, TakeJob(f) PROVE TypeOK'
    <2>1. fiberJob' \in [Fibers -> Jobs \cup {None}]
      BY <1>8, TakeStep
    <2>2. m_jobs' \in Seq(Jobs)
      BY <1>8, TakeStep
    <2> QED BY <1>8, <2>1, <2>2 DEF TakeJob
  <1>9. ASSUME NEW f \in Fibers, NoJob(f) PROVE TypeOK'
    BY <1>9 DEF NoJob
  <1>10. ASSUME NEW f \in Fibers, JobReturns(f) PROVE TypeOK'
    BY <1>10, ScriptsAssumption DEF JobReturns, Holding
  <1>11. ASSUME NEW f \in Fibers, FiberYields(f) PROVE TypeOK'
    BY <1>11, ScriptsAssumption DEF FiberYields, YieldFor
  <1>12. ASSUME NEW f \in Fibers, NEW time \in 0..MaxSleep, JobYields(f, time) PROVE TypeOK'
    <2>1. fiberJob[f] \in Jobs
      BY <1>12, ScriptsAssumption DEF JobYields, Holding
    <2>2. yieldsLeft' \in [Jobs -> 0..Yields]
      <3>1. CASE yieldsLeft' = yieldsLeft
        BY <3>1
      <3>2. CASE yieldsLeft[fiberJob[f]] > 0 /\ yieldsLeft' = [yieldsLeft EXCEPT ![fiberJob[f]] = @ - 1]
        <4>1. yieldsLeft[fiberJob[f]] - 1 \in 0..Yields
          BY <2>1, <3>2, ScriptsAssumption
        <4>2. yieldsLeft \in [Jobs -> 0..Yields]
          OBVIOUS
        <4> HIDE DEF TypeOK
        <4> QED BY <2>1, <3>2, <4>1, <4>2
      <3>3. \/ yieldsLeft' = yieldsLeft
            \/ yieldsLeft[fiberJob[f]] > 0 /\ yieldsLeft' = [yieldsLeft EXCEPT ![fiberJob[f]] = @ - 1]
        BY <1>12 DEF JobYields
      <3> QED BY <3>1, <3>2, <3>3
    <2>3. sleeping' \in [Scripts -> 0..MaxSleep]
      BY <1>12 DEF JobYields, YieldFor
    <2> QED BY <1>12, <2>2, <2>3 DEF JobYields, YieldFor
  <1>13. ASSUME TimePasses PROVE TypeOK'
    BY <1>13, ScriptsAssumption DEF TimePasses
  <1>14. ASSUME NEW j \in Jobs, QueueJob(j) PROVE TypeOK'
    BY <1>14, QueueStep DEF QueueJob
  <1>15. ASSUME AskToUnload PROVE TypeOK'
    <2>1. g_running' \in BOOLEAN
      BY <1>15 DEF AskToUnload
    <2>2. UNCHANGED <<m_scripts, m_mutex, control, hookVars, fiberPc, sleeping, jobVars, hooked, mainPc>>
      BY <1>15 DEF AskToUnload
    <2> QED BY <2>1, <2>2
  <1>16. ASSUME DisableHook PROVE TypeOK'
    BY <1>16 DEF DisableHook
  <1>17. ASSUME RemoveAllScripts PROVE TypeOK'
    BY <1>17 DEF RemoveAllScripts
  <1> QED
    BY <1>1, <1>2, <1>3, <1>4, <1>5, <1>6, <1>7, <1>8, <1>9, <1>10, <1>11, <1>12,
       <1>13, <1>14, <1>15, <1>16, <1>17 DEF Next, Tick, Fiber

(* The mutex.                                                              *)
LEMMA MutexStep ==
    ASSUME TypeOK, Mutex, Next
    PROVE  Mutex'
  <1> USE DEF Mutex, hookVars, tlsVars, gameVars
  <1>1. ASSUME NEW t \in GameScripts \cup {None}, NEW active \in BOOLEAN, GameRunsScripts(t, active) PROVE Mutex'
    BY <1>1, ScriptsAssumption DEF GameRunsScripts
  <1>2. ASSUME BorrowMainPersistent PROVE Mutex'
    BY <1>2, ScriptsAssumption DEF BorrowMainPersistent
  <1>3. ASSUME LockScripts PROVE Mutex'
    BY <1>3, ScriptsAssumption DEF LockScripts
  <1>4. ASSUME TickScript PROVE Mutex'
    BY <1>4, ScriptsAssumption DEF TickScript
  <1>5. ASSUME UnlockScripts PROVE Mutex'
    BY <1>5, ScriptsAssumption DEF UnlockScripts
  <1>6. ASSUME RestoreScriptThread PROVE Mutex'
    BY <1>6, ScriptsAssumption DEF RestoreScriptThread
  <1>7. ASSUME NEW s \in Services, ServiceTicks(s) PROVE Mutex'
    BY <1>7, ScriptsAssumption DEF ServiceTicks, YieldFor
  <1>8. ASSUME NEW f \in Fibers, TakeJob(f) PROVE Mutex'
    BY <1>8, ScriptsAssumption DEF TakeJob
  <1>9. ASSUME NEW f \in Fibers, NoJob(f) PROVE Mutex'
    BY <1>9, ScriptsAssumption DEF NoJob
  <1>10. ASSUME NEW f \in Fibers, JobReturns(f) PROVE Mutex'
    BY <1>10, ScriptsAssumption DEF JobReturns
  <1>11. ASSUME NEW f \in Fibers, FiberYields(f) PROVE Mutex'
    BY <1>11, ScriptsAssumption DEF FiberYields, YieldFor
  <1>12. ASSUME NEW f \in Fibers, NEW time \in 0..MaxSleep, JobYields(f, time) PROVE Mutex'
    BY <1>12, ScriptsAssumption DEF JobYields, YieldFor
  <1>13. ASSUME TimePasses PROVE Mutex'
    BY <1>13, ScriptsAssumption DEF TimePasses
  <1>14. ASSUME NEW j \in Jobs, QueueJob(j) PROVE Mutex'
    BY <1>14, ScriptsAssumption DEF QueueJob
  <1>15. ASSUME AskToUnload PROVE Mutex'
    BY <1>15, ScriptsAssumption DEF AskToUnload
  <1>16. ASSUME DisableHook PROVE Mutex'
    BY <1>16, ScriptsAssumption DEF DisableHook
  <1>17. ASSUME RemoveAllScripts PROVE Mutex'
    BY <1>17, ScriptsAssumption DEF RemoveAllScripts
  <1> QED
    BY <1>1, <1>2, <1>3, <1>4, <1>5, <1>6, <1>7, <1>8, <1>9, <1>10, <1>11, <1>12,
       <1>13, <1>14, <1>15, <1>16, <1>17 DEF Next, Tick, Fiber

(* The fiber that has control.                                             *)
LEMMA RunningStep ==
    ASSUME TypeOK, Mutex, RunningScriptExists, Next
    PROVE  RunningScriptExists'
  <1> USE DEF Mutex, RunningScriptExists, hookVars, tlsVars, gameVars
  <1>1. ASSUME NEW t \in GameScripts \cup {None}, NEW active \in BOOLEAN, GameRunsScripts(t, active) PROVE RunningScriptExists'
    BY <1>1, ScriptsAssumption DEF GameRunsScripts
  <1>2. ASSUME BorrowMainPersistent PROVE RunningScriptExists'
    BY <1>2, ScriptsAssumption DEF BorrowMainPersistent
  <1>3. ASSUME LockScripts PROVE RunningScriptExists'
    BY <1>3, ScriptsAssumption DEF LockScripts
  <1>4. ASSUME TickScript PROVE RunningScriptExists'
    <2>1. m_scripts = Order /\ next \in 1..Len(m_scripts)
      BY <1>4, OrderElements DEF TickScript, TypeOK
    <2>2. m_scripts[next] \in Elements(m_scripts)
      BY <2>1, OrderElements DEF Elements
    <2> QED BY <1>4, <2>2, ScriptsAssumption DEF TickScript, Elements
  <1>5. ASSUME UnlockScripts PROVE RunningScriptExists'
    BY <1>5, ScriptsAssumption DEF UnlockScripts
  <1>6. ASSUME RestoreScriptThread PROVE RunningScriptExists'
    BY <1>6, ScriptsAssumption DEF RestoreScriptThread
  <1>7. ASSUME NEW s \in Services, ServiceTicks(s) PROVE RunningScriptExists'
    BY <1>7, ScriptsAssumption DEF ServiceTicks, YieldFor
  <1>8. ASSUME NEW f \in Fibers, TakeJob(f) PROVE RunningScriptExists'
    BY <1>8, ScriptsAssumption DEF TakeJob
  <1>9. ASSUME NEW f \in Fibers, NoJob(f) PROVE RunningScriptExists'
    BY <1>9, ScriptsAssumption DEF NoJob
  <1>10. ASSUME NEW f \in Fibers, JobReturns(f) PROVE RunningScriptExists'
    BY <1>10, ScriptsAssumption DEF JobReturns
  <1>11. ASSUME NEW f \in Fibers, FiberYields(f) PROVE RunningScriptExists'
    BY <1>11, ScriptsAssumption DEF FiberYields, YieldFor
  <1>12. ASSUME NEW f \in Fibers, NEW time \in 0..MaxSleep, JobYields(f, time) PROVE RunningScriptExists'
    BY <1>12, ScriptsAssumption DEF JobYields, YieldFor
  <1>13. ASSUME TimePasses PROVE RunningScriptExists'
    BY <1>13, ScriptsAssumption DEF TimePasses
  <1>14. ASSUME NEW j \in Jobs, QueueJob(j) PROVE RunningScriptExists'
    BY <1>14, ScriptsAssumption DEF QueueJob
  <1>15. ASSUME AskToUnload PROVE RunningScriptExists'
    BY <1>15, ScriptsAssumption DEF AskToUnload
  <1>16. ASSUME DisableHook PROVE RunningScriptExists'
    BY <1>16, ScriptsAssumption DEF DisableHook
  <1>17. ASSUME RemoveAllScripts PROVE RunningScriptExists'
    BY <1>17, ScriptsAssumption DEF RemoveAllScripts
  <1> QED
    BY <1>1, <1>2, <1>3, <1>4, <1>5, <1>6, <1>7, <1>8, <1>9, <1>10, <1>11, <1>12,
       <1>13, <1>14, <1>15, <1>16, <1>17 DEF Next, Tick, Fiber

(* The identity of the script thread.                                     *)
LEMMA IdentityStep ==
    ASSUME Identity, Next
    PROVE  Identity'
  <1> USE DEF Identity, hookVars, tlsVars, gameVars
  <1>1. ASSUME NEW t \in GameScripts \cup {None}, NEW active \in BOOLEAN, GameRunsScripts(t, active) PROVE Identity'
    BY <1>1 DEF GameRunsScripts
  <1>2. ASSUME BorrowMainPersistent PROVE Identity'
    BY <1>2 DEF BorrowMainPersistent
  <1>3. ASSUME LockScripts PROVE Identity'
    BY <1>3 DEF LockScripts
  <1>4. ASSUME TickScript PROVE Identity'
    BY <1>4 DEF TickScript
  <1>5. ASSUME UnlockScripts PROVE Identity'
    BY <1>5 DEF UnlockScripts
  <1>6. ASSUME RestoreScriptThread PROVE Identity'
    BY <1>6 DEF RestoreScriptThread
  <1>7. ASSUME NEW s \in Services, ServiceTicks(s) PROVE Identity'
    BY <1>7 DEF ServiceTicks, YieldFor
  <1>8. ASSUME NEW f \in Fibers, TakeJob(f) PROVE Identity'
    BY <1>8 DEF TakeJob
  <1>9. ASSUME NEW f \in Fibers, NoJob(f) PROVE Identity'
    BY <1>9 DEF NoJob
  <1>10. ASSUME NEW f \in Fibers, JobReturns(f) PROVE Identity'
    BY <1>10 DEF JobReturns
  <1>11. ASSUME NEW f \in Fibers, FiberYields(f) PROVE Identity'
    BY <1>11 DEF FiberYields, YieldFor
  <1>12. ASSUME NEW f \in Fibers, NEW time \in 0..MaxSleep, JobYields(f, time) PROVE Identity'
    BY <1>12 DEF JobYields, YieldFor
  <1>13. ASSUME TimePasses PROVE Identity'
    BY <1>13 DEF TimePasses
  <1>14. ASSUME NEW j \in Jobs, QueueJob(j) PROVE Identity'
    BY <1>14 DEF QueueJob
  <1>15. ASSUME AskToUnload PROVE Identity'
    BY <1>15 DEF AskToUnload
  <1>16. ASSUME DisableHook PROVE Identity'
    BY <1>16 DEF DisableHook
  <1>17. ASSUME RemoveAllScripts PROVE Identity'
    BY <1>17 DEF RemoveAllScripts
  <1> QED
    BY <1>1, <1>2, <1>3, <1>4, <1>5, <1>6, <1>7, <1>8, <1>9, <1>10, <1>11, <1>12,
       <1>13, <1>14, <1>15, <1>16, <1>17 DEF Next, Tick, Fiber

(* The fibers' jobs.                                                       *)
LEMMA HoldingStep ==
    ASSUME TypeOK, JobInOnePlace, Holding, Next
    PROVE  Holding'
  <1> USE DEF TypeOK, Holding, jobVars
  <1>1. ASSUME NEW t \in GameScripts \cup {None}, NEW active \in BOOLEAN, GameRunsScripts(t, active) PROVE Holding'
    BY <1>1, ScriptsAssumption DEF GameRunsScripts
  <1>2. ASSUME BorrowMainPersistent PROVE Holding'
    BY <1>2, ScriptsAssumption DEF BorrowMainPersistent
  <1>3. ASSUME LockScripts PROVE Holding'
    BY <1>3, ScriptsAssumption DEF LockScripts
  <1>4. ASSUME TickScript PROVE Holding'
    BY <1>4, ScriptsAssumption DEF TickScript
  <1>5. ASSUME UnlockScripts PROVE Holding'
    BY <1>5, ScriptsAssumption DEF UnlockScripts
  <1>6. ASSUME RestoreScriptThread PROVE Holding'
    BY <1>6, ScriptsAssumption DEF RestoreScriptThread
  <1>7. ASSUME NEW s \in Services, ServiceTicks(s) PROVE Holding'
    BY <1>7, ScriptsAssumption DEF ServiceTicks, YieldFor
  <1>8. ASSUME NEW f \in Fibers, TakeJob(f) PROVE Holding'
    BY <1>8, TakeStep, ScriptsAssumption DEF TakeJob
  <1>9. ASSUME NEW f \in Fibers, NoJob(f) PROVE Holding'
    BY <1>9, ScriptsAssumption DEF NoJob
  <1>10. ASSUME NEW f \in Fibers, JobReturns(f) PROVE Holding'
    BY <1>10, ScriptsAssumption DEF JobReturns
  <1>11. ASSUME NEW f \in Fibers, FiberYields(f) PROVE Holding'
    BY <1>11, ScriptsAssumption DEF FiberYields, YieldFor
  <1>12. ASSUME NEW f \in Fibers, NEW time \in 0..MaxSleep, JobYields(f, time) PROVE Holding'
    BY <1>12, ScriptsAssumption DEF JobYields, YieldFor
  <1>13. ASSUME TimePasses PROVE Holding'
    BY <1>13, ScriptsAssumption DEF TimePasses
  <1>14. ASSUME NEW j \in Jobs, QueueJob(j) PROVE Holding'
    BY <1>14, ScriptsAssumption DEF QueueJob
  <1>15. ASSUME AskToUnload PROVE Holding'
    BY <1>15, ScriptsAssumption DEF AskToUnload
  <1>16. ASSUME DisableHook PROVE Holding'
    BY <1>16, ScriptsAssumption DEF DisableHook
  <1>17. ASSUME RemoveAllScripts PROVE Holding'
    BY <1>17, ScriptsAssumption DEF RemoveAllScripts
  <1> QED
    BY <1>1, <1>2, <1>3, <1>4, <1>5, <1>6, <1>7, <1>8, <1>9, <1>10, <1>11, <1>12,
       <1>13, <1>14, <1>15, <1>16, <1>17 DEF Next, Tick, Fiber

(* The places of a job.                                                    *)
LEMMA JobInOnePlaceStep ==
    ASSUME TypeOK, JobInOnePlace, Holding, Next
    PROVE  JobInOnePlace'
  <1> USE DEF JobInOnePlace, jobVars
  <1>1. ASSUME NEW t \in GameScripts \cup {None}, NEW active \in BOOLEAN, GameRunsScripts(t, active) PROVE JobInOnePlace'
    BY <1>1 DEF GameRunsScripts
  <1>2. ASSUME BorrowMainPersistent PROVE JobInOnePlace'
    BY <1>2 DEF BorrowMainPersistent
  <1>3. ASSUME LockScripts PROVE JobInOnePlace'
    BY <1>3 DEF LockScripts
  <1>4. ASSUME TickScript PROVE JobInOnePlace'
    BY <1>4 DEF TickScript
  <1>5. ASSUME UnlockScripts PROVE JobInOnePlace'
    BY <1>5 DEF UnlockScripts
  <1>6. ASSUME RestoreScriptThread PROVE JobInOnePlace'
    BY <1>6 DEF RestoreScriptThread
  <1>7. ASSUME NEW s \in Services, ServiceTicks(s) PROVE JobInOnePlace'
    BY <1>7 DEF ServiceTicks, YieldFor
  <1>8. ASSUME NEW f \in Fibers, TakeJob(f) PROVE JobInOnePlace'
    <2>1. \A h \in Fibers : fiberJob'[h] \notin Elements(m_jobs)'
      BY <1>8, TakeStep DEF TypeOK
    <2> QED BY <1>8, <2>1, TakeStep
  <1>9. ASSUME NEW f \in Fibers, NoJob(f) PROVE JobInOnePlace'
    BY <1>9 DEF NoJob
  <1>10. ASSUME NEW f \in Fibers, JobReturns(f) PROVE JobInOnePlace'
    <2>1. None \notin Elements(m_jobs)
      BY ScriptsAssumption DEF TypeOK, Elements
    <2> QED BY <1>10, <2>1 DEF JobReturns, TypeOK, Elements
  <1>11. ASSUME NEW f \in Fibers, FiberYields(f) PROVE JobInOnePlace'
    BY <1>11 DEF FiberYields, YieldFor
  <1>12. ASSUME NEW f \in Fibers, NEW time \in 0..MaxSleep, JobYields(f, time) PROVE JobInOnePlace'
    BY <1>12 DEF JobYields, YieldFor
  <1>13. ASSUME TimePasses PROVE JobInOnePlace'
    BY <1>13 DEF TimePasses
  <1>14. ASSUME NEW j \in Jobs, QueueJob(j) PROVE JobInOnePlace'
    <2>1. \A h \in Fibers : fiberJob'[h] \notin Elements(m_jobs)'
      BY <1>14, QueueStep DEF QueueJob, Elements, TypeOK
    <2>2. m_jobs \in Seq(Jobs) /\ j \notin Elements(m_jobs)
      BY <1>14 DEF QueueJob, TypeOK
    <2>3. DOMAIN m_jobs = 1..Len(m_jobs) /\ DOMAIN m_jobs' = 1..Len(m_jobs')
      BY <1>14, <2>2, QueueStep
    <2>4. \A i \in 1..Len(m_jobs) : m_jobs[i] # j
      BY <2>2, <2>3 DEF Elements
    <2>5. \A i, k \in DOMAIN m_jobs' : m_jobs'[i] = m_jobs'[k] => i = k
      <3> DEFINE n == Len(m_jobs)
      <3>1. /\ n \in Nat /\ DOMAIN m_jobs' = 1..(n + 1)
            /\ m_jobs'[n + 1] = j
            /\ \A i \in 1..n : m_jobs'[i] = m_jobs[i]
        BY <1>14, <2>3, QueueStep
      <3>2. \A i, k \in 1..n : m_jobs[i] = m_jobs[k] => i = k
        BY <2>3
      <3> HIDE DEF n
      <3>3. \A i \in 1..(n + 1) : i \in 1..n \/ i = n + 1
        BY <3>1
      <3>4. \A i \in 1..n : m_jobs[i] # j
        BY <2>4 DEF n
      <3> QED BY <3>1, <3>2, <3>3, <3>4
    <2> QED BY <2>1, <2>5
  <1>15. ASSUME AskToUnload PROVE JobInOnePlace'
    BY <1>15 DEF AskToUnload
  <1>16. ASSUME DisableHook PROVE JobInOnePlace'
    BY <1>16 DEF DisableHook
  <1>17. ASSUME RemoveAllScripts PROVE JobInOnePlace'
    BY <1>17 DEF RemoveAllScripts
  <1> QED
    BY <1>1, <1>2, <1>3, <1>4, <1>5, <1>6, <1>7, <1>8, <1>9, <1>10, <1>11, <1>12,
       <1>13, <1>14, <1>15, <1>16, <1>17 DEF Next, Tick, Fiber

LEMMA InitIInv == Init => IInv
  <1> SUFFICES ASSUME Init PROVE IInv
    OBVIOUS
  <1> USE DEF Init
  <1>1. TypeOK
    <2>1. next \in 1..(Len(Order) + 1)
      BY OrderElements
    <2>2. m_jobs \in Seq(Jobs)
      OBVIOUS
    <2>3. gamePc \in {"game", "lock", "iterate", "restore"}
          /\ control \in Scripts \cup {GameThread}
          /\ m_script_thread \in GameScripts \cup {None}
          /\ og_thread \in GameScripts \cup {None}
          /\ gameScript \in GameScripts \cup {None}
          /\ {m_is_script_thread_active, gameActive, g_running, hooked} \subseteq BOOLEAN
      OBVIOUS
    <2>4. /\ fiberPc \in [Fibers -> {"tick", "job", "yield"}]
          /\ fiberJob \in [Fibers -> Jobs \cup {None}]
          /\ sleeping \in [Scripts -> 0..MaxSleep]
          /\ yieldsLeft \in [Jobs -> 0..Yields]
      BY ScriptsAssumption
    <2>5. /\ m_scripts \in {Order, <<>>}
          /\ m_mutex \in {GameThread, MainThread, None}
          /\ finished \in SUBSET Jobs
          /\ mainPc \in {"running", "remove", "removed"}
      OBVIOUS
    <2> QED BY <2>1, <2>2, <2>3, <2>4, <2>5, Zenon DEF TypeOK
  <1>2. Mutex /\ RunningScriptExists /\ Identity
    BY ScriptsAssumption DEF Mutex, RunningScriptExists, Identity
  <1>3. Holding
    BY DEF Holding
  <1>4. JobInOnePlace
    BY DEF JobInOnePlace, Elements
  <1> QED BY <1>1, <1>2, <1>3, <1>4 DEF IInv

LEMMA NextIInv == IInv /\ [Next]_vars => IInv'
  <1> SUFFICES ASSUME IInv, [Next]_vars PROVE IInv'
    OBVIOUS
  <1>1. CASE Next
    BY <1>1, TypesStep, MutexStep, RunningStep, IdentityStep, HoldingStep, JobInOnePlaceStep
       DEF IInv
  <1>2. CASE UNCHANGED vars
    BY <1>2 DEF vars, hookVars, tlsVars, gameVars, jobVars, IInv, TypeOK, Mutex, RunningScriptExists, Identity,
                Holding, JobInOnePlace, Elements
  <1> QED BY <1>1, <1>2

LEMMA Invariance == Spec => []IInv
  BY InitIInv, NextIInv, PTL DEF Spec
------------------------------------------------------------------------------
(* Theorems *)

(* The types: no position, wake time or count of yields leaves its range,   *)
(* for any number of scripts and jobs.                                     *)
THEOREM TypeCorrect == Spec => []TypeOK
  <1>1. IInv => TypeOK
    BY DEF IInv
  <1> QED BY <1>1, Invariance, PTL

(* A fiber that has control exists and is inside a tick, whenever the main  *)
(* thread removes all scripts (script_mgr::remove_all_scripts).            *)
THEOREM ScriptsExist == Spec => []RunningScriptExists
  <1>1. IInv => RunningScriptExists
    BY DEF IInv
  <1> QED BY <1>1, Invariance, PTL

(* In every script, the TLS says that main_persistent is the active script. *)
(* When the game runs again it says what the game had put there, if whether *)
(* a script was active had agreed with there being one                      *)
(* (gta_util::execute_as_script).                                          *)
THEOREM IdentityReturned == Spec => []IdentityIsBorrowed
  <1>1. IInv => IdentityIsBorrowed
    BY DEF IInv, RunningScriptExists, Identity, IdentityIsBorrowed, tlsVars
  <1> QED BY <1>1, Invariance, PTL

(* A step of the fibers, the render thread or the main thread is a step of   *)
(* JobPool, or changes nothing of it.                                      *)
LEMMA StepSimulation ==
    ASSUME IInv, Next
    PROVE  [Abstract!Next]_(Abstract!jobVars)
  <1>1. ASSUME NEW t \in GameScripts \cup {None}, NEW active \in BOOLEAN, GameRunsScripts(t, active) PROVE [Abstract!Next]_(Abstract!jobVars)
    BY <1>1 DEF GameRunsScripts, Abstract!jobVars, hookVars, tlsVars, gameVars, jobVars
  <1>2. ASSUME BorrowMainPersistent PROVE [Abstract!Next]_(Abstract!jobVars)
    BY <1>2 DEF BorrowMainPersistent, Abstract!jobVars, hookVars, tlsVars, gameVars, jobVars
  <1>3. ASSUME LockScripts PROVE [Abstract!Next]_(Abstract!jobVars)
    BY <1>3 DEF LockScripts, Abstract!jobVars, hookVars, tlsVars, gameVars, jobVars
  <1>4. ASSUME TickScript PROVE [Abstract!Next]_(Abstract!jobVars)
    BY <1>4 DEF TickScript, Abstract!jobVars, hookVars, tlsVars, gameVars, jobVars
  <1>5. ASSUME UnlockScripts PROVE [Abstract!Next]_(Abstract!jobVars)
    BY <1>5 DEF UnlockScripts, Abstract!jobVars, hookVars, tlsVars, gameVars, jobVars
  <1>6. ASSUME RestoreScriptThread PROVE [Abstract!Next]_(Abstract!jobVars)
    BY <1>6 DEF RestoreScriptThread, Abstract!jobVars, hookVars, tlsVars, gameVars, jobVars
  <1>7. ASSUME NEW s \in Services, ServiceTicks(s) PROVE [Abstract!Next]_(Abstract!jobVars)
    BY <1>7 DEF ServiceTicks, Abstract!jobVars, hookVars, tlsVars, gameVars, jobVars, YieldFor
  <1>8. ASSUME NEW f \in Fibers, TakeJob(f) PROVE [Abstract!Next]_(Abstract!jobVars)
    <2> DEFINE j == fiberJob'[f]
    <2>1. /\ j \in Jobs /\ j \in Elements(m_jobs)
          /\ fiberJob' = [fiberJob EXCEPT ![f] = j]
          /\ Elements(m_jobs') = Elements(m_jobs) \ {j}
      BY <1>8, TakeStep DEF IInv
    <2>2. fiberJob[f] = None
      BY <1>8 DEF TakeJob, IInv, Holding
    <2>3. m_scripts # <<>> /\ m_scripts' = m_scripts /\ finished' = finished
      BY <1>8, ScriptsAssumption DEF TakeJob, IInv, RunningScriptExists, Elements, Scripts
    <2> HIDE DEF j
    <2>4. Abstract!Start(f, j)
      BY <2>1, <2>2, <2>3 DEF Abstract!Start
    <2> QED BY <2>1, <2>4 DEF Abstract!Next
  <1>9. ASSUME NEW f \in Fibers, NoJob(f) PROVE [Abstract!Next]_(Abstract!jobVars)
    BY <1>9 DEF NoJob, Abstract!jobVars, hookVars, tlsVars, gameVars, jobVars
  <1>10. ASSUME NEW f \in Fibers, JobReturns(f) PROVE [Abstract!Next]_(Abstract!jobVars)
    <2>1. fiberJob[f] # None
      BY <1>10 DEF JobReturns, IInv, Holding
    <2>2. Abstract!Finish(f)
      BY <1>10, <2>1 DEF JobReturns, Abstract!Finish
    <2> QED BY <2>2 DEF Abstract!Next
  <1>11. ASSUME NEW f \in Fibers, FiberYields(f) PROVE [Abstract!Next]_(Abstract!jobVars)
    BY <1>11 DEF FiberYields, Abstract!jobVars, hookVars, tlsVars, gameVars, jobVars, YieldFor
  <1>12. ASSUME NEW f \in Fibers, NEW time \in 0..MaxSleep, JobYields(f, time) PROVE [Abstract!Next]_(Abstract!jobVars)
    BY <1>12 DEF JobYields, Abstract!jobVars, hookVars, tlsVars, gameVars, jobVars, YieldFor
  <1>13. ASSUME TimePasses PROVE [Abstract!Next]_(Abstract!jobVars)
    BY <1>13 DEF TimePasses, Abstract!jobVars, hookVars, tlsVars, gameVars, jobVars
  <1>14. ASSUME NEW j \in Jobs, QueueJob(j) PROVE [Abstract!Next]_(Abstract!jobVars)
    <2>1. Elements(m_jobs') = Elements(m_jobs) \cup {j}
      BY <1>14, QueueStep DEF IInv
    <2>2. \A h \in Fibers : h \in DOMAIN fiberJob
      BY DEF IInv, TypeOK
    <2>3. j \notin Elements(m_jobs) \cup Abstract!Executing \cup finished
      BY <1>14, <2>2 DEF QueueJob, Abstract!Executing, Elements
    <2>4. Abstract!Submit(j)
      BY <1>14, <2>1, <2>3 DEF QueueJob, Abstract!Submit
    <2> QED BY <2>4 DEF Abstract!Next
  <1>15. ASSUME AskToUnload PROVE [Abstract!Next]_(Abstract!jobVars)
    BY <1>15 DEF AskToUnload, Abstract!jobVars, hookVars, tlsVars, gameVars, jobVars
  <1>16. ASSUME DisableHook PROVE [Abstract!Next]_(Abstract!jobVars)
    BY <1>16 DEF DisableHook, Abstract!jobVars, hookVars, tlsVars, gameVars, jobVars
  <1>17. ASSUME RemoveAllScripts PROVE [Abstract!Next]_(Abstract!jobVars)
    <2>1. m_scripts # <<>> /\ m_scripts' = <<>>
      BY <1>17, OrderElements DEF RemoveAllScripts, IInv, Mutex
    <2>2. Abstract!Close
      BY <1>17, <2>1 DEF RemoveAllScripts, Abstract!Close, jobVars
    <2> QED BY <2>2 DEF Abstract!Next
  <1> QED
    BY <1>1, <1>2, <1>3, <1>4, <1>5, <1>6, <1>7, <1>8, <1>9, <1>10, <1>11, <1>12,
       <1>13, <1>14, <1>15, <1>16, <1>17 DEF Next, Tick, Fiber

(* The fiber pool keeps the contract of JobPool, whose end is the removal of *)
(* the scripts: no job is taken twice, or after it (fiber_pool.cpp).        *)
THEOREM Implementation == Spec => ImplementsJobPool
  <1>1. Init => Abstract!Init
    BY OrderElements DEF Init, Abstract!Init, Elements
  <1>2. IInv /\ [Next]_vars => [Abstract!Next]_(Abstract!jobVars)
    <2> SUFFICES ASSUME IInv, [Next]_vars PROVE [Abstract!Next]_(Abstract!jobVars)
      OBVIOUS
    <2>1. CASE UNCHANGED vars
      BY <2>1 DEF vars, jobVars, Abstract!jobVars
    <2> QED BY <2>1, StepSimulation
  <1> QED BY <1>1, <1>2, Invariance, PTL DEF Spec, ImplementsJobPool, Abstract!Spec
==============================================================================
