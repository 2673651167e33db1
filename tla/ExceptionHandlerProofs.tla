------------------------ MODULE ExceptionHandlerProofs ------------------------
(***************************************************************************)
(* Proofs about ExceptionHandler, for any threads, faults and stacks.      *)
(* IInv is the inductive invariant: who holds the mutex, that only one     *)
(* thread uses the trace as long as nobody fills it while another reads    *)
(* it, and whose frames the trace then has.                                *)
(***************************************************************************)
EXTENDS ExceptionHandler, FiniteSetTheorems, TLAPS

Mutex == \A t \in Threads : pc[t] \in Filling => m = t

OneUser ==
    quiet => \A t, u \in Threads :
        pc[t] \in Filling \cup Reading /\ pc[u] \in Filling \cup Reading => t = u

(* The frames begin with those of the fault that there is room for. *)
Starts(frames, f) == \A i \in Walked(f) : frames[i] = Stack[f][i]

TraceIsOwn ==
    quiet => \A t \in Threads :
        /\ pc[t] \in {"dump"} \cup Reading => Starts(m_frame_pointers, fault[t])
        /\ pc[t] \in Reading => m_dump = Shown(m_frame_pointers)
        /\ pc[t] \in {"find", "log"} => trace_hash[t] = m_frame_pointers

LoggedIsShown ==
    quiet => \A frames \in logged_exceptions : Shown(frames) \in log

InsertedIsLogged ==
    quiet => \A t \in Threads : pc[t] = "insert" =>
        /\ Shown(trace_hash[t]) \in log
        /\ \E text \in log : Shows(text, fault[t])

IInv ==
    /\ TypeOK
    /\ Mutex
    /\ OneUser
    /\ TraceIsOwn
    /\ LoggedIsShown
    /\ InsertedIsLogged
    /\ HandledIsLogged

------------------------------------------------------------------------------
(* The text of a trace shows the frames before the first 0. *)
LEMMA ShownText ==
    ASSUME NEW frames \in FramePointers
    PROVE  /\ Shown(frames) \in Seq(Frames)
           /\ \A n \in Positions :
                 (\A i \in 1 .. n : frames[i] # 0) =>
                   n <= Len(Shown(frames)) /\ Shown(frames)[n] = frames[n]
<1> DEFINE shown == {n \in Positions : \A i \in 1 .. n : frames[i] # 0}
           count == Cardinality(shown)
<1>1. IsFiniteSet(Positions)
  BY FS_Interval, HandlerAssumption DEF Positions
<1>2. IsFiniteSet(shown) /\ count \in Nat
  BY <1>1, FS_Subset, FS_CardinalityType
<1>3. \A n \in shown : n <= count
  <2> SUFFICES ASSUME NEW n \in shown PROVE n <= count
    OBVIOUS
  <2>1. n \in Int /\ n >= 1 /\ 1 .. n \subseteq shown
    BY HandlerAssumption DEF Positions
  <2>2. Cardinality(1 .. n) = n
    BY <2>1, FS_Interval
  <2>3. Cardinality(1 .. n) <= Cardinality(shown)
    BY <2>1, <1>2, FS_Subset
  <2> QED
    BY <2>2, <2>3
<1>4. \A n \in 1 .. count : n \in shown
  <2> SUFFICES ASSUME NEW n \in 1 .. count, n \notin shown PROVE FALSE
    OBVIOUS
  <2>1. n \in Int /\ n >= 1 /\ n <= count
    BY <1>2
  <2>2. shown \subseteq 1 .. (n - 1)
    BY <2>1, HandlerAssumption DEF Positions
  <2>3. IsFiniteSet(1 .. (n - 1)) /\ Cardinality(1 .. (n - 1)) = n - 1
    BY <2>1, FS_Interval
  <2>4. Cardinality(shown) <= Cardinality(1 .. (n - 1))
    BY <2>2, <2>3, FS_Subset
  <2> QED
    BY <2>1, <2>3, <2>4, <1>2
<1>5. Shown(frames) = [i \in 1 .. count |-> frames[i]]
  BY DEF Shown
<1>6. \A i \in 1 .. count : frames[i] \in Frames
  BY <1>4, <1>2, HandlerAssumption DEF FramePointers, Positions
<1> HIDE DEF count, shown
<1>7. Shown(frames) \in Seq(Frames) /\ Len(Shown(frames)) = count
  BY <1>2, <1>5, <1>6
<1>8. ASSUME NEW n \in Positions, \A i \in 1 .. n : frames[i] # 0
      PROVE  n <= Len(Shown(frames)) /\ Shown(frames)[n] = frames[n]
  <2>1. n \in shown
    BY <1>8 DEF shown
  <2>2. n <= count /\ n \in 1 .. count
    BY <2>1, <1>3, <1>2, HandlerAssumption DEF Positions
  <2> QED
    BY <2>2, <1>5, <1>7
<1> QED
  BY <1>7, <1>8

(* It shows a fault whose frames the trace begins with. *)
LEMMA ShownShows ==
    ASSUME NEW frames \in FramePointers, NEW f \in Faults, Starts(frames, f)
    PROVE  Shows(Shown(frames), f)
<1> SUFFICES ASSUME NEW n \in Walked(f)
             PROVE  n <= Len(Shown(frames)) /\ Shown(frames)[n] = Stack[f][n]
  BY DEF Shows
<1>1. n \in Positions /\ \A i \in 1 .. n : i \in Walked(f)
  BY HandlerAssumption DEF Walked, Positions
<1>2. \A i \in 1 .. n : frames[i] = Stack[f][i] /\ Stack[f][i] \in Frames
  BY <1>1, HandlerAssumption DEF Starts, Walked, Positions
<1>3. \A i \in 1 .. n : frames[i] # 0
  BY <1>2, HandlerAssumption
<1>4. frames[n] = Stack[f][n]
  BY DEF Starts
<1> QED
  BY <1>1, <1>3, <1>4, ShownText

(* After the walk the trace begins with the frames of the fault. *)
LEMMA GrabStarts ==
    ASSUME TypeOK, NEW t \in Threads, GrabStacktrace(t)
    PROVE  m_frame_pointers' \in FramePointers /\ Starts(m_frame_pointers', fault[t])
<1>1. fault[t] \in Faults /\ Stack[fault[t]] \in Seq(Frames)
  BY HandlerAssumption DEF TypeOK, GrabStacktrace, Goes
<1> QED
  BY <1>1, HandlerAssumption
  DEF TypeOK, GrabStacktrace, FramePointers, Positions, Starts, Walked

------------------------------------------------------------------------------
LEMMA NoFramesType == NoFrames \in FramePointers
BY DEF NoFrames, FramePointers

(* Every step keeps the types. *)
LEMMA TypeStep ==
    ASSUME TypeOK, [Next]_vars
    PROVE  TypeOK'
<1>1. CASE Install
  BY <1>1 DEF TypeOK, vars, traceVars, loggedVars, Filling, Reading, Install
<1>2. CASE Unload
  BY <1>2 DEF TypeOK, vars, traceVars, loggedVars, Filling, Reading, Unload
<1>3. CASE EnterVM
  BY <1>3 DEF TypeOK, vars, traceVars, loggedVars, Filling, Reading, EnterVM
<1>4. CASE LeaveVM
  BY <1>4 DEF TypeOK, vars, traceVars, loggedVars, Filling, Reading, LeaveVM
<1>5. ASSUME NEW t \in Threads, NEW f \in Faults, Fault(t, f)
      PROVE  TypeOK'
  BY <1>5 DEF TypeOK, vars, traceVars, loggedVars, Filling, Reading, Fault
<1>6. ASSUME NEW t \in Threads, NEW f \in Faults, FaultEnds(t, f)
      PROVE  TypeOK'
  BY <1>6
  DEF TypeOK, vars, traceVars, loggedVars, Filling, Reading, FaultEnds, Ends
<1>7. ASSUME NEW t \in Threads, LockTrace(t)
      PROVE  TypeOK'
  BY <1>7
  DEF TypeOK, vars, traceVars, loggedVars, Filling, Reading, LockTrace,
      Begins, Goes
<1>8. ASSUME NEW t \in Threads, RelockThrows(t)
      PROVE  TypeOK'
  BY <1>8
  DEF TypeOK, vars, traceVars, loggedVars, Filling, Reading, RelockThrows,
      Ends
<1>9. ASSUME NEW t \in Threads, DumpScriptInfo(t)
      PROVE  TypeOK'
  BY <1>9
  DEF TypeOK, vars, traceVars, loggedVars, Filling, Reading, DumpScriptInfo,
      Goes
<1>10. ASSUME NEW t \in Threads, GrabStacktrace(t)
      PROVE  TypeOK'
  BY <1>10, GrabStarts
  DEF TypeOK, vars, traceVars, loggedVars, Filling, Reading, GrabStacktrace,
      Goes
<1>11. ASSUME NEW t \in Threads, DumpStacktrace(t)
      PROVE  TypeOK'
  BY <1>11, ShownText
  DEF TypeOK, vars, traceVars, loggedVars, Filling, Reading, DumpStacktrace,
      Goes
<1>12. ASSUME NEW t \in Threads, HashStackTrace(t)
      PROVE  TypeOK'
  BY <1>12
  DEF TypeOK, vars, traceVars, loggedVars, Filling, Reading, HashStackTrace,
      Goes
<1>13. ASSUME NEW t \in Threads, FindException(t)
      PROVE  TypeOK'
  BY <1>13
  DEF TypeOK, vars, traceVars, loggedVars, Filling, Reading, FindException,
      Goes
<1>14. ASSUME NEW t \in Threads, LogTrace(t)
      PROVE  TypeOK'
  BY <1>14
  DEF TypeOK, vars, traceVars, loggedVars, Filling, Reading, LogTrace, Goes
<1>15. ASSUME NEW t \in Threads, InsertException(t)
      PROVE  TypeOK'
  BY <1>15
  DEF TypeOK, vars, traceVars, loggedVars, Filling, Reading,
      InsertException, Goes
<1>16. ASSUME NEW t \in Threads, InsertRaces(t)
      PROVE  TypeOK'
  BY <1>16
  DEF TypeOK, vars, traceVars, loggedVars, Filling, Reading, InsertRaces,
      Goes, Ends
<1>17. ASSUME NEW t \in Threads, Resume(t)
      PROVE  TypeOK'
  BY <1>17, NoFramesType
  DEF TypeOK, vars, traceVars, loggedVars, Filling, Reading, Resume
<1>18. ASSUME NEW t \in Threads, GiveUp(t)
      PROVE  TypeOK'
  BY <1>18
  DEF TypeOK, vars, traceVars, loggedVars, Filling, Reading, GiveUp, Ends
<1>19. CASE UNCHANGED vars
  BY <1>19 DEF TypeOK, vars, traceVars, loggedVars, Filling, Reading
<1> QED
  BY <1>1, <1>2, <1>3, <1>4, <1>5, <1>6, <1>7, <1>8, <1>9, <1>10,
     <1>11, <1>12, <1>13, <1>14, <1>15, <1>16, <1>17, <1>18, <1>19
  DEF Next, Handler

(* Only the holder of the mutex fills the trace. *)
LEMMA MutexStep ==
    ASSUME TypeOK, Mutex, [Next]_vars
    PROVE  Mutex'
<1>0. pc = [t \in Threads |-> pc[t]]
  BY DEF TypeOK
<1>1. CASE Install
  BY <1>1, <1>0 DEF Mutex, vars, traceVars, loggedVars, Filling, Install
<1>2. CASE Unload
  BY <1>2, <1>0 DEF Mutex, vars, traceVars, loggedVars, Filling, Unload
<1>3. CASE EnterVM
  BY <1>3, <1>0 DEF Mutex, vars, traceVars, loggedVars, Filling, EnterVM
<1>4. CASE LeaveVM
  BY <1>4, <1>0 DEF Mutex, vars, traceVars, loggedVars, Filling, LeaveVM
<1>5. ASSUME NEW t \in Threads, NEW f \in Faults, Fault(t, f)
      PROVE  Mutex'
  BY <1>5, <1>0 DEF Mutex, vars, traceVars, loggedVars, Filling, Fault
<1>6. ASSUME NEW t \in Threads, NEW f \in Faults, FaultEnds(t, f)
      PROVE  Mutex'
  BY <1>6, <1>0
  DEF Mutex, vars, traceVars, loggedVars, Filling, FaultEnds, Ends
<1>7. ASSUME NEW t \in Threads, LockTrace(t)
      PROVE  Mutex'
  BY <1>7, <1>0, HandlerAssumption
  DEF Mutex, vars, traceVars, loggedVars, Filling, LockTrace, Begins, Goes
<1>8. ASSUME NEW t \in Threads, RelockThrows(t)
      PROVE  Mutex'
  BY <1>8, <1>0
  DEF Mutex, vars, traceVars, loggedVars, Filling, RelockThrows, Ends
<1>9. ASSUME NEW t \in Threads, DumpScriptInfo(t)
      PROVE  Mutex'
  BY <1>9, <1>0
  DEF Mutex, vars, traceVars, loggedVars, Filling, DumpScriptInfo, Goes
<1>10. ASSUME NEW t \in Threads, GrabStacktrace(t)
      PROVE  Mutex'
  BY <1>10, <1>0
  DEF Mutex, vars, traceVars, loggedVars, Filling, GrabStacktrace, Goes
<1>11. ASSUME NEW t \in Threads, DumpStacktrace(t)
      PROVE  Mutex'
  BY <1>11, <1>0, HandlerAssumption
  DEF Mutex, vars, traceVars, loggedVars, Filling, DumpStacktrace, Goes
<1>12. ASSUME NEW t \in Threads, HashStackTrace(t)
      PROVE  Mutex'
  BY <1>12, <1>0
  DEF Mutex, vars, traceVars, loggedVars, Filling, HashStackTrace, Goes
<1>13. ASSUME NEW t \in Threads, FindException(t)
      PROVE  Mutex'
  BY <1>13, <1>0
  DEF Mutex, vars, traceVars, loggedVars, Filling, FindException, Goes
<1>14. ASSUME NEW t \in Threads, LogTrace(t)
      PROVE  Mutex'
  BY <1>14, <1>0
  DEF Mutex, vars, traceVars, loggedVars, Filling, LogTrace, Goes
<1>15. ASSUME NEW t \in Threads, InsertException(t)
      PROVE  Mutex'
  BY <1>15, <1>0
  DEF Mutex, vars, traceVars, loggedVars, Filling, InsertException, Goes
<1>16. ASSUME NEW t \in Threads, InsertRaces(t)
      PROVE  Mutex'
  BY <1>16, <1>0
  DEF Mutex, vars, traceVars, loggedVars, Filling, InsertRaces, Goes, Ends
<1>17. ASSUME NEW t \in Threads, Resume(t)
      PROVE  Mutex'
  BY <1>17, <1>0 DEF Mutex, vars, traceVars, loggedVars, Filling, Resume
<1>18. ASSUME NEW t \in Threads, GiveUp(t)
      PROVE  Mutex'
  BY <1>18, <1>0 DEF Mutex, vars, traceVars, loggedVars, Filling, GiveUp, Ends
<1>19. CASE UNCHANGED vars
  BY <1>19 DEF Mutex, vars, traceVars, loggedVars, Filling
<1> QED
  BY <1>1, <1>2, <1>3, <1>4, <1>5, <1>6, <1>7, <1>8, <1>9, <1>10,
     <1>11, <1>12, <1>13, <1>14, <1>15, <1>16, <1>17, <1>18, <1>19
  DEF Next, Handler

(* While nobody disturbs a reader, one thread uses the trace. *)
LEMMA OneUserStep ==
    ASSUME TypeOK, Mutex, OneUser, [Next]_vars
    PROVE  OneUser'
<1>0. pc = [t \in Threads |-> pc[t]]
  BY DEF TypeOK
<1>1. CASE Install
  BY <1>1, <1>0
  DEF OneUser, vars, traceVars, loggedVars, Filling, Reading, Install
<1>2. CASE Unload
  BY <1>2, <1>0
  DEF OneUser, vars, traceVars, loggedVars, Filling, Reading, Unload
<1>3. CASE EnterVM
  BY <1>3, <1>0
  DEF OneUser, vars, traceVars, loggedVars, Filling, Reading, EnterVM
<1>4. CASE LeaveVM
  BY <1>4, <1>0
  DEF OneUser, vars, traceVars, loggedVars, Filling, Reading, LeaveVM
<1>5. ASSUME NEW t \in Threads, NEW f \in Faults, Fault(t, f)
      PROVE  OneUser'
  BY <1>5, <1>0
  DEF OneUser, vars, traceVars, loggedVars, Filling, Reading, Fault
<1>6. ASSUME NEW t \in Threads, NEW f \in Faults, FaultEnds(t, f)
      PROVE  OneUser'
  BY <1>6, <1>0
  DEF OneUser, vars, traceVars, loggedVars, Filling, Reading, FaultEnds,
      Ends
<1>7. ASSUME NEW t \in Threads, LockTrace(t)
      PROVE  OneUser'
  <2>1. \A u \in Threads : pc[u] \notin Filling
    BY <1>7, HandlerAssumption DEF LockTrace, Mutex
  <2>2. quiet' => quiet /\ \A u \in Threads : pc[u] \notin Reading
    BY <1>7 DEF LockTrace, Begins
  <2>3. pc' = [pc EXCEPT ![t] = "script"]
    BY <1>7 DEF LockTrace, Begins, Goes
  <2> QED
    BY <1>0, <2>1, <2>2, <2>3 DEF OneUser
<1>8. ASSUME NEW t \in Threads, RelockThrows(t)
      PROVE  OneUser'
  BY <1>8, <1>0
  DEF OneUser, vars, traceVars, loggedVars, Filling, Reading, RelockThrows,
      Ends
<1>9. ASSUME NEW t \in Threads, DumpScriptInfo(t)
      PROVE  OneUser'
  BY <1>9, <1>0
  DEF OneUser, vars, traceVars, loggedVars, Filling, Reading,
      DumpScriptInfo, Goes
<1>10. ASSUME NEW t \in Threads, GrabStacktrace(t)
      PROVE  OneUser'
  BY <1>10, <1>0
  DEF OneUser, vars, traceVars, loggedVars, Filling, Reading,
      GrabStacktrace, Goes
<1>11. ASSUME NEW t \in Threads, DumpStacktrace(t)
      PROVE  OneUser'
  BY <1>11, <1>0
  DEF OneUser, vars, traceVars, loggedVars, Filling, Reading,
      DumpStacktrace, Goes
<1>12. ASSUME NEW t \in Threads, HashStackTrace(t)
      PROVE  OneUser'
  BY <1>12, <1>0
  DEF OneUser, vars, traceVars, loggedVars, Filling, Reading,
      HashStackTrace, Goes
<1>13. ASSUME NEW t \in Threads, FindException(t)
      PROVE  OneUser'
  BY <1>13, <1>0
  DEF OneUser, vars, traceVars, loggedVars, Filling, Reading, FindException,
      Goes
<1>14. ASSUME NEW t \in Threads, LogTrace(t)
      PROVE  OneUser'
  BY <1>14, <1>0
  DEF OneUser, vars, traceVars, loggedVars, Filling, Reading, LogTrace, Goes
<1>15. ASSUME NEW t \in Threads, InsertException(t)
      PROVE  OneUser'
  BY <1>15, <1>0
  DEF OneUser, vars, traceVars, loggedVars, Filling, Reading,
      InsertException, Goes
<1>16. ASSUME NEW t \in Threads, InsertRaces(t)
      PROVE  OneUser'
  BY <1>16, <1>0
  DEF OneUser, vars, traceVars, loggedVars, Filling, Reading, InsertRaces,
      Goes, Ends
<1>17. ASSUME NEW t \in Threads, Resume(t)
      PROVE  OneUser'
  BY <1>17, <1>0
  DEF OneUser, vars, traceVars, loggedVars, Filling, Reading, Resume
<1>18. ASSUME NEW t \in Threads, GiveUp(t)
      PROVE  OneUser'
  BY <1>18, <1>0
  DEF OneUser, vars, traceVars, loggedVars, Filling, Reading, GiveUp, Ends
<1>19. CASE UNCHANGED vars
  BY <1>19 DEF OneUser, vars, traceVars, loggedVars, Filling, Reading
<1> QED
  BY <1>1, <1>2, <1>3, <1>4, <1>5, <1>6, <1>7, <1>8, <1>9, <1>10,
     <1>11, <1>12, <1>13, <1>14, <1>15, <1>16, <1>17, <1>18, <1>19
  DEF Next, Handler

(* Then the trace is of the fault of that thread. *)
LEMMA TraceStep ==
    ASSUME TypeOK, OneUser, TraceIsOwn, [Next]_vars
    PROVE  TraceIsOwn'
<1>0. /\ pc = [t \in Threads |-> pc[t]]
      /\ fault = [t \in Threads |-> fault[t]]
      /\ trace_hash = [t \in Threads |-> trace_hash[t]]
  BY DEF TypeOK
<1>1. CASE Install
  BY <1>1, <1>0
  DEF OneUser, TraceIsOwn, vars, traceVars, loggedVars, Filling, Reading,
      Install
<1>2. CASE Unload
  BY <1>2, <1>0
  DEF OneUser, TraceIsOwn, vars, traceVars, loggedVars, Filling, Reading,
      Unload
<1>3. CASE EnterVM
  BY <1>3, <1>0
  DEF OneUser, TraceIsOwn, vars, traceVars, loggedVars, Filling, Reading,
      EnterVM
<1>4. CASE LeaveVM
  BY <1>4, <1>0
  DEF OneUser, TraceIsOwn, vars, traceVars, loggedVars, Filling, Reading,
      LeaveVM
<1>5. ASSUME NEW t \in Threads, NEW f \in Faults, Fault(t, f)
      PROVE  TraceIsOwn'
  BY <1>5, <1>0
  DEF OneUser, TraceIsOwn, vars, traceVars, loggedVars, Filling, Reading,
      Fault
<1>6. ASSUME NEW t \in Threads, NEW f \in Faults, FaultEnds(t, f)
      PROVE  TraceIsOwn'
  BY <1>6, <1>0
  DEF OneUser, TraceIsOwn, vars, traceVars, loggedVars, Filling, Reading,
      FaultEnds, Ends
<1>7. ASSUME NEW t \in Threads, LockTrace(t)
      PROVE  TraceIsOwn'
  BY <1>7, <1>0
  DEF OneUser, TraceIsOwn, vars, traceVars, loggedVars, Filling, Reading,
      LockTrace, Begins, Goes
<1>8. ASSUME NEW t \in Threads, RelockThrows(t)
      PROVE  TraceIsOwn'
  BY <1>8, <1>0
  DEF OneUser, TraceIsOwn, vars, traceVars, loggedVars, Filling, Reading,
      RelockThrows, Ends
<1>9. ASSUME NEW t \in Threads, DumpScriptInfo(t)
      PROVE  TraceIsOwn'
  BY <1>9, <1>0
  DEF OneUser, TraceIsOwn, vars, traceVars, loggedVars, Filling, Reading,
      DumpScriptInfo, Goes
<1>10. ASSUME NEW t \in Threads, GrabStacktrace(t)
      PROVE  TraceIsOwn'
  BY <1>10, <1>0, GrabStarts
  DEF OneUser, TraceIsOwn, vars, traceVars, loggedVars, Filling, Reading,
      GrabStacktrace, Goes
<1>11. ASSUME NEW t \in Threads, DumpStacktrace(t)
      PROVE  TraceIsOwn'
  BY <1>11, <1>0
  DEF OneUser, TraceIsOwn, vars, traceVars, loggedVars, Filling, Reading,
      DumpStacktrace, Goes
<1>12. ASSUME NEW t \in Threads, HashStackTrace(t)
      PROVE  TraceIsOwn'
  BY <1>12, <1>0
  DEF OneUser, TraceIsOwn, vars, traceVars, loggedVars, Filling, Reading,
      HashStackTrace, Goes
<1>13. ASSUME NEW t \in Threads, FindException(t)
      PROVE  TraceIsOwn'
  BY <1>13, <1>0
  DEF OneUser, TraceIsOwn, vars, traceVars, loggedVars, Filling, Reading,
      FindException, Goes
<1>14. ASSUME NEW t \in Threads, LogTrace(t)
      PROVE  TraceIsOwn'
  BY <1>14, <1>0
  DEF OneUser, TraceIsOwn, vars, traceVars, loggedVars, Filling, Reading,
      LogTrace, Goes
<1>15. ASSUME NEW t \in Threads, InsertException(t)
      PROVE  TraceIsOwn'
  BY <1>15, <1>0
  DEF OneUser, TraceIsOwn, vars, traceVars, loggedVars, Filling, Reading,
      InsertException, Goes
<1>16. ASSUME NEW t \in Threads, InsertRaces(t)
      PROVE  TraceIsOwn'
  <2>1. CASE Ends
    BY <2>1 DEF TraceIsOwn, Ends, traceVars
  <2>2. CASE Goes(t, "insert", "resume") /\ UNCHANGED <<trace_hash, traceVars, quiet>>
    BY <2>2, <1>0 DEF TraceIsOwn, traceVars, Reading, Goes
  <2> QED
    BY <1>16, <2>1, <2>2 DEF InsertRaces
<1>17. ASSUME NEW t \in Threads, Resume(t)
      PROVE  TraceIsOwn'
  BY <1>17, <1>0
  DEF OneUser, TraceIsOwn, vars, traceVars, loggedVars, Filling, Reading,
      Resume
<1>18. ASSUME NEW t \in Threads, GiveUp(t)
      PROVE  TraceIsOwn'
  BY <1>18, <1>0
  DEF OneUser, TraceIsOwn, vars, traceVars, loggedVars, Filling, Reading,
      GiveUp, Ends
<1>19. CASE UNCHANGED vars
  BY <1>19
  DEF OneUser, TraceIsOwn, vars, traceVars, loggedVars, Filling, Reading
<1> QED
  BY <1>1, <1>2, <1>3, <1>4, <1>5, <1>6, <1>7, <1>8, <1>9, <1>10,
     <1>11, <1>12, <1>13, <1>14, <1>15, <1>16, <1>17, <1>18, <1>19
  DEF Next, Handler

(* The text of every trace in the set is in the log. *)
LEMMA LoggedStep ==
    ASSUME TypeOK, LoggedIsShown, InsertedIsLogged, [Next]_vars
    PROVE  LoggedIsShown'
<1>1. CASE Install
  BY <1>1
  DEF LoggedIsShown, InsertedIsLogged, vars, traceVars, loggedVars, Install
<1>2. CASE Unload
  BY <1>2
  DEF LoggedIsShown, InsertedIsLogged, vars, traceVars, loggedVars, Unload
<1>3. CASE EnterVM
  BY <1>3
  DEF LoggedIsShown, InsertedIsLogged, vars, traceVars, loggedVars, EnterVM
<1>4. CASE LeaveVM
  BY <1>4
  DEF LoggedIsShown, InsertedIsLogged, vars, traceVars, loggedVars, LeaveVM
<1>5. ASSUME NEW t \in Threads, NEW f \in Faults, Fault(t, f)
      PROVE  LoggedIsShown'
  BY <1>5
  DEF LoggedIsShown, InsertedIsLogged, vars, traceVars, loggedVars, Fault
<1>6. ASSUME NEW t \in Threads, NEW f \in Faults, FaultEnds(t, f)
      PROVE  LoggedIsShown'
  BY <1>6
  DEF LoggedIsShown, InsertedIsLogged, vars, traceVars, loggedVars,
      FaultEnds, Ends
<1>7. ASSUME NEW t \in Threads, LockTrace(t)
      PROVE  LoggedIsShown'
  BY <1>7
  DEF LoggedIsShown, InsertedIsLogged, vars, traceVars, loggedVars,
      LockTrace, Begins, Goes
<1>8. ASSUME NEW t \in Threads, RelockThrows(t)
      PROVE  LoggedIsShown'
  BY <1>8
  DEF LoggedIsShown, InsertedIsLogged, vars, traceVars, loggedVars,
      RelockThrows, Ends
<1>9. ASSUME NEW t \in Threads, DumpScriptInfo(t)
      PROVE  LoggedIsShown'
  BY <1>9
  DEF LoggedIsShown, InsertedIsLogged, vars, traceVars, loggedVars,
      DumpScriptInfo, Goes
<1>10. ASSUME NEW t \in Threads, GrabStacktrace(t)
      PROVE  LoggedIsShown'
  BY <1>10
  DEF LoggedIsShown, InsertedIsLogged, vars, traceVars, loggedVars,
      GrabStacktrace, Goes
<1>11. ASSUME NEW t \in Threads, DumpStacktrace(t)
      PROVE  LoggedIsShown'
  BY <1>11
  DEF LoggedIsShown, InsertedIsLogged, vars, traceVars, loggedVars,
      DumpStacktrace, Goes
<1>12. ASSUME NEW t \in Threads, HashStackTrace(t)
      PROVE  LoggedIsShown'
  BY <1>12
  DEF LoggedIsShown, InsertedIsLogged, vars, traceVars, loggedVars,
      HashStackTrace, Goes
<1>13. ASSUME NEW t \in Threads, FindException(t)
      PROVE  LoggedIsShown'
  BY <1>13
  DEF LoggedIsShown, InsertedIsLogged, vars, traceVars, loggedVars,
      FindException, Goes
<1>14. ASSUME NEW t \in Threads, LogTrace(t)
      PROVE  LoggedIsShown'
  BY <1>14
  DEF LoggedIsShown, InsertedIsLogged, vars, traceVars, loggedVars,
      LogTrace, Goes
<1>15. ASSUME NEW t \in Threads, InsertException(t)
      PROVE  LoggedIsShown'
  BY <1>15
  DEF LoggedIsShown, InsertedIsLogged, vars, traceVars, loggedVars,
      InsertException, Goes
<1>16. ASSUME NEW t \in Threads, InsertRaces(t)
      PROVE  LoggedIsShown'
  BY <1>16
  DEF LoggedIsShown, InsertedIsLogged, vars, traceVars, loggedVars,
      InsertRaces, Goes, Ends
<1>17. ASSUME NEW t \in Threads, Resume(t)
      PROVE  LoggedIsShown'
  BY <1>17
  DEF LoggedIsShown, InsertedIsLogged, vars, traceVars, loggedVars, Resume
<1>18. ASSUME NEW t \in Threads, GiveUp(t)
      PROVE  LoggedIsShown'
  BY <1>18
  DEF LoggedIsShown, InsertedIsLogged, vars, traceVars, loggedVars, GiveUp,
      Ends
<1>19. CASE UNCHANGED vars
  BY <1>19 DEF LoggedIsShown, InsertedIsLogged, vars, traceVars, loggedVars
<1> QED
  BY <1>1, <1>2, <1>3, <1>4, <1>5, <1>6, <1>7, <1>8, <1>9, <1>10,
     <1>11, <1>12, <1>13, <1>14, <1>15, <1>16, <1>17, <1>18, <1>19
  DEF Next, Handler

(* A trace is inserted that was logged. *)
LEMMA InsertedStep ==
    ASSUME TypeOK, TraceIsOwn, InsertedIsLogged, [Next]_vars
    PROVE  InsertedIsLogged'
<1>1. CASE Install
  BY <1>1
  DEF TypeOK, TraceIsOwn, InsertedIsLogged, vars, traceVars, loggedVars,
      Reading, Install
<1>2. CASE Unload
  BY <1>2
  DEF TypeOK, TraceIsOwn, InsertedIsLogged, vars, traceVars, loggedVars,
      Reading, Unload
<1>3. CASE EnterVM
  BY <1>3
  DEF TypeOK, TraceIsOwn, InsertedIsLogged, vars, traceVars, loggedVars,
      Reading, EnterVM
<1>4. CASE LeaveVM
  BY <1>4
  DEF TypeOK, TraceIsOwn, InsertedIsLogged, vars, traceVars, loggedVars,
      Reading, LeaveVM
<1>5. ASSUME NEW t \in Threads, NEW f \in Faults, Fault(t, f)
      PROVE  InsertedIsLogged'
  BY <1>5
  DEF TypeOK, TraceIsOwn, InsertedIsLogged, vars, traceVars, loggedVars,
      Reading, Fault
<1>6. ASSUME NEW t \in Threads, NEW f \in Faults, FaultEnds(t, f)
      PROVE  InsertedIsLogged'
  BY <1>6
  DEF TypeOK, TraceIsOwn, InsertedIsLogged, vars, traceVars, loggedVars,
      Reading, FaultEnds, Ends
<1>7. ASSUME NEW t \in Threads, LockTrace(t)
      PROVE  InsertedIsLogged'
  BY <1>7
  DEF TypeOK, TraceIsOwn, InsertedIsLogged, vars, traceVars, loggedVars,
      Reading, LockTrace, Begins, Goes
<1>8. ASSUME NEW t \in Threads, RelockThrows(t)
      PROVE  InsertedIsLogged'
  BY <1>8
  DEF TypeOK, TraceIsOwn, InsertedIsLogged, vars, traceVars, loggedVars,
      Reading, RelockThrows, Ends
<1>9. ASSUME NEW t \in Threads, DumpScriptInfo(t)
      PROVE  InsertedIsLogged'
  BY <1>9
  DEF TypeOK, TraceIsOwn, InsertedIsLogged, vars, traceVars, loggedVars,
      Reading, DumpScriptInfo, Goes
<1>10. ASSUME NEW t \in Threads, GrabStacktrace(t)
      PROVE  InsertedIsLogged'
  BY <1>10
  DEF TypeOK, TraceIsOwn, InsertedIsLogged, vars, traceVars, loggedVars,
      Reading, GrabStacktrace, Goes
<1>11. ASSUME NEW t \in Threads, DumpStacktrace(t)
      PROVE  InsertedIsLogged'
  BY <1>11
  DEF TypeOK, TraceIsOwn, InsertedIsLogged, vars, traceVars, loggedVars,
      Reading, DumpStacktrace, Goes
<1>12. ASSUME NEW t \in Threads, HashStackTrace(t)
      PROVE  InsertedIsLogged'
  BY <1>12
  DEF TypeOK, TraceIsOwn, InsertedIsLogged, vars, traceVars, loggedVars,
      Reading, HashStackTrace, Goes
<1>13. ASSUME NEW t \in Threads, FindException(t)
      PROVE  InsertedIsLogged'
  BY <1>13
  DEF TypeOK, TraceIsOwn, InsertedIsLogged, vars, traceVars, loggedVars,
      Reading, FindException, Goes
<1>14. ASSUME NEW t \in Threads, LogTrace(t)
      PROVE  InsertedIsLogged'
  BY <1>14, ShownShows
  DEF TypeOK, TraceIsOwn, InsertedIsLogged, vars, traceVars, loggedVars,
      Reading, LogTrace, Goes
<1>15. ASSUME NEW t \in Threads, InsertException(t)
      PROVE  InsertedIsLogged'
  BY <1>15
  DEF TypeOK, TraceIsOwn, InsertedIsLogged, vars, traceVars, loggedVars,
      Reading, InsertException, Goes
<1>16. ASSUME NEW t \in Threads, InsertRaces(t)
      PROVE  InsertedIsLogged'
  BY <1>16
  DEF TypeOK, TraceIsOwn, InsertedIsLogged, vars, traceVars, loggedVars,
      Reading, InsertRaces, Goes, Ends
<1>17. ASSUME NEW t \in Threads, Resume(t)
      PROVE  InsertedIsLogged'
  BY <1>17
  DEF TypeOK, TraceIsOwn, InsertedIsLogged, vars, traceVars, loggedVars,
      Reading, Resume
<1>18. ASSUME NEW t \in Threads, GiveUp(t)
      PROVE  InsertedIsLogged'
  BY <1>18
  DEF TypeOK, TraceIsOwn, InsertedIsLogged, vars, traceVars, loggedVars,
      Reading, GiveUp, Ends
<1>19. CASE UNCHANGED vars
  BY <1>19
  DEF TypeOK, TraceIsOwn, InsertedIsLogged, vars, traceVars, loggedVars,
      Reading
<1> QED
  BY <1>1, <1>2, <1>3, <1>4, <1>5, <1>6, <1>7, <1>8, <1>9, <1>10,
     <1>11, <1>12, <1>13, <1>14, <1>15, <1>16, <1>17, <1>18, <1>19
  DEF Next, Handler

(* A hash that is found is of frames that were logged. *)
LEMMA FoundShows ==
    ASSUME TypeOK, TraceIsOwn, LoggedIsShown, NEW t \in Threads, quiet,
           pc[t] = "find", trace_hash[t] \in logged_exceptions
    PROVE  \E text \in log : Shows(text, fault[t])
<1>1. Shown(trace_hash[t]) \in log
  BY DEF LoggedIsShown
<1>2. Starts(trace_hash[t], fault[t])
  BY DEF TraceIsOwn, Reading
<1>3. trace_hash[t] \in FramePointers /\ fault[t] \in Faults
  BY DEF TypeOK
<1> QED
  BY <1>1, <1>2, <1>3, ShownShows

LEMMA LogShows ==
    ASSUME InsertedIsLogged, quiet, NEW t \in Threads, pc[t] = "insert"
    PROVE  \E text \in log : Shows(text, fault[t])
BY DEF InsertedIsLogged

(* A thread is resumed whose fault was logged. *)
LEMMA HandledStep ==
    ASSUME TypeOK, TraceIsOwn, LoggedIsShown, InsertedIsLogged, HandledIsLogged, [Next]_vars
    PROVE  HandledIsLogged'
<1>1. CASE Install
  BY <1>1 DEF TypeOK, HandledIsLogged, vars, traceVars, loggedVars, Install
<1>2. CASE Unload
  BY <1>2 DEF TypeOK, HandledIsLogged, vars, traceVars, loggedVars, Unload
<1>3. CASE EnterVM
  BY <1>3 DEF TypeOK, HandledIsLogged, vars, traceVars, loggedVars, EnterVM
<1>4. CASE LeaveVM
  BY <1>4 DEF TypeOK, HandledIsLogged, vars, traceVars, loggedVars, LeaveVM
<1>5. ASSUME NEW t \in Threads, NEW f \in Faults, Fault(t, f)
      PROVE  HandledIsLogged'
  BY <1>5 DEF TypeOK, HandledIsLogged, vars, traceVars, loggedVars, Fault
<1>6. ASSUME NEW t \in Threads, NEW f \in Faults, FaultEnds(t, f)
      PROVE  HandledIsLogged'
  BY <1>6
  DEF TypeOK, HandledIsLogged, vars, traceVars, loggedVars, FaultEnds, Ends
<1>7. ASSUME NEW t \in Threads, LockTrace(t)
      PROVE  HandledIsLogged'
  BY <1>7
  DEF TypeOK, HandledIsLogged, vars, traceVars, loggedVars, LockTrace,
      Begins, Goes
<1>8. ASSUME NEW t \in Threads, RelockThrows(t)
      PROVE  HandledIsLogged'
  BY <1>8
  DEF TypeOK, HandledIsLogged, vars, traceVars, loggedVars, RelockThrows,
      Ends
<1>9. ASSUME NEW t \in Threads, DumpScriptInfo(t)
      PROVE  HandledIsLogged'
  BY <1>9
  DEF TypeOK, HandledIsLogged, vars, traceVars, loggedVars, DumpScriptInfo,
      Goes
<1>10. ASSUME NEW t \in Threads, GrabStacktrace(t)
      PROVE  HandledIsLogged'
  BY <1>10
  DEF TypeOK, HandledIsLogged, vars, traceVars, loggedVars, GrabStacktrace,
      Goes
<1>11. ASSUME NEW t \in Threads, DumpStacktrace(t)
      PROVE  HandledIsLogged'
  BY <1>11
  DEF TypeOK, HandledIsLogged, vars, traceVars, loggedVars, DumpStacktrace,
      Goes
<1>12. ASSUME NEW t \in Threads, HashStackTrace(t)
      PROVE  HandledIsLogged'
  BY <1>12
  DEF TypeOK, HandledIsLogged, vars, traceVars, loggedVars, HashStackTrace,
      Goes
<1>13. ASSUME NEW t \in Threads, FindException(t)
      PROVE  HandledIsLogged'
  BY <1>13, FoundShows
  DEF TypeOK, HandledIsLogged, vars, traceVars, loggedVars, FindException,
      Goes
<1>14. ASSUME NEW t \in Threads, LogTrace(t)
      PROVE  HandledIsLogged'
  BY <1>14
  DEF TypeOK, HandledIsLogged, vars, traceVars, loggedVars, LogTrace, Goes
<1>15. ASSUME NEW t \in Threads, InsertException(t)
      PROVE  HandledIsLogged'
  BY <1>15, LogShows
  DEF TypeOK, HandledIsLogged, vars, traceVars, loggedVars, InsertException,
      Goes
<1>16. ASSUME NEW t \in Threads, InsertRaces(t)
      PROVE  HandledIsLogged'
  BY <1>16, LogShows
  DEF TypeOK, HandledIsLogged, vars, traceVars, loggedVars, InsertRaces,
      Goes, Ends
<1>17. ASSUME NEW t \in Threads, Resume(t)
      PROVE  HandledIsLogged'
  BY <1>17 DEF TypeOK, HandledIsLogged, vars, traceVars, loggedVars, Resume
<1>18. ASSUME NEW t \in Threads, GiveUp(t)
      PROVE  HandledIsLogged'
  BY <1>18
  DEF TypeOK, HandledIsLogged, vars, traceVars, loggedVars, GiveUp, Ends
<1>19. CASE UNCHANGED vars
  BY <1>19 DEF TypeOK, HandledIsLogged, vars, traceVars, loggedVars
<1> QED
  BY <1>1, <1>2, <1>3, <1>4, <1>5, <1>6, <1>7, <1>8, <1>9, <1>10,
     <1>11, <1>12, <1>13, <1>14, <1>15, <1>16, <1>17, <1>18, <1>19
  DEF Next, Handler

------------------------------------------------------------------------------
LEMMA Initially == Init => IInv
<1> SUFFICES ASSUME Init PROVE IInv
  OBVIOUS
<1>1. m_frame_pointers \in FramePointers /\ trace_hash \in [Threads -> FramePointers]
  BY NoFramesType DEF Init
<1>2. m_dump \in Seq(Frames)
  BY DEF Init
<1>3. pc \in [Threads -> {"game", "lock", "insert", "resume"} \cup Filling \cup Reading]
  BY DEF Init
<1>4. TypeOK
  BY <1>1, <1>2, <1>3 DEF Init, TypeOK
<1> QED
  BY <1>4
  DEF Init, IInv, Mutex, OneUser, TraceIsOwn, LoggedIsShown,
      InsertedIsLogged,
     HandledIsLogged, Filling, Reading

LEMMA Inductive == IInv /\ [Next]_vars => IInv'
BY TypeStep, MutexStep, OneUserStep, TraceStep, LoggedStep, InsertedStep, HandledStep
DEF IInv

THEOREM Invariance == Spec => []IInv
BY Initially, Inductive, PTL DEF Spec

(* The types hold in every state, whatever faults there are. *)
THEOREM TypeCorrect == Spec => []TypeOK
<1>1. IInv => TypeOK
  BY DEF IInv
<1> QED
  BY <1>1, Invariance, PTL

(* Execution is resumed after a fault only when a text with its frames is in
   the log (vectored_exception_handler), for any number of threads. *)
THEOREM Logged == Spec => []HandledIsLogged
<1>1. IInv => HandledIsLogged
  BY DEF IInv
<1> QED
  BY <1>1, Invariance, PTL
==============================================================================
