---------------------------- MODULE SettingsProofs ----------------------------
(***************************************************************************)
(* Proofs about Settings, for any options, values, files and launches.     *)
(* IInv is the inductive invariant: that the autosave job and the pool     *)
(* agree, how far the file is whole, what load() has read, and between     *)
(* which values a snapshot is.                                             *)
(***************************************************************************)
EXTENDS Settings, TLAPS

Loading == {"load", "truncate_default", "write_default", "parse", "compare", "apply"}

(* The autosave job executes when the worker has it, not before load() has
   pushed it, and not after the pool was joined. *)
SaverIsJob ==
    /\ saverPc = "none" <=> executing[Worker] = NoJob
    /\ mainPc \in LoadPcs => saverPc = "none" /\ pending = {}
    /\ mainPc = "unloaded" => saverPc = "none"

(* Behind load()'s recovery the file is whole but while it is written. *)
FileWhole ==
    /\ mainPc = "compare" => file.kind \in {"object", "scalar"}
    /\ mainPc \in {"apply", "truncate", "push"} => file.kind = "object"
    /\ mainPc \in {"running", "unloaded"} \cup UnloadPcs =>
         file.kind = "object" \/ (saverPc \in {"resnapshot", "write"} /\ fileOpen)

Readable == \A k \in Keys : m_options[k] # Unreadable

(* What load() has read, and what it has made of it. *)
LoadedSoFar ==
    /\ mainPc \in Loading => options = Defaults
    /\ mainPc = "compare" => m_options = file.data
    /\ mainPc = "apply" => \A k \in Keys : m_options[k] # Absent
    /\ mainPc = "apply" /\ ~should_save => file = Object(m_options)
    /\ mainPc \in {"truncate", "save"} => Readable /\ m_options = options
    /\ mainPc = "push" /\ failures = 0 /\ Readable =>
         m_options = options /\ file = Object(options)

(* Options only grow while the menu runs, and every opening succeeds. *)
Growing == mainPc = "running" /\ ~Reuse /\ failures = 0

(* What was compared is not newer than the options, ... *)
ComparedBelow ==
    Growing /\ Readable => \A k \in Keys : m_options[k] <= options[k]

(* nor is what the first snapshot has read; ... *)
ReadBelow ==
    Growing =>
    /\ saverPc = "snapshot" => \A k \in Keys : k < position => snapshot[k] <= options[k]
    /\ saverPc = "compare" => \A k \in Keys : snapshot[k] <= options[k]

SavingReadable ==
    Growing /\ Saving => Readable /\ (saverPc = "truncate" \/ fileOpen)

(* the second is between the two, ... *)
RereadBetween ==
    Growing =>
    /\ saverPc = "resnapshot" =>
         \A k \in Keys : k < position =>
             m_options[k] <= snapshot[k] /\ snapshot[k] <= options[k]
    /\ saverPc = "write" =>
         \A k \in Keys : m_options[k] <= snapshot[k] /\ snapshot[k] <= options[k]

(* and so is the file. *)
SavedBetween ==
    Growing /\ ~Saving /\ Readable =>
    /\ file.kind = "object"
    /\ \A k \in Keys : m_options[k] <= file.data[k] /\ file.data[k] <= options[k]

SnapshotBetween ==
    ComparedBelow /\ ReadBelow /\ SavingReadable /\ RereadBetween /\ SavedBetween

(* The parts of TypeOK *)
PcTypes ==
    /\ mainPc \in LoadPcs \cup UnloadPcs \cup {"running", "unloaded", "aborted", "off"}
    /\ saverPc \in {"none", "test", "sleep", "snapshot", "compare", "truncate",
                    "resnapshot", "write"}
    /\ m_running \in BOOLEAN /\ should_save \in BOOLEAN /\ fileOpen \in BOOLEAN

DataTypes ==
    /\ options \in Options
    /\ m_options \in [Keys -> Values \cup {Absent, Unreadable}]
    /\ file \in Files
    /\ snapshot \in Options
    /\ position \in 1 .. (KeyCount + 1)

CountTypes ==
    /\ launches \in 0 .. MaxLaunches
    /\ failures \in 0 .. MaxFailures

IInv ==
    /\ TypeOK
    /\ SaverIsJob
    /\ FileWhole
    /\ LoadedSoFar
    /\ SnapshotBetween

------------------------------------------------------------------------------
(* from_json reads all options if, and only if, none is unreadable. *)
LEMMA TypeParts == TypeOK <=> PcTypes /\ DataTypes /\ CountTypes /\ Pool!TypeOK
BY DEF TypeOK, PcTypes, DataTypes, CountTypes

LEMMA ReadableAll == BeforeUnreadable = Keys <=> Readable
<1>1. \A k \in Keys : k \in 1 .. k /\ 1 .. k \subseteq Keys
  BY SettingsAssumption DEF Keys
<1>2. Readable => BeforeUnreadable = Keys
  BY <1>1 DEF BeforeUnreadable, Readable
<1>3. BeforeUnreadable = Keys => Readable
  BY <1>1 DEF BeforeUnreadable, Readable
<1> QED
  BY <1>2, <1>3

(* What a file can be. *)
LEMMA FileData ==
    ASSUME NEW f \in Files
    PROVE  /\ f.data \in [Keys -> Values \cup {Absent, Unreadable}]
           /\ f.kind \in {"missing", "garbage", "scalar", "object"}
           /\ f.kind = "object" => f = Object(f.data)
<1>1. Defaults \in [Keys -> Values \cup {Absent, Unreadable}]
  BY SettingsAssumption DEF Defaults, Values
<1>2. CASE f \in {Missing, Garbage, Scalar}
  BY <1>1, <1>2 DEF Missing, Garbage, Scalar, NoObject
<1>3. CASE \E data \in [Keys -> Values \cup {Absent, Unreadable}] : f = Object(data)
  BY <1>3 DEF Object
<1> QED
  BY <1>2, <1>3 DEF Files

LEMMA FileValues ==
    /\ Garbage \in Files /\ Garbage.kind = "garbage"
    /\ Defaults \in Options
    /\ \A data \in Options :
         /\ Object(data) \in Files
         /\ Object(data).kind = "object" /\ Object(data).data = data
<1>1. \A data \in [Keys -> Values \cup {Absent, Unreadable}] :
        Object(data) \in Files /\ Object(data).kind = "object" /\ Object(data).data = data
  BY DEF Files, Object
<1>2. Options \subseteq [Keys -> Values \cup {Absent, Unreadable}]
  BY DEF Options
<1>3. Garbage \in Files /\ Garbage.kind = "garbage"
  BY DEF Files, Garbage, NoObject
<1>4. Defaults \in Options
  BY SettingsAssumption DEF Defaults, Options, Values
<1> QED
  BY <1>1, <1>2, <1>3, <1>4

(* Every step keeps the types. *)
LEMMA PcStep ==
    ASSUME PcTypes, [Next]_vars
    PROVE  PcTypes'
<1>1. CASE LoadStart
  BY <1>1
  DEF PcTypes, LoadPcs, UnloadPcs, vars, saverVars, bounds, poolVars,
      LoadStart
<1>2. CASE TruncateDefault
  BY <1>2
  DEF PcTypes, LoadPcs, UnloadPcs, vars, saverVars, bounds, poolVars,
      TruncateDefault, OpenForWriting
<1>3. CASE WriteDefault
  BY <1>3
  DEF PcTypes, LoadPcs, UnloadPcs, vars, saverVars, bounds, poolVars,
      WriteDefault
<1>4. CASE Parse
  BY <1>4
  DEF PcTypes, LoadPcs, UnloadPcs, vars, saverVars, bounds, poolVars, Parse
<1>5. CASE CompareDefaults
  BY <1>5
  DEF PcTypes, LoadPcs, UnloadPcs, vars, saverVars, bounds, poolVars,
      CompareDefaults
<1>6. CASE Apply
  BY <1>6
  DEF PcTypes, LoadPcs, UnloadPcs, vars, saverVars, bounds, poolVars, Apply
<1>7. CASE TruncateUpdated
  BY <1>7
  DEF PcTypes, LoadPcs, UnloadPcs, vars, saverVars, bounds, poolVars,
      TruncateUpdated, OpenForWriting
<1>8. CASE SaveUpdated
  BY <1>8
  DEF PcTypes, LoadPcs, UnloadPcs, vars, saverVars, bounds, poolVars,
      SaveUpdated
<1>9. CASE PushAutosave
  BY <1>9
  DEF PcTypes, LoadPcs, UnloadPcs, vars, saverVars, bounds, poolVars,
      PushAutosave, Pool!Submit
<1>10. ASSUME NEW k \in Keys, NEW v \in Values, Change(k, v) PROVE PcTypes'
  BY <1>10
  DEF PcTypes, LoadPcs, UnloadPcs, vars, saverVars, bounds, poolVars, Change
<1>11. CASE StartAutosave
  BY <1>11
  DEF PcTypes, LoadPcs, UnloadPcs, vars, saverVars, bounds, poolVars,
      StartAutosave, Pool!Start
<1>12. CASE TestRunning
  BY <1>12
  DEF PcTypes, LoadPcs, UnloadPcs, vars, saverVars, bounds, poolVars,
      TestRunning, Pool!Finish
<1>13. CASE SleepOver
  BY <1>13
  DEF PcTypes, LoadPcs, UnloadPcs, vars, saverVars, bounds, poolVars,
      SleepOver
<1>14. CASE ReadOption("snapshot", "compare")
  BY <1>14
  DEF PcTypes, LoadPcs, UnloadPcs, vars, saverVars, bounds, poolVars,
      ReadOption
<1>15. CASE CompareSnapshot
  BY <1>15
  DEF PcTypes, LoadPcs, UnloadPcs, vars, saverVars, bounds, poolVars,
      CompareSnapshot
<1>16. CASE TruncateFile
  BY <1>16
  DEF PcTypes, LoadPcs, UnloadPcs, vars, saverVars, bounds, poolVars,
      TruncateFile, OpenForWriting
<1>17. CASE ReadOption("resnapshot", "write")
  BY <1>17
  DEF PcTypes, LoadPcs, UnloadPcs, vars, saverVars, bounds, poolVars,
      ReadOption
<1>18. CASE WriteSnapshot
  BY <1>18
  DEF PcTypes, LoadPcs, UnloadPcs, vars, saverVars, bounds, poolVars,
      WriteSnapshot
<1>19. CASE DisableHooks
  BY <1>19
  DEF PcTypes, LoadPcs, UnloadPcs, vars, saverVars, bounds, poolVars,
      DisableHooks, MainGoes
<1>20. CASE DestroySettings
  BY <1>20
  DEF PcTypes, LoadPcs, UnloadPcs, vars, saverVars, bounds, poolVars,
      DestroySettings, MainGoes
<1>21. CASE ClosePool
  BY <1>21
  DEF PcTypes, LoadPcs, UnloadPcs, vars, saverVars, bounds, poolVars,
      ClosePool, MainGoes, Pool!Close
<1>22. CASE JoinPool
  BY <1>22
  DEF PcTypes, LoadPcs, UnloadPcs, vars, saverVars, bounds, poolVars,
      JoinPool, MainGoes, Pool!Stop, Pool!Executing
<1>23. CASE Crash
  BY <1>23
  DEF PcTypes, LoadPcs, UnloadPcs, vars, saverVars, bounds, poolVars, Crash
<1>24. CASE Launch
  BY <1>24
  DEF PcTypes, LoadPcs, UnloadPcs, vars, saverVars, bounds, poolVars, Launch
<1>25. CASE UNCHANGED vars
  BY <1>25
  DEF PcTypes, LoadPcs, UnloadPcs, vars, saverVars, bounds, poolVars
<1> QED
  BY <1>1, <1>2, <1>3, <1>4, <1>5, <1>6, <1>7, <1>8, <1>9, <1>10, <1>11,
     <1>12, <1>13, <1>14, <1>15, <1>16, <1>17, <1>18, <1>19, <1>20,
     <1>21, <1>22, <1>23, <1>24, <1>25
  DEF Next, Load, Saver, Unload

(* The bounds are kept. *)
LEMMA CountStep ==
    ASSUME CountTypes, [Next]_vars
    PROVE  CountTypes'
<1>1. CASE LoadStart
  BY <1>1, SettingsAssumption
  DEF CountTypes, vars, saverVars, bounds, poolVars, LoadStart
<1>2. CASE TruncateDefault
  BY <1>2, SettingsAssumption
  DEF CountTypes, vars, saverVars, bounds, poolVars, TruncateDefault,
      OpenForWriting
<1>3. CASE WriteDefault
  BY <1>3, SettingsAssumption
  DEF CountTypes, vars, saverVars, bounds, poolVars, WriteDefault
<1>4. CASE Parse
  BY <1>4, SettingsAssumption
  DEF CountTypes, vars, saverVars, bounds, poolVars, Parse
<1>5. CASE CompareDefaults
  BY <1>5, SettingsAssumption
  DEF CountTypes, vars, saverVars, bounds, poolVars, CompareDefaults
<1>6. CASE Apply
  BY <1>6, SettingsAssumption
  DEF CountTypes, vars, saverVars, bounds, poolVars, Apply
<1>7. CASE TruncateUpdated
  BY <1>7, SettingsAssumption
  DEF CountTypes, vars, saverVars, bounds, poolVars, TruncateUpdated,
      OpenForWriting
<1>8. CASE SaveUpdated
  BY <1>8, SettingsAssumption
  DEF CountTypes, vars, saverVars, bounds, poolVars, SaveUpdated
<1>9. CASE PushAutosave
  BY <1>9, SettingsAssumption
  DEF CountTypes, vars, saverVars, bounds, poolVars, PushAutosave,
      Pool!Submit
<1>10. ASSUME NEW k \in Keys, NEW v \in Values, Change(k, v) PROVE CountTypes'
  BY <1>10, SettingsAssumption
  DEF CountTypes, vars, saverVars, bounds, poolVars, Change
<1>11. CASE StartAutosave
  BY <1>11, SettingsAssumption
  DEF CountTypes, vars, saverVars, bounds, poolVars, StartAutosave,
      Pool!Start
<1>12. CASE TestRunning
  BY <1>12, SettingsAssumption
  DEF CountTypes, vars, saverVars, bounds, poolVars, TestRunning,
      Pool!Finish
<1>13. CASE SleepOver
  BY <1>13, SettingsAssumption
  DEF CountTypes, vars, saverVars, bounds, poolVars, SleepOver
<1>14. CASE ReadOption("snapshot", "compare")
  BY <1>14, SettingsAssumption
  DEF CountTypes, vars, saverVars, bounds, poolVars, ReadOption
<1>15. CASE CompareSnapshot
  BY <1>15, SettingsAssumption
  DEF CountTypes, vars, saverVars, bounds, poolVars, CompareSnapshot
<1>16. CASE TruncateFile
  BY <1>16, SettingsAssumption
  DEF CountTypes, vars, saverVars, bounds, poolVars, TruncateFile,
      OpenForWriting
<1>17. CASE ReadOption("resnapshot", "write")
  BY <1>17, SettingsAssumption
  DEF CountTypes, vars, saverVars, bounds, poolVars, ReadOption
<1>18. CASE WriteSnapshot
  BY <1>18, SettingsAssumption
  DEF CountTypes, vars, saverVars, bounds, poolVars, WriteSnapshot
<1>19. CASE DisableHooks
  BY <1>19, SettingsAssumption
  DEF CountTypes, vars, saverVars, bounds, poolVars, DisableHooks, MainGoes
<1>20. CASE DestroySettings
  BY <1>20, SettingsAssumption
  DEF CountTypes, vars, saverVars, bounds, poolVars, DestroySettings,
      MainGoes
<1>21. CASE ClosePool
  BY <1>21, SettingsAssumption
  DEF CountTypes, vars, saverVars, bounds, poolVars, ClosePool, MainGoes,
      Pool!Close
<1>22. CASE JoinPool
  BY <1>22, SettingsAssumption
  DEF CountTypes, vars, saverVars, bounds, poolVars, JoinPool, MainGoes,
      Pool!Stop, Pool!Executing
<1>23. CASE Crash
  BY <1>23, SettingsAssumption
  DEF CountTypes, vars, saverVars, bounds, poolVars, Crash
<1>24. CASE Launch
  BY <1>24, SettingsAssumption
  DEF CountTypes, vars, saverVars, bounds, poolVars, Launch
<1>25. CASE UNCHANGED vars
  BY <1>25, SettingsAssumption
  DEF CountTypes, vars, saverVars, bounds, poolVars
<1> QED
  BY <1>1, <1>2, <1>3, <1>4, <1>5, <1>6, <1>7, <1>8, <1>9, <1>10, <1>11,
     <1>12, <1>13, <1>14, <1>15, <1>16, <1>17, <1>18, <1>19, <1>20,
     <1>21, <1>22, <1>23, <1>24, <1>25
  DEF Next, Load, Saver, Unload

(* The pool has but one job. *)
LEMMA PoolStep ==
    ASSUME Pool!TypeOK, [Next]_vars
    PROVE  Pool!TypeOK'
<1>1. CASE LoadStart
  BY <1>1
  DEF Pool!TypeOK, vars, saverVars, bounds, poolVars, LoadStart
<1>2. CASE TruncateDefault
  BY <1>2
  DEF Pool!TypeOK, vars, saverVars, bounds, poolVars, TruncateDefault,
      OpenForWriting
<1>3. CASE WriteDefault
  BY <1>3
  DEF Pool!TypeOK, vars, saverVars, bounds, poolVars, WriteDefault
<1>4. CASE Parse
  BY <1>4
  DEF Pool!TypeOK, vars, saverVars, bounds, poolVars, Parse
<1>5. CASE CompareDefaults
  BY <1>5
  DEF Pool!TypeOK, vars, saverVars, bounds, poolVars, CompareDefaults
<1>6. CASE Apply
  BY <1>6
  DEF Pool!TypeOK, vars, saverVars, bounds, poolVars, Apply
<1>7. CASE TruncateUpdated
  BY <1>7
  DEF Pool!TypeOK, vars, saverVars, bounds, poolVars, TruncateUpdated,
      OpenForWriting
<1>8. CASE SaveUpdated
  BY <1>8
  DEF Pool!TypeOK, vars, saverVars, bounds, poolVars, SaveUpdated
<1>9. CASE PushAutosave
  BY <1>9
  DEF Pool!TypeOK, vars, saverVars, bounds, poolVars, PushAutosave,
      Pool!Submit
<1>10. ASSUME NEW k \in Keys, NEW v \in Values, Change(k, v) PROVE Pool!TypeOK'
  BY <1>10
  DEF Pool!TypeOK, vars, saverVars, bounds, poolVars, Change
<1>11. CASE StartAutosave
  BY <1>11
  DEF Pool!TypeOK, vars, saverVars, bounds, poolVars, StartAutosave,
      Pool!Start
<1>12. CASE TestRunning
  BY <1>12
  DEF Pool!TypeOK, vars, saverVars, bounds, poolVars, TestRunning,
      Pool!Finish
<1>13. CASE SleepOver
  BY <1>13
  DEF Pool!TypeOK, vars, saverVars, bounds, poolVars, SleepOver
<1>14. CASE ReadOption("snapshot", "compare")
  BY <1>14
  DEF Pool!TypeOK, vars, saverVars, bounds, poolVars, ReadOption
<1>15. CASE CompareSnapshot
  BY <1>15
  DEF Pool!TypeOK, vars, saverVars, bounds, poolVars, CompareSnapshot
<1>16. CASE TruncateFile
  BY <1>16
  DEF Pool!TypeOK, vars, saverVars, bounds, poolVars, TruncateFile,
      OpenForWriting
<1>17. CASE ReadOption("resnapshot", "write")
  BY <1>17
  DEF Pool!TypeOK, vars, saverVars, bounds, poolVars, ReadOption
<1>18. CASE WriteSnapshot
  BY <1>18
  DEF Pool!TypeOK, vars, saverVars, bounds, poolVars, WriteSnapshot
<1>19. CASE DisableHooks
  BY <1>19
  DEF Pool!TypeOK, vars, saverVars, bounds, poolVars, DisableHooks, MainGoes
<1>20. CASE DestroySettings
  BY <1>20
  DEF Pool!TypeOK, vars, saverVars, bounds, poolVars, DestroySettings,
      MainGoes
<1>21. CASE ClosePool
  BY <1>21
  DEF Pool!TypeOK, vars, saverVars, bounds, poolVars, ClosePool, MainGoes,
      Pool!Close
<1>22. CASE JoinPool
  BY <1>22
  DEF Pool!TypeOK, vars, saverVars, bounds, poolVars, JoinPool, MainGoes,
      Pool!Stop, Pool!Executing
<1>23. CASE Crash
  BY <1>23
  DEF Pool!TypeOK, vars, saverVars, bounds, poolVars, Crash
<1>24. CASE Launch
  BY <1>24
  DEF Pool!TypeOK, vars, saverVars, bounds, poolVars, Launch
<1>25. CASE UNCHANGED vars
  BY <1>25
  DEF Pool!TypeOK, vars, saverVars, bounds, poolVars
<1> QED
  BY <1>1, <1>2, <1>3, <1>4, <1>5, <1>6, <1>7, <1>8, <1>9, <1>10, <1>11,
     <1>12, <1>13, <1>14, <1>15, <1>16, <1>17, <1>18, <1>19, <1>20,
     <1>21, <1>22, <1>23, <1>24, <1>25
  DEF Next, Load, Saver, Unload

(* The options, snapshots and files are well formed. *)
LEMMA DataStep ==
    ASSUME PcTypes, DataTypes, LoadedSoFar, [Next]_vars
    PROVE  DataTypes'
<1>1. CASE LoadStart
  BY <1>1
  DEF DataTypes, vars, saverVars, bounds, poolVars, LoadStart
<1>2. CASE TruncateDefault
  BY <1>2, FileValues
  DEF DataTypes, vars, saverVars, bounds, poolVars, TruncateDefault,
      OpenForWriting
<1>3. CASE WriteDefault
  <2>1. file' \in Files
    BY <1>3, FileValues DEF WriteDefault
  <2> QED
    BY <1>3, <2>1 DEF WriteDefault, DataTypes, saverVars
<1>4. CASE Parse
  BY <1>4, FileData
  DEF DataTypes, vars, saverVars, bounds, poolVars, Parse
<1>5. CASE CompareDefaults
  <2>1. \A k \in Keys : Defaults[k] \in Values
    BY SettingsAssumption DEF Defaults, Values
  <2>2. m_options' \in [Keys -> Values \cup {Absent, Unreadable}]
    BY <1>5, <2>1 DEF CompareDefaults, DataTypes
  <2> QED
    BY <1>5, <2>2 DEF CompareDefaults, DataTypes, saverVars
<1>6. CASE Apply
  <2>1. \A k \in BeforeUnreadable : k \in Keys /\ m_options[k] \in Values
    BY <1>6 DEF Apply, LoadedSoFar, BeforeUnreadable, DataTypes, Keys
  <2>2. options' \in Options
    BY <1>6, <2>1 DEF Apply, DataTypes, Options
  <2> QED
    BY <1>6, <2>2 DEF Apply, DataTypes, saverVars
<1>7. CASE TruncateUpdated
  BY <1>7, FileValues
  DEF DataTypes, vars, saverVars, bounds, poolVars, TruncateUpdated,
      OpenForWriting
<1>8. CASE SaveUpdated
  BY <1>8, FileValues
  DEF DataTypes, vars, saverVars, bounds, poolVars, SaveUpdated
<1>9. CASE PushAutosave
  BY <1>9
  DEF DataTypes, vars, saverVars, bounds, poolVars, PushAutosave,
      Pool!Submit
<1>10. ASSUME NEW k \in Keys, NEW v \in Values, Change(k, v) PROVE DataTypes'
  <2>1. options' \in Options
    BY <1>10 DEF Change, DataTypes, Options
  <2> QED
    BY <1>10, <2>1 DEF Change, DataTypes, saverVars
<1>11. CASE StartAutosave
  BY <1>11
  DEF DataTypes, vars, saverVars, bounds, poolVars, StartAutosave,
      Pool!Start
<1>12. CASE TestRunning
  BY <1>12
  DEF DataTypes, vars, saverVars, bounds, poolVars, TestRunning, Pool!Finish
<1>13. CASE SleepOver
  BY <1>13, SettingsAssumption
  DEF DataTypes, vars, saverVars, bounds, poolVars, SleepOver
<1>14. CASE ReadOption("snapshot", "compare")
  <2>1. CASE position \in Keys
    <3>1. snapshot' \in Options
      BY <1>14, <2>1 DEF ReadOption, DataTypes, Options
    <3>2. position' \in 1 .. (KeyCount + 1)
      BY <1>14, <2>1, SettingsAssumption DEF ReadOption, DataTypes, Keys
    <3> QED
      BY <1>14, <3>1, <3>2 DEF ReadOption, DataTypes
  <2>2. CASE position \notin Keys
    BY <1>14, <2>2 DEF ReadOption, DataTypes
  <2> QED
    BY <2>1, <2>2
<1>15. CASE CompareSnapshot
  <2>1. m_options' \in [Keys -> Values \cup {Absent, Unreadable}]
    BY <1>15 DEF CompareSnapshot, DataTypes, Options
  <2> QED
    BY <1>15, <2>1 DEF CompareSnapshot, DataTypes
<1>16. CASE TruncateFile
  <2>1. file' \in Files /\ position' \in 1 .. (KeyCount + 1)
    BY <1>16, FileValues, SettingsAssumption DEF TruncateFile, OpenForWriting, DataTypes
  <2> QED
    BY <1>16, <2>1 DEF TruncateFile, DataTypes
<1>17. CASE ReadOption("resnapshot", "write")
  <2>1. CASE position \in Keys
    <3>1. snapshot' \in Options
      BY <1>17, <2>1 DEF ReadOption, DataTypes, Options
    <3>2. position' \in 1 .. (KeyCount + 1)
      BY <1>17, <2>1, SettingsAssumption DEF ReadOption, DataTypes, Keys
    <3> QED
      BY <1>17, <3>1, <3>2 DEF ReadOption, DataTypes
  <2>2. CASE position \notin Keys
    BY <1>17, <2>2 DEF ReadOption, DataTypes
  <2> QED
    BY <2>1, <2>2
<1>18. CASE WriteSnapshot
  BY <1>18, FileValues
  DEF DataTypes, vars, saverVars, bounds, poolVars, WriteSnapshot
<1>19. CASE DisableHooks
  BY <1>19
  DEF DataTypes, vars, saverVars, bounds, poolVars, DisableHooks, MainGoes
<1>20. CASE DestroySettings
  BY <1>20
  DEF DataTypes, vars, saverVars, bounds, poolVars, DestroySettings,
      MainGoes
<1>21. CASE ClosePool
  BY <1>21
  DEF DataTypes, vars, saverVars, bounds, poolVars, ClosePool, MainGoes,
      Pool!Close
<1>22. CASE JoinPool
  BY <1>22
  DEF DataTypes, vars, saverVars, bounds, poolVars, JoinPool, MainGoes,
      Pool!Stop, Pool!Executing
<1>23. CASE Crash
  BY <1>23
  DEF DataTypes, vars, saverVars, bounds, poolVars, Crash
<1>24. CASE Launch
  <2>1. Defaults \in [Keys -> Values \cup {Absent, Unreadable}]
    BY FileValues DEF Options
  <2> QED
    BY <1>24, <2>1, FileValues, SettingsAssumption DEF Launch, DataTypes
<1>25. CASE UNCHANGED vars
  BY <1>25
  DEF DataTypes, vars, saverVars, bounds, poolVars
<1> QED
  BY <1>1, <1>2, <1>3, <1>4, <1>5, <1>6, <1>7, <1>8, <1>9, <1>10, <1>11,
     <1>12, <1>13, <1>14, <1>15, <1>16, <1>17, <1>18, <1>19, <1>20,
     <1>21, <1>22, <1>23, <1>24, <1>25
  DEF Next, Load, Saver, Unload

(* The job executes as the pool says. *)
LEMMA SaverStep ==
    ASSUME PcTypes, Pool!TypeOK, SaverIsJob, [Next]_vars
    PROVE  SaverIsJob'
<1>1. CASE LoadStart
  BY <1>1
  DEF SaverIsJob, Pool!TypeOK, LoadPcs, Worker, Autosave, NoJob, vars,
      saverVars, bounds, poolVars, LoadStart
<1>2. CASE TruncateDefault
  BY <1>2
  DEF SaverIsJob, Pool!TypeOK, LoadPcs, Worker, Autosave, NoJob, vars,
      saverVars, bounds, poolVars, TruncateDefault, OpenForWriting
<1>3. CASE WriteDefault
  BY <1>3
  DEF SaverIsJob, Pool!TypeOK, LoadPcs, Worker, Autosave, NoJob, vars,
      saverVars, bounds, poolVars, WriteDefault
<1>4. CASE Parse
  BY <1>4
  DEF SaverIsJob, Pool!TypeOK, LoadPcs, Worker, Autosave, NoJob, vars,
      saverVars, bounds, poolVars, Parse
<1>5. CASE CompareDefaults
  BY <1>5
  DEF SaverIsJob, Pool!TypeOK, LoadPcs, Worker, Autosave, NoJob, vars,
      saverVars, bounds, poolVars, CompareDefaults
<1>6. CASE Apply
  BY <1>6
  DEF SaverIsJob, Pool!TypeOK, LoadPcs, Worker, Autosave, NoJob, vars,
      saverVars, bounds, poolVars, Apply
<1>7. CASE TruncateUpdated
  BY <1>7
  DEF SaverIsJob, Pool!TypeOK, LoadPcs, Worker, Autosave, NoJob, vars,
      saverVars, bounds, poolVars, TruncateUpdated, OpenForWriting
<1>8. CASE SaveUpdated
  BY <1>8
  DEF SaverIsJob, Pool!TypeOK, LoadPcs, Worker, Autosave, NoJob, vars,
      saverVars, bounds, poolVars, SaveUpdated
<1>9. CASE PushAutosave
  BY <1>9
  DEF SaverIsJob, Pool!TypeOK, LoadPcs, Worker, Autosave, NoJob, vars,
      saverVars, bounds, poolVars, PushAutosave, Pool!Submit
<1>10. ASSUME NEW k \in Keys, NEW v \in Values, Change(k, v) PROVE SaverIsJob'
  BY <1>10
  DEF SaverIsJob, Pool!TypeOK, LoadPcs, Worker, Autosave, NoJob, vars,
      saverVars, bounds, poolVars, Change
<1>11. CASE StartAutosave
  <2>1. Autosave \in pending /\ executing' = [executing EXCEPT ![Worker] = Autosave]
    BY <1>11 DEF StartAutosave, Pool!Start
  <2>2. executing'[Worker] = Autosave
    BY <2>1 DEF Pool!TypeOK
  <2>3. mainPc \notin LoadPcs /\ mainPc # "unloaded" /\ mainPc' = mainPc
    BY <1>11, <2>1 DEF StartAutosave, SaverIsJob, Alive
  <2> QED
    BY <1>11, <2>2, <2>3 DEF StartAutosave, SaverIsJob, Autosave, NoJob
<1>12. CASE TestRunning
  BY <1>12
  DEF SaverIsJob, Pool!TypeOK, LoadPcs, Worker, Autosave, NoJob, vars,
      saverVars, bounds, poolVars, TestRunning, Pool!Finish
<1>13. CASE SleepOver
  BY <1>13
  DEF SaverIsJob, Pool!TypeOK, LoadPcs, Worker, Autosave, NoJob, vars,
      saverVars, bounds, poolVars, SleepOver
<1>14. CASE ReadOption("snapshot", "compare")
  BY <1>14
  DEF SaverIsJob, Pool!TypeOK, LoadPcs, Worker, Autosave, NoJob, vars,
      saverVars, bounds, poolVars, ReadOption
<1>15. CASE CompareSnapshot
  BY <1>15
  DEF SaverIsJob, Pool!TypeOK, LoadPcs, Worker, Autosave, NoJob, vars,
      saverVars, bounds, poolVars, CompareSnapshot
<1>16. CASE TruncateFile
  BY <1>16
  DEF SaverIsJob, Pool!TypeOK, LoadPcs, Worker, Autosave, NoJob, vars,
      saverVars, bounds, poolVars, TruncateFile, OpenForWriting
<1>17. CASE ReadOption("resnapshot", "write")
  BY <1>17
  DEF SaverIsJob, Pool!TypeOK, LoadPcs, Worker, Autosave, NoJob, vars,
      saverVars, bounds, poolVars, ReadOption
<1>18. CASE WriteSnapshot
  BY <1>18
  DEF SaverIsJob, Pool!TypeOK, LoadPcs, Worker, Autosave, NoJob, vars,
      saverVars, bounds, poolVars, WriteSnapshot
<1>19. CASE DisableHooks
  BY <1>19
  DEF SaverIsJob, Pool!TypeOK, LoadPcs, Worker, Autosave, NoJob, vars,
      saverVars, bounds, poolVars, DisableHooks, MainGoes
<1>20. CASE DestroySettings
  BY <1>20
  DEF SaverIsJob, Pool!TypeOK, LoadPcs, Worker, Autosave, NoJob, vars,
      saverVars, bounds, poolVars, DestroySettings, MainGoes
<1>21. CASE ClosePool
  BY <1>21
  DEF SaverIsJob, Pool!TypeOK, LoadPcs, Worker, Autosave, NoJob, vars,
      saverVars, bounds, poolVars, ClosePool, MainGoes, Pool!Close
<1>22. CASE JoinPool
  BY <1>22
  DEF SaverIsJob, Pool!TypeOK, LoadPcs, Worker, Autosave, NoJob, vars,
      saverVars, bounds, poolVars, JoinPool, MainGoes, Pool!Stop,
      Pool!Executing
<1>23. CASE Crash
  BY <1>23
  DEF SaverIsJob, Pool!TypeOK, LoadPcs, Worker, Autosave, NoJob, vars,
      saverVars, bounds, poolVars, Crash
<1>24. CASE Launch
  BY <1>24
  DEF SaverIsJob, Pool!TypeOK, LoadPcs, Worker, Autosave, NoJob, vars,
      saverVars, bounds, poolVars, Launch
<1>25. CASE UNCHANGED vars
  BY <1>25
  DEF SaverIsJob, Pool!TypeOK, LoadPcs, Worker, Autosave, NoJob, vars,
      saverVars, bounds, poolVars
<1> QED
  BY <1>1, <1>2, <1>3, <1>4, <1>5, <1>6, <1>7, <1>8, <1>9, <1>10, <1>11,
     <1>12, <1>13, <1>14, <1>15, <1>16, <1>17, <1>18, <1>19, <1>20,
     <1>21, <1>22, <1>23, <1>24, <1>25
  DEF Next, Load, Saver, Unload

(* Whatever is written to the file is whole in the end. *)
LEMMA FileStep ==
    ASSUME PcTypes, DataTypes, SaverIsJob, FileWhole, [Next]_vars
    PROVE  FileWhole'
<1>1. CASE LoadStart
  BY <1>1
  DEF SaverIsJob, FileWhole, LoadPcs, UnloadPcs, vars, saverVars, bounds,
      poolVars, LoadStart
<1>2. CASE TruncateDefault
  BY <1>2, FileValues
  DEF SaverIsJob, FileWhole, LoadPcs, UnloadPcs, vars, saverVars, bounds,
      poolVars, TruncateDefault, OpenForWriting
<1>3. CASE WriteDefault
  BY <1>3, FileValues
  DEF SaverIsJob, FileWhole, LoadPcs, UnloadPcs, vars, saverVars, bounds,
      poolVars, WriteDefault
<1>4. CASE Parse
  <2>1. file.kind \in {"missing", "garbage", "scalar", "object"}
    BY FileData DEF DataTypes
  <2> QED
    BY <1>4, <2>1 DEF Parse, FileWhole, UnloadPcs
<1>5. CASE CompareDefaults
  BY <1>5
  DEF SaverIsJob, FileWhole, LoadPcs, UnloadPcs, vars, saverVars, bounds,
      poolVars, CompareDefaults
<1>6. CASE Apply
  BY <1>6
  DEF SaverIsJob, FileWhole, LoadPcs, UnloadPcs, vars, saverVars, bounds,
      poolVars, Apply
<1>7. CASE TruncateUpdated
  BY <1>7, FileValues
  DEF SaverIsJob, FileWhole, LoadPcs, UnloadPcs, vars, saverVars, bounds,
      poolVars, TruncateUpdated, OpenForWriting
<1>8. CASE SaveUpdated
  <2>1. file'.kind = "object"
    BY <1>8, FileValues DEF SaveUpdated, DataTypes
  <2> QED
    BY <1>8, <2>1 DEF SaveUpdated, FileWhole, UnloadPcs
<1>9. CASE PushAutosave
  BY <1>9
  DEF SaverIsJob, FileWhole, LoadPcs, UnloadPcs, vars, saverVars, bounds,
      poolVars, PushAutosave, Pool!Submit
<1>10. ASSUME NEW k \in Keys, NEW v \in Values, Change(k, v) PROVE FileWhole'
  BY <1>10
  DEF SaverIsJob, FileWhole, LoadPcs, UnloadPcs, vars, saverVars, bounds,
      poolVars, Change
<1>11. CASE StartAutosave
  BY <1>11
  DEF SaverIsJob, FileWhole, LoadPcs, UnloadPcs, vars, saverVars, bounds,
      poolVars, StartAutosave, Pool!Start
<1>12. CASE TestRunning
  BY <1>12
  DEF SaverIsJob, FileWhole, LoadPcs, UnloadPcs, vars, saverVars, bounds,
      poolVars, TestRunning, Pool!Finish
<1>13. CASE SleepOver
  BY <1>13
  DEF SaverIsJob, FileWhole, LoadPcs, UnloadPcs, vars, saverVars, bounds,
      poolVars, SleepOver
<1>14. CASE ReadOption("snapshot", "compare")
  BY <1>14
  DEF SaverIsJob, FileWhole, LoadPcs, UnloadPcs, vars, saverVars, bounds,
      poolVars, ReadOption
<1>15. CASE CompareSnapshot
  BY <1>15
  DEF SaverIsJob, FileWhole, LoadPcs, UnloadPcs, vars, saverVars, bounds,
      poolVars, CompareSnapshot
<1>16. CASE TruncateFile
  BY <1>16, FileValues
  DEF SaverIsJob, FileWhole, LoadPcs, UnloadPcs, vars, saverVars, bounds,
      poolVars, TruncateFile, OpenForWriting
<1>17. CASE ReadOption("resnapshot", "write")
  BY <1>17
  DEF SaverIsJob, FileWhole, LoadPcs, UnloadPcs, vars, saverVars, bounds,
      poolVars, ReadOption
<1>18. CASE WriteSnapshot
  <2>1. file'.kind = "object"
    BY <1>18, FileValues DEF WriteSnapshot, FileWhole, SaverIsJob, DataTypes, Alive, PcTypes, LoadPcs, UnloadPcs
  <2> QED
    BY <1>18, <2>1 DEF WriteSnapshot, FileWhole
<1>19. CASE DisableHooks
  BY <1>19
  DEF SaverIsJob, FileWhole, LoadPcs, UnloadPcs, vars, saverVars, bounds,
      poolVars, DisableHooks, MainGoes
<1>20. CASE DestroySettings
  BY <1>20
  DEF SaverIsJob, FileWhole, LoadPcs, UnloadPcs, vars, saverVars, bounds,
      poolVars, DestroySettings, MainGoes
<1>21. CASE ClosePool
  BY <1>21
  DEF SaverIsJob, FileWhole, LoadPcs, UnloadPcs, vars, saverVars, bounds,
      poolVars, ClosePool, MainGoes, Pool!Close
<1>22. CASE JoinPool
  BY <1>22
  DEF SaverIsJob, FileWhole, LoadPcs, UnloadPcs, vars, saverVars, bounds,
      poolVars, JoinPool, MainGoes, Pool!Stop, Pool!Executing
<1>23. CASE Crash
  BY <1>23
  DEF SaverIsJob, FileWhole, LoadPcs, UnloadPcs, vars, saverVars, bounds,
      poolVars, Crash
<1>24. CASE Launch
  BY <1>24
  DEF SaverIsJob, FileWhole, LoadPcs, UnloadPcs, vars, saverVars, bounds,
      poolVars, Launch
<1>25. CASE UNCHANGED vars
  BY <1>25
  DEF SaverIsJob, FileWhole, LoadPcs, UnloadPcs, vars, saverVars, bounds,
      poolVars
<1> QED
  BY <1>1, <1>2, <1>3, <1>4, <1>5, <1>6, <1>7, <1>8, <1>9, <1>10, <1>11,
     <1>12, <1>13, <1>14, <1>15, <1>16, <1>17, <1>18, <1>19, <1>20,
     <1>21, <1>22, <1>23, <1>24, <1>25
  DEF Next, Load, Saver, Unload

(* What is loaded is what the file has. *)
LEMMA LoadedStep ==
    ASSUME PcTypes, DataTypes, CountTypes, SaverIsJob, FileWhole, LoadedSoFar, [Next]_vars
    PROVE  LoadedSoFar'
<1>1. CASE LoadStart
  BY <1>1
  DEF FileWhole, LoadedSoFar, Loading, Readable, vars, saverVars, bounds,
      poolVars, LoadStart
<1>2. CASE TruncateDefault
  BY <1>2, FileValues
  DEF FileWhole, LoadedSoFar, Loading, Readable, vars, saverVars, bounds,
      poolVars, TruncateDefault, OpenForWriting
<1>3. CASE WriteDefault
  BY <1>3, FileValues
  DEF FileWhole, LoadedSoFar, Loading, Readable, vars, saverVars, bounds,
      poolVars, WriteDefault
<1>4. CASE Parse
  BY <1>4
  DEF FileWhole, LoadedSoFar, Loading, Readable, vars, saverVars, bounds,
      poolVars, Parse
<1>5. CASE CompareDefaults
  <2>1. CASE file.kind = "scalar"
    BY <1>5, <2>1 DEF CompareDefaults, LoadedSoFar, Loading
  <2>2. CASE file.kind # "scalar"
    <3>1. file = Object(file.data) /\ m_options = file.data
      BY <1>5, <2>2, FileData DEF CompareDefaults, FileWhole, LoadedSoFar, DataTypes
    <3>2. \A k \in Keys : m_options'[k] # Absent
      BY <1>5, <2>2 DEF CompareDefaults, Defaults, Absent
    <3>3. ~should_save' => m_options' = m_options
      BY <1>5, <2>2 DEF CompareDefaults, DataTypes
    <3> QED
      BY <1>5, <2>2, <3>1, <3>2, <3>3 DEF CompareDefaults, LoadedSoFar, Loading
  <2> QED
    BY <2>1, <2>2
<1>6. CASE Apply
  <2>1. Readable => options' = m_options /\ m_options' = m_options
    BY <1>6, ReadableAll DEF Apply, Readable, DataTypes
  <2>2. mainPc' \in {"truncate", "push"} /\ (mainPc' = "truncate" => Readable)
    BY <1>6, ReadableAll DEF Apply
  <2>3. Readable /\ mainPc' = "push" => file' = Object(m_options)
    BY <1>6, ReadableAll DEF Apply, LoadedSoFar
  <2>4. Readable' <=> Readable
    BY <1>6 DEF Apply, Readable
  <2> QED
    BY <2>1, <2>2, <2>3, <2>4 DEF LoadedSoFar, Loading
<1>7. CASE TruncateUpdated
  <2>1. mainPc' = "push" => failures' # 0
    BY <1>7 DEF TruncateUpdated, OpenForWriting, CountTypes
  <2> QED
    BY <1>7, <2>1 DEF TruncateUpdated, LoadedSoFar, Loading, Readable
<1>8. CASE SaveUpdated
  BY <1>8, FileValues
  DEF FileWhole, LoadedSoFar, Loading, Readable, vars, saverVars, bounds,
      poolVars, SaveUpdated
<1>9. CASE PushAutosave
  BY <1>9
  DEF FileWhole, LoadedSoFar, Loading, Readable, vars, saverVars, bounds,
      poolVars, PushAutosave, Pool!Submit
<1>10. ASSUME NEW k \in Keys, NEW v \in Values, Change(k, v) PROVE LoadedSoFar'
  BY <1>10
  DEF FileWhole, LoadedSoFar, Loading, Readable, vars, saverVars, bounds,
      poolVars, Change
<1>11. CASE StartAutosave
  BY <1>11
  DEF FileWhole, LoadedSoFar, Loading, Readable, vars, saverVars, bounds,
      poolVars, StartAutosave, Pool!Start
<1>12. CASE TestRunning
  BY <1>12
  DEF FileWhole, LoadedSoFar, Loading, Readable, vars, saverVars, bounds,
      poolVars, TestRunning, Pool!Finish
<1>13. CASE SleepOver
  BY <1>13
  DEF FileWhole, LoadedSoFar, Loading, Readable, vars, saverVars, bounds,
      poolVars, SleepOver
<1>14. CASE ReadOption("snapshot", "compare")
  BY <1>14
  DEF FileWhole, LoadedSoFar, Loading, Readable, vars, saverVars, bounds,
      poolVars, ReadOption
<1>15. CASE CompareSnapshot
  <2>1. mainPc \notin LoadPcs /\ mainPc' = mainPc
    BY <1>15 DEF CompareSnapshot, SaverIsJob
  <2> QED
    BY <2>1 DEF LoadedSoFar, Loading, LoadPcs
<1>16. CASE TruncateFile
  <2>1. mainPc \notin LoadPcs /\ mainPc' = mainPc
    BY <1>16 DEF TruncateFile, SaverIsJob
  <2> QED
    BY <2>1 DEF LoadedSoFar, Loading, LoadPcs
<1>17. CASE ReadOption("resnapshot", "write")
  BY <1>17
  DEF FileWhole, LoadedSoFar, Loading, Readable, vars, saverVars, bounds,
      poolVars, ReadOption
<1>18. CASE WriteSnapshot
  <2>1. mainPc \notin LoadPcs /\ mainPc' = mainPc
    BY <1>18 DEF WriteSnapshot, SaverIsJob
  <2> QED
    BY <2>1 DEF LoadedSoFar, Loading, LoadPcs
<1>19. CASE DisableHooks
  BY <1>19
  DEF FileWhole, LoadedSoFar, Loading, Readable, vars, saverVars, bounds,
      poolVars, DisableHooks, MainGoes
<1>20. CASE DestroySettings
  BY <1>20
  DEF FileWhole, LoadedSoFar, Loading, Readable, vars, saverVars, bounds,
      poolVars, DestroySettings, MainGoes
<1>21. CASE ClosePool
  BY <1>21
  DEF FileWhole, LoadedSoFar, Loading, Readable, vars, saverVars, bounds,
      poolVars, ClosePool, MainGoes, Pool!Close
<1>22. CASE JoinPool
  BY <1>22
  DEF FileWhole, LoadedSoFar, Loading, Readable, vars, saverVars, bounds,
      poolVars, JoinPool, MainGoes, Pool!Stop, Pool!Executing
<1>23. CASE Crash
  BY <1>23
  DEF FileWhole, LoadedSoFar, Loading, Readable, vars, saverVars, bounds,
      poolVars, Crash
<1>24. CASE Launch
  BY <1>24
  DEF FileWhole, LoadedSoFar, Loading, Readable, vars, saverVars, bounds,
      poolVars, Launch
<1>25. CASE UNCHANGED vars
  BY <1>25
  DEF FileWhole, LoadedSoFar, Loading, Readable, vars, saverVars, bounds,
      poolVars
<1> QED
  BY <1>1, <1>2, <1>3, <1>4, <1>5, <1>6, <1>7, <1>8, <1>9, <1>10, <1>11,
     <1>12, <1>13, <1>14, <1>15, <1>16, <1>17, <1>18, <1>19, <1>20,
     <1>21, <1>22, <1>23, <1>24, <1>25
  DEF Next, Load, Saver, Unload

(* Where the menu runs after a step, the load has ended, the user has changed an
   option, or the job has done something. *)
LEMMA RunningStep ==
    ASSUME [Next]_vars, mainPc' = "running"
    PROVE  \/ PushAutosave
           \/ \E k \in Keys, v \in Values : Change(k, v)
           \/ Saver
           \/ UNCHANGED vars
<1>1. CASE LoadStart
  BY <1>1 DEF LoadStart
<1>2. CASE TruncateDefault
  BY <1>2 DEF TruncateDefault
<1>3. CASE WriteDefault
  BY <1>3 DEF WriteDefault
<1>4. CASE Parse
  BY <1>4 DEF Parse
<1>5. CASE CompareDefaults
  BY <1>5 DEF CompareDefaults
<1>6. CASE Apply
  BY <1>6 DEF Apply
<1>7. CASE TruncateUpdated
  BY <1>7 DEF TruncateUpdated
<1>8. CASE SaveUpdated
  BY <1>8 DEF SaveUpdated
<1>9. CASE DisableHooks
  BY <1>9 DEF DisableHooks, MainGoes
<1>10. CASE DestroySettings
  BY <1>10 DEF DestroySettings, MainGoes
<1>11. CASE ClosePool
  BY <1>11 DEF ClosePool, MainGoes
<1>12. CASE JoinPool
  BY <1>12 DEF JoinPool, MainGoes
<1>13. CASE Crash
  BY <1>13 DEF Crash
<1>14. CASE Launch
  BY <1>14 DEF Launch
<1> QED
  BY <1>1, <1>2, <1>3, <1>4, <1>5, <1>6, <1>7, <1>8, <1>9, <1>10, <1>11,
     <1>12, <1>13, <1>14
  DEF Next, Load, Unload

(* While options grow, what is below them stays below them. *)
LEMMA GrowStep ==
    ASSUME DataTypes, DataTypes', SnapshotBetween,
           UNCHANGED <<mainPc, failures, m_options, snapshot, position, saverPc, fileOpen, file>>,
           ~Reuse => \A k \in Keys : options[k] <= options'[k]
    PROVE  SnapshotBetween'
<1>1. ASSUME NEW k \in Keys
      PROVE  /\ options[k] \in Int /\ options'[k] \in Int /\ snapshot[k] \in Int
             /\ m_options[k] \in Int /\ file.data[k] \in Int
  BY FileData DEF DataTypes, Options, Values, Absent, Unreadable
<1>2. (Growing' <=> Growing) /\ (Readable' <=> Readable) /\ (Saving' <=> Saving)
  BY DEF Growing, Readable, Saving
<1>3. ComparedBelow'
  BY <1>1, <1>2 DEF SnapshotBetween, ComparedBelow, Growing
<1>4. ReadBelow'
  BY <1>1, <1>2 DEF SnapshotBetween, ReadBelow, Growing
<1>5. SavingReadable'
  BY <1>2 DEF SnapshotBetween, SavingReadable
<1>6. RereadBetween'
  BY <1>1, <1>2 DEF SnapshotBetween, RereadBetween, Growing
<1>7. SavedBetween'
  BY <1>1, <1>2 DEF SnapshotBetween, SavedBetween, Growing
<1> QED
  BY <1>3, <1>4, <1>5, <1>6, <1>7 DEF SnapshotBetween

(* Snapshots, and the file, stay between what was compared and what is. *)
LEMMA SnapshotStep ==
    ASSUME PcTypes, DataTypes, DataTypes', CountTypes, Pool!TypeOK, SaverIsJob, LoadedSoFar,
           SnapshotBetween, [Next]_vars
    PROVE  SnapshotBetween'
<1>1. ASSUME NEW k \in Keys
      PROVE  /\ options[k] \in Int /\ snapshot[k] \in Int
             /\ m_options[k] \in Int /\ file.data[k] \in Int
  BY FileData DEF DataTypes, Options, Values, Absent, Unreadable
<1>2. CASE mainPc' # "running"
  BY <1>2 DEF SnapshotBetween, ComparedBelow, ReadBelow, SavingReadable, RereadBetween,
     SavedBetween, Growing
<1>3. CASE PushAutosave
  <2>1. saverPc' = "none" /\ ~Saving'
    BY <1>3 DEF PushAutosave, SaverIsJob, LoadPcs, saverVars, Saving
  <2>2. Growing' /\ Readable' => m_options = options /\ file = Object(options)
    BY <1>3 DEF PushAutosave, LoadedSoFar, Growing, Readable, bounds
  <2>3. Growing' /\ Readable' => file.kind = "object" /\ file.data = options
    BY <2>2, FileValues DEF DataTypes
  <2>4. UNCHANGED <<options, m_options, file>>
    BY <1>3 DEF PushAutosave
  <2>5. ComparedBelow' /\ SavedBetween'
    BY <1>1, <2>2, <2>3, <2>4 DEF ComparedBelow, SavedBetween
  <2> QED
    BY <2>1, <2>5 DEF SnapshotBetween, ReadBelow, SavingReadable, RereadBetween
<1>4. ASSUME NEW k \in Keys, NEW v \in Values, Change(k, v)
      PROVE  SnapshotBetween'
  <2>1. ~Reuse => \A i \in Keys : options[i] <= options'[i]
    BY <1>1, <1>4 DEF Change, DataTypes, Options, Values
  <2> QED
    BY <1>4, <2>1, GrowStep DEF Change, saverVars, bounds
<1>5. CASE UNCHANGED vars
  BY <1>1, <1>5, GrowStep DEF vars, saverVars, bounds
<1>6. CASE StartAutosave \/ TestRunning
  <2>1. saverPc' \in {"none", "test", "sleep"} /\ saverPc \in {"none", "test"}
    BY <1>6 DEF StartAutosave, TestRunning, SaverIsJob, Pool!Start
  <2>2. UNCHANGED <<mainPc, failures, options, m_options, file>>
    BY <1>6 DEF StartAutosave, TestRunning, bounds
  <2> QED
    BY <2>1, <2>2 DEF SnapshotBetween, ComparedBelow, ReadBelow, SavingReadable,
       RereadBetween, SavedBetween, Growing, Readable, Saving
<1>7. CASE SleepOver
  <2>1. /\ saverPc = "sleep" /\ saverPc' = "snapshot" /\ position' = 1
        /\ UNCHANGED <<mainPc, failures, options, m_options, file>>
    BY <1>7 DEF SleepOver, bounds
  <2>2. ReadBelow'
    BY <2>1 DEF ReadBelow, Keys
  <2> QED
    BY <2>1, <2>2 DEF SnapshotBetween, ComparedBelow, SavingReadable,
       RereadBetween, SavedBetween, Growing, Readable, Saving
<1>8. CASE ReadOption("snapshot", "compare")
  <2>1. /\ saverPc = "snapshot" /\ saverPc' \in {"snapshot", "compare"}
        /\ UNCHANGED <<mainPc, failures, options, m_options, file, fileOpen>>
    BY <1>8 DEF ReadOption, bounds
  <2>2. ReadBelow'
    <3>1. CASE position \in Keys
      <4>1. /\ saverPc' = "snapshot" /\ position' = position + 1
            /\ \A k \in Keys : snapshot'[k] = IF k = position THEN options[k] ELSE snapshot[k]
        BY <1>8, <3>1 DEF ReadOption, DataTypes, Options
      <4>2. \A k \in Keys : k < position' => k < position \/ k = position
        BY <4>1, <3>1, SettingsAssumption DEF Keys
      <4> QED
        BY <1>1, <2>1, <4>1, <4>2 DEF SnapshotBetween, ReadBelow, Growing
    <3>2. CASE position \notin Keys
      <4>1. saverPc' = "compare" /\ snapshot' = snapshot /\ \A k \in Keys : k < position
        BY <1>8, <3>2, SettingsAssumption DEF ReadOption, DataTypes, Keys
      <4> QED
        BY <2>1, <4>1 DEF SnapshotBetween, ReadBelow, Growing
    <3> QED
      BY <3>1, <3>2
  <2> QED
    BY <2>1, <2>2 DEF SnapshotBetween, ComparedBelow, SavingReadable,
       RereadBetween, SavedBetween, Growing, Readable, Saving
<1>9. CASE CompareSnapshot
  <2>1. /\ saverPc = "compare" /\ saverPc' \in {"truncate", "test"} /\ m_options' = snapshot
        /\ saverPc' = "test" => m_options' = m_options
        /\ UNCHANGED <<mainPc, failures, options, file>>
    BY <1>9 DEF CompareSnapshot, bounds
  <2>2. Readable'
    BY <2>1 DEF Readable, DataTypes, Options, Values, Unreadable
  <2>3. ComparedBelow'
    BY <2>1 DEF SnapshotBetween, ComparedBelow, ReadBelow, Growing
  <2>4. SavedBetween'
    BY <2>1 DEF SnapshotBetween, SavedBetween, Growing, Readable, Saving
  <2> QED
    BY <2>1, <2>2, <2>3, <2>4 DEF SnapshotBetween, ReadBelow, SavingReadable, RereadBetween,
       Saving
<1>10. CASE TruncateFile
  <2>1. /\ saverPc = "truncate" /\ saverPc' = "resnapshot" /\ position' = 1
        /\ UNCHANGED <<mainPc, options, m_options>>
    BY <1>10 DEF TruncateFile
  <2>2. failures' = 0 => fileOpen' /\ failures = 0
    BY <1>10 DEF TruncateFile, OpenForWriting, CountTypes
  <2>3. RereadBetween'
    BY <2>1 DEF RereadBetween, Keys
  <2> QED
    BY <2>1, <2>2, <2>3 DEF SnapshotBetween, ComparedBelow, ReadBelow, SavingReadable,
       SavedBetween, Growing, Readable, Saving
<1>11. CASE ReadOption("resnapshot", "write")
  <2>1. /\ saverPc = "resnapshot" /\ saverPc' \in {"resnapshot", "write"}
        /\ UNCHANGED <<mainPc, failures, options, m_options, file, fileOpen>>
    BY <1>11 DEF ReadOption, bounds
  <2>2. Growing => Readable /\ \A k \in Keys : m_options[k] <= options[k]
    BY <2>1 DEF SnapshotBetween, SavingReadable, ComparedBelow, Saving
  <2>3. RereadBetween'
    <3>1. CASE position \in Keys
      <4>1. /\ saverPc' = "resnapshot" /\ position' = position + 1
            /\ \A k \in Keys : snapshot'[k] = IF k = position THEN options[k] ELSE snapshot[k]
        BY <1>11, <3>1 DEF ReadOption, DataTypes, Options
      <4>2. \A k \in Keys : k < position' => k < position \/ k = position
        BY <4>1, <3>1, SettingsAssumption DEF Keys
      <4> QED
        BY <1>1, <2>1, <2>2, <4>1, <4>2 DEF SnapshotBetween, RereadBetween, Growing
    <3>2. CASE position \notin Keys
      <4>1. saverPc' = "write" /\ snapshot' = snapshot /\ \A k \in Keys : k < position
        BY <1>11, <3>2, SettingsAssumption DEF ReadOption, DataTypes, Keys
      <4> QED
        BY <2>1, <4>1 DEF SnapshotBetween, RereadBetween, Growing
    <3> QED
      BY <3>1, <3>2
  <2> QED
    BY <2>1, <2>3 DEF SnapshotBetween, ComparedBelow, ReadBelow, SavingReadable,
       SavedBetween, Growing, Readable, Saving
<1>12. CASE WriteSnapshot
  <2>1. /\ saverPc = "write" /\ saverPc' = "test"
        /\ UNCHANGED <<mainPc, failures, options, m_options, snapshot>>
    BY <1>12 DEF WriteSnapshot, bounds
  <2>2. Growing => fileOpen
    BY <2>1 DEF SnapshotBetween, SavingReadable, Saving
  <2>3. Growing => file'.kind = "object" /\ file'.data = snapshot
    BY <1>12, <2>2, FileValues DEF WriteSnapshot, DataTypes
  <2>4. SavedBetween'
    BY <2>1, <2>3 DEF SnapshotBetween, RereadBetween, SavedBetween, Growing
  <2> QED
    BY <2>1, <2>4 DEF SnapshotBetween, ComparedBelow, ReadBelow, SavingReadable,
       RereadBetween, Growing, Readable, Saving
<1> QED
  BY <1>2, <1>3, <1>4, <1>5, <1>6, <1>7, <1>8, <1>9, <1>10, <1>11, <1>12, RunningStep
  DEF Saver

------------------------------------------------------------------------------
LEMMA Initially == Init => IInv
<1> SUFFICES ASSUME Init PROVE IInv
  OBVIOUS
<1>1. TypeOK
  <2>1. PcTypes
    BY DEF Init, Fresh, PcTypes, LoadPcs
  <2>2. Defaults \in [Keys -> Values \cup {Absent, Unreadable}]
    BY FileValues DEF Options
  <2>3. DataTypes
    BY <2>2, FileValues, FilesAssumption, SettingsAssumption DEF Init, Fresh, DataTypes
  <2>4. CountTypes
    BY SettingsAssumption DEF Init, CountTypes
  <2>5. Pool!TypeOK
    BY DEF Init, Fresh, Pool!Init, Pool!TypeOK
  <2> QED
    BY <2>1, <2>3, <2>4, <2>5, TypeParts
<1>2. SaverIsJob
  BY DEF Init, Fresh, Pool!Init, SaverIsJob, LoadPcs, Worker
<1>3. FileWhole /\ LoadedSoFar /\ SnapshotBetween
  BY DEF Init, Fresh, FileWhole, LoadedSoFar, UnloadPcs, SnapshotBetween, ComparedBelow,
     ReadBelow, SavingReadable, RereadBetween, SavedBetween, Growing
<1> QED
  BY <1>1, <1>2, <1>3 DEF IInv

LEMMA Inductive == IInv /\ [Next]_vars => IInv'
<1>1. TypeOK' <=> PcTypes' /\ DataTypes' /\ CountTypes' /\ Pool!TypeOK'
  BY DEF TypeOK, PcTypes, DataTypes, CountTypes
<1> QED
  BY <1>1, TypeParts, PcStep, CountStep, PoolStep, DataStep, SaverStep, FileStep, LoadedStep,
     SnapshotStep
  DEF IInv

THEOREM Invariance == Spec => []IInv
BY Initially, Inductive, PTL DEF Spec

(* The types hold in every state, of every launch. *)
THEOREM TypeCorrect == Spec => []TypeOK
<1>1. IInv => TypeOK
  BY DEF IInv
<1> QED
  BY <1>1, Invariance, PTL

(* When the pool has been destroyed the file is whole, however the last save
   and the unloading interleave (settings.cpp, attempt_save, save, destroy). *)
THEOREM FileLeftWhole == Spec => []UnloadLeavesFileWhole
<1>1. IInv => UnloadLeavesFileWhole
  BY DEF IInv, SaverIsJob, FileWhole, UnloadLeavesFileWhole
<1> QED
  BY <1>1, Invariance, PTL

(* After load() the options, m_options and the file agree. *)
THEOREM LoadAgrees == Spec => []LoadAgreesWithFile
<1>1. IInv => LoadAgreesWithFile
  BY TypeParts, ReadableAll DEF IInv, LoadedSoFar, LoadAgreesWithFile
<1> QED
  BY <1>1, Invariance, PTL

(* Between two saves the file is between m_options and the options. *)
THEOREM FileBetween == Spec => []FileBetweenComparedAndCurrent
<1>1. IInv => FileBetweenComparedAndCurrent
  BY TypeParts, ReadableAll
  DEF IInv, SnapshotBetween, SavedBetween, Growing, FileBetweenComparedAndCurrent
<1> QED
  BY <1>1, Invariance, PTL
==============================================================================
