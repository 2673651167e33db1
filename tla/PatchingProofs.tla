---------------------------- MODULE PatchingProofs ----------------------------
(***************************************************************************)
(* Proofs about GamePatches and Patching, for any memory, replacements and *)
(* versions of the game, and for any patches of a script and any code.     *)
(*                                                                         *)
(* IInv is the inductive invariant of the main thread: the types, when     *)
(* scans are under way, what the patches have noted, where the memory may  *)
(* differ from the game's, and what is known of a pointer that is used.    *)
(* What on_script_load makes of a code follows by induction over the       *)
(* patches, of which each finds the code patched by those before it.       *)
(***************************************************************************)
EXTENDS Patching, TLAPS, FiniteSetTheorems, WellFoundedInduction

Entries == EarlyEntries \cup MainEntries

Values == {Replacement[b] : b \in Branches}

Noted == UNION {[A -> Bytes] : A \in SUBSET Addresses}

(* The signature of a pointer that the main thread uses, on this branch. *)
UsedEntry(pointer) == Entry(pointer, branch, -1, -1)

(* Scans are under way only while run() waits for them. *)
Scanning ==
    /\ \A e \in DOMAIN futures : futures[e] = "scanning" => pc \in {"early_wait", "main_wait"}
    /\ \A e \in DOMAIN futures : futures[e] = "thrown" => e \in EarlyEntries
    /\ pc \in {"early", "main"} => futures = <<>>

(* Each patch has noted what the game's memory has where it writes. *)
Originals ==
    \A i \in 1 .. Len(m_patches) :
        m_patches[i].m_original_bytes =
            [a \in DOMAIN m_patches[i].m_value |-> game_memory[a]]

(* The memory differs only under a patch that is still in the vector. *)
Covered ==
    \A a \in Addresses :
        memory[a] # game_memory[a] =>
            \E i \in 1 .. Len(m_patches) : a \in DOMAIN m_patches[i].m_value

(* Before the patch is applied, and after the end, it does not differ. *)
Untouched ==
    pc \notin {"resolution", "renderer", "running", "reset", "restore"} => memory = game_memory

(* The pointer to the bypass is set by the callback that makes the patch. *)
Made ==
    pc \in {"early", "early_wait", "main", "main_wait", "window", "anticheat", "apply"} =>
        ("m_model_spawn_bypass" \in pointers => m_patches # <<>>)

(* What each used pointer's scan has come to. *)
Accounted ==
    /\ pc = "main_wait" =>
        \A pointer \in Used :
            /\ UsedEntry(pointer) \in DOMAIN futures
            /\ futures[UsedEntry(pointer)] = "true" => pointer \in pointers
            /\ futures[UsedEntry(pointer)] = "false" => UsedEntry(pointer) \in missed
    /\ pc \in {"window", "anticheat", "apply", "resolution", "renderer"} =>
        \A pointer \in Used : pointer \in pointers \/ UsedEntry(pointer) \in missed

IInv ==
    /\ TypeOK
    /\ Scanning
    /\ Originals
    /\ Covered
    /\ Untouched
    /\ Made
    /\ Accounted
------------------------------------------------------------------------------
(* Operators *)

(* A replacement is a function from addresses to bytes (pointers.cpp).     *)
LEMMA ReplacementBytes ==
    ASSUME NEW v \in Values
    PROVE  /\ DOMAIN v \subseteq Addresses
           /\ \A a \in DOMAIN v : v[a] \in Bytes
  BY PatchesAssumption DEF Values

(* A new patch has noted the memory as it is (byte_patch::byte_patch).     *)
LEMMA PatchNotes ==
    ASSUME NEW v \in Values, memory \in [Addresses -> Bytes]
    PROVE  /\ Patch(v) \in [m_value : Values, m_original_bytes : Noted]
           /\ Patch(v).m_value = v
           /\ Patch(v).m_original_bytes = [a \in DOMAIN v |-> memory[a]]
  <1>1. DOMAIN v \in SUBSET Addresses
    BY ReplacementBytes
  <1>2. [a \in DOMAIN v |-> memory[a]] \in [DOMAIN v -> Bytes]
    BY <1>1
  <1>3. [a \in DOMAIN v |-> memory[a]] \in Noted
    BY <1>1, <1>2 DEF Noted
  <1> QED BY <1>3 DEF Patch

(* Writing bytes into the memory gives a memory (byte_patch::apply and     *)
(* restore).                                                               *)
LEMMA WrittenMemory ==
    ASSUME NEW bytes, \A a \in DOMAIN bytes : bytes[a] \in Bytes,
           memory \in [Addresses -> Bytes]
    PROVE  Written(bytes) \in [Addresses -> Bytes]
  BY DEF Written

(* The vector without its first patch (m_patches.clear, one destructor).   *)
LEMMA TailElements ==
    ASSUME NEW S, NEW s \in Seq(S), s # <<>>
    PROVE  /\ s[1] \in S
           /\ Tail(s) \in Seq(S)
           /\ Len(s) \in Nat \ {0}
           /\ Len(Tail(s)) = Len(s) - 1
           /\ \A i \in 1 .. Len(Tail(s)) : Tail(s)[i] = s[i + 1]
  OBVIOUS

(* The vector with one patch more (m_patches.emplace_back).                *)
LEMMA AppendElements ==
    ASSUME NEW S, NEW s \in Seq(S), NEW x \in S
    PROVE  /\ Append(s, x) \in Seq(S)
           /\ Append(s, x) # <<>>
           /\ Len(Append(s, x)) = Len(s) + 1
           /\ \A i \in 1 .. Len(s) : Append(s, x)[i] = s[i]
           /\ Append(s, x)[Len(s) + 1] = x
           /\ Len(s) \in Nat
  OBVIOUS

(* Only pointers that have a signature on each branch are dereferenced, and *)
(* only between the pointers' constructor and the hooks (main.cpp).         *)
LEMMA OnlyUsed ==
    ASSUME NEW at
    PROVE  /\ Dereferences(at) \subseteq Used
           /\ at \notin {"anticheat", "apply", "resolution", "renderer"} => Dereferences(at) = {}
           /\ at = "apply" => "m_model_spawn_bypass" \in Dereferences(at)
  BY DEF Dereferences, Used
------------------------------------------------------------------------------
(* The invariant *)

LEMMA InitIInv == Init => IInv
  <1> SUFFICES ASSUME Init PROVE IInv
    OBVIOUS
  <1> USE DEF Init
  <1>1. TypeOK
    <2>1. m_patches \in Seq([m_value : Values, m_original_bytes : Noted])
      OBVIOUS
    <2>2. DOMAIN futures = {}
      OBVIOUS
    <2> QED BY <2>1, <2>2 DEF TypeOK, Values, Noted
  <1>2. Scanning /\ Originals /\ Covered /\ Untouched /\ Made /\ Accounted
    BY DEF Scanning, Originals, Covered, Untouched, Made, Accounted
  <1> QED BY <1>1, <1>2 DEF IInv

(* batch::run selects entries of its batch, and scans for each.            *)
LEMMA LaunchPreserves ==
    ASSUME IInv, NEW from, NEW to, NEW entries \in {EarlyEntries, MainEntries},
           Launch(from, to, entries),
           \/ from = "early" /\ to = "early_wait"
           \/ from = "main" /\ to = "main_wait" /\ entries = MainEntries
    PROVE  IInv'
  <1> USE DEF Launch, Go, externalVars
  <1>1. Selected(entries) \subseteq entries
    BY DEF Selected
  <1>2. TypeOK'
    BY <1>1 DEF IInv, TypeOK
  <1>3. Scanning'
    BY DEF Scanning
  <1>4. Originals' /\ Covered'
    BY DEF IInv, Originals, Covered
  <1>5. Untouched' /\ Made'
    BY DEF IInv, Untouched, Made
  <1>6. Accounted'
    <2>1. CASE to = "early_wait"
      BY <2>1 DEF Accounted
    <2>2. CASE to = "main_wait" /\ entries = MainEntries
      <3>1. ASSUME NEW pointer \in Used PROVE UsedEntry(pointer) \in Selected(MainEntries)
        <4>1. UsedEntry(pointer) \in MainEntries
          BY DEF IInv, TypeOK, UsedEntry, MainEntries
        <4> QED BY <4>1 DEF UsedEntry, Entry, Selected
      <3> QED BY <2>2, <3>1 DEF Accounted, UsedEntry
    <2> QED BY <2>1, <2>2
  <1> QED BY <1>2, <1>3, <1>4, <1>5, <1>6 DEF IInv

(* A scan with its callback happens while run() waits for it, before       *)
(* anything is written.                                                    *)
LEMMA ScanFindsPreserves ==
    ASSUME IInv, NEW e \in Entries, ScanFinds(e)
    PROVE  IInv'
  <1> USE DEF ScanFinds, Resolve, externalVars
  <1>1. /\ pc \in {"early_wait", "main_wait"} /\ pc' = pc
        /\ memory = game_memory /\ memory' = memory /\ game_memory' = game_memory
        /\ futures' = [futures EXCEPT ![e] = "true"] /\ e \in DOMAIN futures
    BY DEF IInv, Scanning, Untouched
  <1> DEFINE v == Replacement[branch]
  <1>2. v \in Values
    BY DEF IInv, TypeOK, Values
  <1>3. memory \in [Addresses -> Bytes]
    BY DEF IInv, TypeOK
  <1>4. /\ Patch(v) \in [m_value : Values, m_original_bytes : Noted]
        /\ Patch(v).m_value = v
        /\ Patch(v).m_original_bytes = [a \in DOMAIN v |-> memory[a]]
    BY <1>2, <1>3, PatchNotes
  <1>5. m_patches \in Seq([m_value : Values, m_original_bytes : Noted])
    BY DEF IInv, TypeOK, Values, Noted
  <1>6. \/ m_patches' = m_patches
        \/ m_patches' = Append(m_patches, Patch(v))
    BY DEF v
  <1> HIDE DEF v
  <1>7. m_patches' \in Seq([m_value : Values, m_original_bytes : Noted])
    <2> DEFINE S == [m_value : Values, m_original_bytes : Noted]
    <2>1. m_patches \in Seq(S) /\ Patch(v) \in S
      BY <1>4, <1>5
    <2> HIDE DEF S
    <2>2. Append(m_patches, Patch(v)) \in Seq(S)
      BY <2>1
    <2>3. m_patches' \in Seq(S)
      BY <1>6, <2>1, <2>2
    <2> QED BY <2>3 DEF S
  <1>8. TypeOK'
    <2>1. e.pointer \in Used \cup {"m_handle_to_ptr"} \/ e \in EarlyEntries
      BY DEF Entries, MainEntries, Entry
    <2> QED BY <1>7, <2>1 DEF IInv, TypeOK, Values, Noted
  <1>9. Scanning'
    BY <1>1 DEF IInv, Scanning, TypeOK
  <1>10. Originals'
    <2>1. CASE m_patches' = m_patches
      BY <1>1, <2>1 DEF IInv, Originals
    <2>2. CASE m_patches' = Append(m_patches, Patch(v))
      <3>1. \A i \in 1 .. Len(m_patches)' : i \in 1 .. Len(m_patches) \/ i = Len(m_patches) + 1
        BY <1>4, <1>5, <2>2, AppendElements
      <3> QED BY <1>1, <1>4, <1>5, <2>2, <3>1, AppendElements DEF IInv, Originals
    <2> QED BY <1>6, <2>1, <2>2
  <1>11. Covered' /\ Untouched'
    BY <1>1 DEF IInv, Covered, Untouched
  <1>12. Made'
    <2>1. CASE e.pointer = "m_model_spawn_bypass" /\ e \notin EarlyEntries
      BY <1>4, <1>5, <2>1, AppendElements DEF Made, v
    <2>2. CASE ~(e.pointer = "m_model_spawn_bypass" /\ e \notin EarlyEntries)
      BY <1>1, <2>2 DEF IInv, Made
    <2> QED BY <2>1, <2>2
  <1>13. Accounted'
    <2>1. \A pointer : UsedEntry(pointer) \notin EarlyEntries \/ pointer \notin Used
      BY DEF UsedEntry, EarlyEntries, Entry, Used
    <2>2. \A pointer : UsedEntry(pointer).pointer = pointer
      BY DEF UsedEntry, Entry
    <2>3. \A pointer : UsedEntry(pointer)' = UsedEntry(pointer)
      BY DEF UsedEntry
    <2>4. pointers \subseteq pointers'
      OBVIOUS
    <2>5. \A pointer \in Used : e = UsedEntry(pointer) => pointer \in pointers'
      BY <2>1, <2>2
    <2>6. missed' = missed
      OBVIOUS
    <2> QED BY <1>1, <2>3, <2>4, <2>5, <2>6 DEF IInv, Accounted, TypeOK
  <1> QED BY <1>8, <1>9, <1>10, <1>11, <1>12, <1>13 DEF IInv

LEMMA ScanFailsPreserves ==
    ASSUME IInv, NEW e \in Entries, ScanMisses(e) \/ CallbackThrows(e)
    PROVE  IInv'
  <1> USE DEF ScanMisses, CallbackThrows, Resolve, externalVars
  <1>1. TypeOK'
    BY DEF IInv, TypeOK, Entries
  <1>2. Scanning'
    BY DEF IInv, Scanning
  <1>3. Originals' /\ Covered'
    BY DEF IInv, Originals, Covered
  <1>4. Untouched' /\ Made'
    BY DEF IInv, Untouched, Made
  <1>5. Accounted'
    <2>1. \A pointer : UsedEntry(pointer)' = UsedEntry(pointer)
      BY DEF UsedEntry
    <2>2. \A pointer \in Used : UsedEntry(pointer) \notin EarlyEntries
      BY DEF UsedEntry, EarlyEntries, Entry, Used
    <2> QED BY <2>1, <2>2 DEF IInv, Accounted
  <1> QED BY <1>1, <1>2, <1>3, <1>4, <1>5 DEF IInv

(* run() returns when every scan has ended: what each used pointer's scan   *)
(* came to is settled, as none of them can throw.                          *)
LEMMA RunReturnsPreserves ==
    ASSUME IInv, NEW from, NEW to, RunReturns(from, to),
           \/ from = "early_wait" /\ to = "main"
           \/ from = "main_wait" /\ to = "window"
    PROVE  IInv'
  <1> DEFINE thrown == \E e \in DOMAIN futures : futures[e] = "thrown"
  <1>1. /\ \A e \in DOMAIN futures : futures[e] # "scanning"
        /\ pc = from /\ pc' = IF thrown THEN "terminated" ELSE to
        /\ failed' = thrown
        /\ futures' = IF thrown THEN futures ELSE <<>>
        /\ UNCHANGED <<externalVars, memory, missed, g_game_version, pointers, m_patches,
                       g_running>>
    BY DEF RunReturns, Go
  <1> HIDE DEF thrown
  <1> USE DEF externalVars
  <1>2. TypeOK'
    BY <1>1 DEF IInv, TypeOK, thrown
  <1>3. Scanning'
    BY <1>1 DEF IInv, Scanning
  <1>4. Originals' /\ Covered'
    BY <1>1 DEF IInv, Originals, Covered
  <1>5. Untouched' /\ Made'
    BY <1>1 DEF IInv, Untouched, Made
  <1>6. Accounted'
    <2>1. \A pointer : UsedEntry(pointer)' = UsedEntry(pointer)
      BY <1>1 DEF UsedEntry
    <2>2. ASSUME from = "main_wait", NEW pointer \in Used
          PROVE  pointer \in pointers \/ UsedEntry(pointer) \in missed
      <3>1. UsedEntry(pointer) \notin EarlyEntries
        BY DEF UsedEntry, EarlyEntries, Entry, Used
      <3>2. /\ UsedEntry(pointer) \in DOMAIN futures
            /\ futures[UsedEntry(pointer)] = "true" => pointer \in pointers
            /\ futures[UsedEntry(pointer)] = "false" => UsedEntry(pointer) \in missed
        BY <1>1, <2>2 DEF IInv, Accounted
      <3>3. futures[UsedEntry(pointer)] \notin {"scanning", "thrown"}
        BY <1>1, <3>1, <3>2 DEF IInv, Scanning
      <3> QED BY <3>2, <3>3 DEF IInv, TypeOK
    <2> QED BY <1>1, <2>1, <2>2 DEF Accounted
  <1> QED BY <1>2, <1>3, <1>4, <1>5, <1>6 DEF IInv

(* The main thread's steps that leave the memory and the patches alone.    *)
LEMMA QuietStepPreserves ==
    ASSUME IInv,
           \/ FindWindow \/ SetAnticheatHash \/ WaitForResolution \/ MakeTheRest
           \/ Unload \/ ResetScriptPatcher \/ Restored
    PROVE  IInv'
  <1> USE DEF FindWindow, SetAnticheatHash, WaitForResolution, MakeTheRest, Unload,
              ResetScriptPatcher, Restored, MainStep, Go, externalVars
  <1>1. TypeOK'
    BY DEF IInv, TypeOK
  <1>2. Scanning'
    BY DEF IInv, Scanning
  <1>3. Originals' /\ Covered'
    BY DEF IInv, Originals, Covered
  <1>4. Untouched'
    <2>1. CASE Restored
      <3>1. \A a \in Addresses : memory[a] = game_memory[a]
        BY <2>1 DEF IInv, Covered
      <3>2. memory = game_memory
        BY <3>1 DEF IInv, TypeOK
      <3> QED BY <2>1, <3>2 DEF Untouched
    <2>2. CASE ~Restored
      BY <2>2 DEF IInv, Untouched
    <2> QED BY <2>1, <2>2
  <1>5. Made'
    BY DEF IInv, Made
  <1>6. Accounted'
    BY DEF IInv, Accounted, UsedEntry
  <1> QED BY <1>1, <1>2, <1>3, <1>4, <1>5, <1>6 DEF IInv

(* byte_patch_manager applies a patch that is there, as its pointer is set. *)
LEMMA ApplyPatchPreserves ==
    ASSUME IInv, ApplyPatch
    PROVE  IInv'
  <1> USE DEF ApplyPatch, MainStep, Go, externalVars
  <1>1. m_patches # <<>>
    BY OnlyUsed DEF Dangling, IInv, Made
  <1>2. m_patches \in Seq([m_value : Values, m_original_bytes : Noted])
    BY DEF IInv, TypeOK, Values, Noted
  <1>3. m_patches[1] \in [m_value : Values, m_original_bytes : Noted] /\ 1 \in 1 .. Len(m_patches)
    <2> DEFINE S == [m_value : Values, m_original_bytes : Noted]
    <2>1. m_patches \in Seq(S) /\ m_patches # <<>>
      BY <1>1, <1>2
    <2> HIDE DEF S
    <2>2. m_patches[1] \in S /\ 1 \in 1 .. Len(m_patches)
      BY <2>1, TailElements
    <2> QED BY <2>2 DEF S
  <1> DEFINE v == m_patches[1].m_value
  <1>4. v \in Values
    BY <1>3
  <1>5. Written(v) \in [Addresses -> Bytes]
    BY <1>4, ReplacementBytes, WrittenMemory DEF IInv, TypeOK
  <1>6. TypeOK'
    BY <1>5 DEF IInv, TypeOK
  <1>7. Scanning' /\ Originals'
    BY DEF IInv, Scanning, Originals
  <1>8. Covered'
    <2>1. \A a \in Addresses : a \notin DOMAIN v => memory'[a] = memory[a]
      BY DEF Written
    <2>2. memory = game_memory
      BY DEF IInv, Untouched
    <2> QED BY <1>3, <2>1, <2>2 DEF Covered
  <1>9. Untouched' /\ Made'
    BY DEF Untouched, Made
  <1>10. Accounted'
    BY DEF IInv, Accounted, UsedEntry
  <1> QED BY <1>6, <1>7, <1>8, <1>9, <1>10 DEF IInv

(* A patch's destructor gives its bytes back, whatever other patches there  *)
(* are: where it wrote, the memory is the game's again.                    *)
LEMMA RestorePatchPreserves ==
    ASSUME IInv, RestorePatch
    PROVE  IInv'
  <1> USE DEF RestorePatch, MainStep, Go, externalVars
  <1>1. m_patches \in Seq([m_value : Values, m_original_bytes : Noted]) /\ m_patches # <<>>
    BY DEF IInv, TypeOK, Values, Noted
  <1>2. /\ m_patches[1] \in [m_value : Values, m_original_bytes : Noted]
        /\ m_patches' \in Seq([m_value : Values, m_original_bytes : Noted])
        /\ Len(m_patches) \in Nat \ {0}
        /\ Len(m_patches') = Len(m_patches) - 1
        /\ \A i \in 1 .. Len(m_patches') : m_patches'[i] = m_patches[i + 1]
    <2> DEFINE S == [m_value : Values, m_original_bytes : Noted]
    <2>1. m_patches \in Seq(S) /\ m_patches # <<>> /\ m_patches' = Tail(m_patches)
      BY <1>1
    <2> HIDE DEF S
    <2>2. /\ m_patches[1] \in S
          /\ m_patches' \in Seq(S)
          /\ Len(m_patches) \in Nat \ {0}
          /\ Len(m_patches') = Len(m_patches) - 1
          /\ \A i \in 1 .. Len(m_patches') : m_patches'[i] = m_patches[i + 1]
      BY <2>1, TailElements
    <2> QED BY <2>2 DEF S
  <1> DEFINE bytes == m_patches[1].m_original_bytes
             v == m_patches[1].m_value
  <1>3. bytes = [a \in DOMAIN v |-> game_memory[a]] /\ DOMAIN v \subseteq Addresses
    <2>1. 1 \in 1 .. Len(m_patches) /\ v \in Values
      BY <1>2
    <2> QED BY <2>1, ReplacementBytes DEF IInv, Originals
  <1>4. Written(bytes) \in [Addresses -> Bytes]
    <2>1. \A a \in DOMAIN bytes : bytes[a] \in Bytes
      BY <1>3 DEF IInv, TypeOK
    <2> QED BY <2>1, WrittenMemory DEF IInv, TypeOK
  <1>5. TypeOK'
    BY <1>2, <1>4 DEF IInv, TypeOK, Values, Noted
  <1>6. Scanning' /\ Untouched' /\ Made' /\ Accounted'
    BY DEF IInv, Scanning, Untouched, Made, Accounted
  <1>7. Originals'
    BY <1>2 DEF IInv, Originals
  <1>8. Covered'
    <2> SUFFICES ASSUME NEW a \in Addresses, memory'[a] # game_memory[a]
                 PROVE  \E i \in 1 .. Len(m_patches') : a \in DOMAIN m_patches'[i].m_value
      BY DEF Covered
    <2>1. memory'[a] = IF a \in DOMAIN bytes THEN bytes[a] ELSE memory[a]
      BY DEF Written
    <2>2. a \notin DOMAIN v /\ memory[a] # game_memory[a]
      BY <1>3, <2>1
    <2>3. PICK i \in 1 .. Len(m_patches) : a \in DOMAIN m_patches[i].m_value
      BY <2>2 DEF IInv, Covered
    <2>4. i # 1
      BY <2>2, <2>3
    <2>5. i - 1 \in 1 .. Len(m_patches') /\ m_patches'[i - 1] = m_patches[i]
      BY <1>2, <2>4
    <2> QED BY <2>3, <2>5
  <1> QED BY <1>5, <1>6, <1>7, <1>8 DEF IInv

LEMMA NextIInv == IInv /\ [Next]_vars => IInv'
  <1> SUFFICES ASSUME IInv, [Next]_vars PROVE IInv'
    OBVIOUS
  <1>1. CASE Launch("early", "early_wait", EarlyEntries)
    BY <1>1, LaunchPreserves
  <1>2. CASE RunReturns("early_wait", "main")
    BY <1>2, RunReturnsPreserves
  <1>3. CASE Launch("main", "main_wait", MainEntries)
    BY <1>3, LaunchPreserves
  <1>4. CASE RunReturns("main_wait", "window")
    BY <1>4, RunReturnsPreserves
  <1>5. ASSUME NEW e \in EarlyEntries \cup MainEntries, Scan(e) PROVE IInv'
    BY <1>5, ScanFindsPreserves, ScanFailsPreserves DEF Scan, Entries
  <1>6. CASE \/ FindWindow \/ SetAnticheatHash \/ WaitForResolution \/ MakeTheRest
             \/ Unload \/ ResetScriptPatcher \/ Restored
    BY <1>6, QuietStepPreserves
  <1>7. CASE ApplyPatch
    BY <1>7, ApplyPatchPreserves
  <1>8. CASE RestorePatch
    BY <1>8, RestorePatchPreserves
  <1>9. CASE UNCHANGED vars
    BY <1>9 DEF vars, externalVars, IInv, TypeOK, Scanning, Originals, Covered, Untouched, Made,
                Accounted, UsedEntry
  <1> QED BY <1>1, <1>2, <1>3, <1>4, <1>5, <1>6, <1>7, <1>8, <1>9 DEF Next

LEMMA Invariance == Spec => []IInv
  BY InitIInv, NextIInv, PTL DEF Spec
------------------------------------------------------------------------------
(* Theorems *)

(* The types, for any memory and replacement: what is applied and restored  *)
(* is always bytes of the memory, and the patch that is applied exists.    *)
THEOREM TypeCorrect == Spec => []TypeOK
  <1>1. IInv => TypeOK
    BY DEF IInv
  <1> QED BY <1>1, Invariance, PTL

(* A pointer the main thread uses is unset only if its signature is missing *)
(* from the game's module: run() has waited for every scan (batch.cpp).    *)
(* It is about the program's entries (pointers.cpp): for any version of    *)
(* the game on either branch, whatever each scan finds, in any order.      *)
THEOREM PointersSet == Spec => []MissedIfDangling
  <1>1. IInv => MissedIfDangling
    <2> SUFFICES ASSUME IInv, NEW pointer \in Dereferences(pc) \ pointers
                 PROVE  UsedEntry(pointer) \in missed
      BY DEF MissedIfDangling, UsedEntry
    <2>1. pointer \in Used /\ pc \in {"anticheat", "apply", "resolution", "renderer"}
      BY OnlyUsed
    <2> QED BY <2>1 DEF IInv, Accounted
  <1> QED BY <1>1, Invariance, PTL

(* When the patches are restored the game's module is what it was, whatever *)
(* the patch replaces and however the start ended (byte_patch.cpp).        *)
THEOREM PatchesRestored == Spec => []MemoryRestored
  <1>1. IInv => MemoryRestored
    BY DEF IInv, Untouched, MemoryRestored
  <1> QED BY <1>1, Invariance, PTL
------------------------------------------------------------------------------
(* The code of a script *)

LEMMA PatchesInOrder ==
    /\ Len(ScriptPatches) \in Nat
    /\ DOMAIN ScriptPatches = 1 .. Len(ScriptPatches)
  <1> DEFINE Patches == [m_pattern : Seq(Bytes \cup {Wild}), m_offset : Nat,
                         m_patch : Seq(Bytes)]
  <1>1. ScriptPatches \in Seq(Patches)
    BY ScriptsAssumption
  <1> HIDE DEF Patches
  <1> QED BY <1>1

(* The types of the patches (script_patches.hpp).                          *)
LEMMA PatchTypes ==
    ASSUME NEW k \in DOMAIN ScriptPatches
    PROVE  /\ ScriptPatches[k].m_pattern \in Seq(Bytes \cup {Wild})
           /\ ScriptPatches[k].m_offset \in Nat
           /\ ScriptPatches[k].m_patch \in Seq(Bytes)
  <1> DEFINE Patches == [m_pattern : Seq(Bytes \cup {Wild}), m_offset : Nat,
                         m_patch : Seq(Bytes)]
  <1>1. ScriptPatches \in Seq(Patches)
    BY ScriptsAssumption
  <1>2. ScriptPatches[k] \in Patches
    <2> HIDE DEF Patches
    <2> QED BY <1>1
  <1> QED BY <1>2

(* A code's indices run from 0, and every pattern is shorter than it.      *)
LEMMA CodeSize ==
    ASSUME NEW program \in Codes
    PROVE  /\ Size(program) \in Nat
           /\ DOMAIN program = 0 .. Size(program) - 1
           /\ \A k \in DOMAIN ScriptPatches :
                Len(ScriptPatches[k].m_pattern) < Size(program)
  <1>1. PICK n \in CodeSizes : program \in [0 .. n - 1 -> Bytes]
    BY DEF Codes
  <1>2. n \in Nat
    BY ScriptsAssumption
  <1>3. Size(program) = n
    BY <1>1, <1>2, FS_Interval DEF Size
  <1> QED BY <1>1, <1>2, <1>3, ScriptsAssumption

(* An index and its page lead to the byte that the index has in the code   *)
(* (script_patch::get_code_address).                                       *)
LEMMA CodeByte ==
    ASSUME NEW pattern, NEW copy, Size(copy) \in Nat,
           NEW index \in 0 .. Size(copy) - 1
    PROVE  Search(pattern, copy)!get_code_address(index) = copy[index]
  <1> DEFINE page == index \div PageSize
             byte == index % PageSize
  <1>1. PageSize \in Nat \ {0} /\ index \in Nat /\ Size(copy) \in Nat
    BY ScriptsAssumption
  <1>2. byte \in 0 .. PageSize - 1 /\ page \in Nat /\ page * PageSize + byte = index
    BY <1>1
  <1>3. page \in 0 .. (Size(copy) - 1) \div PageSize
    BY <1>1, <1>2
  <1> HIDE DEF page, byte
  <1>4. byte \in {l \in 0 .. PageSize - 1 : page * PageSize + l < Size(copy)}
    BY <1>1, <1>2
  <1>5. Search(pattern, copy)!pages[page][byte] = copy[page * PageSize + byte]
    BY <1>3, <1>4 DEF Search!pages
  <1> QED BY <1>2, <1>5 DEF Search!get_code_address, page, byte

(* If a pattern is at one place, and that is not the last, it is located   *)
(* there (script_patch::get_code_location_by_pattern).                     *)
LEMMA LocatedWhereItIs ==
    ASSUME NEW k \in DOMAIN ScriptPatches, NEW copy, NEW place,
           Size(copy) \in Nat,
           Len(ScriptPatches[k].m_pattern) < Size(copy),
           Places(ScriptPatches[k], copy) = {place},
           place < Size(copy) - Len(ScriptPatches[k].m_pattern)
    PROVE  Location(ScriptPatches[k], copy) = place
  <1> DEFINE pattern == ScriptPatches[k].m_pattern
             sig_ == [j \in 0 .. Len(pattern) - 1 |-> pattern[j + 1]]
             found == Search(pattern, copy)!code_locations
             Matches_(i) == \A j \in 1 .. Len(pattern) : pattern[j] \in {Wild, copy[i + j - 1]}
  <1>1. Len(pattern) \in Nat
    BY PatchTypes
  <1>2. ASSUME NEW i \in 0 .. Size(copy) - Len(pattern) - 1
        PROVE  (\A j \in 0 .. Len(pattern) - 1 :
                    sig_[j] = Wild \/ sig_[j] = Search(pattern, copy)!get_code_address(i + j))
               <=> Matches_(i)
    <2>1. ASSUME NEW j \in 0 .. Len(pattern) - 1
          PROVE  /\ Search(pattern, copy)!get_code_address(i + j) = copy[i + (j + 1) - 1]
                 /\ sig_[j] = pattern[j + 1]
                 /\ j + 1 \in 1 .. Len(pattern)
      <3>1. i + j \in 0 .. Size(copy) - 1 /\ i + j = i + (j + 1) - 1
        BY <1>1
      <3> QED BY <1>1, <3>1, CodeByte
    <2>2. ASSUME NEW j \in 1 .. Len(pattern)
          PROVE  j - 1 \in 0 .. Len(pattern) - 1 /\ (j - 1) + 1 = j
      BY <1>1
    <2>3. ASSUME Matches_(i), NEW j \in 0 .. Len(pattern) - 1
          PROVE  sig_[j] = Wild \/ sig_[j] = Search(pattern, copy)!get_code_address(i + j)
      BY <2>1, <2>3
    <2>4. ASSUME NEW j \in 1 .. Len(pattern),
                 LET m == j - 1
                 IN  sig_[m] = Wild \/ sig_[m] = Search(pattern, copy)!get_code_address(i + m)
          PROVE  pattern[j] \in {Wild, copy[i + j - 1]}
      BY <2>1, <2>2, <2>4
    <2> HIDE DEF pattern, sig_
    <2> QED BY <2>2, <2>3, <2>4
  <1>3. found = {i \in 0 .. Size(copy) - Len(pattern) - 1 : Matches_(i)}
    BY <1>2 DEF Search!code_locations, Search!max_idx
  <1>4. found = {place}
    <2>1. Places(ScriptPatches[k], copy) = {i \in 0 .. Size(copy) - Len(pattern) : Matches_(i)}
      BY DEF Places
    <2>2. place \in 0 .. Size(copy) - Len(pattern) - 1
      BY <1>1, <2>1
    <2> HIDE DEF pattern, found, Matches_
    <2> QED BY <1>1, <1>3, <2>1, <2>2
  <1> QED
    BY <1>4 DEF Location, Search!get_code_location_by_pattern, Search!First
------------------------------------------------------------------------------
(* Writing one patch more *)

(* A place is where the pattern is, if that is one place only.             *)
LEMMA PlaceOfPattern ==
    ASSUME NEW program \in Codes, Unambiguous(program), NEW k \in DOMAIN ScriptPatches
    PROVE  /\ Place(ScriptPatches[k], program) \in DOMAIN program
           /\ Places(ScriptPatches[k], program) = {Place(ScriptPatches[k], program)}
  <1>1. PICK place \in DOMAIN program : Places(ScriptPatches[k], program) = {place}
    BY DEF Unambiguous
  <1> QED BY <1>1 DEF Place

(* Before the first patch the copy is the code.                            *)
LEMMA NothingPatched ==
    ASSUME NEW program \in Codes
    PROVE  PatchedBy({}, program) = program
  BY CodeSize DEF PatchedBy, Codes

(* A patch changes the bytes in its extent and leaves those of the patches *)
(* before it (script_patch::enable).                                       *)
LEMMA EnabledPatchesOneMore ==
    ASSUME NEW program \in Codes, Unambiguous(program),
           NEW k \in 1 .. Len(ScriptPatches)
    PROVE  Enabled(ScriptPatches[k], Place(ScriptPatches[k], program),
                   PatchedBy(1 .. k - 1, program)) = PatchedBy(1 .. k, program)
  <1> DEFINE Writes(j, i) == i \in Extent(ScriptPatches[j], Place(ScriptPatches[j], program))
             Byte(j, i) == ScriptPatches[j].m_patch[i - Place(ScriptPatches[j], program)
                                                    - ScriptPatches[j].m_offset + 1]
             old == PatchedBy(1 .. k - 1, program)
             new == PatchedBy(1 .. k, program)
             after == Enabled(ScriptPatches[k], Place(ScriptPatches[k], program), old)
  <1>1. /\ DOMAIN ScriptPatches = 1 .. Len(ScriptPatches)
        /\ Len(ScriptPatches) \in Nat
        /\ k \in DOMAIN ScriptPatches
    BY PatchesInOrder
  <1>2. ASSUME NEW i \in DOMAIN program
        PROVE  /\ old[i] = IF \E j \in 1 .. k - 1 : Writes(j, i)
                           THEN Byte(CHOOSE j \in 1 .. k - 1 : Writes(j, i), i)
                           ELSE program[i]
               /\ new[i] = IF \E j \in 1 .. k : Writes(j, i)
                           THEN Byte(CHOOSE j \in 1 .. k : Writes(j, i), i)
                           ELSE program[i]
    BY DEF PatchedBy
  <1>3. ASSUME NEW i \in DOMAIN program
        PROVE  after[i] = IF Writes(k, i) THEN Byte(k, i) ELSE old[i]
    BY DEF Enabled, PatchedBy
  <1>4. ASSUME NEW i, NEW j \in 1 .. k - 1
        PROVE  ~(Writes(k, i) /\ Writes(j, i))
    BY <1>1 DEF Unambiguous
  <1>5. ASSUME NEW i \in DOMAIN program
        PROVE  after[i] = new[i]
    <2> HIDE DEF Writes, Byte, old, new, after
    <2>1. CASE Writes(k, i)
      <3>1. (CHOOSE j \in 1 .. k : Writes(j, i)) = k
        BY <1>1, <1>4, <2>1
      <3>2. k \in 1 .. k
        BY <1>1
      <3> QED BY <1>2, <1>3, <2>1, <3>1, <3>2
    <2>2. CASE ~Writes(k, i)
      <3>1. \A j : (j \in 1 .. k /\ Writes(j, i)) <=> (j \in 1 .. k - 1 /\ Writes(j, i))
        BY <1>1, <2>2
      <3>2. (CHOOSE j \in 1 .. k : Writes(j, i)) = (CHOOSE j \in 1 .. k - 1 : Writes(j, i))
        BY <3>1
      <3> QED BY <1>2, <1>3, <2>2, <3>1, <3>2
    <2> QED BY <2>1, <2>2
  <1> QED BY <1>5 DEF Enabled, PatchedBy

(* update() takes the copy from the patches before to this one's, too, and *)
(* nothing throws or runs over a page (script_patch::update).              *)
LEMMA UpdatePatchesOneMore ==
    ASSUME NEW program \in Codes, Unambiguous(program),
           NEW k \in 1 .. Len(ScriptPatches)
    PROVE  Update(ScriptPatches[k], [copy |-> PatchedBy(1 .. k - 1, program), damage |-> "none"])
           = [copy |-> PatchedBy(1 .. k, program), damage |-> "none"]
  <1> DEFINE patch == ScriptPatches[k]
             old == PatchedBy(1 .. k - 1, program)
             place == Place(patch, program)
  <1>1. k \in DOMAIN ScriptPatches
    BY PatchesInOrder
  <1>2. DOMAIN old = DOMAIN program /\ Size(old) = Size(program)
    BY DEF PatchedBy, Size
  <1>3. place \in Nat
    BY <1>1, PlaceOfPattern, CodeSize
  <1>4. Location(patch, old) = place
    <2>1. Places(patch, old) = {place} /\ place < Size(old) - Len(patch.m_pattern)
      BY <1>1, <1>2 DEF Unambiguous
    <2>2. Size(old) \in Nat /\ Len(patch.m_pattern) < Size(old)
      BY <1>1, <1>2, CodeSize
    <2> HIDE DEF old, place
    <2> QED BY <1>1, <2>1, <2>2, LocatedWhereItIs
  <1>5. InPage(patch, place, old)
    <2>1. InPage(patch, place, program)
      BY <1>1 DEF Unambiguous
    <2> QED BY <1>2, <2>1 DEF InPage
  <1>6. Enabled(patch, place, old) = PatchedBy(1 .. k, program)
    BY EnabledPatchesOneMore
  <1>7. place # None
    BY <1>3, ScriptsAssumption
  <1> DEFINE before == [copy |-> old, damage |-> "none"]
  <1>8. before.copy = old /\ before.damage = "none"
    OBVIOUS
  <1>9. Update(patch, before) = [before EXCEPT !.copy = Enabled(patch, place, old)]
    <2> HIDE DEF patch, old, place, before
    <2> QED BY <1>4, <1>5, <1>7, <1>8 DEF Update
  <1> QED BY <1>6, <1>9

------------------------------------------------------------------------------
(* All of them *)

(* Induction over a set of natural numbers.                                *)
LEMMA SetInduction ==
    ASSUME NEW S, 0 \in S, \A n \in Nat : n \in S => n + 1 \in S
    PROVE  Nat \subseteq S
  <1> SUFFICES ASSUME Nat \ S # {} PROVE FALSE
    OBVIOUS
  <1>1. PICK k \in Nat \ S : \A m \in Nat \ S : ~(m < k)
    <2>1. PICK k \in Nat \ S : \A m \in Nat \ S : <<m, k>> \notin OpToRel(<, Nat)
      BY NatLessThanWellFounded, WFMin, Zenon
    <2>2. \A m \in Nat : m < k => <<m, k>> \in OpToRel(<, Nat)
      BY Zenon DEF OpToRel
    <2> QED BY <2>1, <2>2
  <1> QED
    BY <1>1, k - 1 < k

(* The function that Updates defines by recursion exists.                  *)
LEMMA UpdatesDefined ==
    ASSUME NEW program
    PROVE  Updates(program) = [k \in 0 .. Len(ScriptPatches) |->
               IF k = 0 THEN [copy |-> program, damage |-> damage]
               ELSE Update(ScriptPatches[k], Updates(program)[k - 1])]
  <1> DEFINE base == [copy |-> program, damage |-> damage]
             Step(k, f) == IF k = 0 THEN base ELSE Update(ScriptPatches[k], f[k - 1])
             Defines(f, n) == f = [k \in 0 .. n |-> Step(k, f)]
             S == {n \in Nat : \E f : Defines(f, n)}
  <1>1. Len(ScriptPatches) \in Nat
    BY PatchesInOrder
  <1>2. 0 \in S
    <2>1. Defines([k \in 0 .. 0 |-> base], 0)
      OBVIOUS
    <2> QED BY <2>1
  <1>3. ASSUME NEW n \in Nat, n \in S PROVE n + 1 \in S
    <2>1. PICK f : Defines(f, n)
      BY <1>3
    <2> DEFINE g == [k \in 0 .. n + 1 |-> Step(k, f)]
    <2>2. \A k \in 0 .. n : g[k] = f[k]
      BY <2>1
    <2>3. ASSUME NEW k \in 0 .. n + 1 PROVE Step(k, g) = Step(k, f)
      <3>1. CASE k = 0
        BY <3>1
      <3>2. CASE k # 0
        <4>1. k - 1 \in 0 .. n
          BY <3>2
        <4> HIDE DEF g, base
        <4> QED BY <2>2, <3>2, <4>1
      <3> QED BY <3>1, <3>2
    <2>4. Defines(g, n + 1)
      <3> HIDE DEF Step
      <3> QED BY <2>3
    <2> HIDE DEF Defines, g
    <2> QED BY <2>4
  <1>4. \E f : Defines(f, Len(ScriptPatches))
    <2> HIDE DEF Defines
    <2>1. Nat \subseteq S
      <3> HIDE DEF S
      <3> QED BY <1>2, <1>3, SetInduction
    <2> QED BY <1>1, <2>1
  <1>5. Updates(program) = CHOOSE f : Defines(f, Len(ScriptPatches))
    BY DEF Updates
  <1>6. Defines(Updates(program), Len(ScriptPatches))
    <2> HIDE DEF Defines
    <2> QED BY <1>4, <1>5
  <1> QED BY <1>6

(* on_script_load leaves a copy with all patches in it.                    *)
LEMMA LoadPatchesAll ==
    ASSUME NEW program \in Codes, Unambiguous(program), damage = "none"
    PROVE  Updates(program)[Len(ScriptPatches)] =
               [copy |-> PatchedBy(DOMAIN ScriptPatches, program), damage |-> "none"]
  <1> DEFINE last == Len(ScriptPatches)
             After(k) == [copy |-> PatchedBy(1 .. k, program), damage |-> "none"]
             S == {k \in Nat : k <= last => Updates(program)[k] = After(k)}
  <1>1. last \in Nat /\ DOMAIN ScriptPatches = 1 .. last
    BY PatchesInOrder
  <1>2. 0 \in S
    <2>1. After(0) = [copy |-> program, damage |-> "none"]
      BY NothingPatched, 1 .. 0 = {}
    <2> QED BY <1>1, <2>1, UpdatesDefined
  <1>3. ASSUME NEW n \in Nat, n \in S PROVE n + 1 \in S
    <2> SUFFICES ASSUME n + 1 <= last PROVE Updates(program)[n + 1] = After(n + 1)
      OBVIOUS
    <2>1. n + 1 \in 1 .. last /\ (n + 1) - 1 = n
      BY <1>1
    <2>2. Updates(program)[n] = After(n)
      BY <1>1, <1>3
    <2>3. Updates(program)[n + 1] = Update(ScriptPatches[n + 1], Updates(program)[n])
      BY <1>1, <2>1, UpdatesDefined
    <2>4. Update(ScriptPatches[n + 1], After(n)) = After(n + 1)
      BY <2>1, UpdatePatchesOneMore
    <2> QED BY <2>2, <2>3, <2>4
  <1>4. Nat \subseteq S
    <2> HIDE DEF S
    <2> QED BY <1>2, <1>3, SetInduction
  <1> QED BY <1>1, <1>4

------------------------------------------------------------------------------
(* The copy *)

(* What is loaded is the code of a script, and its copy is patched once    *)
(* the patches are registered.                                             *)
CopyInv ==
    /\ code \in Codes \cup {None}
    /\ CopyIsPatched

LEMMA OnScriptLoadPatches ==
    ASSUME NEW program \in Codes, damage = "none", OnScriptLoad(program)
    PROVE  Unambiguous(program) =>
               damage' = "none" /\ m_bytecode' = PatchedBy(DOMAIN ScriptPatches, program)
  <1> SUFFICES ASSUME Unambiguous(program)
               PROVE  damage' = "none" /\ m_bytecode' = PatchedBy(DOMAIN ScriptPatches, program)
    OBVIOUS
  <1> DEFINE state == Updates(program)[Len(ScriptPatches)]
  <1>1. m_bytecode' = state.copy /\ damage' = state.damage
    BY DEF OnScriptLoad
  <1>2. state = [copy |-> PatchedBy(DOMAIN ScriptPatches, program), damage |-> "none"]
    BY LoadPatchesAll
  <1> QED BY <1>1, <1>2

LEMMA CopyInit == PatchingInit => CopyInv
  BY DEF PatchingInit, CopyInv, CopyIsPatched

LEMMA CopyStep == CopyInv /\ [PatchingNext]_<<vars, scriptVars>> => CopyInv'
  <1> SUFFICES ASSUME CopyInv, [PatchingNext]_<<vars, scriptVars>> PROVE CopyInv'
    OBVIOUS
  <1> USE DEF CopyInv, CopyIsPatched
  <1>1. CASE LoadProgram
    <2>1. code' \in Codes /\ m_script_patches' = m_script_patches /\ damage = "none"
      BY <1>1 DEF LoadProgram, ScriptStep
    <2>2. m_script_patches => OnScriptLoad(code')
      BY <1>1 DEF LoadProgram
    <2> QED BY <2>1, <2>2, OnScriptLoadPatches
  <1>2. CASE RegisterScriptPatches
    <2>1. code' = code /\ damage = "none"
      BY <1>2 DEF RegisterScriptPatches, ScriptStep
    <2>2. code # None => OnScriptLoad(code)
      BY <1>2 DEF RegisterScriptPatches
    <2> QED BY <2>1, <2>2, OnScriptLoadPatches
  <1>3. CASE MainNext /\ pc = "reset"
    BY <1>3 DEF MainNext, ServiceReset
  <1>4. CASE UNCHANGED scriptVars
    BY <1>4 DEF scriptVars
  <1> QED BY <1>1, <1>2, <1>3, <1>4 DEF PatchingNext, MainNext

(* Whatever the patches and the code of the script: if each pattern is in  *)
(* it once, before the end, the copy that the game executes has every      *)
(* patch written in where its pattern is, and is else the code.            *)
THEOREM CopyPatched == PatchingSpec => []CopyIsPatched
  <1>1. CopyInv => CopyIsPatched
    BY DEF CopyInv
  <1> QED BY <1>1, CopyInit, CopyStep, PTL DEF PatchingSpec
------------------------------------------------------------------------------
(* Composition *)

(* What happens to the scripts leaves the game's module and the main       *)
(* thread alone: whatever is proved of Spec holds of PatchingSpec.         *)
THEOREM ScriptsLeaveMain == PatchingSpec => Spec
  <1>1. PatchingInit => Init
    BY DEF PatchingInit
  <1>2. [PatchingNext]_<<vars, scriptVars>> => [Next]_vars
    BY DEF PatchingNext, LoadProgram, RegisterScriptPatches, ScriptStep, MainNext
  <1> QED BY <1>1, <1>2, PTL DEF PatchingSpec, Spec

(* With the scripts around them, too, the main thread's pointers are set   *)
(* when it uses them unless a scan missed, and the game gets its memory    *)
(* back.                                                                   *)
THEOREM MainKeepsItsPromises ==
    PatchingSpec => [](MissedIfDangling /\ MemoryRestored)
  BY ScriptsLeaveMain, PointersSet, PatchesRestored, PTL
==============================================================================
