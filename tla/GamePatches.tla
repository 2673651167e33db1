----------------------------- MODULE GamePatches -----------------------------
(***************************************************************************)
(* What the library finds and changes in the game's module: the batches of *)
(* signatures (batch.cpp), the pointers they set (pointers.cpp), the byte  *)
(* patches (byte_patch.cpp, byte_patch_manager.cpp) and the part of main   *)
(* that makes them, uses them and takes them back (main.cpp).              *)
(*                                                                         *)
(* The entries of a batch are scanned for by threads of their own.  Their  *)
(* callbacks exclude each other (s_entry_mutex), and nobody else looks at  *)
(* what they set before run() has waited for them: a scan with its         *)
(* callback is one step.                                                   *)
(***************************************************************************)
EXTENDS Integers, Sequences

CONSTANTS
    Addresses,      \* addresses in the game's module
    Bytes,          \* the values of a byte
    Versions,       \* versions the game may have
    Replacement     \* per branch, what "Model Spawn Bypass" writes, and where

Branches == {"Legacy", "Enhanced"}

ASSUME PatchesAssumption ==
    /\ Versions \subseteq Nat
    /\ DOMAIN Replacement = Branches
    /\ \A branch \in Branches :
        /\ DOMAIN Replacement[branch] \subseteq Addresses
        /\ \A a \in DOMAIN Replacement[branch] : Replacement[branch][a] \in Bytes

VARIABLES
    pc,                     \* where the main thread is
    branch, version,        \* the game's (external)
    game_memory,            \* its module as it was loaded (external)
    memory,                 \* its module
    futures,                \* per entry of the batch: "scanning", "true", "false" or "thrown"
    missed,                 \* history: the entries whose signature was not found
    g_game_version,
    pointers,               \* those g_pointers has set
    m_patches,              \* the byte patches
    g_running,
    failed                  \* has a constructor thrown?

externalVars == <<branch, version, game_memory>>
vars == <<pc, externalVars, memory, futures, missed, g_game_version, pointers, m_patches,
          g_running, failed>>

------------------------------------------------------------------------------
(* The entries *)

Entry(pointer, game_branch, min_version, max_version) ==
    [pointer |-> pointer, m_game_branch |-> game_branch, m_min_version |-> min_version,
     m_max_version |-> max_version]

EarlyEntries == {Entry("g_game_version", b, -1, -1) : b \in Branches}

\* The pointers that the main thread uses before the hooks are made stand for
\* all that have a signature per branch.
Used == {"m_anticheat_initialized_hash", "m_model_spawn_bypass", "m_resolution_x", "m_swapchain"}

MainEntries ==
    {Entry(pointer, b, -1, -1) : pointer \in Used, b \in Branches}
        \cup {Entry("m_handle_to_ptr", "Legacy", -1, 3751),
              Entry("m_handle_to_ptr", "Legacy", 3788, -1),
              Entry("m_handle_to_ptr", "Enhanced", -1, -1)}

\* The entries of a batch that run() scans for.
Selected(entries) ==
    {e \in entries :
        /\ e.m_game_branch = branch
        /\ e.m_min_version = -1 \/ e.m_min_version <= g_game_version
        /\ e.m_max_version = -1 \/ e.m_max_version >= g_game_version}

\* A byte patch: a memcpy to its address writes a function from addresses to bytes.
Patch(value) == [m_value |-> value, m_original_bytes |-> [a \in DOMAIN value |-> memory[a]]]

Written(bytes) == [a \in Addresses |-> IF a \in DOMAIN bytes THEN bytes[a] ELSE memory[a]]

------------------------------------------------------------------------------
TypeOK ==
    /\ pc \in {"early", "early_wait", "main", "main_wait", "window", "anticheat", "apply",
               "resolution", "renderer", "running", "reset", "restore", "unloaded",
               "terminated"}
    /\ branch \in Branches
    /\ version \in Versions
    /\ game_memory \in [Addresses -> Bytes]
    /\ memory \in [Addresses -> Bytes]
    /\ DOMAIN futures \subseteq EarlyEntries \cup MainEntries
    /\ \A e \in DOMAIN futures : futures[e] \in {"scanning", "true", "false", "thrown"}
    /\ missed \subseteq EarlyEntries \cup MainEntries
    /\ g_game_version \in Versions \cup {0}
    /\ pointers \subseteq Used \cup {"m_handle_to_ptr"}
    /\ m_patches \in Seq([m_value : {Replacement[b] : b \in Branches},
                          m_original_bytes : UNION {[A -> Bytes] : A \in SUBSET Addresses}])
    /\ g_running \in BOOLEAN
    /\ failed \in BOOLEAN

Init ==
    /\ pc = "early"
    /\ branch \in Branches
    /\ version \in Versions
    /\ game_memory \in [Addresses -> Bytes]
    /\ memory = game_memory
    /\ futures = <<>>
    /\ missed = {}
    /\ g_game_version = 0
    /\ pointers = {}
    /\ m_patches = <<>>
    /\ g_running = TRUE
    /\ failed = FALSE

\* What the main thread dereferences at a step.  The renderer of Enhanced looks
\* whether the pointer is set, gives up, and leaves the GUI without a renderer.
Dereferences(at) ==
    CASE at = "anticheat" /\ branch = "Legacy" -> {"m_anticheat_initialized_hash"}
      [] at = "apply" -> {"m_model_spawn_bypass"}
      [] at = "resolution" /\ branch = "Enhanced" -> {"m_resolution_x"}
      [] at = "renderer" -> {"m_swapchain"}
      [] OTHER -> {}

\* The next step would use a pointer that is not set: the process dies.
Dangling == ~(Dereferences(pc) \subseteq pointers)

Go(from, to) ==
    /\ ~Dangling
    /\ pc = from
    /\ pc' = to
    /\ UNCHANGED externalVars

------------------------------------------------------------------------------
(* batch::run *)

Launch(from, to, entries) ==
    /\ Go(from, to)
    /\ futures' = [e \in Selected(entries) |-> "scanning"]
    /\ UNCHANGED <<memory, missed, g_game_version, pointers, m_patches, g_running, failed>>

Resolve(e, status) ==
    /\ e \in DOMAIN futures
    /\ futures[e] = "scanning"
    /\ futures' = [futures EXCEPT ![e] = status]
    /\ UNCHANGED <<pc, externalVars, memory, g_running, failed>>

\* The signature is in the game's module: the callback sets what it is for.
ScanFinds(e) ==
    /\ Resolve(e, "true")
    /\ IF e \in EarlyEntries
       THEN g_game_version' = version /\ UNCHANGED <<pointers, m_patches>>
       ELSE /\ pointers' = pointers \cup {e.pointer}
            /\ m_patches' = IF e.pointer = "m_model_spawn_bypass"
                            THEN Append(m_patches, Patch(Replacement[branch]))
                            ELSE m_patches
            /\ UNCHANGED g_game_version
    /\ UNCHANGED missed

ScanMisses(e) ==
    /\ Resolve(e, "false")
    /\ missed' = missed \cup {e}
    /\ UNCHANGED <<g_game_version, pointers, m_patches>>

\* What is at the signature's address is no number: std::stoi throws.
CallbackThrows(e) ==
    /\ e \in EarlyEntries
    /\ Resolve(e, "thrown")
    /\ UNCHANGED <<missed, g_game_version, pointers, m_patches>>

Scan(e) == ScanFinds(e) \/ ScanMisses(e) \/ CallbackThrows(e)

\* Mutation: run() does not wait for the scans.
RunUnawaited(from, to) ==
    /\ Go(from, to)
    /\ failed' = FALSE
    /\ UNCHANGED <<memory, futures, missed, g_game_version, pointers, m_patches, g_running>>

\* Every future is waited for.  Whether all signatures were found is returned,
\* and not looked at; an exception is thrown on, out of the early batch's only
\* future.
RunReturns(from, to) ==
    LET thrown == \E e \in DOMAIN futures : futures[e] = "thrown" IN
    /\ \A e \in DOMAIN futures : futures[e] # "scanning"
    /\ Go(from, IF thrown THEN "terminated" ELSE to)
    /\ failed' = thrown
    /\ futures' = IF thrown THEN futures ELSE <<>>
    /\ UNCHANGED <<memory, missed, g_game_version, pointers, m_patches, g_running>>

------------------------------------------------------------------------------
(* The main thread *)

MainStep(from, to) ==
    /\ Go(from, to)
    /\ UNCHANGED <<futures, missed, g_game_version, pointers, g_running>>

FindWindow ==
    /\ \/ MainStep("window", "anticheat") /\ UNCHANGED failed
       \/ MainStep("window", "terminated") /\ failed' = TRUE
    /\ UNCHANGED <<memory, m_patches>>

SetAnticheatHash ==
    /\ MainStep("anticheat", "apply")
    /\ UNCHANGED <<memory, m_patches, failed>>

\* byte_patch_manager's init; the bypass is the only patch there is.
ApplyPatch ==
    /\ MainStep("apply", "resolution")
    /\ memory' = Written(m_patches[1].m_value)
    /\ UNCHANGED <<m_patches, failed>>

WaitForResolution ==
    /\ MainStep("resolution", "renderer")
    /\ UNCHANGED <<memory, m_patches, failed>>

\* The renderer, the GUI, the hooks: they are made, or an exception unwinds.
MakeTheRest ==
    /\ \/ MainStep("renderer", "running") /\ UNCHANGED failed
       \/ MainStep("renderer", "restore") /\ failed' = TRUE
    /\ UNCHANGED <<memory, m_patches>>

\* The user unloads the menu.
Unload ==
    /\ Go("running", "reset")
    /\ g_running' = FALSE
    /\ UNCHANGED <<memory, futures, missed, g_game_version, pointers, m_patches, failed>>

\* script_patcher_service_instance.reset() and the renderer's, which leave the
\* game's module alone
ResetScriptPatcher ==
    /\ MainStep("reset", "restore")
    /\ UNCHANGED <<memory, m_patches, failed>>

\* Mutation: a patch is forgotten without being taken back.
ForgetPatch ==
    /\ m_patches # <<>>
    /\ MainStep("restore", "restore")
    /\ m_patches' = Tail(m_patches)
    /\ UNCHANGED <<memory, failed>>

\* byte_patch::restore_all clears the vector: the patches' destructors restore
\* the bytes, the first patch's first.
RestorePatch ==
    /\ m_patches # <<>>
    /\ MainStep("restore", "restore")
    /\ memory' = Written(m_patches[1].m_original_bytes)
    /\ m_patches' = Tail(m_patches)
    /\ UNCHANGED failed

\* After an exception, ~thread_pool ends the process.
Restored ==
    /\ m_patches = <<>>
    /\ MainStep("restore", IF failed THEN "terminated" ELSE "unloaded")
    /\ UNCHANGED <<memory, m_patches, failed>>

Next ==
    \/ Launch("early", "early_wait", EarlyEntries)
    \/ RunReturns("early_wait", "main")
    \/ Launch("main", "main_wait", MainEntries)
    \/ RunReturns("main_wait", "window")
    \/ \E e \in EarlyEntries \cup MainEntries : Scan(e)
    \/ FindWindow
    \/ SetAnticheatHash
    \/ ApplyPatch
    \/ WaitForResolution
    \/ MakeTheRest
    \/ Unload
    \/ ResetScriptPatcher
    \/ RestorePatch
    \/ Restored

Spec == Init /\ [][Next]_vars

------------------------------------------------------------------------------
(* Properties *)

\* A pointer of Used is used before it is set only if its signature is not in the
\* game's module: pointers' constructor waits for the scans, in whatever order they
\* end, and the program's entries have one for each of them on either branch.
MissedIfDangling ==
    Dangling => \A pointer \in Dereferences(pc) \ pointers : Entry(pointer, branch, -1, -1) \in missed

\* When byte_patch_manager is gone, or the process ends with the main thread's
\* exception, the game's module is what it was: the program's patch noted the bytes
\* it replaces before it wrote, and clearing the list has written them back.
MemoryRestored ==
    pc \in {"unloaded", "terminated"} => memory = game_memory
==============================================================================
