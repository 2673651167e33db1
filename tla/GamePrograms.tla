----------------------------- MODULE GamePrograms -----------------------------
(***************************************************************************)
(* What happens to the game's script programs: the hooks init_native_tables*)
(* and script_vm, the native hooks (native_hooks.cpp) with the tables they *)
(* exchange (vmt_hook.cpp) and the handler cache they read (invoker.cpp),  *)
(* the script patcher (script_patcher_service.cpp), and the part of main   *)
(* that sets these up and takes them down (main.cpp, hooking.cpp).         *)
(*                                                                         *)
(* Two threads meet here without any lock.  The game's thread loads, runs  *)
(* and destroys programs and calls run_script_threads; the main thread     *)
(* enables the hooks, hooks the programs that are already loaded, and much *)
(* later takes everything away.  A step is what one of them does between   *)
(* two points where the other can matter.                                  *)
(***************************************************************************)
CONSTANTS
    Programs,   \* addresses at which the game places scrPrograms
    Natives,    \* the natives a program's table has entries for
    ToAll,      \* those registered for ALL_SCRIPTS
    ToShop,     \* those registered for shop_controller
    Game, Main, \* the two threads
    None

Scripts == {"shop_controller", "other"}
Threads == {Game, Main}

ASSUME ProgramsAssumption ==
    /\ ToAll \subseteq Natives
    /\ ToShop \subseteq Natives
    /\ None \notin Programs \cup Scripts
    /\ Game # Main

VARIABLES
    pc,                 \* where each thread is
    program,            \* the program a thread is working on
    cachePc,            \* where it is in cache_handlers
    pending,            \* hook_instance: the natives it has still to look up
    found,              \* handler_replacements: those it found
    saved,              \* m_original_table of the hook it is making
    caller,             \* where a detoured native returns to
    toVisit,            \* the entries of the program table the main thread has still to visit
    script,             \* the script loaded at an address, or None
    vtable,             \* *m_object of m_vmt_hook: a program's own table, or ours
    entrypoints,        \* *m_object of m_handler_hook, likewise
    m_new_table,        \* the natives our table replaces
    m_original_table,   \* the table the hook in the map gives back
    m_code_blocks,      \* a program's own byte code, or the script's patched copy
    m_handler_cache,    \* per native: "zero", its "hash", or its "handler"
    m_handlers_cached,
    detours,            \* MinHook's: "created", "enabled", "disabled" or "deleted"
    g_native_hooks,     \* is the pointer set?
    m_native_hooks,     \* the programs in the map
    g_script_patcher_service,   \* is the pointer set?
    m_script_patches,   \* has backend::loop registered the patches?
    m_script_data,      \* the scripts that have a patched copy
    in_script_vm,
    g_running,
    quiet               \* history: the threads have kept out of each other's way

gameVars == <<script, vtable, entrypoints, m_new_table, m_original_table, m_code_blocks>>
cacheVars == <<m_handler_cache, m_handlers_cached>>
patcherVars == <<g_script_patcher_service, m_script_patches, m_script_data>>
hookVars == <<g_native_hooks, m_native_hooks>>
localVars == <<program, cachePc, pending, found, saved, caller, toVisit>>
vars == <<pc, localVars, gameVars, cacheVars, detours, hookVars, patcherVars,
          in_script_vm, g_running, quiet>>

Loaded == {p \in Programs : script[p] # None}

TypeOK ==
    /\ pc \in [Threads -> {"game", "init", "loaded", "hook", "lookup", "finish", "vm",
                           "swapped", "execute", "detour", "destroy", "free", "tick",
                           "scripts", "original", "enable", "construct", "running",
                           "disable", "remove", "patcher", "restore", "unload", "unloaded"}]
    /\ program \in [Threads -> Programs \cup {None}]
    /\ cachePc \in [Threads -> {"out", "fill", "resolve", "mark"}]
    /\ pending \in [Threads -> SUBSET Natives]
    /\ found \in [Threads -> SUBSET Natives]
    /\ saved \in [Threads -> {"own", "hooked"}]
    /\ caller \in {"game", "execute"}
    /\ toVisit \in SUBSET Programs
    /\ script \in [Programs -> Scripts \cup {None}]
    /\ vtable \in [Programs -> {"own", "hooked", "freed"}]
    /\ entrypoints \in [Programs -> {"own", "hooked", "freed"}]
    /\ m_new_table \in [Programs -> SUBSET Natives]
    /\ m_original_table \in [Programs -> {"own", "freed"}]
    /\ m_code_blocks \in [Programs -> {"own", "copy"}]
    /\ m_handler_cache \in [Natives -> {"zero", "hash", "handler"}]
    /\ m_handlers_cached \in BOOLEAN
    /\ detours \in {"created", "enabled", "disabled", "deleted"}
    /\ g_native_hooks \in BOOLEAN
    /\ m_native_hooks \in SUBSET Programs
    /\ g_script_patcher_service \in BOOLEAN
    /\ m_script_patches \in BOOLEAN
    /\ m_script_data \in SUBSET Scripts
    /\ in_script_vm \in BOOLEAN
    /\ g_running \in BOOLEAN
    /\ quiet \in BOOLEAN

\* The instances up to the script patcher exist, the game runs some programs.
Init ==
    /\ pc = [t \in Threads |-> IF t = Game THEN "game" ELSE "enable"]
    /\ program = [t \in Threads |-> None]
    /\ cachePc = [t \in Threads |-> "out"]
    /\ pending = [t \in Threads |-> {}]
    /\ found = [t \in Threads |-> {}]
    /\ saved = [t \in Threads |-> "own"]
    /\ caller = "game"
    /\ toVisit = Programs
    /\ script \in [Programs -> Scripts \cup {None}]
    /\ vtable = [p \in Programs |-> "own"]
    /\ entrypoints = [p \in Programs |-> "own"]
    /\ m_new_table = [p \in Programs |-> {}]
    /\ m_original_table = [p \in Programs |-> "own"]
    /\ m_code_blocks = [p \in Programs |-> "own"]
    /\ m_handler_cache = [n \in Natives |-> "zero"]
    /\ m_handlers_cached = FALSE
    /\ detours = "created"
    /\ g_native_hooks = FALSE
    /\ m_native_hooks = {}
    /\ g_script_patcher_service = TRUE
    /\ m_script_patches = FALSE
    /\ m_script_data = {}
    /\ in_script_vm = FALSE
    /\ g_running = TRUE
    /\ quiet = TRUE

------------------------------------------------------------------------------
(* Uses of what is not there, or no longer there.  The process does not      *)
(* survive them: no action is taken in such a state.                        *)

Unresolved == {n \in Natives : m_handler_cache[n] # "handler"}

\* What the game's thread uses next, or stands in, when its step is due.
GameDangles ==
    \/ pc[Game] \in {"init", "swapped", "original"} /\ detours = "deleted"
    \/ cachePc[Game] = "resolve" /\ detours = "deleted"
    \/ pc[Game] \in {"loaded", "vm"} /\ ~g_script_patcher_service
    \/ pc[Game] \in {"hook", "finish", "destroy"} /\ ~g_native_hooks
    \/ pc[Game] = "scripts" /\ Unresolved # {}
    \/ /\ pc[Game] = "execute"
       /\ m_code_blocks[program[Game]] = "copy"
       /\ script[program[Game]] \notin m_script_data
    \/ \E p \in Programs : vtable[p] = "freed"
    \/ pc[Game] # "game" /\ pc[Main] = "unloaded"

\* The main thread found a program in the table that is destroyed since.
MainDangles == pc[Main] = "hook" /\ script[program[Main]] = None

Dangling == GameDangles \/ MainDangles

Starting == pc[Main] \in {"construct", "hook", "lookup", "finish"}

\* The game's thread starts something that concerns this library.
Intrudes == quiet' = (quiet /\ ~Starting)

\* The main thread takes something away.
TakesDown == quiet' = (quiet /\ pc[Game] = "game")

Go(t, from, to) ==
    /\ ~Dangling
    /\ pc[t] = from
    /\ pc' = [pc EXCEPT ![t] = to]

------------------------------------------------------------------------------
(* native_invoker::cache_handlers, called by both threads *)

\* From the hook run_script_threads, or from get_native_handler.  Both threads
\* can see that the handlers are not cached.
BeginCache(t) ==
    /\ ~Dangling
    /\ pc[t] = "tick" \/ (pc[t] = "lookup" /\ pending[t] # {})
    /\ cachePc[t] = "out"
    /\ ~m_handlers_cached
    /\ cachePc' = [cachePc EXCEPT ![t] = "fill"]
    /\ UNCHANGED <<pc, program, pending, found, saved, caller, toVisit, gameVars, cacheVars,
                   detours, hookVars, patcherVars, in_script_vm, g_running, quiet>>

\* Mutation: the copy goes one entry beyond the array.
FillCacheAndOne(t) ==
    /\ ~Dangling
    /\ cachePc[t] = "fill"
    /\ m_handler_cache' = [n \in Natives \cup {None} |-> "hash"]
    /\ cachePc' = [cachePc EXCEPT ![t] = "resolve"]
    /\ UNCHANGED <<pc, program, pending, found, saved, caller, toVisit, gameVars,
                   m_handlers_cached, detours, hookVars, patcherVars, in_script_vm,
                   g_running, quiet>>

FillCache(t) ==
    /\ ~Dangling
    /\ cachePc[t] = "fill"
    /\ m_handler_cache' = [n \in Natives |-> "hash"]
    /\ cachePc' = [cachePc EXCEPT ![t] = "resolve"]
    /\ UNCHANGED <<pc, program, pending, found, saved, caller, toVisit, gameVars,
                   m_handlers_cached, detours, hookVars, patcherVars, in_script_vm,
                   g_running, quiet>>

\* The game's init_native_tables replaces each hash by its handler, in place.
ResolveCache(t) ==
    /\ ~Dangling
    /\ cachePc[t] = "resolve"
    /\ m_handler_cache' = [n \in Natives |->
                             IF m_handler_cache[n] = "hash" THEN "handler" ELSE m_handler_cache[n]]
    /\ cachePc' = [cachePc EXCEPT ![t] = "mark"]
    /\ UNCHANGED <<pc, program, pending, found, saved, caller, toVisit, gameVars,
                   m_handlers_cached, detours, hookVars, patcherVars, in_script_vm,
                   g_running, quiet>>

MarkCached(t) ==
    /\ ~Dangling
    /\ cachePc[t] = "mark"
    /\ m_handlers_cached' = TRUE
    /\ cachePc' = [cachePc EXCEPT ![t] = "out"]
    /\ UNCHANGED <<pc, program, pending, found, saved, caller, toVisit, gameVars,
                   m_handler_cache, detours, hookVars, patcherVars, in_script_vm,
                   g_running, quiet>>

------------------------------------------------------------------------------
(* native_hooks::hook_program and native_hook::hook_instance *)

Registered(s) == ToAll \cup (IF s = "shop_controller" THEN ToShop ELSE {})

\* Mutation: what was found for the last program is kept.
HookTablesKeepingFound(t) ==
    LET p == program[t] IN
    /\ Go(t, "hook", "lookup")
    /\ saved' = [saved EXCEPT ![t] = vtable[p]]
    /\ vtable' = [vtable EXCEPT ![p] = "hooked"]
    /\ entrypoints' = [entrypoints EXCEPT ![p] = "hooked"]
    /\ pending' = [pending EXCEPT ![t] = Registered(script[p])]
    /\ UNCHANGED <<program, cachePc, found, caller, toVisit, script, m_new_table,
                   m_original_table, m_code_blocks, cacheVars, detours, hookVars,
                   patcherVars, in_script_vm, g_running, quiet>>

\* Both tables of the program are replaced by copies of them, in which the
\* destructor is already ours; the registered natives are to be looked up.  If
\* the program is hooked already, it is our tables that are copied.
HookTables(t) ==
    LET p == program[t] IN
    /\ Go(t, "hook", "lookup")
    /\ saved' = [saved EXCEPT ![t] = vtable[p]]
    /\ vtable' = [vtable EXCEPT ![p] = "hooked"]
    /\ entrypoints' = [entrypoints EXCEPT ![p] = "hooked"]
    /\ pending' = [pending EXCEPT ![t] = Registered(script[p])]
    /\ found' = [found EXCEPT ![t] = {}]
    /\ UNCHANGED <<program, cachePc, caller, toVisit, script, m_new_table,
                   m_original_table, m_code_blocks, cacheVars, detours, hookVars,
                   patcherVars, in_script_vm, g_running, quiet>>

\* get_native_handler.  What is not a handler equals no entry of the program's
\* table, so that nothing comes of it.
LookUp(t, n) ==
    /\ ~Dangling
    /\ pc[t] = "lookup"
    /\ cachePc[t] = "out"
    /\ m_handlers_cached
    /\ n \in pending[t]
    /\ pending' = [pending EXCEPT ![t] = @ \ {n}]
    /\ found' = [found EXCEPT ![t] = IF m_handler_cache[n] = "handler" THEN @ \cup {n} ELSE @]
    /\ UNCHANGED <<pc, program, cachePc, saved, caller, toVisit, gameVars, cacheVars, detours,
                   hookVars, patcherVars, in_script_vm, g_running, quiet>>

LookedUp(t) ==
    /\ pending[t] = {}
    /\ Go(t, "lookup", "finish")
    /\ UNCHANGED <<localVars, gameVars, cacheVars, detours, hookVars, patcherVars,
                   in_script_vm, g_running, quiet>>

\* Mutation: the hook is not entered into the map.
FinishHookUnrecorded(t) ==
    LET p == program[t] IN
    /\ p \notin m_native_hooks
    /\ Go(t, "finish", IF t = Game THEN "game" ELSE "construct")
    /\ m_new_table' = [m_new_table EXCEPT ![p] = found[t]]
    /\ m_original_table' = [m_original_table EXCEPT ![p] = IF saved[t] = "own" THEN "own" ELSE "freed"]
    /\ m_native_hooks' = m_native_hooks
    /\ program' = [program EXCEPT ![t] = None]
    /\ UNCHANGED <<cachePc, pending, found, saved, caller, toVisit, script, vtable,
                   entrypoints, m_code_blocks, cacheVars, detours, g_native_hooks,
                   patcherVars, in_script_vm, g_running, quiet>>

\* The natives found are replaced and the hook is entered into the map.
FinishHook(t) ==
    LET p == program[t] IN
    /\ p \notin m_native_hooks
    /\ Go(t, "finish", IF t = Game THEN "game" ELSE "construct")
    /\ m_new_table' = [m_new_table EXCEPT ![p] = found[t]]
    /\ m_original_table' = [m_original_table EXCEPT ![p] = IF saved[t] = "own" THEN "own" ELSE "freed"]
    /\ m_native_hooks' = m_native_hooks \cup {p}
    /\ program' = [program EXCEPT ![t] = None]
    /\ UNCHANGED <<cachePc, pending, found, saved, caller, toVisit, script, vtable,
                   entrypoints, m_code_blocks, cacheVars, detours, g_native_hooks,
                   patcherVars, in_script_vm, g_running, quiet>>

\* If the map has a hook for the program, the new one is destroyed, which gives
\* the program back the tables it had.
DropHook(t) ==
    LET p == program[t] IN
    /\ p \in m_native_hooks
    /\ Go(t, "finish", IF t = Game THEN "game" ELSE "construct")
    /\ vtable' = [vtable EXCEPT ![p] = saved[t]]
    /\ entrypoints' = [entrypoints EXCEPT ![p] = saved[t]]
    /\ program' = [program EXCEPT ![t] = None]
    /\ UNCHANGED <<cachePc, pending, found, saved, caller, toVisit, script, m_new_table,
                   m_original_table, m_code_blocks, cacheVars, detours, hookVars,
                   patcherVars, in_script_vm, g_running, quiet>>

\* The hooks of the programs P are disabled and leave the map.
Restored(P) ==
    /\ vtable' = [p \in Programs |-> IF p \in P THEN m_original_table[p] ELSE vtable[p]]
    /\ entrypoints' =
         [p \in Programs |-> IF p \in P THEN m_original_table[p] ELSE entrypoints[p]]
    /\ m_new_table' = [p \in Programs |-> IF p \in P THEN {} ELSE m_new_table[p]]
    /\ m_original_table' = [p \in Programs |-> IF p \in P THEN "own" ELSE m_original_table[p]]
    /\ m_native_hooks' = m_native_hooks \ P

HookProgram(t) ==
    \/ HookTables(t)
    \/ \E n \in Natives : LookUp(t, n)
    \/ LookedUp(t)
    \/ FinishHook(t)
    \/ DropHook(t)

CacheHandlers(t) == BeginCache(t) \/ FillCache(t) \/ ResolveCache(t) \/ MarkCached(t)

------------------------------------------------------------------------------
(* The game's thread: loading a program *)

\* The game loads a program, at an address that is free, and calls
\* init_native_tables, which is the detour while it is enabled.
LoadProgram(p, s) ==
    /\ ~Dangling
    /\ pc[Game] = "game"
    /\ script[p] = None
    /\ script' = [script EXCEPT ![p] = s]
    /\ \/ /\ detours = "enabled"
          /\ pc' = [pc EXCEPT ![Game] = "init"]
          /\ program' = [program EXCEPT ![Game] = p]
       \/ /\ detours # "enabled"
          /\ UNCHANGED <<pc, program>>
    /\ Intrudes
    /\ UNCHANGED <<cachePc, pending, found, saved, caller, toVisit, vtable, entrypoints,
                   m_new_table, m_original_table, m_code_blocks, cacheVars, detours, hookVars,
                   patcherVars, in_script_vm, g_running>>

CallInitNativeTables ==
    /\ Go(Game, "init", "loaded")
    /\ UNCHANGED <<localVars, gameVars, cacheVars, detours, hookVars, patcherVars,
                   in_script_vm, g_running, quiet>>

\* on_script_load: only shop_controller has patches, once they are registered.
DataAfterLoad(s) ==
    m_script_data \cup (IF m_script_patches THEN {s} \cap {"shop_controller"} ELSE {})

\* Mutation: init_native_tables does not tell the script patcher.
OnScriptLoadForgotten ==
    /\ Go(Game, "loaded", "hook")
    /\ UNCHANGED m_script_data
    /\ UNCHANGED <<localVars, gameVars, cacheVars, detours, hookVars,
                   g_script_patcher_service, m_script_patches, in_script_vm, g_running,
                   quiet>>

OnScriptLoad ==
    /\ Go(Game, "loaded", "hook")
    /\ m_script_data' = DataAfterLoad(script[program[Game]])
    /\ UNCHANGED <<localVars, gameVars, cacheVars, detours, hookVars,
                   g_script_patcher_service, m_script_patches, in_script_vm, g_running,
                   quiet>>

LoadsProgram ==
    \/ \E p \in Programs, s \in Scripts : LoadProgram(p, s)
    \/ CallInitNativeTables
    \/ OnScriptLoad
    \/ HookProgram(Game)

------------------------------------------------------------------------------
(* The game's thread: executing a program *)

EnterScriptVM(p) ==
    /\ detours = "enabled"
    /\ script[p] # None
    /\ Go(Game, "game", "vm")
    /\ program' = [program EXCEPT ![Game] = p]
    /\ Intrudes
    /\ UNCHANGED <<cachePc, pending, found, saved, caller, toVisit, gameVars, cacheVars, detours,
                   hookVars, patcherVars, in_script_vm, g_running>>

\* get_script_bytecode, by the script's name.
SwapByteCode ==
    /\ Go(Game, "vm", "swapped")
    /\ m_code_blocks' =
         [m_code_blocks EXCEPT ![program[Game]] =
            IF script[program[Game]] \in m_script_data THEN "copy" ELSE @]
    /\ in_script_vm' = TRUE
    /\ UNCHANGED <<localVars, script, vtable, entrypoints, m_new_table, m_original_table, cacheVars,
                   detours, hookVars, patcherVars, g_running, quiet>>

CallScriptVM ==
    /\ Go(Game, "swapped", "execute")
    /\ UNCHANGED <<localVars, gameVars, cacheVars, detours, hookVars, patcherVars,
                   in_script_vm, g_running, quiet>>

LeaveScriptVM ==
    /\ Go(Game, "execute", "game")
    /\ in_script_vm' = FALSE
    /\ m_code_blocks' = [m_code_blocks EXCEPT ![program[Game]] = "own"]
    /\ program' = [program EXCEPT ![Game] = None]
    /\ UNCHANGED <<cachePc, pending, found, saved, caller, toVisit, script, vtable, entrypoints,
                   m_new_table, m_original_table, cacheVars, detours, hookVars, patcherVars, g_running, quiet>>

\* A program calls a native its table sends to all_scripts.  The game's VM does
\* so whether or not script_vm is hooked.
CallDetouredNative(p, n) ==
    /\ ~Dangling
    /\ pc[Game] \in {"game", "execute"}
    /\ pc[Game] = "execute" => p = program[Game]
    /\ script[p] # None
    /\ entrypoints[p] = "hooked"
    /\ n \in m_new_table[p]
    /\ caller' = pc[Game]
    /\ pc' = [pc EXCEPT ![Game] = "detour"]
    /\ Intrudes
    /\ UNCHANGED <<program, cachePc, pending, found, saved, toVisit, gameVars, cacheVars, detours,
                   hookVars, patcherVars, in_script_vm, g_running>>

LeaveDetouredNative ==
    /\ Go(Game, "detour", caller)
    /\ UNCHANGED <<localVars, gameVars, cacheVars, detours, hookVars, patcherVars,
                   in_script_vm, g_running, quiet>>

ExecutesProgram ==
    \/ \E p \in Programs : EnterScriptVM(p) \/ \E n \in Natives : CallDetouredNative(p, n)
    \/ SwapByteCode
    \/ CallScriptVM
    \/ LeaveScriptVM
    \/ LeaveDetouredNative

------------------------------------------------------------------------------
(* The game's thread: destroying a program *)

DestroyProgram(p) ==
    /\ ~Dangling
    /\ pc[Game] = "game"
    /\ script[p] # None
    /\ \/ /\ vtable[p] = "own"
          /\ script' = [script EXCEPT ![p] = None]
          /\ UNCHANGED <<pc, program>>
       \/ /\ vtable[p] = "hooked"
          /\ pc' = [pc EXCEPT ![Game] = "destroy"]
          /\ program' = [program EXCEPT ![Game] = p]
          /\ UNCHANGED script
    /\ Intrudes
    /\ UNCHANGED <<cachePc, pending, found, saved, caller, toVisit, vtable, entrypoints,
                   m_new_table, m_original_table, m_code_blocks, cacheVars, detours, hookVars,
                   patcherVars, in_script_vm, g_running>>

\* Mutation: the game's destructor is called before the tables are given back.
DestroyFirst ==
    /\ program[Game] \in m_native_hooks
    /\ Go(Game, "destroy", "game")
    /\ script' = [script EXCEPT ![program[Game]] = None]
    /\ Restored({program[Game]})
    /\ UNCHANGED <<localVars, m_code_blocks, cacheVars, detours, g_native_hooks,
                   patcherVars, in_script_vm, g_running, quiet>>

\* scrprogram_dtor gives the program its tables back and forgets the hook ...
UnhookDestroyed ==
    /\ program[Game] \in m_native_hooks
    /\ Go(Game, "destroy", "free")
    /\ Restored({program[Game]})
    /\ UNCHANGED <<localVars, script, m_code_blocks, cacheVars, detours, g_native_hooks,
                   patcherVars, in_script_vm, g_running, quiet>>

\* ... before the game's own destructor frees it.
FreeProgram ==
    /\ Go(Game, "free", "game")
    /\ script' = [script EXCEPT ![program[Game]] = None]
    /\ program' = [program EXCEPT ![Game] = None]
    /\ UNCHANGED <<cachePc, pending, found, saved, caller, toVisit, vtable, entrypoints,
                   m_new_table, m_original_table, m_code_blocks, cacheVars, detours,
                   hookVars, patcherVars, in_script_vm, g_running, quiet>>

\* "Cannot find hook for program": its own destructor is not called.
CannotFindHook ==
    /\ program[Game] \notin m_native_hooks
    /\ Go(Game, "destroy", "game")
    /\ program' = [program EXCEPT ![Game] = None]
    /\ UNCHANGED <<cachePc, pending, found, saved, caller, toVisit, gameVars, cacheVars, detours,
                   hookVars, patcherVars, in_script_vm, g_running, quiet>>

DestroysProgram ==
    \/ \E p \in Programs : DestroyProgram(p)
    \/ UnhookDestroyed
    \/ FreeProgram
    \/ CannotFindHook

------------------------------------------------------------------------------
(* The game's thread: hooks::run_script_threads *)

EnterRunScriptThreads ==
    /\ detours = "enabled"
    /\ Go(Game, "game", "tick")
    /\ Intrudes
    /\ UNCHANGED <<localVars, gameVars, cacheVars, detours, hookVars, patcherVars,
                   in_script_vm, g_running>>

HandlersCached ==
    /\ cachePc[Game] = "out"
    /\ m_handlers_cached
    /\ Go(Game, "tick", IF g_running THEN "scripts" ELSE "original")
    /\ UNCHANGED <<localVars, gameVars, cacheVars, detours, hookVars, patcherVars,
                   in_script_vm, g_running, quiet>>

ScriptsRemoved == pc[Main] \in {"patcher", "restore", "unload", "unloaded"}

\* g_script_mgr.tick(): scripts call natives through the cache; backend::loop
\* starts by registering the patches, for the programs loaded as well.
ScriptsTick ==
    /\ Go(Game, "scripts", "original")
    /\ \/ /\ ~ScriptsRemoved
          /\ m_script_patches' = TRUE
          /\ \/ /\ ~m_script_patches
                /\ m_script_data' = {"shop_controller"} \cap {script[p] : p \in Loaded}
             \/ /\ m_script_patches
                /\ UNCHANGED m_script_data
       \/ /\ ScriptsRemoved
          /\ UNCHANGED <<m_script_patches, m_script_data>>
    /\ UNCHANGED <<localVars, gameVars, cacheVars, detours, hookVars,
                   g_script_patcher_service, in_script_vm, g_running, quiet>>

CallRunScriptThreads ==
    /\ Go(Game, "original", "game")
    /\ UNCHANGED <<localVars, gameVars, cacheVars, detours, hookVars, patcherVars,
                   in_script_vm, g_running, quiet>>

RunsScriptThreads ==
    EnterRunScriptThreads \/ HandlersCached \/ ScriptsTick \/ CallRunScriptThreads

------------------------------------------------------------------------------
(* The main thread *)

EnableHooks ==
    /\ Go(Main, "enable", "construct")
    /\ detours' = "enabled"
    /\ UNCHANGED <<localVars, gameVars, cacheVars, hookVars, patcherVars, in_script_vm,
                   g_running, quiet>>

\* native_hooks::native_hooks goes through the game's table of programs ...
VisitProgram(p) ==
    /\ ~Dangling
    /\ pc[Main] = "construct"
    /\ p \in toVisit
    /\ toVisit' = toVisit \ {p}
    /\ \/ /\ script[p] # None
          /\ pc' = [pc EXCEPT ![Main] = "hook"]
          /\ program' = [program EXCEPT ![Main] = p]
       \/ /\ script[p] = None
          /\ UNCHANGED <<pc, program>>
    /\ UNCHANGED <<cachePc, pending, found, saved, caller, gameVars, cacheVars, detours, hookVars,
                   patcherVars, in_script_vm, g_running, quiet>>

\* ... and sets the pointer last.
Publish ==
    /\ toVisit = {}
    /\ Go(Main, "construct", "running")
    /\ g_native_hooks' = TRUE
    /\ UNCHANGED <<localVars, gameVars, cacheVars, detours, m_native_hooks, patcherVars,
                   in_script_vm, g_running, quiet>>

\* The user unloads the menu.
StopRunning ==
    /\ ~Dangling
    /\ g_running
    /\ pc[Main] # "enable"
    /\ g_running' = FALSE
    /\ UNCHANGED <<pc, localVars, gameVars, cacheVars, detours, hookVars, patcherVars,
                   in_script_vm, quiet>>

DisableHooks ==
    /\ ~g_running
    /\ Go(Main, "running", "disable")
    /\ detours' = "disabled"
    /\ TakesDown
    /\ UNCHANGED <<localVars, gameVars, cacheVars, hookVars, patcherVars, in_script_vm,
                   g_running>>

DeleteDetours ==
    /\ Go(Main, "disable", "remove")
    /\ detours' = "deleted"
    /\ TakesDown
    /\ UNCHANGED <<localVars, gameVars, cacheVars, hookVars, patcherVars, in_script_vm,
                   g_running>>

\* remove_all_scripts waits for a tick: both hold the manager's mutex.
RemoveAllScripts ==
    /\ pc[Game] # "scripts"
    /\ Go(Main, "remove", "patcher")
    /\ TakesDown
    /\ UNCHANGED <<localVars, gameVars, cacheVars, detours, hookVars, patcherVars,
                   in_script_vm, g_running>>

ResetScriptPatcher ==
    /\ Go(Main, "patcher", "restore")
    /\ g_script_patcher_service' = FALSE
    /\ m_script_patches' = FALSE
    /\ m_script_data' = {}
    /\ TakesDown
    /\ UNCHANGED <<localVars, gameVars, cacheVars, detours, hookVars, in_script_vm,
                   g_running>>

\* native_hooks::~native_hooks clears the map, hook by hook; ...
RestoreProgram(p) ==
    /\ ~Dangling
    /\ pc[Main] = "restore"
    /\ p \in m_native_hooks
    /\ Restored({p})
    /\ TakesDown
    /\ UNCHANGED <<pc, localVars, script, m_code_blocks, cacheVars, detours,
                   g_native_hooks, patcherVars, in_script_vm, g_running>>

\* Mutation: the pointer is cleared, the map is not.
ResetNativeHooksOnly ==
    /\ Go(Main, "restore", "unload")
    /\ g_native_hooks' = FALSE
    /\ TakesDown
    /\ UNCHANGED <<localVars, gameVars, cacheVars, detours, m_native_hooks, patcherVars,
                   in_script_vm, g_running>>

\* ... a hook entered since then goes with the map itself.
ResetNativeHooks ==
    /\ Go(Main, "restore", "unload")
    /\ g_native_hooks' = FALSE
    /\ Restored(m_native_hooks)
    /\ TakesDown
    /\ UNCHANGED <<localVars, script, m_code_blocks, cacheVars, detours, patcherVars,
                   in_script_vm, g_running>>

\* FreeLibraryAndExitThread
UnloadLibrary ==
    /\ Go(Main, "unload", "unloaded")
    /\ TakesDown
    /\ UNCHANGED <<localVars, gameVars, cacheVars, detours, hookVars, patcherVars,
                   in_script_vm, g_running>>

StartsUp ==
    EnableHooks \/ (\E p \in Programs : VisitProgram(p)) \/ HookProgram(Main) \/ Publish

Unloads ==
    \/ DisableHooks
    \/ DeleteDetours
    \/ RemoveAllScripts
    \/ ResetScriptPatcher
    \/ \E p \in Programs : RestoreProgram(p)
    \/ ResetNativeHooks
    \/ UnloadLibrary

Next ==
    \/ \E t \in Threads : CacheHandlers(t)
    \/ LoadsProgram
    \/ ExecutesProgram
    \/ DestroysProgram
    \/ RunsScriptThreads
    \/ StartsUp
    \/ StopRunning
    \/ Unloads

Spec == Init /\ [][Next]_vars
------------------------------------------------------------------------------
(* Properties *)

\* As long as the two threads keep out of each other's way (no program is
\* loaded or destroyed and nothing of ours called while the native hooks are
\* constructed, and no call of ours is in flight while something is taken
\* down), nothing is used before it exists or after its end.  Programs may be
\* loaded, run and destroyed between any two steps of the unloading: it is the
\* order in which main.cpp takes things down that has to be right.
QuietIsSafe == quiet => ~Dangling

\* Then each program hooked has exactly the natives replaced that are
\* registered for its script or for all scripts, whatever was loaded at its
\* address before it.
QuietDetours ==
    quiet => \A p \in m_native_hooks :
               m_new_table[p] = {n \in Natives : \/ n \in ToAll
                                                 \/ n \in ToShop /\ script[p] = "shop_controller"}

\* However the threads interleave until the hooks are taken down, the map and the programs' tables agree: the
\* map holds no program that is destroyed, each program in it has both tables
\* replaced, and a program whose tables are replaced is in the map, or being
\* entered into it, although the main thread may have hooked it while the game
\* was loading it.  Otherwise scrprogram_dtor finds no hook.
MapMatchesTables ==
    quiet \/ pc[Main] \notin {"restore", "unload", "unloaded"} =>
    /\ \A p \in m_native_hooks : p \in Loaded /\ vtable[p] = "hooked" /\ entrypoints[p] = "hooked"
    /\ \A p \in Programs :
         vtable[p] = "hooked" \/ entrypoints[p] = "hooked" =>
           \/ p \in m_native_hooks
           \/ \E t \in Threads : program[t] = p /\ pc[t] \in {"lookup", "finish"}

\* shop_controller executes its patched copy whenever it executes after the
\* patches were registered, whether it was loaded before or after that; no
\* other script ever executes a copy, and out of script_vm no program has one.
ExecutesPatched ==
    /\ pc[Game] = "execute" /\ m_script_patches /\ script[program[Game]] = "shop_controller" =>
         m_code_blocks[program[Game]] = "copy"
    /\ \A p \in Programs : m_code_blocks[p] = "copy" =>
         /\ script[p] = "shop_controller"
         /\ in_script_vm
         /\ p = program[Game]

\* A program's tables and byte code are those it was loaded with.
AsLoaded(p) == vtable[p] = "own" /\ entrypoints[p] = "own" /\ m_code_blocks[p] = "own"

GivesBack ==
    /\ \A p \in Programs : script[p] # None /\ script'[p] = None => AsLoaded(p)
    /\ pc'[Main] = "unloaded" /\ ~Dangling' => \A p \in Programs : AsLoaded(p)'

\* The game gets back what it has loaded: a program that it destroys is as it
\* was loaded, so that the game's own destructor frees nothing of ours, and so is
\* every program when the library is unloaded, unless the process dies of that.
GivenBack == [][GivesBack]_vars

\* README.md:7, "Unloading at runtime": from the moment the hooks are disabled
\* the game goes on without using anything that is taken away.
UnloadsAtRuntime ==
    detours \in {"disabled", "deleted"} => ~Dangling

\* native_hooks.hpp, "Add a detour for all script threads": a program in the
\* map has the natives replaced that are registered for all scripts.
DetoursAllScripts == \A p \in m_native_hooks : ToAll \subseteq m_new_table[p]
==============================================================================
