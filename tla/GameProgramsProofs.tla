--------------------------- MODULE GameProgramsProofs ---------------------------
(***************************************************************************)
(* Proofs about GamePrograms, for any addresses and natives.               *)
(* IInv is the inductive invariant: where each thread can be, what exists  *)
(* in which phase, which programs are hooked and by whom, which copies of  *)
(* byte code there are, and what the threads that keep apart can rely on.  *)
(***************************************************************************)
EXTENDS GamePrograms, TLAPS

(* Where each thread can be, and that a thread at work on a program has one. *)
GamePc == {"game", "init", "loaded", "hook", "lookup", "finish", "vm", "swapped", "execute",
           "detour", "destroy", "free", "tick", "scripts", "original"}

MainPc == {"enable", "construct", "hook", "lookup", "finish", "running", "disable", "remove",
           "patcher", "restore", "unload", "unloaded"}

Hooking == {"hook", "lookup", "finish"}

(* The game's thread is in the script VM, or in a native called from there. *)
InVM ==
    \/ pc[Game] \in {"swapped", "execute"}
    \/ pc[Game] = "detour" /\ caller = "execute"

Working ==
    /\ pc[Game] \in GamePc
    /\ pc[Main] \in MainPc
    /\ pc[Game] \in Hooking \cup {"init", "loaded", "vm", "destroy", "free"} \/ InVM =>
         program[Game] \in Loaded
    /\ pc[Main] \in Hooking => program[Main] \in Programs
    /\ \A t \in Threads : cachePc[t] # "out" =>
         pc[t] = "tick" \/ (pc[t] = "lookup" /\ pending[t] # {})

(* How far the main thread is says what exists. *)
Phases ==
    /\ pc[Main] = "enable" => detours = "created"
    /\ Starting \/ pc[Main] = "running" => detours = "enabled"
    /\ pc[Main] \in {"disable", "remove", "patcher", "restore", "unload", "unloaded"} =>
         detours \in {"disabled", "deleted"}
    /\ detours = "deleted" => pc[Main] \in {"remove", "patcher", "restore", "unload", "unloaded"}
    /\ g_native_hooks <=> pc[Main] \in {"running", "disable", "remove", "patcher", "restore"}
    /\ g_script_patcher_service <=> pc[Main] \notin {"restore", "unload", "unloaded"}
    /\ pc[Main] = "enable" => pc[Game] = "game" /\ m_native_hooks = {} /\ ~m_script_patches
    /\ pc[Main] \in {"unload", "unloaded"} => m_native_hooks = {}

(* The game's thread hooks programs, and gives them back, only after the main   *)
(* thread has hooked those that were loaded.                                    *)
GameHooksLater ==
    pc[Game] \in {"lookup", "finish", "free"} => pc[Main] # "enable" /\ ~Starting

BeingEntered(p) == \E t \in Threads : program[t] = p /\ pc[t] \in {"lookup", "finish"}

(* Both tables of a program go together, and ours are recorded, or about to be. *)
Recorded ==
    /\ entrypoints = vtable
    /\ \A p \in Programs : vtable[p] = "hooked" => p \in m_native_hooks \/ BeingEntered(p)
    /\ pc[Game] = "free" => vtable[program[Game]] # "hooked"

(* Until the hooks are taken down: which programs are hooked, and what their    *)
(* hooks give back.                                                             *)
Undisturbed == quiet \/ pc[Main] \notin {"restore", "unload", "unloaded"}

Agreement ==
    Undisturbed =>
    /\ \A p \in m_native_hooks : p \in Loaded /\ vtable[p] = "hooked"
    /\ \A p \in Programs : vtable[p] # "freed" /\ m_original_table[p] = "own"
    /\ \A t \in Threads : pc[t] \in {"lookup", "finish"} =>
         /\ program[t] \in Loaded
         /\ vtable[program[t]] = "hooked"
         /\ program[t] \in m_native_hooks <=> saved[t] = "hooked"
    /\ Starting => /\ toVisit \cap m_native_hooks = {}
                   /\ pc[Main] \in Hooking => program[Main] \notin toVisit \cup m_native_hooks
    /\ pc[Game] = "free" => program[Game] \notin m_native_hooks

(* The copies of the byte code: made before they are needed, and there until    *)
(* nobody executes them.                                                        *)
Copies ==
    /\ m_script_data \subseteq {"shop_controller"}
    /\ in_script_vm <=> InVM
    /\ \A p \in Programs : m_code_blocks[p] = "copy" =>
         InVM /\ p = program[Game] /\ script[p] = "shop_controller"
    /\ InVM /\ m_script_patches /\ script[program[Game]] = "shop_controller" =>
         m_code_blocks[program[Game]] = "copy"
    /\ m_script_patches /\ "shop_controller" \notin m_script_data =>
         /\ detours = "enabled" => \A p \in Loaded :
              script[p] = "shop_controller" => pc[Game] \in {"init", "loaded"} /\ program[Game] = p
         /\ pc[Game] = "vm" => script[program[Game]] # "shop_controller"

(* What quiet means for the game's thread, ... *)
KeptApart ==
    quiet =>
    /\ detours # "enabled" =>
         pc[Game] \in {"game", "destroy", "free", "detour"} /\ (pc[Game] = "detour" => caller = "game")
    /\ ~g_native_hooks => pc[Game] = "game"
    /\ pc[Main] \in Hooking => program[Main] \in Loaded
    /\ InVM /\ m_code_blocks[program[Game]] = "copy" => script[program[Game]] \in m_script_data

(* ... for the cache of handlers, ... *)
CacheFilledOnce ==
    quiet =>
    /\ m_handlers_cached => Unresolved = {}
    /\ \A t \in Threads :
         /\ cachePc[t] # "out" => ~m_handlers_cached /\ \A u \in Threads : cachePc[u] # "out" => u = t
         /\ cachePc[t] = "resolve" => \A n \in Natives : m_handler_cache[n] # "zero"
         /\ cachePc[t] = "mark" => Unresolved = {}
    /\ pc[Game] = "scripts" => m_handlers_cached

(* ... and for the natives that are replaced. *)
Detours ==
    quiet =>
    /\ \A p \in m_native_hooks : m_new_table[p] = Registered(script[p])
    /\ \A t \in Threads :
         /\ pc[t] \in {"lookup", "finish"} => found[t] \cup pending[t] = Registered(script[program[t]])
         /\ pc[t] = "finish" => pending[t] = {}

(* A program whose turn it is to be freed. *)
Freed(p) ==
    \/ pc[Game] = "game" /\ vtable[p] = "own"
    \/ pc[Game] = "free" /\ program[Game] = p /\ vtable[p] # "freed"

IInv ==
    /\ TypeOK
    /\ Working
    /\ Phases
    /\ GameHooksLater
    /\ Recorded
    /\ Agreement
    /\ Copies
    /\ KeptApart
    /\ CacheFilledOnce
    /\ Detours

------------------------------------------------------------------------------

(* Every step keeps the types. *)
LEMMA TypeStep ==
    ASSUME TypeOK, Working, [Next]_vars
    PROVE  TypeOK'
<1> USE DEF TypeOK, Threads
<1>1. ASSUME NEW t \in Threads, CacheHandlers(t) PROVE TypeOK'
  <2>1. CASE BeginCache(t)
    BY <2>1 DEF BeginCache, gameVars, cacheVars, hookVars, patcherVars
  <2>2. CASE FillCache(t)
    BY <2>2 DEF FillCache, gameVars, hookVars, patcherVars
  <2>3. CASE ResolveCache(t)
    BY <2>3 DEF ResolveCache, gameVars, hookVars, patcherVars
  <2>4. CASE MarkCached(t)
    BY <2>4 DEF MarkCached, gameVars, hookVars, patcherVars
  <2> QED
    BY <1>1, <2>1, <2>2, <2>3, <2>4 DEF CacheHandlers
<1>2. ASSUME NEW t \in Threads, HookProgram(t) PROVE TypeOK'
  <2>1. CASE HookTables(t)
    BY <2>1, ProgramsAssumption
    DEF HookTables, Go, cacheVars, hookVars, patcherVars, Working, Hooking, Registered,
        Loaded, Dangling, GameDangles, MainDangles
  <2>2. ASSUME NEW n \in Natives, LookUp(t, n) PROVE TypeOK'
    BY <2>2 DEF LookUp, gameVars, cacheVars, hookVars, patcherVars
  <2>3. CASE LookedUp(t)
    BY <2>3 DEF LookedUp, Go, localVars, gameVars, cacheVars, hookVars, patcherVars
  <2>4. CASE FinishHook(t)
    BY <2>4 DEF FinishHook, Go, cacheVars, patcherVars, Working, Hooking, Loaded
  <2>5. CASE DropHook(t)
    BY <2>5 DEF DropHook, Go, cacheVars, hookVars, patcherVars
  <2> QED
    BY <1>2, <2>1, <2>2, <2>3, <2>4, <2>5 DEF HookProgram
<1>3. CASE LoadsProgram
  <2>1. ASSUME NEW p \in Programs, NEW s \in Scripts, LoadProgram(p, s) PROVE TypeOK'
    BY <2>1 DEF LoadProgram, Intrudes, cacheVars, hookVars, patcherVars
  <2>2. CASE CallInitNativeTables
    BY <2>2
    DEF CallInitNativeTables, Go, localVars, gameVars, cacheVars, hookVars, patcherVars
  <2>3. CASE OnScriptLoad
    BY <2>3 DEF OnScriptLoad, Go, DataAfterLoad, localVars, gameVars, cacheVars, hookVars
  <2> QED
    BY <1>3, <1>2, <2>1, <2>2, <2>3 DEF LoadsProgram, Threads
<1>4. CASE ExecutesProgram
  <2>1. ASSUME NEW p \in Programs, EnterScriptVM(p) PROVE TypeOK'
    BY <2>1 DEF EnterScriptVM, Go, Intrudes, gameVars, cacheVars, hookVars, patcherVars
  <2>2. CASE SwapByteCode
    BY <2>2 DEF SwapByteCode, Go, localVars, cacheVars, hookVars, patcherVars, Working
  <2>3. CASE CallScriptVM
    BY <2>3 DEF CallScriptVM, Go, localVars, gameVars, cacheVars, hookVars, patcherVars
  <2>4. CASE LeaveScriptVM
    BY <2>4 DEF LeaveScriptVM, Go, cacheVars, hookVars, patcherVars
  <2>5. ASSUME NEW p \in Programs, NEW n \in Natives, CallDetouredNative(p, n) PROVE TypeOK'
    BY <2>5 DEF CallDetouredNative, Intrudes, gameVars, cacheVars, hookVars, patcherVars
  <2>6. CASE LeaveDetouredNative
    BY <2>6
    DEF LeaveDetouredNative, Go, localVars, gameVars, cacheVars, hookVars, patcherVars
  <2> QED
    BY <1>4, <2>1, <2>2, <2>3, <2>4, <2>5, <2>6 DEF ExecutesProgram
<1>5. CASE DestroysProgram
  <2>1. ASSUME NEW p \in Programs, DestroyProgram(p) PROVE TypeOK'
    BY <2>1 DEF DestroyProgram, Intrudes, cacheVars, hookVars, patcherVars
  <2>2. CASE UnhookDestroyed
    BY <2>2 DEF UnhookDestroyed, Go, Restored, localVars, cacheVars, patcherVars
  <2>3. CASE FreeProgram
    BY <2>3 DEF FreeProgram, Go, cacheVars, hookVars, patcherVars
  <2>4. CASE CannotFindHook
    BY <2>4 DEF CannotFindHook, Go, gameVars, cacheVars, hookVars, patcherVars
  <2> QED
    BY <1>5, <2>1, <2>2, <2>3, <2>4 DEF DestroysProgram
<1>6. CASE RunsScriptThreads
  <2>1. CASE EnterRunScriptThreads
    BY <2>1
    DEF EnterRunScriptThreads, Go, Intrudes, localVars, gameVars, cacheVars, hookVars,
        patcherVars
  <2>2. CASE HandlersCached
    BY <2>2 DEF HandlersCached, Go, localVars, gameVars, cacheVars, hookVars, patcherVars
  <2>3. CASE ScriptsTick
    <3>1. m_script_patches' \in BOOLEAN /\ m_script_data' \in SUBSET Scripts
      <4>1. "shop_controller" \in Scripts
        BY DEF Scripts
      <4> QED
        BY <2>3, <4>1 DEF ScriptsTick, patcherVars, TypeOK
    <3>2. /\ pc' = [pc EXCEPT ![Game] = "original"]
          /\ UNCHANGED <<localVars, gameVars, cacheVars, detours, hookVars,
                         g_script_patcher_service, in_script_vm, g_running, quiet>>
      BY <2>3 DEF ScriptsTick, Go
    <3> QED
      BY <3>1, <3>2
      DEF localVars, gameVars, cacheVars, hookVars
  <2>4. CASE CallRunScriptThreads
    BY <2>4
    DEF CallRunScriptThreads, Go, localVars, gameVars, cacheVars, hookVars, patcherVars
  <2> QED
    BY <1>6, <2>1, <2>2, <2>3, <2>4 DEF RunsScriptThreads
<1>7. CASE StartsUp
  <2>1. CASE EnableHooks
    BY <2>1 DEF EnableHooks, Go, localVars, gameVars, cacheVars, hookVars, patcherVars
  <2>2. ASSUME NEW p \in Programs, VisitProgram(p) PROVE TypeOK'
    BY <2>2 DEF VisitProgram, gameVars, cacheVars, hookVars, patcherVars
  <2>3. CASE Publish
    BY <2>3 DEF Publish, Go, localVars, gameVars, cacheVars, patcherVars
  <2> QED
    BY <1>7, <1>2, <2>1, <2>2, <2>3 DEF StartsUp, Threads
<1>8. CASE StopRunning
  BY <1>8 DEF StopRunning, localVars, gameVars, cacheVars, hookVars, patcherVars
<1>9. CASE Unloads
  <2>1. CASE DisableHooks
    BY <2>1
    DEF DisableHooks, Go, TakesDown, localVars, gameVars, cacheVars, hookVars,
        patcherVars
  <2>2. CASE DeleteDetours
    BY <2>2
    DEF DeleteDetours, Go, TakesDown, localVars, gameVars, cacheVars, hookVars,
        patcherVars
  <2>3. CASE RemoveAllScripts
    BY <2>3
    DEF RemoveAllScripts, Go, TakesDown, localVars, gameVars, cacheVars, hookVars,
        patcherVars
  <2>4. CASE ResetScriptPatcher
    BY <2>4
    DEF ResetScriptPatcher, Go, TakesDown, localVars, gameVars, cacheVars, hookVars
  <2>5. ASSUME NEW p \in Programs, RestoreProgram(p) PROVE TypeOK'
    BY <2>5 DEF RestoreProgram, Restored, TakesDown, localVars, cacheVars, patcherVars
  <2>6. CASE ResetNativeHooks
    BY <2>6
    DEF ResetNativeHooks, Go, Restored, TakesDown, localVars, cacheVars, patcherVars
  <2>7. CASE UnloadLibrary
    BY <2>7
    DEF UnloadLibrary, Go, TakesDown, localVars, gameVars, cacheVars, hookVars,
        patcherVars
  <2> QED
    BY <1>9, <2>1, <2>2, <2>3, <2>4, <2>5, <2>6, <2>7 DEF Unloads
<1>10. CASE UNCHANGED vars
  BY <1>10 DEF vars, localVars, gameVars, cacheVars, hookVars, patcherVars
<1> QED
  BY <1>1, <1>2, <1>3, <1>4, <1>5, <1>6, <1>7, <1>8, <1>9, <1>10
  DEF Next

(* Every step keeps each thread in its own code. *)
LEMMA WorkingStep ==
    ASSUME TypeOK, Working, [Next]_vars
    PROVE  Working'
<1> USE ProgramsAssumption DEF TypeOK, Working, Threads, GamePc, MainPc, Hooking, InVM, Loaded
<1>1. ASSUME NEW t \in Threads, CacheHandlers(t) PROVE Working'
  <2>1. CASE BeginCache(t)
    BY <2>1 DEF BeginCache, gameVars, cacheVars, hookVars, patcherVars
  <2>2. CASE FillCache(t)
    BY <2>2 DEF FillCache, gameVars, hookVars, patcherVars
  <2>3. CASE ResolveCache(t)
    BY <2>3 DEF ResolveCache, gameVars, hookVars, patcherVars
  <2>4. CASE MarkCached(t)
    BY <2>4 DEF MarkCached, gameVars, hookVars, patcherVars
  <2> QED
    BY <1>1, <2>1, <2>2, <2>3, <2>4 DEF CacheHandlers
<1>2. ASSUME NEW t \in Threads, HookProgram(t) PROVE Working'
  <2>1. CASE HookTables(t)
    BY <2>1 DEF HookTables, Go, cacheVars, hookVars, patcherVars
  <2>2. ASSUME NEW n \in Natives, LookUp(t, n) PROVE Working'
    BY <2>2 DEF LookUp, gameVars, cacheVars, hookVars, patcherVars
  <2>3. CASE LookedUp(t)
    <3>1. CASE t = Game
      BY <2>3, <3>1, ProgramsAssumption
      DEF LookedUp, Go, localVars, gameVars, cacheVars, hookVars, patcherVars, TypeOK,
          Working, Threads, GamePc, MainPc, Hooking, InVM, Loaded
    <3>2. CASE t = Main
      BY <2>3, <3>2, ProgramsAssumption
      DEF LookedUp, Go, localVars, gameVars, cacheVars, hookVars, patcherVars, TypeOK,
          Working, Threads, GamePc, MainPc, Hooking, InVM, Loaded
    <3> QED
      BY <3>1, <3>2 DEF Threads
  <2>4. CASE FinishHook(t)
    BY <2>4 DEF FinishHook, Go, cacheVars, patcherVars
  <2>5. CASE DropHook(t)
    BY <2>5 DEF DropHook, Go, cacheVars, hookVars, patcherVars
  <2> QED
    BY <1>2, <2>1, <2>2, <2>3, <2>4, <2>5 DEF HookProgram
<1>3. CASE LoadsProgram
  <2>1. ASSUME NEW p \in Programs, NEW s \in Scripts, LoadProgram(p, s) PROVE Working'
    BY <2>1 DEF LoadProgram, Intrudes, cacheVars, hookVars, patcherVars
  <2>2. CASE CallInitNativeTables
    BY <2>2
    DEF CallInitNativeTables, Go, localVars, gameVars, cacheVars, hookVars, patcherVars
  <2>3. CASE OnScriptLoad
    BY <2>3 DEF OnScriptLoad, Go, DataAfterLoad, localVars, gameVars, cacheVars, hookVars
  <2> QED
    BY <1>3, <1>2, <2>1, <2>2, <2>3 DEF LoadsProgram, Threads
<1>4. CASE ExecutesProgram
  <2>1. ASSUME NEW p \in Programs, EnterScriptVM(p) PROVE Working'
    BY <2>1 DEF EnterScriptVM, Go, Intrudes, gameVars, cacheVars, hookVars, patcherVars
  <2>2. CASE SwapByteCode
    BY <2>2 DEF SwapByteCode, Go, localVars, cacheVars, hookVars, patcherVars
  <2>3. CASE CallScriptVM
    BY <2>3 DEF CallScriptVM, Go, localVars, gameVars, cacheVars, hookVars, patcherVars
  <2>4. CASE LeaveScriptVM
    BY <2>4 DEF LeaveScriptVM, Go, cacheVars, hookVars, patcherVars
  <2>5. ASSUME NEW p \in Programs, NEW n \in Natives, CallDetouredNative(p, n) PROVE Working'
    BY <2>5 DEF CallDetouredNative, Intrudes, gameVars, cacheVars, hookVars, patcherVars
  <2>6. CASE LeaveDetouredNative
    BY <2>6
    DEF LeaveDetouredNative, Go, localVars, gameVars, cacheVars, hookVars, patcherVars
  <2> QED
    BY <1>4, <2>1, <2>2, <2>3, <2>4, <2>5, <2>6 DEF ExecutesProgram
<1>5. CASE DestroysProgram
  <2>1. ASSUME NEW p \in Programs, DestroyProgram(p) PROVE Working'
    BY <2>1 DEF DestroyProgram, Intrudes, cacheVars, hookVars, patcherVars
  <2>2. CASE UnhookDestroyed
    BY <2>2 DEF UnhookDestroyed, Go, Restored, localVars, cacheVars, patcherVars
  <2>3. CASE FreeProgram
    BY <2>3 DEF FreeProgram, Go, cacheVars, hookVars, patcherVars
  <2>4. CASE CannotFindHook
    BY <2>4 DEF CannotFindHook, Go, gameVars, cacheVars, hookVars, patcherVars
  <2> QED
    BY <1>5, <2>1, <2>2, <2>3, <2>4 DEF DestroysProgram
<1>6. CASE RunsScriptThreads
  <2>1. CASE EnterRunScriptThreads
    BY <2>1
    DEF EnterRunScriptThreads, Go, Intrudes, localVars, gameVars, cacheVars, hookVars,
        patcherVars
  <2>2. CASE HandlersCached
    BY <2>2 DEF HandlersCached, Go, localVars, gameVars, cacheVars, hookVars, patcherVars
  <2>3. CASE ScriptsTick
    BY <2>3 DEF ScriptsTick, Go, ScriptsRemoved, localVars, gameVars, cacheVars, hookVars
  <2>4. CASE CallRunScriptThreads
    BY <2>4
    DEF CallRunScriptThreads, Go, localVars, gameVars, cacheVars, hookVars, patcherVars
  <2> QED
    BY <1>6, <2>1, <2>2, <2>3, <2>4 DEF RunsScriptThreads
<1>7. CASE StartsUp
  <2>1. CASE EnableHooks
    BY <2>1 DEF EnableHooks, Go, localVars, gameVars, cacheVars, hookVars, patcherVars
  <2>2. ASSUME NEW p \in Programs, VisitProgram(p) PROVE Working'
    BY <2>2 DEF VisitProgram, gameVars, cacheVars, hookVars, patcherVars
  <2>3. CASE Publish
    BY <2>3 DEF Publish, Go, localVars, gameVars, cacheVars, patcherVars
  <2> QED
    BY <1>7, <1>2, <2>1, <2>2, <2>3 DEF StartsUp, Threads
<1>8. CASE StopRunning
  BY <1>8 DEF StopRunning, localVars, gameVars, cacheVars, hookVars, patcherVars
<1>9. CASE Unloads
  <2>1. CASE DisableHooks
    BY <2>1
    DEF DisableHooks, Go, TakesDown, localVars, gameVars, cacheVars, hookVars,
        patcherVars
  <2>2. CASE DeleteDetours
    BY <2>2
    DEF DeleteDetours, Go, TakesDown, localVars, gameVars, cacheVars, hookVars,
        patcherVars
  <2>3. CASE RemoveAllScripts
    BY <2>3
    DEF RemoveAllScripts, Go, TakesDown, localVars, gameVars, cacheVars, hookVars,
        patcherVars
  <2>4. CASE ResetScriptPatcher
    BY <2>4
    DEF ResetScriptPatcher, Go, TakesDown, localVars, gameVars, cacheVars, hookVars
  <2>5. ASSUME NEW p \in Programs, RestoreProgram(p) PROVE Working'
    BY <2>5 DEF RestoreProgram, Restored, TakesDown, localVars, cacheVars, patcherVars
  <2>6. CASE ResetNativeHooks
    BY <2>6
    DEF ResetNativeHooks, Go, Restored, TakesDown, localVars, cacheVars, patcherVars
  <2>7. CASE UnloadLibrary
    BY <2>7
    DEF UnloadLibrary, Go, TakesDown, localVars, gameVars, cacheVars, hookVars,
        patcherVars
  <2> QED
    BY <1>9, <2>1, <2>2, <2>3, <2>4, <2>5, <2>6, <2>7 DEF Unloads
<1>10. CASE UNCHANGED vars
  BY <1>10 DEF vars, localVars, gameVars, cacheVars, hookVars, patcherVars
<1> QED
  BY <1>1, <1>2, <1>3, <1>4, <1>5, <1>6, <1>7, <1>8, <1>9, <1>10
  DEF Next

(* Every step keeps the phases. *)
LEMMA PhasesStep ==
    ASSUME TypeOK, Working, Phases, Recorded, [Next]_vars
    PROVE  Phases'
<1> USE DEF TypeOK, Working, Phases, Threads, GamePc, MainPc, Hooking, Starting
<1>1. ASSUME NEW t \in Threads, CacheHandlers(t) PROVE Phases'
  <2>1. CASE BeginCache(t)
    BY <2>1 DEF BeginCache, gameVars, cacheVars, hookVars, patcherVars
  <2>2. CASE FillCache(t)
    BY <2>2 DEF FillCache, gameVars, hookVars, patcherVars
  <2>3. CASE ResolveCache(t)
    BY <2>3 DEF ResolveCache, gameVars, hookVars, patcherVars
  <2>4. CASE MarkCached(t)
    BY <2>4 DEF MarkCached, gameVars, hookVars, patcherVars
  <2> QED
    BY <1>1, <2>1, <2>2, <2>3, <2>4 DEF CacheHandlers
<1>2. ASSUME NEW t \in Threads, HookProgram(t) PROVE Phases'
  <2>1. CASE HookTables(t)
    BY <2>1 DEF HookTables, Go, cacheVars, hookVars, patcherVars
  <2>2. ASSUME NEW n \in Natives, LookUp(t, n) PROVE Phases'
    BY <2>2 DEF LookUp, gameVars, cacheVars, hookVars, patcherVars
  <2>3. CASE LookedUp(t)
    BY <2>3 DEF LookedUp, Go, localVars, gameVars, cacheVars, hookVars, patcherVars
  <2>4. CASE FinishHook(t)
    BY <2>4 DEF FinishHook, Go, cacheVars, patcherVars, Dangling, GameDangles, MainDangles
  <2>5. CASE DropHook(t)
    BY <2>5 DEF DropHook, Go, cacheVars, hookVars, patcherVars
  <2> QED
    BY <1>2, <2>1, <2>2, <2>3, <2>4, <2>5 DEF HookProgram
<1>3. CASE LoadsProgram
  <2>1. ASSUME NEW p \in Programs, NEW s \in Scripts, LoadProgram(p, s) PROVE Phases'
    BY <2>1 DEF LoadProgram, Intrudes, cacheVars, hookVars, patcherVars
  <2>2. CASE CallInitNativeTables
    BY <2>2
    DEF CallInitNativeTables, Go, localVars, gameVars, cacheVars, hookVars, patcherVars
  <2>3. CASE OnScriptLoad
    BY <2>3 DEF OnScriptLoad, Go, DataAfterLoad, localVars, gameVars, cacheVars, hookVars
  <2> QED
    BY <1>3, <1>2, <2>1, <2>2, <2>3 DEF LoadsProgram, Threads
<1>4. CASE ExecutesProgram
  <2>1. ASSUME NEW p \in Programs, EnterScriptVM(p) PROVE Phases'
    BY <2>1 DEF EnterScriptVM, Go, Intrudes, gameVars, cacheVars, hookVars, patcherVars
  <2>2. CASE SwapByteCode
    BY <2>2 DEF SwapByteCode, Go, localVars, cacheVars, hookVars, patcherVars
  <2>3. CASE CallScriptVM
    BY <2>3 DEF CallScriptVM, Go, localVars, gameVars, cacheVars, hookVars, patcherVars
  <2>4. CASE LeaveScriptVM
    BY <2>4 DEF LeaveScriptVM, Go, cacheVars, hookVars, patcherVars
  <2>5. ASSUME NEW p \in Programs, NEW n \in Natives, CallDetouredNative(p, n) PROVE Phases'
    BY <2>5
    DEF CallDetouredNative, Intrudes, gameVars, cacheVars, hookVars, patcherVars,
        Recorded, BeingEntered
  <2>6. CASE LeaveDetouredNative
    BY <2>6
    DEF LeaveDetouredNative, Go, localVars, gameVars, cacheVars, hookVars, patcherVars
  <2> QED
    BY <1>4, <2>1, <2>2, <2>3, <2>4, <2>5, <2>6 DEF ExecutesProgram
<1>5. CASE DestroysProgram
  <2>1. ASSUME NEW p \in Programs, DestroyProgram(p) PROVE Phases'
    BY <2>1
    DEF DestroyProgram, Intrudes, cacheVars, hookVars, patcherVars, Recorded,
        BeingEntered
  <2>2. CASE UnhookDestroyed
    BY <2>2 DEF UnhookDestroyed, Go, Restored, localVars, cacheVars, patcherVars
  <2>3. CASE FreeProgram
    BY <2>3 DEF FreeProgram, Go, cacheVars, hookVars, patcherVars
  <2>4. CASE CannotFindHook
    BY <2>4 DEF CannotFindHook, Go, gameVars, cacheVars, hookVars, patcherVars
  <2> QED
    BY <1>5, <2>1, <2>2, <2>3, <2>4 DEF DestroysProgram
<1>6. CASE RunsScriptThreads
  <2>1. CASE EnterRunScriptThreads
    BY <2>1
    DEF EnterRunScriptThreads, Go, Intrudes, localVars, gameVars, cacheVars, hookVars,
        patcherVars
  <2>2. CASE HandlersCached
    BY <2>2 DEF HandlersCached, Go, localVars, gameVars, cacheVars, hookVars, patcherVars
  <2>3. CASE ScriptsTick
    BY <2>3 DEF ScriptsTick, Go, ScriptsRemoved, localVars, gameVars, cacheVars, hookVars
  <2>4. CASE CallRunScriptThreads
    BY <2>4
    DEF CallRunScriptThreads, Go, localVars, gameVars, cacheVars, hookVars, patcherVars
  <2> QED
    BY <1>6, <2>1, <2>2, <2>3, <2>4 DEF RunsScriptThreads
<1>7. CASE StartsUp
  <2>1. CASE EnableHooks
    BY <2>1 DEF EnableHooks, Go, localVars, gameVars, cacheVars, hookVars, patcherVars
  <2>2. ASSUME NEW p \in Programs, VisitProgram(p) PROVE Phases'
    BY <2>2 DEF VisitProgram, gameVars, cacheVars, hookVars, patcherVars
  <2>3. CASE Publish
    BY <2>3 DEF Publish, Go, localVars, gameVars, cacheVars, patcherVars
  <2> QED
    BY <1>7, <1>2, <2>1, <2>2, <2>3 DEF StartsUp, Threads
<1>8. CASE StopRunning
  BY <1>8 DEF StopRunning, localVars, gameVars, cacheVars, hookVars, patcherVars
<1>9. CASE Unloads
  <2>1. CASE DisableHooks
    BY <2>1
    DEF DisableHooks, Go, TakesDown, localVars, gameVars, cacheVars, hookVars,
        patcherVars
  <2>2. CASE DeleteDetours
    BY <2>2
    DEF DeleteDetours, Go, TakesDown, localVars, gameVars, cacheVars, hookVars,
        patcherVars
  <2>3. CASE RemoveAllScripts
    BY <2>3
    DEF RemoveAllScripts, Go, TakesDown, localVars, gameVars, cacheVars, hookVars,
        patcherVars
  <2>4. CASE ResetScriptPatcher
    BY <2>4
    DEF ResetScriptPatcher, Go, TakesDown, localVars, gameVars, cacheVars, hookVars
  <2>5. ASSUME NEW p \in Programs, RestoreProgram(p) PROVE Phases'
    BY <2>5 DEF RestoreProgram, Restored, TakesDown, localVars, cacheVars, patcherVars
  <2>6. CASE ResetNativeHooks
    BY <2>6
    DEF ResetNativeHooks, Go, Restored, TakesDown, localVars, cacheVars, patcherVars
  <2>7. CASE UnloadLibrary
    BY <2>7
    DEF UnloadLibrary, Go, TakesDown, localVars, gameVars, cacheVars, hookVars,
        patcherVars
  <2> QED
    BY <1>9, <2>1, <2>2, <2>3, <2>4, <2>5, <2>6, <2>7 DEF Unloads
<1>10. CASE UNCHANGED vars
  BY <1>10 DEF vars, localVars, gameVars, cacheVars, hookVars, patcherVars
<1> QED
  BY <1>1, <1>2, <1>3, <1>4, <1>5, <1>6, <1>7, <1>8, <1>9, <1>10
  DEF Next

(* Every step keeps the game's thread behind the main thread's hooking. *)
LEMMA GameHooksLaterStep ==
    ASSUME TypeOK, Working, Phases, GameHooksLater, [Next]_vars
    PROVE  GameHooksLater'
<1> USE ProgramsAssumption
DEF TypeOK, Working, GameHooksLater, Starting, Threads, GamePc, MainPc, Hooking
<1>1. ASSUME NEW t \in Threads, CacheHandlers(t) PROVE GameHooksLater'
  <2>1. CASE BeginCache(t)
    BY <2>1 DEF BeginCache, gameVars, cacheVars, hookVars, patcherVars
  <2>2. CASE FillCache(t)
    BY <2>2 DEF FillCache, gameVars, hookVars, patcherVars
  <2>3. CASE ResolveCache(t)
    BY <2>3 DEF ResolveCache, gameVars, hookVars, patcherVars
  <2>4. CASE MarkCached(t)
    BY <2>4 DEF MarkCached, gameVars, hookVars, patcherVars
  <2> QED
    BY <1>1, <2>1, <2>2, <2>3, <2>4 DEF CacheHandlers
<1>2. ASSUME NEW t \in Threads, HookProgram(t) PROVE GameHooksLater'
  <2>1. CASE HookTables(t)
    BY <2>1
    DEF HookTables, Go, cacheVars, hookVars, patcherVars, Phases, Dangling, GameDangles,
        MainDangles
  <2>2. ASSUME NEW n \in Natives, LookUp(t, n) PROVE GameHooksLater'
    BY <2>2 DEF LookUp, gameVars, cacheVars, hookVars, patcherVars
  <2>3. CASE LookedUp(t)
    BY <2>3 DEF LookedUp, Go, localVars, gameVars, cacheVars, hookVars, patcherVars
  <2>4. CASE FinishHook(t)
    BY <2>4 DEF FinishHook, Go, cacheVars, patcherVars
  <2>5. CASE DropHook(t)
    BY <2>5 DEF DropHook, Go, cacheVars, hookVars, patcherVars
  <2> QED
    BY <1>2, <2>1, <2>2, <2>3, <2>4, <2>5 DEF HookProgram
<1>3. CASE LoadsProgram
  <2>1. ASSUME NEW p \in Programs, NEW s \in Scripts, LoadProgram(p, s) PROVE GameHooksLater'
    BY <2>1 DEF LoadProgram, Intrudes, cacheVars, hookVars, patcherVars
  <2>2. CASE CallInitNativeTables
    BY <2>2
    DEF CallInitNativeTables, Go, localVars, gameVars, cacheVars, hookVars, patcherVars
  <2>3. CASE OnScriptLoad
    BY <2>3 DEF OnScriptLoad, Go, DataAfterLoad, localVars, gameVars, cacheVars, hookVars
  <2> QED
    BY <1>3, <1>2, <2>1, <2>2, <2>3 DEF LoadsProgram, Threads
<1>4. CASE ExecutesProgram
  <2>1. ASSUME NEW p \in Programs, EnterScriptVM(p) PROVE GameHooksLater'
    BY <2>1 DEF EnterScriptVM, Go, Intrudes, gameVars, cacheVars, hookVars, patcherVars
  <2>2. CASE SwapByteCode
    BY <2>2 DEF SwapByteCode, Go, localVars, cacheVars, hookVars, patcherVars
  <2>3. CASE CallScriptVM
    BY <2>3 DEF CallScriptVM, Go, localVars, gameVars, cacheVars, hookVars, patcherVars
  <2>4. CASE LeaveScriptVM
    BY <2>4 DEF LeaveScriptVM, Go, cacheVars, hookVars, patcherVars
  <2>5. ASSUME NEW p \in Programs, NEW n \in Natives, CallDetouredNative(p, n) PROVE GameHooksLater'
    BY <2>5 DEF CallDetouredNative, Intrudes, gameVars, cacheVars, hookVars, patcherVars
  <2>6. CASE LeaveDetouredNative
    BY <2>6
    DEF LeaveDetouredNative, Go, localVars, gameVars, cacheVars, hookVars, patcherVars
  <2> QED
    BY <1>4, <2>1, <2>2, <2>3, <2>4, <2>5, <2>6 DEF ExecutesProgram
<1>5. CASE DestroysProgram
  <2>1. ASSUME NEW p \in Programs, DestroyProgram(p) PROVE GameHooksLater'
    BY <2>1 DEF DestroyProgram, Intrudes, cacheVars, hookVars, patcherVars
  <2>2. CASE UnhookDestroyed
    BY <2>2
    DEF UnhookDestroyed, Go, Restored, localVars, cacheVars, patcherVars, Phases,
        Dangling, GameDangles, MainDangles
  <2>3. CASE FreeProgram
    BY <2>3 DEF FreeProgram, Go, cacheVars, hookVars, patcherVars
  <2>4. CASE CannotFindHook
    BY <2>4 DEF CannotFindHook, Go, gameVars, cacheVars, hookVars, patcherVars
  <2> QED
    BY <1>5, <2>1, <2>2, <2>3, <2>4 DEF DestroysProgram
<1>6. CASE RunsScriptThreads
  <2>1. CASE EnterRunScriptThreads
    BY <2>1
    DEF EnterRunScriptThreads, Go, Intrudes, localVars, gameVars, cacheVars, hookVars,
        patcherVars
  <2>2. CASE HandlersCached
    BY <2>2 DEF HandlersCached, Go, localVars, gameVars, cacheVars, hookVars, patcherVars
  <2>3. CASE ScriptsTick
    BY <2>3 DEF ScriptsTick, Go, ScriptsRemoved, localVars, gameVars, cacheVars, hookVars
  <2>4. CASE CallRunScriptThreads
    BY <2>4
    DEF CallRunScriptThreads, Go, localVars, gameVars, cacheVars, hookVars, patcherVars
  <2> QED
    BY <1>6, <2>1, <2>2, <2>3, <2>4 DEF RunsScriptThreads
<1>7. CASE StartsUp
  <2>1. CASE EnableHooks
    BY <2>1
    DEF EnableHooks, Go, localVars, gameVars, cacheVars, hookVars, patcherVars, Phases
  <2>2. ASSUME NEW p \in Programs, VisitProgram(p) PROVE GameHooksLater'
    BY <2>2 DEF VisitProgram, gameVars, cacheVars, hookVars, patcherVars
  <2>3. CASE Publish
    BY <2>3 DEF Publish, Go, localVars, gameVars, cacheVars, patcherVars
  <2> QED
    BY <1>7, <1>2, <2>1, <2>2, <2>3 DEF StartsUp, Threads
<1>8. CASE StopRunning
  BY <1>8 DEF StopRunning, localVars, gameVars, cacheVars, hookVars, patcherVars
<1>9. CASE Unloads
  <2>1. CASE DisableHooks
    BY <2>1
    DEF DisableHooks, Go, TakesDown, localVars, gameVars, cacheVars, hookVars,
        patcherVars
  <2>2. CASE DeleteDetours
    BY <2>2
    DEF DeleteDetours, Go, TakesDown, localVars, gameVars, cacheVars, hookVars,
        patcherVars
  <2>3. CASE RemoveAllScripts
    BY <2>3
    DEF RemoveAllScripts, Go, TakesDown, localVars, gameVars, cacheVars, hookVars,
        patcherVars
  <2>4. CASE ResetScriptPatcher
    BY <2>4
    DEF ResetScriptPatcher, Go, TakesDown, localVars, gameVars, cacheVars, hookVars
  <2>5. ASSUME NEW p \in Programs, RestoreProgram(p) PROVE GameHooksLater'
    BY <2>5 DEF RestoreProgram, Restored, TakesDown, localVars, cacheVars, patcherVars
  <2>6. CASE ResetNativeHooks
    BY <2>6
    DEF ResetNativeHooks, Go, Restored, TakesDown, localVars, cacheVars, patcherVars
  <2>7. CASE UnloadLibrary
    BY <2>7
    DEF UnloadLibrary, Go, TakesDown, localVars, gameVars, cacheVars, hookVars,
        patcherVars
  <2> QED
    BY <1>9, <2>1, <2>2, <2>3, <2>4, <2>5, <2>6, <2>7 DEF Unloads
<1>10. CASE UNCHANGED vars
  BY <1>10 DEF vars, localVars, gameVars, cacheVars, hookVars, patcherVars
<1> QED
  BY <1>1, <1>2, <1>3, <1>4, <1>5, <1>6, <1>7, <1>8, <1>9, <1>10
  DEF Next

(* Every step keeps replaced tables recorded. *)
LEMMA RecordedStep ==
    ASSUME TypeOK, Working, GameHooksLater, Recorded, [Next]_vars
    PROVE  Recorded'
<1> USE ProgramsAssumption
DEF TypeOK, Working, GameHooksLater, Recorded, BeingEntered, Starting, Threads, GamePc,
    MainPc, Hooking
<1>1. ASSUME NEW t \in Threads, CacheHandlers(t) PROVE Recorded'
  <2>1. CASE BeginCache(t)
    BY <2>1 DEF BeginCache, gameVars, cacheVars, hookVars, patcherVars
  <2>2. CASE FillCache(t)
    BY <2>2 DEF FillCache, gameVars, hookVars, patcherVars
  <2>3. CASE ResolveCache(t)
    BY <2>3 DEF ResolveCache, gameVars, hookVars, patcherVars
  <2>4. CASE MarkCached(t)
    BY <2>4 DEF MarkCached, gameVars, hookVars, patcherVars
  <2> QED
    BY <1>1, <2>1, <2>2, <2>3, <2>4 DEF CacheHandlers
<1>2. ASSUME NEW t \in Threads, HookProgram(t) PROVE Recorded'
  <2>1. CASE HookTables(t)
    BY <2>1 DEF HookTables, Go, cacheVars, hookVars, patcherVars
  <2>2. ASSUME NEW n \in Natives, LookUp(t, n) PROVE Recorded'
    BY <2>2 DEF LookUp, gameVars, cacheVars, hookVars, patcherVars
  <2>3. CASE LookedUp(t)
    BY <2>3 DEF LookedUp, Go, localVars, gameVars, cacheVars, hookVars, patcherVars
  <2>4. CASE FinishHook(t)
    BY <2>4 DEF FinishHook, Go, cacheVars, patcherVars
  <2>5. CASE DropHook(t)
    BY <2>5 DEF DropHook, Go, cacheVars, hookVars, patcherVars
  <2> QED
    BY <1>2, <2>1, <2>2, <2>3, <2>4, <2>5 DEF HookProgram
<1>3. CASE LoadsProgram
  <2>1. ASSUME NEW p \in Programs, NEW s \in Scripts, LoadProgram(p, s) PROVE Recorded'
    BY <2>1 DEF LoadProgram, Intrudes, cacheVars, hookVars, patcherVars
  <2>2. CASE CallInitNativeTables
    BY <2>2
    DEF CallInitNativeTables, Go, localVars, gameVars, cacheVars, hookVars, patcherVars
  <2>3. CASE OnScriptLoad
    BY <2>3 DEF OnScriptLoad, Go, DataAfterLoad, localVars, gameVars, cacheVars, hookVars
  <2> QED
    BY <1>3, <1>2, <2>1, <2>2, <2>3 DEF LoadsProgram, Threads
<1>4. CASE ExecutesProgram
  <2>1. ASSUME NEW p \in Programs, EnterScriptVM(p) PROVE Recorded'
    BY <2>1 DEF EnterScriptVM, Go, Intrudes, gameVars, cacheVars, hookVars, patcherVars
  <2>2. CASE SwapByteCode
    BY <2>2 DEF SwapByteCode, Go, localVars, cacheVars, hookVars, patcherVars
  <2>3. CASE CallScriptVM
    BY <2>3 DEF CallScriptVM, Go, localVars, gameVars, cacheVars, hookVars, patcherVars
  <2>4. CASE LeaveScriptVM
    BY <2>4 DEF LeaveScriptVM, Go, cacheVars, hookVars, patcherVars
  <2>5. ASSUME NEW p \in Programs, NEW n \in Natives, CallDetouredNative(p, n) PROVE Recorded'
    BY <2>5 DEF CallDetouredNative, Intrudes, gameVars, cacheVars, hookVars, patcherVars
  <2>6. CASE LeaveDetouredNative
    BY <2>6
    DEF LeaveDetouredNative, Go, localVars, gameVars, cacheVars, hookVars, patcherVars
  <2> QED
    BY <1>4, <2>1, <2>2, <2>3, <2>4, <2>5, <2>6 DEF ExecutesProgram
<1>5. CASE DestroysProgram
  <2>1. ASSUME NEW p \in Programs, DestroyProgram(p) PROVE Recorded'
    BY <2>1 DEF DestroyProgram, Intrudes, cacheVars, hookVars, patcherVars
  <2>2. CASE UnhookDestroyed
    BY <2>2 DEF UnhookDestroyed, Go, Restored, localVars, cacheVars, patcherVars
  <2>3. CASE FreeProgram
    BY <2>3 DEF FreeProgram, Go, cacheVars, hookVars, patcherVars
  <2>4. CASE CannotFindHook
    BY <2>4 DEF CannotFindHook, Go, gameVars, cacheVars, hookVars, patcherVars
  <2> QED
    BY <1>5, <2>1, <2>2, <2>3, <2>4 DEF DestroysProgram
<1>6. CASE RunsScriptThreads
  <2>1. CASE EnterRunScriptThreads
    BY <2>1
    DEF EnterRunScriptThreads, Go, Intrudes, localVars, gameVars, cacheVars, hookVars,
        patcherVars
  <2>2. CASE HandlersCached
    BY <2>2 DEF HandlersCached, Go, localVars, gameVars, cacheVars, hookVars, patcherVars
  <2>3. CASE ScriptsTick
    BY <2>3 DEF ScriptsTick, Go, ScriptsRemoved, localVars, gameVars, cacheVars, hookVars
  <2>4. CASE CallRunScriptThreads
    BY <2>4
    DEF CallRunScriptThreads, Go, localVars, gameVars, cacheVars, hookVars, patcherVars
  <2> QED
    BY <1>6, <2>1, <2>2, <2>3, <2>4 DEF RunsScriptThreads
<1>7. CASE StartsUp
  <2>1. CASE EnableHooks
    BY <2>1 DEF EnableHooks, Go, localVars, gameVars, cacheVars, hookVars, patcherVars
  <2>2. ASSUME NEW p \in Programs, VisitProgram(p) PROVE Recorded'
    BY <2>2 DEF VisitProgram, gameVars, cacheVars, hookVars, patcherVars
  <2>3. CASE Publish
    BY <2>3 DEF Publish, Go, localVars, gameVars, cacheVars, patcherVars
  <2> QED
    BY <1>7, <1>2, <2>1, <2>2, <2>3 DEF StartsUp, Threads
<1>8. CASE StopRunning
  BY <1>8 DEF StopRunning, localVars, gameVars, cacheVars, hookVars, patcherVars
<1>9. CASE Unloads
  <2>1. CASE DisableHooks
    BY <2>1
    DEF DisableHooks, Go, TakesDown, localVars, gameVars, cacheVars, hookVars,
        patcherVars
  <2>2. CASE DeleteDetours
    BY <2>2
    DEF DeleteDetours, Go, TakesDown, localVars, gameVars, cacheVars, hookVars,
        patcherVars
  <2>3. CASE RemoveAllScripts
    BY <2>3
    DEF RemoveAllScripts, Go, TakesDown, localVars, gameVars, cacheVars, hookVars,
        patcherVars
  <2>4. CASE ResetScriptPatcher
    BY <2>4
    DEF ResetScriptPatcher, Go, TakesDown, localVars, gameVars, cacheVars, hookVars
  <2>5. ASSUME NEW p \in Programs, RestoreProgram(p) PROVE Recorded'
    <3>1. /\ entrypoints' = vtable'
          /\ m_native_hooks' = m_native_hooks \ {p}
          /\ \A q \in Programs : vtable'[q] = "hooked" => vtable[q] = "hooked" /\ q \notin {p}
      BY <2>5 DEF RestoreProgram, Restored, TypeOK, Recorded
    <3>2. \A t \in Threads :
            /\ program'[t] = program[t]
            /\ pc[t] \in {"lookup", "finish"} => pc'[t] = pc[t]
            /\ t = Game => pc'[t] = pc[t]
      BY <2>5, ProgramsAssumption DEF RestoreProgram, localVars, TypeOK, Threads
    <3>3. \A q \in Programs : BeingEntered(q) => BeingEntered(q)'
      BY <3>2 DEF BeingEntered
    <3>4. pc'[Game] = "free" => vtable'[program'[Game]] # "hooked"
      BY <3>1, <3>2 DEF Recorded, Working, Loaded, Threads
    <3> QED
      BY <3>1, <3>3, <3>4 DEF Recorded
  <2>6. CASE ResetNativeHooks
    <3>1. /\ entrypoints' = vtable'
          /\ m_native_hooks' = m_native_hooks \ m_native_hooks
          /\ \A q \in Programs : vtable'[q] = "hooked" => vtable[q] = "hooked" /\ q \notin m_native_hooks
      BY <2>6 DEF ResetNativeHooks, Restored, TypeOK, Recorded
    <3>2. \A t \in Threads :
            /\ program'[t] = program[t]
            /\ pc[t] \in {"lookup", "finish"} => pc'[t] = pc[t]
            /\ t = Game => pc'[t] = pc[t]
      BY <2>6, ProgramsAssumption DEF ResetNativeHooks, Go, localVars, TypeOK, Threads
    <3>3. \A q \in Programs : BeingEntered(q) => BeingEntered(q)'
      BY <3>2 DEF BeingEntered
    <3>4. pc'[Game] = "free" => vtable'[program'[Game]] # "hooked"
      BY <3>1, <3>2 DEF Recorded, Working, Loaded, Threads
    <3> QED
      BY <3>1, <3>3, <3>4 DEF Recorded
  <2>7. CASE UnloadLibrary
    BY <2>7
    DEF UnloadLibrary, Go, TakesDown, localVars, gameVars, cacheVars, hookVars,
        patcherVars
  <2> QED
    BY <1>9, <2>1, <2>2, <2>3, <2>4, <2>5, <2>6, <2>7 DEF Unloads
<1>10. CASE UNCHANGED vars
  BY <1>10 DEF vars, localVars, gameVars, cacheVars, hookVars, patcherVars
<1> QED
  BY <1>1, <1>2, <1>3, <1>4, <1>5, <1>6, <1>7, <1>8, <1>9, <1>10
  DEF Next

(* Every step keeps the map and the tables in agreement. *)
LEMMA AgreementStep ==
    ASSUME TypeOK, Working, Phases, GameHooksLater, Recorded, Agreement, [Next]_vars
    PROVE  Agreement'
<1> USE ProgramsAssumption
DEF TypeOK, Working, Phases, GameHooksLater, Recorded, Agreement, Undisturbed, Loaded,
    BeingEntered, Starting, Threads, GamePc, MainPc, Hooking
<1>1. ASSUME NEW t \in Threads, CacheHandlers(t) PROVE Agreement'
  <2>1. CASE BeginCache(t)
    BY <2>1 DEF BeginCache, gameVars, cacheVars, hookVars, patcherVars
  <2>2. CASE FillCache(t)
    BY <2>2 DEF FillCache, gameVars, hookVars, patcherVars
  <2>3. CASE ResolveCache(t)
    BY <2>3 DEF ResolveCache, gameVars, hookVars, patcherVars
  <2>4. CASE MarkCached(t)
    BY <2>4 DEF MarkCached, gameVars, hookVars, patcherVars
  <2> QED
    BY <1>1, <2>1, <2>2, <2>3, <2>4 DEF CacheHandlers
<1>2. ASSUME NEW t \in Threads, HookProgram(t) PROVE Agreement'
  <2>1. CASE HookTables(t)
    BY <2>1
    DEF HookTables, Go, cacheVars, hookVars, patcherVars, Dangling, GameDangles,
        MainDangles
  <2>2. ASSUME NEW n \in Natives, LookUp(t, n) PROVE Agreement'
    BY <2>2 DEF LookUp, gameVars, cacheVars, hookVars, patcherVars
  <2>3. CASE LookedUp(t)
    BY <2>3 DEF LookedUp, Go, localVars, gameVars, cacheVars, hookVars, patcherVars
  <2>4. CASE FinishHook(t)
    BY <2>4 DEF FinishHook, Go, cacheVars, patcherVars
  <2>5. CASE DropHook(t)
    BY <2>5 DEF DropHook, Go, cacheVars, hookVars, patcherVars
  <2> QED
    BY <1>2, <2>1, <2>2, <2>3, <2>4, <2>5 DEF HookProgram
<1>3. CASE LoadsProgram
  <2>1. ASSUME NEW p \in Programs, NEW s \in Scripts, LoadProgram(p, s) PROVE Agreement'
    BY <2>1 DEF LoadProgram, Intrudes, cacheVars, hookVars, patcherVars
  <2>2. CASE CallInitNativeTables
    BY <2>2
    DEF CallInitNativeTables, Go, localVars, gameVars, cacheVars, hookVars, patcherVars
  <2>3. CASE OnScriptLoad
    BY <2>3 DEF OnScriptLoad, Go, DataAfterLoad, localVars, gameVars, cacheVars, hookVars
  <2> QED
    BY <1>3, <1>2, <2>1, <2>2, <2>3 DEF LoadsProgram, Threads
<1>4. CASE ExecutesProgram
  <2>1. ASSUME NEW p \in Programs, EnterScriptVM(p) PROVE Agreement'
    BY <2>1 DEF EnterScriptVM, Go, Intrudes, gameVars, cacheVars, hookVars, patcherVars
  <2>2. CASE SwapByteCode
    BY <2>2 DEF SwapByteCode, Go, localVars, cacheVars, hookVars, patcherVars
  <2>3. CASE CallScriptVM
    BY <2>3 DEF CallScriptVM, Go, localVars, gameVars, cacheVars, hookVars, patcherVars
  <2>4. CASE LeaveScriptVM
    BY <2>4 DEF LeaveScriptVM, Go, cacheVars, hookVars, patcherVars
  <2>5. ASSUME NEW p \in Programs, NEW n \in Natives, CallDetouredNative(p, n) PROVE Agreement'
    BY <2>5 DEF CallDetouredNative, Intrudes, gameVars, cacheVars, hookVars, patcherVars
  <2>6. CASE LeaveDetouredNative
    BY <2>6
    DEF LeaveDetouredNative, Go, localVars, gameVars, cacheVars, hookVars, patcherVars
  <2> QED
    BY <1>4, <2>1, <2>2, <2>3, <2>4, <2>5, <2>6 DEF ExecutesProgram
<1>5. CASE DestroysProgram
  <2>1. ASSUME NEW p \in Programs, DestroyProgram(p) PROVE Agreement'
    BY <2>1 DEF DestroyProgram, Intrudes, cacheVars, hookVars, patcherVars
  <2>2. CASE UnhookDestroyed
    BY <2>2 DEF UnhookDestroyed, Go, Restored, localVars, cacheVars, patcherVars
  <2>3. CASE FreeProgram
    BY <2>3 DEF FreeProgram, Go, cacheVars, hookVars, patcherVars
  <2>4. CASE CannotFindHook
    BY <2>4 DEF CannotFindHook, Go, gameVars, cacheVars, hookVars, patcherVars
  <2> QED
    BY <1>5, <2>1, <2>2, <2>3, <2>4 DEF DestroysProgram
<1>6. CASE RunsScriptThreads
  <2>1. CASE EnterRunScriptThreads
    BY <2>1
    DEF EnterRunScriptThreads, Go, Intrudes, localVars, gameVars, cacheVars, hookVars,
        patcherVars
  <2>2. CASE HandlersCached
    BY <2>2 DEF HandlersCached, Go, localVars, gameVars, cacheVars, hookVars, patcherVars
  <2>3. CASE ScriptsTick
    BY <2>3 DEF ScriptsTick, Go, ScriptsRemoved, localVars, gameVars, cacheVars, hookVars
  <2>4. CASE CallRunScriptThreads
    BY <2>4
    DEF CallRunScriptThreads, Go, localVars, gameVars, cacheVars, hookVars, patcherVars
  <2> QED
    BY <1>6, <2>1, <2>2, <2>3, <2>4 DEF RunsScriptThreads
<1>7. CASE StartsUp
  <2>1. CASE EnableHooks
    BY <2>1 DEF EnableHooks, Go, localVars, gameVars, cacheVars, hookVars, patcherVars
  <2>2. ASSUME NEW p \in Programs, VisitProgram(p) PROVE Agreement'
    BY <2>2 DEF VisitProgram, gameVars, cacheVars, hookVars, patcherVars
  <2>3. CASE Publish
    BY <2>3 DEF Publish, Go, localVars, gameVars, cacheVars, patcherVars
  <2> QED
    BY <1>7, <1>2, <2>1, <2>2, <2>3 DEF StartsUp, Threads
<1>8. CASE StopRunning
  BY <1>8 DEF StopRunning, localVars, gameVars, cacheVars, hookVars, patcherVars
<1>9. CASE Unloads
  <2>1. CASE DisableHooks
    BY <2>1
    DEF DisableHooks, Go, TakesDown, localVars, gameVars, cacheVars, hookVars,
        patcherVars
  <2>2. CASE DeleteDetours
    BY <2>2
    DEF DeleteDetours, Go, TakesDown, localVars, gameVars, cacheVars, hookVars,
        patcherVars
  <2>3. CASE RemoveAllScripts
    BY <2>3
    DEF RemoveAllScripts, Go, TakesDown, localVars, gameVars, cacheVars, hookVars,
        patcherVars
  <2>4. CASE ResetScriptPatcher
    BY <2>4
    DEF ResetScriptPatcher, Go, TakesDown, localVars, gameVars, cacheVars, hookVars
  <2>5. ASSUME NEW p \in Programs, RestoreProgram(p) PROVE Agreement'
    BY <2>5 DEF RestoreProgram, Restored, TakesDown, localVars, cacheVars, patcherVars
  <2>6. CASE ResetNativeHooks
    BY <2>6
    DEF ResetNativeHooks, Go, Restored, TakesDown, localVars, cacheVars, patcherVars
  <2>7. CASE UnloadLibrary
    BY <2>7
    DEF UnloadLibrary, Go, TakesDown, localVars, gameVars, cacheVars, hookVars,
        patcherVars
  <2> QED
    BY <1>9, <2>1, <2>2, <2>3, <2>4, <2>5, <2>6, <2>7 DEF Unloads
<1>10. CASE UNCHANGED vars
  BY <1>10 DEF vars, localVars, gameVars, cacheVars, hookVars, patcherVars
<1> QED
  BY <1>1, <1>2, <1>3, <1>4, <1>5, <1>6, <1>7, <1>8, <1>9, <1>10
  DEF Next

(* Every step keeps the copies of the byte code. *)
LEMMA CopiesStep ==
    ASSUME TypeOK, Working, Phases, Copies, [Next]_vars
    PROVE  Copies'
<1> USE ProgramsAssumption
DEF TypeOK, Working, Phases, Copies, InVM, Loaded, Starting, Scripts, Threads, GamePc,
    MainPc, Hooking
<1>1. ASSUME NEW t \in Threads, CacheHandlers(t) PROVE Copies'
  <2>1. CASE BeginCache(t)
    BY <2>1 DEF BeginCache, gameVars, cacheVars, hookVars, patcherVars
  <2>2. CASE FillCache(t)
    BY <2>2 DEF FillCache, gameVars, hookVars, patcherVars
  <2>3. CASE ResolveCache(t)
    BY <2>3 DEF ResolveCache, gameVars, hookVars, patcherVars
  <2>4. CASE MarkCached(t)
    BY <2>4 DEF MarkCached, gameVars, hookVars, patcherVars
  <2> QED
    BY <1>1, <2>1, <2>2, <2>3, <2>4 DEF CacheHandlers
<1>2. ASSUME NEW t \in Threads, HookProgram(t) PROVE Copies'
  <2>1. CASE HookTables(t)
    BY <2>1 DEF HookTables, Go, cacheVars, hookVars, patcherVars
  <2>2. ASSUME NEW n \in Natives, LookUp(t, n) PROVE Copies'
    BY <2>2 DEF LookUp, gameVars, cacheVars, hookVars, patcherVars
  <2>3. CASE LookedUp(t)
    BY <2>3 DEF LookedUp, Go, localVars, gameVars, cacheVars, hookVars, patcherVars
  <2>4. CASE FinishHook(t)
    BY <2>4 DEF FinishHook, Go, cacheVars, patcherVars
  <2>5. CASE DropHook(t)
    BY <2>5 DEF DropHook, Go, cacheVars, hookVars, patcherVars
  <2> QED
    BY <1>2, <2>1, <2>2, <2>3, <2>4, <2>5 DEF HookProgram
<1>3. CASE LoadsProgram
  <2>1. ASSUME NEW p \in Programs, NEW s \in Scripts, LoadProgram(p, s) PROVE Copies'
    BY <2>1 DEF LoadProgram, Intrudes, cacheVars, hookVars, patcherVars
  <2>2. CASE CallInitNativeTables
    BY <2>2
    DEF CallInitNativeTables, Go, localVars, gameVars, cacheVars, hookVars, patcherVars
  <2>3. CASE OnScriptLoad
    BY <2>3 DEF OnScriptLoad, Go, DataAfterLoad, localVars, gameVars, cacheVars, hookVars
  <2> QED
    BY <1>3, <1>2, <2>1, <2>2, <2>3 DEF LoadsProgram, Threads
<1>4. CASE ExecutesProgram
  <2>1. ASSUME NEW p \in Programs, EnterScriptVM(p) PROVE Copies'
    BY <2>1 DEF EnterScriptVM, Go, Intrudes, gameVars, cacheVars, hookVars, patcherVars
  <2>2. CASE SwapByteCode
    BY <2>2 DEF SwapByteCode, Go, localVars, cacheVars, hookVars, patcherVars
  <2>3. CASE CallScriptVM
    BY <2>3 DEF CallScriptVM, Go, localVars, gameVars, cacheVars, hookVars, patcherVars
  <2>4. CASE LeaveScriptVM
    BY <2>4 DEF LeaveScriptVM, Go, cacheVars, hookVars, patcherVars
  <2>5. ASSUME NEW p \in Programs, NEW n \in Natives, CallDetouredNative(p, n) PROVE Copies'
    BY <2>5 DEF CallDetouredNative, Intrudes, gameVars, cacheVars, hookVars, patcherVars
  <2>6. CASE LeaveDetouredNative
    BY <2>6
    DEF LeaveDetouredNative, Go, localVars, gameVars, cacheVars, hookVars, patcherVars
  <2> QED
    BY <1>4, <2>1, <2>2, <2>3, <2>4, <2>5, <2>6 DEF ExecutesProgram
<1>5. CASE DestroysProgram
  <2>1. ASSUME NEW p \in Programs, DestroyProgram(p) PROVE Copies'
    BY <2>1 DEF DestroyProgram, Intrudes, cacheVars, hookVars, patcherVars
  <2>2. CASE UnhookDestroyed
    BY <2>2 DEF UnhookDestroyed, Go, Restored, localVars, cacheVars, patcherVars
  <2>3. CASE FreeProgram
    BY <2>3 DEF FreeProgram, Go, cacheVars, hookVars, patcherVars
  <2>4. CASE CannotFindHook
    BY <2>4 DEF CannotFindHook, Go, gameVars, cacheVars, hookVars, patcherVars
  <2> QED
    BY <1>5, <2>1, <2>2, <2>3, <2>4 DEF DestroysProgram
<1>6. CASE RunsScriptThreads
  <2>1. CASE EnterRunScriptThreads
    BY <2>1
    DEF EnterRunScriptThreads, Go, Intrudes, localVars, gameVars, cacheVars, hookVars,
        patcherVars
  <2>2. CASE HandlersCached
    BY <2>2 DEF HandlersCached, Go, localVars, gameVars, cacheVars, hookVars, patcherVars
  <2>3. CASE ScriptsTick
    <3>1. "shop_controller" \notin m_script_data' /\ m_script_patches' =>
            \A p \in Loaded : detours = "enabled" => script[p] # "shop_controller"
      <4>1. CASE UNCHANGED <<m_script_patches, m_script_data>>
        BY <2>3, <4>1 DEF ScriptsTick, Go, Copies
      <4>2. CASE m_script_data' = {"shop_controller"} \cap {script[p] : p \in Loaded}
        BY <4>2
      <4> QED
        BY <2>3, <4>1, <4>2 DEF ScriptsTick
    <3>2. m_script_data' \subseteq {"shop_controller"}
      BY <2>3 DEF ScriptsTick, patcherVars, Copies
    <3> QED
      BY <2>3, <3>1, <3>2, ProgramsAssumption
      DEF ScriptsTick, Go, localVars, gameVars, TypeOK, Copies, InVM, Loaded, Threads
  <2>4. CASE CallRunScriptThreads
    BY <2>4
    DEF CallRunScriptThreads, Go, localVars, gameVars, cacheVars, hookVars, patcherVars
  <2> QED
    BY <1>6, <2>1, <2>2, <2>3, <2>4 DEF RunsScriptThreads
<1>7. CASE StartsUp
  <2>1. CASE EnableHooks
    BY <2>1 DEF EnableHooks, Go, localVars, gameVars, cacheVars, hookVars, patcherVars
  <2>2. ASSUME NEW p \in Programs, VisitProgram(p) PROVE Copies'
    BY <2>2 DEF VisitProgram, gameVars, cacheVars, hookVars, patcherVars
  <2>3. CASE Publish
    BY <2>3 DEF Publish, Go, localVars, gameVars, cacheVars, patcherVars
  <2> QED
    BY <1>7, <1>2, <2>1, <2>2, <2>3 DEF StartsUp, Threads
<1>8. CASE StopRunning
  BY <1>8 DEF StopRunning, localVars, gameVars, cacheVars, hookVars, patcherVars
<1>9. CASE Unloads
  <2>1. CASE DisableHooks
    BY <2>1
    DEF DisableHooks, Go, TakesDown, localVars, gameVars, cacheVars, hookVars,
        patcherVars
  <2>2. CASE DeleteDetours
    BY <2>2
    DEF DeleteDetours, Go, TakesDown, localVars, gameVars, cacheVars, hookVars,
        patcherVars
  <2>3. CASE RemoveAllScripts
    BY <2>3
    DEF RemoveAllScripts, Go, TakesDown, localVars, gameVars, cacheVars, hookVars,
        patcherVars
  <2>4. CASE ResetScriptPatcher
    BY <2>4
    DEF ResetScriptPatcher, Go, TakesDown, localVars, gameVars, cacheVars, hookVars
  <2>5. ASSUME NEW p \in Programs, RestoreProgram(p) PROVE Copies'
    BY <2>5 DEF RestoreProgram, Restored, TakesDown, localVars, cacheVars, patcherVars
  <2>6. CASE ResetNativeHooks
    BY <2>6
    DEF ResetNativeHooks, Go, Restored, TakesDown, localVars, cacheVars, patcherVars
  <2>7. CASE UnloadLibrary
    BY <2>7
    DEF UnloadLibrary, Go, TakesDown, localVars, gameVars, cacheVars, hookVars,
        patcherVars
  <2> QED
    BY <1>9, <2>1, <2>2, <2>3, <2>4, <2>5, <2>6, <2>7 DEF Unloads
<1>10. CASE UNCHANGED vars
  BY <1>10 DEF vars, localVars, gameVars, cacheVars, hookVars, patcherVars
<1> QED
  BY <1>1, <1>2, <1>3, <1>4, <1>5, <1>6, <1>7, <1>8, <1>9, <1>10
  DEF Next

(* Every step keeps the threads apart, while it is quiet. *)
LEMMA KeptApartStep ==
    ASSUME TypeOK, Working, Phases, GameHooksLater, Recorded, Agreement, Copies, KeptApart, [Next]_vars
    PROVE  KeptApart'
<1> USE ProgramsAssumption
DEF TypeOK, Working, Phases, GameHooksLater, KeptApart, InVM, Loaded, Starting, Threads,
    GamePc, MainPc, Hooking
<1>1. ASSUME NEW t \in Threads, CacheHandlers(t) PROVE KeptApart'
  <2>1. CASE BeginCache(t)
    BY <2>1 DEF BeginCache, gameVars, cacheVars, hookVars, patcherVars
  <2>2. CASE FillCache(t)
    BY <2>2 DEF FillCache, gameVars, hookVars, patcherVars
  <2>3. CASE ResolveCache(t)
    BY <2>3 DEF ResolveCache, gameVars, hookVars, patcherVars
  <2>4. CASE MarkCached(t)
    BY <2>4 DEF MarkCached, gameVars, hookVars, patcherVars
  <2> QED
    BY <1>1, <2>1, <2>2, <2>3, <2>4 DEF CacheHandlers
<1>2. ASSUME NEW t \in Threads, HookProgram(t) PROVE KeptApart'
  <2>1. CASE HookTables(t)
    BY <2>1 DEF HookTables, Go, cacheVars, hookVars, patcherVars
  <2>2. ASSUME NEW n \in Natives, LookUp(t, n) PROVE KeptApart'
    BY <2>2 DEF LookUp, gameVars, cacheVars, hookVars, patcherVars
  <2>3. CASE LookedUp(t)
    BY <2>3 DEF LookedUp, Go, localVars, gameVars, cacheVars, hookVars, patcherVars
  <2>4. CASE FinishHook(t)
    BY <2>4 DEF FinishHook, Go, cacheVars, patcherVars
  <2>5. CASE DropHook(t)
    BY <2>5 DEF DropHook, Go, cacheVars, hookVars, patcherVars
  <2> QED
    BY <1>2, <2>1, <2>2, <2>3, <2>4, <2>5 DEF HookProgram
<1>3. CASE LoadsProgram
  <2>1. ASSUME NEW p \in Programs, NEW s \in Scripts, LoadProgram(p, s) PROVE KeptApart'
    BY <2>1 DEF LoadProgram, Intrudes, cacheVars, hookVars, patcherVars
  <2>2. CASE CallInitNativeTables
    BY <2>2
    DEF CallInitNativeTables, Go, localVars, gameVars, cacheVars, hookVars, patcherVars
  <2>3. CASE OnScriptLoad
    BY <2>3 DEF OnScriptLoad, Go, DataAfterLoad, localVars, gameVars, cacheVars, hookVars
  <2> QED
    BY <1>3, <1>2, <2>1, <2>2, <2>3 DEF LoadsProgram, Threads
<1>4. CASE ExecutesProgram
  <2>1. ASSUME NEW p \in Programs, EnterScriptVM(p) PROVE KeptApart'
    BY <2>1 DEF EnterScriptVM, Go, Intrudes, gameVars, cacheVars, hookVars, patcherVars
  <2>2. CASE SwapByteCode
    BY <2>2 DEF SwapByteCode, Go, localVars, cacheVars, hookVars, patcherVars, Copies
  <2>3. CASE CallScriptVM
    BY <2>3 DEF CallScriptVM, Go, localVars, gameVars, cacheVars, hookVars, patcherVars
  <2>4. CASE LeaveScriptVM
    BY <2>4 DEF LeaveScriptVM, Go, cacheVars, hookVars, patcherVars
  <2>5. ASSUME NEW p \in Programs, NEW n \in Natives, CallDetouredNative(p, n) PROVE KeptApart'
    BY <2>5
    DEF CallDetouredNative, Intrudes, gameVars, cacheVars, hookVars, patcherVars,
        Recorded, BeingEntered
  <2>6. CASE LeaveDetouredNative
    BY <2>6
    DEF LeaveDetouredNative, Go, localVars, gameVars, cacheVars, hookVars, patcherVars
  <2> QED
    BY <1>4, <2>1, <2>2, <2>3, <2>4, <2>5, <2>6 DEF ExecutesProgram
<1>5. CASE DestroysProgram
  <2>1. ASSUME NEW p \in Programs, DestroyProgram(p) PROVE KeptApart'
    BY <2>1
    DEF DestroyProgram, Intrudes, cacheVars, hookVars, patcherVars, Recorded,
        BeingEntered
  <2>2. CASE UnhookDestroyed
    BY <2>2 DEF UnhookDestroyed, Go, Restored, localVars, cacheVars, patcherVars
  <2>3. CASE FreeProgram
    BY <2>3 DEF FreeProgram, Go, cacheVars, hookVars, patcherVars
  <2>4. CASE CannotFindHook
    BY <2>4 DEF CannotFindHook, Go, gameVars, cacheVars, hookVars, patcherVars
  <2> QED
    BY <1>5, <2>1, <2>2, <2>3, <2>4 DEF DestroysProgram
<1>6. CASE RunsScriptThreads
  <2>1. CASE EnterRunScriptThreads
    BY <2>1
    DEF EnterRunScriptThreads, Go, Intrudes, localVars, gameVars, cacheVars, hookVars,
        patcherVars
  <2>2. CASE HandlersCached
    BY <2>2 DEF HandlersCached, Go, localVars, gameVars, cacheVars, hookVars, patcherVars
  <2>3. CASE ScriptsTick
    BY <2>3 DEF ScriptsTick, Go, ScriptsRemoved, localVars, gameVars, cacheVars, hookVars
  <2>4. CASE CallRunScriptThreads
    BY <2>4
    DEF CallRunScriptThreads, Go, localVars, gameVars, cacheVars, hookVars, patcherVars
  <2> QED
    BY <1>6, <2>1, <2>2, <2>3, <2>4 DEF RunsScriptThreads
<1>7. CASE StartsUp
  <2>1. CASE EnableHooks
    BY <2>1 DEF EnableHooks, Go, localVars, gameVars, cacheVars, hookVars, patcherVars
  <2>2. ASSUME NEW p \in Programs, VisitProgram(p) PROVE KeptApart'
    BY <2>2 DEF VisitProgram, gameVars, cacheVars, hookVars, patcherVars
  <2>3. CASE Publish
    BY <2>3 DEF Publish, Go, localVars, gameVars, cacheVars, patcherVars
  <2> QED
    BY <1>7, <1>2, <2>1, <2>2, <2>3 DEF StartsUp, Threads
<1>8. CASE StopRunning
  BY <1>8 DEF StopRunning, localVars, gameVars, cacheVars, hookVars, patcherVars
<1>9. CASE Unloads
  <2>1. CASE DisableHooks
    BY <2>1
    DEF DisableHooks, Go, TakesDown, localVars, gameVars, cacheVars, hookVars,
        patcherVars
  <2>2. CASE DeleteDetours
    BY <2>2
    DEF DeleteDetours, Go, TakesDown, localVars, gameVars, cacheVars, hookVars,
        patcherVars
  <2>3. CASE RemoveAllScripts
    BY <2>3
    DEF RemoveAllScripts, Go, TakesDown, localVars, gameVars, cacheVars, hookVars,
        patcherVars
  <2>4. CASE ResetScriptPatcher
    BY <2>4
    DEF ResetScriptPatcher, Go, TakesDown, localVars, gameVars, cacheVars, hookVars
  <2>5. ASSUME NEW p \in Programs, RestoreProgram(p) PROVE KeptApart'
    BY <2>5 DEF RestoreProgram, Restored, TakesDown, localVars, cacheVars, patcherVars
  <2>6. CASE ResetNativeHooks
    BY <2>6
    DEF ResetNativeHooks, Go, Restored, TakesDown, localVars, cacheVars, patcherVars
  <2>7. CASE UnloadLibrary
    BY <2>7
    DEF UnloadLibrary, Go, TakesDown, localVars, gameVars, cacheVars, hookVars,
        patcherVars
  <2> QED
    BY <1>9, <2>1, <2>2, <2>3, <2>4, <2>5, <2>6, <2>7 DEF Unloads
<1>10. CASE UNCHANGED vars
  BY <1>10 DEF vars, localVars, gameVars, cacheVars, hookVars, patcherVars
<1> QED
  BY <1>1, <1>2, <1>3, <1>4, <1>5, <1>6, <1>7, <1>8, <1>9, <1>10
  DEF Next

(* Every step keeps the cache filled by one thread, while it is quiet. *)
LEMMA CacheFilledOnceStep ==
    ASSUME TypeOK, Working, Phases, KeptApart, CacheFilledOnce, [Next]_vars
    PROVE  CacheFilledOnce'
<1> USE ProgramsAssumption
DEF TypeOK, Working, Phases, KeptApart, CacheFilledOnce, Unresolved, Starting, Threads,
    GamePc, MainPc, Hooking
<1>1. ASSUME NEW t \in Threads, CacheHandlers(t) PROVE CacheFilledOnce'
  <2>1. CASE BeginCache(t)
    BY <2>1 DEF BeginCache, gameVars, cacheVars, hookVars, patcherVars
  <2>2. CASE FillCache(t)
    BY <2>2 DEF FillCache, gameVars, hookVars, patcherVars
  <2>3. CASE ResolveCache(t)
    BY <2>3 DEF ResolveCache, gameVars, hookVars, patcherVars
  <2>4. CASE MarkCached(t)
    BY <2>4 DEF MarkCached, gameVars, hookVars, patcherVars
  <2> QED
    BY <1>1, <2>1, <2>2, <2>3, <2>4 DEF CacheHandlers
<1>2. ASSUME NEW t \in Threads, HookProgram(t) PROVE CacheFilledOnce'
  <2>1. CASE HookTables(t)
    BY <2>1 DEF HookTables, Go, cacheVars, hookVars, patcherVars
  <2>2. ASSUME NEW n \in Natives, LookUp(t, n) PROVE CacheFilledOnce'
    BY <2>2 DEF LookUp, gameVars, cacheVars, hookVars, patcherVars
  <2>3. CASE LookedUp(t)
    BY <2>3 DEF LookedUp, Go, localVars, gameVars, cacheVars, hookVars, patcherVars
  <2>4. CASE FinishHook(t)
    BY <2>4 DEF FinishHook, Go, cacheVars, patcherVars
  <2>5. CASE DropHook(t)
    BY <2>5 DEF DropHook, Go, cacheVars, hookVars, patcherVars
  <2> QED
    BY <1>2, <2>1, <2>2, <2>3, <2>4, <2>5 DEF HookProgram
<1>3. CASE LoadsProgram
  <2>1. ASSUME NEW p \in Programs, NEW s \in Scripts, LoadProgram(p, s) PROVE CacheFilledOnce'
    BY <2>1 DEF LoadProgram, Intrudes, cacheVars, hookVars, patcherVars
  <2>2. CASE CallInitNativeTables
    BY <2>2
    DEF CallInitNativeTables, Go, localVars, gameVars, cacheVars, hookVars, patcherVars
  <2>3. CASE OnScriptLoad
    BY <2>3 DEF OnScriptLoad, Go, DataAfterLoad, localVars, gameVars, cacheVars, hookVars
  <2> QED
    BY <1>3, <1>2, <2>1, <2>2, <2>3 DEF LoadsProgram, Threads
<1>4. CASE ExecutesProgram
  <2>1. ASSUME NEW p \in Programs, EnterScriptVM(p) PROVE CacheFilledOnce'
    BY <2>1 DEF EnterScriptVM, Go, Intrudes, gameVars, cacheVars, hookVars, patcherVars
  <2>2. CASE SwapByteCode
    BY <2>2 DEF SwapByteCode, Go, localVars, cacheVars, hookVars, patcherVars
  <2>3. CASE CallScriptVM
    BY <2>3 DEF CallScriptVM, Go, localVars, gameVars, cacheVars, hookVars, patcherVars
  <2>4. CASE LeaveScriptVM
    BY <2>4 DEF LeaveScriptVM, Go, cacheVars, hookVars, patcherVars
  <2>5. ASSUME NEW p \in Programs, NEW n \in Natives, CallDetouredNative(p, n) PROVE CacheFilledOnce'
    BY <2>5 DEF CallDetouredNative, Intrudes, gameVars, cacheVars, hookVars, patcherVars
  <2>6. CASE LeaveDetouredNative
    BY <2>6
    DEF LeaveDetouredNative, Go, localVars, gameVars, cacheVars, hookVars, patcherVars
  <2> QED
    BY <1>4, <2>1, <2>2, <2>3, <2>4, <2>5, <2>6 DEF ExecutesProgram
<1>5. CASE DestroysProgram
  <2>1. ASSUME NEW p \in Programs, DestroyProgram(p) PROVE CacheFilledOnce'
    BY <2>1 DEF DestroyProgram, Intrudes, cacheVars, hookVars, patcherVars
  <2>2. CASE UnhookDestroyed
    BY <2>2 DEF UnhookDestroyed, Go, Restored, localVars, cacheVars, patcherVars
  <2>3. CASE FreeProgram
    BY <2>3 DEF FreeProgram, Go, cacheVars, hookVars, patcherVars
  <2>4. CASE CannotFindHook
    BY <2>4 DEF CannotFindHook, Go, gameVars, cacheVars, hookVars, patcherVars
  <2> QED
    BY <1>5, <2>1, <2>2, <2>3, <2>4 DEF DestroysProgram
<1>6. CASE RunsScriptThreads
  <2>1. CASE EnterRunScriptThreads
    BY <2>1
    DEF EnterRunScriptThreads, Go, Intrudes, localVars, gameVars, cacheVars, hookVars,
        patcherVars
  <2>2. CASE HandlersCached
    BY <2>2 DEF HandlersCached, Go, localVars, gameVars, cacheVars, hookVars, patcherVars
  <2>3. CASE ScriptsTick
    BY <2>3 DEF ScriptsTick, Go, ScriptsRemoved, localVars, gameVars, cacheVars, hookVars
  <2>4. CASE CallRunScriptThreads
    BY <2>4
    DEF CallRunScriptThreads, Go, localVars, gameVars, cacheVars, hookVars, patcherVars
  <2> QED
    BY <1>6, <2>1, <2>2, <2>3, <2>4 DEF RunsScriptThreads
<1>7. CASE StartsUp
  <2>1. CASE EnableHooks
    BY <2>1 DEF EnableHooks, Go, localVars, gameVars, cacheVars, hookVars, patcherVars
  <2>2. ASSUME NEW p \in Programs, VisitProgram(p) PROVE CacheFilledOnce'
    BY <2>2 DEF VisitProgram, gameVars, cacheVars, hookVars, patcherVars
  <2>3. CASE Publish
    BY <2>3 DEF Publish, Go, localVars, gameVars, cacheVars, patcherVars
  <2> QED
    BY <1>7, <1>2, <2>1, <2>2, <2>3 DEF StartsUp, Threads
<1>8. CASE StopRunning
  BY <1>8 DEF StopRunning, localVars, gameVars, cacheVars, hookVars, patcherVars
<1>9. CASE Unloads
  <2>1. CASE DisableHooks
    BY <2>1
    DEF DisableHooks, Go, TakesDown, localVars, gameVars, cacheVars, hookVars,
        patcherVars
  <2>2. CASE DeleteDetours
    BY <2>2
    DEF DeleteDetours, Go, TakesDown, localVars, gameVars, cacheVars, hookVars,
        patcherVars
  <2>3. CASE RemoveAllScripts
    BY <2>3
    DEF RemoveAllScripts, Go, TakesDown, localVars, gameVars, cacheVars, hookVars,
        patcherVars
  <2>4. CASE ResetScriptPatcher
    BY <2>4
    DEF ResetScriptPatcher, Go, TakesDown, localVars, gameVars, cacheVars, hookVars
  <2>5. ASSUME NEW p \in Programs, RestoreProgram(p) PROVE CacheFilledOnce'
    BY <2>5 DEF RestoreProgram, Restored, TakesDown, localVars, cacheVars, patcherVars
  <2>6. CASE ResetNativeHooks
    BY <2>6
    DEF ResetNativeHooks, Go, Restored, TakesDown, localVars, cacheVars, patcherVars
  <2>7. CASE UnloadLibrary
    BY <2>7
    DEF UnloadLibrary, Go, TakesDown, localVars, gameVars, cacheVars, hookVars,
        patcherVars
  <2> QED
    BY <1>9, <2>1, <2>2, <2>3, <2>4, <2>5, <2>6, <2>7 DEF Unloads
<1>10. CASE UNCHANGED vars
  BY <1>10 DEF vars, localVars, gameVars, cacheVars, hookVars, patcherVars
<1> QED
  BY <1>1, <1>2, <1>3, <1>4, <1>5, <1>6, <1>7, <1>8, <1>9, <1>10
  DEF Next

(* Every step keeps the natives right, while it is quiet. *)
LEMMA DetoursStep ==
    ASSUME TypeOK, Working, Phases, GameHooksLater, Recorded, Agreement, KeptApart, CacheFilledOnce, Detours, [Next]_vars
    PROVE  Detours'
<1> USE ProgramsAssumption
DEF TypeOK, Working, GameHooksLater, Agreement, KeptApart, Detours, Undisturbed, Loaded,
    Starting, Threads, GamePc, MainPc, Hooking
<1>1. ASSUME NEW t \in Threads, CacheHandlers(t) PROVE Detours'
  <2>1. CASE BeginCache(t)
    BY <2>1 DEF BeginCache, gameVars, cacheVars, hookVars, patcherVars
  <2>2. CASE FillCache(t)
    BY <2>2 DEF FillCache, gameVars, hookVars, patcherVars
  <2>3. CASE ResolveCache(t)
    BY <2>3 DEF ResolveCache, gameVars, hookVars, patcherVars
  <2>4. CASE MarkCached(t)
    BY <2>4 DEF MarkCached, gameVars, hookVars, patcherVars
  <2> QED
    BY <1>1, <2>1, <2>2, <2>3, <2>4 DEF CacheHandlers
<1>2. ASSUME NEW t \in Threads, HookProgram(t) PROVE Detours'
  <2>1. CASE HookTables(t)
    BY <2>1 DEF HookTables, Go, cacheVars, hookVars, patcherVars
  <2>2. ASSUME NEW n \in Natives, LookUp(t, n) PROVE Detours'
    BY <2>2
    DEF LookUp, gameVars, cacheVars, hookVars, patcherVars, CacheFilledOnce, Unresolved
  <2>3. CASE LookedUp(t)
    BY <2>3 DEF LookedUp, Go, localVars, gameVars, cacheVars, hookVars, patcherVars
  <2>4. CASE FinishHook(t)
    BY <2>4 DEF FinishHook, Go, cacheVars, patcherVars, Registered
  <2>5. CASE DropHook(t)
    BY <2>5 DEF DropHook, Go, cacheVars, hookVars, patcherVars
  <2> QED
    BY <1>2, <2>1, <2>2, <2>3, <2>4, <2>5 DEF HookProgram
<1>3. CASE LoadsProgram
  <2>1. ASSUME NEW p \in Programs, NEW s \in Scripts, LoadProgram(p, s) PROVE Detours'
    BY <2>1 DEF LoadProgram, Intrudes, cacheVars, hookVars, patcherVars
  <2>2. CASE CallInitNativeTables
    BY <2>2
    DEF CallInitNativeTables, Go, localVars, gameVars, cacheVars, hookVars, patcherVars
  <2>3. CASE OnScriptLoad
    BY <2>3 DEF OnScriptLoad, Go, DataAfterLoad, localVars, gameVars, cacheVars, hookVars
  <2> QED
    BY <1>3, <1>2, <2>1, <2>2, <2>3 DEF LoadsProgram, Threads
<1>4. CASE ExecutesProgram
  <2>1. ASSUME NEW p \in Programs, EnterScriptVM(p) PROVE Detours'
    BY <2>1 DEF EnterScriptVM, Go, Intrudes, gameVars, cacheVars, hookVars, patcherVars
  <2>2. CASE SwapByteCode
    BY <2>2 DEF SwapByteCode, Go, localVars, cacheVars, hookVars, patcherVars
  <2>3. CASE CallScriptVM
    BY <2>3 DEF CallScriptVM, Go, localVars, gameVars, cacheVars, hookVars, patcherVars
  <2>4. CASE LeaveScriptVM
    BY <2>4 DEF LeaveScriptVM, Go, cacheVars, hookVars, patcherVars
  <2>5. ASSUME NEW p \in Programs, NEW n \in Natives, CallDetouredNative(p, n) PROVE Detours'
    BY <2>5 DEF CallDetouredNative, Intrudes, gameVars, cacheVars, hookVars, patcherVars
  <2>6. CASE LeaveDetouredNative
    BY <2>6
    DEF LeaveDetouredNative, Go, localVars, gameVars, cacheVars, hookVars, patcherVars
  <2> QED
    BY <1>4, <2>1, <2>2, <2>3, <2>4, <2>5, <2>6 DEF ExecutesProgram
<1>5. CASE DestroysProgram
  <2>1. ASSUME NEW p \in Programs, DestroyProgram(p) PROVE Detours'
    BY <2>1 DEF DestroyProgram, Intrudes, cacheVars, hookVars, patcherVars
  <2>2. CASE UnhookDestroyed
    BY <2>2 DEF UnhookDestroyed, Go, Restored, localVars, cacheVars, patcherVars
  <2>3. CASE FreeProgram
    BY <2>3 DEF FreeProgram, Go, cacheVars, hookVars, patcherVars
  <2>4. CASE CannotFindHook
    BY <2>4 DEF CannotFindHook, Go, gameVars, cacheVars, hookVars, patcherVars
  <2> QED
    BY <1>5, <2>1, <2>2, <2>3, <2>4 DEF DestroysProgram
<1>6. CASE RunsScriptThreads
  <2>1. CASE EnterRunScriptThreads
    BY <2>1
    DEF EnterRunScriptThreads, Go, Intrudes, localVars, gameVars, cacheVars, hookVars,
        patcherVars
  <2>2. CASE HandlersCached
    BY <2>2 DEF HandlersCached, Go, localVars, gameVars, cacheVars, hookVars, patcherVars
  <2>3. CASE ScriptsTick
    BY <2>3 DEF ScriptsTick, Go, ScriptsRemoved, localVars, gameVars, cacheVars, hookVars
  <2>4. CASE CallRunScriptThreads
    BY <2>4
    DEF CallRunScriptThreads, Go, localVars, gameVars, cacheVars, hookVars, patcherVars
  <2> QED
    BY <1>6, <2>1, <2>2, <2>3, <2>4 DEF RunsScriptThreads
<1>7. CASE StartsUp
  <2>1. CASE EnableHooks
    BY <2>1 DEF EnableHooks, Go, localVars, gameVars, cacheVars, hookVars, patcherVars
  <2>2. ASSUME NEW p \in Programs, VisitProgram(p) PROVE Detours'
    BY <2>2 DEF VisitProgram, gameVars, cacheVars, hookVars, patcherVars
  <2>3. CASE Publish
    BY <2>3 DEF Publish, Go, localVars, gameVars, cacheVars, patcherVars
  <2> QED
    BY <1>7, <1>2, <2>1, <2>2, <2>3 DEF StartsUp, Threads
<1>8. CASE StopRunning
  BY <1>8 DEF StopRunning, localVars, gameVars, cacheVars, hookVars, patcherVars
<1>9. CASE Unloads
  <2>1. CASE DisableHooks
    BY <2>1
    DEF DisableHooks, Go, TakesDown, localVars, gameVars, cacheVars, hookVars,
        patcherVars
  <2>2. CASE DeleteDetours
    BY <2>2
    DEF DeleteDetours, Go, TakesDown, localVars, gameVars, cacheVars, hookVars,
        patcherVars
  <2>3. CASE RemoveAllScripts
    BY <2>3
    DEF RemoveAllScripts, Go, TakesDown, localVars, gameVars, cacheVars, hookVars,
        patcherVars
  <2>4. CASE ResetScriptPatcher
    BY <2>4
    DEF ResetScriptPatcher, Go, TakesDown, localVars, gameVars, cacheVars, hookVars
  <2>5. ASSUME NEW p \in Programs, RestoreProgram(p) PROVE Detours'
    BY <2>5 DEF RestoreProgram, Restored, TakesDown, localVars, cacheVars, patcherVars
  <2>6. CASE ResetNativeHooks
    BY <2>6
    DEF ResetNativeHooks, Go, Restored, TakesDown, localVars, cacheVars, patcherVars
  <2>7. CASE UnloadLibrary
    BY <2>7
    DEF UnloadLibrary, Go, TakesDown, localVars, gameVars, cacheVars, hookVars,
        patcherVars
  <2> QED
    BY <1>9, <2>1, <2>2, <2>3, <2>4, <2>5, <2>6, <2>7 DEF Unloads
<1>10. CASE UNCHANGED vars
  BY <1>10 DEF vars, localVars, gameVars, cacheVars, hookVars, patcherVars
<1> QED
  BY <1>1, <1>2, <1>3, <1>4, <1>5, <1>6, <1>7, <1>8, <1>9, <1>10
  DEF Next

(* The game's thread frees a program that is not hooked, or that was unhooked. *)
LEMMA FreedPrograms ==
    ASSUME TypeOK, NEW q \in Programs, script[q] # None, script'[q] = None, [Next]_vars
    PROVE  Freed(q)
<1> USE DEF TypeOK, Freed
<1>1. ASSUME NEW t \in Threads, CacheHandlers(t) PROVE Freed(q)
  <2>1. CASE BeginCache(t)
    BY <2>1 DEF BeginCache, gameVars, cacheVars, hookVars, patcherVars
  <2>2. CASE FillCache(t)
    BY <2>2 DEF FillCache, gameVars, hookVars, patcherVars
  <2>3. CASE ResolveCache(t)
    BY <2>3 DEF ResolveCache, gameVars, hookVars, patcherVars
  <2>4. CASE MarkCached(t)
    BY <2>4 DEF MarkCached, gameVars, hookVars, patcherVars
  <2> QED
    BY <1>1, <2>1, <2>2, <2>3, <2>4 DEF CacheHandlers
<1>2. ASSUME NEW t \in Threads, HookProgram(t) PROVE Freed(q)
  <2>1. CASE HookTables(t)
    BY <2>1 DEF HookTables, Go, cacheVars, hookVars, patcherVars
  <2>2. ASSUME NEW n \in Natives, LookUp(t, n) PROVE Freed(q)
    BY <2>2 DEF LookUp, gameVars, cacheVars, hookVars, patcherVars
  <2>3. CASE LookedUp(t)
    BY <2>3 DEF LookedUp, Go, localVars, gameVars, cacheVars, hookVars, patcherVars
  <2>4. CASE FinishHook(t)
    BY <2>4 DEF FinishHook, Go, cacheVars, patcherVars
  <2>5. CASE DropHook(t)
    BY <2>5 DEF DropHook, Go, cacheVars, hookVars, patcherVars
  <2> QED
    BY <1>2, <2>1, <2>2, <2>3, <2>4, <2>5 DEF HookProgram
<1>3. CASE LoadsProgram
  <2>1. ASSUME NEW p \in Programs, NEW s \in Scripts, LoadProgram(p, s) PROVE Freed(q)
    BY <2>1 DEF LoadProgram, Intrudes, cacheVars, hookVars, patcherVars, Scripts
  <2>2. CASE CallInitNativeTables
    BY <2>2
    DEF CallInitNativeTables, Go, localVars, gameVars, cacheVars, hookVars, patcherVars
  <2>3. CASE OnScriptLoad
    BY <2>3 DEF OnScriptLoad, Go, DataAfterLoad, localVars, gameVars, cacheVars, hookVars
  <2> QED
    BY <1>3, <1>2, <2>1, <2>2, <2>3 DEF LoadsProgram, Threads
<1>4. CASE ExecutesProgram
  <2>1. ASSUME NEW p \in Programs, EnterScriptVM(p) PROVE Freed(q)
    BY <2>1 DEF EnterScriptVM, Go, Intrudes, gameVars, cacheVars, hookVars, patcherVars
  <2>2. CASE SwapByteCode
    BY <2>2 DEF SwapByteCode, Go, localVars, cacheVars, hookVars, patcherVars
  <2>3. CASE CallScriptVM
    BY <2>3 DEF CallScriptVM, Go, localVars, gameVars, cacheVars, hookVars, patcherVars
  <2>4. CASE LeaveScriptVM
    BY <2>4 DEF LeaveScriptVM, Go, cacheVars, hookVars, patcherVars
  <2>5. ASSUME NEW p \in Programs, NEW n \in Natives, CallDetouredNative(p, n) PROVE Freed(q)
    BY <2>5 DEF CallDetouredNative, Intrudes, gameVars, cacheVars, hookVars, patcherVars
  <2>6. CASE LeaveDetouredNative
    BY <2>6
    DEF LeaveDetouredNative, Go, localVars, gameVars, cacheVars, hookVars, patcherVars
  <2> QED
    BY <1>4, <2>1, <2>2, <2>3, <2>4, <2>5, <2>6 DEF ExecutesProgram
<1>5. CASE DestroysProgram
  <2>1. ASSUME NEW p \in Programs, DestroyProgram(p) PROVE Freed(q)
    BY <2>1 DEF DestroyProgram, Intrudes, cacheVars, hookVars, patcherVars
  <2>2. CASE UnhookDestroyed
    BY <2>2 DEF UnhookDestroyed, Go, Restored, localVars, cacheVars, patcherVars
  <2>3. CASE FreeProgram
    BY <2>3 DEF FreeProgram, Go, cacheVars, hookVars, patcherVars, Dangling, GameDangles
  <2>4. CASE CannotFindHook
    BY <2>4 DEF CannotFindHook, Go, gameVars, cacheVars, hookVars, patcherVars
  <2> QED
    BY <1>5, <2>1, <2>2, <2>3, <2>4 DEF DestroysProgram
<1>6. CASE RunsScriptThreads
  <2>1. CASE EnterRunScriptThreads
    BY <2>1
    DEF EnterRunScriptThreads, Go, Intrudes, localVars, gameVars, cacheVars, hookVars,
        patcherVars
  <2>2. CASE HandlersCached
    BY <2>2 DEF HandlersCached, Go, localVars, gameVars, cacheVars, hookVars, patcherVars
  <2>3. CASE ScriptsTick
    BY <2>3 DEF ScriptsTick, Go, ScriptsRemoved, localVars, gameVars, cacheVars, hookVars
  <2>4. CASE CallRunScriptThreads
    BY <2>4
    DEF CallRunScriptThreads, Go, localVars, gameVars, cacheVars, hookVars, patcherVars
  <2> QED
    BY <1>6, <2>1, <2>2, <2>3, <2>4 DEF RunsScriptThreads
<1>7. CASE StartsUp
  <2>1. CASE EnableHooks
    BY <2>1 DEF EnableHooks, Go, localVars, gameVars, cacheVars, hookVars, patcherVars
  <2>2. ASSUME NEW p \in Programs, VisitProgram(p) PROVE Freed(q)
    BY <2>2 DEF VisitProgram, gameVars, cacheVars, hookVars, patcherVars
  <2>3. CASE Publish
    BY <2>3 DEF Publish, Go, localVars, gameVars, cacheVars, patcherVars
  <2> QED
    BY <1>7, <1>2, <2>1, <2>2, <2>3 DEF StartsUp, Threads
<1>8. CASE StopRunning
  BY <1>8 DEF StopRunning, localVars, gameVars, cacheVars, hookVars, patcherVars
<1>9. CASE Unloads
  <2>1. CASE DisableHooks
    BY <2>1
    DEF DisableHooks, Go, TakesDown, localVars, gameVars, cacheVars, hookVars,
        patcherVars
  <2>2. CASE DeleteDetours
    BY <2>2
    DEF DeleteDetours, Go, TakesDown, localVars, gameVars, cacheVars, hookVars,
        patcherVars
  <2>3. CASE RemoveAllScripts
    BY <2>3
    DEF RemoveAllScripts, Go, TakesDown, localVars, gameVars, cacheVars, hookVars,
        patcherVars
  <2>4. CASE ResetScriptPatcher
    BY <2>4
    DEF ResetScriptPatcher, Go, TakesDown, localVars, gameVars, cacheVars, hookVars
  <2>5. ASSUME NEW p \in Programs, RestoreProgram(p) PROVE Freed(q)
    BY <2>5 DEF RestoreProgram, Restored, TakesDown, localVars, cacheVars, patcherVars
  <2>6. CASE ResetNativeHooks
    BY <2>6
    DEF ResetNativeHooks, Go, Restored, TakesDown, localVars, cacheVars, patcherVars
  <2>7. CASE UnloadLibrary
    BY <2>7
    DEF UnloadLibrary, Go, TakesDown, localVars, gameVars, cacheVars, hookVars,
        patcherVars
  <2> QED
    BY <1>9, <2>1, <2>2, <2>3, <2>4, <2>5, <2>6, <2>7 DEF Unloads
<1>10. CASE UNCHANGED vars
  BY <1>10 DEF vars, localVars, gameVars, cacheVars, hookVars, patcherVars
<1> QED
  BY <1>1, <1>2, <1>3, <1>4, <1>5, <1>6, <1>7, <1>8, <1>9, <1>10
  DEF Next

------------------------------------------------------------------------------
LEMMA InitIInv == Init => IInv
<1> SUFFICES ASSUME Init PROVE IInv
  OBVIOUS
<1>1. TypeOK
  BY DEF Init, TypeOK, Threads, Scripts
<1>2. Working /\ Phases /\ GameHooksLater
  BY ProgramsAssumption
  DEF Init, Working, Phases, GameHooksLater, Threads, GamePc, MainPc, Hooking, Starting, InVM
<1>3. Recorded /\ Agreement
  BY ProgramsAssumption
  DEF Init, Recorded, Agreement, Undisturbed, Threads, Starting, Hooking
<1>4. Copies /\ KeptApart
  BY ProgramsAssumption DEF Init, Copies, KeptApart, Threads, InVM, Hooking
<1>5. CacheFilledOnce /\ Detours
  BY ProgramsAssumption DEF Init, CacheFilledOnce, Detours, Threads
<1> QED
  BY <1>1, <1>2, <1>3, <1>4, <1>5 DEF IInv

LEMMA StepIInv == IInv /\ [Next]_vars => IInv'
BY TypeStep, WorkingStep, PhasesStep, GameHooksLaterStep, RecordedStep, AgreementStep,
   CopiesStep, KeptApartStep, CacheFilledOnceStep, DetoursStep
DEF IInv

LEMMA Invariance == Spec => []IInv
BY InitIInv, StepIInv, PTL DEF Spec

(* Nothing dangles while it is quiet: the game's thread, ...               *)
LEMMA GameIsSafe ==
    ASSUME IInv, quiet
    PROVE  ~GameDangles
<1> USE DEF IInv
<1>1. ~(pc[Game] \in {"init", "swapped", "original"} /\ detours = "deleted")
  BY DEF KeptApart
<1>2. ~(cachePc[Game] = "resolve" /\ detours = "deleted")
  BY DEF KeptApart, Working, Threads
<1>3. ~(pc[Game] \in {"loaded", "vm"} /\ ~g_script_patcher_service)
  BY DEF KeptApart, Phases, Working, MainPc, Starting
<1>4. ~(pc[Game] \in {"hook", "finish", "destroy"} /\ ~g_native_hooks)
  BY DEF KeptApart
<1>5. ~(pc[Game] = "scripts" /\ Unresolved # {})
  BY DEF CacheFilledOnce
<1>6. ~(/\ pc[Game] = "execute"
        /\ m_code_blocks[program[Game]] = "copy"
        /\ script[program[Game]] \notin m_script_data)
  BY DEF KeptApart, InVM
<1>7. ~(\E p \in Programs : vtable[p] = "freed")
  BY DEF Agreement, Undisturbed
<1>8. ~(pc[Game] # "game" /\ pc[Main] = "unloaded")
  BY DEF KeptApart, Phases
<1> QED
  BY <1>1, <1>2, <1>3, <1>4, <1>5, <1>6, <1>7, <1>8 DEF GameDangles

(* ... and the main thread.                                                *)
LEMMA MainIsSafe ==
    ASSUME IInv, quiet
    PROVE  ~MainDangles
BY DEF IInv, KeptApart, MainDangles, Loaded, Hooking

------------------------------------------------------------------------------
(* Type correctness of the game's programs and of what the library does to *)
(* them (native_hooks.cpp, script_patcher_service.cpp, main.cpp), for any  *)
(* addresses and natives.                                                  *)
THEOREM TypeCorrect == Spec => []TypeOK
<1>1. IInv => TypeOK
  BY DEF IInv
<1> QED
  BY <1>1, Invariance, PTL

(* While the threads keep out of each other's way, the order in which      *)
(* main.cpp sets up and takes down is right: nothing is used before it     *)
(* exists or after its end.                                                *)
THEOREM OrderIsSafe == Spec => []QuietIsSafe
<1>1. IInv => QuietIsSafe
  BY GameIsSafe, MainIsSafe DEF QuietIsSafe, Dangling
<1> QED
  BY <1>1, Invariance, PTL

(* Then each hooked program has the natives replaced that are registered   *)
(* for it (hook_program, hook_instance).                                   *)
THEOREM DetoursRight == Spec => []QuietDetours
<1>1. IInv => QuietDetours
  <2> SUFFICES ASSUME IInv, quiet, NEW p \in m_native_hooks
               PROVE  m_new_table[p] = {n \in Natives :
                          n \in ToAll \/ (n \in ToShop /\ script[p] = "shop_controller")}
    BY DEF QuietDetours
  <2>1. m_new_table[p] = Registered(script[p])
    BY DEF IInv, Detours
  <2> QED
    BY <2>1, ProgramsAssumption DEF Registered
<1> QED
  BY <1>1, Invariance, PTL

(* The map of hooked programs and the programs' tables agree (hook_program,*)
(* scrprogram_dtor), although both threads hook programs.                  *)
THEOREM MapAgrees == Spec => []MapMatchesTables
<1>1. IInv => MapMatchesTables
  BY DEF IInv, Recorded, Agreement, Undisturbed, BeingEntered, MapMatchesTables
<1> QED
  BY <1>1, Invariance, PTL

(* shop_controller executes its patched copy, and no other script does     *)
(* (on_script_load, script_vm).                                            *)
THEOREM CopyExecuted == Spec => []ExecutesPatched
<1>1. IInv => ExecutesPatched
  BY DEF IInv, Copies, InVM, ExecutesPatched
<1> QED
  BY <1>1, Invariance, PTL

(* A program that the game destroys, and every program when the library is *)
(* unloaded, is as it was loaded (scrprogram_dtor, ~native_hooks).         *)
THEOREM ProgramsGivenBack == Spec => GivenBack
<1>1. ASSUME IInv, [Next]_vars, NEW q \in Programs, script[q] # None, script'[q] = None
      PROVE  AsLoaded(q)
  <2>1. \/ pc[Game] = "game" /\ vtable[q] = "own"
        \/ pc[Game] = "free" /\ program[Game] = q /\ vtable[q] # "freed"
    BY <1>1, FreedPrograms DEF IInv, Freed
  <2>2. m_code_blocks[q] = "own"
    BY <1>1, <2>1 DEF IInv, TypeOK, Copies, InVM
  <2>3. vtable[q] = "own"
    BY <1>1, <2>1 DEF IInv, TypeOK, Recorded
  <2> QED
    BY <1>1, <2>2, <2>3 DEF AsLoaded, IInv, Recorded
<1>2. ASSUME IInv', pc'[Main] = "unloaded", ~Dangling', NEW p \in Programs
      PROVE  AsLoaded(p)'
  <2>1. pc'[Game] = "game" /\ vtable'[p] # "freed"
    BY <1>2 DEF Dangling, GameDangles
  <2>2. vtable'[p] # "hooked"
    BY <1>2, <2>1 DEF IInv, Recorded, Phases, BeingEntered, Threads
  <2>3. m_code_blocks'[p] # "copy"
    BY <1>2, <2>1 DEF IInv, Copies, InVM
  <2> QED
    BY <1>2, <2>1, <2>2, <2>3 DEF AsLoaded, IInv, TypeOK, Recorded
<1>3. IInv /\ IInv' /\ [Next]_vars => GivesBack
  BY <1>1, <1>2 DEF GivesBack
<1> QED
  BY <1>3, Invariance, PTL DEF GivenBack, Spec
==============================================================================
