# BigBaseV2: specifications, model checking and proofs

TLA+ modules that model the program's own logic (the C++ under `src/src`), TLC
configurations that check them on small instances, and proofs for every size
with TLAPS. The source is the reference; every definition that models code is
mapped to its lines in `PROJECT.json`.

## 1. The system

BigBaseV2 is a library injected into a game process. Its *main thread*
(`main.cpp`) builds the parts below in order, sleeps until `g_running` is
cleared ("Unload Menu Clean"), and takes them down again; the library can be
unloaded while the game runs. The other threads are the *pool threads*, the
game's *script thread* (through the `run_script_threads` and `script_vm`
hooks), its *render thread* (through the `Present` and `ResizeBuffers` hooks)
and its *window's thread* (through our window procedure).

| component | state | operations | who calls it |
|---|---|---|---|
| thread pool | job stack, `m_accept_jobs`, counter of available threads, mutex, condition variable, threads | `push`, `create`, `run`, `destroy` | main thread, managing thread, workers |
| settings | the options, `m_options` (JSON last read or compared), `m_running`, the file | `init`, `load`, `attempt_save`, `save`, `destroy` | main thread, one pool thread; the render thread edits the options in place |
| scripts, script manager | list of scripts, recursive mutex, a fiber and a wake time per script | `add_script`, `tick`, `yield`, `remove_all_scripts` | script thread, main thread |
| fiber pool | ten scripts and a stack of jobs | `queue_job`, `fiber_tick` | render thread, script thread |
| hooking | detours, `m_enabled` | `enable`, `disable`, `get_original` | main thread; every hooked thread |
| native hooks | registrations, hooked programs, saved tables | `add_native_detour`, `hook_program`, program destruction | script thread, main thread |
| native invoker | handler cache | `cache_handlers`, `get_native_handler` | script thread |
| script patcher | patches and byte-code copies per script | `add_patch`, `on_script_load`, `get_script_bytecode`, `update` | script thread, main thread |
| patterns, ranges, batch | none, but the batch's futures and callbacks | `scan`, `scan_all`, `run` | main thread, `std::async` threads |
| byte patches | static list of patches, game memory | `make`, `apply`, `restore`, `remove`, `restore_all` | main thread |
| renderer | DirectX 12: frame contexts, fence values and event, back buffers; DirectX 11: a pointer | `on_present`, `pre_reset`, `post_reset`, `new_frame`, `end_frame`, construction, destruction | render thread, main thread |
| GUI | open/closed, "safe to render" | `toggle`, `dx_on_tick`, `script_on_tick`, `wndproc` | render thread, window's thread, script thread |
| exception handler, stack trace | the process's filter, one trace with its mutex, the set of logged traces | construction, `vectored_exception_handler`, `new_stack_trace` | any thread that faults |
| files, logger | folders, log files, console | `init`, `initialize`, `destroy` | main thread |

Interactions: the autosave job of the settings runs on the thread pool until
`g.destroy()`; the GUI queues jobs for the fiber pool; the fiber pool's fibers
are scripts of the script manager, which the `run_script_threads` hook ticks;
`init_native_tables` and `script_vm` hand programs to the native hooks and the
script patcher; the renderer calls the GUI's callback for each frame; the batches of
signatures fill in the pointers everything else uses; the main thread's
unloading order is what keeps each of these from using the other after its end.

What is hard here: threads that meet only at shared state (the options have no
lock at all), fibers that are suspended in the middle of a job, hooks that are
in flight while they are removed, a file rewritten in place by a process that
can be killed, unloading in the right order, and free lists and counters whose
rules are only asserted. `PROJECT.json` lists every hazard at its line, with
the property that covers it, or why none does.

For each component, what makes it correct:

- thread pool: no missed wake-up, each job executed at most once, an exact
  counter, nothing executed after `destroy`, `destroy` returns;
- settings: any file is loaded or replaced, what is on disk follows the
  options, unloading never leaves half a file;
- scripts and fiber pool: scripts run only under the manager's mutex and as
  `main_persistent`, jobs stay on their fiber and are not lost, removal never
  deletes a fiber that has control;
- hooking: no call reaches a deleted detour; native hooks: each loaded program
  is hooked once and restored; script patcher: the VM sees patched code only of
  its own script, and never freed code;
- patterns: a scan finds the first match and `scan_all` every match; byte
  patches: after `restore_all` memory is as it was;
- renderer: a frame's resources are not reused before the GPU is done with them
  (which the code leaves to the swap chain), and the hooks find renderer, GUI and
  originals whenever they run;
- exception handler: a thread goes on after a fault only when the fault is in the
  log, and whoever faults gets on, or the process ends.

## 2. Modules

| module | models |
|---|---|
| `JobPool` | the abstract contract of a pool of jobs |
| `ThreadPool` | `thread_pool.cpp` |
| `Settings` | `core/settings.cpp`, on top of `JobPool` |
| `ScriptFibers` | `script.cpp`, `script_mgr.cpp`, `fiber_pool.cpp`, `execute_as_script`, the `run_script_threads` hook |
| `GamePrograms` | the hooks `init_native_tables` and `script_vm`, `native_hooks.cpp`, `vmt_hook.cpp`, the invoker's handler cache, the script patcher's service, and the part of `main.cpp` that sets them up and takes them down |
| `PatternText` | `pattern.cpp`: from a signature's text to a pattern, then the search for it |
| `PatternScan` | `range.cpp`, and `script_patch.cpp`'s search in paged byte code |
| `GamePatches` | `batch.cpp`, `pointers.cpp`, `byte_patch.cpp`, `byte_patch_manager.cpp`, with the part of `main.cpp` around them |
| `Patching` | `GamePatches`, composed with `script_patch.cpp`, `script_patcher_service.cpp` and `script_patches.hpp` |
| `Dx12Frames` | the frames, fence and event of `renderer_dx12.cpp`, the GPU and the swap chain behind them |
| `Overlay` | the render thread's hooks, the window procedure, `gui.cpp`, both renderers' lives and `hooking.cpp`, on top of `Dx12Frames` |
| `ExceptionHandler` | `exception_handler.cpp`, `stack_trace.cpp` |
| `ThreadPoolProofs`, `SettingsProofs`, `ScriptFibersProofs`, `GameProgramsProofs`, `PatternTextProofs`, `PatchingProofs`, `OverlayProofs`, `ExceptionHandlerProofs` | theorems about the module of that name, and about those it is built on |
| `MCThreadPool`, `MCSettings`, `MCScriptFibers`, `MCGamePrograms`, `MCPatterns`, `MCPatching`, `MCExceptionHandler` | the instances TLC checks (`Overlay` needs none) |

An actor's position in its code is a `...Pc` variable; a step is what the code
does between two points where another thread can interfere. State has the
source's names (`m_job_stack`, `m_options`, `m_scripts`).
Definitions introduced by a comment "Mutation:" are deliberately wrong variants
of the definition that follows them. No specification uses them; substituted
for the right one, each makes the property it belongs to fail, which shows that
the property depends on that piece of the code.

### ThreadPool

`managerPc`, `workerPc`, `pusherPc` and `mainPc` follow `create`, `run`, `push`
and `destroy`; `m_lock` names the thread that holds the mutex, and the
condition variable is the set of workers whose `workerPc` is `"waiting"`.
Testing the predicate, going to sleep and taking a job are separate steps under
the mutex; unlocking, notifying and the two updates of
`m_available_thread_count` are separate steps outside it, as in the code.
Wake-ups may be spurious. A job returns or throws a `std::exception`, which
`run` treats alike; another exception ends the process and is left out. The
branch that finds the stack empty after the predicate held is unreachable, and
so absent. `pushedJobs` is a history variable, the jobs that `push` was given:
`NoneLost` says where each of them is, `NoneTwice` that it is there alone. What
`push` concludes from the counter is a warning, and is left out.

### Settings

The options are a sequence of keys in the order of serialisation; an option is
a number whose default is 0, so that "newer" can be said. A file is missing,
does not parse, holds a JSON value that is no object, or is an object whose
keys may be absent or of an unreadable type. `load` is one step per file
operation and per phase (`deep_compare`, `from_json`, `save`), `from_json`
stops at the first unreadable value. The autosave job reads the options one by
one, twice, as `to_json` does in `attempt_save` and in `save`, while the user
changes them. Opening the file for writing truncates it or fails. The job is
started and ended by `JobPool`'s actions, so that the unloading (`DisableHooks`,
`DestroySettings`, `ClosePool`, `JoinPool`) waits for it as `thread_pool` does.
`Crash` may happen at any point of a launch; `Launch` starts over with the file.

### ScriptFibers

`control` says which fiber the script thread executes; `gamePc` follows the
hook through `execute_as_script` and `tick_internal`. `execute_as_script` borrows
both fields of the TLS, `m_script_thread` and `m_is_script_thread_active`;
`gameScript` and `gameActive` remember what the game had put there, which need not
agree. A wake time is kept as
the clock ticks that remain (`sleeping`), so that time needs no bound. A job
yields up to `Yields` times, for any time up to `MaxSleep`, and then ends, or
is `Endless`. `QueueJob` is the render thread; `DisableHook` and
`RemoveAllScripts` are the main thread, which takes the manager's mutex. After
the removal suspended jobs stay where they are, as the deleted fibers do.
Critical sections of the fiber pool's mutex do not wait for anything inside,
and are one step each.

### GamePrograms

Two threads that share no lock: `pc` says where the game's thread and the main
thread are, a step is what one of them does between two points at which the
other can matter. The game (external: what it does is known from how the code
uses it) loads a program at an address, executes it, destroys it, and calls
`run_script_threads`; it does the same whether or not its functions are hooked,
and finds our destructor or our natives in a program's tables even when they are
not. The main thread follows `main.cpp`: enable the hooks, construct the native
hooks (which hooks the programs already loaded), publish the pointer, wait, and
take everything away again.

A table is the program's `own`, `hooked`, or `freed`; `m_original_table` is
what a hook in the map would give back, which is a freed table when a program
was hooked twice. Scripts are `shop_controller`, for which natives and patches
are registered, and `other`; `Natives` has one native registered for all
scripts, one for `shop_controller` and one for none. `hook_program` is three
steps (`HookTables`, `LookUp` per native, `FinishHook` or `DropHook`), because
`get_native_handler` may find the handlers uncached and both threads may then
be inside `cache_handlers` at once (`cachePc`).

Using something that does not exist yet, or no longer, is not a step: `Dangling`
says that the next step of a thread would be such a use, and no action is taken
then, as the process ends. `quiet` is a history variable: it becomes false when
the game's thread starts something that concerns the library while the native
hooks are being constructed, or is inside the library while the main thread
takes something away. It separates what the order of the code guarantees from
what only timing does.

### PatternText, PatternScan

`PatternScan` starts from any pattern and any memory not shorter than it.
A step of `scan_pattern` is
the comparison of one byte; `shift_table` says for a byte what the code's loops
leave in the table. The two searches that try every place, `scan_all` and
`get_code_location_by_pattern`, are operators on the same pattern and memory;
the byte code of the latter is cut into pages, as the service copies it.
Patterns longer than the memory, for which the code's unsigned bounds wrap, are
left out: the program scans only whole modules and the code of `shop_controller`.
`PatternText` composes it with the parser: a signature is read character by
character, as the constructor of `pattern` does, and the pattern handed to the
scan; `tokens` remembers what the signature was written for.

### GamePatches, Patching

The main thread launches a batch: the entries that `run` selects by branch and
version are scanned for by threads of their own, each of which finds, misses or
throws, in any order; the callbacks exclude each other, and a scan with its
callback is one step. `run` waits for every future and returns whether all were
found, at which nobody looks: `missed` remembers it. Four pointers that the main
thread uses before the hooks are made stand for those that have a signature per
branch; `m_handle_to_ptr` stands for those whose entries leave versions out.
A byte patch is a function from addresses to bytes, `game_memory` what was there
before. A step of the main thread that would use an unset pointer is not taken
(`Dangling`). `Patching` adds the script thread: it loads `shop_controller` and
registers the patches, in either order, and then the copy is updated by each
patch. A patch that is not found throws; one that does not stay in its page
overruns it (`damage`). `Search` instantiates `PatternScan` for the place.

### Dx12Frames, Overlay

`Dx12Frames` has the operations on the frame contexts and, as a queue of command
lists and Presents, the GPU; a list's fence value is completed when the list has
been executed, and signals the event if it was registered. Calls that fill a
command list are one step. `Overlay` says who calls them: the game presents,
tests, resizes and sends messages, hooked or not; the main thread builds the
renderer (either kind, with each way in which it fails), the GUI and the hooks,
waits, and takes them down, or unwinds what a failed start has made.
`InstallWndproc` and `StoreWndproc` are two steps because
`SetWindowLongPtrW` installs our procedure before its result is stored.
`wait_for_last_frame` is used by two threads: registering the value and
consuming the event are two steps. As in `GamePrograms`, `Dangling` states end a
behaviour; `caught` is a history variable, the threads in a hook around which
something was taken away that the hook uses.
The game presents however far the GPU is behind, and waits for it before it
resizes, as DXGI demands.

### ExceptionHandler

A fault has the frames `StackWalk64` finds and a kind of instruction; the filter
locks the trace, dumps, unlocks, hashes, looks the hash up, logs, inserts and
resumes, each a step, since the trace is read after it was unlocked and the set
of hashes has no lock. The hash stands for the frames it is computed of. A fault
in the filter itself (a script thread that is null in the VM, a C++ exception
that is no `std::exception`) enters it again with the mutex held; locking it
again waits for ever or throws, so that both are possible. What is logged shows
the frames up to the first zero; what a longer walk has left behind a shorter
one stays. Two threads that change the set of hashes at once lose one or end
the process. The library can be unloaded at any time: nothing takes the filter
out (section 5).

### JobPool

What both pools promise: a job is pending, executed by one thread that executes
no other, or finished; none starts once the pool is closed; `Stop` happens only
when none executes. `ThreadPool` implements all of it (`ImplementsJobPool`,
checked and proved). The fiber pool implements it with `open` read as "the
scripts exist", and never stops: the jobs suspended at the removal are
abandoned, which is where the two pools differ.

## 3. What is checked

| run | question | bounds |
|---|---|---|
| `thread_pool` | missed wake-ups, lost or duplicated jobs, the counter, what `destroy` leaves, jobs taken after closing; does `destroy` return, are jobs served, is the contract of `JobPool` kept | 2 workers, 2 pushers, 3 jobs |
| `settings` | whole file after unloading, agreement after loading, the file between `m_options` and the options; does a launch complete, an unloading end, are options saved | 2 options of 3 values, every recoverable file, 2 launches, 1 failed opening |
| `script_fibers` | removal against ticks, both fields of the borrowed identity; is the contract of `JobPool` kept, are queued jobs taken, are the scripts removed | 2 fibers, 1 service script, 3 jobs of which 1 endless |
| `game_programs_safety` | is anything used outside its lifetime, does each hooked program have the right natives, do map and tables agree, does the VM execute patched code, is what the game gets back what it loaded | 2 addresses, symmetric; 3 natives |
| `patterns` | is what a signature says found first, do the three searches agree, does the scan end | every signature of up to 4 tokens, every memory of up to 7 bytes, 2 byte values, pages of 3 |
| `patching` | are pointers set when they are used, is the game's memory as it was, has the copy both patches | both branches, 2 versions, 2 addresses, 3 byte values, code of 6 bytes in pages of 4 |
| `overlay` | which thread can use something outside its lifetime, and where; when is an allocator reset that is in use; does the unloading end | 5 Presents, 2 buffers at the start, 1, 2 or 3 after a resize |
| `exceptions` | is a fault logged before its thread goes on, does each thread that faults get on | 2 threads, 5 faults, room for 3 of up to 4 frames |
| `settings_reuse`, `settings_scalar`, `game_programs_unload`, `game_programs_detours` | four disagreements (section 5) | as small as they show |

Why these bounds: a missed wake-up needs one sleeper and one waker, a job taken
twice needs two takers, and the second pusher lets a notification meet another
push; three jobs with two workers make one job wait. Two options are the least
with which a snapshot can be torn and `from_json` can stop half-way, three values
the least with which an option changes twice during one save. Two fibers and a
service script let a tick be interrupted before, in and after a fiber. One address
is enough for two threads to hook the same program, and for a program to be loaded
where another was; the second lets the game work on one program while the main
thread works on another. Nothing in `GamePrograms` counts, so it needs no bound. Patterns of four
entries have room for a wildcard, and a repeated and a different byte, before the
last entry; pages of three bytes put a match across two pages; the proofs
lift these bounds. In `patching` one pattern has a wildcard and an offset, as in
the program, and code of six bytes has room for both patches in one page, in two, and
across the boundary; two versions are one inside and one outside the gap.
Five Presents go around the back buffers twice, with a resize and the upload of the
fonts in between, so that the GPU can be a round behind when an allocator is
reset; 1 and 3 are the counts on either side of the renderer's.
Two threads are the least with which a trace is filled while another reads it;
the faults differ in what the filter tells apart: two that begin alike and one of
them longer than there is room for, one that cannot be resumed, one that faults in
the filter, one that is passed on.

Fairness. Threads that can run do; a mutex free again and again is obtained
(strong fairness on the acquisitions: the system's locks do not starve a waiter
for ever, although they are not queues); the game calls its hook again and
again; jobs end, except those that are `Endless` and the autosave job, which
ends by itself once `m_running` is false. `GamePrograms` and `GamePatches` assume no fairness: all their
properties are safety. In `Overlay` the main thread and the GPU go on (weak
fairness), and nothing is assumed of the game's other threads. In
`ExceptionHandler` a thread in the filter goes on and gets a mutex that is free
again and again; nothing is assumed of faults, of scripts, or of what an
exception thrown by the mutex leads to. Nothing makes users act, jobs be
pushed, wake-ups be spurious or processes crash. `Settings` assumes of the pool
that a pushed job is started and that `destroy` returns when its job has ended:
`PushedJobServed` and `DestroyReturns` of `ThreadPool`.

Deadlock is not checked: each system really stops (the pool is destroyed, the
menu is unloaded, the scripts are removed, the scan has returned), or its process
ends.

## 4. What is proved

Each theorem holds for every value of the constants that satisfies the named
`ASSUME` of its module. Invariants follow one pattern: a stronger `IInv`, a
conjunction of named parts, holds initially (`InitIInv`), is preserved by every
action (one lemma per part, one step per action), and implies the property.

| module | theorems | what `IInv` adds, and why |
|---|---|---|
| `ThreadPoolProofs` | `TypeCorrect`, `WakeupsNotMissed`, `JobsConserved`, `AvailableCounted`, `DestroyQuiesces`, `ClosedPoolIdles`, `NoDeadlock`, `Implementation` (the refinement of `JobPool`) | `Mutex`: held exactly by the thread in a critical section; `Predicate`: what a worker has read under it still holds when it acts, which excludes a missed wake-up; `Phases`: how far the managing thread is when it has been joined, which makes `destroy` join all workers; `Holding`, `PushedJobIsNew`: which local variables hold jobs |
| `SettingsProofs` | `TypeCorrect`, `FileLeftWhole`, `LoadAgrees`, `FileBetween` | `SaverIsJob`: who is in `save` is the pool's job or the launch; `FileWhole`: the file is whole when nobody saves; `LoadedSoFar`: what `load` has done at each of its steps; `SnapshotBetween`: each entry of a snapshot being taken lies between what was compared and the option, read so far or not |
| `ScriptFibersProofs` | `TypeCorrect`, `ScriptsExist`, `IdentityReturned`, `Implementation` | `Mutex`: the tick and the removal exclude each other; `Identity`: whose script thread is in the TLS at each point; `Holding`, `JobInOnePlace`: which fibers hold jobs, and that no job is twice on the stack or in a fiber |
| `GameProgramsProofs` | `TypeCorrect`, `OrderIsSafe`, `DetoursRight`, `MapAgrees`, `CopyExecuted`, `ProgramsGivenBack` | `Working`, `Phases`: where each thread can be, and what exists then; `GameHooksLater`: the game's thread hooks programs only after the main thread has; `Recorded`, `Agreement`: replaced tables are recorded or about to be, a hook that finds our tables is one of a program in the map; `Copies`: a copy is there before it is needed; `KeptApart`, `CacheFilledOnce`, `Detours`: what `quiet` means for the game's thread, the cache and the natives |
| `PatternTextProofs` | of `PatternScan`: `TypeCorrect`, `ScanFindsFirst`, `SearchesMatch`; of `PatternText`: `SignatureFound`, `ScanOfText`, `SearchComesNearer` | `Scanned`: no place before the current one matches, and the entries behind `sig_idx` fit; `Placed`: which character of which token the parser looks at; `Decoded`: the pattern so far is what the first tokens stand for; `Handed`: what the scan was given |
| `PatchingProofs` | of `GamePatches`: `TypeCorrect`, `PointersSet`, `PatchesRestored`; of `Patching`: `CopyPatched`, `ScriptsLeaveMain`, `MainKeepsItsPromises` | `Scanning`: scans are under way only while `run` waits; `Made`, `Accounted`: what the scan of each pointer that is used has come to; `Originals`, `Covered`, `Untouched`: each patch has noted what the game had, and the memory differs only under a patch that is still in the list |
| `OverlayProofs` | `Invariance`, `TypeCorrect`, `OnlyKnownDangling`, `IdleOrBehind` | `Phases`: what exists where the main thread is; `Inside`: what a thread in a hook may count on, unless it is `caught`; `Buffers`, `Fonts`, `Drained`: when the contexts have the swap chain's buffers, and when the GPU's queue is empty or without our lists; `Rotation`: the list for a back buffer lies as many Presents behind as the buffer was turned back, or more than a round; `Signals`: no list has a value that was not given out |
| `ExceptionHandlerProofs` | `TypeCorrect`, `Logged` | `Mutex`, `OneUser`: as long as it is quiet one thread uses the trace; `TraceIsOwn`: whose frames it has; `LoggedIsShown`, `InsertedIsLogged`: what is in the set of hashes is in the log |

*The scan.* The heart is `ShiftSkipsNoMatch`: at a place jumped over, the entry
that would lie over the byte the table was asked for is neither a wildcard nor
that byte; that the table is defined at all is `LastOne`.

*The text of a signature.* `TextLayout`, by induction over the tokens, gives each
token a place in the text, with one space before the next. So what the parser
looks at is a wildcard, a first digit, a second digit or a space (`LookedAt`), and
only after a first digit is there another one: each action is taken exactly where
it is meant to be. When the loop ends it has looked at everything but a wildcard
at the end (`AllRead`). `StartScan` then leads to an initial state of
`PatternScan`, so that the invariant of the scan can be used from there on.

*The copy of a script.* `LoadPatchesAll`, by induction over the patches: after the
first k the copy is the code with those k written in, since the next one's pattern
is still where it was. For that `Unambiguous` has to say that the patches before it
together leave the place of its pattern alone. That each of them alone does is not
enough: two patches may make a second match that neither makes, which takes a third
patch to matter, and the program has two. `ScriptsLeaveMain` says that the
composition changes nothing for the main thread, so that what is proved of
`GamePatches` holds of it (`MainKeepsItsPromises`).

*The overlay.* A list in the queue that is followed by n Presents was recorded for
the back buffer n before the current one, modulo their number (`Rotation`). So a
list for the current one has a whole round of Presents behind it, or else none at
all, which is the case only between a frame's submission and its Present:
`IdleUnlessBehind`. It is the swap chain's turning, not the fence, that keeps the
allocators apart: `wait_for_next_frame` looks at the frame of its own counter and
waits for nothing. Nothing in the repository bounds how far the game lets the GPU
fall behind (DXGI's default, three frames, is more than two buffers), and nothing
here assumes a bound. A resize finds the queue empty because the game waits for it.
`KnownDangling` follows from `Phases` and `Inside`: the main thread takes nothing
away that a hook uses without the threads in such a hook being `caught`, and the
others find everything that was made before `EnableDetours`. What the property
lists as exceptions are things the code does: it shows that the list is complete,
place by place, not that these do no harm (`PROJECT.json` has them as hazards that
no property covers).

In `SettingsProofs`, type correctness of `from_json` needs that `deep_compare` has
filled in what the file lacked (`LoadedSoFar`). Two lemmas, `PushElements` and
`PopElements`, reduce a stack of jobs to the set of jobs on it, in both pools.
`ProgramsGivenBack` is about steps, not states: `FreedPrograms` says which steps
free a program.

Assumptions worth knowing: the workers are finitely many and no thread plays two
roles (`ThreadPool`); patterns are not empty and a wildcard is no byte
(`PatternScan`); digits are neither spaces nor question marks, and a pattern may be
as long as any signature (`PatternText`); a patch of a script has a pattern, an
offset that is not negative, and bytes (`Patching`); the game asks for one back
buffer at least (`Dx12Frames`); there is a launch
(`Settings`); a return address is not 0 (`ExceptionHandler`); `None` is none of the
things it stands in for.

Every invariant and every action property that a passing run checks is proved. Only
model-checked are the liveness properties (`DestroyReturns`, `PushedJobServed`,
`LaunchCompletes`, `UnloadCompletes`, `SavedEventually`, `QueuedJobTaken`,
`ScriptsRemoved`, `Terminates`, `UnloadEnds`, `HandlerEnds`): liveness under fairness
is out of the prover's reach. The library's induction theorems take an operator as
parameter, which the prover cannot instantiate; `SetInduction`, induction over a set
of naturals, takes their place, from the well-foundedness of `<`.

What is proved of two components is the part of liveness that is about the code
and not about its scheduling. `NoDeadlock`: while `destroy` is under way, or an open
pool that has workers has jobs, some thread's guard holds, wake-ups without reason,
new pushes and new calls of `destroy` apart. The guards are written out (`CanStep`),
since `ENABLED` is out of the prover's reach; the argument is that whoever holds the
mutex can go on, and that a worker that waits for nothing is about to be woken
(`NoMissedWakeup`). `SearchComesNearer`: the parser has an action for whatever it
looks at, and each step of parser and scan comes nearer to the end.

## 5. Disagreements found

- `settings_reuse`: `attempt_save` records one snapshot in `m_options`, `save`
  writes a second one. An option changed between the two and then changed back
  equals `m_options` again; the file keeps the other value.
- `settings_scalar`: `5` or `[]` as settings file parses, so the recovery for
  corrupt settings does not run (`null` parses too, but becomes an object); `deep_compare` throws outside `load`'s try
  blocks, and the launch, like each one after it, ends in `main`'s handler, which
  destroys the pool without joining its threads.
- `game_programs_unload`: the README names "Unloading at runtime", but hooks are
  disabled and their detours deleted while the game's thread may be inside one
  of them; it then returns to `get_original` of a deleted hook, calls a reset
  script patcher, or executes freed byte code.
- `game_programs_detours`: a detour "for all script threads" is missing from
  programs hooked while the other thread is resolving the handler cache:
  `get_native_handler` returns a hash, which equals no entry of the program's
  table, and the native is silently left as it was.

Behaviour seen, which nothing in the repository contradicts:

- *Settings.* `m_options` is brought up to date before the save: if the file does
  not open then, the change is not saved, then or later (`SavedEventually` asks
  for it only while no opening fails). Options changed after the last snapshot
  are lost at unloading. `load` calls itself again after it has tried to write the
  defaults, so that a file that can never be opened makes it recur until the stack
  is full (`settings.cpp:60-62`); `MaxFailures`, one in the runs, excludes this. A value of a wrong type costs the options behind it
  their saved values.
- *Scripts.* `execute_as_script` keeps the script thread but not whether it was
  active: it writes back whether there was one (`gta_util.hpp:71`). A game that had
  said otherwise finds another value (`IdentityIsBorrowed` promises it only the
  first, and the second if the two agreed).
- *Programs.* The hooks are enabled before `g_native_hooks` is set, so that a
  program loaded in between is handed to a null pointer (`quiet` excludes it).
  If a program is hooked twice because the main thread visits it while the game
  loads it, the second hook is dropped and gives back the tables of the first,
  so that map and tables still agree (`MapMatchesTables`).
- *Searches.* `scan_all` and the search in byte code do not look at the last
  place a pattern fits.
- *Patches.* On Legacy, versions 3752 to 3787 are in no entry of
  `m_handle_to_ptr`, which stays null. A script whose code lacks a registered
  pattern ends its load in `std::bad_optional_access` on the game's script thread; a patch
  that crosses a page is written beyond it.
- *Renderer.* When `renderer_dx12` gives up it only logs a warning, and the GUI
  dereferences the null `g_renderer`. ImGui's backend is shut down after
  `g_renderer` was set to null, through which it gives its descriptor back.
  `~renderer_dx12` may find nothing to wait for while the GPU is busy, as the
  frame at `m_FrameIndex` need not be the last, and an event left over from
  `wait_for_next_frame` may end its wait early. When the GPU is a whole round of
  back buffers behind, `end_frame` resets an allocator whose list is still to be
  executed, since nothing has waited for it. After a `ResizeBuffers` to more
  buffers the contexts are too few.
- *GUI.* A cursor whose saved coordinates add up to zero counts as not saved
  (`gui.cpp:208`).
- *Exceptions.* `FreeLibraryAndExitThread` does not return (`main.cpp:191`), so
  that `~exception_handler` is not executed and the process keeps a filter whose
  code is gone. A fault inside `new_stack_trace` leaves its mutex locked, and
  everyone who faults afterwards waits for ever. The frames of an earlier, longer
  walk stay behind those of a shorter one, so that the same fault may be logged
  again.

## 6. What is left

The safety properties are proved; liveness stays with TLC. Worth doing next: a
refinement of the fiber pool's and the autosave's liveness into one argument from
`PushedJobServed` to `UnloadCompletes`, on a run that composes `ThreadPool` and
`Settings`.

### Not modelled

- *Logger* (`logger.cpp`): formatting, console and files, on top of a library that
  owns the queue and its thread and whose source is not in the repository.
- *Files and folders*: `std::filesystem` calls whose only outcome besides success
  is an exception before any part of the program is made. What the settings use
  of them is in `Settings`.
- *Script globals and locals*: one address computation each.
- *Misc game hooks*: filters on data structures of the game, which are not in the
  repository; what they promise is the game's.
- *Native invoker*: the argument stack of a call is written and read by one
  thread, within the call.
- *Views, widgets, styles*: what they do to the rest (options edited in place,
  jobs queued, `g_running` cleared) is modelled; layout is not. Rage Quit ends the process.
- *GUI*: where the cursor is put; `script_on_tick` only calls natives; the mouse
  override is never set.
- *Direct3D and ImGui*: calls that fill a command list or draw are one step; the
  descriptor heap's free list is used by ImGui alone, and in the model only where
  its shutdown gives a descriptor back.
- *Never called*: `call_hook`, `vtable_hook`, `script::set_enabled`,
  `fiber_pool::reset`, `byte_patch::remove`, `script_patcher_service::update`.
- *Generated data and the game's types*: `natives.hpp`, `crossmap.hpp`,
  `fonts/rubik.cpp`, `gta/enums.hpp`, `all_script_names.hpp`, `vehicle_values.hpp`
  and the declarations under `gta` and `rage` are about 29,000 of the 39,000 lines:
  tables and layouts without behaviour. For that reason the lines
  `PROJECT.json` maps are a small share of all lines, although nearly every
  function of the program's own logic is among them.
