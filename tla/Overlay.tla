------------------------------- MODULE Overlay -------------------------------
(***************************************************************************)
(* The menu on top of the game's picture: the hooks Present and            *)
(* ResizeBuffers, on the game's render thread, the window procedure, on    *)
(* its window's thread, and the main thread's start and unloading of the   *)
(* renderer, the GUI and the hooks (main.cpp, hooking.cpp, gui.cpp,        *)
(* renderer_dx11.cpp; the frames of renderer_dx12.cpp are in Dx12Frames).  *)
(*                                                                         *)
(* The three threads share no lock.  A step is what a thread does between  *)
(* two points where another can matter.  The game (external) presents,     *)
(* resizes and handles messages whether or not it is hooked; before it     *)
(* resizes it waits for the GPU, as Direct3D demands.                      *)
(***************************************************************************)
EXTENDS Dx12Frames

CONSTANTS Main, Render, Window   \* the threads

Threads == {Main, Render, Window}

ASSUME OverlayAssumption == Main # Render /\ Main # Window /\ Render # Window

VARIABLES
    pc,                 \* where each thread is
    resetFor,           \* what the reset under way is for: "fonts" or "resize"
    g_is_enhanced,      \* DirectX 12, or 11?
    backend_frees,      \* does ImGui give its descriptor back when it is shut down? (external)
    g_running,
    g_renderer,         \* is the pointer set?
    m_SafeToRender,
    g_gui,              \* is the pointer set?
    g_hooking,          \* is the pointer set?
    detours,            \* MinHook's: "none", "created", "enabled", "disabled", "deleted"
    wndproc,            \* the window's procedure: the "game"'s or "ours"
    m_og_wndproc,       \* has the game's been stored?
    m_is_open,          \* the menu
    failed,             \* has a constructor or enable() thrown?
    caught              \* history: the threads around which something was taken away

mainVars == <<g_hooking, detours, wndproc, m_og_wndproc, failed>>
rendererVars == <<g_renderer, m_SafeToRender, g_gui>>
fixedVars == <<g_is_enhanced, backend_frees>>
vars == <<pc, resetFor, fixedVars, g_running, rendererVars, mainVars, m_is_open, caught,
          frameVars>>

TypeOK ==
    /\ pc[Main] \in {"renderer", "gui", "hooking", "install", "store", "detours", "running",
                     "apply", "delete", "reset", "renderer_reset", "wait", "event", "shutdown",
                     "context", "unwindHooking", "unwindGui", "exit", "unloaded", "terminated"}
    /\ pc[Render] \in {"game", "draw", "wait", "event", "release", "take", "frame", "submit",
                       "present", "test", "resize"}
    /\ pc[Window] \in {"game", "key", "message", "call"}
    /\ DOMAIN pc = Threads
    /\ resetFor \in {"none", "fonts", "resize"}
    /\ {g_is_enhanced, backend_frees, g_running, g_renderer, m_SafeToRender, g_gui,
        g_hooking, m_og_wndproc, m_is_open, failed} \subseteq BOOLEAN
    /\ caught \subseteq {Render, Window}
    /\ detours \in {"none", "created", "enabled", "disabled", "deleted"}
    /\ wndproc \in {"game", "ours"}
    /\ FramesTypeOK

Init ==
    /\ pc = [t \in Threads |-> IF t = Main THEN "renderer" ELSE "game"]
    /\ resetFor = "none"
    /\ g_is_enhanced \in BOOLEAN
    /\ backend_frees \in BOOLEAN
    /\ g_running = TRUE
    /\ g_renderer = FALSE /\ m_SafeToRender = FALSE /\ g_gui = FALSE
    /\ g_hooking = FALSE
    /\ detours = "none"
    /\ wndproc = "game" /\ m_og_wndproc = FALSE
    /\ m_is_open = FALSE
    /\ failed = FALSE
    /\ caught = {}
    /\ FramesInit

Go(t, to) == pc' = [pc EXCEPT ![t] = to]

------------------------------------------------------------------------------
(* Uses of what is not there: the next step of a thread would be one *)

\* gui's constructor calls g_renderer; ImGui_ImplDX12_Shutdown gives the font's
\* descriptor back through g_renderer, which ~renderer_dx12 has set to null.
MainDangles ==
    \/ pc[Main] = "gui" /\ ~g_renderer
    \/ pc[Main] = "shutdown" /\ backend_frees

InRenderer == {"draw", "wait", "event", "release", "take", "frame", "submit"}

\* The renderer is gone, or the detour that knows the original, or the context
\* of this back buffer, or the resource to be released.
RenderDangles ==
    \/ pc[Render] \in InRenderer /\ ~g_renderer
    \/ pc[Render] \in {"present", "test", "resize"} /\ detours = "deleted"
    \/ pc[Render] = "submit" /\ back_buffer \notin Contexts
    \/ pc[Render] = "release" /\ g_is_enhanced /\ \E i \in Contexts : ~m_Resource[i]

WindowDangles ==
    \/ pc[Window] \in {"key", "message"} /\ ~(g_renderer /\ g_gui)
    \/ pc[Window] = "call" /\ ~(g_hooking /\ m_og_wndproc)

Dangling == MainDangles \/ RenderDangles \/ WindowDangles

\* The process ends with a dangling use, or when it is terminated.
Alive == ~Dangling /\ pc[Main] # "terminated"

------------------------------------------------------------------------------
(* The render thread *)

RenderStep(from, to) ==
    /\ Alive
    /\ pc[Render] = from
    /\ Go(Render, to)
    /\ UNCHANGED <<fixedVars, rendererVars, mainVars, m_is_open, caught>>

GamePresents == presents < MaxPresents

PresentUnhooked ==
    /\ Alive
    /\ pc[Render] = "game"
    /\ detours # "enabled"
    /\ GamePresents
    /\ Shown
    /\ UNCHANGED <<pc, resetFor, fixedVars, g_running, rendererVars, mainVars, m_is_open, caught>>

\* A Present may be a test, which shows nothing and in which nothing is drawn.
EnterPresent(test) ==
    /\ detours = "enabled"
    /\ GamePresents
    /\ RenderStep("game",
           IF test THEN "test"
           ELSE IF g_running /\ ~m_Resizing /\ (g_is_enhanced => m_SafeToRender)
           THEN "draw" ELSE "present")
    /\ UNCHANGED <<resetFor, g_running, frameVars>>

\* new_frame and the callbacks; in the open menu, "Unload Menu Clean" may be
\* chosen.  end_frame resets the device objects first if there are new fonts.
Draw ==
    /\ g_running' \in IF m_is_open THEN {g_running, FALSE} ELSE {g_running}
    /\ IF ~g_is_enhanced
       THEN RenderStep("draw", "present") /\ UNCHANGED <<resetFor, frameVars>>
       ELSE IF m_FontsUpdated
       THEN /\ RenderStep("draw", "wait")
            /\ resetFor' = "fonts"
            /\ ResizingSet(TRUE)
            /\ UNCHANGED <<m_FenceValue, m_Resource, m_FontsUpdated, fenceVars, swapVars, gpu,
                           m_FrameIndex, m_FenceLastSignaledValue>>
       ELSE RenderStep("draw", "frame") /\ UNCHANGED <<resetFor, frameVars>>

\* pre_reset, after wait_for_last_frame
PreReset ==
    /\ RenderStep("release", IF resetFor = "fonts" THEN "take" ELSE "resize")
    /\ IF g_is_enhanced THEN ResourcesReleased ELSE UNCHANGED frameVars
    /\ UNCHANGED <<resetFor, g_running>>

PostReset ==
    /\ RenderStep("take", IF resetFor = "fonts" THEN "frame" ELSE "game")
    /\ resetFor' = "none"
    /\ m_FontsUpdated' = (m_FontsUpdated /\ resetFor # "fonts")
    /\ IF g_is_enhanced
       THEN ResourcesTaken
       ELSE UNCHANGED <<m_FenceValue, m_Resource, m_Resizing, fenceVars, swapVars, gpu,
                        m_FrameIndex, m_FenceLastSignaledValue>>
    /\ UNCHANGED g_running

WaitForNextFrame ==
    /\ RenderStep("frame", "submit")
    /\ NextFrame
    /\ UNCHANGED <<resetFor, g_running>>

SubmitFrame ==
    /\ RenderStep("submit", "present")
    /\ Submit
    /\ UNCHANGED <<resetFor, g_running>>

PresentOriginal ==
    /\ RenderStep("present", "game")
    /\ Shown
    /\ UNCHANGED <<resetFor, g_running>>

TestOriginal ==
    /\ RenderStep("test", "game")
    /\ UNCHANGED <<resetFor, g_running, frameVars>>

\* The game resizes when the GPU has nothing left to do.
EnterResizeBuffers ==
    /\ detours = "enabled"
    /\ gpu = <<>>
    /\ IF g_running
       THEN /\ RenderStep("game", IF g_is_enhanced THEN "wait" ELSE "release")
            /\ resetFor' = "resize"
            /\ ResizingSet(g_is_enhanced)
       ELSE RenderStep("game", "resize") /\ UNCHANGED <<resetFor, m_Resizing>>
    /\ UNCHANGED <<g_running, m_FenceValue, m_Resource, m_FontsUpdated, fenceVars, swapVars, gpu,
                   m_FrameIndex, m_FenceLastSignaledValue>>

ResizeOriginal ==
    /\ RenderStep("resize", IF resetFor = "resize" THEN "take" ELSE "game")
    /\ Resized
    /\ UNCHANGED <<resetFor, g_running>>

RenderNext ==
    \/ PresentUnhooked
    \/ \E test \in BOOLEAN : EnterPresent(test)
    \/ Draw
    \/ PreReset
    \/ PostReset
    \/ WaitForNextFrame
    \/ SubmitFrame
    \/ PresentOriginal
    \/ TestOriginal
    \/ EnterResizeBuffers
    \/ ResizeOriginal

------------------------------------------------------------------------------
(* wait_for_last_frame, on the render thread (pre_reset) or the main thread   *)
(* (~renderer_dx12)                                                           *)

WaitingStep(t, from, to) ==
    /\ Alive
    /\ pc[t] = from
    /\ Go(t, to)
    /\ UNCHANGED <<resetFor, fixedVars, g_running, rendererVars, mainVars, m_is_open, caught>>

AfterWait(t) == IF t = Main THEN "shutdown" ELSE "release"

WaitForLastFrame(t) ==
    IF MustWait
    THEN WaitingStep(t, "wait", "event") /\ RegisterLastFrame
    ELSE WaitingStep(t, "wait", AfterWait(t)) /\ UNCHANGED frameVars

AwaitEvent(t) ==
    /\ WaitingStep(t, "event", AfterWait(t))
    /\ EventConsumed

------------------------------------------------------------------------------
(* The window's thread *)

WindowStep(from, to) ==
    /\ Alive
    /\ pc[Window] = from
    /\ Go(Window, to)
    /\ UNCHANGED <<resetFor, fixedVars, g_running, rendererVars, mainVars, caught, frameVars>>

\* hooks::wndproc gets a message: the hotkey's WM_KEYUP, or another.
Message(kind) ==
    /\ wndproc = "ours"
    /\ WindowStep("game", IF g_running THEN kind ELSE "call")
    /\ UNCHANGED m_is_open

OtherMessage ==
    /\ WindowStep("message", "call")
    /\ UNCHANGED m_is_open

\* gui::wndproc and toggle; where the cursor is put is left out.
MenuToggle ==
    /\ WindowStep("key", "call")
    /\ m_is_open' = ~m_is_open

\* CallWindowProcW with m_og_wndproc
CallOriginal ==
    /\ WindowStep("call", "game")
    /\ UNCHANGED m_is_open

WindowWork == MenuToggle \/ OtherMessage \/ CallOriginal

WindowNext ==
    \/ \E kind \in {"key", "message"} : Message(kind)
    \/ WindowWork

------------------------------------------------------------------------------
(* The main thread: start *)

MainStep(from, to) ==
    /\ Alive
    /\ pc[Main] = from
    /\ Go(Main, to)
    /\ UNCHANGED <<resetFor, fixedVars, g_running, m_is_open>>

\* ~thread_pool, with the pool's threads still running, ends the process.
Terminated == "terminated"

\* renderer_dx12 or renderer_dx11.  The fonts are new unless msyh is missing.
CreateRenderer ==
    /\ MainStep("renderer", "gui")
    /\ g_renderer' = TRUE
    /\ m_FontsUpdated' \in IF g_is_enhanced THEN BOOLEAN ELSE {FALSE}
    /\ UNCHANGED <<m_SafeToRender, g_gui, mainVars, caught, m_FenceValue, m_Resource, m_Resizing,
                   fenceVars, swapVars, gpu, m_FrameIndex, m_FenceLastSignaledValue>>

\* renderer_dx12 logs a warning and returns; renderer_dx11 throws.
RendererGivesUp ==
    /\ MainStep("renderer", IF g_is_enhanced THEN "gui" ELSE Terminated)
    /\ failed' = ~g_is_enhanced
    /\ UNCHANGED <<rendererVars, g_hooking, detours, wndproc, m_og_wndproc, caught, frameVars>>

CreateGui ==
    /\ MainStep("gui", "hooking")
    /\ g_gui' = TRUE
    /\ m_SafeToRender' = g_is_enhanced
    /\ UNCHANGED <<g_renderer, mainVars, caught, frameVars>>

CreateHooking ==
    /\ MainStep("hooking", "install")
    /\ detours' = "created"
    /\ g_hooking' = TRUE
    /\ UNCHANGED <<rendererVars, wndproc, m_og_wndproc, failed, caught, frameVars>>

\* MH_CreateHook fails in hooking's constructor.
CreateHookingThrows ==
    /\ MainStep("hooking", "unwindGui")
    /\ failed' = TRUE
    /\ UNCHANGED <<rendererVars, g_hooking, detours, wndproc, m_og_wndproc, caught, frameVars>>

\* enable: SetWindowLongPtrW, and its result stored
InstallWndproc ==
    /\ MainStep("install", "store")
    /\ wndproc' = "ours"
    /\ UNCHANGED <<rendererVars, g_hooking, detours, m_og_wndproc, failed, caught, frameVars>>

StoreWndproc ==
    /\ MainStep("store", "detours")
    /\ m_og_wndproc' = TRUE
    /\ UNCHANGED <<rendererVars, g_hooking, detours, wndproc, failed, caught, frameVars>>

EnableDetours ==
    /\ MainStep("detours", "running")
    /\ detours' = "enabled"
    /\ UNCHANGED <<rendererVars, g_hooking, wndproc, m_og_wndproc, failed, caught, frameVars>>

\* MH_QueueEnableHook fails: m_enabled stays false, so ~hooking disables nothing.
EnableThrows ==
    /\ MainStep("detours", "unwindHooking")
    /\ failed' = TRUE
    /\ UNCHANGED <<rendererVars, g_hooking, detours, wndproc, m_og_wndproc, caught, frameVars>>

------------------------------------------------------------------------------
(* The main thread: unloading, and the unwinding of a start that failed *)

\* Something is taken away that the hooks of these threads use: those in one now
\* may be about to.
TakeAway(threads) == caught' = caught \cup {t \in threads : pc[t] # "game"}

\* Mutation: the window keeps our procedure.
LeaveWndproc ==
    /\ ~g_running
    /\ MainStep("running", "apply")
    /\ UNCHANGED <<rendererVars, g_hooking, detours, wndproc, m_og_wndproc, failed, caught, frameVars>>

\* disable
RestoreWndproc ==
    /\ ~g_running
    /\ MainStep("running", "apply")
    /\ wndproc' = "game"
    /\ UNCHANGED <<rendererVars, g_hooking, detours, m_og_wndproc, failed, caught, frameVars>>

ApplyQueued ==
    /\ MainStep("apply", "delete")
    /\ detours' = "disabled"
    /\ UNCHANGED <<rendererVars, g_hooking, wndproc, m_og_wndproc, failed, caught, frameVars>>

DeleteDetours ==
    /\ MainStep("delete", "reset")
    /\ detours' = "deleted"
    /\ TakeAway({Render})
    /\ UNCHANGED <<rendererVars, g_hooking, wndproc, m_og_wndproc, failed, frameVars>>

ResetHooking ==
    /\ \/ MainStep("reset", "renderer_reset")
       \/ MainStep("unwindHooking", "unwindGui")
    /\ g_hooking' = FALSE
    /\ TakeAway({Window})
    /\ UNCHANGED <<rendererVars, detours, wndproc, m_og_wndproc, failed, frameVars>>

\* ~gui, last in unloading and first when an exception unwinds
DestroyGui ==
    /\ \/ MainStep("exit", "unloaded")
       \/ MainStep("unwindGui", "renderer_reset")
    /\ g_gui' = FALSE
    /\ TakeAway({Window})
    /\ UNCHANGED <<g_renderer, m_SafeToRender, mainVars, frameVars>>

\* ~renderer_dx12 and ~renderer_dx11 set g_renderer to null, then shut ImGui down.
ResetRenderer ==
    /\ MainStep("renderer_reset", IF g_is_enhanced THEN "wait" ELSE "context")
    /\ g_renderer' = FALSE
    /\ TakeAway({Render, Window})
    /\ UNCHANGED <<m_SafeToRender, g_gui, mainVars, frameVars>>

\* ImGui_ImplDX12_Shutdown
ShutdownBackend ==
    /\ MainStep("shutdown", "context")
    /\ UNCHANGED <<rendererVars, mainVars, caught, frameVars>>

DestroyContext ==
    /\ MainStep("context", IF failed THEN Terminated ELSE "exit")
    /\ UNCHANGED <<rendererVars, mainVars, caught, frameVars>>

MainWork ==
    \/ CreateRenderer \/ RendererGivesUp
    \/ CreateGui
    \/ CreateHooking \/ CreateHookingThrows
    \/ InstallWndproc
    \/ StoreWndproc
    \/ EnableDetours \/ EnableThrows
    \/ RestoreWndproc
    \/ ApplyQueued
    \/ DeleteDetours
    \/ ResetHooking
    \/ DestroyGui
    \/ ResetRenderer
    \/ ShutdownBackend
    \/ DestroyContext

------------------------------------------------------------------------------
\* The GPU executes on.
GpuNext ==
    /\ Alive
    /\ Execute
    /\ UNCHANGED <<pc, resetFor, fixedVars, g_running, rendererVars, mainVars, m_is_open, caught>>

Next ==
    \/ RenderNext
    \/ WindowNext
    \/ MainWork
    \/ \E t \in {Main, Render} : WaitForLastFrame(t) \/ AwaitEvent(t)
    \/ GpuNext

\* The main thread and the GPU run on.  Nothing is assumed of the game's threads.
Fairness ==
    /\ WF_vars(MainWork \/ WaitForLastFrame(Main) \/ AwaitEvent(Main))
    /\ WF_vars(GpuNext)

Spec == Init /\ [][Next]_vars /\ Fairness

------------------------------------------------------------------------------
(* Properties *)

\* Who uses what is not there, and only then:
\*  - gui's constructor, when renderer_dx12's has returned early, and ImGui's
\*    backend, which is shut down after g_renderer was set to null;
\*  - the render thread, when the game has asked ResizeBuffers for more buffers
\*    than there are contexts, or for fewer, or when the renderer, or the detour
\*    it is in, was taken away around it;
\*  - the window's thread, when something was taken away around it, by a message
\*    that comes before m_og_wndproc is stored, or when a start that failed
\*    half-way has left our procedure installed.
\* Every other call of a hook finds the renderer, the GUI, the resources and the
\* originals: a call that begins after the hooks were disabled, or before all is
\* made, does not exist, and one that ends before something is taken away, or that
\* the failed start or the resize does not concern, is not affected.
KnownDangling ==
    /\ MainDangles =>
        \/ pc[Main] = "gui" /\ g_is_enhanced
        \/ pc[Main] = "shutdown" /\ g_is_enhanced
    /\ RenderDangles =>
        \/ pc[Render] = "submit" /\ buffers > BufferCount
        \/ pc[Render] = "release" /\ buffers < BufferCount
        \/ Render \in caught
    /\ WindowDangles =>
        \/ Window \in caught
        \/ pc[Window] = "call" /\ pc[Main] = "store"
        \/ failed /\ wndproc = "ours"

\* end_frame resets a command allocator whose list the GPU has still to execute only
\* if the GPU is a whole round of back buffers behind, although the frame that
\* wait_for_next_frame looks at is another one and it waits for nothing.  pre_reset
\* gives the back buffers up when none of our lists is queued: fonts are uploaded
\* before the first frame, and before a resize the game has emptied the queue.
IdleUnlessBehind ==
    /\ pc[Render] = "submit" /\ InUse(back_buffer) => Queued >= buffers
    /\ pc[Render] = "release" => ~Busy

\* Once g_running is false the main thread gets to the end of the unloading, or the
\* process dies on the way, of one of the uses of KnownDangling (in a hook, or at
\* ImGui's shutdown): in no case does the destructor wait for the fence's event for
\* ever.
UnloadEnds ==
    (pc[Main] = "running" /\ ~g_running) ~> (pc[Main] = "unloaded" \/ Dangling)
==============================================================================
