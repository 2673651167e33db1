----------------------------- MODULE OverlayProofs -----------------------------
(***************************************************************************)
(* Proofs about Overlay, for any numbers of buffers and however far the    *)
(* GPU falls behind: which threads alone use what is not there, and when   *)
(* alone the renderer resets an allocator that is in use.                  *)
(*                                                                         *)
(* IInv is the inductive invariant: what exists while the main thread is   *)
(* where, when the game's threads can be in a hook, when the GPU's queue   *)
(* is empty or without our lists, and which back buffer each list in it    *)
(* was recorded for.                                                       *)
(***************************************************************************)
EXTENDS Overlay, TLAPS, FiniteSetTheorems

------------------------------------------------------------------------------
(* The Presents in a queue *)

Items == Lists \cup {Present}

\* Those behind the i-th item of a queue, and how many they are.
Behind(s, i) == {k \in i + 1 .. Len(s) : s[k] = Present}
Count(s, i) == Cardinality(Behind(s, i))

(* They are finitely many, and the fewer the farther behind one looks. *)
LEMMA CountType ==
    ASSUME NEW s \in Seq(Items), NEW i \in Nat
    PROVE  /\ IsFiniteSet(Behind(s, i))
           /\ Count(s, i) \in Nat
           /\ \A k \in Nat : k <= i => Count(s, i) <= Count(s, k)
  <1>1. ASSUME NEW k \in Nat PROVE IsFiniteSet(Behind(s, k))
    <2>1. IsFiniteSet(k + 1 .. Len(s))
      BY FS_Interval
    <2>2. Behind(s, k) \in SUBSET (k + 1 .. Len(s))
      BY DEF Behind
    <2> QED
      BY <2>1, <2>2, FS_Subset
  <1>2. ASSUME NEW k \in Nat, k <= i PROVE Count(s, i) <= Count(s, k)
    <2>1. Behind(s, i) \in SUBSET Behind(s, k)
      BY <1>2 DEF Behind
    <2> QED
      BY <1>1, <2>1, FS_Subset DEF Count
  <1> QED
    BY <1>1, <1>2, FS_CardinalityType DEF Count

(* What is put into the queue counts behind all that is in it. *)
LEMMA CountAppend ==
    ASSUME NEW s \in Seq(Items), NEW x \in Items, NEW i \in 0 .. Len(s)
    PROVE  Count(Append(s, x), i) = IF x = Present THEN Count(s, i) + 1 ELSE Count(s, i)
  <1> DEFINE t == Append(s, x)
  <1>1. /\ Len(t) = Len(s) + 1
        /\ \A k \in 1 .. Len(s) : t[k] = s[k]
        /\ t[Len(s) + 1] = x
        /\ Len(s) \in Nat
    OBVIOUS
  <1> HIDE DEF t
  <1>2. IsFiniteSet(Behind(s, i)) /\ Count(s, i) \in Nat
    BY CountType
  <1>3. CASE x = Present
    <2>1. Behind(t, i) = Behind(s, i) \cup {Len(s) + 1}
      BY <1>1, <1>3 DEF Behind
    <2>2. Len(s) + 1 \notin Behind(s, i)
      BY <1>1 DEF Behind
    <2> QED
      BY <1>2, <1>3, <2>1, <2>2, FS_AddElement DEF Count, t
  <1>4. CASE x # Present
    <2>1. Behind(t, i) = Behind(s, i)
      BY <1>1, <1>4 DEF Behind
    <2> QED
      BY <1>4, <2>1 DEF Count, t
  <1> QED
    BY <1>3, <1>4

(* Taking an item from the front moves the others on and changes no count. *)
LEMMA CountTail ==
    ASSUME NEW s \in Seq(Items), s # <<>>, NEW i \in 0 .. Len(s) - 1
    PROVE  Count(Tail(s), i) = Count(s, i + 1)
  <1> DEFINE t == Tail(s)
             f == [k \in Behind(t, i) |-> k + 1]
  <1>1. /\ Len(t) = Len(s) - 1
        /\ \A k \in 1 .. Len(s) - 1 : t[k] = s[k + 1]
        /\ t \in Seq(Items)
        /\ Len(s) \in Nat
    OBVIOUS
  <1> HIDE DEF t
  <1>2. f \in Bijection(Behind(t, i), Behind(s, i + 1))
    <2>1. \A k \in Behind(t, i) : k \in Int /\ k + 1 \in Behind(s, i + 1)
      BY <1>1 DEF Behind
    <2>2. \A k \in Behind(s, i + 1) : k - 1 \in Behind(t, i) /\ (k - 1) + 1 = k
      BY <1>1 DEF Behind
    <2>3. f \in [Behind(t, i) -> Behind(s, i + 1)]
      BY <2>1
    <2>4. \A a, b \in Behind(t, i) : f[a] = f[b] => a = b
      BY <2>1
    <2>5. \A k \in Behind(s, i + 1) : \E a \in Behind(t, i) : f[a] = k
      BY <2>2
    <2> QED
      BY <2>3, <2>4, <2>5 DEF Bijection, Injection, Surjection, IsInjective
  <1>3. IsFiniteSet(Behind(t, i))
    BY <1>1, CountType
  <1> HIDE DEF f
  <1> QED
    BY <1>2, <1>3, FS_Bijection DEF ExistsBijection, Count, t

------------------------------------------------------------------------------
(* Where the threads are *)

\* Until the detours are enabled, and after they are deleted, the game's render
\* thread cannot come into a hook; until the window's procedure is ours, and
\* after its restoring, its window's thread cannot.
Starting == {"renderer", "gui", "hooking", "install", "store", "detours"}
Unwinding == {"unwindHooking", "unwindGui"}
Unhooked == {"reset", "renderer_reset", "wait", "event", "shutdown", "context", "exit",
             "unloaded", "terminated"}

\* What exists while the main thread is where.
Phases ==
    /\ pc[Main] \in {"renderer", "gui", "hooking"} =>
        detours = "none" /\ wndproc = "game" /\ ~m_og_wndproc
    /\ pc[Main] \in {"install", "store", "detours", "running", "apply", "delete", "reset"} =>
        g_hooking
    /\ pc[Main] \in {"hooking", "install", "store", "detours", "running", "apply", "delete",
                     "reset", "unwindHooking", "unwindGui"} => g_renderer
    /\ pc[Main] = "gui" /\ ~g_is_enhanced => g_renderer
    /\ pc[Main] \in {"hooking", "install", "store", "detours", "running", "apply", "delete",
                     "reset", "unwindHooking", "unwindGui"} => g_gui
    /\ pc[Main] \in {"install", "store", "detours"} => detours = "created"
    /\ pc[Main] \in {"running", "apply"} => detours = "enabled"
    /\ pc[Main] = "delete" => detours = "disabled"
    /\ pc[Main] \in Starting => ~failed
    /\ pc[Main] = "install" => wndproc = "game"
    /\ pc[Main] \in {"store", "detours", "running"} => wndproc = "ours"
    /\ pc[Main] \in {"detours", "running", "apply", "delete", "reset"} => m_og_wndproc
    /\ pc[Main] \in {"running", "apply", "delete", "reset"} => ~failed
    /\ detours = "enabled" => pc[Main] \in {"running", "apply"}
    /\ detours = "deleted" => pc[Main] \in Unhooked
    /\ wndproc = "ours" => failed \/ pc[Main] \in {"store", "detours", "running"}
    /\ pc[Main] \in {"wait", "event", "shutdown"} => g_is_enhanced

\* A thread around which nothing was taken away is in a hook only as long as what
\* the hook needs is there.
Inside ==
    /\ pc[Render] # "game" /\ Render \notin caught => pc[Main] \in {"running", "apply", "delete"}
    /\ pc[Main] \in Starting \cup Unwinding => pc[Render] = "game"
    /\ pc[Window] # "game" /\ Window \notin caught =>
        \/ pc[Main] \in {"store", "detours", "running", "apply", "delete", "reset"}
        \/ failed /\ wndproc = "ours"

Resetting == {"wait", "event", "release", "take"}

\* The back buffers are those of the swap chain, but for a reset under way and
\* for a resize after g_running was set to false.
Buffers ==
    /\ pc[Render] \in Resetting => resetFor # "none"
    /\ pc[Render] \in {"game", "draw", "frame", "submit", "present", "test"} => resetFor = "none"
    /\ pc[Render] \in {"frame", "submit"} \/ resetFor = "fonts" => g_is_enhanced
    /\ pc[Render] = "resize" /\ resetFor = "none" => ~g_running
    /\ pc[Render] = "resize" => resetFor # "fonts"
    /\ g_is_enhanced /\ pc[Render] \notin {"resize", "take"}
          /\ (g_running \/ pc[Render] \in {"draw", "wait", "event", "release"}) =>
        \A i \in Contexts : m_Resource[i] = (i < buffers)

------------------------------------------------------------------------------
(* How far the GPU is behind *)

\* No list is in the queue before the first frame, for which there may be fonts
\* to upload.
Fonts ==
    /\ resetFor = "fonts" => m_FontsUpdated
    /\ m_FontsUpdated => ~Busy /\ pc[Render] \notin {"frame", "submit"}
    /\ pc[Main] \in Starting => ~Busy

\* While the game resizes, the queue is empty.
Drained == pc[Render] = "resize" \/ resetFor = "resize" => gpu = <<>>

\* How many Presents there are in the queue behind its i-th item.
PresentsAfter(i) == Count(gpu, i)

\* A list is a whole round of back buffers back, or else its back buffer is as many
\* buffers back as there were Presents since, of which there is one, unless the
\* render thread is about to call the original.
Rotation ==
    \A i \in DOMAIN gpu : gpu[i] # Present =>
        /\ gpu[i].context < buffers
        /\ \/ PresentsAfter(i) >= buffers
           \/ back_buffer = gpu[i].context + PresentsAfter(i)
           \/ back_buffer = gpu[i].context + PresentsAfter(i) - buffers
        /\ pc[Render] # "present" => PresentsAfter(i) # 0

\* The values that the queue still signals have been handed out.
Signals == \A i \in DOMAIN gpu : gpu[i].value <= m_FenceLastSignaledValue

IInv == TypeOK /\ Phases /\ Inside /\ Buffers /\ Fonts /\ Drained /\ Rotation /\ Signals

------------------------------------------------------------------------------
(* The steps *)

(* Every step keeps what exists while the main thread is where. *)
LEMMA PhasesStep ==
    ASSUME TypeOK, Phases, [Next]_vars
    PROVE  Phases'
<1> USE OverlayAssumption DEF TypeOK, Phases, Threads, Starting, Unhooked
<1>1. CASE RenderNext
  <2>1. CASE PresentUnhooked
    BY <2>1
    DEF PresentUnhooked, GamePresents, Shown, mainVars, rendererVars, fixedVars, vars,
        frameVars, contextVars, fenceVars, swapVars
  <2>2. ASSUME NEW test \in BOOLEAN, EnterPresent(test) PROVE Phases'
    BY <2>2
    DEF EnterPresent, RenderStep, GamePresents, frameVars, contextVars, fenceVars,
        swapVars, Go, mainVars, rendererVars, fixedVars, vars
  <2>3. CASE Draw
    BY <2>3
    DEF Draw, RenderStep, ResizingSet, frameVars, fenceVars, swapVars, contextVars, Go,
        mainVars, rendererVars, fixedVars, vars
  <2>4. CASE PreReset
    BY <2>4
    DEF PreReset, RenderStep, ResourcesReleased, frameVars, contextVars, fenceVars,
        swapVars, Go, mainVars, rendererVars, fixedVars, vars
  <2>5. CASE PostReset
    BY <2>5
    DEF PostReset, RenderStep, ResourcesTaken, fenceVars, swapVars, frameVars,
        contextVars, ResizingSet, Go, mainVars, rendererVars, fixedVars, vars
  <2>6. CASE WaitForNextFrame
    BY <2>6
    DEF WaitForNextFrame, RenderStep, NextFrame, SetEventOnCompletion, contextVars,
        swapVars, frameVars, fenceVars, Go, mainVars, rendererVars, fixedVars, vars
  <2>7. CASE SubmitFrame
    BY <2>7
    DEF SubmitFrame, RenderStep, Submit, fenceVars, swapVars, frameVars, contextVars, Go,
        mainVars, rendererVars, fixedVars, vars
  <2>8. CASE PresentOriginal
    BY <2>8
    DEF PresentOriginal, RenderStep, Shown, contextVars, fenceVars, frameVars, swapVars,
        Go, mainVars, rendererVars, fixedVars, vars
  <2>9. CASE TestOriginal
    BY <2>9
    DEF TestOriginal, RenderStep, frameVars, contextVars, fenceVars, swapVars, Go,
        mainVars, rendererVars, fixedVars, vars
  <2>10. CASE EnterResizeBuffers
    BY <2>10
    DEF EnterResizeBuffers, RenderStep, ResizingSet, fenceVars, swapVars, frameVars,
        contextVars, Go, mainVars, rendererVars, fixedVars, vars
  <2>11. CASE ResizeOriginal
    BY <2>11
    DEF ResizeOriginal, RenderStep, Resized, contextVars, fenceVars, frameVars, swapVars,
        Go, mainVars, rendererVars, fixedVars, vars
  <2> QED
    BY <1>1, <2>1, <2>2, <2>3, <2>4, <2>5, <2>6, <2>7,
       <2>8, <2>9, <2>10, <2>11 DEF RenderNext
<1>2. CASE WindowNext
  <2>1. ASSUME NEW kind \in {"key", "message"}, Message(kind) PROVE Phases'
    BY <2>1
    DEF Message, WindowStep, Go, mainVars, rendererVars, fixedVars, frameVars,
        contextVars, fenceVars, swapVars, vars
  <2>2. CASE MenuToggle
    BY <2>2
    DEF MenuToggle, WindowStep, Go, mainVars, rendererVars, fixedVars, frameVars,
        contextVars, fenceVars, swapVars, vars
  <2>3. CASE OtherMessage
    BY <2>3
    DEF OtherMessage, WindowStep, Go, mainVars, rendererVars, fixedVars, frameVars,
        contextVars, fenceVars, swapVars, vars
  <2>4. CASE CallOriginal
    BY <2>4
    DEF CallOriginal, WindowStep, Go, mainVars, rendererVars, fixedVars, frameVars,
        contextVars, fenceVars, swapVars, vars
  <2> QED
    BY <1>2, <2>1, <2>2, <2>3, <2>4 DEF WindowNext, WindowWork
<1>3. CASE MainWork
  <2>1. CASE CreateRenderer
    BY <2>1
    DEF CreateRenderer, MainStep, mainVars, fenceVars, swapVars, frameVars, contextVars,
        vars, rendererVars, fixedVars, Go
  <2>2. CASE RendererGivesUp
    BY <2>2
    DEF RendererGivesUp, MainStep, Terminated, rendererVars, frameVars, contextVars,
        fenceVars, swapVars, vars, mainVars, fixedVars, Go
  <2>3. CASE CreateGui
    BY <2>3
    DEF CreateGui, MainStep, mainVars, frameVars, contextVars, fenceVars, swapVars, vars,
        rendererVars, fixedVars, Go, Alive, Dangling, MainDangles
  <2>4. CASE CreateHooking
    BY <2>4
    DEF CreateHooking, MainStep, rendererVars, frameVars, contextVars, fenceVars,
        swapVars, vars, mainVars, fixedVars, Go
  <2>5. CASE CreateHookingThrows
    BY <2>5
    DEF CreateHookingThrows, MainStep, rendererVars, frameVars, contextVars, fenceVars,
        swapVars, vars, mainVars, fixedVars, Go
  <2>6. CASE InstallWndproc
    BY <2>6
    DEF InstallWndproc, MainStep, rendererVars, frameVars, contextVars, fenceVars,
        swapVars, vars, mainVars, fixedVars, Go
  <2>7. CASE StoreWndproc
    BY <2>7
    DEF StoreWndproc, MainStep, rendererVars, frameVars, contextVars, fenceVars,
        swapVars, vars, mainVars, fixedVars, Go
  <2>8. CASE EnableDetours
    BY <2>8
    DEF EnableDetours, MainStep, rendererVars, frameVars, contextVars, fenceVars,
        swapVars, vars, mainVars, fixedVars, Go
  <2>9. CASE EnableThrows
    BY <2>9
    DEF EnableThrows, MainStep, rendererVars, frameVars, contextVars, fenceVars,
        swapVars, vars, mainVars, fixedVars, Go
  <2>10. CASE RestoreWndproc
    BY <2>10
    DEF RestoreWndproc, MainStep, rendererVars, frameVars, contextVars, fenceVars,
        swapVars, vars, mainVars, fixedVars, Go
  <2>11. CASE ApplyQueued
    BY <2>11
    DEF ApplyQueued, MainStep, rendererVars, frameVars, contextVars, fenceVars, swapVars,
        vars, mainVars, fixedVars, Go
  <2>12. CASE DeleteDetours
    BY <2>12
    DEF DeleteDetours, MainStep, TakeAway, rendererVars, frameVars, contextVars,
        fenceVars, swapVars, vars, mainVars, fixedVars, Go
  <2>13. CASE ResetHooking
    BY <2>13
    DEF ResetHooking, MainStep, TakeAway, rendererVars, frameVars, contextVars,
        fenceVars, swapVars, vars, mainVars, fixedVars, Go
  <2>14. CASE DestroyGui
    BY <2>14
    DEF DestroyGui, MainStep, TakeAway, mainVars, frameVars, contextVars, fenceVars,
        swapVars, vars, rendererVars, fixedVars, Go
  <2>15. CASE ResetRenderer
    BY <2>15
    DEF ResetRenderer, MainStep, TakeAway, mainVars, frameVars, contextVars, fenceVars,
        swapVars, vars, rendererVars, fixedVars, Go
  <2>16. CASE ShutdownBackend
    BY <2>16
    DEF ShutdownBackend, MainStep, mainVars, rendererVars, frameVars, contextVars,
        fenceVars, swapVars, vars, fixedVars, Go
  <2>17. CASE DestroyContext
    BY <2>17
    DEF DestroyContext, MainStep, Terminated, mainVars, rendererVars, frameVars,
        contextVars, fenceVars, swapVars, vars, fixedVars, Go
  <2> QED
    BY <1>3, <2>1, <2>2, <2>3, <2>4, <2>5, <2>6, <2>7, <2>8, <2>9, <2>10,
       <2>11, <2>12, <2>13, <2>14, <2>15, <2>16, <2>17 DEF MainWork
<1>4. ASSUME NEW t \in {Main, Render}, WaitForLastFrame(t) \/ AwaitEvent(t) PROVE Phases'
  <2>1. CASE WaitForLastFrame(t)
    BY <2>1
    DEF WaitForLastFrame, WaitingStep, MustWait, AfterWait, RegisterLastFrame, frameVars,
        contextVars, fenceVars, swapVars, SetEventOnCompletion, last_frame, Go, mainVars,
        rendererVars, fixedVars, vars
  <2>2. CASE AwaitEvent(t)
    BY <2>2
    DEF AwaitEvent, WaitingStep, AfterWait, EventConsumed, contextVars, swapVars,
        frameVars, fenceVars, Go, mainVars, rendererVars, fixedVars, vars
  <2> QED
    BY <1>4, <2>1, <2>2
<1>5. CASE GpuNext
  BY <1>5
  DEF GpuNext, Execute, mainVars, rendererVars, fixedVars, vars, frameVars, contextVars,
      fenceVars, swapVars
<1>6. CASE UNCHANGED vars
  BY <1>6
  DEF vars, mainVars, rendererVars, fixedVars, frameVars, contextVars, fenceVars,
      swapVars
<1> QED
  BY <1>1, <1>2, <1>3, <1>4, <1>5, <1>6 DEF Next

(* Every step keeps the game's threads out of the hooks that have been taken down. *)
LEMMA InsideStep ==
    ASSUME TypeOK, Phases, Inside, [Next]_vars
    PROVE  Inside'
<1> USE OverlayAssumption DEF TypeOK, Inside, Threads, Starting, Unwinding, Phases
<1>1. CASE RenderNext
  <2>1. CASE PresentUnhooked
    BY <2>1
    DEF PresentUnhooked, GamePresents, Shown, mainVars, rendererVars, fixedVars, vars,
        frameVars, contextVars, fenceVars, swapVars
  <2>2. ASSUME NEW test \in BOOLEAN, EnterPresent(test) PROVE Inside'
    BY <2>2
    DEF EnterPresent, RenderStep, GamePresents, frameVars, contextVars, fenceVars,
        swapVars, Go, mainVars, rendererVars, fixedVars, vars
  <2>3. CASE Draw
    BY <2>3
    DEF Draw, RenderStep, ResizingSet, frameVars, fenceVars, swapVars, contextVars, Go,
        mainVars, rendererVars, fixedVars, vars
  <2>4. CASE PreReset
    BY <2>4
    DEF PreReset, RenderStep, ResourcesReleased, frameVars, contextVars, fenceVars,
        swapVars, Go, mainVars, rendererVars, fixedVars, vars
  <2>5. CASE PostReset
    BY <2>5
    DEF PostReset, RenderStep, ResourcesTaken, fenceVars, swapVars, frameVars,
        contextVars, ResizingSet, Go, mainVars, rendererVars, fixedVars, vars
  <2>6. CASE WaitForNextFrame
    BY <2>6
    DEF WaitForNextFrame, RenderStep, NextFrame, SetEventOnCompletion, contextVars,
        swapVars, frameVars, fenceVars, Go, mainVars, rendererVars, fixedVars, vars
  <2>7. CASE SubmitFrame
    BY <2>7
    DEF SubmitFrame, RenderStep, Submit, fenceVars, swapVars, frameVars, contextVars, Go,
        mainVars, rendererVars, fixedVars, vars
  <2>8. CASE PresentOriginal
    BY <2>8
    DEF PresentOriginal, RenderStep, Shown, contextVars, fenceVars, frameVars, swapVars,
        Go, mainVars, rendererVars, fixedVars, vars
  <2>9. CASE TestOriginal
    BY <2>9
    DEF TestOriginal, RenderStep, frameVars, contextVars, fenceVars, swapVars, Go,
        mainVars, rendererVars, fixedVars, vars
  <2>10. CASE EnterResizeBuffers
    BY <2>10
    DEF EnterResizeBuffers, RenderStep, ResizingSet, fenceVars, swapVars, frameVars,
        contextVars, Go, mainVars, rendererVars, fixedVars, vars
  <2>11. CASE ResizeOriginal
    BY <2>11
    DEF ResizeOriginal, RenderStep, Resized, contextVars, fenceVars, frameVars, swapVars,
        Go, mainVars, rendererVars, fixedVars, vars
  <2> QED
    BY <1>1, <2>1, <2>2, <2>3, <2>4, <2>5, <2>6, <2>7,
       <2>8, <2>9, <2>10, <2>11 DEF RenderNext
<1>2. CASE WindowNext
  <2>1. ASSUME NEW kind \in {"key", "message"}, Message(kind) PROVE Inside'
    BY <2>1
    DEF Message, WindowStep, Go, mainVars, rendererVars, fixedVars, frameVars,
        contextVars, fenceVars, swapVars, vars
  <2>2. CASE MenuToggle
    BY <2>2
    DEF MenuToggle, WindowStep, Go, mainVars, rendererVars, fixedVars, frameVars,
        contextVars, fenceVars, swapVars, vars
  <2>3. CASE OtherMessage
    BY <2>3
    DEF OtherMessage, WindowStep, Go, mainVars, rendererVars, fixedVars, frameVars,
        contextVars, fenceVars, swapVars, vars
  <2>4. CASE CallOriginal
    BY <2>4
    DEF CallOriginal, WindowStep, Go, mainVars, rendererVars, fixedVars, frameVars,
        contextVars, fenceVars, swapVars, vars
  <2> QED
    BY <1>2, <2>1, <2>2, <2>3, <2>4 DEF WindowNext, WindowWork
<1>3. CASE MainWork
  <2>1. CASE CreateRenderer
    BY <2>1
    DEF CreateRenderer, MainStep, mainVars, fenceVars, swapVars, frameVars, contextVars,
        vars, rendererVars, fixedVars, Go
  <2>2. CASE RendererGivesUp
    BY <2>2
    DEF RendererGivesUp, MainStep, Terminated, rendererVars, frameVars, contextVars,
        fenceVars, swapVars, vars, mainVars, fixedVars, Go
  <2>3. CASE CreateGui
    BY <2>3
    DEF CreateGui, MainStep, mainVars, frameVars, contextVars, fenceVars, swapVars, vars,
        rendererVars, fixedVars, Go
  <2>4. CASE CreateHooking
    BY <2>4
    DEF CreateHooking, MainStep, rendererVars, frameVars, contextVars, fenceVars,
        swapVars, vars, mainVars, fixedVars, Go
  <2>5. CASE CreateHookingThrows
    BY <2>5
    DEF CreateHookingThrows, MainStep, rendererVars, frameVars, contextVars, fenceVars,
        swapVars, vars, mainVars, fixedVars, Go
  <2>6. CASE InstallWndproc
    BY <2>6
    DEF InstallWndproc, MainStep, rendererVars, frameVars, contextVars, fenceVars,
        swapVars, vars, mainVars, fixedVars, Go
  <2>7. CASE StoreWndproc
    BY <2>7
    DEF StoreWndproc, MainStep, rendererVars, frameVars, contextVars, fenceVars,
        swapVars, vars, mainVars, fixedVars, Go
  <2>8. CASE EnableDetours
    BY <2>8
    DEF EnableDetours, MainStep, rendererVars, frameVars, contextVars, fenceVars,
        swapVars, vars, mainVars, fixedVars, Go
  <2>9. CASE EnableThrows
    BY <2>9
    DEF EnableThrows, MainStep, rendererVars, frameVars, contextVars, fenceVars,
        swapVars, vars, mainVars, fixedVars, Go
  <2>10. CASE RestoreWndproc
    BY <2>10
    DEF RestoreWndproc, MainStep, rendererVars, frameVars, contextVars, fenceVars,
        swapVars, vars, mainVars, fixedVars, Go
  <2>11. CASE ApplyQueued
    BY <2>11
    DEF ApplyQueued, MainStep, rendererVars, frameVars, contextVars, fenceVars, swapVars,
        vars, mainVars, fixedVars, Go
  <2>12. CASE DeleteDetours
    BY <2>12
    DEF DeleteDetours, MainStep, TakeAway, rendererVars, frameVars, contextVars,
        fenceVars, swapVars, vars, mainVars, fixedVars, Go
  <2>13. CASE ResetHooking
    BY <2>13
    DEF ResetHooking, MainStep, TakeAway, rendererVars, frameVars, contextVars,
        fenceVars, swapVars, vars, mainVars, fixedVars, Go
  <2>14. CASE DestroyGui
    BY <2>14
    DEF DestroyGui, MainStep, TakeAway, mainVars, frameVars, contextVars, fenceVars,
        swapVars, vars, rendererVars, fixedVars, Go
  <2>15. CASE ResetRenderer
    BY <2>15
    DEF ResetRenderer, MainStep, TakeAway, mainVars, frameVars, contextVars, fenceVars,
        swapVars, vars, rendererVars, fixedVars, Go
  <2>16. CASE ShutdownBackend
    BY <2>16
    DEF ShutdownBackend, MainStep, mainVars, rendererVars, frameVars, contextVars,
        fenceVars, swapVars, vars, fixedVars, Go
  <2>17. CASE DestroyContext
    BY <2>17
    DEF DestroyContext, MainStep, Terminated, mainVars, rendererVars, frameVars,
        contextVars, fenceVars, swapVars, vars, fixedVars, Go
  <2> QED
    BY <1>3, <2>1, <2>2, <2>3, <2>4, <2>5, <2>6, <2>7, <2>8, <2>9, <2>10,
       <2>11, <2>12, <2>13, <2>14, <2>15, <2>16, <2>17 DEF MainWork
<1>4. ASSUME NEW t \in {Main, Render}, WaitForLastFrame(t) \/ AwaitEvent(t) PROVE Inside'
  <2>1. CASE WaitForLastFrame(t)
    BY <2>1
    DEF WaitForLastFrame, WaitingStep, MustWait, AfterWait, RegisterLastFrame, frameVars,
        contextVars, fenceVars, swapVars, SetEventOnCompletion, last_frame, Go, mainVars,
        rendererVars, fixedVars, vars
  <2>2. CASE AwaitEvent(t)
    BY <2>2
    DEF AwaitEvent, WaitingStep, AfterWait, EventConsumed, contextVars, swapVars,
        frameVars, fenceVars, Go, mainVars, rendererVars, fixedVars, vars
  <2> QED
    BY <1>4, <2>1, <2>2
<1>5. CASE GpuNext
  BY <1>5
  DEF GpuNext, Execute, mainVars, rendererVars, fixedVars, vars, frameVars, contextVars,
      fenceVars, swapVars
<1>6. CASE UNCHANGED vars
  BY <1>6
  DEF vars, mainVars, rendererVars, fixedVars, frameVars, contextVars, fenceVars,
      swapVars
<1> QED
  BY <1>1, <1>2, <1>3, <1>4, <1>5, <1>6 DEF Next

(* Every step keeps the renderer's back buffers those of the swap chain. *)
LEMMA BuffersStep ==
    ASSUME TypeOK, Buffers, [Next]_vars
    PROVE  Buffers'
<1> USE OverlayAssumption DEF TypeOK, Buffers, Threads, Resetting
<1>1. CASE RenderNext
  <2>1. CASE PresentUnhooked
    BY <2>1
    DEF PresentUnhooked, GamePresents, Shown, mainVars, rendererVars, fixedVars, vars,
        frameVars, contextVars, fenceVars, swapVars
  <2>2. ASSUME NEW test \in BOOLEAN, EnterPresent(test) PROVE Buffers'
    BY <2>2
    DEF EnterPresent, RenderStep, GamePresents, frameVars, contextVars, fenceVars,
        swapVars, Go, mainVars, rendererVars, fixedVars, vars
  <2>3. CASE Draw
    BY <2>3
    DEF Draw, RenderStep, ResizingSet, frameVars, fenceVars, swapVars, contextVars, Go,
        mainVars, rendererVars, fixedVars, vars
  <2>4. CASE PreReset
    BY <2>4
    DEF PreReset, RenderStep, ResourcesReleased, frameVars, contextVars, fenceVars,
        swapVars, Go, mainVars, rendererVars, fixedVars, vars
  <2>5. CASE PostReset
    BY <2>5
    DEF PostReset, RenderStep, ResourcesTaken, fenceVars, swapVars, frameVars,
        contextVars, ResizingSet, Go, mainVars, rendererVars, fixedVars, vars
  <2>6. CASE WaitForNextFrame
    BY <2>6
    DEF WaitForNextFrame, RenderStep, NextFrame, SetEventOnCompletion, contextVars,
        swapVars, frameVars, fenceVars, Go, mainVars, rendererVars, fixedVars, vars
  <2>7. CASE SubmitFrame
    BY <2>7
    DEF SubmitFrame, RenderStep, Submit, fenceVars, swapVars, frameVars, contextVars, Go,
        mainVars, rendererVars, fixedVars, vars
  <2>8. CASE PresentOriginal
    BY <2>8
    DEF PresentOriginal, RenderStep, Shown, contextVars, fenceVars, frameVars, swapVars,
        Go, mainVars, rendererVars, fixedVars, vars
  <2>9. CASE TestOriginal
    BY <2>9
    DEF TestOriginal, RenderStep, frameVars, contextVars, fenceVars, swapVars, Go,
        mainVars, rendererVars, fixedVars, vars
  <2>10. CASE EnterResizeBuffers
    BY <2>10
    DEF EnterResizeBuffers, RenderStep, ResizingSet, fenceVars, swapVars, frameVars,
        contextVars, Go, mainVars, rendererVars, fixedVars, vars
  <2>11. CASE ResizeOriginal
    BY <2>11
    DEF ResizeOriginal, RenderStep, Resized, contextVars, fenceVars, frameVars, swapVars,
        Go, mainVars, rendererVars, fixedVars, vars
  <2> QED
    BY <1>1, <2>1, <2>2, <2>3, <2>4, <2>5, <2>6, <2>7,
       <2>8, <2>9, <2>10, <2>11 DEF RenderNext
<1>2. CASE WindowNext
  <2>1. ASSUME NEW kind \in {"key", "message"}, Message(kind) PROVE Buffers'
    BY <2>1
    DEF Message, WindowStep, Go, mainVars, rendererVars, fixedVars, frameVars,
        contextVars, fenceVars, swapVars, vars
  <2>2. CASE MenuToggle
    BY <2>2
    DEF MenuToggle, WindowStep, Go, mainVars, rendererVars, fixedVars, frameVars,
        contextVars, fenceVars, swapVars, vars
  <2>3. CASE OtherMessage
    BY <2>3
    DEF OtherMessage, WindowStep, Go, mainVars, rendererVars, fixedVars, frameVars,
        contextVars, fenceVars, swapVars, vars
  <2>4. CASE CallOriginal
    BY <2>4
    DEF CallOriginal, WindowStep, Go, mainVars, rendererVars, fixedVars, frameVars,
        contextVars, fenceVars, swapVars, vars
  <2> QED
    BY <1>2, <2>1, <2>2, <2>3, <2>4 DEF WindowNext, WindowWork
<1>3. CASE MainWork
  <2>1. CASE CreateRenderer
    BY <2>1
    DEF CreateRenderer, MainStep, mainVars, fenceVars, swapVars, frameVars, contextVars,
        vars, rendererVars, fixedVars, Go
  <2>2. CASE RendererGivesUp
    BY <2>2
    DEF RendererGivesUp, MainStep, Terminated, rendererVars, frameVars, contextVars,
        fenceVars, swapVars, vars, mainVars, fixedVars, Go
  <2>3. CASE CreateGui
    BY <2>3
    DEF CreateGui, MainStep, mainVars, frameVars, contextVars, fenceVars, swapVars, vars,
        rendererVars, fixedVars, Go
  <2>4. CASE CreateHooking
    BY <2>4
    DEF CreateHooking, MainStep, rendererVars, frameVars, contextVars, fenceVars,
        swapVars, vars, mainVars, fixedVars, Go
  <2>5. CASE CreateHookingThrows
    BY <2>5
    DEF CreateHookingThrows, MainStep, rendererVars, frameVars, contextVars, fenceVars,
        swapVars, vars, mainVars, fixedVars, Go
  <2>6. CASE InstallWndproc
    BY <2>6
    DEF InstallWndproc, MainStep, rendererVars, frameVars, contextVars, fenceVars,
        swapVars, vars, mainVars, fixedVars, Go
  <2>7. CASE StoreWndproc
    BY <2>7
    DEF StoreWndproc, MainStep, rendererVars, frameVars, contextVars, fenceVars,
        swapVars, vars, mainVars, fixedVars, Go
  <2>8. CASE EnableDetours
    BY <2>8
    DEF EnableDetours, MainStep, rendererVars, frameVars, contextVars, fenceVars,
        swapVars, vars, mainVars, fixedVars, Go
  <2>9. CASE EnableThrows
    BY <2>9
    DEF EnableThrows, MainStep, rendererVars, frameVars, contextVars, fenceVars,
        swapVars, vars, mainVars, fixedVars, Go
  <2>10. CASE RestoreWndproc
    BY <2>10
    DEF RestoreWndproc, MainStep, rendererVars, frameVars, contextVars, fenceVars,
        swapVars, vars, mainVars, fixedVars, Go
  <2>11. CASE ApplyQueued
    BY <2>11
    DEF ApplyQueued, MainStep, rendererVars, frameVars, contextVars, fenceVars, swapVars,
        vars, mainVars, fixedVars, Go
  <2>12. CASE DeleteDetours
    BY <2>12
    DEF DeleteDetours, MainStep, TakeAway, rendererVars, frameVars, contextVars,
        fenceVars, swapVars, vars, mainVars, fixedVars, Go
  <2>13. CASE ResetHooking
    BY <2>13
    DEF ResetHooking, MainStep, TakeAway, rendererVars, frameVars, contextVars,
        fenceVars, swapVars, vars, mainVars, fixedVars, Go
  <2>14. CASE DestroyGui
    BY <2>14
    DEF DestroyGui, MainStep, TakeAway, mainVars, frameVars, contextVars, fenceVars,
        swapVars, vars, rendererVars, fixedVars, Go
  <2>15. CASE ResetRenderer
    BY <2>15
    DEF ResetRenderer, MainStep, TakeAway, mainVars, frameVars, contextVars, fenceVars,
        swapVars, vars, rendererVars, fixedVars, Go
  <2>16. CASE ShutdownBackend
    BY <2>16
    DEF ShutdownBackend, MainStep, mainVars, rendererVars, frameVars, contextVars,
        fenceVars, swapVars, vars, fixedVars, Go
  <2>17. CASE DestroyContext
    BY <2>17
    DEF DestroyContext, MainStep, Terminated, mainVars, rendererVars, frameVars,
        contextVars, fenceVars, swapVars, vars, fixedVars, Go
  <2> QED
    BY <1>3, <2>1, <2>2, <2>3, <2>4, <2>5, <2>6, <2>7, <2>8, <2>9, <2>10,
       <2>11, <2>12, <2>13, <2>14, <2>15, <2>16, <2>17 DEF MainWork
<1>4. ASSUME NEW t \in {Main, Render}, WaitForLastFrame(t) \/ AwaitEvent(t) PROVE Buffers'
  <2>1. CASE WaitForLastFrame(t)
    BY <2>1
    DEF WaitForLastFrame, WaitingStep, MustWait, AfterWait, RegisterLastFrame, frameVars,
        contextVars, fenceVars, swapVars, SetEventOnCompletion, last_frame, Go, mainVars,
        rendererVars, fixedVars, vars
  <2>2. CASE AwaitEvent(t)
    BY <2>2
    DEF AwaitEvent, WaitingStep, AfterWait, EventConsumed, contextVars, swapVars,
        frameVars, fenceVars, Go, mainVars, rendererVars, fixedVars, vars
  <2> QED
    BY <1>4, <2>1, <2>2
<1>5. CASE GpuNext
  BY <1>5
  DEF GpuNext, Execute, mainVars, rendererVars, fixedVars, vars, frameVars, contextVars,
      fenceVars, swapVars
<1>6. CASE UNCHANGED vars
  BY <1>6
  DEF vars, mainVars, rendererVars, fixedVars, frameVars, contextVars, fenceVars,
      swapVars
<1> QED
  BY <1>1, <1>2, <1>3, <1>4, <1>5, <1>6 DEF Next

(* The renderer's counter and the swap chain's turn round. *)
LEMMA Turn ==
    ASSUME NEW n \in Nat \ {0}, NEW k \in 0 .. n - 1
    PROVE  (k + 1) % n = IF k + 1 < n THEN k + 1 ELSE 0
  <1>1. CASE k + 1 < n
    BY <1>1
  <1>2. CASE k + 1 = n
    BY <1>2
  <1> QED
    BY <1>1, <1>2

(* The game asks for no fewer buffers than one. *)
LEMMA BuffersExist == \A n \in BufferCounts : n \in Nat \ {0} /\ 0 \in 0 .. n - 1
  BY FramesAssumption

(* The number of the swap chain's buffers is one that the game has asked for. *)
LEMMA BuffersAreThere ==
    ASSUME TypeOK
    PROVE  buffers \in Nat \ {0}
  BY FramesAssumption DEF TypeOK, FramesTypeOK

(* The lists in the queue come from nowhere but a frame that is submitted. *)
LEMMA BusySteps ==
    ASSUME gpu \in Seq(Items)
    PROVE  /\ UNCHANGED gpu => Busy' = Busy
           /\ Shown /\ Busy' => Busy
           /\ Execute /\ Busy' => Busy
           /\ Busy => gpu # <<>>
  <1>1. Shown /\ Busy' => Busy
    <2> SUFFICES ASSUME gpu' = Append(gpu, Present),
                        NEW k \in DOMAIN gpu', gpu'[k] # Present
                 PROVE  \E i \in DOMAIN gpu : gpu[i] # Present
      BY DEF Shown, Busy, ToSet
    <2> QED
      BY DEF Items
  <1>2. Execute /\ Busy' => Busy
    <2> SUFFICES ASSUME gpu # <<>>, gpu' = Tail(gpu),
                        NEW k \in DOMAIN gpu', gpu'[k] # Present
                 PROVE  \E i \in DOMAIN gpu : gpu[i] # Present
      BY DEF Execute, Busy, ToSet
    <2>1. k + 1 \in DOMAIN gpu /\ gpu[k + 1] = gpu'[k]
      OBVIOUS
    <2> QED
      BY <2>1
  <1>3. Busy => gpu # <<>>
    BY DEF Busy, ToSet
  <1> QED
    BY <1>1, <1>2, <1>3 DEF Busy

(* Every step keeps our lists out of the queue until the fonts are uploaded. *)
LEMMA FontsStep ==
    ASSUME TypeOK, Phases, Inside, Buffers, Fonts, [Next]_vars
    PROVE  Fonts'
<1> USE OverlayAssumption, BusySteps
DEF TypeOK, FramesTypeOK, Fonts, Threads, Resetting, Starting, Unwinding, Items
<1>1. CASE RenderNext
  <2>1. CASE PresentUnhooked
    BY <2>1
    DEF PresentUnhooked, GamePresents, mainVars, rendererVars, fixedVars, vars,
        frameVars, contextVars, fenceVars, swapVars, Shown
  <2>2. ASSUME NEW test \in BOOLEAN, EnterPresent(test) PROVE Fonts'
    BY <2>2
    DEF EnterPresent, RenderStep, GamePresents, frameVars, contextVars, fenceVars,
        swapVars, Go, mainVars, rendererVars, fixedVars, vars
  <2>3. CASE Draw
    BY <2>3
    DEF Draw, RenderStep, ResizingSet, frameVars, fenceVars, swapVars, contextVars, Go,
        mainVars, rendererVars, fixedVars, vars
  <2>4. CASE PreReset
    BY <2>4
    DEF PreReset, RenderStep, ResourcesReleased, frameVars, contextVars, fenceVars,
        swapVars, Go, mainVars, rendererVars, fixedVars, vars, Buffers
  <2>5. CASE PostReset
    <3>1. m_FontsUpdated' => m_FontsUpdated /\ resetFor # "fonts"
      BY <2>5 DEF PostReset
    <3>2. /\ pc[Render] = "take"
          /\ pc' = [pc EXCEPT ![Render] = IF resetFor = "fonts" THEN "frame" ELSE "game"]
          /\ resetFor' = "none"
          /\ UNCHANGED gpu
      BY <2>5 DEF PostReset, RenderStep, Go, ResourcesTaken, swapVars
    <3> QED
      BY <3>1, <3>2
  <2>6. CASE WaitForNextFrame
    BY <2>6
    DEF WaitForNextFrame, RenderStep, NextFrame, SetEventOnCompletion, contextVars,
        swapVars, frameVars, fenceVars, Go, mainVars, rendererVars, fixedVars, vars
  <2>7. CASE SubmitFrame
    BY <2>7
    DEF SubmitFrame, RenderStep, Submit, fenceVars, swapVars, frameVars, contextVars, Go,
        mainVars, rendererVars, fixedVars, vars, Phases, Inside, Buffers
  <2>8. CASE PresentOriginal
    BY <2>8
    DEF PresentOriginal, RenderStep, contextVars, fenceVars, frameVars, swapVars, Go,
        mainVars, rendererVars, fixedVars, vars, Shown
  <2>9. CASE TestOriginal
    BY <2>9
    DEF TestOriginal, RenderStep, frameVars, contextVars, fenceVars, swapVars, Go,
        mainVars, rendererVars, fixedVars, vars
  <2>10. CASE EnterResizeBuffers
    BY <2>10
    DEF EnterResizeBuffers, RenderStep, ResizingSet, fenceVars, swapVars, frameVars,
        contextVars, Go, mainVars, rendererVars, fixedVars, vars, Buffers
  <2>11. CASE ResizeOriginal
    BY <2>11
    DEF ResizeOriginal, RenderStep, Resized, contextVars, fenceVars, frameVars, swapVars,
        Go, mainVars, rendererVars, fixedVars, vars
  <2> QED
    BY <1>1, <2>1, <2>2, <2>3, <2>4, <2>5, <2>6, <2>7,
       <2>8, <2>9, <2>10, <2>11 DEF RenderNext
<1>2. CASE WindowNext
  <2>1. ASSUME NEW kind \in {"key", "message"}, Message(kind) PROVE Fonts'
    BY <2>1
    DEF Message, WindowStep, Go, mainVars, rendererVars, fixedVars, frameVars,
        contextVars, fenceVars, swapVars, vars
  <2>2. CASE MenuToggle
    BY <2>2
    DEF MenuToggle, WindowStep, Go, mainVars, rendererVars, fixedVars, frameVars,
        contextVars, fenceVars, swapVars, vars
  <2>3. CASE OtherMessage
    BY <2>3
    DEF OtherMessage, WindowStep, Go, mainVars, rendererVars, fixedVars, frameVars,
        contextVars, fenceVars, swapVars, vars
  <2>4. CASE CallOriginal
    BY <2>4
    DEF CallOriginal, WindowStep, Go, mainVars, rendererVars, fixedVars, frameVars,
        contextVars, fenceVars, swapVars, vars
  <2> QED
    BY <1>2, <2>1, <2>2, <2>3, <2>4 DEF WindowNext, WindowWork
<1>3. CASE MainWork
  <2>1. CASE CreateRenderer
    BY <2>1
    DEF CreateRenderer, MainStep, mainVars, fenceVars, swapVars, frameVars, contextVars,
        vars, rendererVars, fixedVars, Go, Phases, Inside, Buffers
  <2>2. CASE RendererGivesUp
    BY <2>2
    DEF RendererGivesUp, MainStep, Terminated, rendererVars, frameVars, contextVars,
        fenceVars, swapVars, vars, mainVars, fixedVars, Go
  <2>3. CASE CreateGui
    BY <2>3
    DEF CreateGui, MainStep, mainVars, frameVars, contextVars, fenceVars, swapVars, vars,
        rendererVars, fixedVars, Go
  <2>4. CASE CreateHooking
    BY <2>4
    DEF CreateHooking, MainStep, rendererVars, frameVars, contextVars, fenceVars,
        swapVars, vars, mainVars, fixedVars, Go
  <2>5. CASE CreateHookingThrows
    BY <2>5
    DEF CreateHookingThrows, MainStep, rendererVars, frameVars, contextVars, fenceVars,
        swapVars, vars, mainVars, fixedVars, Go
  <2>6. CASE InstallWndproc
    BY <2>6
    DEF InstallWndproc, MainStep, rendererVars, frameVars, contextVars, fenceVars,
        swapVars, vars, mainVars, fixedVars, Go
  <2>7. CASE StoreWndproc
    BY <2>7
    DEF StoreWndproc, MainStep, rendererVars, frameVars, contextVars, fenceVars,
        swapVars, vars, mainVars, fixedVars, Go
  <2>8. CASE EnableDetours
    BY <2>8
    DEF EnableDetours, MainStep, rendererVars, frameVars, contextVars, fenceVars,
        swapVars, vars, mainVars, fixedVars, Go
  <2>9. CASE EnableThrows
    BY <2>9
    DEF EnableThrows, MainStep, rendererVars, frameVars, contextVars, fenceVars,
        swapVars, vars, mainVars, fixedVars, Go
  <2>10. CASE RestoreWndproc
    BY <2>10
    DEF RestoreWndproc, MainStep, rendererVars, frameVars, contextVars, fenceVars,
        swapVars, vars, mainVars, fixedVars, Go
  <2>11. CASE ApplyQueued
    BY <2>11
    DEF ApplyQueued, MainStep, rendererVars, frameVars, contextVars, fenceVars, swapVars,
        vars, mainVars, fixedVars, Go
  <2>12. CASE DeleteDetours
    BY <2>12
    DEF DeleteDetours, MainStep, TakeAway, rendererVars, frameVars, contextVars,
        fenceVars, swapVars, vars, mainVars, fixedVars, Go
  <2>13. CASE ResetHooking
    BY <2>13
    DEF ResetHooking, MainStep, TakeAway, rendererVars, frameVars, contextVars,
        fenceVars, swapVars, vars, mainVars, fixedVars, Go
  <2>14. CASE DestroyGui
    BY <2>14
    DEF DestroyGui, MainStep, TakeAway, mainVars, frameVars, contextVars, fenceVars,
        swapVars, vars, rendererVars, fixedVars, Go
  <2>15. CASE ResetRenderer
    BY <2>15
    DEF ResetRenderer, MainStep, TakeAway, mainVars, frameVars, contextVars, fenceVars,
        swapVars, vars, rendererVars, fixedVars, Go
  <2>16. CASE ShutdownBackend
    BY <2>16
    DEF ShutdownBackend, MainStep, mainVars, rendererVars, frameVars, contextVars,
        fenceVars, swapVars, vars, fixedVars, Go
  <2>17. CASE DestroyContext
    BY <2>17
    DEF DestroyContext, MainStep, Terminated, mainVars, rendererVars, frameVars,
        contextVars, fenceVars, swapVars, vars, fixedVars, Go
  <2> QED
    BY <1>3, <2>1, <2>2, <2>3, <2>4, <2>5, <2>6, <2>7, <2>8, <2>9, <2>10,
       <2>11, <2>12, <2>13, <2>14, <2>15, <2>16, <2>17 DEF MainWork
<1>4. ASSUME NEW t \in {Main, Render}, WaitForLastFrame(t) \/ AwaitEvent(t) PROVE Fonts'
  <2>1. CASE WaitForLastFrame(t)
    BY <2>1
    DEF WaitForLastFrame, WaitingStep, MustWait, AfterWait, RegisterLastFrame, frameVars,
        contextVars, fenceVars, swapVars, SetEventOnCompletion, last_frame, Go, mainVars,
        rendererVars, fixedVars, vars
  <2>2. CASE AwaitEvent(t)
    BY <2>2
    DEF AwaitEvent, WaitingStep, AfterWait, EventConsumed, contextVars, swapVars,
        frameVars, fenceVars, Go, mainVars, rendererVars, fixedVars, vars
  <2> QED
    BY <1>4, <2>1, <2>2
<1>5. CASE GpuNext
  BY <1>5
  DEF GpuNext, mainVars, rendererVars, fixedVars, vars, frameVars, contextVars,
      fenceVars, swapVars, Execute
<1>6. CASE UNCHANGED vars
  BY <1>6
  DEF vars, mainVars, rendererVars, fixedVars, frameVars, contextVars, fenceVars,
      swapVars
<1> QED
  BY <1>1, <1>2, <1>3, <1>4, <1>5, <1>6 DEF Next

(* Every step keeps the queue empty while the game resizes. *)
LEMMA DrainedStep ==
    ASSUME TypeOK, Buffers, Drained, [Next]_vars
    PROVE  Drained'
<1> USE OverlayAssumption DEF TypeOK, Buffers, Drained, Threads, Resetting
<1>1. CASE RenderNext
  <2>1. CASE PresentUnhooked
    BY <2>1
    DEF PresentUnhooked, GamePresents, Shown, mainVars, rendererVars, fixedVars, vars,
        frameVars, contextVars, fenceVars, swapVars
  <2>2. ASSUME NEW test \in BOOLEAN, EnterPresent(test) PROVE Drained'
    BY <2>2
    DEF EnterPresent, RenderStep, GamePresents, frameVars, contextVars, fenceVars,
        swapVars, Go, mainVars, rendererVars, fixedVars, vars
  <2>3. CASE Draw
    BY <2>3
    DEF Draw, RenderStep, ResizingSet, frameVars, fenceVars, swapVars, contextVars, Go,
        mainVars, rendererVars, fixedVars, vars
  <2>4. CASE PreReset
    BY <2>4
    DEF PreReset, RenderStep, ResourcesReleased, frameVars, contextVars, fenceVars,
        swapVars, Go, mainVars, rendererVars, fixedVars, vars
  <2>5. CASE PostReset
    BY <2>5
    DEF PostReset, RenderStep, ResourcesTaken, fenceVars, swapVars, frameVars,
        contextVars, ResizingSet, Go, mainVars, rendererVars, fixedVars, vars
  <2>6. CASE WaitForNextFrame
    BY <2>6
    DEF WaitForNextFrame, RenderStep, NextFrame, SetEventOnCompletion, contextVars,
        swapVars, frameVars, fenceVars, Go, mainVars, rendererVars, fixedVars, vars
  <2>7. CASE SubmitFrame
    BY <2>7
    DEF SubmitFrame, RenderStep, Submit, fenceVars, swapVars, frameVars, contextVars, Go,
        mainVars, rendererVars, fixedVars, vars
  <2>8. CASE PresentOriginal
    BY <2>8
    DEF PresentOriginal, RenderStep, Shown, contextVars, fenceVars, frameVars, swapVars,
        Go, mainVars, rendererVars, fixedVars, vars
  <2>9. CASE TestOriginal
    BY <2>9
    DEF TestOriginal, RenderStep, frameVars, contextVars, fenceVars, swapVars, Go,
        mainVars, rendererVars, fixedVars, vars
  <2>10. CASE EnterResizeBuffers
    BY <2>10
    DEF EnterResizeBuffers, RenderStep, ResizingSet, fenceVars, swapVars, frameVars,
        contextVars, Go, mainVars, rendererVars, fixedVars, vars
  <2>11. CASE ResizeOriginal
    BY <2>11
    DEF ResizeOriginal, RenderStep, Resized, contextVars, fenceVars, frameVars, swapVars,
        Go, mainVars, rendererVars, fixedVars, vars
  <2> QED
    BY <1>1, <2>1, <2>2, <2>3, <2>4, <2>5, <2>6, <2>7,
       <2>8, <2>9, <2>10, <2>11 DEF RenderNext
<1>2. CASE WindowNext
  <2>1. ASSUME NEW kind \in {"key", "message"}, Message(kind) PROVE Drained'
    BY <2>1
    DEF Message, WindowStep, Go, mainVars, rendererVars, fixedVars, frameVars,
        contextVars, fenceVars, swapVars, vars
  <2>2. CASE MenuToggle
    BY <2>2
    DEF MenuToggle, WindowStep, Go, mainVars, rendererVars, fixedVars, frameVars,
        contextVars, fenceVars, swapVars, vars
  <2>3. CASE OtherMessage
    BY <2>3
    DEF OtherMessage, WindowStep, Go, mainVars, rendererVars, fixedVars, frameVars,
        contextVars, fenceVars, swapVars, vars
  <2>4. CASE CallOriginal
    BY <2>4
    DEF CallOriginal, WindowStep, Go, mainVars, rendererVars, fixedVars, frameVars,
        contextVars, fenceVars, swapVars, vars
  <2> QED
    BY <1>2, <2>1, <2>2, <2>3, <2>4 DEF WindowNext, WindowWork
<1>3. CASE MainWork
  <2>1. CASE CreateRenderer
    BY <2>1
    DEF CreateRenderer, MainStep, mainVars, fenceVars, swapVars, frameVars, contextVars,
        vars, rendererVars, fixedVars, Go
  <2>2. CASE RendererGivesUp
    BY <2>2
    DEF RendererGivesUp, MainStep, Terminated, rendererVars, frameVars, contextVars,
        fenceVars, swapVars, vars, mainVars, fixedVars, Go
  <2>3. CASE CreateGui
    BY <2>3
    DEF CreateGui, MainStep, mainVars, frameVars, contextVars, fenceVars, swapVars, vars,
        rendererVars, fixedVars, Go
  <2>4. CASE CreateHooking
    BY <2>4
    DEF CreateHooking, MainStep, rendererVars, frameVars, contextVars, fenceVars,
        swapVars, vars, mainVars, fixedVars, Go
  <2>5. CASE CreateHookingThrows
    BY <2>5
    DEF CreateHookingThrows, MainStep, rendererVars, frameVars, contextVars, fenceVars,
        swapVars, vars, mainVars, fixedVars, Go
  <2>6. CASE InstallWndproc
    BY <2>6
    DEF InstallWndproc, MainStep, rendererVars, frameVars, contextVars, fenceVars,
        swapVars, vars, mainVars, fixedVars, Go
  <2>7. CASE StoreWndproc
    BY <2>7
    DEF StoreWndproc, MainStep, rendererVars, frameVars, contextVars, fenceVars,
        swapVars, vars, mainVars, fixedVars, Go
  <2>8. CASE EnableDetours
    BY <2>8
    DEF EnableDetours, MainStep, rendererVars, frameVars, contextVars, fenceVars,
        swapVars, vars, mainVars, fixedVars, Go
  <2>9. CASE EnableThrows
    BY <2>9
    DEF EnableThrows, MainStep, rendererVars, frameVars, contextVars, fenceVars,
        swapVars, vars, mainVars, fixedVars, Go
  <2>10. CASE RestoreWndproc
    BY <2>10
    DEF RestoreWndproc, MainStep, rendererVars, frameVars, contextVars, fenceVars,
        swapVars, vars, mainVars, fixedVars, Go
  <2>11. CASE ApplyQueued
    BY <2>11
    DEF ApplyQueued, MainStep, rendererVars, frameVars, contextVars, fenceVars, swapVars,
        vars, mainVars, fixedVars, Go
  <2>12. CASE DeleteDetours
    BY <2>12
    DEF DeleteDetours, MainStep, TakeAway, rendererVars, frameVars, contextVars,
        fenceVars, swapVars, vars, mainVars, fixedVars, Go
  <2>13. CASE ResetHooking
    BY <2>13
    DEF ResetHooking, MainStep, TakeAway, rendererVars, frameVars, contextVars,
        fenceVars, swapVars, vars, mainVars, fixedVars, Go
  <2>14. CASE DestroyGui
    BY <2>14
    DEF DestroyGui, MainStep, TakeAway, mainVars, frameVars, contextVars, fenceVars,
        swapVars, vars, rendererVars, fixedVars, Go
  <2>15. CASE ResetRenderer
    BY <2>15
    DEF ResetRenderer, MainStep, TakeAway, mainVars, frameVars, contextVars, fenceVars,
        swapVars, vars, rendererVars, fixedVars, Go
  <2>16. CASE ShutdownBackend
    BY <2>16
    DEF ShutdownBackend, MainStep, mainVars, rendererVars, frameVars, contextVars,
        fenceVars, swapVars, vars, fixedVars, Go
  <2>17. CASE DestroyContext
    BY <2>17
    DEF DestroyContext, MainStep, Terminated, mainVars, rendererVars, frameVars,
        contextVars, fenceVars, swapVars, vars, fixedVars, Go
  <2> QED
    BY <1>3, <2>1, <2>2, <2>3, <2>4, <2>5, <2>6, <2>7, <2>8, <2>9, <2>10,
       <2>11, <2>12, <2>13, <2>14, <2>15, <2>16, <2>17 DEF MainWork
<1>4. ASSUME NEW t \in {Main, Render}, WaitForLastFrame(t) \/ AwaitEvent(t) PROVE Drained'
  <2>1. CASE WaitForLastFrame(t)
    BY <2>1
    DEF WaitForLastFrame, WaitingStep, MustWait, AfterWait, RegisterLastFrame, frameVars,
        contextVars, fenceVars, swapVars, SetEventOnCompletion, last_frame, Go, mainVars,
        rendererVars, fixedVars, vars
  <2>2. CASE AwaitEvent(t)
    BY <2>2
    DEF AwaitEvent, WaitingStep, AfterWait, EventConsumed, contextVars, swapVars,
        frameVars, fenceVars, Go, mainVars, rendererVars, fixedVars, vars
  <2> QED
    BY <1>4, <2>1, <2>2
<1>5. CASE GpuNext
  BY <1>5
  DEF GpuNext, Execute, mainVars, rendererVars, fixedVars, vars, frameVars, contextVars,
      fenceVars, swapVars
<1>6. CASE UNCHANGED vars
  BY <1>6
  DEF vars, mainVars, rendererVars, fixedVars, frameVars, contextVars, fenceVars,
      swapVars
<1> QED
  BY <1>1, <1>2, <1>3, <1>4, <1>5, <1>6 DEF Next

(* Every step keeps the values that the queue signals below the last one. *)
LEMMA SignalsStep ==
    ASSUME TypeOK, Signals, [Next]_vars
    PROVE  Signals'
<1> USE FramesAssumption DEF TypeOK, Signals, FramesTypeOK, Lists, Present
<1>1. CASE RenderNext
  <2>1. CASE PresentUnhooked
    BY <2>1
    DEF PresentUnhooked, GamePresents, Shown, mainVars, rendererVars, fixedVars, vars,
        frameVars, contextVars, fenceVars, swapVars
  <2>2. ASSUME NEW test \in BOOLEAN, EnterPresent(test) PROVE Signals'
    BY <2>2
    DEF EnterPresent, RenderStep, GamePresents, frameVars, contextVars, fenceVars,
        swapVars, Go, mainVars, rendererVars, fixedVars, vars
  <2>3. CASE Draw
    BY <2>3
    DEF Draw, RenderStep, ResizingSet, frameVars, fenceVars, swapVars, contextVars, Go,
        mainVars, rendererVars, fixedVars, vars
  <2>4. CASE PreReset
    BY <2>4
    DEF PreReset, RenderStep, ResourcesReleased, frameVars, contextVars, fenceVars,
        swapVars, Go, mainVars, rendererVars, fixedVars, vars
  <2>5. CASE PostReset
    BY <2>5
    DEF PostReset, RenderStep, ResourcesTaken, fenceVars, swapVars, frameVars,
        contextVars, ResizingSet, Go, mainVars, rendererVars, fixedVars, vars
  <2>6. CASE WaitForNextFrame
    BY <2>6
    DEF WaitForNextFrame, RenderStep, NextFrame, SetEventOnCompletion, contextVars,
        swapVars, frameVars, fenceVars, Go, mainVars, rendererVars, fixedVars, vars
  <2>7. CASE SubmitFrame
    <3> DEFINE item == [context |-> back_buffer, value |-> m_FenceLastSignaledValue']
    <3>1. /\ m_FenceLastSignaledValue' = m_FenceLastSignaledValue + 1
          /\ gpu' = Append(gpu, item)
          /\ item.value = m_FenceLastSignaledValue'
      BY <2>7 DEF SubmitFrame, Submit
    <3> HIDE DEF item
    <3>2. \A i \in DOMAIN gpu' : (i \in DOMAIN gpu /\ gpu'[i] = gpu[i]) \/ gpu'[i] = item
      BY <3>1
    <3>3. \A i \in DOMAIN gpu : gpu[i].value \in Nat
      BY DEF Lists, Present
    <3> QED
      BY <3>1, <3>2, <3>3
  <2>8. CASE PresentOriginal
    BY <2>8
    DEF PresentOriginal, RenderStep, Shown, contextVars, fenceVars, frameVars, swapVars,
        Go, mainVars, rendererVars, fixedVars, vars
  <2>9. CASE TestOriginal
    BY <2>9
    DEF TestOriginal, RenderStep, frameVars, contextVars, fenceVars, swapVars, Go,
        mainVars, rendererVars, fixedVars, vars
  <2>10. CASE EnterResizeBuffers
    BY <2>10
    DEF EnterResizeBuffers, RenderStep, ResizingSet, fenceVars, swapVars, frameVars,
        contextVars, Go, mainVars, rendererVars, fixedVars, vars
  <2>11. CASE ResizeOriginal
    BY <2>11
    DEF ResizeOriginal, RenderStep, Resized, contextVars, fenceVars, frameVars, swapVars,
        Go, mainVars, rendererVars, fixedVars, vars
  <2> QED
    BY <1>1, <2>1, <2>2, <2>3, <2>4, <2>5, <2>6, <2>7,
       <2>8, <2>9, <2>10, <2>11 DEF RenderNext
<1>2. CASE WindowNext
  <2>1. ASSUME NEW kind \in {"key", "message"}, Message(kind) PROVE Signals'
    BY <2>1
    DEF Message, WindowStep, Go, mainVars, rendererVars, fixedVars, frameVars,
        contextVars, fenceVars, swapVars, vars
  <2>2. CASE MenuToggle
    BY <2>2
    DEF MenuToggle, WindowStep, Go, mainVars, rendererVars, fixedVars, frameVars,
        contextVars, fenceVars, swapVars, vars
  <2>3. CASE OtherMessage
    BY <2>3
    DEF OtherMessage, WindowStep, Go, mainVars, rendererVars, fixedVars, frameVars,
        contextVars, fenceVars, swapVars, vars
  <2>4. CASE CallOriginal
    BY <2>4
    DEF CallOriginal, WindowStep, Go, mainVars, rendererVars, fixedVars, frameVars,
        contextVars, fenceVars, swapVars, vars
  <2> QED
    BY <1>2, <2>1, <2>2, <2>3, <2>4 DEF WindowNext, WindowWork
<1>3. CASE MainWork
  <2>1. CASE CreateRenderer
    BY <2>1
    DEF CreateRenderer, MainStep, mainVars, fenceVars, swapVars, frameVars, contextVars,
        vars, rendererVars, fixedVars, Go
  <2>2. CASE RendererGivesUp
    BY <2>2
    DEF RendererGivesUp, MainStep, Terminated, rendererVars, frameVars, contextVars,
        fenceVars, swapVars, vars, mainVars, fixedVars, Go
  <2>3. CASE CreateGui
    BY <2>3
    DEF CreateGui, MainStep, mainVars, frameVars, contextVars, fenceVars, swapVars, vars,
        rendererVars, fixedVars, Go
  <2>4. CASE CreateHooking
    BY <2>4
    DEF CreateHooking, MainStep, rendererVars, frameVars, contextVars, fenceVars,
        swapVars, vars, mainVars, fixedVars, Go
  <2>5. CASE CreateHookingThrows
    BY <2>5
    DEF CreateHookingThrows, MainStep, rendererVars, frameVars, contextVars, fenceVars,
        swapVars, vars, mainVars, fixedVars, Go
  <2>6. CASE InstallWndproc
    BY <2>6
    DEF InstallWndproc, MainStep, rendererVars, frameVars, contextVars, fenceVars,
        swapVars, vars, mainVars, fixedVars, Go
  <2>7. CASE StoreWndproc
    BY <2>7
    DEF StoreWndproc, MainStep, rendererVars, frameVars, contextVars, fenceVars,
        swapVars, vars, mainVars, fixedVars, Go
  <2>8. CASE EnableDetours
    BY <2>8
    DEF EnableDetours, MainStep, rendererVars, frameVars, contextVars, fenceVars,
        swapVars, vars, mainVars, fixedVars, Go
  <2>9. CASE EnableThrows
    BY <2>9
    DEF EnableThrows, MainStep, rendererVars, frameVars, contextVars, fenceVars,
        swapVars, vars, mainVars, fixedVars, Go
  <2>10. CASE RestoreWndproc
    BY <2>10
    DEF RestoreWndproc, MainStep, rendererVars, frameVars, contextVars, fenceVars,
        swapVars, vars, mainVars, fixedVars, Go
  <2>11. CASE ApplyQueued
    BY <2>11
    DEF ApplyQueued, MainStep, rendererVars, frameVars, contextVars, fenceVars, swapVars,
        vars, mainVars, fixedVars, Go
  <2>12. CASE DeleteDetours
    BY <2>12
    DEF DeleteDetours, MainStep, TakeAway, rendererVars, frameVars, contextVars,
        fenceVars, swapVars, vars, mainVars, fixedVars, Go
  <2>13. CASE ResetHooking
    BY <2>13
    DEF ResetHooking, MainStep, TakeAway, rendererVars, frameVars, contextVars,
        fenceVars, swapVars, vars, mainVars, fixedVars, Go
  <2>14. CASE DestroyGui
    BY <2>14
    DEF DestroyGui, MainStep, TakeAway, mainVars, frameVars, contextVars, fenceVars,
        swapVars, vars, rendererVars, fixedVars, Go
  <2>15. CASE ResetRenderer
    BY <2>15
    DEF ResetRenderer, MainStep, TakeAway, mainVars, frameVars, contextVars, fenceVars,
        swapVars, vars, rendererVars, fixedVars, Go
  <2>16. CASE ShutdownBackend
    BY <2>16
    DEF ShutdownBackend, MainStep, mainVars, rendererVars, frameVars, contextVars,
        fenceVars, swapVars, vars, fixedVars, Go
  <2>17. CASE DestroyContext
    BY <2>17
    DEF DestroyContext, MainStep, Terminated, mainVars, rendererVars, frameVars,
        contextVars, fenceVars, swapVars, vars, fixedVars, Go
  <2> QED
    BY <1>3, <2>1, <2>2, <2>3, <2>4, <2>5, <2>6, <2>7, <2>8, <2>9, <2>10,
       <2>11, <2>12, <2>13, <2>14, <2>15, <2>16, <2>17 DEF MainWork
<1>4. ASSUME NEW t \in {Main, Render}, WaitForLastFrame(t) \/ AwaitEvent(t) PROVE Signals'
  <2>1. CASE WaitForLastFrame(t)
    BY <2>1
    DEF WaitForLastFrame, WaitingStep, MustWait, AfterWait, RegisterLastFrame, frameVars,
        contextVars, fenceVars, swapVars, SetEventOnCompletion, last_frame, Go, mainVars,
        rendererVars, fixedVars, vars
  <2>2. CASE AwaitEvent(t)
    BY <2>2
    DEF AwaitEvent, WaitingStep, AfterWait, EventConsumed, contextVars, swapVars,
        frameVars, fenceVars, Go, mainVars, rendererVars, fixedVars, vars
  <2> QED
    BY <1>4, <2>1, <2>2
<1>5. CASE GpuNext
  BY <1>5
  DEF GpuNext, Execute, mainVars, rendererVars, fixedVars, vars, frameVars, contextVars,
      fenceVars, swapVars
<1>6. CASE UNCHANGED vars
  BY <1>6
  DEF vars, mainVars, rendererVars, fixedVars, frameVars, contextVars, fenceVars,
      swapVars
<1> QED
  BY <1>1, <1>2, <1>3, <1>4, <1>5, <1>6 DEF Next

(* Every step keeps the types. *)
LEMMA TypeStep ==
    ASSUME TypeOK, Signals, [Next]_vars
    PROVE  TypeOK'
<1> USE OverlayAssumption DEF TypeOK, FramesTypeOK, Threads, Values
<1>1. CASE RenderNext
  <2>1. CASE PresentUnhooked
    <3>1. back_buffer' \in 0 .. buffers' - 1 /\ UNCHANGED buffers
      BY <2>1, BuffersAreThere, Turn DEF PresentUnhooked, Shown
    <3>2. gpu' \in Seq(Items) /\ presents' \in Nat
      BY <2>1 DEF PresentUnhooked, Shown, Items
    <3>3. /\ UNCHANGED <<m_FenceValue, m_Resource, m_FontsUpdated, m_Resizing, m_FenceEvent, awaited,
                       completed, m_FrameIndex, m_FenceLastSignaledValue>>
          /\ UNCHANGED <<resetFor, fixedVars, g_running, rendererVars, mainVars, m_is_open, caught>>
          /\ pc' = pc \/ pc' = [pc EXCEPT ![Render] = "game"]
      BY <2>1 DEF PresentUnhooked, Shown, contextVars, fenceVars
    <3> QED
      BY <3>1, <3>2, <3>3 DEF fixedVars, rendererVars, mainVars, Items
  <2>2. ASSUME NEW test \in BOOLEAN, EnterPresent(test) PROVE TypeOK'
    BY <2>2
    DEF EnterPresent, RenderStep, GamePresents, frameVars, contextVars, fenceVars,
        swapVars, Go, mainVars, rendererVars, fixedVars, vars
  <2>3. CASE Draw
    <3>1. g_running' \in BOOLEAN
      BY <2>3 DEF Draw
    <3>2. /\ pc' \in {[pc EXCEPT ![Render] = "present"], [pc EXCEPT ![Render] = "wait"],
                    [pc EXCEPT ![Render] = "frame"]}
          /\ resetFor' \in {resetFor, "fonts"}
          /\ m_Resizing' \in {m_Resizing, TRUE}
          /\ UNCHANGED <<fixedVars, rendererVars, mainVars, m_is_open, caught>>
          /\ UNCHANGED <<m_FenceValue, m_Resource, m_FontsUpdated, fenceVars, swapVars, gpu,
                       m_FrameIndex, m_FenceLastSignaledValue>>
      BY <2>3 DEF Draw, RenderStep, Go, ResizingSet, frameVars, contextVars
    <3>3. FramesTypeOK'
      BY <3>2 DEF fenceVars, swapVars
    <3>4. /\ pc'[Main] = pc[Main] /\ pc'[Window] = pc[Window] /\ DOMAIN pc' = Threads
          /\ pc'[Render] \in {"present", "wait", "frame"}
      BY <3>2
    <3>5. resetFor' \in {"none", "fonts", "resize"}
      BY <3>2
    <3> HIDE DEF FramesTypeOK
    <3> QED
      BY <3>1, <3>2, <3>3, <3>4, <3>5 DEF fixedVars, rendererVars, mainVars
  <2>4. CASE PreReset
    BY <2>4
    DEF PreReset, RenderStep, ResourcesReleased, frameVars, contextVars, fenceVars,
        swapVars, Go, mainVars, rendererVars, fixedVars, vars
  <2>5. CASE PostReset
    <3>1. /\ m_FontsUpdated' \in BOOLEAN
          /\ m_Resource' \in [Contexts -> BOOLEAN]
          /\ m_Resizing' \in BOOLEAN
      <4>1. m_FontsUpdated' \in BOOLEAN
        BY <2>5 DEF PostReset
      <4>2. CASE g_is_enhanced
        <5>1. m_Resource' = [i \in Contexts |-> i < buffers] /\ m_Resizing' = FALSE
          BY <2>5, <4>2 DEF PostReset, ResourcesTaken, ResizingSet
        <5>2. \A i \in Contexts : (i < buffers) \in BOOLEAN
          OBVIOUS
        <5> QED
          BY <4>1, <5>1, <5>2
      <4>3. CASE ~g_is_enhanced
        BY <2>5, <4>1, <4>3 DEF PostReset
      <4> QED
        BY <4>2, <4>3
    <3>2. /\ UNCHANGED <<m_FenceValue, fenceVars, swapVars, gpu, m_FrameIndex,
                       m_FenceLastSignaledValue>>
          /\ UNCHANGED <<fixedVars, g_running, rendererVars, mainVars, m_is_open, caught>>
          /\ resetFor' = "none"
          /\ pc' = [pc EXCEPT ![Render] = IF resetFor = "fonts" THEN "frame" ELSE "game"]
      BY <2>5 DEF PostReset, ResourcesTaken, RenderStep, Go
    <3> QED
      BY <3>1, <3>2
      DEF fixedVars, rendererVars, mainVars, fenceVars, swapVars
  <2>6. CASE WaitForNextFrame
    <3>1. m_FrameIndex' \in Contexts
      BY <2>6, FramesAssumption, Turn DEF WaitForNextFrame, NextFrame, Contexts
    <3>2. m_FenceValue[m_FrameIndex'] \in Values
      BY <3>1
    <3>3. m_FenceEvent' \in BOOLEAN /\ awaited' \subseteq Values
      BY <2>6, <3>2 DEF WaitForNextFrame, NextFrame, SetEventOnCompletion
    <3> QED
      BY <2>6, <3>1, <3>3
      DEF WaitForNextFrame, NextFrame, RenderStep, Go, fixedVars, rendererVars, mainVars,
          contextVars, swapVars
  <2>7. CASE SubmitFrame
    <3>1. back_buffer \in Contexts
      BY <2>7 DEF SubmitFrame, RenderStep, Alive, Dangling, RenderDangles
    <3>2. /\ m_FenceLastSignaledValue' \in Nat
          /\ m_FenceLastSignaledValue' \in Values'
          /\ Values \subseteq Values'
      BY <2>7 DEF SubmitFrame, Submit, Values
    <3>3. gpu' \in Seq(Items)
      BY <2>7, <3>1, <3>2 DEF SubmitFrame, Submit, Items, Lists
    <3>4. m_FenceValue' \in [Contexts -> Values']
      BY <2>7, <3>1, <3>2 DEF SubmitFrame, Submit
    <3>5. /\ UNCHANGED <<m_Resource, m_FontsUpdated, m_Resizing, fenceVars, swapVars, m_FrameIndex>>
          /\ UNCHANGED <<resetFor, g_running, fixedVars, rendererVars, mainVars, m_is_open, caught>>
          /\ pc' = [pc EXCEPT ![Render] = "present"]
      BY <2>7 DEF SubmitFrame, Submit, RenderStep, Go
    <3> QED
      BY <3>2, <3>3, <3>4, <3>5
      DEF fixedVars, rendererVars, mainVars, fenceVars, swapVars, Items
  <2>8. CASE PresentOriginal
    <3>1. back_buffer' \in 0 .. buffers' - 1 /\ UNCHANGED buffers
      BY <2>8, BuffersAreThere, Turn DEF PresentOriginal, Shown
    <3>2. gpu' \in Seq(Items) /\ presents' \in Nat
      BY <2>8 DEF PresentOriginal, Shown, Items
    <3>3. /\ UNCHANGED <<m_FenceValue, m_Resource, m_FontsUpdated, m_Resizing, m_FenceEvent, awaited,
                       completed, m_FrameIndex, m_FenceLastSignaledValue>>
          /\ UNCHANGED <<resetFor, fixedVars, g_running, rendererVars, mainVars, m_is_open, caught>>
          /\ pc' = pc \/ pc' = [pc EXCEPT ![Render] = "game"]
      BY <2>8 DEF PresentOriginal, RenderStep, Go, Shown, contextVars, fenceVars
    <3> QED
      BY <3>1, <3>2, <3>3 DEF fixedVars, rendererVars, mainVars, Items
  <2>9. CASE TestOriginal
    BY <2>9
    DEF TestOriginal, RenderStep, frameVars, contextVars, fenceVars, swapVars, Go,
        mainVars, rendererVars, fixedVars, vars
  <2>10. CASE EnterResizeBuffers
    BY <2>10
    DEF EnterResizeBuffers, RenderStep, ResizingSet, fenceVars, swapVars, frameVars,
        contextVars, Go, mainVars, rendererVars, fixedVars, vars
  <2>11. CASE ResizeOriginal
    <3>1. buffers' \in BufferCounts /\ back_buffer' = 0
      BY <2>11 DEF ResizeOriginal, Resized
    <3>2. back_buffer' \in 0 .. buffers' - 1
      BY <3>1, BuffersExist
    <3> QED
      BY <2>11, <3>1, <3>2
      DEF ResizeOriginal, Resized, RenderStep, Go, fixedVars, rendererVars, mainVars,
          contextVars, fenceVars
  <2> QED
    BY <1>1, <2>1, <2>2, <2>3, <2>4, <2>5, <2>6, <2>7,
       <2>8, <2>9, <2>10, <2>11 DEF RenderNext
<1>2. CASE WindowNext
  <2>1. ASSUME NEW kind \in {"key", "message"}, Message(kind) PROVE TypeOK'
    BY <2>1
    DEF Message, WindowStep, Go, mainVars, rendererVars, fixedVars, frameVars,
        contextVars, fenceVars, swapVars, vars
  <2>2. CASE MenuToggle
    BY <2>2
    DEF MenuToggle, WindowStep, Go, mainVars, rendererVars, fixedVars, frameVars,
        contextVars, fenceVars, swapVars, vars
  <2>3. CASE OtherMessage
    BY <2>3
    DEF OtherMessage, WindowStep, Go, mainVars, rendererVars, fixedVars, frameVars,
        contextVars, fenceVars, swapVars, vars
  <2>4. CASE CallOriginal
    BY <2>4
    DEF CallOriginal, WindowStep, Go, mainVars, rendererVars, fixedVars, frameVars,
        contextVars, fenceVars, swapVars, vars
  <2> QED
    BY <1>2, <2>1, <2>2, <2>3, <2>4 DEF WindowNext, WindowWork
<1>3. CASE MainWork
  <2>1. CASE CreateRenderer
    BY <2>1
    DEF CreateRenderer, MainStep, mainVars, fenceVars, swapVars, frameVars, contextVars,
        vars, rendererVars, fixedVars, Go
  <2>2. CASE RendererGivesUp
    BY <2>2
    DEF RendererGivesUp, MainStep, Terminated, rendererVars, frameVars, contextVars,
        fenceVars, swapVars, vars, mainVars, fixedVars, Go
  <2>3. CASE CreateGui
    BY <2>3
    DEF CreateGui, MainStep, mainVars, frameVars, contextVars, fenceVars, swapVars, vars,
        rendererVars, fixedVars, Go
  <2>4. CASE CreateHooking
    BY <2>4
    DEF CreateHooking, MainStep, rendererVars, frameVars, contextVars, fenceVars,
        swapVars, vars, mainVars, fixedVars, Go
  <2>5. CASE CreateHookingThrows
    BY <2>5
    DEF CreateHookingThrows, MainStep, rendererVars, frameVars, contextVars, fenceVars,
        swapVars, vars, mainVars, fixedVars, Go
  <2>6. CASE InstallWndproc
    BY <2>6
    DEF InstallWndproc, MainStep, rendererVars, frameVars, contextVars, fenceVars,
        swapVars, vars, mainVars, fixedVars, Go
  <2>7. CASE StoreWndproc
    BY <2>7
    DEF StoreWndproc, MainStep, rendererVars, frameVars, contextVars, fenceVars,
        swapVars, vars, mainVars, fixedVars, Go
  <2>8. CASE EnableDetours
    BY <2>8
    DEF EnableDetours, MainStep, rendererVars, frameVars, contextVars, fenceVars,
        swapVars, vars, mainVars, fixedVars, Go
  <2>9. CASE EnableThrows
    BY <2>9
    DEF EnableThrows, MainStep, rendererVars, frameVars, contextVars, fenceVars,
        swapVars, vars, mainVars, fixedVars, Go
  <2>10. CASE RestoreWndproc
    BY <2>10
    DEF RestoreWndproc, MainStep, rendererVars, frameVars, contextVars, fenceVars,
        swapVars, vars, mainVars, fixedVars, Go
  <2>11. CASE ApplyQueued
    BY <2>11
    DEF ApplyQueued, MainStep, rendererVars, frameVars, contextVars, fenceVars, swapVars,
        vars, mainVars, fixedVars, Go
  <2>12. CASE DeleteDetours
    <3>1. caught' \subseteq {Render, Window}
      BY <2>12 DEF DeleteDetours, TakeAway
    <3> QED
      BY <2>12, <3>1
      DEF DeleteDetours, MainStep, Go, mainVars, rendererVars, fixedVars, frameVars, contextVars,
          fenceVars, swapVars
  <2>13. CASE ResetHooking
    <3>1. caught' \subseteq {Render, Window}
      BY <2>13 DEF ResetHooking, TakeAway
    <3>2. CASE MainStep("reset", "renderer_reset")
      BY <2>13, <3>1, <3>2
      DEF ResetHooking, MainStep, Go, mainVars, rendererVars, fixedVars, frameVars, contextVars,
          fenceVars, swapVars
    <3>3. CASE MainStep("unwindHooking", "unwindGui")
      BY <2>13, <3>1, <3>3
      DEF ResetHooking, MainStep, Go, mainVars, rendererVars, fixedVars, frameVars, contextVars,
          fenceVars, swapVars
    <3> QED
      BY <2>13, <3>2, <3>3, Zenon DEF ResetHooking
  <2>14. CASE DestroyGui
    <3>1. caught' \subseteq {Render, Window}
      BY <2>14 DEF DestroyGui, TakeAway
    <3>2. CASE MainStep("exit", "unloaded")
      BY <2>14, <3>1, <3>2
      DEF DestroyGui, MainStep, Go, mainVars, rendererVars, fixedVars, frameVars, contextVars,
          fenceVars, swapVars
    <3>3. CASE MainStep("unwindGui", "renderer_reset")
      BY <2>14, <3>1, <3>3
      DEF DestroyGui, MainStep, Go, mainVars, rendererVars, fixedVars, frameVars, contextVars,
          fenceVars, swapVars
    <3> QED
      BY <2>14, <3>2, <3>3, Zenon DEF DestroyGui
  <2>15. CASE ResetRenderer
    <3>1. caught' \subseteq {Render, Window}
      BY <2>15 DEF ResetRenderer, TakeAway
    <3> QED
      BY <2>15, <3>1
      DEF ResetRenderer, MainStep, Go, mainVars, rendererVars, fixedVars, frameVars, contextVars,
          fenceVars, swapVars
  <2>16. CASE ShutdownBackend
    BY <2>16
    DEF ShutdownBackend, MainStep, mainVars, rendererVars, frameVars, contextVars,
        fenceVars, swapVars, vars, fixedVars, Go
  <2>17. CASE DestroyContext
    BY <2>17
    DEF DestroyContext, MainStep, Terminated, mainVars, rendererVars, frameVars,
        contextVars, fenceVars, swapVars, vars, fixedVars, Go
  <2> QED
    BY <1>3, <2>1, <2>2, <2>3, <2>4, <2>5, <2>6, <2>7, <2>8, <2>9, <2>10,
       <2>11, <2>12, <2>13, <2>14, <2>15, <2>16, <2>17 DEF MainWork
<1>4. ASSUME NEW t \in {Main, Render}, WaitForLastFrame(t) \/ AwaitEvent(t) PROVE TypeOK'
  <2>1. CASE WaitForLastFrame(t)
    <3>1. last_frame \in Values
      BY DEF last_frame
    <3>2. m_FenceEvent' \in BOOLEAN /\ awaited' \subseteq Values
      BY <2>1, <3>1
      DEF WaitForLastFrame, RegisterLastFrame, SetEventOnCompletion, frameVars, fenceVars
    <3>3. /\ UNCHANGED <<contextVars, swapVars, completed, gpu, m_FrameIndex,
                       m_FenceLastSignaledValue>>
          /\ UNCHANGED <<resetFor, fixedVars, g_running, rendererVars, mainVars, m_is_open, caught>>
          /\ \/ pc' = [pc EXCEPT ![t] = "event"]
             \/ pc' = [pc EXCEPT ![t] = IF t = Main THEN "shutdown" ELSE "release"]
      BY <2>1
      DEF WaitForLastFrame, RegisterLastFrame, WaitingStep, Go, AfterWait, frameVars,
          fenceVars
    <3> QED
      BY <1>4, <3>2, <3>3
      DEF contextVars, swapVars, fixedVars, rendererVars, mainVars
  <2>2. CASE AwaitEvent(t)
    BY <2>2
    DEF AwaitEvent, WaitingStep, AfterWait, EventConsumed, contextVars, swapVars,
        frameVars, fenceVars, Go, mainVars, rendererVars, fixedVars, vars
  <2> QED
    BY <1>4, <2>1, <2>2
<1>5. CASE GpuNext
  <2>1. Head(gpu) \in Items /\ Tail(gpu) \in Seq(Items) /\ gpu # <<>>
    BY <1>5 DEF GpuNext, Execute, Items
  <2>2. completed' \in Values
    <3>1. Head(gpu) = gpu[1] /\ 1 \in DOMAIN gpu
      BY <2>1
    <3>2. Head(gpu).value <= m_FenceLastSignaledValue
      BY <3>1 DEF Signals
    <3>3. Head(gpu) # Present => Head(gpu).value \in Nat
      BY <2>1 DEF Items, Lists
    <3> QED
      BY <1>5, <3>2, <3>3 DEF GpuNext, Execute, Values
  <2>3. awaited' \subseteq Values /\ m_FenceEvent' \in BOOLEAN
    BY <1>5 DEF GpuNext, Execute
  <2>4. /\ gpu' = Tail(gpu)
        /\ UNCHANGED <<contextVars, swapVars, m_FrameIndex, m_FenceLastSignaledValue>>
        /\ UNCHANGED <<pc, resetFor, fixedVars, g_running, rendererVars, mainVars, m_is_open, caught>>
    BY <1>5 DEF GpuNext, Execute
  <2> QED
    BY <2>1, <2>2, <2>3, <2>4
    DEF contextVars, swapVars, fixedVars, rendererVars, mainVars, Values, Items
<1>6. CASE UNCHANGED vars
  BY <1>6
  DEF vars, mainVars, rendererVars, fixedVars, frameVars, contextVars, fenceVars,
      swapVars
<1> QED
  BY <1>1, <1>2, <1>3, <1>4, <1>5, <1>6 DEF Next

------------------------------------------------------------------------------
(* What the steps of the queue do to the counts *)

LEMMA QueuedIsCount ==
    ASSUME NEW s \in Seq(Items)
    PROVE  Cardinality({i \in DOMAIN s : s[i] = Present}) = Count(s, 0)
  <1>1. {i \in DOMAIN s : s[i] = Present} = Behind(s, 0)
    BY DEF Behind
  <1> QED
    BY <1>1 DEF Count

(* Steps that leave the queue and the swap chain alone keep the rotation. *)
LEMMA RotationKept ==
    ASSUME Rotation, UNCHANGED <<gpu, back_buffer, buffers>>,
           pc[Render] = "present" => pc'[Render] = "present"
    PROVE  Rotation'
  BY DEF Rotation, PresentsAfter

(* A Present moves the swap chain to its next buffer, and every list back by *)
(* one.                                                                      *)
LEMMA RotationShown ==
    ASSUME TypeOK, Rotation, Shown
    PROVE  Rotation'
  <1> USE DEF TypeOK, FramesTypeOK
  <1>1. /\ gpu \in Seq(Items)
        /\ gpu' = Append(gpu, Present)
        /\ gpu' \in Seq(Items)
        /\ UNCHANGED buffers
        /\ back_buffer' = (back_buffer + 1) % buffers
    BY DEF Shown, Items
  <1>3. SUFFICES ASSUME NEW i \in DOMAIN gpu', gpu'[i] # Present
                 PROVE  /\ gpu'[i].context < buffers
                        /\ \/ Count(gpu', i) >= buffers
                           \/ back_buffer' = gpu'[i].context + Count(gpu', i)
                           \/ back_buffer' = gpu'[i].context + Count(gpu', i) - buffers
                        /\ Count(gpu', i) # 0
    BY <1>1 DEF Rotation, PresentsAfter
  <1>4. i \in DOMAIN gpu /\ gpu'[i] = gpu[i] /\ i \in 0 .. Len(gpu) /\ i \in Nat
    BY <1>1, <1>3
  <1>5. Count(gpu', i) = Count(gpu, i) + 1
    BY <1>1, <1>4, CountAppend DEF Items
  <1>6. Count(gpu, i) \in Nat
    BY <1>1, <1>4, CountType
  <1>7. gpu[i] \in Lists /\ gpu[i].context \in Nat
    BY <1>3, <1>4, FramesAssumption DEF Items, Lists, Contexts
  <1>8. /\ gpu[i].context < buffers
        /\ \/ Count(gpu, i) >= buffers
           \/ back_buffer = gpu[i].context + Count(gpu, i)
           \/ back_buffer = gpu[i].context + Count(gpu, i) - buffers
    BY <1>3, <1>4 DEF Rotation, PresentsAfter
  <1>9. back_buffer' = IF back_buffer + 1 < buffers THEN back_buffer + 1 ELSE 0
    BY <1>1, BuffersAreThere, Turn
  <1>10. buffers \in Nat \ {0} /\ back_buffer \in 0 .. buffers - 1
    BY BuffersAreThere
  <1> DEFINE c == gpu[i].context
             n == Count(gpu, i)
  <1>11. c \in Nat /\ n \in Nat
    BY <1>6, <1>7
  <1>12. \/ n + 1 >= buffers
         \/ back_buffer' = c + (n + 1)
         \/ back_buffer' = c + (n + 1) - buffers
    <2> HIDE DEF c, n, TypeOK, FramesTypeOK
    <2>1. /\ c < buffers
          /\ n >= buffers \/ back_buffer = c + n \/ back_buffer = c + n - buffers
      BY <1>8 DEF c, n
    <2> QED
      BY <1>9, <1>10, <1>11, <2>1
  <1> QED
    BY <1>4, <1>5, <1>8, <1>11, <1>12

(* The GPU takes an item from the queue's front; nothing changes for the rest. *)
LEMMA RotationExecuted ==
    ASSUME TypeOK, Rotation, Execute, UNCHANGED pc
    PROVE  Rotation'
  <1> USE DEF TypeOK, FramesTypeOK
  <1>1. /\ gpu \in Seq(Items) /\ gpu # <<>>
        /\ gpu' = Tail(gpu)
        /\ UNCHANGED <<buffers, back_buffer>>
    BY DEF Execute, Items, swapVars
  <1>2. SUFFICES ASSUME NEW i \in DOMAIN gpu', gpu'[i] # Present
                 PROVE  /\ gpu'[i].context < buffers
                        /\ \/ Count(gpu', i) >= buffers
                           \/ back_buffer = gpu'[i].context + Count(gpu', i)
                           \/ back_buffer = gpu'[i].context + Count(gpu', i) - buffers
                        /\ pc[Render] # "present" => Count(gpu', i) # 0
    BY <1>1 DEF Rotation, PresentsAfter
  <1>3. i + 1 \in DOMAIN gpu /\ gpu'[i] = gpu[i + 1] /\ i \in 0 .. Len(gpu) - 1
    BY <1>1, <1>2
  <1>4. Count(gpu', i) = Count(gpu, i + 1)
    BY <1>1, <1>3, CountTail
  <1> QED
    BY <1>2, <1>3, <1>4 DEF Rotation, PresentsAfter

(* A list is recorded for the buffer that the swap chain is at. *)
LEMMA RotationSubmitted ==
    ASSUME TypeOK, TypeOK', Rotation, Submit, back_buffer \in Contexts,
           pc[Render] # "present", pc'[Render] = "present"
    PROVE  Rotation'
  <1> USE DEF TypeOK, FramesTypeOK
  <1> DEFINE item == [context |-> back_buffer, value |-> m_FenceLastSignaledValue']
  <1>1. /\ gpu \in Seq(Items)
        /\ gpu' \in Seq(Items)
        /\ gpu' = Append(gpu, item)
        /\ UNCHANGED <<buffers, back_buffer>>
    BY DEF Submit, Items, swapVars
  <1>2. item # Present /\ item.context = back_buffer
    BY FramesAssumption DEF Present, Contexts
  <1>3. item \in Items
    <2>1. gpu'[Len(gpu) + 1] = item /\ Len(gpu) + 1 \in DOMAIN gpu'
      BY <1>1
    <2> QED
      BY <1>1, <2>1
  <1> HIDE DEF item
  <1>4. SUFFICES ASSUME NEW i \in DOMAIN gpu', gpu'[i] # Present
                 PROVE  /\ gpu'[i].context < buffers
                        /\ \/ Count(gpu', i) >= buffers
                           \/ back_buffer = gpu'[i].context + Count(gpu', i)
                           \/ back_buffer = gpu'[i].context + Count(gpu', i) - buffers
    BY <1>1 DEF Rotation, PresentsAfter
  <1>5. i \in 0 .. Len(gpu) => Count(gpu', i) = Count(gpu, i)
    BY <1>1, <1>2, <1>3, CountAppend
  <1>6. CASE i \in DOMAIN gpu
    <2>1. gpu'[i] = gpu[i] /\ i \in 0 .. Len(gpu)
      BY <1>1, <1>6
    <2> QED
      BY <1>4, <1>5, <1>6, <2>1 DEF Rotation, PresentsAfter
  <1>7. CASE i = Len(gpu) + 1
    <2>1. gpu'[i] = item
      BY <1>1, <1>7
    <2>2. Behind(gpu', i) = {}
      BY <1>1, <1>7 DEF Behind
    <2>3. Count(gpu', i) = 0
      BY <2>2, FS_EmptySet DEF Count
    <2>4. back_buffer \in Nat /\ back_buffer < buffers
      BY BuffersAreThere
    <2> QED
      BY <1>2, <2>1, <2>3, <2>4
  <1> QED
    BY <1>1, <1>4, <1>6, <1>7

(* A reset or resize finds no list in the queue. *)
LEMMA RotationResized ==
    ASSUME gpu = <<>>, UNCHANGED gpu
    PROVE  Rotation'
  BY DEF Rotation

(* Every step keeps the lists behind the swap chain. *)
LEMMA RotationStep ==
    ASSUME TypeOK, TypeOK', Drained, Rotation, [Next]_vars
    PROVE  Rotation'
<1> USE OverlayAssumption DEF TypeOK, Threads
<1>1. CASE RenderNext
  <2>1. CASE PresentUnhooked
    BY <2>1, RotationShown
    DEF PresentUnhooked, GamePresents, mainVars, rendererVars, fixedVars, vars,
        frameVars, contextVars, fenceVars, swapVars
  <2>2. ASSUME NEW test \in BOOLEAN, EnterPresent(test) PROVE Rotation'
    BY <2>2, RotationKept
    DEF EnterPresent, RenderStep, GamePresents, frameVars, contextVars, fenceVars,
        swapVars, Go, mainVars, rendererVars, fixedVars, vars
  <2>3. CASE Draw
    BY <2>3, RotationKept
    DEF Draw, RenderStep, ResizingSet, frameVars, fenceVars, swapVars, contextVars, Go,
        mainVars, rendererVars, fixedVars, vars
  <2>4. CASE PreReset
    BY <2>4, RotationKept
    DEF PreReset, RenderStep, ResourcesReleased, frameVars, contextVars, fenceVars,
        swapVars, Go, mainVars, rendererVars, fixedVars, vars
  <2>5. CASE PostReset
    BY <2>5, RotationKept
    DEF PostReset, RenderStep, ResourcesTaken, fenceVars, swapVars, frameVars,
        contextVars, ResizingSet, Go, mainVars, rendererVars, fixedVars, vars
  <2>6. CASE WaitForNextFrame
    BY <2>6, RotationKept
    DEF WaitForNextFrame, RenderStep, NextFrame, contextVars, swapVars, frameVars,
        fenceVars, Go, mainVars, rendererVars, fixedVars, vars
  <2>7. CASE SubmitFrame
    BY <2>7, RotationSubmitted
    DEF SubmitFrame, RenderStep, fenceVars, swapVars, frameVars, contextVars, Go,
        mainVars, rendererVars, fixedVars, vars, Alive, Dangling, RenderDangles
  <2>8. CASE PresentOriginal
    BY <2>8, RotationShown
    DEF PresentOriginal, RenderStep, contextVars, fenceVars, frameVars, swapVars, Go,
        mainVars, rendererVars, fixedVars, vars
  <2>9. CASE TestOriginal
    BY <2>9, RotationKept
    DEF TestOriginal, RenderStep, frameVars, contextVars, fenceVars, swapVars, Go,
        mainVars, rendererVars, fixedVars, vars
  <2>10. CASE EnterResizeBuffers
    BY <2>10, RotationKept
    DEF EnterResizeBuffers, RenderStep, ResizingSet, fenceVars, swapVars, frameVars,
        contextVars, Go, mainVars, rendererVars, fixedVars, vars
  <2>11. CASE ResizeOriginal
    BY <2>11, RotationResized
    DEF ResizeOriginal, RenderStep, Resized, contextVars, fenceVars, frameVars, swapVars,
        Go, mainVars, rendererVars, fixedVars, vars, Drained
  <2> QED
    BY <1>1, <2>1, <2>2, <2>3, <2>4, <2>5, <2>6, <2>7,
       <2>8, <2>9, <2>10, <2>11 DEF RenderNext
<1>2. CASE WindowNext
  <2>1. ASSUME NEW kind \in {"key", "message"}, Message(kind) PROVE Rotation'
    BY <2>1, RotationKept
    DEF Message, WindowStep, Go, mainVars, rendererVars, fixedVars, frameVars,
        contextVars, fenceVars, swapVars, vars
  <2>2. CASE MenuToggle
    BY <2>2, RotationKept
    DEF MenuToggle, WindowStep, Go, mainVars, rendererVars, fixedVars, frameVars,
        contextVars, fenceVars, swapVars, vars
  <2>3. CASE OtherMessage
    BY <2>3, RotationKept
    DEF OtherMessage, WindowStep, Go, mainVars, rendererVars, fixedVars, frameVars,
        contextVars, fenceVars, swapVars, vars
  <2>4. CASE CallOriginal
    BY <2>4, RotationKept
    DEF CallOriginal, WindowStep, Go, mainVars, rendererVars, fixedVars, frameVars,
        contextVars, fenceVars, swapVars, vars
  <2> QED
    BY <1>2, <2>1, <2>2, <2>3, <2>4 DEF WindowNext, WindowWork
<1>3. CASE MainWork
  <2>1. CASE CreateRenderer
    BY <2>1, RotationKept
    DEF CreateRenderer, MainStep, mainVars, fenceVars, swapVars, frameVars, contextVars,
        vars, rendererVars, fixedVars, Go
  <2>2. CASE RendererGivesUp
    BY <2>2, RotationKept
    DEF RendererGivesUp, MainStep, Terminated, rendererVars, frameVars, contextVars,
        fenceVars, swapVars, vars, mainVars, fixedVars, Go
  <2>3. CASE CreateGui
    BY <2>3, RotationKept
    DEF CreateGui, MainStep, mainVars, frameVars, contextVars, fenceVars, swapVars, vars,
        rendererVars, fixedVars, Go
  <2>4. CASE CreateHooking
    BY <2>4, RotationKept
    DEF CreateHooking, MainStep, rendererVars, frameVars, contextVars, fenceVars,
        swapVars, vars, mainVars, fixedVars, Go
  <2>5. CASE CreateHookingThrows
    BY <2>5, RotationKept
    DEF CreateHookingThrows, MainStep, rendererVars, frameVars, contextVars, fenceVars,
        swapVars, vars, mainVars, fixedVars, Go
  <2>6. CASE InstallWndproc
    BY <2>6, RotationKept
    DEF InstallWndproc, MainStep, rendererVars, frameVars, contextVars, fenceVars,
        swapVars, vars, mainVars, fixedVars, Go
  <2>7. CASE StoreWndproc
    BY <2>7, RotationKept
    DEF StoreWndproc, MainStep, rendererVars, frameVars, contextVars, fenceVars,
        swapVars, vars, mainVars, fixedVars, Go
  <2>8. CASE EnableDetours
    BY <2>8, RotationKept
    DEF EnableDetours, MainStep, rendererVars, frameVars, contextVars, fenceVars,
        swapVars, vars, mainVars, fixedVars, Go
  <2>9. CASE EnableThrows
    BY <2>9, RotationKept
    DEF EnableThrows, MainStep, rendererVars, frameVars, contextVars, fenceVars,
        swapVars, vars, mainVars, fixedVars, Go
  <2>10. CASE RestoreWndproc
    BY <2>10, RotationKept
    DEF RestoreWndproc, MainStep, rendererVars, frameVars, contextVars, fenceVars,
        swapVars, vars, mainVars, fixedVars, Go
  <2>11. CASE ApplyQueued
    BY <2>11, RotationKept
    DEF ApplyQueued, MainStep, rendererVars, frameVars, contextVars, fenceVars, swapVars,
        vars, mainVars, fixedVars, Go
  <2>12. CASE DeleteDetours
    BY <2>12, RotationKept
    DEF DeleteDetours, MainStep, TakeAway, rendererVars, frameVars, contextVars,
        fenceVars, swapVars, vars, mainVars, fixedVars, Go
  <2>13. CASE ResetHooking
    BY <2>13, RotationKept
    DEF ResetHooking, MainStep, TakeAway, rendererVars, frameVars, contextVars,
        fenceVars, swapVars, vars, mainVars, fixedVars, Go
  <2>14. CASE DestroyGui
    BY <2>14, RotationKept
    DEF DestroyGui, MainStep, TakeAway, mainVars, frameVars, contextVars, fenceVars,
        swapVars, vars, rendererVars, fixedVars, Go
  <2>15. CASE ResetRenderer
    BY <2>15, RotationKept
    DEF ResetRenderer, MainStep, TakeAway, mainVars, frameVars, contextVars, fenceVars,
        swapVars, vars, rendererVars, fixedVars, Go
  <2>16. CASE ShutdownBackend
    BY <2>16, RotationKept
    DEF ShutdownBackend, MainStep, mainVars, rendererVars, frameVars, contextVars,
        fenceVars, swapVars, vars, fixedVars, Go
  <2>17. CASE DestroyContext
    BY <2>17, RotationKept
    DEF DestroyContext, MainStep, Terminated, mainVars, rendererVars, frameVars,
        contextVars, fenceVars, swapVars, vars, fixedVars, Go
  <2> QED
    BY <1>3, <2>1, <2>2, <2>3, <2>4, <2>5, <2>6, <2>7, <2>8, <2>9, <2>10,
       <2>11, <2>12, <2>13, <2>14, <2>15, <2>16, <2>17 DEF MainWork
<1>4. ASSUME NEW t \in {Main, Render}, WaitForLastFrame(t) \/ AwaitEvent(t) PROVE Rotation'
  <2>1. CASE WaitForLastFrame(t)
    BY <2>1, RotationKept
    DEF WaitForLastFrame, WaitingStep, MustWait, AfterWait, RegisterLastFrame, frameVars,
        contextVars, fenceVars, swapVars, Go, mainVars, rendererVars, fixedVars, vars
  <2>2. CASE AwaitEvent(t)
    BY <2>2, RotationKept
    DEF AwaitEvent, WaitingStep, AfterWait, EventConsumed, contextVars, swapVars,
        frameVars, fenceVars, Go, mainVars, rendererVars, fixedVars, vars
  <2> QED
    BY <1>4, <2>1, <2>2
<1>5. CASE GpuNext
  BY <1>5, RotationExecuted
  DEF GpuNext, mainVars, rendererVars, fixedVars, vars, frameVars, contextVars,
      fenceVars, swapVars
<1>6. CASE UNCHANGED vars
  BY <1>6, RotationKept
  DEF vars, mainVars, rendererVars, fixedVars, frameVars, contextVars, fenceVars,
      swapVars
<1> QED
  BY <1>1, <1>2, <1>3, <1>4, <1>5, <1>6 DEF Next

------------------------------------------------------------------------------
(* The theorems *)

(* The invariant holds when the library is injected. *)
LEMMA InitIInv == Init => IInv
  <1> SUFFICES ASSUME Init PROVE IInv
    OBVIOUS
  <1> USE DEF Init, FramesInit
  <1>1. TypeOK
    <2>1. BufferCount \in Nat \ {0} /\ buffers = BufferCount /\ 0 \in Contexts
      BY FramesAssumption DEF Contexts
    <2>2. FramesTypeOK
      BY <2>1, FramesAssumption DEF FramesTypeOK, Values, Contexts
    <2> QED
      BY <2>2, OverlayAssumption DEF TypeOK, Threads
  <1>2. Phases /\ Inside
    BY OverlayAssumption DEF Phases, Inside, Threads, Starting, Unwinding, Unhooked
  <1>3. Buffers
    <2>1. \A i \in Contexts : m_Resource[i] = TRUE /\ i < buffers
      BY FramesAssumption DEF Contexts
    <2> QED
      BY <2>1, OverlayAssumption DEF Buffers, Threads, Resetting
  <1>4. Fonts /\ Drained /\ Rotation /\ Signals
    BY OverlayAssumption
    DEF Fonts, Drained, Rotation, Signals, Threads, Starting, Busy, ToSet
  <1> QED
    BY <1>1, <1>2, <1>3, <1>4 DEF IInv

LEMMA StepIInv == IInv /\ [Next]_vars => IInv'
  <1> SUFFICES ASSUME IInv, [Next]_vars PROVE IInv'
    OBVIOUS
  <1>1. /\ TypeOK /\ Phases /\ Inside /\ Buffers /\ Fonts /\ Drained /\ Rotation
        /\ Signals
    BY DEF IInv
  <1>2. TypeOK' /\ Phases' /\ Inside' /\ Buffers' /\ Fonts' /\ Drained' /\ Signals'
    BY <1>1, TypeStep, PhasesStep, InsideStep, BuffersStep, FontsStep, DrainedStep, SignalsStep
  <1>3. Rotation'
    BY <1>1, <1>2, RotationStep
  <1> QED
    BY <1>2, <1>3 DEF IInv

THEOREM Invariance == Spec => []IInv
  BY InitIInv, StepIInv, PTL DEF Spec

(* Every variable of the three threads, the renderer and the GPU keeps its *)
(* type: the fence's values are handed out before they are awaited or      *)
(* completed, and the counters stay in the swap chain and the contexts.    *)
THEOREM TypeCorrect == Spec => []TypeOK
  <1>1. IInv => TypeOK
    BY DEF IInv
  <1> QED
    BY Invariance, <1>1, PTL

(* The hooks swapchain_present, swapchain_resizebuffers and wndproc, and the *)
(* main thread, use what is not there in the listed cases only: each thread  *)
(* at its places, whatever the other two have done.                          *)
THEOREM OnlyKnownDangling == Spec => []KnownDangling
  <1>1. IInv => KnownDangling
    <2> SUFFICES ASSUME IInv PROVE KnownDangling
      OBVIOUS
    <2> USE DEF IInv
    <2>1. ASSUME MainDangles
          PROVE  pc[Main] \in {"gui", "shutdown"} /\ g_is_enhanced
      BY <2>1 DEF MainDangles, Phases
    <2>2. ASSUME WindowDangles, Window \notin caught
          PROVE  \/ pc[Window] = "call" /\ pc[Main] = "store"
                 \/ failed /\ wndproc = "ours"
      BY <2>2 DEF WindowDangles, Phases, Inside
    <2>3. ASSUME RenderDangles, Render \notin caught
          PROVE  \/ pc[Render] = "submit" /\ buffers > BufferCount
                 \/ pc[Render] = "release" /\ buffers < BufferCount
      <3>1. pc[Render] # "game" => g_renderer /\ detours # "deleted"
        BY <2>3 DEF Phases, Inside, Unhooked
      <3>2. buffers \in Nat /\ BufferCount \in Nat
        BY FramesAssumption DEF TypeOK, FramesTypeOK
      <3>3. CASE pc[Render] = "submit" /\ back_buffer \notin Contexts
        BY <3>2, <3>3 DEF TypeOK, FramesTypeOK, Contexts
      <3>4. CASE pc[Render] = "release" /\ g_is_enhanced /\ \E i \in Contexts : ~m_Resource[i]
        <4>1. PICK i \in Contexts : ~m_Resource[i]
          BY <3>4
        <4>2. ~(i < buffers)
          BY <3>4, <4>1 DEF Buffers
        <4> QED
          BY <3>2, <3>4, <4>1, <4>2 DEF Contexts
      <3> QED
        BY <2>3, <3>1, <3>3, <3>4 DEF RenderDangles, InRenderer
    <2> QED
      BY <2>1, <2>2, <2>3 DEF KnownDangling
  <1> QED
    BY Invariance, <1>1, PTL

(* end_frame resets a command allocator that a list the GPU has still to     *)
(* execute was recorded with only when the GPU is a whole round of back      *)
(* buffers behind, whatever their number; pre_reset gives the back buffers   *)
(* up when no list of ours is queued.                                        *)
THEOREM IdleOrBehind == Spec => []IdleUnlessBehind
  <1>1. IInv => IdleUnlessBehind
    <2> SUFFICES ASSUME IInv PROVE IdleUnlessBehind
      OBVIOUS
    <2>1. ASSUME pc[Render] = "submit", InUse(back_buffer) PROVE Queued >= buffers
      <3>1. PICK i \in DOMAIN gpu : gpu[i] # Present /\ gpu[i].context = back_buffer
        BY <2>1 DEF InUse, ToSet
      <3>2. gpu \in Seq(Items) /\ i \in Nat
        BY <3>1 DEF IInv, TypeOK, FramesTypeOK, Items
      <3>3. Count(gpu, i) \in Nat /\ Count(gpu, 0) \in Nat /\ Count(gpu, i) <= Count(gpu, 0)
        BY <3>2, CountType
      <3>4. Queued = Count(gpu, 0)
        BY <3>2, QueuedIsCount DEF Queued
      <3>5. /\ \/ Count(gpu, i) >= buffers
               \/ back_buffer = back_buffer + Count(gpu, i)
               \/ back_buffer = back_buffer + Count(gpu, i) - buffers
            /\ Count(gpu, i) # 0
        BY <2>1, <3>1 DEF IInv, Rotation, PresentsAfter
      <3>6. buffers \in Nat /\ back_buffer \in Nat
        BY BuffersAreThere DEF IInv, TypeOK, FramesTypeOK
      <3> QED
        BY <3>3, <3>4, <3>5, <3>6
    <2>2. ASSUME pc[Render] = "release" PROVE ~Busy
      <3>1. resetFor \in {"fonts", "resize"}
        BY <2>2 DEF IInv, TypeOK, Buffers, Resetting
      <3>2. CASE resetFor = "fonts"
        BY <3>2 DEF IInv, Fonts
      <3>3. CASE resetFor = "resize"
        BY <3>3 DEF IInv, Drained, Busy, ToSet
      <3> QED
        BY <3>1, <3>2, <3>3
    <2> QED
      BY <2>1, <2>2 DEF IdleUnlessBehind
  <1> QED
    BY Invariance, <1>1, PTL
==============================================================================
