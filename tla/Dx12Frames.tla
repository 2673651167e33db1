------------------------------ MODULE Dx12Frames ------------------------------
(***************************************************************************)
(* The DirectX 12 renderer's frames (renderer_dx12.cpp): one frame context *)
(* per back buffer, each with a command allocator and the fence value that *)
(* its last command list signals; the fence and its event; the GPU behind  *)
(* the game's command queue; and the swap chain.                           *)
(*                                                                         *)
(* This module has the operations; who calls them, and when, is in         *)
(* Overlay.                                                                *)
(***************************************************************************)
EXTENDS Naturals, FiniteSets, Sequences, SequencesExt

CONSTANTS
    BufferCount,    \* m_SwapChainDesc.BufferCount, when the renderer was made
    BufferCounts,   \* the numbers of buffers the game asks ResizeBuffers for
    MaxPresents     \* bound on the game's Presents

ASSUME FramesAssumption ==
    /\ BufferCounts \subseteq Nat \ {0}
    /\ BufferCount \in BufferCounts
    /\ MaxPresents \in Nat

VARIABLES
    m_FenceValue,       \* m_FrameContext[i].FenceValue
    m_Resource,         \* is m_FrameContext[i].Resource a back buffer, or null?
    m_FrameIndex,       \* modulo BufferCount, its only use
    m_FenceLastSignaledValue,
    m_FontsUpdated,
    m_Resizing,
    m_FenceEvent,       \* is the event, which resets itself, signalled?
    awaited,            \* the fence values that will signal it
    completed,          \* m_Fence->GetCompletedValue()
    gpu,                \* what the queue has still to execute: lists and Presents
    back_buffer,        \* GetCurrentBackBufferIndex()
    buffers,            \* how many back buffers the swap chain has
    presents            \* how many Presents there have been

contextVars == <<m_FenceValue, m_Resource, m_FontsUpdated, m_Resizing>>
fenceVars == <<m_FenceEvent, awaited, completed>>
swapVars == <<back_buffer, buffers, presents>>
frameVars == <<contextVars, fenceVars, swapVars, gpu, m_FrameIndex, m_FenceLastSignaledValue>>

Contexts == 0 .. BufferCount - 1

\* A command list was recorded with a context's allocator, and signals a value.
Lists == [context : Contexts, value : Nat]
Present == [context |-> BufferCount, value |-> 0]

Values == 0 .. m_FenceLastSignaledValue

FramesTypeOK ==
    /\ m_FenceValue \in [Contexts -> Values]
    /\ m_Resource \in [Contexts -> BOOLEAN]
    /\ m_FrameIndex \in Contexts
    /\ m_FenceLastSignaledValue \in Nat
    /\ m_FontsUpdated \in BOOLEAN
    /\ m_Resizing \in BOOLEAN
    /\ m_FenceEvent \in BOOLEAN
    /\ awaited \subseteq Values
    /\ completed \in Values
    /\ gpu \in Seq(Lists \cup {Present})
    /\ buffers \in BufferCounts
    /\ back_buffer \in 0 .. buffers - 1
    /\ presents \in Nat

\* The swap chain may show any of its buffers when the renderer is made.
FramesInit ==
    /\ m_FenceValue = [i \in Contexts |-> 0]
    /\ m_Resource = [i \in Contexts |-> TRUE]
    /\ m_FrameIndex = 0
    /\ m_FenceLastSignaledValue = 0
    /\ m_FontsUpdated = FALSE
    /\ m_Resizing = FALSE
    /\ m_FenceEvent = FALSE
    /\ awaited = {}
    /\ completed = 0
    /\ gpu = <<>>
    /\ buffers = BufferCount
    /\ back_buffer \in Contexts
    /\ presents = 0

------------------------------------------------------------------------------
(* The GPU, the swap chain and the event (external) *)

\* The queue executes in order; a list's fence value follows it.
Execute ==
    /\ gpu # <<>>
    /\ gpu' = Tail(gpu)
    /\ completed' = IF Head(gpu) = Present THEN completed ELSE Head(gpu).value
    /\ awaited' = {v \in awaited : v > completed'}
    /\ m_FenceEvent' = (m_FenceEvent \/ awaited' # awaited)
    /\ UNCHANGED <<contextVars, swapVars, m_FrameIndex, m_FenceLastSignaledValue>>

\* How many Presents the GPU has not reached.
Queued == Cardinality({i \in DOMAIN gpu : gpu[i] = Present})

Shown ==
    /\ gpu' = Append(gpu, Present)
    /\ back_buffer' = (back_buffer + 1) % buffers
    /\ presents' = presents + 1
    /\ UNCHANGED <<contextVars, fenceVars, buffers, m_FrameIndex, m_FenceLastSignaledValue>>

Resized ==
    /\ buffers' \in BufferCounts
    /\ back_buffer' = 0
    /\ UNCHANGED <<contextVars, fenceVars, gpu, presents, m_FrameIndex, m_FenceLastSignaledValue>>

\* SetEventOnCompletion signals at once for a value already completed.
SetEventOnCompletion(v) ==
    IF completed >= v
    THEN m_FenceEvent' = TRUE /\ UNCHANGED awaited
    ELSE awaited' = awaited \cup {v} /\ UNCHANGED m_FenceEvent

------------------------------------------------------------------------------
(* wait_for_last_frame *)

last_frame == m_FenceValue[m_FrameIndex]

\* Neither early return is taken.  The value set to zero is that of a copy.
MustWait == last_frame # 0 /\ completed < last_frame

\* Mutation: the fence is not told of the event.
RegisterNothing ==
    /\ UNCHANGED <<contextVars, swapVars, fenceVars, gpu, m_FrameIndex, m_FenceLastSignaledValue>>

RegisterLastFrame ==
    /\ SetEventOnCompletion(last_frame)
    /\ UNCHANGED <<contextVars, swapVars, completed, gpu, m_FrameIndex, m_FenceLastSignaledValue>>

\* WaitForSingleObject returns, and the event resets itself.
EventConsumed ==
    /\ m_FenceEvent
    /\ m_FenceEvent' = FALSE
    /\ UNCHANGED <<contextVars, swapVars, awaited, completed, gpu, m_FrameIndex,
                   m_FenceLastSignaledValue>>

------------------------------------------------------------------------------
(* pre_reset, post_reset *)

\* set_resizing(true)
ResizingSet(status) == m_Resizing' = status

\* InvalidateDeviceObjects, then REL for each context.
ResourcesReleased ==
    /\ m_Resource' = [i \in Contexts |-> FALSE]
    /\ UNCHANGED <<m_FenceValue, m_FontsUpdated, m_Resizing, fenceVars, swapVars, gpu,
                   m_FrameIndex, m_FenceLastSignaledValue>>

\* GetBuffer fails for an index the swap chain has not.
ResourcesTaken ==
    /\ m_Resource' = [i \in Contexts |-> i < buffers]
    /\ ResizingSet(FALSE)
    /\ UNCHANGED <<m_FenceValue, fenceVars, swapVars, gpu, m_FrameIndex,
                   m_FenceLastSignaledValue>>

------------------------------------------------------------------------------
(* end_frame *)

\* Mutation: the index of the frame is not taken modulo the number of frames.
NextFrameUnwrapped ==
    /\ m_FrameIndex' = m_FrameIndex + 1
    /\ SetEventOnCompletion(m_FenceValue[m_FrameIndex])
    /\ UNCHANGED <<contextVars, swapVars, completed, gpu, m_FenceLastSignaledValue>>

\* wait_for_next_frame.  The waitable object is a null handle, with which
\* WaitForMultipleObjects fails at once: nothing is waited for.
NextFrame ==
    /\ m_FrameIndex' = (m_FrameIndex + 1) % BufferCount
    /\ IF m_FenceValue[m_FrameIndex'] # 0
       THEN SetEventOnCompletion(m_FenceValue[m_FrameIndex'])
       ELSE UNCHANGED <<m_FenceEvent, awaited>>
    /\ UNCHANGED <<contextVars, swapVars, completed, gpu, m_FenceLastSignaledValue>>

\* Mutation: one command allocator for all frames.
SubmitFromFirst ==
    /\ m_FenceLastSignaledValue' = m_FenceLastSignaledValue + 1
    /\ gpu' = Append(gpu, [context |-> 0, value |-> m_FenceLastSignaledValue'])
    /\ m_FenceValue' = [m_FenceValue EXCEPT ![0] = m_FenceLastSignaledValue']
    /\ UNCHANGED <<m_Resource, m_FontsUpdated, m_Resizing, fenceVars, swapVars, m_FrameIndex>>

\* The allocator of the back buffer's context is reset, the list recorded and
\* executed, and the fence signalled behind it.
Submit ==
    /\ m_FenceLastSignaledValue' = m_FenceLastSignaledValue + 1
    /\ gpu' = Append(gpu, [context |-> back_buffer, value |-> m_FenceLastSignaledValue'])
    /\ m_FenceValue' = [m_FenceValue EXCEPT ![back_buffer] = m_FenceLastSignaledValue']
    /\ UNCHANGED <<m_Resource, m_FontsUpdated, m_Resizing, fenceVars, swapVars, m_FrameIndex>>

------------------------------------------------------------------------------
(* What the renderer's callers rely on *)

\* Does the GPU have a list to execute that was recorded with i's allocator?
InUse(i) == \E item \in ToSet(gpu) : item # Present /\ item.context = i

\* Does it have any of ours?
Busy == \E item \in ToSet(gpu) : item # Present
==============================================================================
