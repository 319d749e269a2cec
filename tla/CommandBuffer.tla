---------------------------- MODULE CommandBuffer ----------------------------
(***************************************************************************)
(* Command buffers: allocation, recording and freeing                      *)
(* (src/src/objects/command_buffer.c) and the vkCmd* calls that record     *)
(* into them (src/src/commands/*.c), over the WebGPU encoder they drive.   *)
(*                                                                         *)
(* The caller is a Vulkan application.  It makes every call the code has   *)
(* an answer for, the ones it refuses or ignores included, and otherwise   *)
(* keeps to the Vulkan contract where the code relies on it without        *)
(* checking.  ClientUses names the features an application may add to     *)
(* that: each is legal Vulkan, and each is one the code treats differently *)
(* from Vulkan, so runs and theorems say which of them they admit.         *)
(*                                                                         *)
(* Two history variables say what Vulkan promises: vk[c] is the state      *)
(* bound since the recording began, intended[c] the commands recorded.     *)
(***************************************************************************)
EXTENDS Naturals, Sequences, FiniteSets

CONSTANTS
  Cmds,               \* VkCommandBuffer handles
  Encoders,           \* WebGPU command encoders the device can create
  GraphicsPipelines,
  ComputePipelines,
  Buffers,
  Sets,               \* descriptor sets that have been written
  DynamicStates,      \* kinds of dynamic state the application sets
  DynamicValues,      \* what it sets them to
  VertexSlots,        \* 0 .. WGVK_MAX_VERTEX_BUFFERS - 1
  GroupSlots,         \* 0 .. WGVK_MAX_BIND_GROUPS - 1
  ClientUses,         \* subset of ClientFeatures
  MaxCommands,        \* bound on the commands of one recording
  NULL

INSTANCE WebGPU

\* "early_bind": begins a render pass after setting buffers, descriptor sets,
\*               dynamic state or a compute pipeline in the same recording.
\* "compute":    binds compute pipelines and dispatches.
\* "rerecord":   begins a command buffer that was recorded before.
\* "free_open":  frees a command buffer inside a render pass.
\* "resubmit":   submits a command buffer more than once (see Submission).
\* "ignored_state":    sets dynamic state that the code ignores.
\* "dropped_transfer": makes transfers that the code does not record.
\* "late_failure": meets a vkQueueSubmit that fails after its first batch.
\* "early_wait":   waits for a fence that nothing has signaled.
ClientFeatures ==
  {"early_bind", "compute", "rerecord", "free_open", "resubmit",
   "ignored_state", "dropped_transfer", "late_failure", "early_wait"}

ASSUME ClientAssumption == ClientUses \subseteq ClientFeatures

ASSUME NullAssumption ==
  NULL \notin Cmds \cup Encoders \cup GraphicsPipelines \cup ComputePipelines
              \cup Buffers \cup Sets \cup DynamicValues

\* State that a WebGPU pass has a call for, and state that it has not.
ForwardedStates ==
  {"viewport", "scissor", "blend_constants", "stencil_reference"}

IgnoredStates ==
  {"line_width", "depth_bias", "depth_bounds", "stencil_compare_mask",
   "stencil_write_mask"}

ASSUME StateAssumption == DynamicStates \subseteq ForwardedStates \cup IgnoredStates

ASSUME PipelineAssumption == GraphicsPipelines \cap ComputePipelines = {}

ASSUME SlotAssumption ==
  /\ VertexSlots \subseteq Nat
  /\ GroupSlots \subseteq Nat
  /\ MaxCommands \in Nat

VARIABLES
  handle,                 \* "none", "live" or "freed"
  wgpu_encoder,
  wgpu_render_pass,       \* named by the encoder it was begun on
  wgpu_compute_pass,
  recording,
  in_render_pass,
  in_compute_pass,
  bound_pipeline,
  bound_vertex_buffers,
  bound_index_buffer,
  bound_descriptor_sets,
  encoder,                \* WebGPU: the encoders themselves
  vk,                     \* history: what Vulkan says is bound
  intended                \* history: what Vulkan says is recorded

cmdVars == << wgpu_encoder, wgpu_render_pass, wgpu_compute_pass, recording,
              in_render_pass, in_compute_pass >>
boundVars == << bound_pipeline, bound_vertex_buffers, bound_index_buffer,
                bound_descriptor_sets >>
vars == << handle, cmdVars, boundVars, encoder, vk, intended >>

Pipelines == GraphicsPipelines \cup ComputePipelines

Maybe(S) == S \cup {NULL}

NothingBound ==
  [ graphics |-> NULL, compute |-> NULL,
    vertex |-> [s \in VertexSlots |-> NULL], index |-> NULL,
    groups |-> [s \in GroupSlots |-> NULL],
    dynamic |-> [k \in DynamicStates |-> NULL] ]

-----------------------------------------------------------------------------
(* What plausible mistakes in the code below would do instead.             *)

\* Freeing forgets the encoder.
EncoderForgotten(c) == encoder

\* Ending a command buffer forgets an open render pass.
OpenPassForgotten(c) == encoder

\* Ending a command buffer already releases its encoder.
ReleasedAtEnd(c) ==
  [encoder EXCEPT ![wgpu_encoder[c]] =
     IF in_render_pass[c] THEN [PassEnded(@) EXCEPT !.held = FALSE]
     ELSE [@ EXCEPT !.held = FALSE]]

\* Beginning does not look at the recording flag.
MayAlwaysBegin(c) ==
  /\ handle[c] = "live"
  /\ wgpu_encoder[c] # NULL => "rerecord" \in ClientUses

\* A binding is kept in the command buffer but not set on the open pass.
NotForwarded(c, b) == encoder

\* Slots are written without a range check.
OverlaidUnchecked(slots, first, s) ==
  [ i \in DOMAIN slots \cup (first .. first + Len(s) - 1) |->
      IF i \in first .. first + Len(s) - 1 THEN s[i - first + 1]
      ELSE slots[i] ]

\* A new pass does not get the pipeline bound before it.
PassBegunBare(enc, p) == PassBegun(enc)

\* What is in the bound_* fields is set again on a new pass, whichever
\* recording has left it there.
BindingsRestored(c) ==
  LET begun == PassBegun(encoder[wgpu_encoder[c]])
  IN PassSet(begun, [ begun.pass EXCEPT
                        !.pipeline = IF bound_pipeline[c] \in GraphicsPipelines
                                     THEN bound_pipeline[c] ELSE @,
                        !.vertex = bound_vertex_buffers[c],
                        !.index = bound_index_buffer[c],
                        !.groups = bound_descriptor_sets[c] ])

\* Copies are gathered and recorded in front of everything else.
CopiesHoisted(c, kind, n) ==
  IF wgpu_encoder[c] = NULL THEN encoder
  ELSE [encoder EXCEPT ![wgpu_encoder[c]].commands =
          Repeated(TransferCommand(kind), n) \o @]

-----------------------------------------------------------------------------
(* Allocation and freeing                                                  *)

\* Every field of a fresh command buffer is NULL or false.
Fresh(S) ==
  /\ handle' = [c \in Cmds |-> IF c \in S THEN "live" ELSE handle[c]]
  /\ UNCHANGED << cmdVars, boundVars, encoder, vk, intended >>

\* Allocation of a set of command buffers succeeds.
AllocateCommandBuffers(S) ==
  /\ S # {} /\ \A c \in S : handle[c] = "none"
  /\ Fresh(S)

\* The host runs out of memory after the command buffers in F: they are
\* released again, and the caller's array keeps their dangling handles.
AllocateCommandBuffersFails(S, F) ==
  /\ \A c \in S : handle[c] = "none"
  /\ F \subseteq S /\ F # S
  /\ handle' = [c \in Cmds |-> IF c \in F THEN "freed" ELSE handle[c]]
  /\ UNCHANGED << cmdVars, boundVars, encoder, vk, intended >>

\* destroy_command_buffer releases the encoder, not an open render pass.
EncoderReleased(c) ==
  IF wgpu_encoder[c] = NULL THEN encoder
  ELSE [encoder EXCEPT ![wgpu_encoder[c]] =
          IF @.passHeld THEN [@ EXCEPT !.held = FALSE] ELSE UnusedEncoder]

\* The contract forbids freeing while the device executes it.
FreeCommandBuffer(c) ==
  /\ handle[c] = "live"
  /\ wgpu_render_pass[c] # NULL => "free_open" \in ClientUses
  /\ handle' = [handle EXCEPT ![c] = "freed"]
  /\ encoder' = EncoderReleased(c)
  /\ wgpu_encoder' = [wgpu_encoder EXCEPT ![c] = NULL]
  /\ wgpu_render_pass' = [wgpu_render_pass EXCEPT ![c] = NULL]
  /\ recording' = [recording EXCEPT ![c] = FALSE]
  /\ in_render_pass' = [in_render_pass EXCEPT ![c] = FALSE]
  /\ vk' = [vk EXCEPT ![c] = NothingBound]
  /\ intended' = [intended EXCEPT ![c] = << >>]
  /\ UNCHANGED << wgpu_compute_pass, in_compute_pass, boundVars >>

-----------------------------------------------------------------------------
(* vkBeginCommandBuffer, one action per return                             *)

BeginNotReady(c) ==
  /\ handle[c] = "live" /\ recording[c]
  /\ UNCHANGED vars

MayBegin(c) ==
  /\ handle[c] = "live" /\ ~recording[c]
  /\ wgpu_encoder[c] # NULL => "rerecord" \in ClientUses

\* The device gives no encoder: the old one has been overwritten by NULL.
BeginOutOfDeviceMemory(c) ==
  /\ MayBegin(c)
  /\ wgpu_encoder' = [wgpu_encoder EXCEPT ![c] = NULL]
  /\ vk' = [vk EXCEPT ![c] = NothingBound]
  /\ intended' = [intended EXCEPT ![c] = << >>]
  /\ UNCHANGED << handle, wgpu_render_pass, wgpu_compute_pass, recording,
                  in_render_pass, in_compute_pass, boundVars, encoder >>

\* The new encoder replaces the old one, which nobody releases.  What earlier
\* recordings bound stays in the bound_* fields.
BeginRecording(c, e) ==
  /\ MayBegin(c)
  /\ encoder[e].status = "unused"
  /\ encoder' = [encoder EXCEPT ![e] = OpenedEncoder]
  /\ wgpu_encoder' = [wgpu_encoder EXCEPT ![c] = e]
  /\ recording' = [recording EXCEPT ![c] = TRUE]
  /\ in_render_pass' = [in_render_pass EXCEPT ![c] = FALSE]
  /\ in_compute_pass' = [in_compute_pass EXCEPT ![c] = FALSE]
  /\ vk' = [vk EXCEPT ![c] = NothingBound]
  /\ intended' = [intended EXCEPT ![c] = << >>]
  /\ UNCHANGED << handle, wgpu_render_pass, wgpu_compute_pass, boundVars >>

(* vkEndCommandBuffer                                                      *)

EndNotReady(c) ==
  /\ handle[c] = "live" /\ ~recording[c]
  /\ UNCHANGED vars

\* A render pass left open is ended first.
OpenPassEnded(c) ==
  IF in_render_pass[c]
  THEN [encoder EXCEPT ![wgpu_render_pass[c]] = PassEnded(@)]
  ELSE encoder

EndCommandBuffer(c) ==
  /\ handle[c] = "live" /\ recording[c]
  /\ encoder' = OpenPassEnded(c)
  /\ wgpu_render_pass' = [wgpu_render_pass EXCEPT
                            ![c] = IF in_render_pass[c] THEN NULL ELSE @]
  /\ wgpu_compute_pass' = [wgpu_compute_pass EXCEPT
                            ![c] = IF in_compute_pass[c] THEN NULL ELSE @]
  /\ in_render_pass' = [in_render_pass EXCEPT ![c] = FALSE]
  /\ in_compute_pass' = [in_compute_pass EXCEPT ![c] = FALSE]
  /\ recording' = [recording EXCEPT ![c] = FALSE]
  /\ UNCHANGED << handle, wgpu_encoder, boundVars, vk, intended >>

-----------------------------------------------------------------------------
(* Binding.  The contract asks for a command buffer in the recording state;  *)
(* the code does not check it.                                              *)

InRecording(c) == handle[c] = "live" /\ recording[c]

\* The encoders after b is set on the render pass of c, if one is open.
SetOnPass(c, b) ==
  IF wgpu_render_pass[c] = NULL THEN encoder
  ELSE [encoder EXCEPT ![wgpu_render_pass[c]] = PassSet(@, b)]

OnPass(c) == encoder[wgpu_render_pass[c]].pass

\* The slots from first on take the elements of s; a slot out of range is
\* skipped.
Overlaid(slots, first, s) ==
  [ i \in DOMAIN slots |->
      IF i \in first .. first + Len(s) - 1 THEN s[i - first + 1]
      ELSE slots[i] ]

\* One field holds the pipeline of both bind points.
BindPipeline(c, p) ==
  /\ InRecording(c)
  /\ p \in ComputePipelines => "compute" \in ClientUses
  /\ bound_pipeline' = [bound_pipeline EXCEPT ![c] = p]
  /\ IF p \in GraphicsPipelines
     THEN /\ encoder' = SetOnPass(c, [OnPass(c) EXCEPT !.pipeline = p])
          /\ vk' = [vk EXCEPT ![c].graphics = p]
     ELSE /\ vk' = [vk EXCEPT ![c].compute = p]
          /\ UNCHANGED encoder
  /\ UNCHANGED << handle, cmdVars, bound_vertex_buffers, bound_index_buffer,
                  bound_descriptor_sets, intended >>

BindVertexBuffers(c, first, bufs) ==
  /\ InRecording(c)
  /\ bound_vertex_buffers' =
       [bound_vertex_buffers EXCEPT ![c] = Overlaid(@, first, bufs)]
  /\ encoder' =
       SetOnPass(c, [OnPass(c) EXCEPT !.vertex = Overlaid(@, first, bufs)])
  /\ vk' = [vk EXCEPT ![c].vertex = Overlaid(@, first, bufs)]
  /\ UNCHANGED << handle, cmdVars, bound_pipeline, bound_index_buffer,
                  bound_descriptor_sets, intended >>

BindIndexBuffer(c, b) ==
  /\ InRecording(c)
  /\ bound_index_buffer' = [bound_index_buffer EXCEPT ![c] = b]
  /\ encoder' = SetOnPass(c, [OnPass(c) EXCEPT !.index = b])
  /\ vk' = [vk EXCEPT ![c].index = b]
  /\ UNCHANGED << handle, cmdVars, bound_pipeline, bound_vertex_buffers,
                  bound_descriptor_sets, intended >>

\* Descriptor sets of the graphics bind point.
BindDescriptorSets(c, first, sets) ==
  /\ InRecording(c)
  /\ bound_descriptor_sets' =
       [bound_descriptor_sets EXCEPT ![c] = Overlaid(@, first, sets)]
  /\ encoder' =
       SetOnPass(c, [OnPass(c) EXCEPT !.groups = Overlaid(@, first, sets)])
  /\ vk' = [vk EXCEPT ![c].groups = Overlaid(@, first, sets)]
  /\ UNCHANGED << handle, cmdVars, bound_pipeline, bound_vertex_buffers,
                  bound_index_buffer, intended >>

\* The vkCmdSet* calls.  A viewport, scissor, blend constant or stencil
\* reference is forwarded to an open render pass and kept nowhere else.  The
\* calls for line width, depth bias, depth bounds and the stencil masks have
\* empty bodies.
SetDynamicState(c, k, d) ==
  /\ InRecording(c)
  /\ k \in IgnoredStates => "ignored_state" \in ClientUses
  /\ encoder' = IF k \in IgnoredStates THEN encoder
                ELSE SetOnPass(c, [OnPass(c) EXCEPT
                                     !.dynamic = [@ EXCEPT ![k] = d]])
  /\ vk' = [vk EXCEPT ![c].dynamic = [@ EXCEPT ![k] = d]]
  /\ UNCHANGED << handle, cmdVars, boundVars, intended >>

-----------------------------------------------------------------------------
(* Render passes                                                           *)

\* The part of the dynamic state that the code forwards.
Forwarded(dynamic) ==
  [k \in DynamicStates |-> IF k \in IgnoredStates THEN NULL ELSE dynamic[k]]

\* A render pass takes no binding along: nothing but the pipeline is set on
\* it again, so only an "early_bind" application has something to lose.
NothingToLose(c) ==
  [vk[c] EXCEPT !.graphics = NULL, !.dynamic = Forwarded(@)] = NothingBound

\* The encoder after vkCmdBeginRenderPass: only a graphics pipeline is set
\* again, whichever recording bound it.
PassBegunWith(enc, p) ==
  IF p \in GraphicsPipelines
  THEN PassSet(PassBegun(enc), [PassBegun(enc).pass EXCEPT !.pipeline = p])
  ELSE PassBegun(enc)

\* The new pass of c.
NewPass(c) == PassBegunWith(encoder[wgpu_encoder[c]], bound_pipeline[c])

BeginRenderPass(c) ==
  /\ InRecording(c) /\ ~in_render_pass[c]
  /\ NothingToLose(c) \/ "early_bind" \in ClientUses
  /\ in_render_pass' = [in_render_pass EXCEPT ![c] = TRUE]
  /\ wgpu_render_pass' = [wgpu_render_pass EXCEPT ![c] = wgpu_encoder[c]]
  /\ encoder' = [encoder EXCEPT ![wgpu_encoder[c]] = NewPass(c)]
  /\ UNCHANGED << handle, wgpu_encoder, wgpu_compute_pass, recording,
                  in_compute_pass, boundVars, vk, intended >>

BeginRenderPassIgnored(c) ==
  /\ handle[c] = "live" /\ in_render_pass[c]
  /\ UNCHANGED vars

EndRenderPass(c) ==
  /\ handle[c] = "live" /\ in_render_pass[c]
  /\ encoder' = IF wgpu_render_pass[c] = NULL THEN encoder
                ELSE [encoder EXCEPT ![wgpu_render_pass[c]] = PassEnded(@)]
  /\ wgpu_render_pass' = [wgpu_render_pass EXCEPT ![c] = NULL]
  /\ in_render_pass' = [in_render_pass EXCEPT ![c] = FALSE]
  /\ UNCHANGED << handle, wgpu_encoder, wgpu_compute_pass, recording,
                  in_compute_pass, boundVars, vk, intended >>

-----------------------------------------------------------------------------
(* Draws, copies and dispatches                                            *)

\* The bindings a Vulkan draw reads.
VkBindings(c) ==
  [ pipeline |-> vk[c].graphics, vertex |-> vk[c].vertex,
    index |-> vk[c].index, groups |-> vk[c].groups,
    dynamic |-> vk[c].dynamic ]

Intend(c, commands) ==
  /\ Len(intended[c]) + Len(commands) <= MaxCommands
  /\ intended' = [intended EXCEPT ![c] = @ \o commands]

\* n is 1 for vkCmdDraw and vkCmdDrawIndexed, the draw count of the indirect
\* calls.  The contract asks for the state the draw reads to be bound.
Draw(c, kind, n) ==
  /\ InRecording(c) /\ wgpu_render_pass[c] # NULL
  /\ Drawable(kind, VkBindings(c))
  /\ encoder' = [encoder EXCEPT ![wgpu_render_pass[c]] = PassDrawn(@, kind, n)]
  /\ Intend(c, Repeated(DrawCommand(kind, VkBindings(c)), n))
  /\ UNCHANGED << handle, cmdVars, boundVars, vk >>

\* A draw outside a render pass is dropped.
DrawIgnored(c) ==
  /\ handle[c] = "live" /\ wgpu_render_pass[c] = NULL
  /\ UNCHANGED vars

\* The contract of a transfer: a recording, outside a render pass.
Transfer(c, kind, n) ==
  /\ InRecording(c) /\ ~in_render_pass[c]
  /\ Intend(c, Repeated(TransferCommand(kind), n))
  /\ UNCHANGED << handle, cmdVars, boundVars, vk >>

\* The encoders after a copy of n regions.
RegionsCopied(c, kind, n) ==
  IF wgpu_encoder[c] = NULL THEN encoder
  ELSE [encoder EXCEPT ![wgpu_encoder[c]] = Copied(@, kind, n)]

CopyBuffer(c, n) ==
  /\ Transfer(c, "copy_buffer", n)
  /\ encoder' = RegionsCopied(c, "copy_buffer", n)

\* vkCmdCopyBufferToImage and vkCmdCopyImageToBuffer
CopyTexture(c, n) ==
  /\ Transfer(c, "copy_texture", n)
  /\ encoder' = RegionsCopied(c, "copy_texture", n)

\* The loop over the regions of vkCmdCopyImage is empty.
CopyImage(c, n) ==
  /\ "dropped_transfer" \in ClientUses
  /\ Transfer(c, "copy_image", n)
  /\ UNCHANGED encoder

\* vkCmdBlitImage, vkCmdResolveImage, vkCmdFillBuffer and vkCmdUpdateBuffer
\* look at their arguments and record nothing.
TransferDropped(c) ==
  /\ "dropped_transfer" \in ClientUses
  /\ Transfer(c, "other_transfer", 1)
  /\ UNCHANGED encoder

\* Dropped unless a compute pass is open; no code opens one.
Dispatch(c) ==
  /\ InRecording(c) /\ ~in_render_pass[c]
  /\ vk[c].compute # NULL
  /\ encoder' = IF wgpu_compute_pass[c] = NULL THEN encoder
                ELSE [encoder EXCEPT ![wgpu_compute_pass[c]] =
                        Dispatched(@, bound_pipeline[c])]
  /\ Intend(c, << DispatchCommand(vk[c].compute) >>)
  /\ UNCHANGED << handle, cmdVars, boundVars, vk >>

-----------------------------------------------------------------------------
Init ==
  /\ handle = [c \in Cmds |-> "none"]
  /\ wgpu_encoder = [c \in Cmds |-> NULL]
  /\ wgpu_render_pass = [c \in Cmds |-> NULL]
  /\ wgpu_compute_pass = [c \in Cmds |-> NULL]
  /\ recording = [c \in Cmds |-> FALSE]
  /\ in_render_pass = [c \in Cmds |-> FALSE]
  /\ in_compute_pass = [c \in Cmds |-> FALSE]
  /\ bound_pipeline = [c \in Cmds |-> NULL]
  /\ bound_vertex_buffers = [c \in Cmds |-> [s \in VertexSlots |-> NULL]]
  /\ bound_index_buffer = [c \in Cmds |-> NULL]
  /\ bound_descriptor_sets = [c \in Cmds |-> [s \in GroupSlots |-> NULL]]
  /\ encoder = [e \in Encoders |-> UnusedEncoder]
  /\ vk = [c \in Cmds |-> NothingBound]
  /\ intended = [c \in Cmds |-> << >>]

\* One or two elements at a time.
Runs(S) == [1..1 -> S] \cup [1..2 -> S]

Lifetime ==
  \/ \E S \in SUBSET Cmds : AllocateCommandBuffers(S)
  \/ \E S \in SUBSET Cmds, F \in SUBSET Cmds :
       AllocateCommandBuffersFails(S, F)
  \/ \E c \in Cmds : FreeCommandBuffer(c)

BeginOrEnd(c) ==
  \/ BeginNotReady(c)
  \/ BeginOutOfDeviceMemory(c)
  \/ \E e \in Encoders : BeginRecording(c, e)
  \/ EndNotReady(c)
  \/ EndCommandBuffer(c)

Bind(c) ==
  \/ \E p \in Pipelines : BindPipeline(c, p)
  \/ \E first \in VertexSlots, bufs \in Runs(Buffers) :
       BindVertexBuffers(c, first, bufs)
  \/ \E b \in Buffers : BindIndexBuffer(c, b)
  \/ \E first \in GroupSlots, sets \in Runs(Sets) :
       BindDescriptorSets(c, first, sets)
  \/ \E k \in DynamicStates, d \in DynamicValues : SetDynamicState(c, k, d)

Record(c) ==
  \/ BeginRenderPass(c)
  \/ BeginRenderPassIgnored(c)
  \/ EndRenderPass(c)
  \/ \E kind \in {"direct", "indexed"}, n \in 0..2 : Draw(c, kind, n)
  \/ DrawIgnored(c)
  \/ \E n \in 1..2 : CopyBuffer(c, n)
  \/ \E n \in 1..2 : CopyTexture(c, n)
  \/ \E n \in 1..2 : CopyImage(c, n)
  \/ TransferDropped(c)
  \/ Dispatch(c)

Next ==
  \/ Lifetime
  \/ \E c \in Cmds : BeginOrEnd(c) \/ Bind(c) \/ Record(c)

Spec == Init /\ [][Next]_vars

-----------------------------------------------------------------------------
(* Properties                                                              *)

Transfers == {"copy_buffer", "copy_texture", "copy_image", "other_transfer"}

Dynamic == [DynamicStates -> Maybe(DynamicValues)]

Command ==
  [ kind : {"direct", "indexed"}, pipeline : Maybe(GraphicsPipelines),
    vertex : [VertexSlots -> Maybe(Buffers)], index : Maybe(Buffers),
    groups : [GroupSlots -> Maybe(Sets)], dynamic : Dynamic ]
  \cup {TransferCommand(kind) : kind \in Transfers}
  \cup {DispatchCommand(p) : p \in Maybe(ComputePipelines)}

PassBindings ==
  [ pipeline : Maybe(GraphicsPipelines),
    vertex : [VertexSlots -> Maybe(Buffers)], index : Maybe(Buffers),
    groups : [GroupSlots -> Maybe(Sets)], dynamic : Dynamic ]

Encoder ==
  [ status : {"unused", "open", "inpass", "finished"}, valid : BOOLEAN,
    held : BOOLEAN, passHeld : BOOLEAN, pass : PassBindings,
    commands : Seq(Command) ]

VkState ==
  [ graphics : Maybe(GraphicsPipelines), compute : Maybe(ComputePipelines),
    vertex : [VertexSlots -> Maybe(Buffers)], index : Maybe(Buffers),
    groups : [GroupSlots -> Maybe(Sets)], dynamic : Dynamic ]

\* Every field of a command buffer and of an encoder holds a value the code
\* can give it: no slot outside WGVK_MAX_VERTEX_BUFFERS or
\* WGVK_MAX_BIND_GROUPS is written, and no compute pass exists.
TypeOK ==
  /\ handle \in [Cmds -> {"none", "live", "freed"}]
  /\ wgpu_encoder \in [Cmds -> Maybe(Encoders)]
  /\ wgpu_render_pass \in [Cmds -> Maybe(Encoders)]
  /\ wgpu_compute_pass = [c \in Cmds |-> NULL]
  /\ recording \in [Cmds -> BOOLEAN]
  /\ in_render_pass \in [Cmds -> BOOLEAN]
  /\ in_compute_pass = [c \in Cmds |-> FALSE]
  /\ bound_pipeline \in [Cmds -> Maybe(Pipelines)]
  /\ bound_vertex_buffers \in [Cmds -> [VertexSlots -> Maybe(Buffers)]]
  /\ bound_index_buffer \in [Cmds -> Maybe(Buffers)]
  /\ bound_descriptor_sets \in [Cmds -> [GroupSlots -> Maybe(Sets)]]
  /\ encoder \in [Encoders -> Encoder]
  /\ vk \in [Cmds -> VkState]
  /\ intended \in [Cmds -> Seq(Command)]

\* Calls a Vulkan application may make never turn into a call WebGPU rejects:
\* a pass is begun only on an open encoder and ended once, and every draw
\* finds the pipeline and the index buffer it needs set on the pass.
NeverRejected == \A e \in Encoders : encoder[e].valid

Recorded(c) ==
  wgpu_encoder[c] # NULL => encoder[wgpu_encoder[c]].commands = intended[c]

\* What WebGPU has recorded is what Vulkan says was recorded: the same draws
\* and copies in the same order, every draw with the bindings and the state
\* set before it.  Holds for applications without "early_bind", "compute",
\* "ignored_state" and "dropped_transfer": each of the four makes the code
\* record less than Vulkan says.
RecordedAsIntended == \A c \in Cmds : Recorded(c)

Owned(e) == \E c \in Cmds : wgpu_encoder[c] = e

\* A step after which nobody can release the encoder e, held as it is, either
\* finds it so or begins the command buffer of e again.
LostOnlyByBeginning(e) ==
  encoder'[e].held /\ ~Owned(e)' =>
    \/ encoder[e].held /\ ~Owned(e)
    \/ \E c \in Cmds : wgpu_encoder[c] = e /\ ~recording[c] /\ handle'[c] = "live"

\* A WebGPU encoder that has not been released belongs to a command buffer
\* that will release it, in whatever order command buffers are begun, ended and
\* freed and whichever of these calls fail.  The one exception is the encoder
\* of an earlier recording: vkBeginCommandBuffer overwrites its handle.
EncodersKept == [][\A e \in Encoders : LostOnlyByBeginning(e)]_vars

\* A WebGPU render pass that has not been released belongs to a command
\* buffer that will end and release it.
PassesOwned ==
  \A e \in Encoders :
    encoder[e].passHeld => \E c \in Cmds : wgpu_render_pass[c] = e

\* No command buffer uses an encoder it has already released, and no two
\* share one.
EncodersHeld ==
  \A c \in Cmds :
    wgpu_encoder[c] # NULL =>
      /\ encoder[wgpu_encoder[c]].held
      /\ \A d \in Cmds \ {c} : wgpu_encoder[d] # wgpu_encoder[c]

-----------------------------------------------------------------------------
(* The inductive invariants behind these properties                        *)

\* The flags and the handles of a command buffer tell the same story as the
\* encoder they stand for, for every application.
HandlesConsistent ==
  \A c \in Cmds :
    /\ handle[c] # "live" => wgpu_encoder[c] = NULL
    /\ recording[c] => wgpu_encoder[c] # NULL
    /\ in_render_pass[c] => recording[c]
    /\ wgpu_render_pass[c] = IF in_render_pass[c] THEN wgpu_encoder[c] ELSE NULL
    /\ wgpu_encoder[c] # NULL => encoder[wgpu_encoder[c]].status # "unused"
    /\ recording[c] =>
         encoder[wgpu_encoder[c]].status =
           IF in_render_pass[c] THEN "inpass" ELSE "open"

\* On an open render pass every binding but the pipeline, and all the state
\* that the code forwards, is what Vulkan prescribes, and so is a pipeline
\* bound in this recording.
FollowsVk(c) ==
  /\ recording[c] /\ vk[c].compute = NULL /\ vk[c].graphics # NULL =>
       bound_pipeline[c] = vk[c].graphics
  /\ in_render_pass[c] =>
       LET p == encoder[wgpu_encoder[c]].pass
       IN /\ vk[c].graphics # NULL => p.pipeline = vk[c].graphics
          /\ [p EXCEPT !.pipeline = vk[c].graphics] =
               [VkBindings(c) EXCEPT !.dynamic = Forwarded(@)]

\* No render pass loses or mixes up what was bound on it, for an application
\* that does not bind early; only the state of IgnoredStates is not on it.
PassFollowsVk == \A c \in Cmds : FollowsVk(c)

\* A pass may miss what Vulkan prescribes, but holds nothing else.
NothingStaleOn(c, p) ==
  /\ \A s \in VertexSlots : p.vertex[s] \in {NULL, vk[c].vertex[s]}
  /\ \A s \in GroupSlots : p.groups[s] \in {NULL, vk[c].groups[s]}
  /\ \A k \in DynamicStates : p.dynamic[k] \in {NULL, vk[c].dynamic[k]}
  /\ p.index \in {NULL, vk[c].index}
  /\ vk[c].graphics # NULL => p.pipeline \in {NULL, vk[c].graphics}

\* Whatever an application does, binding early, dispatching and recording
\* again included, a render pass never holds a binding or state that has been
\* replaced since or that an earlier recording has left in the bound_* fields
\* (a pipeline left over stands only until the recording binds its own).
PassNeverStale ==
  \A c \in Cmds :
    in_render_pass[c] => NothingStaleOn(c, encoder[wgpu_encoder[c]].pass)

=============================================================================
