------------------------- MODULE CommandBufferProofs -------------------------
(***************************************************************************)
(* Proofs about CommandBuffer: for every set of command buffers, encoders, *)
(* pipelines, buffers, descriptor sets and slots.                          *)
(***************************************************************************)
EXTENDS CommandBuffer, TLAPS

USE DEF Maybe

-----------------------------------------------------------------------------
(* The WebGPU operators keep an encoder an encoder.                        *)

LEMMA NoBindingsType == NoBindings \in PassBindings
  BY DEF NoBindings, PassBindings, Dynamic

LEMMA UnusedEncoderType == UnusedEncoder \in Encoder
  BY NoBindingsType DEF UnusedEncoder, Encoder

LEMMA OpenedEncoderType ==
  /\ OpenedEncoder \in Encoder
  /\ OpenedEncoder.status = "open"
  /\ OpenedEncoder.held
  /\ OpenedEncoder.valid
  /\ OpenedEncoder.commands = << >>
  BY UnusedEncoderType DEF OpenedEncoder, UnusedEncoder, Encoder

LEMMA PassOperatorsType ==
  ASSUME NEW enc \in Encoder
  PROVE  /\ Invalidated(enc) \in Encoder
         /\ PassBegun(enc) \in Encoder
         /\ PassEnded(enc) \in Encoder
         /\ \A b \in PassBindings : PassSet(enc, b) \in Encoder
         /\ [enc EXCEPT !.held = FALSE] \in Encoder
  BY NoBindingsType
     DEF Invalidated, PassBegun, PassEnded, PassSet, Encoder

LEMMA RepeatedType ==
  ASSUME NEW S, NEW x \in S, NEW n \in Nat
  PROVE  Repeated(x, n) \in Seq(S)
  BY DEF Repeated

LEMMA DrawCommandType ==
  ASSUME NEW b \in PassBindings, NEW kind \in {"direct", "indexed"}
  PROVE  DrawCommand(kind, b) \in Command
  BY DEF DrawCommand, PassBindings, Command

LEMMA TransferCommandType ==
  ASSUME NEW kind \in Transfers, NEW n \in Nat
  PROVE  Repeated(TransferCommand(kind), n) \in Seq(Command)
<1>1. TransferCommand(kind) \in Command
  BY DEF Command
<1> QED
  BY <1>1, RepeatedType

LEMMA RecordingOperatorsType ==
  ASSUME NEW enc \in Encoder, NEW n \in Nat
  PROVE  /\ \A kind \in {"direct", "indexed"} : PassDrawn(enc, kind, n) \in Encoder
         /\ \A kind \in Transfers : Copied(enc, kind, n) \in Encoder
<1>1. ASSUME NEW x \in Command
      PROVE  [enc EXCEPT !.commands = @ \o Repeated(x, n)] \in Encoder
  <2>1. Repeated(x, n) \in Seq(Command)
    BY RepeatedType
  <2>2. enc.commands \o Repeated(x, n) \in Seq(Command)
    BY <2>1 DEF Encoder
  <2> QED
    BY <2>2 DEF Encoder
<1>2. ASSUME NEW kind \in {"direct", "indexed"}
      PROVE  PassDrawn(enc, kind, n) \in Encoder
  <2>1. DrawCommand(kind, enc.pass) \in Command
    BY DrawCommandType DEF Encoder
  <2> QED
    BY <1>1, <2>1, PassOperatorsType DEF PassDrawn
<1>3. ASSUME NEW kind \in Transfers PROVE Copied(enc, kind, n) \in Encoder
  <2>1. TransferCommand(kind) \in Command
    BY DEF Command
  <2> QED
    BY <1>1, <2>1, PassOperatorsType DEF Copied
<1> QED
  BY <1>2, <1>3

-----------------------------------------------------------------------------
(* Type correctness                                                        *)

LEMMA NothingBoundType == NothingBound \in VkState
  BY DEF NothingBound, VkState, Dynamic

LEMMA OverlaidType ==
  ASSUME NEW I, I \subseteq Nat, NEW T, NEW slots \in [I -> Maybe(T)],
         NEW first \in I, NEW s \in Runs(T)
  PROVE  Overlaid(slots, first, s) \in [I -> Maybe(T)]
<1>1. s \in Seq(T) /\ DOMAIN s = 1..Len(s) /\ Len(s) \in Nat
  <2>1. ASSUME NEW n \in Nat, s \in [1..n -> T]
        PROVE  s \in Seq(T) /\ DOMAIN s = 1..Len(s) /\ Len(s) \in Nat
    <3>1. s \in Seq(T)
      BY <2>1
    <3> QED
      BY <2>1, <3>1
  <2> QED
    BY <2>1 DEF Runs
<1>2. \A i \in I : i \in first .. first + Len(s) - 1
                     => i - first + 1 \in 1..Len(s)
  BY <1>1
<1> QED
  BY <1>1, <1>2 DEF Overlaid

LEMMA SetOnPassType ==
  ASSUME TypeOK, NEW c \in Cmds, NEW b,
         wgpu_render_pass[c] # NULL => b \in PassBindings
  PROVE  SetOnPass(c, b) \in [Encoders -> Encoder]
  BY PassOperatorsType DEF SetOnPass, TypeOK

LEMMA OnPassType ==
  ASSUME TypeOK, NEW c \in Cmds, wgpu_render_pass[c] # NULL
  PROVE  OnPass(c) \in PassBindings
  BY DEF OnPass, TypeOK, Encoder

LEMMA VkBindingsType ==
  ASSUME TypeOK, NEW c \in Cmds
  PROVE  VkBindings(c) \in PassBindings
  BY DEF VkBindings, TypeOK, VkState, PassBindings

LEMMA IntendType ==
  ASSUME TypeOK, NEW c \in Cmds, NEW s \in Seq(Command), Intend(c, s)
  PROVE  intended' \in [Cmds -> Seq(Command)]
<1>1. intended[c] \o s \in Seq(Command)
  BY DEF TypeOK
<1> QED
  BY <1>1 DEF Intend, TypeOK

LEMMA InitTypeOK == Init => TypeOK
  BY UnusedEncoderType, NothingBoundType DEF Init, TypeOK

LEMMA LifetimeTypeOK == TypeOK /\ Lifetime => TypeOK'
<1> SUFFICES ASSUME TypeOK, Lifetime PROVE TypeOK'
  OBVIOUS
<1>1. ASSUME NEW S \in SUBSET Cmds, AllocateCommandBuffers(S) PROVE TypeOK'
  BY <1>1
     DEF AllocateCommandBuffers, Fresh, TypeOK, cmdVars, boundVars
<1>2. ASSUME NEW S \in SUBSET Cmds, NEW F \in SUBSET Cmds,
             AllocateCommandBuffersFails(S, F)
      PROVE  TypeOK'
  BY <1>2 DEF AllocateCommandBuffersFails, TypeOK, cmdVars, boundVars
<1>3. ASSUME NEW c \in Cmds, FreeCommandBuffer(c) PROVE TypeOK'
  <2>1. encoder' \in [Encoders -> Encoder]
    BY <1>3, UnusedEncoderType, PassOperatorsType
       DEF FreeCommandBuffer, EncoderReleased, TypeOK
  <2> QED
    BY <1>3, <2>1, NothingBoundType
       DEF FreeCommandBuffer, EncoderReleased, TypeOK, boundVars
<1> QED
  BY <1>1, <1>2, <1>3 DEF Lifetime

LEMMA BeginOrEndTypeOK ==
  ASSUME TypeOK, NEW c \in Cmds, BeginOrEnd(c)
  PROVE  TypeOK'
<1>1. CASE BeginNotReady(c) \/ EndNotReady(c)
  BY <1>1 DEF BeginNotReady, EndNotReady, TypeOK, vars, cmdVars, boundVars
<1>2. CASE BeginOutOfDeviceMemory(c)
  BY <1>2, NothingBoundType DEF BeginOutOfDeviceMemory, TypeOK, boundVars
<1>3. ASSUME NEW e \in Encoders, BeginRecording(c, e) PROVE TypeOK'
  <2>1. encoder' \in [Encoders -> Encoder]
    BY <1>3, OpenedEncoderType DEF BeginRecording, TypeOK
  <2>2. vk' \in [Cmds -> VkState]
    BY <1>3, NothingBoundType DEF BeginRecording, TypeOK
  <2>3. intended' \in [Cmds -> Seq(Command)]
    BY <1>3 DEF BeginRecording, TypeOK
  <2>4. /\ wgpu_encoder' \in [Cmds -> Maybe(Encoders)]
        /\ recording' \in [Cmds -> BOOLEAN]
        /\ in_render_pass' \in [Cmds -> BOOLEAN]
        /\ in_compute_pass' = [d \in Cmds |-> FALSE]
    BY <1>3 DEF BeginRecording, TypeOK
  <2> QED
    BY <1>3, <2>1, <2>2, <2>3, <2>4 DEF BeginRecording, TypeOK, boundVars
<1>4. CASE EndCommandBuffer(c)
  <2>1. encoder' \in [Encoders -> Encoder]
    BY <1>4, PassOperatorsType DEF EndCommandBuffer, OpenPassEnded, TypeOK
  <2> QED
    BY <1>4, <2>1 DEF EndCommandBuffer, OpenPassEnded, TypeOK, boundVars
<1> QED
  BY <1>1, <1>2, <1>3, <1>4 DEF BeginOrEnd

LEMMA VkUpdateType ==
  ASSUME NEW v \in VkState
  PROVE  /\ \A p \in GraphicsPipelines : [v EXCEPT !.graphics = p] \in VkState
         /\ \A p \in ComputePipelines : [v EXCEPT !.compute = p] \in VkState
         /\ \A b \in Buffers : [v EXCEPT !.index = b] \in VkState
         /\ \A d \in Dynamic : [v EXCEPT !.dynamic = d] \in VkState
         /\ \A f \in [VertexSlots -> Maybe(Buffers)] :
              [v EXCEPT !.vertex = f] \in VkState
         /\ \A f \in [GroupSlots -> Maybe(Sets)] :
              [v EXCEPT !.groups = f] \in VkState
  BY DEF VkState

LEMMA VkType ==
  ASSUME TypeOK, NEW c \in Cmds
  PROVE  /\ vk[c] \in VkState
         /\ vk[c].vertex \in [VertexSlots -> Maybe(Buffers)]
         /\ vk[c].groups \in [GroupSlots -> Maybe(Sets)]
         /\ vk[c].dynamic \in Dynamic
<1>1. vk[c] \in VkState
  BY DEF TypeOK
<1> QED
  BY <1>1 DEF VkState

LEMMA BindTypeOK ==
  ASSUME TypeOK, NEW c \in Cmds, Bind(c)
  PROVE  TypeOK'
<1>1. ASSUME NEW p \in Pipelines, BindPipeline(c, p) PROVE TypeOK'
  <2>1. CASE p \in GraphicsPipelines
    <3>1. encoder' \in [Encoders -> Encoder]
      <4>1. wgpu_render_pass[c] # NULL
              => [OnPass(c) EXCEPT !.pipeline = p] \in PassBindings
        BY <2>1, OnPassType DEF PassBindings
      <4> QED
        BY <1>1, <2>1, <4>1, SetOnPassType DEF BindPipeline
    <3>2. vk' \in [Cmds -> VkState]
      <4>1. [vk[c] EXCEPT !.graphics = p] \in VkState
        BY <2>1, VkType, VkUpdateType
      <4> QED
        BY <1>1, <2>1, <4>1 DEF BindPipeline, TypeOK
    <3> QED
      BY <1>1, <3>1, <3>2 DEF BindPipeline, TypeOK, cmdVars
  <2>2. CASE p \notin GraphicsPipelines
    <3>1. vk' \in [Cmds -> VkState]
      <4>1. [vk[c] EXCEPT !.compute = p] \in VkState
        BY <2>2, VkType, VkUpdateType DEF Pipelines
      <4> QED
        BY <1>1, <2>2, <4>1 DEF BindPipeline, TypeOK
    <3> QED
      BY <1>1, <2>2, <3>1 DEF BindPipeline, TypeOK, cmdVars
  <2> QED
    BY <2>1, <2>2
<1>2. ASSUME NEW first \in VertexSlots, NEW bufs \in Runs(Buffers),
             BindVertexBuffers(c, first, bufs)
      PROVE  TypeOK'
  <2>1. \A slots \in [VertexSlots -> Maybe(Buffers)] :
          Overlaid(slots, first, bufs) \in [VertexSlots -> Maybe(Buffers)]
    BY OverlaidType, SlotAssumption
  <2>2. encoder' \in [Encoders -> Encoder]
    <3>1. wgpu_render_pass[c] # NULL
            => [OnPass(c) EXCEPT !.vertex = Overlaid(@, first, bufs)]
                 \in PassBindings
      BY <2>1, OnPassType DEF PassBindings
    <3> QED
      BY <1>2, <3>1, SetOnPassType DEF BindVertexBuffers
  <2>3. vk' \in [Cmds -> VkState]
    <3>1. [vk[c] EXCEPT !.vertex = Overlaid(@, first, bufs)] \in VkState
      BY <2>1, VkType, VkUpdateType
    <3> QED
      BY <1>2, <3>1 DEF BindVertexBuffers, TypeOK
  <2>4. bound_vertex_buffers' \in [Cmds -> [VertexSlots -> Maybe(Buffers)]]
    BY <1>2, <2>1 DEF BindVertexBuffers, TypeOK
  <2> QED
    BY <1>2, <2>2, <2>3, <2>4 DEF BindVertexBuffers, TypeOK, cmdVars
<1>3. ASSUME NEW b \in Buffers, BindIndexBuffer(c, b) PROVE TypeOK'
  <2>1. encoder' \in [Encoders -> Encoder]
    <3>1. wgpu_render_pass[c] # NULL
            => [OnPass(c) EXCEPT !.index = b] \in PassBindings
      BY OnPassType DEF PassBindings
    <3> QED
      BY <1>3, <3>1, SetOnPassType DEF BindIndexBuffer
  <2>2. vk' \in [Cmds -> VkState]
    <3>1. [vk[c] EXCEPT !.index = b] \in VkState
      BY VkType, VkUpdateType
    <3> QED
      BY <1>3, <3>1 DEF BindIndexBuffer, TypeOK
  <2> QED
    BY <1>3, <2>1, <2>2 DEF BindIndexBuffer, TypeOK, cmdVars
<1>4. ASSUME NEW first \in GroupSlots, NEW sets \in Runs(Sets),
             BindDescriptorSets(c, first, sets)
      PROVE  TypeOK'
  <2>1. \A slots \in [GroupSlots -> Maybe(Sets)] :
          Overlaid(slots, first, sets) \in [GroupSlots -> Maybe(Sets)]
    BY OverlaidType, SlotAssumption
  <2>2. encoder' \in [Encoders -> Encoder]
    <3>1. wgpu_render_pass[c] # NULL
            => [OnPass(c) EXCEPT !.groups = Overlaid(@, first, sets)]
                 \in PassBindings
      BY <2>1, OnPassType DEF PassBindings
    <3> QED
      BY <1>4, <3>1, SetOnPassType DEF BindDescriptorSets
  <2>3. vk' \in [Cmds -> VkState]
    <3>1. [vk[c] EXCEPT !.groups = Overlaid(@, first, sets)] \in VkState
      BY <2>1, VkType, VkUpdateType
    <3> QED
      BY <1>4, <3>1 DEF BindDescriptorSets, TypeOK
  <2>4. bound_descriptor_sets' \in [Cmds -> [GroupSlots -> Maybe(Sets)]]
    BY <1>4, <2>1 DEF BindDescriptorSets, TypeOK
  <2> QED
    BY <1>4, <2>2, <2>3, <2>4 DEF BindDescriptorSets, TypeOK, cmdVars
<1>5. ASSUME NEW k \in DynamicStates, NEW d \in DynamicValues,
             SetDynamicState(c, k, d)
      PROVE  TypeOK'
  <2>0. \A values \in Dynamic : [values EXCEPT ![k] = d] \in Dynamic
    BY DEF Dynamic
  <2>1. encoder' \in [Encoders -> Encoder]
    <3>1. wgpu_render_pass[c] # NULL
            => [OnPass(c) EXCEPT !.dynamic = [@ EXCEPT ![k] = d]]
                 \in PassBindings
      BY <2>0, OnPassType DEF PassBindings
    <3> QED
      BY <1>5, <3>1, SetOnPassType DEF SetDynamicState, TypeOK
  <2>2. vk' \in [Cmds -> VkState]
    <3>1. [vk[c] EXCEPT !.dynamic = [@ EXCEPT ![k] = d]] \in VkState
      BY <2>0, VkType, VkUpdateType
    <3> QED
      BY <1>5, <3>1 DEF SetDynamicState, TypeOK
  <2> QED
    BY <1>5, <2>1, <2>2 DEF SetDynamicState, TypeOK, cmdVars, boundVars
<1> QED
  BY <1>1, <1>2, <1>3, <1>4, <1>5 DEF Bind

LEMMA PassBegunWithType ==
  ASSUME NEW enc \in Encoder, NEW p
  PROVE  PassBegunWith(enc, p) \in Encoder
<1>1. PassBegun(enc) \in Encoder
  BY PassOperatorsType
<1>2. p \in GraphicsPipelines
        => [PassBegun(enc).pass EXCEPT !.pipeline = p] \in PassBindings
  BY <1>1 DEF Encoder, PassBindings
<1> QED
  BY <1>1, <1>2, PassOperatorsType DEF PassBegunWith

\* A transfer leaves an encoder alone or records its regions on it.
LEMMA TransferEncoders ==
  ASSUME TypeOK, NEW c \in Cmds, NEW kind, NEW n,
         encoder' \in {encoder, RegionsCopied(c, kind, n)}
  PROVE  /\ encoder' = [e \in Encoders |-> encoder'[e]]
         /\ \A e \in Encoders :
              encoder'[e] \in {encoder[e], Copied(encoder[e], kind, n)}
<1>1. CASE encoder' = encoder
  BY <1>1 DEF TypeOK
<1>2. CASE encoder' = RegionsCopied(c, kind, n) /\ wgpu_encoder[c] # NULL
  BY <1>2 DEF TypeOK, RegionsCopied
<1>3. CASE encoder' = RegionsCopied(c, kind, n) /\ wgpu_encoder[c] = NULL
  BY <1>3 DEF TypeOK, RegionsCopied
<1> QED
  BY <1>1, <1>2, <1>3

\* The calls of Record; a transfer is recorded or dropped.
LEMMA RecordCases ==
  ASSUME NEW c \in Cmds, Record(c)
  PROVE  \/ BeginRenderPass(c)
         \/ BeginRenderPassIgnored(c) \/ DrawIgnored(c)
         \/ EndRenderPass(c)
         \/ \E kind \in {"direct", "indexed"}, n \in 0..2 : Draw(c, kind, n)
         \/ \E n \in 1..2, kind \in Transfers :
              /\ Transfer(c, kind, n)
              /\ encoder' \in {encoder, RegionsCopied(c, kind, n)}
              /\ \/ encoder' = RegionsCopied(c, kind, n)
                 \/ "dropped_transfer" \in ClientUses
         \/ Dispatch(c)
<1>1. ASSUME NEW n \in 1..2,
             CopyBuffer(c, n) \/ CopyTexture(c, n) \/ CopyImage(c, n)
      PROVE  \E kind \in Transfers :
               /\ Transfer(c, kind, n)
               /\ encoder' \in {encoder, RegionsCopied(c, kind, n)}
               /\ \/ encoder' = RegionsCopied(c, kind, n)
                  \/ "dropped_transfer" \in ClientUses
  BY <1>1 DEF CopyBuffer, CopyTexture, CopyImage, Transfers
<1>2. ASSUME TransferDropped(c)
      PROVE  /\ Transfer(c, "other_transfer", 1)
             /\ encoder' = encoder /\ "dropped_transfer" \in ClientUses
             /\ "other_transfer" \in Transfers /\ 1 \in 1..2
  BY <1>2 DEF TransferDropped, Transfers
<1> QED
  BY <1>1, <1>2 DEF Record

LEMMA RecordTypeOK ==
  ASSUME TypeOK, NEW c \in Cmds, Record(c)
  PROVE  TypeOK'
<1>1. CASE BeginRenderPass(c)
  <2>1. encoder' \in [Encoders -> Encoder]
    BY <1>1, PassBegunWithType DEF BeginRenderPass, NewPass, TypeOK
  <2> QED
    BY <1>1, <2>1 DEF BeginRenderPass, TypeOK, boundVars
<1>2. CASE BeginRenderPassIgnored(c) \/ DrawIgnored(c)
  BY <1>2 DEF BeginRenderPassIgnored, DrawIgnored, TypeOK, vars, cmdVars,
              boundVars
<1>3. CASE EndRenderPass(c)
  <2>1. encoder' \in [Encoders -> Encoder]
    BY <1>3, PassOperatorsType DEF EndRenderPass, TypeOK
  <2> QED
    BY <1>3, <2>1 DEF EndRenderPass, TypeOK, boundVars
<1>4. ASSUME NEW kind \in {"direct", "indexed"}, NEW n \in 0..2,
             Draw(c, kind, n)
      PROVE  TypeOK'
  <2>1. encoder' \in [Encoders -> Encoder]
    BY <1>4, RecordingOperatorsType DEF Draw, TypeOK
  <2>2. Repeated(DrawCommand(kind, VkBindings(c)), n) \in Seq(Command)
    <3>1. DrawCommand(kind, VkBindings(c)) \in Command
      BY VkBindingsType, DrawCommandType
    <3> QED
      BY <3>1, RepeatedType
  <2>3. intended' \in [Cmds -> Seq(Command)]
    BY <1>4, <2>2, IntendType DEF Draw
  <2> QED
    BY <1>4, <2>1, <2>3 DEF Draw, TypeOK, cmdVars, boundVars
<1>5. ASSUME NEW n \in 1..2, NEW kind \in Transfers, Transfer(c, kind, n),
             encoder' \in {encoder, RegionsCopied(c, kind, n)}
      PROVE  TypeOK'
  <2>1. encoder' \in [Encoders -> Encoder]
    <3>1. \A e \in Encoders : encoder[e] \in Encoder
                              /\ Copied(encoder[e], kind, n) \in Encoder
      BY RecordingOperatorsType DEF TypeOK
    <3> QED
      BY <1>5, <3>1, TransferEncoders
  <2>2. Repeated(TransferCommand(kind), n) \in Seq(Command)
    BY TransferCommandType
  <2>3. intended' \in [Cmds -> Seq(Command)]
    BY <1>5, <2>2, IntendType DEF Transfer
  <2> QED
    BY <1>5, <2>1, <2>3 DEF Transfer, TypeOK, cmdVars, boundVars
<1>6. CASE Dispatch(c)
  <2>1. encoder' = encoder
    BY <1>6 DEF Dispatch, TypeOK
  <2>2. << DispatchCommand(vk[c].compute) >> \in Seq(Command)
    <3>1. vk[c].compute \in Maybe(ComputePipelines)
      BY DEF TypeOK, VkState
    <3>2. DispatchCommand(vk[c].compute) \in Command
      BY <3>1 DEF Command
    <3> QED
      BY <3>2
  <2>3. intended' \in [Cmds -> Seq(Command)]
    BY <1>6, <2>2, IntendType DEF Dispatch
  <2> QED
    BY <1>6, <2>1, <2>3 DEF Dispatch, TypeOK, cmdVars, boundVars
<1> QED
  BY <1>1, <1>2, <1>3, <1>4, <1>5, <1>6, RecordCases

\* Every call leaves every field and every encoder well typed.
LEMMA NextTypeOK == TypeOK /\ [Next]_vars => TypeOK'
<1> SUFFICES ASSUME TypeOK, [Next]_vars PROVE TypeOK'
  OBVIOUS
<1>1. CASE Lifetime
  BY <1>1, LifetimeTypeOK
<1>2. ASSUME NEW c \in Cmds, BeginOrEnd(c) \/ Bind(c) \/ Record(c)
      PROVE  TypeOK'
  BY <1>2, BeginOrEndTypeOK, BindTypeOK, RecordTypeOK
<1>3. CASE UNCHANGED vars
  BY <1>3 DEF TypeOK, vars, cmdVars, boundVars
<1> QED
  BY <1>1, <1>2, <1>3 DEF Next

\* No call sequence writes a binding slot that does not exist or gives any
\* other field a value outside its type (command_buffer.c, draw.c).
THEOREM TypeCorrect == Spec => []TypeOK
  BY InitTypeOK, NextTypeOK, PTL DEF Spec

-----------------------------------------------------------------------------
(* The command buffers and the encoders tell the same story                *)

Structure == TypeOK /\ HandlesConsistent /\ EncodersHeld

\* What the WebGPU operators do to the status and the references.
LEMMA PassOperatorsStatus ==
  ASSUME NEW enc \in Encoder
  PROVE  /\ PassBegun(enc).held = enc.held
         /\ enc.status = "open" => PassBegun(enc).status = "inpass"
         /\ PassEnded(enc).held = enc.held
         /\ enc.status = "inpass" => PassEnded(enc).status = "open"
         /\ \A b : /\ PassSet(enc, b).held = enc.held
                   /\ PassSet(enc, b).status = enc.status
  BY DEF PassBegun, PassEnded, PassSet, Invalidated, Encoder

LEMMA PassBegunWithStatus ==
  ASSUME NEW enc \in Encoder, NEW p
  PROVE  /\ PassBegunWith(enc, p).held = enc.held
         /\ enc.status = "open" => PassBegunWith(enc, p).status = "inpass"
<1>1. PassBegun(enc) \in Encoder
  BY PassOperatorsType
<1> QED
  BY <1>1, PassOperatorsStatus DEF PassBegunWith

LEMMA RecordingOperatorsStatus ==
  ASSUME NEW enc \in Encoder, NEW n
  PROVE  /\ \A kind : /\ PassDrawn(enc, kind, n).held = enc.held
                      /\ PassDrawn(enc, kind, n).status = enc.status
         /\ \A kind : /\ Copied(enc, kind, n).held = enc.held
                      /\ Copied(enc, kind, n).status = enc.status
  BY DEF PassDrawn, Copied, Invalidated, Encoder

\* A step that leaves the fields of the command buffers and the status and
\* the references of the encoders alone.
SameShape ==
  /\ UNCHANGED << handle, cmdVars >>
  /\ \A e \in Encoders : /\ encoder'[e].status = encoder[e].status
                         /\ encoder'[e].held = encoder[e].held

LEMMA SameShapeStructure ==
  ASSUME HandlesConsistent, EncodersHeld, TypeOK, SameShape
  PROVE  HandlesConsistent' /\ EncodersHeld'
<1>1. \A c \in Cmds : wgpu_encoder[c] # NULL => wgpu_encoder[c] \in Encoders
  BY DEF TypeOK
<1>2. HandlesConsistent'
  BY <1>1 DEF HandlesConsistent, SameShape, cmdVars
<1>3. EncodersHeld'
  BY <1>1 DEF EncodersHeld, SameShape, cmdVars
<1> QED
  BY <1>2, <1>3

LEMMA SetOnPassShape ==
  ASSUME TypeOK, NEW c \in Cmds, NEW b, encoder' = SetOnPass(c, b),
         UNCHANGED << handle, cmdVars >>
  PROVE  SameShape
<1>1. wgpu_render_pass[c] # NULL => wgpu_render_pass[c] \in Encoders
  BY DEF TypeOK
<1>2. \A e \in Encoders : encoder[e] \in Encoder
  BY DEF TypeOK
<1> QED
  BY <1>1, <1>2, PassOperatorsStatus DEF SetOnPass, SameShape, TypeOK

LEMMA BindShape ==
  ASSUME TypeOK, NEW c \in Cmds, Bind(c)
  PROVE  SameShape
<1>1. ASSUME NEW p \in Pipelines, BindPipeline(c, p) PROVE SameShape
  <2>1. CASE p \in GraphicsPipelines
    BY <1>1, <2>1, SetOnPassShape DEF BindPipeline
  <2>2. CASE p \notin GraphicsPipelines
    BY <1>1, <2>2 DEF BindPipeline, SameShape
  <2> QED
    BY <2>1, <2>2
<1>2. ASSUME NEW first \in VertexSlots, NEW bufs \in Runs(Buffers),
             BindVertexBuffers(c, first, bufs)
      PROVE  SameShape
  BY <1>2, SetOnPassShape DEF BindVertexBuffers
<1>3. ASSUME NEW b \in Buffers, BindIndexBuffer(c, b) PROVE SameShape
  BY <1>3, SetOnPassShape DEF BindIndexBuffer
<1>4. ASSUME NEW first \in GroupSlots, NEW sets \in Runs(Sets),
             BindDescriptorSets(c, first, sets)
      PROVE  SameShape
  BY <1>4, SetOnPassShape DEF BindDescriptorSets
<1>5. ASSUME NEW k \in DynamicStates, NEW d \in DynamicValues,
             SetDynamicState(c, k, d)
      PROVE  SameShape
  <2>1. CASE k \in IgnoredStates
    BY <1>5, <2>1 DEF SetDynamicState, SameShape
  <2>2. CASE k \notin IgnoredStates
    BY <1>5, <2>2, SetOnPassShape DEF SetDynamicState
  <2> QED
    BY <2>1, <2>2
<1> QED
  BY <1>1, <1>2, <1>3, <1>4, <1>5 DEF Bind

LEMMA InitStructure == Init => HandlesConsistent /\ EncodersHeld
  BY DEF Init, HandlesConsistent, EncodersHeld

LEMMA LifetimeStructure ==
  ASSUME Structure, Lifetime
  PROVE  HandlesConsistent' /\ EncodersHeld'
<1> USE DEF Structure
<1>1. ASSUME NEW S \in SUBSET Cmds, AllocateCommandBuffers(S)
      PROVE  HandlesConsistent' /\ EncodersHeld'
  BY <1>1 DEF AllocateCommandBuffers, Fresh, cmdVars, TypeOK,
              HandlesConsistent, EncodersHeld
<1>2. ASSUME NEW S \in SUBSET Cmds, NEW F \in SUBSET Cmds,
             AllocateCommandBuffersFails(S, F)
      PROVE  HandlesConsistent' /\ EncodersHeld'
  BY <1>2 DEF AllocateCommandBuffersFails, cmdVars, TypeOK,
              HandlesConsistent, EncodersHeld
<1>3. ASSUME NEW c \in Cmds, FreeCommandBuffer(c)
      PROVE  HandlesConsistent' /\ EncodersHeld'
  <2>1. \A d \in Cmds \ {c} : wgpu_encoder[d] # NULL
                               => encoder'[wgpu_encoder[d]]
                                    = encoder[wgpu_encoder[d]]
    BY <1>3 DEF FreeCommandBuffer, EncoderReleased, EncodersHeld, TypeOK
  <2>2. HandlesConsistent'
    BY <1>3, <2>1 DEF FreeCommandBuffer, EncoderReleased, HandlesConsistent, TypeOK
  <2>3. EncodersHeld'
    BY <1>3, <2>1 DEF FreeCommandBuffer, EncoderReleased, EncodersHeld, TypeOK
  <2> QED
    BY <2>2, <2>3
<1> QED
  BY <1>1, <1>2, <1>3 DEF Lifetime

LEMMA BeginOrEndStructure ==
  ASSUME Structure, NEW c \in Cmds, BeginOrEnd(c)
  PROVE  HandlesConsistent' /\ EncodersHeld'
<1> USE DEF Structure
<1>1. CASE BeginNotReady(c) \/ EndNotReady(c)
  <2>1. SameShape
    BY <1>1 DEF BeginNotReady, EndNotReady, SameShape, vars
  <2> QED
    BY <2>1, SameShapeStructure
<1>2. CASE BeginOutOfDeviceMemory(c)
  <2>1. HandlesConsistent'
    BY <1>2 DEF BeginOutOfDeviceMemory, MayBegin, HandlesConsistent, TypeOK
  <2>2. EncodersHeld'
    BY <1>2 DEF BeginOutOfDeviceMemory, EncodersHeld, TypeOK
  <2> QED
    BY <2>1, <2>2
<1>3. ASSUME NEW e \in Encoders, BeginRecording(c, e)
      PROVE  HandlesConsistent' /\ EncodersHeld'
  <2>1. \A d \in Cmds : wgpu_encoder[d] # e
    BY <1>3, NullAssumption DEF BeginRecording, HandlesConsistent
  <2>2. encoder'[e] = OpenedEncoder /\ wgpu_encoder'[c] = e /\ e # NULL
    BY <1>3, NullAssumption DEF BeginRecording, TypeOK
  <2>3. \A d \in Cmds \ {c} :
          /\ wgpu_encoder'[d] = wgpu_encoder[d]
          /\ wgpu_encoder[d] # NULL => encoder'[wgpu_encoder[d]]
                                       = encoder[wgpu_encoder[d]]
    BY <1>3, <2>1 DEF BeginRecording, TypeOK
  <2>4. HandlesConsistent'
    <3>1. \A d \in Cmds \ {c} :
            /\ recording'[d] = recording[d]
            /\ in_render_pass'[d] = in_render_pass[d]
            /\ wgpu_render_pass'[d] = wgpu_render_pass[d]
            /\ handle'[d] = handle[d]
      BY <1>3 DEF BeginRecording, TypeOK
    <3>2. /\ handle'[c] = "live" /\ recording'[c] /\ ~in_render_pass'[c]
          /\ wgpu_render_pass'[c] = NULL
      BY <1>3 DEF BeginRecording, MayBegin, HandlesConsistent, TypeOK
    <3> QED
      BY <2>2, <2>3, <3>1, <3>2, OpenedEncoderType DEF HandlesConsistent
  <2>5. EncodersHeld'
    BY <2>1, <2>2, <2>3, OpenedEncoderType DEF EncodersHeld
  <2> QED
    BY <2>4, <2>5
<1>4. CASE EndCommandBuffer(c)
  <2>1. \A e \in Encoders : encoder[e] \in Encoder
    BY DEF TypeOK
  <2>2. in_render_pass[c] => wgpu_render_pass[c] = wgpu_encoder[c]
                             /\ wgpu_encoder[c] \in Encoders
    BY DEF HandlesConsistent, TypeOK
  <2>3. \A d \in Cmds : wgpu_encoder[d] # NULL
          => encoder'[wgpu_encoder[d]].held = encoder[wgpu_encoder[d]].held
    BY <1>4, <2>1, <2>2, PassOperatorsStatus DEF EndCommandBuffer, OpenPassEnded, TypeOK
  <2>4. \A d \in Cmds \ {c} : wgpu_encoder[d] # NULL
          => encoder'[wgpu_encoder[d]] = encoder[wgpu_encoder[d]]
    BY <1>4, <2>2 DEF EndCommandBuffer, OpenPassEnded, EncodersHeld, TypeOK
  <2>5. wgpu_encoder[c] # NULL => encoder'[wgpu_encoder[c]].status # "unused"
    BY <1>4, <2>1, <2>2, PassOperatorsStatus
       DEF EndCommandBuffer, OpenPassEnded, HandlesConsistent, TypeOK
  <2>6. HandlesConsistent'
    BY <1>4, <2>4, <2>5 DEF EndCommandBuffer, OpenPassEnded, HandlesConsistent, TypeOK
  <2>7. EncodersHeld'
    BY <1>4, <2>3 DEF EndCommandBuffer, OpenPassEnded, EncodersHeld, TypeOK
  <2> QED
    BY <2>6, <2>7
<1> QED
  BY <1>1, <1>2, <1>3, <1>4 DEF BeginOrEnd

LEMMA RecordStructure ==
  ASSUME Structure, NEW c \in Cmds, Record(c)
  PROVE  HandlesConsistent' /\ EncodersHeld'
<1> USE DEF Structure
<1>1. \A e \in Encoders : encoder[e] \in Encoder
  BY DEF TypeOK
<1>2. CASE BeginRenderPass(c)
  <2>1. /\ wgpu_encoder[c] \in Encoders
        /\ encoder[wgpu_encoder[c]].status = "open"
    BY <1>2 DEF BeginRenderPass, InRecording, HandlesConsistent, TypeOK
  <2>2. /\ encoder'[wgpu_encoder[c]].status = "inpass"
        /\ encoder'[wgpu_encoder[c]].held = encoder[wgpu_encoder[c]].held
    BY <1>1, <1>2, <2>1, PassBegunWithStatus DEF BeginRenderPass, NewPass, TypeOK
  <2>3. \A d \in Cmds \ {c} : wgpu_encoder[d] # NULL
          => encoder'[wgpu_encoder[d]] = encoder[wgpu_encoder[d]]
    BY <1>2, <2>1 DEF BeginRenderPass, EncodersHeld, TypeOK
  <2>4. HandlesConsistent'
    BY <1>2, <2>1, <2>2, <2>3
       DEF BeginRenderPass, InRecording, HandlesConsistent, TypeOK
  <2>5. EncodersHeld'
    BY <1>2, <2>1, <2>2, <2>3 DEF BeginRenderPass, EncodersHeld, TypeOK
  <2> QED
    BY <2>4, <2>5
<1>3. CASE BeginRenderPassIgnored(c) \/ DrawIgnored(c)
  <2>1. SameShape
    BY <1>3 DEF BeginRenderPassIgnored, DrawIgnored, SameShape, vars
  <2> QED
    BY <2>1, SameShapeStructure
<1>4. CASE EndRenderPass(c)
  <2>1. /\ wgpu_encoder[c] \in Encoders
        /\ wgpu_render_pass[c] = wgpu_encoder[c]
        /\ wgpu_encoder[c] # NULL
        /\ encoder[wgpu_encoder[c]].status = "inpass"
        /\ recording[c]
    BY <1>4, NullAssumption DEF EndRenderPass, HandlesConsistent, TypeOK
  <2>2. /\ encoder'[wgpu_encoder[c]].status = "open"
        /\ encoder'[wgpu_encoder[c]].held = encoder[wgpu_encoder[c]].held
    BY <1>1, <1>4, <2>1, PassOperatorsStatus DEF EndRenderPass, TypeOK
  <2>3. \A d \in Cmds \ {c} : wgpu_encoder[d] # NULL
          => encoder'[wgpu_encoder[d]] = encoder[wgpu_encoder[d]]
    BY <1>4, <2>1 DEF EndRenderPass, EncodersHeld, TypeOK
  <2>4. HandlesConsistent'
    BY <1>4, <2>1, <2>2, <2>3 DEF EndRenderPass, HandlesConsistent, TypeOK
  <2>5. EncodersHeld'
    BY <1>4, <2>1, <2>2, <2>3 DEF EndRenderPass, EncodersHeld, TypeOK
  <2> QED
    BY <2>4, <2>5
<1>5. ASSUME NEW kind \in {"direct", "indexed"}, NEW n \in 0..2,
             Draw(c, kind, n)
      PROVE  HandlesConsistent' /\ EncodersHeld'
  <2>0. \A e \in Encoders :
          /\ PassDrawn(encoder[e], kind, n).held = encoder[e].held
          /\ PassDrawn(encoder[e], kind, n).status = encoder[e].status
    BY <1>1, RecordingOperatorsStatus
  <2>1. SameShape
    BY <1>5, <2>0 DEF Draw, SameShape, TypeOK
  <2> QED
    BY <2>1, SameShapeStructure
<1>6. ASSUME NEW n \in 1..2, NEW kind \in Transfers, Transfer(c, kind, n),
             encoder' \in {encoder, RegionsCopied(c, kind, n)}
      PROVE  HandlesConsistent' /\ EncodersHeld'
  <2>1. \A e \in Encoders :
          /\ Copied(encoder[e], kind, n).held = encoder[e].held
          /\ Copied(encoder[e], kind, n).status = encoder[e].status
    BY <1>1, RecordingOperatorsStatus
  <2>2. \A e \in Encoders :
          encoder'[e] \in {encoder[e], Copied(encoder[e], kind, n)}
    BY <1>6, TransferEncoders
  <2>3. SameShape
    BY <1>6, <2>1, <2>2 DEF Transfer, SameShape
  <2> QED
    BY <2>3, SameShapeStructure
<1>7. CASE Dispatch(c)
  <2>1. SameShape
    BY <1>7 DEF Dispatch, SameShape, TypeOK
  <2> QED
    BY <2>1, SameShapeStructure
<1> QED
  BY <1>2, <1>3, <1>4, <1>5, <1>6, <1>7, RecordCases

LEMMA NextStructure == Structure /\ [Next]_vars => Structure'
<1> SUFFICES ASSUME Structure, [Next]_vars
             PROVE  HandlesConsistent' /\ EncodersHeld'
  BY NextTypeOK DEF Structure
<1>1. CASE Lifetime
  BY <1>1, LifetimeStructure
<1>2. ASSUME NEW c \in Cmds, BeginOrEnd(c) \/ Bind(c) \/ Record(c)
      PROVE  HandlesConsistent' /\ EncodersHeld'
  BY <1>2, BeginOrEndStructure, RecordStructure, BindShape,
     SameShapeStructure DEF Structure
<1>3. CASE UNCHANGED vars
  <2>1. SameShape
    BY <1>3 DEF vars, SameShape
  <2> QED
    BY <2>1, SameShapeStructure DEF Structure
<1> QED
  BY <1>1, <1>2, <1>3 DEF Next

LEMMA StructureHolds == Spec => []Structure
<1>1. Init => Structure
  BY InitTypeOK, InitStructure DEF Structure
<1> QED
  BY <1>1, NextStructure, PTL DEF Spec

\* Whatever the application does - recording twice, freeing in a render pass
\* and failed begins included - the flags of a command buffer agree with its
\* handles and with the encoder behind them.
THEOREM HandlesStayConsistent == Spec => []HandlesConsistent
<1>1. Structure => HandlesConsistent
  BY DEF Structure
<1> QED
  BY <1>1, StructureHolds, PTL

\* No command buffer ever uses an encoder it, or another command buffer, has
\* released, and no two command buffers record into one encoder.
THEOREM EncodersStayHeld == Spec => []EncodersHeld
<1>1. Structure => EncodersHeld
  BY DEF Structure
<1> QED
  BY <1>1, StructureHolds, PTL

-----------------------------------------------------------------------------
(* Every encoder and every pass has an owner                               *)

\* What the WebGPU operators do to the reference to the pass.
LEMMA PassReference ==
  ASSUME NEW enc \in Encoder
  PROVE  /\ enc.status = "inpass" => ~PassEnded(enc).passHeld
         /\ \A b : PassSet(enc, b).passHeld = enc.passHeld
         /\ \A kind, n : PassDrawn(enc, kind, n).passHeld = enc.passHeld
         /\ \A kind, n : Copied(enc, kind, n).passHeld = enc.passHeld
  BY DEF PassEnded, PassSet, PassDrawn, Copied, Invalidated, Encoder

LEMMA SetOnPassReference ==
  ASSUME TypeOK, NEW c \in Cmds, NEW b, encoder' = SetOnPass(c, b)
  PROVE  \A e \in Encoders : encoder'[e].passHeld = encoder[e].passHeld
<1>1. \A e \in Encoders : encoder[e] \in Encoder
  BY DEF TypeOK
<1>2. wgpu_render_pass[c] # NULL => wgpu_render_pass[c] \in Encoders
  BY DEF TypeOK
<1> QED
  BY <1>1, <1>2, PassReference DEF SetOnPass, TypeOK

\* A step that keeps the encoders of the command buffers and the references
\* to them.
KeepsEncoders ==
  /\ UNCHANGED wgpu_encoder
  /\ \A e \in Encoders : encoder'[e].held = encoder[e].held

LEMMA KeepsEncodersOwned ==
  ASSUME KeepsEncoders
  PROVE  \A e \in Encoders : LostOnlyByBeginning(e)
  BY DEF LostOnlyByBeginning, Owned, KeepsEncoders

\* A step that keeps the open render passes and the references to them.
KeepsPasses ==
  /\ UNCHANGED wgpu_render_pass
  /\ \A e \in Encoders : encoder'[e].passHeld = encoder[e].passHeld

LEMMA KeepsPassesOwned ==
  ASSUME PassesOwned, KeepsPasses
  PROVE  PassesOwned'
  BY DEF PassesOwned, KeepsPasses

LEMMA BindKeepsBoth ==
  ASSUME TypeOK, NEW c \in Cmds, Bind(c)
  PROVE  KeepsEncoders /\ KeepsPasses
<1>1. SameShape
  BY BindShape
<1>2. \A e \in Encoders : encoder'[e].passHeld = encoder[e].passHeld
  BY SetOnPassReference
     DEF Bind, BindPipeline, BindVertexBuffers, BindIndexBuffer,
         BindDescriptorSets, SetDynamicState
<1> QED
  BY <1>1, <1>2 DEF SameShape, KeepsEncoders, KeepsPasses, cmdVars

LEMMA RecordKeepsEncoders ==
  ASSUME Structure, NEW c \in Cmds, Record(c)
  PROVE  KeepsEncoders
<1> USE DEF Structure
<1>1. \A e \in Encoders : encoder[e] \in Encoder
  BY DEF TypeOK
<1>2. CASE BeginRenderPass(c)
  BY <1>1, <1>2, PassBegunWithStatus
     DEF BeginRenderPass, NewPass, KeepsEncoders, TypeOK
<1>3. CASE EndRenderPass(c)
  BY <1>1, <1>3, PassOperatorsStatus DEF EndRenderPass, KeepsEncoders, TypeOK
<1>4. CASE BeginRenderPassIgnored(c) \/ DrawIgnored(c)
  BY <1>4 DEF BeginRenderPassIgnored, DrawIgnored, KeepsEncoders, vars, cmdVars
<1>5. ASSUME NEW kind \in {"direct", "indexed"}, NEW n \in 0..2,
             Draw(c, kind, n)
      PROVE  KeepsEncoders
  <2>1. \A e \in Encoders : PassDrawn(encoder[e], kind, n).held = encoder[e].held
    BY <1>1, RecordingOperatorsStatus
  <2> QED
    BY <1>5, <2>1 DEF Draw, KeepsEncoders, TypeOK, cmdVars
<1>6. ASSUME NEW n \in 1..2, NEW kind \in Transfers, Transfer(c, kind, n),
             encoder' \in {encoder, RegionsCopied(c, kind, n)}
      PROVE  KeepsEncoders
  <2>1. \A e \in Encoders :
          Copied(encoder[e], kind, n).held = encoder[e].held
    BY <1>1, RecordingOperatorsStatus
  <2>2. \A e \in Encoders :
          encoder'[e] \in {encoder[e], Copied(encoder[e], kind, n)}
    BY <1>6, TransferEncoders
  <2> QED
    BY <1>6, <2>1, <2>2 DEF Transfer, KeepsEncoders, cmdVars
<1>7. CASE Dispatch(c)
  BY <1>7 DEF Dispatch, KeepsEncoders, TypeOK, cmdVars
<1> QED
  BY <1>2, <1>3, <1>4, <1>5, <1>6, <1>7, RecordCases

LEMMA FreeEncodersOwned ==
  ASSUME Structure, NEW c \in Cmds, FreeCommandBuffer(c)
  PROVE  \A e \in Encoders : LostOnlyByBeginning(e)
<1>1. \A e \in Encoders :
        encoder'[e].held => encoder[e].held /\ wgpu_encoder[c] # e
  BY NullAssumption
     DEF FreeCommandBuffer, EncoderReleased, UnusedEncoder, Structure, TypeOK, Encoder
<1>2. \A d \in Cmds \ {c} : wgpu_encoder'[d] = wgpu_encoder[d]
  BY DEF FreeCommandBuffer, Structure, TypeOK
<1> QED
  BY <1>1, <1>2 DEF LostOnlyByBeginning, Owned

LEMMA BeginOrEndEncodersOwned ==
  ASSUME Structure, NEW c \in Cmds, BeginOrEnd(c)
  PROVE  \A e \in Encoders : LostOnlyByBeginning(e)
<1> USE DEF Structure
<1>1. CASE BeginNotReady(c) \/ EndNotReady(c)
  <2>1. KeepsEncoders
    BY <1>1 DEF BeginNotReady, EndNotReady, KeepsEncoders, vars, cmdVars
  <2> QED
    BY <2>1, KeepsEncodersOwned
<1>2. CASE BeginOutOfDeviceMemory(c)
  <2>1. encoder' = encoder /\ ~recording[c] /\ handle'[c] = "live"
    BY <1>2 DEF BeginOutOfDeviceMemory, MayBegin
  <2>2. \A d \in Cmds \ {c} : wgpu_encoder'[d] = wgpu_encoder[d]
    BY <1>2 DEF BeginOutOfDeviceMemory, TypeOK
  <2> QED
    BY <2>1, <2>2 DEF LostOnlyByBeginning, Owned
<1>3. ASSUME NEW e \in Encoders, BeginRecording(c, e)
      PROVE  \A f \in Encoders : LostOnlyByBeginning(f)
  <2>1. wgpu_encoder'[c] = e /\ ~recording[c] /\ handle'[c] = "live"
    BY <1>3 DEF BeginRecording, MayBegin, TypeOK
  <2>2. \A d \in Cmds \ {c} : wgpu_encoder'[d] = wgpu_encoder[d]
    BY <1>3 DEF BeginRecording, TypeOK
  <2>3. \A f \in Encoders \ {e} : encoder'[f] = encoder[f]
    BY <1>3 DEF BeginRecording, TypeOK
  <2> QED
    BY <2>1, <2>2, <2>3 DEF LostOnlyByBeginning, Owned
<1>4. CASE EndCommandBuffer(c)
  <2>1. \A e \in Encoders : PassEnded(encoder[e]).held = encoder[e].held
    BY PassOperatorsStatus DEF TypeOK
  <2>2. KeepsEncoders
    BY <1>4, <2>1 DEF EndCommandBuffer, OpenPassEnded, KeepsEncoders, TypeOK
  <2> QED
    BY <2>2, KeepsEncodersOwned
<1> QED
  BY <1>1, <1>2, <1>3, <1>4 DEF BeginOrEnd

LEMMA NextEncodersOwned ==
  ASSUME Structure, Next
  PROVE  \A e \in Encoders : LostOnlyByBeginning(e)
<1>1. CASE Lifetime
  <2>1. ASSUME NEW S \in SUBSET Cmds, NEW F \in SUBSET Cmds,
               \/ AllocateCommandBuffers(S)
               \/ AllocateCommandBuffersFails(S, F)
        PROVE  KeepsEncoders
    BY <2>1 DEF AllocateCommandBuffers, AllocateCommandBuffersFails, Fresh,
                cmdVars, KeepsEncoders
  <2> QED
    BY <1>1, <2>1, KeepsEncodersOwned, FreeEncodersOwned DEF Lifetime
<1>2. ASSUME NEW c \in Cmds, BeginOrEnd(c) \/ Bind(c) \/ Record(c)
      PROVE  \A e \in Encoders : LostOnlyByBeginning(e)
  BY <1>2, BeginOrEndEncodersOwned, BindKeepsBoth, RecordKeepsEncoders,
     KeepsEncodersOwned DEF Structure
<1> QED
  BY <1>1, <1>2 DEF Next

\* For every application, an encoder that has not been released belongs to a
\* command buffer, unless that has been begun again: allocation that fails half
\* way, failed begins and freeing included (command_buffer.c).
THEOREM EncodersStayOwned == Spec => EncodersKept
<1>1. Structure /\ [Next]_vars => [\A e \in Encoders : LostOnlyByBeginning(e)]_vars
  BY NextEncodersOwned
<1> QED
  BY <1>1, StructureHolds, PTL DEF Spec, EncodersKept

LEMMA FreePassesOwned ==
  ASSUME Structure, PassesOwned, "free_open" \notin ClientUses,
         NEW c \in Cmds, FreeCommandBuffer(c)
  PROVE  PassesOwned'
<1>1. \A e \in Encoders : encoder'[e].passHeld => encoder[e].passHeld
  BY DEF FreeCommandBuffer, EncoderReleased, UnusedEncoder, Structure, TypeOK, Encoder
<1>2. wgpu_render_pass' = wgpu_render_pass
  BY DEF FreeCommandBuffer, Structure, TypeOK
<1> QED
  BY <1>1, <1>2 DEF PassesOwned

\* The render pass of c is ended and forgotten.
LEMMA PassEndedOwned ==
  ASSUME Structure, PassesOwned, NEW c \in Cmds, in_render_pass[c],
         encoder' = [encoder EXCEPT ![wgpu_render_pass[c]] = PassEnded(@)],
         wgpu_render_pass' = [wgpu_render_pass EXCEPT ![c] = NULL]
  PROVE  PassesOwned'
<1> USE DEF Structure
<1>1. /\ wgpu_render_pass[c] \in Encoders
      /\ encoder[wgpu_render_pass[c]].status = "inpass"
  BY DEF HandlesConsistent, TypeOK
<1>2. /\ ~encoder'[wgpu_render_pass[c]].passHeld
      /\ \A e \in Encoders \ {wgpu_render_pass[c]} : encoder'[e] = encoder[e]
  BY <1>1, PassReference DEF TypeOK
<1>3. \A d \in Cmds \ {c} : wgpu_render_pass'[d] = wgpu_render_pass[d]
  BY DEF TypeOK
<1> QED
  BY <1>1, <1>2, <1>3 DEF PassesOwned

LEMMA BeginOrEndPassesOwned ==
  ASSUME Structure, PassesOwned, NEW c \in Cmds, BeginOrEnd(c)
  PROVE  PassesOwned'
<1> USE DEF Structure
<1>1. CASE BeginNotReady(c) \/ EndNotReady(c)
  BY <1>1 DEF BeginNotReady, EndNotReady, PassesOwned, vars, cmdVars
<1>2. CASE BeginOutOfDeviceMemory(c)
  BY <1>2 DEF BeginOutOfDeviceMemory, PassesOwned
<1>3. ASSUME NEW e \in Encoders, BeginRecording(c, e) PROVE PassesOwned'
  <2>1. \A f \in Encoders : encoder'[f].passHeld => encoder[f].passHeld
    BY <1>3 DEF BeginRecording, OpenedEncoder, UnusedEncoder, TypeOK
  <2> QED
    BY <1>3, <2>1 DEF BeginRecording, PassesOwned
<1>4. CASE EndCommandBuffer(c)
  <2>1. CASE in_render_pass[c]
    BY <1>4, <2>1, PassEndedOwned DEF EndCommandBuffer, OpenPassEnded, TypeOK
  <2>2. CASE ~in_render_pass[c]
    <3>1. encoder' = encoder /\ wgpu_render_pass' = wgpu_render_pass
      BY <1>4, <2>2 DEF EndCommandBuffer, OpenPassEnded, TypeOK
    <3> QED
      BY <3>1 DEF PassesOwned
  <2> QED
    BY <2>1, <2>2
<1> QED
  BY <1>1, <1>2, <1>3, <1>4 DEF BeginOrEnd

LEMMA RecordPassesOwned ==
  ASSUME Structure, PassesOwned, NEW c \in Cmds, Record(c)
  PROVE  PassesOwned'
<1> USE DEF Structure
<1>1. \A e \in Encoders : encoder[e] \in Encoder
  BY DEF TypeOK
<1>2. CASE BeginRenderPass(c)
  <2>1. /\ wgpu_render_pass[c] = NULL
        /\ wgpu_render_pass'[c] = wgpu_encoder[c]
    BY <1>2 DEF BeginRenderPass, HandlesConsistent, TypeOK
  <2>2. /\ \A d \in Cmds \ {c} : wgpu_render_pass'[d] = wgpu_render_pass[d]
        /\ \A e \in Encoders \ {wgpu_encoder[c]} : encoder'[e] = encoder[e]
    BY <1>2 DEF BeginRenderPass, TypeOK
  <2> QED
    BY <2>1, <2>2, NullAssumption DEF PassesOwned
<1>3. CASE EndRenderPass(c)
  <2>1. wgpu_render_pass[c] # NULL
    BY <1>3, NullAssumption DEF EndRenderPass, HandlesConsistent, TypeOK
  <2> QED
    BY <1>3, <2>1, PassEndedOwned DEF EndRenderPass
<1>4. CASE BeginRenderPassIgnored(c) \/ DrawIgnored(c)
  BY <1>4 DEF BeginRenderPassIgnored, DrawIgnored, PassesOwned, vars, cmdVars
<1>5. ASSUME NEW kind \in {"direct", "indexed"}, NEW n \in 0..2,
             Draw(c, kind, n)
      PROVE  PassesOwned'
  <2>1. \A e \in Encoders :
          PassDrawn(encoder[e], kind, n).passHeld = encoder[e].passHeld
    BY <1>1, PassReference
  <2>2. KeepsPasses
    BY <1>5, <2>1 DEF Draw, KeepsPasses, TypeOK, cmdVars
  <2> QED
    BY <2>2, KeepsPassesOwned
<1>6. ASSUME NEW n \in 1..2, NEW kind \in Transfers, Transfer(c, kind, n),
             encoder' \in {encoder, RegionsCopied(c, kind, n)}
      PROVE  PassesOwned'
  <2>1. \A e \in Encoders :
          Copied(encoder[e], kind, n).passHeld = encoder[e].passHeld
    BY <1>1, PassReference
  <2>2. \A e \in Encoders :
          encoder'[e] \in {encoder[e], Copied(encoder[e], kind, n)}
    BY <1>6, TransferEncoders
  <2>3. KeepsPasses
    BY <1>6, <2>1, <2>2 DEF Transfer, KeepsPasses, cmdVars
  <2> QED
    BY <2>3, KeepsPassesOwned
<1>7. CASE Dispatch(c)
  <2>1. KeepsPasses
    BY <1>7 DEF Dispatch, KeepsPasses, TypeOK, cmdVars
  <2> QED
    BY <2>1, KeepsPassesOwned
<1> QED
  BY <1>2, <1>3, <1>4, <1>5, <1>6, <1>7, RecordCases

LEMMA NextPassesOwned ==
  ASSUME "free_open" \notin ClientUses, Structure, PassesOwned, [Next]_vars
  PROVE  PassesOwned'
<1>1. CASE Lifetime
  <2>1. ASSUME NEW S \in SUBSET Cmds, NEW F \in SUBSET Cmds,
               \/ AllocateCommandBuffers(S)
               \/ AllocateCommandBuffersFails(S, F)
        PROVE  PassesOwned'
    BY <2>1 DEF AllocateCommandBuffers, AllocateCommandBuffersFails, Fresh,
                cmdVars, PassesOwned
  <2> QED
    BY <1>1, <2>1, FreePassesOwned DEF Lifetime
<1>2. ASSUME NEW c \in Cmds, BeginOrEnd(c) \/ Bind(c) \/ Record(c)
      PROVE  PassesOwned'
  BY <1>2, BeginOrEndPassesOwned, RecordPassesOwned, BindKeepsBoth,
     KeepsPassesOwned DEF Structure
<1>3. CASE UNCHANGED vars
  BY <1>3 DEF vars, cmdVars, PassesOwned
<1> QED
  BY <1>1, <1>2, <1>3 DEF Next

\* For an application that frees no command buffer inside a render pass,
\* every render pass that has not been released belongs to a command buffer
\* that will end it: a pass left open at vkEndCommandBuffer, one begun twice
\* and a command buffer recorded again included (command_buffer.c,
\* render_pass.c).
THEOREM PassesStayOwned ==
  "free_open" \notin ClientUses => (Spec => []PassesOwned)
<1> SUFFICES ASSUME "free_open" \notin ClientUses PROVE Spec => []PassesOwned
  OBVIOUS
<1>1. Init => PassesOwned
  BY DEF Init, PassesOwned, UnusedEncoder
<1>2. Structure /\ PassesOwned /\ [Next]_vars => PassesOwned'
  BY NextPassesOwned
<1> QED
  BY <1>1, <1>2, StructureHolds, PTL DEF Spec

-----------------------------------------------------------------------------
(* What is recorded is what the application asked for, for applications     *)
(* that do not bind before they begin a render pass.                       *)

\* The application asks for nothing that the code drops.
NothingDropped ==
  ClientUses \cap {"compute", "ignored_state", "dropped_transfer"} = {}

\* What the recording of c holds, and if nothing is dropped the commands too.
Faithful(c) ==
  /\ FollowsVk(c)
  /\ NothingDropped => /\ vk[c].compute = NULL
                       /\ vk[c].dynamic = Forwarded(vk[c].dynamic)
                       /\ Recorded(c)

Recording ==
  Structure /\ NeverRejected /\ \A c \in Cmds : Faithful(c)

-----------------------------------------------------------------------------
(* What the WebGPU operators do to validity, bindings and commands         *)

LEMMA PassOperatorsEffect ==
  ASSUME NEW enc \in Encoder
  PROVE  /\ enc.status = "open" =>
              /\ PassBegun(enc).valid = enc.valid
              /\ PassBegun(enc).status = "inpass"
              /\ PassBegun(enc).pass = NoBindings
              /\ PassBegun(enc).commands = enc.commands
         /\ enc.status = "inpass" =>
              /\ PassEnded(enc).valid = enc.valid
              /\ PassEnded(enc).commands = enc.commands
         /\ \A b : enc.status = "inpass" =>
              /\ PassSet(enc, b).valid = enc.valid
              /\ PassSet(enc, b).pass = b
              /\ PassSet(enc, b).commands = enc.commands
  BY DEF PassBegun, PassEnded, PassSet, Encoder

LEMMA PassBegunWithEffect ==
  ASSUME NEW enc \in Encoder, NEW p, enc.status = "open"
  PROVE  /\ PassBegunWith(enc, p).valid = enc.valid
         /\ PassBegunWith(enc, p).commands = enc.commands
         /\ PassBegunWith(enc, p).pass =
              IF p \in GraphicsPipelines
              THEN [NoBindings EXCEPT !.pipeline = p] ELSE NoBindings
<1>1. PassBegun(enc) \in Encoder
  BY PassOperatorsType
<1> QED
  BY <1>1, PassOperatorsEffect DEF PassBegunWith

LEMMA NothingRepeated ==
  ASSUME NEW enc \in Encoder, NEW x
  PROVE  enc.commands \o Repeated(x, 0) = enc.commands
<1>1. Repeated(x, 0) = << >>
  BY DEF Repeated
<1>2. enc.commands \in Seq(Command)
  BY DEF Encoder
<1> QED
  BY <1>1, <1>2

LEMMA PassDrawnEffect ==
  ASSUME NEW enc \in Encoder, NEW n \in Nat, NEW kind,
         enc.status = "inpass", Drawable(kind, enc.pass)
  PROVE  /\ PassDrawn(enc, kind, n).valid = enc.valid
         /\ PassDrawn(enc, kind, n).pass = enc.pass
         /\ PassDrawn(enc, kind, n).commands =
              enc.commands \o Repeated(DrawCommand(kind, enc.pass), n)
<1> DEFINE x == DrawCommand(kind, enc.pass)
<1>1. n = 0 => enc.commands \o Repeated(x, n) = enc.commands
  BY NothingRepeated
<1> HIDE DEF x
<1>2. PassDrawn(enc, kind, n) =
        IF n = 0 THEN enc
        ELSE [enc EXCEPT !.commands = @ \o Repeated(x, n)]
  BY DEF PassDrawn, x
<1>3. PassDrawn(enc, kind, n).commands = enc.commands \o Repeated(x, n)
  BY <1>1, <1>2 DEF Encoder
<1> QED
  BY <1>2, <1>3 DEF Encoder, x

LEMMA CopiedEffect ==
  ASSUME NEW enc \in Encoder, NEW n \in Nat, NEW kind, enc.status = "open"
  PROVE  /\ Copied(enc, kind, n).valid = enc.valid
         /\ Copied(enc, kind, n).pass = enc.pass
         /\ Copied(enc, kind, n).commands =
              enc.commands \o Repeated(TransferCommand(kind), n)
<1>1. n = 0 => enc.commands \o Repeated(TransferCommand(kind), n) = enc.commands
  BY NothingRepeated
<1> QED
  BY <1>1 DEF Copied, Encoder

-----------------------------------------------------------------------------
(* A step about one command buffer leaves the others alone.                *)

SameFields(d) ==
  /\ recording'[d] = recording[d]
  /\ in_render_pass'[d] = in_render_pass[d]
  /\ wgpu_encoder'[d] = wgpu_encoder[d]
  /\ bound_pipeline'[d] = bound_pipeline[d]
  /\ vk'[d] = vk[d]
  /\ intended'[d] = intended[d]

OthersSame(c) == \A d \in Cmds \ {c} : SameFields(d)

Framed(d) ==
  /\ SameFields(d)
  /\ wgpu_encoder[d] # NULL =>
       encoder'[wgpu_encoder[d]] = encoder[wgpu_encoder[d]]

LEMMA FramedKept ==
  ASSUME Structure, NEW d \in Cmds, Framed(d), Faithful(d)
  PROVE  Faithful(d)'
<1>1. in_render_pass[d] => wgpu_encoder[d] # NULL
  BY DEF Structure, HandlesConsistent
<1> QED
  BY <1>1 DEF Framed, SameFields, Faithful, FollowsVk, Recorded, VkBindings

\* A step that changes command buffer c and encoder e only: c has e, or
\* nobody has.
LEMMA StepOfOne ==
  ASSUME Recording, NEW c \in Cmds, NEW e,
         \A d \in Cmds \ {c} : wgpu_encoder[d] # NULL => wgpu_encoder[d] # e,
         OthersSame(c),
         \A f \in Encoders : f # e => encoder'[f] = encoder[f],
         e \in Encoders => encoder'[e].valid,
         Faithful(c)'
  PROVE  NeverRejected' /\ \A d \in Cmds : Faithful(d)'
<1>1. NeverRejected'
  BY DEF Recording, NeverRejected
<1>2. ASSUME NEW d \in Cmds \ {c} PROVE Faithful(d)'
  <2>1. wgpu_encoder[d] # NULL => wgpu_encoder[d] \in Encoders
    BY DEF Recording, Structure, TypeOK
  <2>2. Framed(d)
    BY <2>1 DEF Framed, OthersSame
  <2> QED
    BY <2>2, FramedKept DEF Recording
<1> QED
  BY <1>1, <1>2

\* The encoder of c is nobody else's.
LEMMA OwnEncoder ==
  ASSUME Structure, NEW c \in Cmds
  PROVE  \A d \in Cmds \ {c} : wgpu_encoder[d] # NULL
                                => wgpu_encoder[d] # wgpu_encoder[c]
  BY DEF Structure, EncodersHeld

-----------------------------------------------------------------------------
(* Every step keeps the recordings faithful.                               *)

\* A command buffer without state has none that is ignored.
LEMMA NothingForwarded ==
  /\ NothingBound.dynamic = Forwarded(NothingBound.dynamic)
  /\ NothingBound.compute = NULL
  /\ NothingBound.graphics = NULL
<1>1. NothingBound.dynamic = [k \in DynamicStates |-> NULL]
  BY DEF NothingBound
<1> QED
  BY <1>1 DEF Forwarded, NothingBound

LEMMA InitRecording == Init => NeverRejected /\ \A c \in Cmds : Faithful(c)
  BY NothingForwarded
     DEF Init, NeverRejected, Faithful, FollowsVk, Recorded, UnusedEncoder

LEMMA LifetimeRecording ==
  ASSUME Recording, Lifetime
  PROVE  NeverRejected' /\ \A d \in Cmds : Faithful(d)'
<1>1. ASSUME UNCHANGED << cmdVars, boundVars, encoder, vk, intended >>
      PROVE  NeverRejected' /\ \A d \in Cmds : Faithful(d)'
  BY <1>1 DEF Recording, NeverRejected, Faithful, FollowsVk, Recorded,
              VkBindings, cmdVars, boundVars
<1>2. ASSUME NEW c \in Cmds, FreeCommandBuffer(c)
      PROVE  NeverRejected' /\ \A d \in Cmds : Faithful(d)'
  <2>1. Faithful(c)'
    BY <1>2, NothingForwarded
       DEF FreeCommandBuffer, EncoderReleased, Faithful, FollowsVk, Recorded,
           Recording, Structure, TypeOK
  <2>2. wgpu_encoder[c] \in Encoders => encoder'[wgpu_encoder[c]].valid
    BY <1>2, NullAssumption
       DEF FreeCommandBuffer, EncoderReleased, Recording, NeverRejected, Structure, TypeOK,
           UnusedEncoder, Encoder
  <2>3. OthersSame(c)
    BY <1>2 DEF FreeCommandBuffer, EncoderReleased, OthersSame, SameFields, Recording,
                Structure, TypeOK, boundVars
  <2>4. \A f \in Encoders : f # wgpu_encoder[c] => encoder'[f] = encoder[f]
    BY <1>2 DEF FreeCommandBuffer, EncoderReleased, Recording, Structure, TypeOK
  <2>5. \A d \in Cmds \ {c} : wgpu_encoder[d] # NULL
                               => wgpu_encoder[d] # wgpu_encoder[c]
    BY OwnEncoder DEF Recording
  <2> QED
    BY <2>1, <2>2, <2>3, <2>4, <2>5, StepOfOne
<1> QED
  BY <1>1, <1>2
     DEF Lifetime, AllocateCommandBuffers, Fresh, AllocateCommandBuffersFails

LEMMA BeginOrEndRecording ==
  ASSUME Recording, NEW c \in Cmds, BeginOrEnd(c)
  PROVE  NeverRejected' /\ \A d \in Cmds : Faithful(d)'
<1>0. /\ Structure
      /\ Faithful(c)
      /\ \A d \in Cmds \ {c} : wgpu_encoder[d] # NULL
                                => wgpu_encoder[d] # wgpu_encoder[c]
  BY OwnEncoder DEF Recording
<1>1. CASE BeginNotReady(c) \/ EndNotReady(c)
  BY <1>1 DEF BeginNotReady, EndNotReady, vars, cmdVars, boundVars,
              Recording, NeverRejected, Faithful, FollowsVk, Recorded,
              VkBindings
<1>2. CASE BeginOutOfDeviceMemory(c)
  <2>1. Faithful(c)'
    BY <1>0, <1>2, NothingForwarded
       DEF BeginOutOfDeviceMemory, MayBegin, Faithful, FollowsVk, Recorded,
           Structure, TypeOK, HandlesConsistent
  <2>2. OthersSame(c)
    BY <1>2 DEF BeginOutOfDeviceMemory, OthersSame, SameFields, Recording,
                Structure, TypeOK, boundVars
  <2>3. encoder' = encoder
    BY <1>2 DEF BeginOutOfDeviceMemory
  <2> QED
    BY <1>0, <2>1, <2>2, <2>3, StepOfOne DEF Recording, NeverRejected
<1>3. ASSUME NEW e \in Encoders, BeginRecording(c, e)
      PROVE  NeverRejected' /\ \A d \in Cmds : Faithful(d)'
  <2>1. \A d \in Cmds \ {c} : wgpu_encoder[d] # NULL => wgpu_encoder[d] # e
    BY <1>0, <1>3 DEF BeginRecording, Structure, HandlesConsistent
  <2>2. /\ encoder'[e] = OpenedEncoder
        /\ \A f \in Encoders : f # e => encoder'[f] = encoder[f]
    BY <1>0, <1>3 DEF BeginRecording, Structure, TypeOK
  <2>3. OthersSame(c)
    BY <1>3 DEF BeginRecording, OthersSame, SameFields, Recording, Structure,
                TypeOK, boundVars
  <2>4. /\ wgpu_encoder'[c] = e /\ ~in_render_pass'[c]
        /\ vk'[c] = NothingBound /\ intended'[c] = << >>
    BY <1>0, <1>3 DEF BeginRecording, Structure, TypeOK
  <2>5. Faithful(c)'
    BY <2>2, <2>4, OpenedEncoderType, NothingForwarded
       DEF Faithful, FollowsVk, Recorded
  <2> QED
    BY <2>1, <2>2, <2>3, <2>5, OpenedEncoderType, StepOfOne
<1>4. CASE EndCommandBuffer(c)
  <2>1. wgpu_encoder[c] \in Encoders
    BY <1>0, <1>4 DEF EndCommandBuffer, OpenPassEnded, Structure, HandlesConsistent, TypeOK
  <2>2. encoder[wgpu_encoder[c]] \in Encoder
    BY <1>0, <2>1 DEF Structure, TypeOK
  <2>3. in_render_pass[c] => /\ wgpu_render_pass[c] = wgpu_encoder[c]
                             /\ encoder[wgpu_encoder[c]].status = "inpass"
    BY <1>0 DEF Structure, HandlesConsistent
  <2>4. /\ \A f \in Encoders : f # wgpu_encoder[c] => encoder'[f] = encoder[f]
        /\ encoder'[wgpu_encoder[c]].valid = encoder[wgpu_encoder[c]].valid
        /\ encoder'[wgpu_encoder[c]].commands
             = encoder[wgpu_encoder[c]].commands
    BY <1>0, <1>4, <2>1, <2>2, <2>3, PassOperatorsEffect
       DEF EndCommandBuffer, OpenPassEnded, Structure, TypeOK
  <2>5. OthersSame(c)
    BY <1>4 DEF EndCommandBuffer, OpenPassEnded, OthersSame, SameFields, Recording,
                Structure, TypeOK, boundVars
  <2>6. Faithful(c)'
    BY <1>0, <1>4, <2>4
       DEF EndCommandBuffer, OpenPassEnded, Faithful, FollowsVk, Recorded, Structure, TypeOK
  <2> QED
    BY <1>0, <2>1, <2>4, <2>5, <2>6, StepOfOne DEF Recording, NeverRejected
<1> QED
  BY <1>1, <1>2, <1>3, <1>4 DEF BeginOrEnd

LEMMA SetOnPassEffect ==
  ASSUME Recording, NEW c \in Cmds, NEW b, encoder' = SetOnPass(c, b)
  PROVE  /\ \A f \in Encoders : f # wgpu_encoder[c] => encoder'[f] = encoder[f]
         /\ wgpu_encoder[c] \in Encoders =>
              /\ encoder'[wgpu_encoder[c]].valid
              /\ encoder'[wgpu_encoder[c]].commands
                   = encoder[wgpu_encoder[c]].commands
         /\ in_render_pass[c] =>
              /\ encoder'[wgpu_encoder[c]].pass = b
              /\ OnPass(c) = encoder[wgpu_encoder[c]].pass
              /\ OnPass(c) \in PassBindings
<1>1. in_render_pass[c] => /\ wgpu_render_pass[c] = wgpu_encoder[c]
                           /\ wgpu_encoder[c] \in Encoders
                           /\ wgpu_encoder[c] # NULL
                           /\ encoder[wgpu_encoder[c]].status = "inpass"
                           /\ encoder[wgpu_encoder[c]] \in Encoder
  BY NullAssumption DEF Recording, Structure, HandlesConsistent, TypeOK
<1>2. ~in_render_pass[c] => encoder' = encoder
  BY DEF Recording, Structure, HandlesConsistent, TypeOK, SetOnPass
<1>3. in_render_pass[c] =>
        encoder' = [encoder EXCEPT ![wgpu_encoder[c]] = PassSet(@, b)]
  BY <1>1 DEF SetOnPass
<1>4. \A e \in Encoders : encoder[e].valid
  BY DEF Recording, NeverRejected
<1>5. CASE ~in_render_pass[c]
  BY <1>2, <1>4, <1>5
<1>6. CASE in_render_pass[c]
  <2>1. OnPass(c) = encoder[wgpu_encoder[c]].pass /\ OnPass(c) \in PassBindings
    BY <1>1, <1>6 DEF OnPass, Encoder
  <2>2. encoder'[wgpu_encoder[c]] = PassSet(encoder[wgpu_encoder[c]], b)
    BY <1>1, <1>3, <1>6 DEF Recording, Structure, TypeOK
  <2>3. \A f \in Encoders : f # wgpu_encoder[c] => encoder'[f] = encoder[f]
    BY <1>1, <1>3, <1>6 DEF Recording, Structure, TypeOK
  <2> QED
    BY <1>1, <1>4, <1>6, <2>1, <2>2, <2>3, PassOperatorsEffect
<1> QED
  BY <1>5, <1>6

\* b are the bindings Vulkan prescribes in state v: all of them but a pipeline
\* bound by an earlier recording and state that the code ignores.
Prescribed(b, v) ==
  /\ b \in PassBindings
  /\ v.graphics # NULL => b.pipeline = v.graphics
  /\ b.vertex = v.vertex
  /\ b.index = v.index
  /\ b.groups = v.groups
  /\ b.dynamic = Forwarded(v.dynamic)

LEMMA PrescribedFollows ==
  ASSUME NEW b \in PassBindings, NEW v \in VkState, NEW w,
         w = [pipeline |-> v.graphics, vertex |-> v.vertex, index |-> v.index,
              groups |-> v.groups, dynamic |-> v.dynamic]
  PROVE  Prescribed(b, v) <=>
           /\ v.graphics # NULL => b.pipeline = v.graphics
           /\ [b EXCEPT !.pipeline = v.graphics] =
                [w EXCEPT !.dynamic = Forwarded(@)]
<1>1. [w EXCEPT !.dynamic = Forwarded(@)] =
        [pipeline |-> v.graphics, vertex |-> v.vertex, index |-> v.index,
         groups |-> v.groups, dynamic |-> Forwarded(v.dynamic)]
  OBVIOUS
<1>2. [b EXCEPT !.pipeline = v.graphics] =
        [pipeline |-> v.graphics, vertex |-> b.vertex, index |-> b.index,
         groups |-> b.groups, dynamic |-> b.dynamic]
  BY DEF PassBindings
<1> QED
  BY <1>1, <1>2 DEF Prescribed

LEMMA BindRecording ==
  ASSUME Recording, NEW c \in Cmds, Bind(c)
  PROVE  NeverRejected' /\ \A d \in Cmds : Faithful(d)'
<1>0. /\ Structure /\ TypeOK
      /\ FollowsVk(c)
      /\ NothingDropped => /\ vk[c].compute = NULL
                           /\ vk[c].dynamic = Forwarded(vk[c].dynamic)
                           /\ Recorded(c)
      /\ \A d \in Cmds \ {c} : wgpu_encoder[d] # NULL
                                => wgpu_encoder[d] # wgpu_encoder[c]
      /\ vk[c] \in VkState
      /\ wgpu_encoder[c] # NULL => wgpu_encoder[c] \in Encoders
  BY OwnEncoder DEF Recording, Structure, Faithful, TypeOK
<1>1. ASSUME NEW b, encoder' = SetOnPass(c, b), OthersSame(c), Faithful(c)'
      PROVE  NeverRejected' /\ \A d \in Cmds : Faithful(d)'
  BY <1>0, <1>1, SetOnPassEffect, StepOfOne
<1>2. ASSUME NEW b, encoder' = SetOnPass(c, b),
             UNCHANGED << wgpu_encoder, recording, in_render_pass, intended >>,
             vk'[c].compute = vk[c].compute, vk'[c] \in VkState,
             \/ vk'[c].dynamic = vk[c].dynamic
             \/ NothingDropped => vk'[c].dynamic = Forwarded(vk'[c].dynamic),
             in_render_pass[c] => Prescribed(b, vk'[c]),
             recording[c] /\ vk[c].compute = NULL /\ vk'[c].graphics # NULL =>
               bound_pipeline'[c] = vk'[c].graphics
      PROVE  Faithful(c)'
  <2>1. in_render_pass[c] => encoder'[wgpu_encoder[c]].pass = b
    BY <1>2, SetOnPassEffect
  <2>2. FollowsVk(c)'
    <3>1. in_render_pass[c] =>
            [b EXCEPT !.pipeline = vk'[c].graphics] =
              [VkBindings(c)' EXCEPT !.dynamic = Forwarded(@)]
      BY <1>2, PrescribedFollows DEF Prescribed, VkBindings
    <3> QED
      BY <1>2, <2>1, <3>1 DEF FollowsVk, Prescribed
  <2>3. Recorded(c) => Recorded(c)'
    BY <1>0, <1>2, SetOnPassEffect DEF Recorded
  <2> QED
    BY <1>0, <1>2, <2>2, <2>3 DEF Faithful
<1>3. in_render_pass[c] =>
        Prescribed(OnPass(c), vk[c])
  <2>1. wgpu_render_pass[c] = IF in_render_pass[c] THEN wgpu_encoder[c] ELSE NULL
    BY <1>0 DEF Structure, HandlesConsistent
  <2>2. in_render_pass[c] => wgpu_encoder[c] # NULL
    BY <1>0 DEF Structure, HandlesConsistent
  <2>3. in_render_pass[c] =>
          /\ vk[c].graphics # NULL => OnPass(c).pipeline = vk[c].graphics
          /\ [OnPass(c) EXCEPT !.pipeline = vk[c].graphics]
               = [VkBindings(c) EXCEPT !.dynamic = Forwarded(@)]
          /\ OnPass(c) = encoder[wgpu_encoder[c]].pass
          /\ OnPass(c) \in PassBindings
    BY <1>0, <2>1, <2>2, OnPassType DEF FollowsVk, OnPass
  <2> QED
    BY <1>0, <2>3, PrescribedFollows DEF VkBindings
<1>4. ASSUME NEW first \in VertexSlots, NEW bufs \in Runs(Buffers),
             BindVertexBuffers(c, first, bufs)
      PROVE  NeverRejected' /\ \A d \in Cmds : Faithful(d)'
  <2> DEFINE b == [OnPass(c) EXCEPT !.vertex = Overlaid(@, first, bufs)]
  <2>1. vk'[c] = [vk[c] EXCEPT !.vertex = Overlaid(@, first, bufs)]
    BY <1>0, <1>4 DEF BindVertexBuffers, TypeOK
  <2>2. OthersSame(c)
    BY <1>0, <1>4 DEF BindVertexBuffers, OthersSame, SameFields, TypeOK, cmdVars
  <2>3. in_render_pass[c] => Prescribed(b, vk'[c])
    <3>1. \A slots \in [VertexSlots -> Maybe(Buffers)] :
            Overlaid(slots, first, bufs) \in [VertexSlots -> Maybe(Buffers)]
      BY OverlaidType, SlotAssumption
    <3> QED
      BY <1>0, <1>3, <2>1, <3>1 DEF Prescribed, PassBindings, VkState
  <2>4. Faithful(c)'
    <3>1. /\ vk'[c].compute = vk[c].compute /\ vk'[c].graphics = vk[c].graphics
          /\ vk'[c].dynamic = vk[c].dynamic /\ vk'[c] \in VkState
      BY <1>0, <2>1, BindTypeOK DEF TypeOK, VkState
    <3>2. encoder' = SetOnPass(c, b)
      BY <1>4 DEF BindVertexBuffers
    <3>3. UNCHANGED << wgpu_encoder, recording, in_render_pass, intended,
                       bound_pipeline >>
      BY <1>4 DEF BindVertexBuffers, cmdVars
    <3> HIDE DEF b
    <3> QED
      BY <1>0, <1>2, <2>3, <3>1, <3>2, <3>3 DEF FollowsVk
  <2> QED
    BY <1>1, <1>4, <2>2, <2>4 DEF BindVertexBuffers
<1>5. ASSUME NEW i \in Buffers,
             BindIndexBuffer(c, i)
      PROVE  NeverRejected' /\ \A d \in Cmds : Faithful(d)'
  <2> DEFINE b == [OnPass(c) EXCEPT !.index = i]
  <2>1. vk'[c] = [vk[c] EXCEPT !.index = i]
    BY <1>0, <1>5 DEF BindIndexBuffer, TypeOK
  <2>2. OthersSame(c)
    BY <1>0, <1>5 DEF BindIndexBuffer, OthersSame, SameFields, TypeOK, cmdVars,
                      boundVars
  <2>3. in_render_pass[c] => Prescribed(b, vk'[c])
    BY <1>0, <1>3, <2>1 DEF Prescribed, PassBindings, VkState
  <2>4. Faithful(c)'
    <3>1. /\ vk'[c].compute = vk[c].compute /\ vk'[c].graphics = vk[c].graphics
          /\ vk'[c].dynamic = vk[c].dynamic /\ vk'[c] \in VkState
      BY <1>0, <2>1, BindTypeOK DEF TypeOK, VkState
    <3>2. encoder' = SetOnPass(c, b)
      BY <1>5 DEF BindIndexBuffer
    <3>3. UNCHANGED << wgpu_encoder, recording, in_render_pass, intended,
                       bound_pipeline >>
      BY <1>5 DEF BindIndexBuffer, cmdVars, boundVars
    <3> HIDE DEF b
    <3> QED
      BY <1>0, <1>2, <2>3, <3>1, <3>2, <3>3 DEF FollowsVk
  <2> QED
    BY <1>1, <1>5, <2>2, <2>4 DEF BindIndexBuffer
<1>6. ASSUME NEW first \in GroupSlots, NEW sets \in Runs(Sets),
             BindDescriptorSets(c, first, sets)
      PROVE  NeverRejected' /\ \A d \in Cmds : Faithful(d)'
  <2> DEFINE b == [OnPass(c) EXCEPT !.groups = Overlaid(@, first, sets)]
  <2>1. vk'[c] = [vk[c] EXCEPT !.groups = Overlaid(@, first, sets)]
    BY <1>0, <1>6 DEF BindDescriptorSets, TypeOK
  <2>2. OthersSame(c)
    BY <1>0, <1>6 DEF BindDescriptorSets, OthersSame, SameFields, TypeOK, cmdVars,
                      boundVars
  <2>3. in_render_pass[c] => Prescribed(b, vk'[c])
    <3>1. \A slots \in [GroupSlots -> Maybe(Sets)] :
            Overlaid(slots, first, sets) \in [GroupSlots -> Maybe(Sets)]
      BY OverlaidType, SlotAssumption
    <3> QED
      BY <1>0, <1>3, <2>1, <3>1 DEF Prescribed, PassBindings, VkState
  <2>4. Faithful(c)'
    <3>1. /\ vk'[c].compute = vk[c].compute /\ vk'[c].graphics = vk[c].graphics
          /\ vk'[c].dynamic = vk[c].dynamic /\ vk'[c] \in VkState
      BY <1>0, <2>1, BindTypeOK DEF TypeOK, VkState
    <3>2. encoder' = SetOnPass(c, b)
      BY <1>6 DEF BindDescriptorSets
    <3>3. UNCHANGED << wgpu_encoder, recording, in_render_pass, intended,
                       bound_pipeline >>
      BY <1>6 DEF BindDescriptorSets, cmdVars, boundVars
    <3> HIDE DEF b
    <3> QED
      BY <1>0, <1>2, <2>3, <3>1, <3>2, <3>3 DEF FollowsVk
  <2> QED
    BY <1>1, <1>6, <2>2, <2>4 DEF BindDescriptorSets
<1>7. ASSUME NEW k \in DynamicStates, NEW d \in DynamicValues,
             SetDynamicState(c, k, d)
      PROVE  NeverRejected' /\ \A e \in Cmds : Faithful(e)'
  <2> DEFINE old == vk[c].dynamic
             new == [old EXCEPT ![k] = d]
  <2>1. /\ vk'[c] = [vk[c] EXCEPT !.dynamic = new]
        /\ vk'[c].compute = vk[c].compute /\ vk'[c].graphics = vk[c].graphics
        /\ vk'[c].dynamic = new /\ vk'[c] \in VkState
    <3>1. vk' = [vk EXCEPT ![c].dynamic = [@ EXCEPT ![k] = d]]
      BY <1>7 DEF SetDynamicState
    <3>2. vk'[c] = [vk[c] EXCEPT !.dynamic = new]
      BY <1>0, <3>1 DEF TypeOK
    <3>3. vk'[c] \in VkState
      BY BindTypeOK, <1>0 DEF TypeOK
    <3> HIDE DEF new
    <3> QED
      BY <1>0, <3>2, <3>3 DEF VkState
  <2>2. OthersSame(c)
    BY <1>0, <1>7 DEF SetDynamicState, OthersSame, SameFields, TypeOK, cmdVars,
                      boundVars
  <2>3. UNCHANGED << wgpu_encoder, recording, in_render_pass, intended,
                     bound_pipeline >>
    BY <1>7 DEF SetDynamicState, cmdVars, boundVars
  <2>4. old \in [DynamicStates -> Maybe(DynamicValues)]
    BY VkType, <1>0 DEF Dynamic
  <2>5. Forwarded(new) = IF k \in IgnoredStates THEN Forwarded(old)
                         ELSE [Forwarded(old) EXCEPT ![k] = d]
    BY <2>4 DEF Forwarded
  <2>6. NothingDropped => new = Forwarded(new)
    <3>1. NothingDropped => k \notin IgnoredStates /\ old = Forwarded(old)
      BY <1>0, <1>7 DEF SetDynamicState, NothingDropped
    <3> QED
      BY <2>5, <3>1
  <2> HIDE DEF old, new
  <2>7. CASE k \in IgnoredStates
    <3>1. encoder' = encoder
      BY <1>7, <2>7 DEF SetDynamicState
    <3>2. [VkBindings(c)' EXCEPT !.dynamic = Forwarded(@)] =
            [VkBindings(c) EXCEPT !.dynamic = Forwarded(@)]
      <4>1. VkBindings(c)' = [VkBindings(c) EXCEPT !.dynamic = new]
        BY <1>0, <2>1 DEF VkBindings, VkState
      <4>2. VkBindings(c).dynamic = old
        BY DEF VkBindings, old
      <4> QED
        BY <2>5, <2>7, <4>1, <4>2 DEF VkBindings
    <3>3. FollowsVk(c)'
      BY <1>0, <2>1, <2>3, <3>1, <3>2 DEF FollowsVk
    <3>4. Faithful(c)'
      BY <1>0, <2>1, <2>3, <2>6, <3>1, <3>3 DEF Faithful, Recorded
    <3> QED
      BY <1>0, <2>2, <3>1, <3>4, StepOfOne DEF Recording, NeverRejected
  <2>8. CASE k \notin IgnoredStates
    <3> DEFINE b == [OnPass(c) EXCEPT !.dynamic = [@ EXCEPT ![k] = d]]
    <3>1. encoder' = SetOnPass(c, b)
      BY <1>7, <2>8 DEF SetDynamicState
    <3>2. in_render_pass[c] => Prescribed(b, vk'[c])
      <4>1. OnPass(c) \in PassBindings /\ OnPass(c).dynamic = Forwarded(old)
              => b \in PassBindings /\ b.dynamic = Forwarded(new)
        BY <2>5, <2>8 DEF PassBindings, Dynamic
      <4>2. OnPass(c) \in PassBindings
              => /\ b.pipeline = OnPass(c).pipeline
                 /\ b.vertex = OnPass(c).vertex
                 /\ b.index = OnPass(c).index
                 /\ b.groups = OnPass(c).groups
        BY DEF PassBindings
      <4>3. /\ vk'[c].vertex = vk[c].vertex /\ vk'[c].index = vk[c].index
            /\ vk'[c].groups = vk[c].groups
        BY <1>0, <2>1 DEF VkState
      <4> HIDE DEF b
      <4> QED
        BY <1>3, <2>1, <4>1, <4>2, <4>3 DEF Prescribed, old
    <3> HIDE DEF b
    <3>3. recording[c] /\ vk[c].compute = NULL /\ vk'[c].graphics # NULL
            => bound_pipeline'[c] = vk'[c].graphics
      BY <1>0, <2>1, <2>3 DEF FollowsVk
    <3>4. Faithful(c)'
      BY <1>2, <2>1, <2>3, <2>6, <3>1, <3>2, <3>3
    <3> QED
      BY <1>1, <2>2, <3>1, <3>4
  <2> QED
    BY <2>7, <2>8
<1>8. ASSUME NEW p \in GraphicsPipelines, BindPipeline(c, p)
      PROVE  NeverRejected' /\ \A d \in Cmds : Faithful(d)'
  <2> DEFINE b == [OnPass(c) EXCEPT !.pipeline = p]
  <2>1. /\ vk'[c] = [vk[c] EXCEPT !.graphics = p]
        /\ bound_pipeline'[c] = p
    BY <1>0, <1>8 DEF BindPipeline, TypeOK
  <2>2. OthersSame(c)
    BY <1>0, <1>8 DEF BindPipeline, OthersSame, SameFields, TypeOK, cmdVars
  <2>3. in_render_pass[c] => Prescribed(b, vk'[c])
    BY <1>0, <1>3, <2>1 DEF Prescribed, PassBindings, VkState
  <2>4. Faithful(c)'
    <3>1. /\ vk'[c].compute = vk[c].compute /\ vk'[c].graphics = p
          /\ vk'[c].dynamic = vk[c].dynamic /\ vk'[c] \in VkState
      BY <1>0, <2>1, BindTypeOK DEF TypeOK, VkState
    <3>2. encoder' = SetOnPass(c, b)
      BY <1>8 DEF BindPipeline
    <3>3. UNCHANGED << wgpu_encoder, recording, in_render_pass, intended >>
      BY <1>8 DEF BindPipeline, cmdVars
    <3> HIDE DEF b
    <3> QED
      BY <1>2, <2>1, <2>3, <3>1, <3>2, <3>3
  <2> QED
    BY <1>1, <1>8, <2>2, <2>4 DEF BindPipeline
<1>9. ASSUME NEW p \in ComputePipelines, BindPipeline(c, p)
      PROVE  NeverRejected' /\ \A d \in Cmds : Faithful(d)'
  <2>1. /\ vk' = [vk EXCEPT ![c].compute = p]
        /\ encoder' = encoder
        /\ UNCHANGED << wgpu_encoder, recording, in_render_pass, intended >>
        /\ "compute" \in ClientUses /\ ~NothingDropped
    BY <1>9, PipelineAssumption DEF BindPipeline, cmdVars, NothingDropped
  <2>2. OthersSame(c)
    BY <1>0, <1>9, <2>1 DEF BindPipeline, OthersSame, SameFields, TypeOK, cmdVars
  <2>3. /\ vk'[c].compute = p /\ p # NULL
        /\ VkBindings(c)' = VkBindings(c)
        /\ vk'[c].graphics = vk[c].graphics
    BY <1>0, <2>1, NullAssumption DEF VkBindings, TypeOK, VkState
  <2>4. Faithful(c)'
    BY <1>0, <2>1, <2>3 DEF Faithful, FollowsVk
  <2> QED
    BY <1>0, <2>1, <2>2, <2>4, StepOfOne DEF Recording, NeverRejected
<1> QED
  BY <1>4, <1>5, <1>6, <1>7, <1>8, <1>9 DEF Bind, Pipelines

LEMMA RecordRecording ==
  ASSUME Recording, "early_bind" \notin ClientUses, NEW c \in Cmds, Record(c)
  PROVE  NeverRejected' /\ \A d \in Cmds : Faithful(d)'
<1>0. /\ Structure /\ TypeOK
      /\ FollowsVk(c)
      /\ NothingDropped => /\ vk[c].compute = NULL
                           /\ vk[c].dynamic = Forwarded(vk[c].dynamic)
                           /\ Recorded(c)
      /\ \A d \in Cmds \ {c} : wgpu_encoder[d] # NULL
                                => wgpu_encoder[d] # wgpu_encoder[c]
      /\ vk[c] \in VkState
      /\ \A e \in Encoders : encoder[e] \in Encoder /\ encoder[e].valid
  BY OwnEncoder DEF Recording, Structure, Faithful, TypeOK, NeverRejected
<1>1. recording[c] => /\ wgpu_encoder[c] \in Encoders
                      /\ wgpu_encoder[c] # NULL
                      /\ encoder[wgpu_encoder[c]].status =
                           IF in_render_pass[c] THEN "inpass" ELSE "open"
  BY <1>0, NullAssumption DEF Structure, HandlesConsistent, TypeOK
<1>2. /\ in_render_pass[c] => recording[c]
      /\ wgpu_render_pass[c] = IF in_render_pass[c] THEN wgpu_encoder[c] ELSE NULL
  BY <1>0 DEF Structure, HandlesConsistent
<1>3. CASE BeginRenderPass(c)
  <2> DEFINE e == wgpu_encoder[c]
             p == encoder'[e].pass
  <2>1. recording[c] /\ ~in_render_pass[c] /\ NothingToLose(c)
    BY <1>3 DEF BeginRenderPass, InRecording
  <2>2. encoder'[e] = PassBegunWith(encoder[e], bound_pipeline[c])
    BY <1>0, <1>1, <1>3, <2>1 DEF BeginRenderPass, NewPass, TypeOK
  <2>3. /\ encoder'[e].valid
        /\ encoder'[e].commands = encoder[e].commands
        /\ p = IF bound_pipeline[c] \in GraphicsPipelines
               THEN [NoBindings EXCEPT !.pipeline = bound_pipeline[c]]
               ELSE NoBindings
    BY <1>0, <1>1, <2>1, <2>2, PassBegunWithEffect
  <2>4. \A f \in Encoders : f # e => encoder'[f] = encoder[f]
    BY <1>0, <1>3 DEF BeginRenderPass, TypeOK
  <2>5. OthersSame(c)
    BY <1>0, <1>3 DEF BeginRenderPass, OthersSame, SameFields, TypeOK, boundVars
  <2>6. FollowsVk(c)'
    <3>1. /\ vk[c].compute = NULL /\ vk[c].index = NULL
          /\ Forwarded(vk[c].dynamic) = [k \in DynamicStates |-> NULL]
          /\ vk[c].vertex = [s \in VertexSlots |-> NULL]
          /\ vk[c].groups = [s \in GroupSlots |-> NULL]
      BY <1>0, <2>1 DEF NothingToLose, NothingBound, VkState
    <3>2. vk[c].graphics # NULL =>
            /\ bound_pipeline[c] = vk[c].graphics
            /\ bound_pipeline[c] \in GraphicsPipelines
      BY <1>0, <2>1, <3>1 DEF FollowsVk, VkState
    <3>3. vk[c].graphics # NULL => p.pipeline = vk[c].graphics
      BY <2>3, <3>2 DEF NoBindings
    <3>4. [p EXCEPT !.pipeline = vk[c].graphics] =
            [VkBindings(c) EXCEPT !.dynamic = Forwarded(@)]
      BY <2>3, <3>1 DEF NoBindings, VkBindings
    <3>5. UNCHANGED << wgpu_encoder, recording, bound_pipeline, vk >>
      BY <1>3 DEF BeginRenderPass, boundVars
    <3>6. VkBindings(c)' = VkBindings(c)
      BY <3>5 DEF VkBindings
    <3> QED
      BY <1>0, <3>3, <3>4, <3>5, <3>6 DEF FollowsVk
  <2>7. Faithful(c)'
    BY <1>0, <1>3, <2>3, <2>6 DEF BeginRenderPass, Faithful, Recorded
  <2> QED
    BY <1>0, <2>3, <2>4, <2>5, <2>7, StepOfOne
<1>4. CASE BeginRenderPassIgnored(c) \/ DrawIgnored(c)
  BY <1>4 DEF BeginRenderPassIgnored, DrawIgnored, vars, cmdVars, boundVars,
              Recording, NeverRejected, Faithful, FollowsVk, Recorded,
              VkBindings
<1>5. CASE EndRenderPass(c)
  <2> DEFINE e == wgpu_encoder[c]
  <2>1. recording[c] /\ in_render_pass[c] /\ wgpu_render_pass[c] = e
    BY <1>2, <1>5 DEF EndRenderPass
  <2>2. encoder'[e] = PassEnded(encoder[e])
    BY <1>0, <1>1, <1>5, <2>1 DEF EndRenderPass, TypeOK
  <2>3. encoder'[e].valid /\ encoder'[e].commands = encoder[e].commands
    BY <1>0, <1>1, <2>1, <2>2, PassOperatorsEffect
  <2>4. \A f \in Encoders : f # e => encoder'[f] = encoder[f]
    BY <1>0, <1>5, <2>1 DEF EndRenderPass, TypeOK
  <2>5. OthersSame(c)
    BY <1>0, <1>5 DEF EndRenderPass, OthersSame, SameFields, TypeOK, boundVars
  <2>6. Faithful(c)'
    BY <1>0, <1>5, <2>3
       DEF EndRenderPass, Faithful, FollowsVk, Recorded, TypeOK, boundVars
  <2> QED
    BY <1>0, <2>3, <2>4, <2>5, <2>6, StepOfOne
\* A step that records x on the encoder and y in the history.
<1>6. ASSUME NEW x, NEW y \in Seq(Command), NothingDropped => x = y,
             recording[c],
             UNCHANGED << handle, cmdVars, boundVars, vk >>,
             encoder'[wgpu_encoder[c]].valid,
             encoder'[wgpu_encoder[c]].pass = encoder[wgpu_encoder[c]].pass,
             encoder'[wgpu_encoder[c]].commands
               = encoder[wgpu_encoder[c]].commands \o x,
             \A f \in Encoders : f # wgpu_encoder[c] => encoder'[f] = encoder[f],
             Intend(c, y)
      PROVE  NeverRejected' /\ \A d \in Cmds : Faithful(d)'
  <2>1. /\ intended'[c] = intended[c] \o y
        /\ \A d \in Cmds \ {c} : intended'[d] = intended[d]
    BY <1>0, <1>6 DEF Intend, TypeOK
  <2>2. OthersSame(c)
    BY <1>6, <2>1 DEF OthersSame, SameFields, cmdVars, boundVars
  <2>3. VkBindings(c)' = VkBindings(c)
    BY <1>6 DEF VkBindings
  <2>4. Faithful(c)'
    BY <1>0, <1>6, <2>1, <2>3
       DEF Faithful, FollowsVk, Recorded, cmdVars, boundVars
  <2> QED
    BY <1>0, <1>6, <2>2, <2>4, StepOfOne
<1>7. ASSUME NEW kind \in {"direct", "indexed"}, NEW n \in 0..2,
             Draw(c, kind, n)
      PROVE  NeverRejected' /\ \A d \in Cmds : Faithful(d)'
  <2> DEFINE e == wgpu_encoder[c]
             x == Repeated(DrawCommand(kind, encoder[e].pass), n)
             y == Repeated(DrawCommand(kind, VkBindings(c)), n)
  <2>1. /\ recording[c] /\ in_render_pass[c] /\ wgpu_render_pass[c] = e
        /\ Drawable(kind, VkBindings(c))
    BY <1>2, <1>7 DEF Draw, InRecording
  <2>2. encoder[e].pass = [VkBindings(c) EXCEPT !.dynamic = Forwarded(@)]
    <3>1. VkBindings(c).pipeline = vk[c].graphics /\ vk[c].graphics # NULL
      BY <2>1 DEF Drawable, VkBindings
    <3>2. /\ encoder[e].pass.pipeline = vk[c].graphics
          /\ [encoder[e].pass EXCEPT !.pipeline = vk[c].graphics]
               = [VkBindings(c) EXCEPT !.dynamic = Forwarded(@)]
      BY <1>0, <2>1, <3>1 DEF FollowsVk
    <3>3. encoder[e].pass \in PassBindings
      BY <1>0, <1>1, <2>1 DEF Encoder
    <3> QED
      BY <3>2, <3>3 DEF PassBindings
  <2>3. encoder'[e] = PassDrawn(encoder[e], kind, n)
    BY <1>0, <1>1, <1>7, <2>1 DEF Draw, TypeOK
  <2>4. /\ encoder'[e].valid
        /\ encoder'[e].pass = encoder[e].pass
        /\ encoder'[e].commands = encoder[e].commands \o x
    <3>0. Drawable(kind, encoder[e].pass)
      BY <2>1, <2>2 DEF Drawable, VkBindings
    <3>1. /\ encoder[e] \in Encoder /\ encoder[e].valid /\ n \in Nat
          /\ encoder[e].status = "inpass"
      BY <1>0, <1>1, <2>1
    <3>2. /\ PassDrawn(encoder[e], kind, n).valid = encoder[e].valid
          /\ PassDrawn(encoder[e], kind, n).pass = encoder[e].pass
          /\ PassDrawn(encoder[e], kind, n).commands = encoder[e].commands \o x
      BY <3>0, <3>1, PassDrawnEffect, Zenon
    <3> HIDE DEF e, x
    <3> QED
      BY <2>3, <3>1, <3>2
  <2>5. y \in Seq(Command)
    <3>1. DrawCommand(kind, VkBindings(c)) \in Command
      BY <1>0, VkBindingsType, DrawCommandType
    <3> QED
      BY <3>1, RepeatedType
  <2>6. \A f \in Encoders : f # e => encoder'[f] = encoder[f]
    BY <1>0, <1>7, <2>1 DEF Draw, TypeOK
  <2>7. Intend(c, y) /\ UNCHANGED << handle, cmdVars, boundVars, vk >>
    BY <1>7 DEF Draw
  <2>8. NothingDropped => x = y
    <3>1. NothingDropped => encoder[e].pass = VkBindings(c)
      BY <1>0, <2>2 DEF VkBindings
    <3> QED
      BY <3>1
  <2> HIDE DEF x, y
  <2> QED
    BY <1>6, <2>1, <2>4, <2>5, <2>6, <2>7, <2>8
\* A step that records nothing on the encoder, but something in the history.
<1>10. ASSUME encoder' = encoder, ~NothingDropped,
              UNCHANGED << handle, cmdVars, boundVars, vk >>,
              \A d \in Cmds \ {c} : intended'[d] = intended[d]
       PROVE  NeverRejected' /\ \A d \in Cmds : Faithful(d)'
  <2>1. OthersSame(c)
    BY <1>10 DEF OthersSame, SameFields, cmdVars, boundVars
  <2>2. Faithful(c)'
    BY <1>0, <1>10 DEF Faithful, FollowsVk, VkBindings, cmdVars, boundVars
  <2> QED
    BY <1>0, <1>10, <2>1, <2>2, StepOfOne
<1>8. ASSUME NEW n \in 1..2, NEW kind \in Transfers, Transfer(c, kind, n),
             \/ encoder' = RegionsCopied(c, kind, n)
             \/ encoder' = encoder /\ "dropped_transfer" \in ClientUses
      PROVE  NeverRejected' /\ \A d \in Cmds : Faithful(d)'
  <2> DEFINE e == wgpu_encoder[c]
             x == Repeated(TransferCommand(kind), n)
  <2>1. recording[c] /\ ~in_render_pass[c]
    BY <1>8 DEF Transfer, InRecording
  <2>2. Intend(c, x) /\ UNCHANGED << handle, cmdVars, boundVars, vk >>
    BY <1>8 DEF Transfer
  <2>3. CASE encoder' = encoder /\ "dropped_transfer" \in ClientUses
    <3>1. \A d \in Cmds \ {c} : intended'[d] = intended[d]
      BY <1>0, <2>2 DEF Intend, TypeOK
    <3> QED
      BY <1>10, <2>2, <2>3, <3>1 DEF NothingDropped
  <2>4. CASE encoder' = RegionsCopied(c, kind, n)
    <3>1. /\ encoder'[e] = Copied(encoder[e], kind, n)
          /\ \A f \in Encoders : f # e => encoder'[f] = encoder[f]
      BY <1>0, <1>1, <2>1, <2>4 DEF RegionsCopied, TypeOK
    <3>2. /\ encoder'[e].valid
          /\ encoder'[e].pass = encoder[e].pass
          /\ encoder'[e].commands = encoder[e].commands \o x
      <4>1. /\ encoder[e] \in Encoder /\ encoder[e].valid /\ n \in Nat
            /\ encoder[e].status = "open"
        BY <1>0, <1>1, <2>1
      <4>2. /\ Copied(encoder[e], kind, n).valid = encoder[e].valid
            /\ Copied(encoder[e], kind, n).pass = encoder[e].pass
            /\ Copied(encoder[e], kind, n).commands = encoder[e].commands \o x
        BY <4>1, CopiedEffect, Zenon
      <4> HIDE DEF e, x
      <4> QED
        BY <3>1, <4>1, <4>2
    <3>3. x \in Seq(Command)
      BY TransferCommandType
    <3> HIDE DEF x
    <3> QED
      BY <1>6, <2>1, <2>2, <3>1, <3>2, <3>3
  <2> QED
    BY <1>8, <2>3, <2>4
\* A dispatch is lost; it takes a compute pipeline.
<1>9. CASE Dispatch(c)
  <2>1. /\ encoder' = encoder
        /\ UNCHANGED << handle, cmdVars, boundVars, vk >>
        /\ \A d \in Cmds \ {c} : intended'[d] = intended[d]
    BY <1>0, <1>9 DEF Dispatch, Intend, TypeOK
  <2>2. ~NothingDropped
    BY <1>0, <1>9 DEF Dispatch
  <2> QED
    BY <1>10, <2>1, <2>2
<1> QED
  BY <1>3, <1>4, <1>5, <1>7, <1>8, <1>9, RecordCases

LEMMA RecordingStep ==
  ASSUME "early_bind" \notin ClientUses, Recording, [Next]_vars
  PROVE  Recording'
<1> SUFFICES NeverRejected' /\ \A d \in Cmds : Faithful(d)'
  BY NextStructure DEF Recording
<1>1. CASE Lifetime
  BY <1>1, LifetimeRecording
<1>2. ASSUME NEW c \in Cmds, BeginOrEnd(c) \/ Bind(c) \/ Record(c)
      PROVE  NeverRejected' /\ \A d \in Cmds : Faithful(d)'
  BY <1>2, BeginOrEndRecording, BindRecording, RecordRecording
<1>3. CASE UNCHANGED vars
  BY <1>3 DEF vars, cmdVars, boundVars, Recording, NeverRejected, Faithful,
              FollowsVk, Recorded, VkBindings
<1> QED
  BY <1>1, <1>2, <1>3 DEF Next

LEMMA RecordingHolds ==
  "early_bind" \notin ClientUses => (Spec => []Recording)
<1> SUFFICES ASSUME "early_bind" \notin ClientUses PROVE Spec => []Recording
  OBVIOUS
<1>1. Init => Recording
  BY InitTypeOK, InitStructure, InitRecording DEF Recording, Structure
<1>2. Recording /\ [Next]_vars => Recording'
  BY RecordingStep
<1> QED
  BY <1>1, <1>2, PTL DEF Spec

\* An application that does not bind before it begins a render pass never has
\* a call rejected by WebGPU: no draw without a pipeline, no pass begun twice
\* (draw.c, render_pass.c).
THEOREM NothingRejected ==
  "early_bind" \notin ClientUses => (Spec => []NeverRejected)
<1>1. Recording => NeverRejected
  BY DEF Recording
<1> QED
  BY <1>1, RecordingHolds, PTL

\* Nor does a render pass of such an application ever hold another binding, or
\* another value of a state that the code forwards, than Vulkan prescribes.
THEOREM PassesFollowVk ==
  "early_bind" \notin ClientUses => (Spec => []PassFollowsVk)
<1>1. Recording => PassFollowsVk
  BY DEF Recording, Faithful, PassFollowsVk
<1> QED
  BY <1>1, RecordingHolds, PTL

\* If it does not ask for anything that the code drops either (dispatches, state
\* that is ignored, transfers without a body), WebGPU records exactly the
\* commands the application recorded, in their order, with their bindings and
\* state.
THEOREM RecordsWhatWasAsked ==
  ClientUses \cap {"early_bind", "compute", "ignored_state", "dropped_transfer"}
    = {}
    => (Spec => []RecordedAsIntended)
<1> SUFFICES ASSUME "early_bind" \notin ClientUses, NothingDropped
             PROVE  Spec => []RecordedAsIntended
  BY DEF NothingDropped
<1>1. Recording => RecordedAsIntended
  BY DEF Recording, Faithful, RecordedAsIntended
<1> QED
  BY <1>1, RecordingHolds, PTL

-----------------------------------------------------------------------------
(* No pass ever holds anything stale, whatever the application does.  The  *)
(* pipeline of a new pass comes from a field that outlives the recording,  *)
(* so the field has to be right before a pass begins; and a call whose     *)
(* body is empty can only be harmless because its state is never set.      *)

CleanPass(c) ==
  /\ recording[c] /\ vk[c].graphics # NULL =>
       bound_pipeline[c] \in {vk[c].graphics} \cup ComputePipelines
  /\ in_render_pass[c] =>
       LET p == encoder[wgpu_encoder[c]].pass
       IN /\ NothingStaleOn(c, p)
          /\ \A k \in DynamicStates \cap IgnoredStates : p.dynamic[k] = NULL

CleanPasses == Structure /\ \A c \in Cmds : CleanPass(c)

LEMMA FramedClean ==
  ASSUME Structure, NEW d \in Cmds, Framed(d), CleanPass(d)
  PROVE  CleanPass(d)'
<1>1. in_render_pass[d] => wgpu_encoder[d] # NULL
  BY DEF Structure, HandlesConsistent
<1> QED
  BY <1>1 DEF Framed, SameFields, CleanPass, NothingStaleOn

\* A step about c and encoder e, which is nobody else's.
LEMMA CleanStepOfOne ==
  ASSUME CleanPasses, NEW c \in Cmds, NEW e,
         \A d \in Cmds \ {c} : wgpu_encoder[d] # NULL => wgpu_encoder[d] # e,
         OthersSame(c),
         \A f \in Encoders : f # e => encoder'[f] = encoder[f],
         CleanPass(c)'
  PROVE  \A d \in Cmds : CleanPass(d)'
<1>1. ASSUME NEW d \in Cmds \ {c} PROVE CleanPass(d)'
  <2>1. wgpu_encoder[d] # NULL => wgpu_encoder[d] \in Encoders
    BY DEF CleanPasses, Structure, TypeOK
  <2>2. Framed(d)
    BY <2>1 DEF Framed, OthersSame
  <2> QED
    BY <2>2, FramedClean DEF CleanPasses
<1> QED
  BY <1>1

LEMMA LifetimeClean ==
  ASSUME CleanPasses, Lifetime
  PROVE  \A d \in Cmds : CleanPass(d)'
<1>1. ASSUME UNCHANGED << cmdVars, boundVars, encoder, vk, intended >>
      PROVE  \A d \in Cmds : CleanPass(d)'
  BY <1>1 DEF CleanPasses, CleanPass, NothingStaleOn, cmdVars, boundVars
<1>2. ASSUME NEW c \in Cmds, FreeCommandBuffer(c)
      PROVE  \A d \in Cmds : CleanPass(d)'
  <2>1. CleanPass(c)'
    BY <1>2 DEF FreeCommandBuffer, CleanPass, CleanPasses, Structure, TypeOK
  <2>2. OthersSame(c)
    BY <1>2 DEF FreeCommandBuffer, OthersSame, SameFields, CleanPasses,
                Structure, TypeOK, boundVars
  <2>3. \A f \in Encoders : f # wgpu_encoder[c] => encoder'[f] = encoder[f]
    BY <1>2 DEF FreeCommandBuffer, EncoderReleased, CleanPasses, Structure,
                TypeOK
  <2>4. \A d \in Cmds \ {c} : wgpu_encoder[d] # NULL
                               => wgpu_encoder[d] # wgpu_encoder[c]
    BY OwnEncoder DEF CleanPasses
  <2> QED
    BY <2>1, <2>2, <2>3, <2>4, CleanStepOfOne
<1> QED
  BY <1>1, <1>2
     DEF Lifetime, AllocateCommandBuffers, Fresh, AllocateCommandBuffersFails

LEMMA BeginOrEndClean ==
  ASSUME CleanPasses, NEW c \in Cmds, BeginOrEnd(c)
  PROVE  \A d \in Cmds : CleanPass(d)'
<1>0. /\ Structure /\ TypeOK
      /\ \A d \in Cmds \ {c} : wgpu_encoder[d] # NULL
                                => wgpu_encoder[d] # wgpu_encoder[c]
  BY OwnEncoder DEF CleanPasses, Structure
<1>1. CASE BeginNotReady(c) \/ EndNotReady(c)
  BY <1>1 DEF BeginNotReady, EndNotReady, vars, cmdVars, boundVars,
              CleanPasses, CleanPass, NothingStaleOn
<1>2. CASE BeginOutOfDeviceMemory(c)
  <2>1. CleanPass(c)'
    BY <1>0, <1>2 DEF BeginOutOfDeviceMemory, MayBegin, CleanPass, Structure,
                      HandlesConsistent
  <2>2. OthersSame(c)
    BY <1>0, <1>2 DEF BeginOutOfDeviceMemory, OthersSame, SameFields, TypeOK,
                      boundVars
  <2>3. encoder' = encoder
    BY <1>2 DEF BeginOutOfDeviceMemory
  <2> QED
    BY <1>0, <2>1, <2>2, <2>3, CleanStepOfOne
<1>3. ASSUME NEW e \in Encoders, BeginRecording(c, e)
      PROVE  \A d \in Cmds : CleanPass(d)'
  <2>1. \A d \in Cmds \ {c} : wgpu_encoder[d] # NULL => wgpu_encoder[d] # e
    BY <1>0, <1>3 DEF BeginRecording, Structure, HandlesConsistent
  <2>2. \A f \in Encoders : f # e => encoder'[f] = encoder[f]
    BY <1>0, <1>3 DEF BeginRecording, TypeOK
  <2>3. OthersSame(c)
    BY <1>0, <1>3 DEF BeginRecording, OthersSame, SameFields, TypeOK, boundVars
  <2>4. ~in_render_pass'[c] /\ vk'[c].graphics = NULL
    BY <1>0, <1>3, NothingForwarded DEF BeginRecording, TypeOK
  <2>5. CleanPass(c)'
    BY <2>4 DEF CleanPass
  <2> QED
    BY <2>1, <2>2, <2>3, <2>5, CleanStepOfOne
<1>4. CASE EndCommandBuffer(c)
  <2>1. in_render_pass[c] => wgpu_render_pass[c] = wgpu_encoder[c]
    BY <1>0 DEF Structure, HandlesConsistent
  <2>2. \A f \in Encoders : f # wgpu_encoder[c] => encoder'[f] = encoder[f]
    BY <1>0, <1>4, <2>1 DEF EndCommandBuffer, OpenPassEnded, TypeOK
  <2>3. OthersSame(c)
    BY <1>0, <1>4 DEF EndCommandBuffer, OthersSame, SameFields, TypeOK, boundVars
  <2>4. CleanPass(c)'
    BY <1>0, <1>4 DEF EndCommandBuffer, CleanPass, TypeOK
  <2> QED
    BY <1>0, <2>2, <2>3, <2>4, CleanStepOfOne
<1> QED
  BY <1>1, <1>2, <1>3, <1>4 DEF BeginOrEnd

\* What a binding call puts on the pass of c.
LEMMA SetOnPassSets ==
  ASSUME Structure, NEW c \in Cmds, NEW b, encoder' = SetOnPass(c, b)
  PROVE  /\ \A f \in Encoders : f # wgpu_encoder[c] => encoder'[f] = encoder[f]
         /\ in_render_pass[c] =>
              /\ encoder'[wgpu_encoder[c]].pass = b
              /\ OnPass(c) = encoder[wgpu_encoder[c]].pass
              /\ OnPass(c) \in PassBindings
<1>1. in_render_pass[c] => /\ wgpu_render_pass[c] = wgpu_encoder[c]
                           /\ wgpu_encoder[c] \in Encoders
                           /\ wgpu_encoder[c] # NULL
                           /\ encoder[wgpu_encoder[c]].status = "inpass"
                           /\ encoder[wgpu_encoder[c]] \in Encoder
  BY NullAssumption DEF Structure, HandlesConsistent, TypeOK
<1>2. CASE ~in_render_pass[c]
  BY <1>2 DEF Structure, HandlesConsistent, TypeOK, SetOnPass
<1>3. CASE in_render_pass[c]
  <2>1. OnPass(c) = encoder[wgpu_encoder[c]].pass /\ OnPass(c) \in PassBindings
    BY <1>1, <1>3 DEF OnPass, Encoder
  <2>2. encoder' = [encoder EXCEPT ![wgpu_encoder[c]] = PassSet(@, b)]
    BY <1>1, <1>3 DEF SetOnPass
  <2>3. encoder'[wgpu_encoder[c]] = PassSet(encoder[wgpu_encoder[c]], b)
    BY <1>1, <1>3, <2>2 DEF Structure, TypeOK
  <2>4. \A f \in Encoders : f # wgpu_encoder[c] => encoder'[f] = encoder[f]
    BY <2>2 DEF Structure, TypeOK
  <2> QED
    BY <1>1, <1>3, <2>1, <2>3, <2>4, PassOperatorsEffect
<1> QED
  BY <1>2, <1>3

\* What b has, state v has too; nothing of what is ignored.
Clean(b, v) ==
  /\ \A s \in VertexSlots : b.vertex[s] \in {NULL, v.vertex[s]}
  /\ \A s \in GroupSlots : b.groups[s] \in {NULL, v.groups[s]}
  /\ \A k \in DynamicStates : b.dynamic[k] \in {NULL, v.dynamic[k]}
  /\ b.index \in {NULL, v.index}
  /\ v.graphics # NULL => b.pipeline \in {NULL, v.graphics}
  /\ \A k \in DynamicStates \cap IgnoredStates : b.dynamic[k] = NULL

LEMMA BindClean ==
  ASSUME CleanPasses, NEW c \in Cmds, Bind(c)
  PROVE  \A d \in Cmds : CleanPass(d)'
<1>0. /\ Structure /\ TypeOK
      /\ CleanPass(c)
      /\ \A d \in Cmds \ {c} : wgpu_encoder[d] # NULL
                                => wgpu_encoder[d] # wgpu_encoder[c]
      /\ vk[c] \in VkState
  BY OwnEncoder DEF CleanPasses, Structure, TypeOK
<1> DEFINE Keeps == UNCHANGED << wgpu_encoder, recording, in_render_pass >>
           Pipeline == recording[c] /\ vk'[c].graphics # NULL =>
                         bound_pipeline'[c] \in
                           {vk'[c].graphics} \cup ComputePipelines
<1>1. ASSUME NEW b, encoder' = SetOnPass(c, b), OthersSame(c), Keeps, Pipeline,
             OnPass(c) \in PassBindings /\ Clean(OnPass(c), vk[c])
               => Clean(b, vk'[c])
      PROVE  \A d \in Cmds : CleanPass(d)'
  <2>1. in_render_pass[c] => OnPass(c) \in PassBindings /\ Clean(OnPass(c), vk[c])
    BY <1>0, <1>1, SetOnPassSets DEF CleanPass, NothingStaleOn, Clean
  <2>2. in_render_pass[c] => encoder'[wgpu_encoder[c]].pass = b
    BY <1>0, <1>1, SetOnPassSets
  <2>3. CleanPass(c)'
    BY <1>1, <2>1, <2>2 DEF CleanPass, NothingStaleOn, Clean
  <2> QED
    BY <1>0, <1>1, <2>3, SetOnPassSets, CleanStepOfOne
<1>2. ASSUME encoder' = encoder, OthersSame(c), Keeps, Pipeline,
             \A b : Clean(b, vk[c]) => Clean(b, vk'[c])
      PROVE  \A d \in Cmds : CleanPass(d)'
  <2>1. CleanPass(c)'
    BY <1>0, <1>2 DEF CleanPass, NothingStaleOn, Clean
  <2> QED
    BY <1>0, <1>2, <2>1, CleanStepOfOne
<1>3. ASSUME bound_pipeline'[c] = bound_pipeline[c],
             vk'[c].graphics = vk[c].graphics
      PROVE  Pipeline
  BY <1>0, <1>3 DEF CleanPass
<1>4. ASSUME NEW p \in Pipelines, BindPipeline(c, p)
      PROVE  \A d \in Cmds : CleanPass(d)'
  <2>1. OthersSame(c) /\ Keeps /\ bound_pipeline'[c] = p
    BY <1>0, <1>4 DEF BindPipeline, OthersSame, SameFields, TypeOK, cmdVars
  <2>2. CASE p \in GraphicsPipelines
    <3> DEFINE b == [OnPass(c) EXCEPT !.pipeline = p]
    <3>1. vk'[c] = [vk[c] EXCEPT !.graphics = p]
      BY <1>0, <1>4, <2>2 DEF BindPipeline, TypeOK
    <3>2. Pipeline
      BY <1>0, <2>1, <3>1 DEF VkState
    <3>3. OnPass(c) \in PassBindings /\ Clean(OnPass(c), vk[c])
            => Clean(b, vk'[c])
      BY <1>0, <3>1 DEF Clean, PassBindings, VkState
    <3>4. encoder' = SetOnPass(c, b)
      BY <1>4, <2>2 DEF BindPipeline
    <3> HIDE DEF b, Keeps, Pipeline
    <3> QED
      BY <1>1, <2>1, <3>2, <3>3, <3>4
  <2>3. CASE p \notin GraphicsPipelines
    <3>1. vk'[c] = [vk[c] EXCEPT !.compute = p] /\ encoder' = encoder
      BY <1>0, <1>4, <2>3 DEF BindPipeline, TypeOK
    <3>2. Pipeline
      BY <2>1, <2>3 DEF Pipelines
    <3>3. \A b : Clean(b, vk[c]) => Clean(b, vk'[c])
      BY <1>0, <3>1 DEF Clean, VkState
    <3> HIDE DEF Keeps, Pipeline
    <3> QED
      BY <1>2, <2>1, <3>1, <3>2, <3>3
  <2> QED
    BY <2>2, <2>3
<1>5. ASSUME NEW first \in VertexSlots, NEW bufs \in Runs(Buffers),
             BindVertexBuffers(c, first, bufs)
      PROVE  \A d \in Cmds : CleanPass(d)'
  <2> DEFINE b == [OnPass(c) EXCEPT !.vertex = Overlaid(@, first, bufs)]
  <2>1. OthersSame(c) /\ Keeps
    BY <1>0, <1>5 DEF BindVertexBuffers, OthersSame, SameFields, TypeOK, cmdVars
  <2>2. vk'[c] = [vk[c] EXCEPT !.vertex = Overlaid(@, first, bufs)]
    BY <1>0, <1>5 DEF BindVertexBuffers, TypeOK
  <2>3. Pipeline
    BY <1>0, <1>3, <1>5, <2>2 DEF BindVertexBuffers, VkState
  <2>4. OnPass(c) \in PassBindings /\ Clean(OnPass(c), vk[c])
          => Clean(b, vk'[c])
    BY <1>0, <2>2 DEF Clean, PassBindings, VkState, Overlaid
  <2>5. encoder' = SetOnPass(c, b)
    BY <1>5 DEF BindVertexBuffers
  <2> HIDE DEF b, Keeps, Pipeline
  <2> QED
    BY <1>1, <2>1, <2>3, <2>4, <2>5
<1>6. ASSUME NEW i \in Buffers, BindIndexBuffer(c, i)
      PROVE  \A d \in Cmds : CleanPass(d)'
  <2> DEFINE b == [OnPass(c) EXCEPT !.index = i]
  <2>1. OthersSame(c) /\ Keeps
    BY <1>0, <1>6 DEF BindIndexBuffer, OthersSame, SameFields, TypeOK, cmdVars
  <2>2. vk'[c] = [vk[c] EXCEPT !.index = i]
    BY <1>0, <1>6 DEF BindIndexBuffer, TypeOK
  <2>3. Pipeline
    BY <1>0, <1>3, <1>6, <2>2 DEF BindIndexBuffer, VkState
  <2>4. OnPass(c) \in PassBindings /\ Clean(OnPass(c), vk[c])
          => Clean(b, vk'[c])
    BY <1>0, <2>2 DEF Clean, PassBindings, VkState
  <2>5. encoder' = SetOnPass(c, b)
    BY <1>6 DEF BindIndexBuffer
  <2> HIDE DEF b, Keeps, Pipeline
  <2> QED
    BY <1>1, <2>1, <2>3, <2>4, <2>5
<1>7. ASSUME NEW first \in GroupSlots, NEW sets \in Runs(Sets),
             BindDescriptorSets(c, first, sets)
      PROVE  \A d \in Cmds : CleanPass(d)'
  <2> DEFINE b == [OnPass(c) EXCEPT !.groups = Overlaid(@, first, sets)]
  <2>1. OthersSame(c) /\ Keeps
    BY <1>0, <1>7 DEF BindDescriptorSets, OthersSame, SameFields, TypeOK, cmdVars
  <2>2. vk'[c] = [vk[c] EXCEPT !.groups = Overlaid(@, first, sets)]
    BY <1>0, <1>7 DEF BindDescriptorSets, TypeOK
  <2>3. Pipeline
    BY <1>0, <1>3, <1>7, <2>2 DEF BindDescriptorSets, VkState
  <2>4. OnPass(c) \in PassBindings /\ Clean(OnPass(c), vk[c])
          => Clean(b, vk'[c])
    BY <1>0, <2>2 DEF Clean, PassBindings, VkState, Overlaid
  <2>5. encoder' = SetOnPass(c, b)
    BY <1>7 DEF BindDescriptorSets
  <2> HIDE DEF b, Keeps, Pipeline
  <2> QED
    BY <1>1, <2>1, <2>3, <2>4, <2>5
<1>8. ASSUME NEW k \in DynamicStates, NEW v \in DynamicValues,
             SetDynamicState(c, k, v)
      PROVE  \A d \in Cmds : CleanPass(d)'
  <2> DEFINE b == [OnPass(c) EXCEPT !.dynamic = [@ EXCEPT ![k] = v]]
  <2>1. OthersSame(c) /\ Keeps
    BY <1>0, <1>8 DEF SetDynamicState, OthersSame, SameFields, TypeOK, cmdVars,
                      boundVars
  <2>2. vk'[c] = [vk[c] EXCEPT !.dynamic = [@ EXCEPT ![k] = v]]
    BY <1>0, <1>8 DEF SetDynamicState, TypeOK
  <2>3. /\ vk'[c].graphics = vk[c].graphics /\ vk'[c].vertex = vk[c].vertex
        /\ vk'[c].groups = vk[c].groups /\ vk'[c].index = vk[c].index
        /\ vk'[c].dynamic = [vk[c].dynamic EXCEPT ![k] = v]
    BY <1>0, <2>2 DEF VkState
  <2>4. vk[c].dynamic \in [DynamicStates -> Maybe(DynamicValues)]
    BY <1>0 DEF VkState, Dynamic
  <2>5. Pipeline
    BY <1>0, <1>3, <1>8, <2>3 DEF SetDynamicState, boundVars
  <2>6. CASE k \in IgnoredStates
    <3>1. encoder' = encoder
      BY <1>8, <2>6 DEF SetDynamicState
    <3>2. \A x : Clean(x, vk[c]) => Clean(x, vk'[c])
      BY <2>3, <2>4, <2>6 DEF Clean
    <3> HIDE DEF b, Keeps, Pipeline
    <3> QED
      BY <1>2, <2>1, <2>5, <3>1, <3>2
  <2>7. CASE k \notin IgnoredStates
    <3>1. encoder' = SetOnPass(c, b)
      BY <1>8, <2>7 DEF SetDynamicState
    <3>2. OnPass(c) \in PassBindings /\ Clean(OnPass(c), vk[c])
            => Clean(b, vk'[c])
      BY <2>3, <2>4, <2>7 DEF Clean, PassBindings, Dynamic
    <3> HIDE DEF b, Keeps, Pipeline
    <3> QED
      BY <1>1, <2>1, <2>5, <3>1, <3>2
  <2> QED
    BY <2>6, <2>7
<1> QED
  BY <1>4, <1>5, <1>6, <1>7, <1>8 DEF Bind

LEMMA PassUntouched ==
  ASSUME NEW enc \in Encoder
  PROVE  /\ \A kind, n : PassDrawn(enc, kind, n).pass = enc.pass
         /\ \A kind, n : Copied(enc, kind, n).pass = enc.pass
  BY DEF PassDrawn, Copied, Invalidated, Encoder

LEMMA RecordClean ==
  ASSUME CleanPasses, NEW c \in Cmds, Record(c)
  PROVE  \A d \in Cmds : CleanPass(d)'
<1>0. /\ Structure /\ TypeOK
      /\ CleanPass(c)
      /\ \A d \in Cmds \ {c} : wgpu_encoder[d] # NULL
                                => wgpu_encoder[d] # wgpu_encoder[c]
      /\ vk[c] \in VkState
      /\ \A e \in Encoders : encoder[e] \in Encoder
  BY OwnEncoder DEF CleanPasses, Structure, TypeOK
\* A step that leaves every pass alone.
<1>1. ASSUME UNCHANGED << cmdVars, boundVars, vk >>,
             \A e \in Encoders : encoder'[e].pass = encoder[e].pass
      PROVE  \A d \in Cmds : CleanPass(d)'
  <2>1. \A d \in Cmds : in_render_pass[d] => wgpu_encoder[d] \in Encoders
    BY <1>0, NullAssumption DEF Structure, HandlesConsistent, TypeOK
  <2> QED
    BY <1>1, <2>1
       DEF CleanPasses, CleanPass, NothingStaleOn, cmdVars, boundVars
<1>2. CASE BeginRenderPass(c)
  <2> DEFINE e == wgpu_encoder[c]
             p == encoder'[e].pass
  <2>1. recording[c] /\ ~in_render_pass[c]
    BY <1>2 DEF BeginRenderPass, InRecording
  <2>2. e \in Encoders /\ encoder[e].status = "open"
    BY <1>0, <2>1, NullAssumption DEF Structure, HandlesConsistent, TypeOK
  <2>3. p = IF bound_pipeline[c] \in GraphicsPipelines
            THEN [NoBindings EXCEPT !.pipeline = bound_pipeline[c]]
            ELSE NoBindings
    BY <1>0, <1>2, <2>2, PassBegunWithEffect DEF BeginRenderPass, NewPass, TypeOK
  <2>4. vk[c].graphics # NULL => p.pipeline \in {NULL, vk[c].graphics}
    BY <1>0, <2>1, <2>3, PipelineAssumption DEF CleanPass, NoBindings
  <2>5. /\ p.vertex = [s \in VertexSlots |-> NULL] /\ p.index = NULL
        /\ p.groups = [s \in GroupSlots |-> NULL]
        /\ p.dynamic = [k \in DynamicStates |-> NULL]
    BY <2>3 DEF NoBindings
  <2>6. CleanPass(c)'
    <3>1. /\ UNCHANGED << wgpu_encoder, recording, bound_pipeline, vk >>
      BY <1>2 DEF BeginRenderPass, boundVars
    <3> HIDE DEF p
    <3>2. NothingStaleOn(c, p)
      BY <2>4, <2>5 DEF NothingStaleOn
    <3> QED
      BY <1>0, <2>5, <3>1, <3>2 DEF CleanPass, NothingStaleOn, p
  <2>7. OthersSame(c) /\ \A f \in Encoders : f # e => encoder'[f] = encoder[f]
    BY <1>0, <1>2 DEF BeginRenderPass, OthersSame, SameFields, TypeOK, boundVars
  <2> QED
    BY <1>0, <2>6, <2>7, CleanStepOfOne
<1>3. CASE BeginRenderPassIgnored(c) \/ DrawIgnored(c)
  BY <1>1, <1>3 DEF BeginRenderPassIgnored, DrawIgnored, vars
<1>4. CASE EndRenderPass(c)
  <2>1. wgpu_render_pass[c] = wgpu_encoder[c]
    BY <1>0, <1>4 DEF EndRenderPass, Structure, HandlesConsistent
  <2>2. \A f \in Encoders : f # wgpu_encoder[c] => encoder'[f] = encoder[f]
    BY <1>0, <1>4, <2>1 DEF EndRenderPass, TypeOK
  <2>3. OthersSame(c)
    BY <1>0, <1>4 DEF EndRenderPass, OthersSame, SameFields, TypeOK, boundVars
  <2>4. CleanPass(c)'
    BY <1>0, <1>4 DEF EndRenderPass, CleanPass, TypeOK, boundVars
  <2> QED
    BY <1>0, <2>2, <2>3, <2>4, CleanStepOfOne
<1>5. ASSUME NEW kind \in {"direct", "indexed"}, NEW n \in 0..2,
             Draw(c, kind, n)
      PROVE  \A d \in Cmds : CleanPass(d)'
  <2>1. \A e \in Encoders :
          encoder'[e] \in {encoder[e], PassDrawn(encoder[e], kind, n)}
    BY <1>0, <1>5 DEF Draw, TypeOK
  <2>2. \A e \in Encoders : encoder'[e].pass = encoder[e].pass
    BY <1>0, <2>1, PassUntouched
  <2> QED
    BY <1>1, <1>5, <2>2 DEF Draw
<1>6. ASSUME NEW n \in 1..2, NEW kind \in Transfers, Transfer(c, kind, n),
             encoder' \in {encoder, RegionsCopied(c, kind, n)}
      PROVE  \A d \in Cmds : CleanPass(d)'
  <2>1. \A e \in Encoders :
          encoder'[e] \in {encoder[e], Copied(encoder[e], kind, n)}
    BY <1>0, <1>6, TransferEncoders
  <2>2. \A e \in Encoders : encoder'[e].pass = encoder[e].pass
    BY <1>0, <2>1, PassUntouched
  <2> QED
    BY <1>1, <1>6, <2>2 DEF Transfer
<1>7. CASE Dispatch(c)
  <2>1. encoder' = encoder
    BY <1>0, <1>7 DEF Dispatch, TypeOK
  <2> QED
    BY <1>1, <1>7, <2>1 DEF Dispatch
<1> QED
  BY <1>2, <1>3, <1>4, <1>5, <1>6, <1>7, RecordCases

\* Whatever an application does, a render pass never holds a binding or state
\* that was replaced or that an earlier recording left in the fields of its
\* command buffer (render_pass.c:74-81, command_buffer.c:69-95).
THEOREM PassesNeverStale == Spec => []PassNeverStale
<1>1. Init => CleanPasses
  BY InitTypeOK, InitStructure
     DEF CleanPasses, CleanPass, Structure, Init
<1>2. CleanPasses /\ [Next]_vars => CleanPasses'
  <2> SUFFICES ASSUME CleanPasses, [Next]_vars
               PROVE  \A d \in Cmds : CleanPass(d)'
    BY NextStructure DEF CleanPasses
  <2>1. CASE Lifetime
    BY <2>1, LifetimeClean
  <2>2. ASSUME NEW c \in Cmds, BeginOrEnd(c) \/ Bind(c) \/ Record(c)
        PROVE  \A d \in Cmds : CleanPass(d)'
    BY <2>2, BeginOrEndClean, BindClean, RecordClean
  <2>3. CASE UNCHANGED vars
    BY <2>3 DEF vars, cmdVars, boundVars, CleanPasses, CleanPass,
                NothingStaleOn
  <2> QED
    BY <2>1, <2>2, <2>3 DEF Next
<1>3. CleanPasses => PassNeverStale
  BY DEF CleanPasses, CleanPass, PassNeverStale
<1> QED
  BY <1>1, <1>2, <1>3, PTL DEF Spec

=============================================================================
