------------------------------- MODULE WebGPU -------------------------------
(***************************************************************************)
(* The part of the WebGPU API the translation layer drives, modelled from  *)
(* how src/src calls it: a command encoder, the render pass opened on it,  *)
(* and the command list it has recorded.  WebGPU is not in the repository. *)
(*                                                                         *)
(* WebGPU reports misuse through the encoder: a call that is not legal in  *)
(* the encoder's state leaves it invalid, and an invalid encoder finishes  *)
(* into a command buffer that the queue rejects.                           *)
(*                                                                         *)
(* Every operator is a pure function from one encoder record to the next.  *)
(***************************************************************************)
EXTENDS Naturals, Sequences

CONSTANTS
  VertexSlots,   \* vertex buffer slots of a render pass
  GroupSlots,    \* bind group slots of a render pass
  DynamicStates, \* kinds of dynamic state of a render pass
  NULL

\* A render pass starts with nothing set, whatever was set on earlier passes.
NoBindings ==
  [ pipeline |-> NULL,
    vertex   |-> [s \in VertexSlots |-> NULL],
    index    |-> NULL,
    groups   |-> [s \in GroupSlots |-> NULL],
    dynamic  |-> [k \in DynamicStates |-> NULL] ]

\* held and passHeld: the caller still owns a reference to release.
UnusedEncoder ==
  [ status |-> "unused", valid |-> TRUE, held |-> FALSE, passHeld |-> FALSE,
    pass |-> NoBindings, commands |-> << >> ]

\* wgpuDeviceCreateCommandEncoder
OpenedEncoder ==
  [ UnusedEncoder EXCEPT !.status = "open", !.held = TRUE ]

Invalidated(enc) == [ enc EXCEPT !.valid = FALSE ]

\* wgpuCommandEncoderBeginRenderPass
PassBegun(enc) ==
  IF enc.status = "open"
  THEN [ enc EXCEPT !.status = "inpass", !.passHeld = TRUE,
                    !.pass = NoBindings ]
  ELSE Invalidated(enc)

\* wgpuRenderPassEncoderEnd followed by wgpuRenderPassEncoderRelease
PassEnded(enc) ==
  IF enc.status = "inpass"
  THEN [ enc EXCEPT !.status = "open", !.passHeld = FALSE,
                    !.pass = NoBindings ]
  ELSE Invalidated(enc)

\* wgpuRenderPassEncoderSetPipeline, SetVertexBuffer, SetIndexBuffer,
\* SetBindGroup, SetViewport and the like: the pass keeps what was set last.
PassSet(enc, bindings) ==
  IF enc.status = "inpass"
  THEN [ enc EXCEPT !.pass = bindings ]
  ELSE Invalidated(enc)

\* What a draw reads: an indexed draw also reads the index buffer.
DrawCommand(kind, b) ==
  [ kind |-> kind, pipeline |-> b.pipeline, vertex |-> b.vertex,
    index |-> IF kind = "indexed" THEN b.index ELSE NULL,
    groups |-> b.groups, dynamic |-> b.dynamic ]

Repeated(command, n) == [ i \in 1..n |-> command ]

\* Whether a draw reads only what has been set.
Drawable(kind, b) ==
  /\ b.pipeline # NULL
  /\ kind = "indexed" => b.index # NULL

\* wgpuRenderPassEncoderDraw and its indexed and indirect variants, n times.
PassDrawn(enc, kind, n) ==
  IF n = 0 THEN enc
  ELSE IF enc.status = "inpass" /\ Drawable(kind, enc.pass)
  THEN [ enc EXCEPT !.commands = @ \o Repeated(DrawCommand(kind, enc.pass), n) ]
  ELSE Invalidated(enc)

DispatchCommand(p) == [ kind |-> "dispatch", pipeline |-> p ]

\* wgpuComputePassEncoderDispatchWorkgroups
Dispatched(enc, p) ==
  [ enc EXCEPT !.commands = Append(@, DispatchCommand(p)) ]

TransferCommand(kind) == [ kind |-> kind ]

\* wgpuCommandEncoderCopy*, once per region: only between passes.
Copied(enc, kind, n) ==
  IF n = 0 THEN enc
  ELSE IF enc.status = "open"
  THEN [ enc EXCEPT !.commands = @ \o Repeated(TransferCommand(kind), n) ]
  ELSE Invalidated(enc)

\* wgpuCommandEncoderFinish leaves the encoder unusable.  The command buffer
\* it returns is executable only if the encoder was open and valid.
Finished(enc) ==
  IF enc.status = "open"
  THEN [ enc EXCEPT !.status = "finished" ]
  ELSE [ Invalidated(enc) EXCEPT !.status = "finished" ]

FinishedBuffer(enc) ==
  [ valid |-> enc.valid /\ enc.status = "open", commands |-> enc.commands ]

=============================================================================
