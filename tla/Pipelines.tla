------------------------------- MODULE Pipelines -------------------------------
(***************************************************************************)
(* Pipelines (src/src/objects/pipeline.c), made from shader modules        *)
(* (ShaderModules) and for render passes (Attachments).                    *)
(*                                                                         *)
(* vkCreateGraphicsPipelines and vkCreateComputePipelines are loops within *)
(* one call: CreatePipelines starts it, PipelineMade and PipelineFails are *)
(* turns of the loop.  No other call runs in between.                      *)
(*                                                                         *)
(* A create info is a record                                               *)
(*   graphics    whether it is for a graphics pipeline                     *)
(*   stages      the stages, each [model, module, name]                    *)
(*   bindings    the vertex buffer bindings, by number                     *)
(*   attributes  the vertex attributes, each [binding, location]           *)
(*   colors      attachments of the colour blend state, 0 if there is none *)
(*   depth       whether there is a depth and stencil state                *)
(*   formats     those of the attachments of its render pass               *)
(* Formats, topology, rasterization and comparison are left out.  Memory   *)
(* for the arrays of a call is taken to be there: nothing looks.           *)
(***************************************************************************)
EXTENDS ShaderModules

CONSTANTS
  Pipelines,   \* addresses of VkPipelines
  Infos,       \* the create infos an application can pass ...
  Calls,       \* ... and the sequences of them in one call
  MaxColorAttachments,  \* 8, also the number of colour targets
  DepthFormats

ASSUME PipelineAssumption ==
  /\ MaxColorAttachments \in Nat \ {0} /\ NULL \notin DepthFormats
  /\ Calls \subseteq Seq(Infos)
  /\ \A info \in Infos :
       /\ info.stages \in Seq(Range(info.stages))
       /\ info.bindings \in Seq(Range(info.bindings))
       /\ info.attributes \in Seq(Range(info.attributes))
       /\ info.formats \in Seq(Range(info.formats))
       /\ info.colors \in Nat /\ info.depth \in BOOLEAN

INSTANCE Attachments

VARIABLES
  pipelines,       \* what there is at the addresses allocated
  pipelines_held,  \* WebGPU: the pipelines given out and not yet released
  owned,           \* those the application has been given and not destroyed
  batch,           \* the create infos the call in progress has still to look at
  made             \* the pipelines it has made: pPipelines[0 .. i)

pipelineVars == << pipelines, pipelines_held, owned, batch, made >>
allVars == << shaderVars, pipelineVars >>

-----------------------------------------------------------------------------
(* What plausible mistakes in the code below would do instead.             *)

\* The last pipeline made before the failure is forgotten.
ReleasedButLast == {made[i] : i \in DOMAIN made \ {Len(made)}}

\* A binding is taken for the number of its description.
ByPosition(info, b) ==
  Picked(info.attributes,
         {a \in DOMAIN info.attributes : info.attributes[a].binding = b - 1})

\* The targets are not capped.
Uncapped(info) == info.colors

-----------------------------------------------------------------------------
(* From a create info to the description that WebGPU is given              *)

\* The last stage of the info with this execution model, and the entry points
\* that the shader chosen for it has.
Stage(info, em) ==
  LET found == {s \in DOMAIN info.stages : info.stages[s].model = em}
  IN IF found = {} THEN NULL
     ELSE LET s == info.stages[CHOOSE s \in found : \A t \in found : t <= s]
              module == modules[s.module]
          IN [entry    |-> << em, s.name >>,
              shader   |-> ShaderForStage(module, em),
              provided |-> Provided(module, ShaderForStage(module, em))]

\* The attributes that belong to the b-th binding of the info.
OfBinding(info, b) ==
  {a \in DOMAIN info.attributes : info.attributes[a].binding = info.bindings[b]}
AttributesOf(info, b) == Picked(info.attributes, OfBinding(info, b))

\* One array for the attributes of all bindings.  Each binding writes its own
\* to the front of it, over those of the bindings before.
AttributeArray(info) ==
  LET written[b \in 0 .. Len(info.bindings)] ==
        IF b = 0 THEN << >>
        ELSE AttributesOf(info, b) \o
             SubSeq(written[b - 1], Len(AttributesOf(info, b)) + 1, Len(written[b - 1]))
  IN written[Len(info.bindings)]

\* The attributes each buffer is described with.
Buffers(info) ==
  [b \in DOMAIN info.bindings |->
     SubSeq(AttributeArray(info), 1, Len(AttributesOf(info, b)))]

\* One target, if no blend state says how many.
BlendTargets(info) == FirstFew([c \in 1 .. info.colors |-> c], MaxColorAttachments)
ColorTargets(info) == IF info.colors = 0 THEN 1 ELSE Len(BlendTargets(info))

\* A graphics pipeline with a single stage has no fragment state.
GraphicsPipeline(info) ==
  LET several == Len(info.stages) > 1
  IN [info     |-> info,
      vertex   |-> Stage(info, Vertex),
      fragment |-> IF several THEN Stage(info, Fragment) ELSE NULL,
      buffers  |-> Buffers(info),
      targets  |-> IF several THEN ColorTargets(info) ELSE 0,
      depth    |-> info.depth]

ComputePipeline(info) == [info |-> info, compute |-> Stage(info, GLCompute)]

MadeFrom(info) == IF info.graphics THEN GraphicsPipeline(info) ELSE ComputePipeline(info)

-----------------------------------------------------------------------------
(* Calls                                                                   *)

Idle == batch = << >>

\* The contract: every stage is one of the code of a live shader module, and
\* none comes twice.
Permitted(info) ==
  /\ \A s \in DOMAIN info.stages :
       LET stage == info.stages[s]
       IN /\ stage.module \in DOMAIN modules
          /\ \E e \in ToSet(modules[stage.module].code.entries) :
               e.model = stage.model /\ e.name = stage.name
  /\ \A s, t \in DOMAIN info.stages :
       info.stages[s].model = info.stages[t].model => s = t

CreatePipelines(infos) ==
  /\ Idle /\ infos # << >>
  /\ \A i \in DOMAIN infos : Permitted(infos[i])
  /\ batch' = infos
  /\ UNCHANGED << shaderVars, pipelines, pipelines_held, owned, made >>

\* The next pipeline is made.  After the last, the call returns.
PipelineMade(p) ==
  /\ ~Idle /\ p \notin DOMAIN pipelines
  /\ pipelines' = [a \in DOMAIN pipelines \cup {p} |->
       IF a = p THEN MadeFrom(Head(batch)) ELSE pipelines[a]]
  /\ pipelines_held' = pipelines_held \cup {p}
  /\ batch' = Tail(batch)
  /\ IF Tail(batch) = << >>
     THEN owned' = owned \cup ToSet(made) \cup {p} /\ made' = << >>
     ELSE made' = Append(made, p) /\ UNCHANGED owned
  /\ UNCHANGED shaderVars

\* The pipelines that the call has made are released again.
ReleasedOnFailure == ToSet(made)

\* There is no memory for the next pipeline, or WebGPU gives none.  What the
\* caller's array names is gone.
PipelineFails ==
  /\ ~Idle
  /\ pipelines' = [p \in DOMAIN pipelines \ ReleasedOnFailure |-> pipelines[p]]
  /\ pipelines_held' = pipelines_held \ ReleasedOnFailure
  /\ batch' = << >> /\ made' = << >>
  /\ UNCHANGED << shaderVars, owned >>

DestroyPipeline(p) ==
  /\ Idle /\ p \in owned
  /\ pipelines' = [a \in DOMAIN pipelines \ {p} |-> pipelines[a]]
  /\ pipelines_held' = pipelines_held \ {p}
  /\ owned' = owned \ {p}
  /\ UNCHANGED << shaderVars, batch, made >>

\* Which of the entry points of its code a shader module is made for.
Outcomes(c) == IF c.kind = "wgsl" THEN {{0}} ELSE SUBSET Transpiled(c)

PipelineInit ==
  /\ ShaderInit
  /\ pipelines = << >>
  /\ pipelines_held = {} /\ owned = {}
  /\ batch = << >> /\ made = << >>

PipelineNext ==
  \/ \E m \in Modules : \E c \in Codes : \E taken \in Outcomes(c) :
       Idle /\ CreateShaderModule(m, c, taken) /\ UNCHANGED pipelineVars
  \/ \E m \in Modules : \E c \in Codes :
       Idle /\ CreateShaderModuleFails(m, c) /\ UNCHANGED pipelineVars
  \/ \E m \in Modules : Idle /\ DestroyShaderModule(m) /\ UNCHANGED pipelineVars
  \/ \E infos \in Calls : CreatePipelines(infos)
  \/ \E p \in Pipelines : PipelineMade(p)
  \/ PipelineFails
  \/ \E p \in Pipelines : DestroyPipeline(p)

PipelineSpec == PipelineInit /\ [][PipelineNext]_allVars

-----------------------------------------------------------------------------
(* Properties                                                              *)

\* The pipelines that exist, here and in WebGPU, are those the application can
\* destroy and those of the call in progress: a call that fails after some of
\* its pipelines leaves none behind, and takes none that were there before.
PipelinesOwned ==
  /\ DOMAIN pipelines = owned \cup ToSet(made)
  /\ pipelines_held = owned \cup ToSet(made)
  /\ owned \cap ToSet(made) = {}
  /\ Idle => made = << >>

\* The stages of a pipeline.
StagesUsed(pipeline) ==
  (IF pipeline.info.graphics THEN {pipeline.vertex, pipeline.fragment}
                             ELSE {pipeline.compute}) \ {NULL}

\* A stage never gets a shader without the entry point it asks for: it gets
\* the right one, also of a module of several stages or one that was made for
\* some of its entry points only, or else none, which WebGPU rejects.  This
\* holds as long as no code has had two entry points of one stage, since the
\* text for either is that of the first.
RightShader ==
  unique =>
    \A p \in owned : \A s \in StagesUsed(pipelines[p]) :
      s.shader # NULL => s.entry \in s.provided

\* The places of a render pass's attachments, by their part.
Depths(formats) == {i \in DOMAIN formats : formats[i] \in DepthFormats}
Colors(formats) == Picked([i \in DOMAIN formats |-> i], DOMAIN formats \ Depths(formats))

\* What the code supports: at most one depth attachment, behind the others.
Arranged(formats) == Depths(formats) \subseteq {Len(formats)}

\* An info that says about the attachments what its render pass says.
Consistent(info) ==
  /\ Len(info.stages) > 1
  /\ info.colors = Len(Colors(info.formats)) /\ info.colors \in 1 .. MaxColorAttachments
  /\ info.depth = (Depths(info.formats) # {})

\* A pipeline fits the pass that is begun with its render pass and with a
\* framebuffer for it, where each view is known by its place: there are as many
\* colours as the pipeline has targets, there is a depth if the pipeline has
\* one, and every view plays the part it was created for.
FitsPass(pipeline) ==
  LET info == pipeline.info
      views == [i \in DOMAIN info.formats |-> i]
      pass == BegunPass(RenderPass(info.formats), Framebuffer(views))
  IN /\ pass.colors = Colors(info.formats)
     /\ Len(pass.colors) = pipeline.targets
     /\ {pass.depth} \ {NULL} = Depths(info.formats)
     /\ pipeline.depth = (pass.depth # NULL)

\* A pipeline can be used in the pass of its own render pass, if the depth
\* attachment is the last.
PassMatchesPipeline ==
  \A p \in owned :
    LET info == pipelines[p].info
    IN info.graphics /\ Consistent(info) /\ Arranged(info.formats) => FitsPass(pipelines[p])

\* The attributes that the info gives a binding.
Own(info, b) == Picked(info.attributes, OfBinding(info, b))

\* A buffer is described with the attributes of its binding, if no other
\* binding has any.  If several have, the attributes of the later ones replace
\* those of the earlier ones.
AttributesKept ==
  \A p \in owned :
    LET info == pipelines[p].info
    IN info.graphics =>
         \A b \in DOMAIN info.bindings :
           (\A c \in DOMAIN info.bindings \ {b} : Own(info, c) = << >>)
             => pipelines[p].buffers[b] = Own(info, b)

\* Type invariant.  The table of targets is not overrun.
PipelineTypeOK ==
  /\ owned \subseteq Pipelines /\ made \in Seq(Pipelines)
  /\ \A m \in DOMAIN modules :
       /\ modules[m].code \in Codes
       /\ \A em \in Stages :
            modules[m].stage_shaders[em] \in DOMAIN modules[m].code.entries \cup {NULL}
  /\ \A p \in owned : pipelines[p].info.graphics => pipelines[p].targets <= MaxColorAttachments

=============================================================================
