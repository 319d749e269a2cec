----------------------------- MODULE ShaderModules -----------------------------
(***************************************************************************)
(* Shader modules (src/src/objects/shader_module.c): WGSL source becomes   *)
(* one WebGPU shader module, SPIR-V code one for each of its entry points. *)
(*                                                                         *)
(* Code is a record [kind, entries]: "none", "wgsl" or "spirv", and its    *)
(* entry points, each [model, name].  The text that is generated for an    *)
(* entry point has a single function, which carries the name that the      *)
(* generator looks up (WgslGen).                                           *)
(*                                                                         *)
(* A WebGPU shader module is known by the address of the shader module it  *)
(* was made for and the entry point it was made from, 0 for WGSL source;   *)
(* for a given address there is code at most once per entry point.         *)
(***************************************************************************)
EXTENDS WgslGen

CONSTANTS
  Modules,   \* addresses of VkShaderModules
  Codes      \* the code an application can pass

\* WGVK_SHADER_STAGE_COUNT execution models are known.
Stages == 0 .. 5
Vertex == 0
Fragment == 4
GLCompute == 5

ASSUME ShaderAssumption ==
  /\ NULL \notin Nat
  /\ \A c \in Codes :
       /\ c.kind \in {"none", "wgsl", "spirv"}
       /\ Len(c.entries) \in Nat /\ DOMAIN c.entries = 1 .. Len(c.entries)

VARIABLES
  modules,       \* what there is at the addresses allocated
  shaders_held,  \* WebGPU: the shader modules given out and not yet released
  unique         \* history: no code has had two entry points of one stage

shaderVars == << modules, shaders_held, unique >>

-----------------------------------------------------------------------------
(* What plausible mistakes in the code below would do instead.             *)

\* Destroying a module stops one stage early.
AllButLastStage(m) ==
  {<< m, modules[m].stage_shaders[em] >> : em \in Stages \ {GLCompute}}

\* The first stage that has a shader is taken.
AnyStage(module, em) ==
  LET with == {s \in Stages : module.stage_shaders[s] # NULL}
  IN IF with = {} THEN module.wgpu_shader
     ELSE module.stage_shaders[CHOOSE s \in with : \A t \in with : s <= t]

-----------------------------------------------------------------------------
\* The entry points that a WebGPU module is asked for.
Transpiled(c) == {i \in DOMAIN c.entries : c.entries[i].model \in Stages}

\* Of several entry points of a stage, the last that WebGPU took.
StageShader(c, made, em) ==
  LET given == {i \in made : c.entries[i].model = em}
  IN IF c.kind # "spirv" \/ given = {} THEN NULL
     ELSE CHOOSE i \in given : \A j \in given : j <= i

OneEntryEach(c) ==
  \A i, j \in Transpiled(c) : c.entries[i].model = c.entries[j].model => i = j

Created(c, made) ==
  [code          |-> c,
   stage_shaders |-> [em \in Stages |-> StageShader(c, made, em)],
   wgpu_shader   |-> IF c.kind = "wgsl" THEN 0 ELSE NULL]

\* vkCreateShaderModule, if it succeeds: "made" are the entry points for which
\* there was memory to generate a text and WebGPU accepted it.  For SPIR-V one
\* is enough.
CreateShaderModule(m, c, made) ==
  /\ m \notin DOMAIN modules
  /\ CASE c.kind = "spirv" -> made \subseteq Transpiled(c) /\ made # {}
       [] c.kind = "wgsl"  -> made = {0}
       [] c.kind = "none"  -> made = {}
  /\ modules' = [a \in DOMAIN modules \cup {m} |->
       IF a = m THEN Created(c, made) ELSE modules[a]]
  /\ shaders_held' = shaders_held \cup {<< m, i >> : i \in made}
  /\ unique' = (unique /\ (c.kind = "spirv" => OneEntryEach(c)))

\* vkCreateShaderModule, if there is no memory for the module or its code, the
\* parser does not accept it, or WebGPU has taken no text of it.  No WebGPU
\* module has been made on any of these ways out.
CreateShaderModuleFails(m, c) ==
  /\ m \notin DOMAIN modules
  /\ UNCHANGED shaderVars

\* destroy_shader_module: the stages, ...
StagesOf(m) == {<< m, modules[m].stage_shaders[em] >> : em \in Stages}

\* ... and the WGSL module are released.
DestroyShaderModule(m) ==
  /\ m \in DOMAIN modules
  /\ modules' = [a \in DOMAIN modules \ {m} |-> modules[a]]
  /\ shaders_held' = shaders_held \ (StagesOf(m) \cup {<< m, modules[m].wgpu_shader >>})
  /\ UNCHANGED unique

\* shader_module_for_stage: a shader module that WebGPU has, or NULL.
ShaderForStage(module, em) ==
  IF em \in Stages /\ module.stage_shaders[em] # NULL
  THEN module.stage_shaders[em] ELSE module.wgpu_shader

\* The entry points, each << model, name >>, that shader i of a module has.
Provided(module, i) ==
  LET entry(e) == << e.model, e.name >>
  IN CASE i = NULL -> {}
       [] i = 0    -> {entry(e) : e \in ToSet(module.code.entries)}
       [] OTHER    -> LET em == module.code.entries[i].model
                      IN {<< em, EntryName(module.code, em) >>}

ShaderInit ==
  /\ modules = << >>
  /\ shaders_held = {}
  /\ unique = TRUE

-----------------------------------------------------------------------------
(* Property                                                                *)

\* The WebGPU shader modules that destroying a shader module will release.
Reachable ==
  UNION {{<< m, i >> : i \in ({modules[m].wgpu_shader} \cup
                             {modules[m].stage_shaders[em] : em \in Stages}) \ {NULL}} :
         m \in DOMAIN modules}

\* The WebGPU shader modules given out are those that destroying a shader
\* module will release, whichever entry points failed when it was created.
\* This holds as long as no code has had two entry points of one stage: the
\* second replaces the first, which nobody can release any more.
ShadersOwned == unique => shaders_held = Reachable

=============================================================================
