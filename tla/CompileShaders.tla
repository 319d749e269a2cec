---------------------------- MODULE CompileShaders ----------------------------
(***************************************************************************)
(* wgvkCompileShaders (src/src/webvulkan.c): a batch of SPIR-V modules *)
(* goes through the parser and the generator, one after the other.  Each   *)
(* step of one may fail, the call goes on with the next and always reports *)
(* success: what an application learns is which outputs are NULL.          *)
(*                                                                         *)
(* What the parser does with words is SpirvParser; here it gives a module, *)
(* or fails, which it does only before it has allocated anything.          *)
(***************************************************************************)
EXTENDS WgslBuffer

CONSTANTS Batches   \* the sequences of WgvkShaderCompileInfo to be compiled

(* An info is [usable, parses, ir, stage]: whether there is code of at     *)
(* least 20 bytes, whether the parser accepts its header, what it then     *)
(* gives, and the stage asked for.  Of SPIR-V's rules, that types are made *)
(* of earlier types and that variables are pointers matter here.           *)
Parsable(ir) ==
  /\ ir.types \in Seq(ToSet(ir.types)) /\ ir.variables \in Seq(ToSet(ir.variables))
  /\ ir.entries \in Seq(ToSet(ir.entries))
  /\ \A i \in DOMAIN ir.types :
       /\ ir.types[i].of \in Seq(0 .. i - 1)
       /\ ir.types[i].op \in {"array", "pointer"} => ir.types[i].of # << >>
  /\ \A i \in DOMAIN ir.variables :
       LET v == ir.variables[i]
       IN v.type # 0 => v.type \in DOMAIN ir.types /\ ir.types[v.type].op = "pointer"
  /\ \A f \in DOMAIN ir.bodies :
       /\ ir.bodies[f] # NULL /\ ir.bodies[f] \in Seq(ToSet(ir.bodies[f]))
       /\ \A i \in DOMAIN ir.bodies[f] : ir.bodies[f][i].type \in 0 .. Len(ir.types)

ASSUME BatchAssumption ==
  \A b \in Batches :
    /\ b \in Seq(ToSet(b))
    /\ \A i \in DOMAIN b : b[i].usable /\ b[i].parses => Parsable(b[i].ir)

VARIABLES
  compileInfos,
  at,           \* the info being compiled
  step,         \* "parse", "allocate", "write": what comes next for it
  allocated,    \* the memory held for it
  outputs       \* ppWgslOutputs, as far as they have been set

batchVars == << compileInfos, at, step, allocated, outputs >>
compileVars == << generatorVars, batchVars >>

Info == compileInfos[at]

-----------------------------------------------------------------------------
(* What plausible mistakes in the code below would do instead.             *)

\* Giving up leaves the caller's output as it was.
OutputLeft == outputs

\* Giving up while the generator is allocated forgets the parsed functions.
OnlyModuleFreed == allocated \ {"module"}

-----------------------------------------------------------------------------
\* The execution model for the stage asked for: 1 and 2, or else a vertex
\* shader.
ExecModel(stage) ==
  CASE stage = 1 -> "fragment"
    [] stage = 2 -> "compute"
    [] OTHER -> "vertex"

OutputSet(o) ==
  [i \in {at} \cup DOMAIN outputs |-> IF i = at THEN o ELSE outputs[i]]

\* What giving up sets.
OutputMissing == OutputSet(NULL)

NextInfo ==
  /\ at' = at + 1
  /\ step' = "parse"
  /\ UNCHANGED compileInfos

\* There is no code, the module cannot be allocated, or is not accepted.
NotParsed ==
  /\ at <= Len(compileInfos) /\ step = "parse"
  /\ outputs' = OutputMissing
  /\ NextInfo
  /\ UNCHANGED << generatorVars, allocated >>

Parsed ==
  /\ at <= Len(compileInfos) /\ step = "parse"
  /\ Info.usable /\ Info.parses
  /\ allocated' = allocated \cup {"module", "functions"}
  /\ step' = "allocate"
  /\ UNCHANGED << generatorVars, compileInfos, at, outputs >>

\* wgvk_spirv_free and free: what is left of the memory held.
ParsedFreed == allocated \ {"module", "functions"}

GeneratorOutOfMemory ==
  /\ step = "allocate"
  /\ allocated' = ParsedFreed
  /\ outputs' = OutputMissing
  /\ NextInfo
  /\ UNCHANGED generatorVars

\* wgvk_wgsl_init cannot fail with a module.
StartGenerator ==
  /\ step = "allocate"
  /\ allocated' = allocated \cup {"generator"}
  /\ step' = "write"
  /\ NextText(Pieces(Info.ir, ExecModel(Info.stage)))
  /\ UNCHANGED << compileInfos, at, outputs >>

WritePiece ==
  /\ step = "write"
  /\ Emit \/ EmitFails
  /\ allocated' = IF capacity' > 0 THEN allocated \cup {"buffer"} ELSE allocated
  /\ UNCHANGED << compileInfos, at, step, outputs >>

\* The text is copied out, if there is memory for it, and everything else
\* freed.  A text that lost a piece looks like any other.
Finish(result) ==
  /\ step = "write" /\ pieces = << >>
  /\ outputs' = OutputSet(result)
  /\ allocated' = ParsedFreed \ {"generator", "buffer"}
  /\ NextText(<< >>)
  /\ NextInfo

Complete == [text |-> text, torn |-> torn]

CompileInit ==
  /\ compileInfos \in Batches
  /\ at = 1 /\ step = "parse"
  /\ allocated = {} /\ outputs = << >>
  /\ pieces = << >> /\ EmptyGenerator

CompileNext ==
  \/ NotParsed
  \/ Parsed
  \/ GeneratorOutOfMemory
  \/ StartGenerator
  \/ WritePiece
  \/ Finish(Complete)
  \/ Finish(NULL)

\* The call runs on.
CompileSpec ==
  CompileInit /\ [][CompileNext]_compileVars /\ WF_compileVars(CompileNext)

-----------------------------------------------------------------------------
(* Properties                                                              *)

\* Whatever fails for one shader, nothing of it is held when the next one
\* begins.
BatchCleansUp ==
  step = "parse" => allocated = {}

\* The call comes back with every output set, to a text or to NULL, those of the
\* shaders that failed too.
EveryOutputSet == <>(DOMAIN outputs = DOMAIN compileInfos)

\* The texts that have been written without a failure.
Whole == {i \in DOMAIN outputs : outputs[i] # NULL /\ ~outputs[i].torn}

\* A shader module that the generator supports becomes a text in which every
\* struct and every value of the entry function is declared before it is used,
\* and every struct that the signature mentions is there and has a member.  The
\* signature and the structs are written by functions that decide for themselves
\* whether there is a struct.  Names that remain are those of what statements
\* take from outside the function.
NamesResolve ==
  \A i \in Whole :
    LET ir == compileInfos[i].ir
        model == ExecModel(compileInfos[i].stage)
    IN SupportedModule(ir, model) =>
         /\ NoEmptyStruct(outputs[i].text)
         /\ Unresolved(outputs[i].text) \subseteq Elsewhere(ir, model)

\* If a module has several entry points for the stage, name, work-group size and
\* body of the function written are those of the same one, though they are looked
\* up in three different places.
OneEntryPoint ==
  \A i \in Whole :
    LET model == ExecModel(compileInfos[i].stage)
    IN (\E k \in DOMAIN compileInfos[i].ir.entries : compileInfos[i].ir.entries[k].model = model)
         => EntryMatches(outputs[i].text, compileInfos[i].ir, model)

=============================================================================
