------------------------------- MODULE WgslGen -------------------------------
(***************************************************************************)
(* The WGSL generator (src/src/shaders/wgsl_gen.c): what it writes for a   *)
(* parsed module.  The buffer it writes into is WgslBuffer.                *)
(*                                                                         *)
(* The text is abstracted to a sequence of pieces: a piece stands for the  *)
(* emit() calls that write one declaration, signature or statement, and    *)
(* keeps the names it declares and uses.  What the words between the names *)
(* are is left out.                                                        *)
(*                                                                         *)
(* A parsed module (WgvkSpvModule) is a record of the parser's tables:     *)
(*   types      [op, of]: of is what a type is built from, as positions in *)
(*              the table, which stand for the identifiers found there     *)
(*   variables  [id, class, dec, type]: dec are its decorations            *)
(*   entries    [model, func, name, size]: the entry points; size is the   *)
(*              work-group size, zeros where the module gives none         *)
(*   bodies     the instructions [op, result, type, operands] of each      *)
(*              function that has blocks; type is a position, or 0         *)
(***************************************************************************)
EXTENDS Selection, SequencesExt

CONSTANT NULL

-----------------------------------------------------------------------------
(* What plausible mistakes in the code below would do instead.             *)

\* The search for the entry point goes on after the first one.
LastOf(ir, model) ==
  LET found == {i \in DOMAIN ir.entries : ir.entries[i].model = model}
  IN IF found = {} THEN 0 ELSE CHOOSE i \in found : \A j \in found : j <= i

\* A struct is declared only for what has a location.
OnlyLocated(v) == "location" \in v.dec

-----------------------------------------------------------------------------
(* Names: of structs, values, functions, and structs of inputs and outputs *)
(* (and a work-group size, which a signature states as it does its name)   *)

StructName(i) == << "struct", i >>
ValueName(id) == << "v", id >>
FunctionName(name) == << "fn", name >>
IoName(name) == << "io", name >>
SizeName(size) == << "size", size >>

Piece(kind, declares, uses) ==
  [kind |-> kind, declares |-> declares, uses |-> uses]

Mapped(s, Op(_)) == [i \in DOMAIN s |-> Op(s[i])]
Where(s, Test(_)) == Picked(s, {i \in DOMAIN s : Test(s[i])})

(* The first entry point that matches                                      *)

\* Its place among the entry points, 0 if none has the model.
FirstOf(ir, model) ==
  LET found == {i \in DOMAIN ir.entries : ir.entries[i].model = model}
  IN IF found = {} THEN 0 ELSE CHOOSE i \in found : \A j \in found : i <= j

\* The name of the entry function.
EntryName(ir, model) ==
  IF FirstOf(ir, model) = 0 THEN "main" ELSE ir.entries[FirstOf(ir, model)].name

\* The work-group size of a compute shader, 1 where none is given.
SizeOf(e) == [d \in 1 .. 3 |-> IF e.size[d] > 0 THEN e.size[d] ELSE 1]

GroupSize(ir, model) ==
  IF FirstOf(ir, model) = 0 THEN << 1, 1, 1 >> ELSE SizeOf(ir.entries[FirstOf(ir, model)])

\* The entry point the generator is initialised with.
InitialEntry(ir, model) == FirstOf(ir, model)

\* The instructions of its function, NULL if that is not found or has no blocks.
EntryBody(ir, model) ==
  LET e == InitialEntry(ir, model)
  IN IF e # 0 /\ ir.entries[e].func \in DOMAIN ir.bodies
     THEN ir.bodies[ir.entries[e].func] ELSE NULL

\* emit_type: the structs that the name of a type mentions.  Pointers and
\* arrays are written as what they are built from.
NamedBy(ir) ==
  LET named[i \in 0 .. Len(ir.types)] ==
        IF i = 0 THEN {}
        ELSE IF ir.types[i].op = "struct" THEN {StructName(i)}
        ELSE IF ir.types[i].op \in {"array", "pointer"} THEN named[ir.types[i].of[1]]
        ELSE {}
  IN named

\* The type of a variable is a pointer to what it holds, if it is found.
HeldBy(ir, v) == IF v.type = 0 THEN {} ELSE NamedBy(ir)[ir.types[v.type].of[1]]

-----------------------------------------------------------------------------
(* The parts of the text                                                   *)

\* emit_struct_definitions: a struct without members is written as one.
StructPieces(ir) ==
  LET structs == Where([i \in DOMAIN ir.types |-> i],
                       LAMBDA i : ir.types[i].op = "struct")
      Definition(i) ==
        Piece(IF ir.types[i].of = << >> THEN "empty" ELSE "type", {StructName(i)},
              UNION {NamedBy(ir)[m] : m \in ToSet(ir.types[i].of)})
  IN Mapped(structs, Definition)

Decorated(v) == "location" \in v.dec \/ "builtin" \in v.dec

Interface(ir, class) ==
  Where(ir.variables, LAMBDA v : v.class = class /\ Decorated(v))

\* A member of such a struct: a built-in of unknown name gets none.
HasField(v) == "builtin" \in v.dec => "unnamed" \notin v.dec

\* emit_io_struct: nothing, if no variable of the class is decorated.
IoStruct(ir, name, class) ==
  LET members == Where(Interface(ir, class), HasField)
  IN IF Interface(ir, class) = << >> THEN << >>
     ELSE << Piece(IF members = << >> THEN "empty" ELSE "type", {IoName(name)},
                   UNION {HeldBy(ir, v) : v \in ToSet(members)}) >>

IoStructs(ir, model) ==
  CASE model = "vertex" ->
         IoStruct(ir, "VertexInput", "input") \o IoStruct(ir, "VertexOutput", "output")
    [] model = "fragment" ->
         IoStruct(ir, "FragInput", "input") \o IoStruct(ir, "FragOutput", "output")
    [] OTHER -> << >>

\* emit_resource_bindings: what is neither input nor output and has a binding.
ResourcePieces(ir) ==
  LET bound == Where(ir.variables, LAMBDA v :
                 v.class \notin {"input", "output"} /\ "binding" \in v.dec)
  IN Mapped(bound, LAMBDA v : Piece("resource", {}, HeldBy(ir, v)))

\* Whether the entry function takes or returns a struct: it looks for itself.
HasStruct(ir, class) ==
  \E i \in DOMAIN ir.variables :
    /\ ir.variables[i].class = class
    /\ ir.variables[i].dec \cap {"location", "builtin"} # {}

\* emit_entry_function, down to the opening brace.
Signature(ir, model) ==
  LET input == IF HasStruct(ir, "input")
               THEN {IoName(IF model = "fragment" THEN "FragInput" ELSE "VertexInput")}
               ELSE {}
      output == IF HasStruct(ir, "output") /\ model # "compute"
                THEN {IoName("VertexOutput")} ELSE {}
      size == IF model = "compute" THEN {SizeName(GroupSize(ir, model))} ELSE {}
  IN Piece("signature", {FunctionName(EntryName(ir, model))} \cup size, input \cup output)

\* emit_local_variables
LocalPieces(ir) ==
  LET locals == Where(ir.variables, LAMBDA v : v.class = "function")
  IN Mapped(locals, LAMBDA v : Piece("local", {ValueName(v.id)}, HeldBy(ir, v)))

-----------------------------------------------------------------------------
(* Instructions                                                            *)

\* emit_instruction, by opcode: how many operands it asks for, how many of
\* them it writes (all, if more than there are), whether it writes a result.
\* opcode_to_wgsl knows the arithmetic ones; a negation counts as one and is
\* written with its first operand.
Forms ==
  [ arithmetic  |-> [least |-> 2, written |-> 2, result |-> TRUE],
    negate      |-> [least |-> 2, written |-> 1, result |-> TRUE],
    load        |-> [least |-> 1, written |-> 1, result |-> TRUE],
    store       |-> [least |-> 2, written |-> 2, result |-> FALSE],
    access      |-> [least |-> 2, written |-> 16, result |-> TRUE],
    extract     |-> [least |-> 2, written |-> 1, result |-> TRUE],
    dot         |-> [least |-> 2, written |-> 2, result |-> TRUE],
    return      |-> [least |-> 0, written |-> 0, result |-> FALSE],
    returnValue |-> [least |-> 1, written |-> 1, result |-> FALSE] ]

\* Other instructions, and those with too few operands, are left out.
Translated(inst) ==
  inst.op \in DOMAIN Forms /\ Len(inst.operands) >= Forms[inst.op].least

Results(inst) == IF Forms[inst.op].result THEN {inst.result} ELSE {}

Operands(inst) ==
  {inst.operands[i] : i \in {k \in DOMAIN inst.operands : k <= Forms[inst.op].written}}

\* A result is written with its type.
ResultTypes(ir, inst) == IF Forms[inst.op].result THEN NamedBy(ir)[inst.type] ELSE {}

Statement(ir, inst) ==
  Piece("statement", {ValueName(id) : id \in Results(inst)},
                     {ValueName(id) : id \in Operands(inst)} \cup ResultTypes(ir, inst))

Statements(ir, body) ==
  Mapped(Where(body, Translated), LAMBDA inst : Statement(ir, inst))

\* emit_function_body, or a body that returns something.
BodyPieces(ir, model) ==
  LET body == EntryBody(ir, model)
      default == Piece("statement", {},
                       IF HasStruct(ir, "output") THEN {IoName("VertexOutput")} ELSE {})
  IN IF body # NULL THEN Statements(ir, body)
     ELSE IF model # "compute" THEN << default >> ELSE << >>

\* wgvk_wgsl_generate: everything it writes, in this order.
Pieces(ir, model) ==
  << Piece("header", {}, {}) >> \o StructPieces(ir) \o IoStructs(ir, model)
    \o ResourcePieces(ir) \o << Signature(ir, model) >> \o LocalPieces(ir)
    \o BodyPieces(ir, model)

-----------------------------------------------------------------------------
(* What makes a text right                                                 *)

\* Names that anything in the text may use, wherever they are declared, and
\* names that only later statements may.
Global(t) == UNION {t[i].declares : i \in {k \in DOMAIN t : t[k].kind \in {"type", "empty"}}}
Before(t, i) == UNION {t[j].declares : j \in 1 .. i - 1}

Unresolved(t) == UNION {t[i].uses \ (Global(t) \cup Before(t, i)) : i \in DOMAIN t}

NoEmptyStruct(t) == \A i \in DOMAIN t : t[i].kind # "empty"

LocalIds(ir) ==
  {ir.variables[i].id : i \in {k \in DOMAIN ir.variables : ir.variables[k].class = "function"}}

\* What the statements of the entry function name that is made elsewhere: by
\* declarations of the module (inputs, outputs, resources, constants), or by
\* instructions that are left out.
Elsewhere(ir, model) ==
  LET body == EntryBody(ir, model)
      kept == {i \in DOMAIN body : Translated(body[i])}
      taken == UNION {Operands(body[i]) : i \in kept}
      made == UNION {Results(body[i]) : i \in kept}
  IN IF body = NULL THEN {}
     ELSE {ValueName(id) : id \in taken \ (LocalIds(ir) \cup made)}

\* Nothing is used before it is made, which SPIR-V promises.
InOrder(body) ==
  \A i, j \in {k \in DOMAIN body : Translated(body[k])} :
    i <= j => Operands(body[i]) \cap Results(body[j]) = {}

\* The modules that the generator supports.  The structs it declares for the
\* outputs of fragment shaders are not the ones it uses, and it declares none
\* for the inputs of compute shaders or for built-ins it does not know.  WGSL
\* has no structs without members.
SupportedModule(ir, model) ==
  /\ model \in {"vertex", "fragment", "compute"}
  /\ model = "fragment" => ~HasStruct(ir, "output")
  /\ model = "compute" => ~HasStruct(ir, "input")
  /\ \A i \in DOMAIN ir.variables : HasField(ir.variables[i])
  /\ \A i \in DOMAIN ir.types : ir.types[i].op = "struct" => ir.types[i].of # << >>
  /\ EntryBody(ir, model) # NULL => InOrder(EntryBody(ir, model))

\* The function that carries the name of an entry point, and the work-group
\* size that it gives, is the one that the entry point names.
EntryMatches(t, ir, model) ==
  LET statements == Where(t, LAMBDA p : p.kind = "statement")
  IN \E i \in DOMAIN ir.entries :
       LET e == ir.entries[i]
       IN /\ e.model = model
          /\ \E k \in DOMAIN t :
               /\ FunctionName(e.name) \in t[k].declares
               /\ model = "compute" => SizeName(SizeOf(e)) \in t[k].declares
          /\ e.func \in DOMAIN ir.bodies => statements = Statements(ir, ir.bodies[e.func])

=============================================================================
