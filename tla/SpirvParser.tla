----------------------------- MODULE SpirvParser -----------------------------
(***************************************************************************)
(* The SPIR-V parser (src/src/shaders/spirv_parser.c): the walk over the   *)
(* words of a module, one iteration of the loop a step, and the tables,    *)
(* functions and blocks it fills.                                          *)
(*                                                                         *)
(* A word is what it would mean as the first word of an instruction (op,   *)
(* count) and whether it ends a string (nul).  An identifier or a literal  *)
(* below 2^16 has count 0, and any op: that is what the parser sees when   *)
(* it has lost step.  A recorded object is the position it was read at and *)
(* the number of words its handler took.  words starts behind the header.  *)
(*                                                                         *)
(* The history variables follow the word counts in the headers alone.      *)
(***************************************************************************)
EXTENDS Integers, Sequences, FiniteSets

CONSTANTS
  Modules,         \* the inputs: sequences of words
  TableCapacity,   \* WGVK_MAX_TYPES and so on, of every table
  BlockCapacity,   \* instructions of a block
  InitialBlocks    \* blocks a function has room for at first

(* Handlers that read `fixed' operands and then a list of at most `list';  *)
(* `min' is the word count they ask for.  Opcodes handled alike are one.   *)
Handler(table, min, fixed, list) ==
  [table |-> table, min |-> min, fixed |-> fixed, list |-> list]

Declarations ==
  {"type_void", "type_int", "type_float", "type_vector", "type_struct",
   "type_function", "constant_bool", "constant", "constant_composite",
   "variable", "decorate", "member_decorate"}

\* OpTypeMatrix, OpTypeArray and OpTypePointer are handled as OpTypeVector;
\* OpAccessChain, the composite and the image instructions as OpLoad; OpBranch,
\* OpKill and OpReturnValue as OpReturn.
BodyOps == {"return", "store", "load", "arithmetic"}

HandlerOf ==
  [ o \in Declarations \cup BodyOps |->
      CASE o = "type_void"          -> Handler("types", 2, 1, 0)
        [] o = "type_int"           -> Handler("types", 4, 3, 0)
        [] o = "type_float"         -> Handler("types", 3, 2, 0)
        [] o = "type_vector"        -> Handler("types", 4, 3, 0)
        [] o = "type_struct"        -> Handler("types", 2, 1, 16)
        [] o = "type_function"      -> Handler("types", 3, 2, 8)
        [] o = "constant_bool"      -> Handler("constants", 3, 2, 0)
        [] o = "constant"           -> Handler("constants", 4, 2, 4)
        [] o = "constant_composite" -> Handler("constants", 4, 2, 16)
        [] o = "variable"           -> Handler("variables", 4, 3, 0)
        [] o = "decorate"           -> Handler("decorations", 3, 2, 1)
        [] o = "member_decorate"    -> Handler("decorations", 4, 3, 1)
        [] o = "return"             -> Handler("block", 1, 0, 16)
        [] o = "store"              -> Handler("block", 3, 0, 16)
        [] OTHER                     -> Handler("block", 4, 2, 16) ]

Tables == {"types", "constants", "variables", "decorations", "entry_points"}

Opcodes == Declarations \cup BodyOps \cup
  {"skipped", "execution_mode", "local_size", "entry_point", "function",
   "function_end", "label"}

Word == [op : Opcodes, count : Nat, nul : BOOLEAN]

ASSUME ParserAssumption ==
  /\ Modules \subseteq Seq(Word)
  /\ TableCapacity \in [Tables -> Nat]
  /\ BlockCapacity \in Nat
  /\ InitialBlocks \in Nat \ {0}

VARIABLES
  words,             \* never changes
  cursor,            \* 1 for the first word behind the header
  tables,            \* what has been recorded in each table
  functions,
  current_function,  \* its index, 0 for NULL
  failures,          \* history: which allocations have failed
  expected,          \* history: where the next instruction begins
  regular,           \* history: all instructions before it are supported
  owner,             \* history: function and label they have led to
  body,              \* history: the instructions in labelled blocks
  declared           \* history: the declarations, table by table

moduleVars == << words, cursor, tables, functions, current_function, failures >>
historyVars == << expected, regular, owner, body, declared >>
parserVars == << moduleVars, historyVars >>

End == Len(words) + 1

-----------------------------------------------------------------------------
(* What plausible mistakes in the code would do instead.                   *)

\* A header without a word count is taken at its word.
RawCount(w) == w.count

\* Every list is counted one short.
ListLengthShort(o, n) == n - 2 - HandlerOf[o].fixed

\* A full table is not noticed.
AlwaysRoom(t) == TRUE

\* The first block stays the current one.
BlockBehind(f) ==
  [f EXCEPT !.blocks = Append(@, [label |-> cursor, instructions |-> << >>]),
            !.current_block = 1,
            !.block_capacity = IF Len(f.blocks) >= @ THEN 2 * @ ELSE @]

-----------------------------------------------------------------------------
(* Reading words                                                           *)

\* read_word, k times from position p: it stays at the end.
After(p, k) == IF p + k <= End THEN p + k ELSE End

\* An instruction of no words counts as one.
WordCount(w) == IF w.count = 0 THEN 1 ELSE w.count

\* The string from p on ends in word i.
EndsString(p, i) == words[i].nul /\ \A j \in p .. i - 1 : ~words[j].nul

\* read_string from p on, which may run to the end of the module.  Its buffer
\* is taken to have room.
AfterString(p) ==
  IF \E i \in p .. Len(words) : EndsString(p, i)
  THEN (CHOOSE i \in p .. Len(words) : EndsString(p, i)) + 1
  ELSE End

AtMost(n, limit) == IF n <= limit THEN n ELSE limit

\* The words left for the list of an instruction.  The arithmetic handler
\* counts one less than there are.
ListLength(o, n) ==
  n - 1 - HandlerOf[o].fixed - (IF o = "arithmetic" THEN 1 ELSE 0)

\* The words a handler takes, its header included.
Taken(o, n) ==
  1 + HandlerOf[o].fixed + AtMost(ListLength(o, n), HandlerOf[o].list)

-----------------------------------------------------------------------------
(* The handlers                                                            *)

op == words[cursor].op
count == WordCount(words[cursor])

\* skip_instruction: it may lead past the end.
Skipped == cursor + count

Room(t) == Len(tables[t]) < TableCapacity[t]

Recorded(t, taken) ==
  [tables EXCEPT ![t] = Append(@, [at |-> cursor, taken |-> taken])]

\* Instructions of no interest, execution modes but LocalSize, and unknown ones.
Skip ==
  /\ op \in {"skipped", "execution_mode"}
  /\ cursor' = Skipped
  /\ UNCHANGED << words, tables, functions, current_function, failures >>

\* OpExecutionMode LocalSize: three sizes, or not.
LocalSize ==
  /\ op = "local_size"
  /\ cursor' = IF count >= 6 THEN After(cursor, 6) ELSE Skipped
  /\ UNCHANGED << words, tables, functions, current_function, failures >>

\* The words left for the interface of an entry point; a string that has run
\* too far leaves a huge unsigned number of them.
Interface(p) ==
  LET remaining == count - (p - cursor)
  IN IF remaining < 0 THEN 32 ELSE AtMost(remaining, 32)

AfterEntryPoint ==
  LET p == AfterString(After(cursor, 3)) IN After(p, Interface(p))

EntryPoint ==
  /\ op = "entry_point"
  /\ IF Room("entry_points")
     THEN /\ cursor' = AfterEntryPoint
          /\ tables' = Recorded("entry_points", cursor' - cursor)
     ELSE /\ cursor' = Skipped
          /\ UNCHANGED tables
  /\ UNCHANGED << words, functions, current_function, failures >>

Declare ==
  /\ op \in Declarations
  /\ LET h == HandlerOf[op]
     IN IF Room(h.table) /\ count >= h.min
        THEN /\ cursor' = After(cursor, Taken(op, count))
             /\ tables' = Recorded(h.table, Taken(op, count))
        ELSE /\ cursor' = Skipped
             /\ UNCHANGED tables
  /\ UNCHANGED << words, functions, current_function, failures >>

EmptyFunction ==
  [at |-> cursor, blocks |-> << >>, block_capacity |-> InitialBlocks,
   current_block |-> 0]

Function ==
  /\ op = "function"
  /\ IF count >= 5
     THEN /\ cursor' = After(cursor, 5)
          /\ functions' = Append(functions, EmptyFunction)
          /\ current_function' = Len(functions) + 1
     ELSE /\ cursor' = Skipped
          /\ UNCHANGED << functions, current_function >>
  /\ UNCHANGED << words, tables, failures >>

\* The array of functions cannot grow, or the function cannot be allocated.
FunctionOutOfMemory ==
  /\ op = "function" /\ count >= 5
  /\ cursor' = Skipped
  /\ failures' = failures \cup {"function"}
  /\ UNCHANGED << words, tables, functions, current_function >>

\* Its blocks cannot be allocated: the instruction is skipped from behind the
\* operands that have been read already.
BlocksOutOfMemory ==
  /\ op = "function" /\ count >= 5
  /\ cursor' = After(cursor, 5) + count - 1
  /\ failures' = failures \cup {"blocks"}
  /\ UNCHANGED << words, tables, functions, current_function >>

FunctionEnd ==
  /\ op = "function_end"
  /\ cursor' = cursor + 1
  /\ current_function' = 0
  /\ UNCHANGED << words, tables, functions, failures >>

Full(f) == Len(f.blocks) >= f.block_capacity

\* f with a new current block.
BlockAdded(f) ==
  [f EXCEPT !.blocks = Append(@, [label |-> cursor, instructions |-> << >>]),
            !.current_block = Len(f.blocks) + 1,
            !.block_capacity = IF Full(f) THEN 2 * @ ELSE @]

Label ==
  /\ op = "label"
  /\ IF current_function # 0
     THEN /\ cursor' = After(cursor, 2)
          /\ functions' = [functions EXCEPT ![current_function] = BlockAdded(@)]
     ELSE /\ cursor' = Skipped
          /\ UNCHANGED functions
  /\ UNCHANGED << words, tables, current_function, failures >>

LabelOutOfMemory ==
  /\ op = "label" /\ current_function # 0
  /\ Full(functions[current_function])
  /\ cursor' = Skipped
  /\ failures' = failures \cup {"label"}
  /\ UNCHANGED << words, tables, functions, current_function >>

\* add_instruction_to_block: dropped without a function, without a block, or
\* with a full one.
InstructionAdded(taken) ==
  LET f == functions[current_function]
  IN IF \/ current_function = 0
        \/ f.blocks = << >>
        \/ Len(f.blocks[f.current_block].instructions) >= BlockCapacity
     THEN functions
     ELSE [functions EXCEPT
             ![current_function].blocks[f.current_block].instructions =
               Append(@, [at |-> cursor, taken |-> taken])]

Body ==
  /\ op \in BodyOps
  /\ IF count >= HandlerOf[op].min
     THEN /\ cursor' = After(cursor, Taken(op, count))
          /\ functions' = InstructionAdded(Taken(op, count))
     ELSE /\ cursor' = Skipped
          /\ UNCHANGED functions
  /\ UNCHANGED << words, tables, current_function, failures >>

ParseInstruction ==
  \/ Skip \/ LocalSize \/ EntryPoint \/ Declare
  \/ Function \/ FunctionOutOfMemory \/ BlocksOutOfMemory \/ FunctionEnd
  \/ Label \/ LabelOutOfMemory \/ Body

-----------------------------------------------------------------------------
(* Following the headers alone                                             *)

\* The lengths SPIR-V gives the instructions, up to the size of the arrays
\* that hold their lists.  Arithmetic, variables with an initialiser and
\* decorations with more than one operand are left out.
Lengths ==
  [ o \in Opcodes \ {"skipped", "execution_mode", "entry_point", "arithmetic"} |->
      CASE o = "type_void"          -> {2}
        [] o = "type_int"           -> {4}
        [] o = "type_float"         -> {3}
        [] o = "type_vector"        -> {4}
        [] o = "type_struct"        -> 2 .. 18
        [] o = "type_function"      -> 3 .. 11
        [] o = "constant_bool"      -> {3}
        [] o = "constant"           -> 4 .. 7
        [] o = "constant_composite" -> 4 .. 19
        [] o = "variable"           -> {4}
        [] o = "decorate"           -> {3, 4}
        [] o = "member_decorate"    -> {4, 5}
        [] o = "return"             -> 1 .. 17
        [] o = "store"              -> 3 .. 17
        [] o = "load"               -> 4 .. 19
        [] o = "local_size"         -> {6}
        [] o = "function"           -> {5}
        [] o = "function_end"       -> {1}
        [] OTHER                    -> {2} ]

\* The name of the entry point at p ends inside its n words and leaves at most
\* 32 of them for the interface.
NamedWithin(p, n) ==
  \E i \in p + 3 .. p + n - 1 : EndsString(p + 3, i) /\ p + n - i - 1 <= 32

\* The instruction of w at p is complete and of a form that is supported.
Supported(w, p) ==
  /\ w.count > 0 /\ p + w.count <= End
  /\ w.op \in DOMAIN Lengths => w.count \in Lengths[w.op]
  /\ w.op = "entry_point" => NamedWithin(p, w.count)
  /\ w.op # "arithmetic"

NoOwner == [function |-> 0, label |-> 0]

TableOf(o) == IF o = "entry_point" THEN "entry_points" ELSE HandlerOf[o].table

Within(o) == {b \in body : b.owner = o}

FollowHeaders ==
  IF expected >= End THEN UNCHANGED historyVars
  ELSE
  LET w == words[expected]
  IN /\ expected' = expected + WordCount(w)
     /\ regular' = (regular /\ Supported(w, expected))
     /\ owner' = CASE w.op = "function" -> [function |-> expected, label |-> 0]
                   [] w.op = "function_end" -> NoOwner
                   [] w.op = "label" /\ owner.function # 0 ->
                        [owner EXCEPT !.label = expected]
                   [] OTHER -> owner
     /\ body' = IF /\ w.op \in BodyOps /\ owner.label # 0
                   /\ Cardinality(Within(owner)) < BlockCapacity
                THEN body \cup {[at |-> expected, taken |-> w.count,
                                 owner |-> owner]}
                ELSE body
     /\ declared' =
          IF w.op \in Declarations \cup {"entry_point"}
             /\ Cardinality(declared[TableOf(w.op)])
                  < TableCapacity[TableOf(w.op)]
          THEN [declared EXCEPT ![TableOf(w.op)] =
                  @ \cup {[at |-> expected, taken |-> w.count]}]
          ELSE declared

ParserInit ==
  /\ words \in Modules
  /\ cursor = 1
  /\ tables = [t \in Tables |-> << >>]
  /\ functions = << >>
  /\ current_function = 0
  /\ failures = {}
  /\ expected = 1
  /\ regular = TRUE
  /\ owner = NoOwner
  /\ body = {}
  /\ declared = [t \in Tables |-> {}]

\* One iteration of the loop of wgvk_spirv_parse.
Iteration == cursor < End /\ ParseInstruction /\ FollowHeaders

\* The loop runs to its end within one call.
ParserSpec == ParserInit /\ [][Iteration]_parserVars /\ WF_parserVars(Iteration)

-----------------------------------------------------------------------------
(* Properties                                                              *)

Instructions(f, b) == functions[f].blocks[b].instructions

\* Nothing is recorded past the end of a fixed table or block, and the current
\* block of a function is one that it has.
WithinBounds ==
  /\ \A t \in Tables : Len(tables[t]) <= TableCapacity[t]
  /\ current_function \in 0 .. Len(functions)
  /\ \A f \in DOMAIN functions :
       /\ Len(functions[f].blocks) <= functions[f].block_capacity
       /\ functions[f].blocks # << >> =>
            functions[f].current_block \in DOMAIN functions[f].blocks
       /\ \A b \in DOMAIN functions[f].blocks :
            Len(Instructions(f, b)) <= BlockCapacity

\* The parser reads every instruction at the word at which it begins, as long
\* as the module uses supported forms, also when tables are full and when
\* memory runs out for anything but a function's blocks.
InStep == regular /\ "blocks" \notin failures => cursor = expected

\* The instructions the parser has put into blocks, with function and label.
Parsed ==
  UNION { { [at |-> Instructions(n[1], n[2])[i].at,
             taken |-> Instructions(n[1], n[2])[i].taken,
             owner |-> [function |-> functions[n[1]].at,
                        label |-> functions[n[1]].blocks[n[2]].label]] :
            i \in DOMAIN Instructions(n[1], n[2]) } :
          n \in UNION { {f} \X DOMAIN functions[f].blocks :
                        f \in DOMAIN functions } }

\* The tables, functions and blocks hold every declaration whole, and every
\* instruction whole in the block of its label and the function around it.
Represented ==
  /\ Parsed = body
  /\ \A t \in Tables :
       {tables[t][i] : i \in DOMAIN tables[t]} = declared[t]

\* What wgvk_spirv_parse records is what the words say, for modules of supported
\* forms and up to the capacities, as long as memory lasts.
RecordsTheModule == regular /\ failures = {} => Represented

\* The same for every module (docs/ARCHITECTURE.md:100).
RecordsEveryModule == failures = {} => Represented

\* Parsing ends, whatever the words are and whatever allocation fails.
Terminates == <>(cursor >= End)

=============================================================================
