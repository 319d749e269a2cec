---------------------------- MODULE MCSpirvParser ----------------------------
(* Modules for TLC: well-formed ones put together from instructions, and    *)
(* short sequences of arbitrary words.                                      *)
EXTENDS SpirvParser, SequencesExt

CONSTANT Ops   \* what an operand may look like as a header

W(o, n, z) == [op |-> o, count |-> n, nul |-> z]

\* An instruction of n words whose operands look like x.
Instr(o, n, x) == << W(o, n, FALSE) >> \o [i \in 1 .. n - 1 |-> W(x, 0, TRUE)]

\* An entry point with a name of two words and n interface variables.
Entry(n, x) ==
  << W("entry_point", 5 + n, FALSE), W(x, 0, TRUE), W(x, 0, TRUE),
     W("skipped", 7, FALSE) >> \o [i \in 1 .. n + 1 |-> W(x, 0, TRUE)]

Headers(x) ==
  { << >>, Instr("skipped", 2, x), Instr("execution_mode", 3, x),
    Instr("local_size", 6, x), Entry(0, x), Entry(2, x),
    Entry(1, x) \o Entry(0, x) \o Instr("decorate", 4, x) }

Types(x) ==
  { << >>, Instr("type_struct", 4, x), Instr("type_struct", 19, x),
    Instr("type_void", 2, x) \o Instr("type_int", 4, x) \o
      Instr("type_function", 3, x),
    Instr("variable", 4, x), Instr("variable", 5, x),
    Instr("decorate", 3, x) \o Instr("decorate", 5, x),
    Instr("member_decorate", 5, x), Instr("constant", 5, x) \o
      Instr("constant_composite", 5, x) \o Instr("constant_bool", 3, x) }

Statements(x) ==
  { Instr("store", 3, x), Instr("load", 5, x), Instr("arithmetic", 4, x),
    Instr("arithmetic", 5, x) }

Block(b, x) == Instr("label", 2, x) \o b \o Instr("return", 1, x)

Bodies(x) ==
  { << >> } \cup Statements(x)
  \cup { s \o t : s, t \in { Instr("store", 3, x), Instr("load", 5, x) } }

Blocks(x) == { Block(b, x) : b \in Bodies(x) }

Procedure(blocks, x) == Instr("function", 5, x) \o blocks \o Instr("function_end", 1, x)

Functions(x) ==
  { << >> }
  \cup { Procedure(b, x) : b \in Blocks(x) }
  \cup { Procedure(b \o c, x) : b, c \in Blocks(x) }
  \cup { Procedure(b, x) \o Procedure(c, x) : b, c \in Blocks(x) }

\* Every header section with every type section, and every function section.
WellFormed ==
  UNION { { h \o t \o Procedure(Block(Instr("store", 3, x), x), x) :
              h \in Headers(x), t \in Types(x) }
          \cup { Instr("variable", 4, x) \o f : f \in Functions(x) } :
          x \in Ops }

\* A function with one arithmetic instruction, nothing else unusual.
Arithmetic ==
  { Instr("type_float", 3, x) \o Procedure(Block(Instr("arithmetic", n, x), x), x) :
      n \in {4, 5}, x \in Ops }

SomeWords ==
  { W(o, n, z) : o \in {"skipped", "function", "label", "store", "entry_point",
                        "local_size", "type_struct", "function_end"},
                 n \in {0, 1, 6}, z \in BOOLEAN }

MCModules == WellFormed \cup SeqOf(SomeWords, 2)

MCTableCapacity == [t \in Tables |-> 2]

=============================================================================
