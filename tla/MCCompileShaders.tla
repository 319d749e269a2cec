--------------------------- MODULE MCCompileShaders ---------------------------
(* Instances of CompileShaders for TLC.                                     *)
EXTENDS CompileShaders

\* Types: 1 is plain, 2 a struct of it, 3 an array of the struct, 4 a pointer
\* to the struct, 5 a pointer to the array, 6 a pointer to what is plain, 7 a
\* struct of the array.
T(op, of) == [op |-> op, of |-> of]
Types == << T("plain", << >>), T("struct", << 1 >>), T("array", << 2 >>),
            T("pointer", << 2 >>), T("pointer", << 3 >>), T("pointer", << 1 >>),
            T("struct", << 3, 1 >>) >>

\* A struct without members among them.
WithEmpty == Append(Types, T("struct", << >>))

V(id, class, dec, type) == [id |-> id, class |-> class, dec |-> dec, type |-> type]

Interfaces ==
  { << >> } \cup
  { << V("x", class, dec, 4) >> : class \in {"input", "output"},
      dec \in { {}, {"location"}, {"builtin"}, {"builtin", "unnamed"} } }
  \cup { << V("x", "input", {"location"}, 6), V("y", "input", {"builtin"}, 0),
            V("z", "output", {"builtin"}, 6), V("w", "resource", {"binding"}, 5),
            V("u", "resource", {}, 6) >> }

Locals == << V("a", "function", {}, 6), V("b", "function", {}, 4) >>

I(op, result, type, operands) ==
  [op |-> op, result |-> result, type |-> type, operands |-> operands]

\* The third loads an input and a constant and uses what is left out, the last
\* one takes a value before it is made.
Bodies ==
  { << I("load", "c", 1, << "a" >>), I("arithmetic", "d", 1, << "c", "c" >>),
       I("store", NULL, 0, << "a", "d" >>), I("return", NULL, 0, << >>) >>,
    << I("access", "p", 4, << "b", "a" >>), I("extract", "q", 1, << "b", "0" >>),
       I("dot", "r", 2, << "p", "q" >>), I("returnValue", NULL, 0, << "r" >>) >>,
    << I("load", "c", 3, << "x" >>), I("sample", "e", 1, << "c", "y" >>),
       I("arithmetic", "f", 1, << "e", "one" >>), I("negate", "d", 1, << "c" >>),
       I("branch", NULL, 0, << >>) >>,
    << I("store", NULL, 0, << "a", "late" >>), I("load", "late", 1, << "a" >>) >> }

E(model, func, name, size) == [model |-> model, func |-> func, name |-> name, size |-> size]

Entries ==
  { << >>,
    << E("vertex", 1, "first", << 0, 0, 0 >>), E("fragment", 2, "other", << 0, 0, 0 >>),
       E("vertex", 2, "second", << 0, 0, 0 >>) >>,
    << E("compute", 1, "kernel", << 8, 0, 1 >>), E("fragment", 1, "frag", << 0, 0, 0 >>),
       E("compute", 2, "second", << 2, 2, 0 >>) >> }

M(types, variables, entries, body) ==
  [types |-> types, variables |-> variables, entries |-> entries,
   bodies |-> (1 :> body @@ 2 :> << I("return", NULL, 0, << >>) >>)]

Modules ==
  { M(Types, i \o Locals, e, b) : i \in Interfaces, b \in Bodies, e \in Entries }
  \cup { M(WithEmpty, Locals, e, b) : b \in Bodies, e \in Entries }
  \cup { [types |-> << >>, variables |-> << >>, entries |-> e, bodies |-> << >>] : e \in Entries }

Good(ir, stage) == [usable |-> TRUE, parses |-> TRUE, ir |-> ir, stage |-> stage]
Bad == [usable |-> FALSE, parses |-> FALSE, ir |-> NULL, stage |-> 0]

MCBatches ==
  { << Good(ir, stage) >> : ir \in Modules, stage \in 0 .. 2 }
    \cup { << Bad, Good(ir, 0), Bad, Good(ir, 1) >> :
             ir \in {m \in Modules : m.types = << >>} }

\* A fragment shader with an output.
Fragment ==
  { << Good(M(Types, << V("x", "output", {"location"}, 6) >> \o Locals,
              << E("fragment", 1, "main", << 0, 0, 0 >>) >>,
              << I("store", NULL, 0, << "x", "a" >>), I("return", NULL, 0, << >>) >>), 1) >> }

=============================================================================
