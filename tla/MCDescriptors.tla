----------------------------- MODULE MCDescriptors -----------------------------
(* Instances of Descriptors for TLC.                                        *)
EXTENDS Descriptors, TLC

CONSTANTS s1, s2, r1, r2, broken

MCSets == {s1, s2}
MCResources == {r1, r2, broken}

Layout(types) == [i \in DOMAIN types |-> [binding |-> i - 1, type |-> types[i]]]

\* Two bindings of one type, of two types, with forms that the code does not
\* support, and more bindings than the tables hold.
MCDeclarations ==
  { Layout(<< "buffer", "buffer" >>), Layout(<< "buffer", "image" >>),
    Layout(<< "input", "buffer" >>), Layout(<< "combined", "buffer" >>),
    Layout(<< "buffer", "buffer", "buffer" >>) }

MCBindings == 0..2

W(s, b, t, i) == [set |-> s, binding |-> b, type |-> t, infos |-> i]

\* Everything is tried on s1; s2 is written on the side.
MCCalls ==
  { << W(s1, b, t, i) >> : b \in MCBindings, t \in {"buffer", "image"},
      i \in { << r1 >>, << r2 >>, << broken >>, << r1, r2 >> } }
    \cup { << W(s1, 0, t, << r1 >>) >> : t \in {"input", "combined"} }
    \cup { << W(s2, b, "buffer", << r1, r2 >>) >> : b \in {0} }
    \cup { << W(s1, b, "buffer", << r1 >>), W(s, 0, "buffer", << r2 >>) >> :
             b \in MCBindings, s \in {s1, s2} }

\* Writes of one buffer to one binding.
Rewrites == { << W(s1, 0, "buffer", << r >>) >> : r \in {r1, r2} }

=============================================================================
