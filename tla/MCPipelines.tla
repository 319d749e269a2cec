----------------------------- MODULE MCPipelines -----------------------------
(* Instances of Pipelines for TLC.                                          *)
EXTENDS Pipelines, TLC

CONSTANTS m1

E(model, name) == [model |-> model, name |-> name]
Code(kind, entries) == [kind |-> kind, entries |-> entries]

\* WGSL source with several entry points, SPIR-V with one for each stage, with
\* two for one stage and one of an unknown model.
MCCodes ==
  { Code("none", << >>),
    Code("wgsl", << E(0, "a"), E(4, "b"), E(5, "c"), E(0, "d") >>),
    Code("spirv", << E(0, "a"), E(4, "b"), E(5, "c") >>),
    Code("spirv", << E(6, "k"), E(4, "b"), E(0, "a"), E(0, "d") >>) }

S(model, name) == [model |-> model, module |-> m1, name |-> name]
A(binding, location) == [binding |-> binding, location |-> location]

Graphics(stages, bindings, attributes, colors, depth, formats) ==
  [graphics |-> TRUE, stages |-> stages, bindings |-> bindings, attributes |-> attributes,
   colors |-> colors, depth |-> depth, formats |-> formats]

Compute == [graphics |-> FALSE, stages |-> << S(5, "c") >>, bindings |-> << >>,
            attributes |-> << >>, colors |-> 0, depth |-> FALSE, formats |-> << >>]

Both == << S(0, "a"), S(4, "b") >>

\* With the depth first, last, alone, or not there.
Passes == { << "c", "c" >>, << "c", "d" >>, << "d", "c" >>, << "c", "c", "d" >> }
CountOf(formats) == Len(SelectSeq(formats, LAMBDA f : f = "c"))

PassInfos == { Graphics(Both, << >>, << >>, CountOf(f), "d" \in ToSet(f), f) : f \in Passes }

\* Bindings that share the attributes in all ways, numbered out of order.
VertexInfos ==
  { Graphics(Both, << 1, 0 >>, a, 1, FALSE, << "c" >>) :
      a \in { << A(0, 0), A(0, 1) >>, << A(0, 0), A(1, 1), A(0, 2) >> } }

OtherInfos ==
  { Graphics(<< S(0, "d") >>, << >>, << >>, 0, TRUE, << "d" >>),
    Graphics(<< S(0, "d"), S(4, "b") >>, << 0 >>, << A(0, 0) >>, 3, TRUE, << "c", "c", "c" >>) }

MCInfos == PassInfos \cup VertexInfos \cup OtherInfos \cup {Compute}

MCCalls ==
  { << i >> : i \in MCInfos }
    \cup { << i, i >> : i \in OtherInfos \cup {Compute} }

Symmetry == Permutations(Pipelines)

=============================================================================
