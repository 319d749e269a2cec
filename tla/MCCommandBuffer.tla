--------------------------- MODULE MCCommandBuffer ---------------------------
(* Instances of CommandBuffer for TLC.                                      *)
EXTENDS CommandBuffer, TLC

\* Handles of one kind are interchangeable.
Symmetry ==
  Permutations(Cmds) \cup Permutations(Encoders)
    \cup Permutations(GraphicsPipelines) \cup Permutations(Buffers)
    \cup Permutations(Sets) \cup Permutations(DynamicValues)

=============================================================================
