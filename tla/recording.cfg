\* One command buffer, re-recorded, with two pipelines, every kind of binding
\* but vertex buffers, and up to two commands, so that their order counts.
SPECIFICATION Spec
CONSTANTS
  NULL = NULL
  Cmds = {c1}
  Encoders = {e1, e2}
  GraphicsPipelines = {g1, g2}
  ComputePipelines = {}
  Buffers = {b1}
  Sets = {d1}
  DynamicStates = {"viewport"}
  DynamicValues = {v1}
  VertexSlots = {}
  GroupSlots = {0}
  ClientUses = {"rerecord"}
  MaxCommands = 2
SYMMETRY Symmetry
INVARIANTS
  RecordedAsIntended
  NeverRejected
  PassFollowsVk
CHECK_DEADLOCK FALSE
