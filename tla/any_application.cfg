\* One command buffer of an application that makes use of everything, with
\* runs of vertex buffers past the end of their table.
SPECIFICATION Spec
CONSTANTS
  NULL = NULL
  Cmds = {c1}
  Encoders = {e1, e2}
  GraphicsPipelines = {g1, g2}
  ComputePipelines = {k1}
  Buffers = {b1}
  Sets = {}
  DynamicStates = {"viewport", "line_width"}
  DynamicValues = {v1}
  VertexSlots = {0}
  GroupSlots = {}
  ClientUses = {"early_bind", "compute", "rerecord", "free_open",
                "ignored_state", "dropped_transfer"}
  MaxCommands = 1
SYMMETRY Symmetry
INVARIANTS
  TypeOK
  PassNeverStale
  HandlesConsistent
CHECK_DEADLOCK FALSE
