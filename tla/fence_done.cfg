\* What a signaled fence says.
SPECIFICATION SubmissionSpec
CONSTANTS
  NULL = NULL
  Cmds = {c1}
  Encoders = {e1, e2}
  GraphicsPipelines = {}
  ComputePipelines = {}
  Buffers = {}
  Sets = {}
  DynamicStates = {}
  DynamicValues = {}
  VertexSlots = {}
  GroupSlots = {}
  ClientUses = {"rerecord"}
  MaxCommands = 1
  Fences = {f1}
  MaxSubmitted = 3
INVARIANT FenceMeansDone
CHECK_DEADLOCK FALSE
