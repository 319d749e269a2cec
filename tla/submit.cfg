\* Two command buffers recorded, re-recorded, submitted in batches and freed.
SPECIFICATION SubmissionSpec
CONSTANTS
  NULL = NULL
  Cmds = {c1, c2}
  Encoders = {e1, e2}
  GraphicsPipelines = {}
  ComputePipelines = {}
  Buffers = {}
  Sets = {}
  DynamicStates = {}
  DynamicValues = {}
  VertexSlots = {}
  GroupSlots = {}
  ClientUses = {"rerecord"}
  MaxCommands = 1
  Fences = {f1}
  MaxSubmitted = 2
INVARIANTS
  RunsWhatWasSubmitted
  FencesOfWholeCalls
  PassesOwned
  EncodersHeld
PROPERTIES
  EncodersKept
  EventuallyRun
CHECK_DEADLOCK FALSE
