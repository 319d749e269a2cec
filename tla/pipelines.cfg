\* One shader module of any code, two pipelines, made alone or in one call;
\* two colour attachments.
SPECIFICATION PipelineSpec
CONSTANTS
  NULL = NULL
  m1 = m1
  Modules = {m1}
  Codes <- MCCodes
  Pipelines = {p1, p2}
  Infos <- MCInfos
  Calls <- MCCalls
  MaxColorAttachments = 2
  DepthFormats = {"d"}
INVARIANTS
  PipelineTypeOK
  ShadersOwned
  PipelinesOwned
  RightShader
  PassMatchesPipeline
  AttributesKept
SYMMETRY Symmetry
