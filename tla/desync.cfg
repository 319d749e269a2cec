\* Functions with one arithmetic instruction.
SPECIFICATION ParserSpec
CONSTANTS
  Modules <- Arithmetic
  Ops = {"skipped", "function_end"}
  TableCapacity <- MCTableCapacity
  BlockCapacity = 2
  InitialBlocks = 1
INVARIANT RecordsEveryModule
CHECK_DEADLOCK FALSE
