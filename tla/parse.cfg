\* Well-formed modules of up to two functions and two blocks, and two arbitrary
\* words; tables of two entries, blocks of two instructions.
SPECIFICATION ParserSpec
CONSTANTS
  Modules <- MCModules
  Ops = {"skipped", "function_end"}
  TableCapacity <- MCTableCapacity
  BlockCapacity = 2
  InitialBlocks = 1
INVARIANTS
  WithinBounds
  InStep
  RecordsTheModule
PROPERTY Terminates
CHECK_DEADLOCK FALSE
