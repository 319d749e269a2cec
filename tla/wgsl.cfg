\* One shader module at a time, of every combination of interface, body and
\* entry points, and batches of four.  Buffers begin with four bytes.
SPECIFICATION CompileSpec
CONSTANTS
  NULL = NULL
  PieceSize = 2
  InitialCapacity = 4
  Batches <- MCBatches
INVARIANTS
  WithinBuffer
  BatchCleansUp
  NamesResolve
  OneEntryPoint
PROPERTY EveryOutputSet
CHECK_DEADLOCK FALSE
