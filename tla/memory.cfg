\* Two allocations of two bytes, and a resource to bind.
SPECIFICATION MemorySpec
CONSTANTS
  NULL = NULL
  Memories = {m1, m2}
  Resources = {r1}
  Cells = {0, 1}
  Bytes = {0, 1}
  Zero = 0
  Remaps = FALSE
INVARIANT WritesKept
