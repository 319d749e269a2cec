\* Three views or set layouts named by two framebuffers or pipeline layouts of
\* two slots each.
SPECIFICATION SharedSpec
CONSTANTS
  NULL = NULL
  Children = {v1, v2, v3}
  Parents = {p1, p2}
  Capacity = 2
INVARIANT RefCountsExact
PROPERTY ImplementsReachability
