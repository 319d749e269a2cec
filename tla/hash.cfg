\* Four keys in four buckets: collisions, wrap-around, tombstones, and growth to
\* eight buckets at the third occupied one.
SPECIFICATION HashSpec
CONSTANTS
  k1 = k1
  k2 = k2
  k3 = k3
  k4 = k4
  Keys = {k1, k2, k3, k4}
  Values = {v1, v2}
  Mixed <- CollidingMix
  Requested = 2
  MinBuckets = 4
  NULL = NULL
  TOMBSTONE = TOMBSTONE
INVARIANTS
  CountersExact
  AlwaysABucketEmpty
PROPERTY RefinesMap
CHECK_DEADLOCK FALSE
