CONSTANTS
  MCN = 2
  UINT64_MAX = 9
  minfreespace = 1
  Snapshots <- MCSnapshots
SPECIFICATION Spec
INVARIANT
  LeastUsedSearchFinds
