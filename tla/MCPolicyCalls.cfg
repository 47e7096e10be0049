CONSTANTS
  MCN = 3
  UINT64_MAX = 9
  minfreespace = 1
  Snapshots <- MCSnapshots
SPECIFICATION Spec
INVARIANTS
  TypeOK
  
  BestBranchChosen
  
