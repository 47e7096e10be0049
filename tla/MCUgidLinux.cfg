CONSTANTS
  Users <- MCUsers
  Groups <- MCGroups
  MAXRECS = 3
  MAXGIDS = 4
SPECIFICATION Spec
INVARIANTS TypeOK CacheSorted RunsAsCaller 
