CONSTANTS
  Threads = {t1, t2, t3}
  NoThread = NoThread
  Users <- MCUsers
  MaxRequests = 1
  BranchesPreferWriters = FALSE
SPECIFICATION Spec
INVARIANTS TypeOK RunsAsCaller BranchesStable
 
CHECK_DEADLOCK FALSE
