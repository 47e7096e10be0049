CONSTANTS
  Threads = {t1, t2, t3}
  NoThread = NoThread
  Users <- MCUsers
  MaxRequests = 1
  BranchesPreferWriters = TRUE
SPECIFICATION Spec
PROPERTIES CredentialsChange
CHECK_DEADLOCK FALSE
