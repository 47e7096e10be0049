CONSTANTS
  UINT64_MAX = 9
  N = 3
  Paths <- MCPaths
  Configs <- MCConfigs
  InitialFS <- MCInitialFS
  Requests <- MCRequests
  MaxCalls = 1
  MaxFaults = 1
  MCCreate = {"epff", "eprand", "mfs"}
  MCAction = {"epall", "ff"}
  MCSearch = {"ff"}
  MCModes = {"RW", "RO"}
  MCDriveKinds = {"roomy"}
  MCOps = {"rename", "link"}
  MCXattr = {"none"}
  MCIgnore = {FALSE, TRUE}
  MCCow = {FALSE}
  MCDeep = FALSE
SPECIFICATION Spec
CHECK_DEADLOCK FALSE
INVARIANTS
  
  FailureChangesNothing
  SuccessIsReal
  RenameKeepsData
  RenameIsComplete
PROPERTIES
  ModesRespected
