CONSTANTS
  UINT64_MAX = 9
  N = 2
  Paths <- MCPaths
  Configs <- MCConfigs
  InitialFS <- MCInitialFS
  Requests <- MCRequests
  MaxCalls = 3
  MaxFaults = 2
  MCCreate = {"epff", "mfs"}
  MCAction = {"epall"}
  MCSearch = {"ff"}
  MCModes = {"RW"}
  MCDriveKinds = {"roomy"}
  MCOps = {"create", "mkdir", "unlink", "rename", "link", "setxattr", "removexattr", "open_rdonly", "open_rdwr"}
  MCXattr = {"none"}
  MCIgnore = {FALSE}
  MCCow = {TRUE}
  MCDeep = TRUE
SPECIFICATION Spec
CHECK_DEADLOCK FALSE
INVARIANTS
  FailureChangesNothing
  SuccessIsReal
  FailureInvisible
  CowIsPrivate
  RenameKeepsData
  RenameIsComplete

  
