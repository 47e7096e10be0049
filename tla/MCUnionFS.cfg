CONSTANTS
  UINT64_MAX = 9
  N = 2
  Paths <- MCPaths
  Configs <- MCConfigs
  InitialFS <- MCInitialFS
  Requests <- MCRequests
  MaxCalls = 1
  MaxFaults = 1
  MCCreate = {"epmfs", "mfs", "all"}
  MCAction = {"epall"}
  MCSearch = {"ff"}
  MCModes = {"RW", "NC", "RO"}
  MCDriveKinds = {"roomy", "full"}
  MCOps = {"create", "mkdir", "mknod", "symlink", "chmod", "chown", "utimens", "truncate", "setxattr", "removexattr", "unlink", "rmdir"}
  MCXattr = {"none", "ENOSYS"}
  MCIgnore = {FALSE}
  MCCow = {FALSE}
  MCDeep = FALSE
SPECIFICATION Spec
CHECK_DEADLOCK FALSE
INVARIANTS
  TypeOK
  FailureChangesNothing
  SuccessIsReal
PROPERTIES
  ModesRespected
