SPECIFICATION SysFairSpec
CONSTANTS
  p1 = p1
  Proc = {p1}
  Mode <- OnlyDaemon
  NRepos = 2
  Name <- SameDir
  MaxDigest = 2
  Invalid = {}
  Unsafe = {}
  Bad = {1}
  Rollback = FALSE
  MaxFaults = 1
  MaxLosses = 1
INVARIANTS SysTypeOK VouchedIsDeployed LogsKeepUp
PROPERTIES ImplementsWatcher Converges ShutsDown
