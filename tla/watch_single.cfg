SPECIFICATION Spec
CONSTANTS
  p1 = p1
  p2 = p2
  Proc = {p1, p2}
  Mode <- DaemonAndCheck
  NRepos = 2
  Name <- SameDir
  MaxDigest = 3
  Invalid = {}
  Unsafe = {}
  Bad = {}
  Rollback = FALSE
  MaxFaults = 1
INVARIANTS TypeOK VouchedIsDeployed RecordedIsNotRedeployed DeploysOwnPull
PROPERTIES NeverGoesBack CheckChangesNothing
