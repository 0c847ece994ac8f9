SPECIFICATION Spec
CONSTANTS
  p1 = p1
  p2 = p2
  Proc = {p1}
  Mode <- OnlyDaemon
  NRepos = 1
  Name <- SameDir
  MaxDigest = 2
  Invalid = {}
  Unsafe = {}
  Bad = {}
  Rollback = FALSE
  MaxFaults = 0
INVARIANT RecordsWhatItDeployed
