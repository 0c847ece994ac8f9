SPECIFICATION CalmSpec
CONSTANTS
  p1 = p1
  p2 = p2
  Proc = {p1, p2}
  Mode <- DaemonAndTimer
  NRepos = 2
  Name <- SameDir
  MaxDigest = 3
  Invalid = {}
  Unsafe = {1}
  Bad = {}
  Rollback = TRUE
  MaxFaults = 4
INVARIANTS RecordsWhatItDeployed DeploysOwnPull
