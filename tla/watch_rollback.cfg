SPECIFICATION CalmSpec
CONSTANTS
  p1 = p1
  p2 = p2
  Proc = {p1}
  Mode <- OnlyTimer
  NRepos = 1
  Name <- SameDir
  MaxDigest = 2
  Invalid = {}
  Unsafe = {}
  Bad = {2}
  Rollback = TRUE
  MaxFaults = 3
PROPERTIES Converges
