SPECIFICATION FairSpec
CONSTANTS
  p1 = p1
  p2 = p2
  p3 = p3
  Proc = {p1, p2}
  Pid = {x1, x2, x3}
  NoProc = NoProc
  NoPid = NoPid
  Blank = Blank
  MaySignal <- SameUser
  ForeignPid = {x1, x2, x3}
  IOErrors = FALSE
  MaxCrash = 2
PROPERTY OrphanReclaimed
