SPECIFICATION Spec
CONSTANTS
  p1 = p1
  p2 = p2
  p3 = p3
  Proc = {p1, p2}
  Pid = {x1, x2}
  NoProc = NoProc
  NoPid = NoPid
  Blank = Blank
  MaySignal <- SameUser
  ForeignPid = {}
  IOErrors = FALSE
  MaxCrash = 0
INVARIANT ContentionIsBenign
