SPECIFICATION Spec
CONSTANTS
  p1 = p1
  p2 = p2
  p3 = p3
  Proc = {p1, p2, p3}
  Pid = {x1, x2, x3, x4}
  NoProc = NoProc
  NoPid = NoPid
  Blank = Blank
  MaySignal <- SameUser
  ForeignPid = {x1, x2, x3, x4}
  IOErrors = TRUE
  MaxCrash = 2
SYMMETRY Symmetry
CONSTRAINT NoBreach
INVARIANTS TypeOK BreachFreeExclusion HolderOwnsFile
PROPERTY ImplementsCycleLock
