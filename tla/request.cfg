SPECIFICATION Spec
CONSTANTS
  Families <- SomeFamilies
  ArtifactDir <- SomeDir
  FileChars <- SomeChars
  Dotted <- SomeDotted
  Links <- SomeLinks
INVARIANTS
  TypeOK TargetsStayAllowed ClearsStayAllowed ReadsStayInside
  NeverPanics FileStaysInOneArgument RefsAreReadBack
CHECK_DEADLOCK FALSE
