SPECIFICATION FairSpec
CONSTANTS
  MaxVersion = 3
  NFiles = 2
  Specs <- AllSpecs
  MaxFaults = 1
INVARIANTS TypeOK SuccessIsWhole WholeFiles
PROPERTIES ReplacedWhileStopped ClearIsGuarded CheckedBeforeTouched RetriesSucceed
CHECK_DEADLOCK FALSE
