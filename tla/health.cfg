SPECIFICATION Spec
CONSTANTS
  Timeouts <- SomeTimeouts
  Intervals <- SomeIntervals
  Grace = 3
  ReadyTimes <- SomeReadyTimes
  CmdTime = 2
  MaxLinger = 2
INVARIANTS TypeOK WithinBound HealthyInTime CancelIsPrompt
PROPERTY Decides
CHECK_DEADLOCK FALSE
