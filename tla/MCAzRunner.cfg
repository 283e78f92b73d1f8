CONSTANTS
  CallTimeout = 2
  JoinTimeout = 2
  MaxAttempts = 3
  MaxBackoff = 1
  PipeSize = 1
  MaxOutput = 2
SPECIFICATION Spec
CHECK_DEADLOCK FALSE
INVARIANTS
  ReturnsInTime
  AnswerIsWhole
  NotKilledForItsOutput
