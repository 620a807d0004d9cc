SPECIFICATION MemorySpec
CONSTANTS
  Circle = 9
  MaxStep = 4
  Starts <- AllStarts
  MayMeetStart = FALSE
  FrameIds = 4
  Columns = 4
  MaxTurns = 4
  Width = 6
  Spacing = 10
  kAzimuthTolerance = 3
  Acceptance = 2
  MaxFields = 7
  SeqRange = 5
  MaxIndex = 8
  MaxAgain = 2
INVARIANTS
  TypeOK
  FrameIsOneTurn
  SplitIsNewTurn
  DirectionFound
  FrameIsOneField
  LossesCounted
CHECK_DEADLOCK FALSE
