SPECIFICATION Spec
CONSTANTS
  Callers = {t1, t2}
  MaxMessages = 4
  MaxStarts = 2
  CacheSize = 1
  MaxDumps = 2
  MaxCalls = 3
INVARIANTS RecordsWhole RecordedOnce ReplayFaithful
PROPERTIES ReplayEnds DestructorReturns OnlyStopMisses MessagesWritten
CHECK_DEADLOCK FALSE
