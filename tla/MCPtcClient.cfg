SPECIFICATION FairSpec
CONSTANTS
  Modes = {"tcp", "tcp_ssl"}
  Getters = {"calibration"}
  Setters = {"spin"}
  MaxPayload = 4
  Answers <- MCAnswers
  MaxQueries = 3
INVARIANTS TypeOK OneReplyPerAnswer AnswerIsOwn
PROPERTIES TimedQueryReturns DestructorReturns
CHECK_DEADLOCK FALSE
