SPECIFICATION FairSpec
CONSTANTS
  source_type = "lidar"
  thread_num = 2
  CPUs = 4
  StopMoments = {"started", "called"}
  MaxPackets = 3
  MaxRounds = 2
INVARIANTS ThreadsJoined TablesQuiet
PROPERTY FaultPathOpens
CHECK_DEADLOCK FALSE
