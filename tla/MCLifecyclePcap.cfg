SPECIFICATION FairSpec
CONSTANTS
  source_type = "pcap"
  thread_num = 2
  CPUs = 4
  StopMoments = {"called"}
  MaxPackets = 3
  MaxRounds = 2
INVARIANTS TypeOK LidarAlive
PROPERTY StopReturns
CHECK_DEADLOCK FALSE
