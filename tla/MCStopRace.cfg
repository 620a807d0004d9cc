SPECIFICATION FairSpec
CONSTANTS
  source_type = "pcap"
  thread_num = 2
  CPUs = 4
  StopMoments = {"started"}
  MaxPackets = 2
  MaxRounds = 1
PROPERTY StopReturns
CHECK_DEADLOCK FALSE
