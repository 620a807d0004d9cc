SPECIFICATION Spec
CONSTANTS
  Parsers = {"1_4", "3_1", "3_2", "6_1", "p40", "p64", "2_4", "2_5", "2_6", "4_3", "4_7", "7_2"}
  MaxChannels = 2
  LaserNum = 2
  SeqNum = 2
  MaxMirrors = 2
  MirrorNum = 2
  MaxLoads = 3
INVARIANTS
  AcceptedIsWhole
  GpuComputesLikeCpu
CHECK_DEADLOCK FALSE
