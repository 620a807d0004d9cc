SPECIFICATION Spec
CONSTANTS
  Parsers = {"2_5"}
  MaxChannels = 2
  LaserNum = 2
  SeqNum = 2
  MaxMirrors = 2
  MirrorNum = 2
  MaxLoads = 3
INVARIANT ParsesOnlyLoaded
CHECK_DEADLOCK FALSE
