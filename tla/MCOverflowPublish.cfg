SPECIFICATION Spec
CONSTANTS
  kMaxPacketNumPerFrame = 3
  kPacketBufferSize = 4
  kMinPointsOfOneFrame = 1
  PointsPerPacket = 1
  handle_thread_count_ = 1
  Kinds <- DataOnly
  MaxFramePackets = 3
  MaxPackets = 6
INVARIANT PublishedComplete
CHECK_DEADLOCK FALSE
