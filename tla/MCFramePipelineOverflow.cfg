SPECIFICATION Spec
CONSTANTS
  kMaxPacketNumPerFrame = 2
  kPacketBufferSize = 3
  kMinPointsOfOneFrame = 1
  PointsPerPacket = 1
  handle_thread_count_ = 2
  Kinds <- DataOnly
  MaxFramePackets = 2
  MaxPackets = 5
INVARIANTS DecodeInBounds NoLimitReached
CHECK_DEADLOCK FALSE
