SPECIFICATION FairSpec
CONSTANTS
  kMaxPacketNumPerFrame = 4
  kPacketBufferSize = 5
  kMinPointsOfOneFrame = 1
  PointsPerPacket = 1
  handle_thread_count_ = 2
  Kinds <- AllKinds
  MaxFramePackets = 3
  MaxPackets = 4
INVARIANTS TypeOK PublishedComplete FrameOwnership SlotPrivate NoPacketLost
PROPERTIES HeldListStable FrameCompletes StopTerminates
