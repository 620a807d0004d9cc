---------------------------- MODULE FramePipeline ----------------------------
(***************************************************************************)
(* From a UDP packet to a published point cloud.                           *)
(*                                                                         *)
(*   RecieveUdpThread --origin_packets_buffer_--> HesaiLidarSdk::Run       *)
(*   Run --decoded_packets_buffer_--> ParserThread                         *)
(*   ParserThread --handle_thread_packet_buffer_[h]--> HandleThread(h)     *)
(*                                                                         *)
(* Run decodes packet number packet_index of a frame into slot packet_num  *)
(* of the one shared LidarDecodedFrame and sends only the index on; the    *)
(* worker threads turn the slot into points of the same frame and count    *)
(* what they finished in compute_packet_num.  When a packet starts a new   *)
(* frame, Run polls that counter until it equals packet_index, publishes,  *)
(* clears the frame and decodes the same packet again as packet 0.         *)
(*                                                                         *)
(* A packet is its arrival number and its kind; a slot holds the number of *)
(* the packet decoded into it, a point entry the number of the packet it   *)
(* was computed from.  The rings are sequences (see BlockingRing).         *)
(***************************************************************************)
EXTENDS Integers, Sequences, FiniteSets

CONSTANTS
  kMaxPacketNumPerFrame,  \* slots of the shared frame
  kPacketBufferSize,      \* capacity of both rings and limit of a handle list
  kMinPointsOfOneFrame,   \* a frame with no more points is not published
  PointsPerPacket,        \* block_num * laser_num of this lidar
  handle_thread_count_,   \* 0 or 1: ParserThread computes; else HandleThreads
  Kinds,                  \* what the source delivers
  MaxFramePackets,        \* bound: packets of a frame before the sensor splits
  MaxPackets              \* bound: packets the source delivers in a behaviour

AllKinds == {"point", "timeout", "fault", "gps"}

ASSUME PipelineAssumption ==
  /\ kMaxPacketNumPerFrame \in Nat /\ kMaxPacketNumPerFrame > 1
  /\ kPacketBufferSize \in Nat
  /\ kMaxPacketNumPerFrame < kPacketBufferSize
  /\ kMinPointsOfOneFrame \in Nat
  /\ PointsPerPacket \in Nat \ {0}
  /\ handle_thread_count_ \in Nat
  /\ Kinds \subseteq AllKinds
  /\ MaxFramePackets \in Nat
  /\ MaxPackets \in Nat

MultiThread == handle_thread_count_ >= 2
Handlers == IF MultiThread THEN 0..handle_thread_count_-1 ELSE {}
Slots == 0..kMaxPacketNumPerFrame-1
NoPacket == [id |-> 0, kind |-> "gps"]

VARIABLES
  (* RecieveUdpThread *)
  recvPc, recvPacket,
  is_timeout_,            \* a timeout packet has been queued since the last data
  received,               \* packets the source has delivered so far
  origin,                 \* origin_packets_buffer_
  (* Run *)
  runPc, packet,
  packet_index,
  last_packet_is_valid,
  udp_packet_frame,       \* the raw packets of the frame, for pkt_cb_
  (* frame_, shared by Run and the workers *)
  packet_num, points_num, per_points_num,
  slot,                   \* pointData, per packet
  points,                 \* points, per packet
  (* the workers *)
  decoded,                \* decoded_packets_buffer_
  compute_packet_num,
  parserPc, parserIdx,
  nUDPCount,
  mutex,                  \* mutex_list_[h]: who holds it
  handleBuf,              \* handle_thread_packet_buffer_[h]
  handlePc, handleIdx,
  (* Stop and ~Lidar *)
  is_thread_runing_, running_, stopPc,
  corrupted,              \* undefined behaviour has damaged the heap
  (* history *)
  accepted,               \* packets decoded with success, in order
  base                    \* how many of them belong to finished frames

recvVars == <<recvPc, recvPacket, is_timeout_, received>>
runVars == <<runPc, packet, packet_index, last_packet_is_valid, udp_packet_frame>>
frameVars == <<packet_num, points_num, per_points_num, slot>>
poolVars == <<parserPc, parserIdx, nUDPCount, mutex, handlePc, handleIdx>>
stopVars == <<is_thread_runing_, running_, stopPc>>
history == <<accepted, base>>
vars == <<recvVars, origin, runVars, frameVars, points, decoded,
          compute_packet_num, poolVars, handleBuf, stopVars, corrupted, history>>

\* What each thread never touches.
notRecv == <<runVars, frameVars, points, decoded, compute_packet_num, poolVars,
             handleBuf, stopVars, corrupted, history>>
notRun == <<recvVars, points, poolVars, stopVars, corrupted>>
notPool == <<recvVars, origin, runVars, frameVars, stopVars, history>>

-----------------------------------------------------------------------------
(* RecieveUdpThread *)

\* source_->Receive returns a packet (an error, -1, only makes it sleep).
RecvReceive(kind) ==
  /\ recvPc = "receive" /\ running_
  /\ received < MaxPackets
  /\ received' = received + 1
  /\ recvPacket' = [id |-> received + 1, kind |-> kind]
  /\ recvPc' = "room"
  /\ UNCHANGED <<notRecv, is_timeout_, origin>>

OriginFull == Len(origin) = kPacketBufferSize

\* while (full() && running_) sleep;  if (!running_) break;
RecvRoom ==
  /\ recvPc = "room" /\ running_
  /\ ~OriginFull
  /\ recvPc' = "put"
  /\ UNCHANGED <<notRecv, recvPacket, is_timeout_, received, origin>>

\* Data and fault packets are queued, the first timeout after data is queued,
\* everything else is forgotten.  emplace_back blocks on a full ring.
Queued == \/ recvPacket.kind \in {"point", "fault"}
          \/ recvPacket.kind = "timeout" /\ ~is_timeout_

RecvPut ==
  /\ recvPc = "put"
  /\ \/ Queued /\ Len(origin) < kPacketBufferSize /\ origin' = Append(origin, recvPacket)
     \/ ~Queued /\ UNCHANGED origin
  /\ is_timeout_' = CASE recvPacket.kind = "timeout" -> TRUE
                      [] recvPacket.kind = "point" -> FALSE
                      [] OTHER -> is_timeout_
  /\ recvPc' = "receive"
  /\ UNCHANGED <<notRecv, recvPacket, received>>

RecvExit ==
  /\ recvPc \in {"receive", "room"} /\ ~running_
  /\ recvPc' = "exit"
  /\ UNCHANGED <<notRecv, recvPacket, is_timeout_, received, origin>>

-----------------------------------------------------------------------------
(* Run *)

\* GetOnePacket; with nothing to get (500 ms timeout) the loop just goes on.
RunGet ==
  /\ runPc = "loop" /\ is_thread_runing_
  /\ origin # <<>>
  /\ packet' = Head(origin)
  /\ origin' = Tail(origin)
  /\ runPc' = "decode"
  /\ UNCHANGED <<notRun, frameVars, history, packet_index,
                 last_packet_is_valid, udp_packet_frame, decoded,
                 compute_packet_num, handleBuf>>

\* A fault message, a packet from another device, one that comes before the
\* correction data is loaded, or one DecodePacket refuses: on to the next.
RunSkip ==
  /\ runPc = "decode"
  /\ runPc' = "loop"
  /\ UNCHANGED <<notRun, frameVars, history, origin, packet, packet_index,
                 last_packet_is_valid, udp_packet_frame, decoded,
                 compute_packet_num, handleBuf>>

\* DecodePacket into the next slot of the frame.
DecodePacket(num) ==
  /\ slot' = [slot EXCEPT ![num] = packet.id]
  /\ packet_num' = num + 1
  /\ per_points_num' = PointsPerPacket

\* ComputeXYZI(packet_index), which blocks on a full ring, and the
\* bookkeeping that follows it.
Enqueue(index, points_before, frame_before) ==
  /\ Len(decoded) < kPacketBufferSize
  /\ decoded' = Append(decoded, index)
  /\ points_num' = points_before + per_points_num'
  /\ udp_packet_frame' = Append(frame_before, packet.id)
  /\ packet_index' = index + 1

\* Mutant: the last slot is tested one packet too late.
FrameFullLate(n) == n > kMaxPacketNumPerFrame

FrameFull(n) == n >= kMaxPacketNumPerFrame

\* The packet belongs to the current frame.
RunData ==
  /\ runPc = "decode" /\ packet.kind = "point"
  /\ packet_index < MaxFramePackets
  /\ DecodePacket(packet_num)
  /\ Enqueue(packet_index, points_num, udp_packet_frame)
  /\ accepted' = Append(accepted, packet.id)
  /\ runPc' = IF FrameFull(packet_index') THEN "clear" ELSE "loop"
  /\ UNCHANGED <<notRun, origin, packet, last_packet_is_valid,
                 compute_packet_num, handleBuf, base>>

\* Mutant: the comparison is inverted.
LastPacketIsValidInverted(num) == num = packet_index

\* "If it's not a timeout split frame, it will be one more packet".
LastPacketIsValid(num) == num # packet_index

\* The packet crosses the frame's start azimuth: scan_complete is set, the
\* frame is what came before it.
RunSplit ==
  /\ runPc = "decode" /\ packet.kind = "point"
  /\ slot' = [slot EXCEPT ![packet_num] = packet.id]
  /\ per_points_num' = PointsPerPacket
  /\ last_packet_is_valid' = LastPacketIsValid(packet_num + 1)
  /\ packet_num' = packet_index
  /\ accepted' = Append(accepted, packet.id)
  /\ runPc' = "wait"
  /\ UNCHANGED <<notRun, origin, packet, packet_index, udp_packet_frame,
                 points_num, decoded, compute_packet_num, handleBuf,
                 base>>

\* Udp4_3Parser splits on a timeout packet: scan_complete without a packet.
RunTimeoutSplit ==
  /\ runPc = "decode" /\ packet.kind = "timeout"
  /\ last_packet_is_valid' = LastPacketIsValid(packet_num)
  /\ packet_num' = packet_index
  /\ runPc' = "wait"
  /\ UNCHANGED <<notRun, history, origin, packet, packet_index,
                 udp_packet_frame, points_num, per_points_num, slot,
                 decoded, compute_packet_num, handleBuf>>

\* Mutant: complete while one packet is still being computed.
ComputeXYZICompleteEarly == compute_packet_num + 1 >= packet_index

ComputeXYZIComplete == compute_packet_num = packet_index

\* ComputeXYZIComplete, first half: the counter is read and compared ...
RunComplete ==
  /\ runPc = "wait"
  /\ ComputeXYZIComplete
  /\ runPc' = "reset"
  /\ UNCHANGED <<notRun, frameVars, history, origin, packet, packet_index,
                 last_packet_is_valid, udp_packet_frame, decoded,
                 compute_packet_num, handleBuf>>

\* Mutant: the counter is not reset.
KeepComputePacketNum == UNCHANGED compute_packet_num

setComputePacketNumToZero == compute_packet_num' = 0

\* ... second half: the counter starts again for the next frame.
RunReset ==
  /\ runPc = "reset"
  /\ setComputePacketNumToZero
  /\ runPc' = IF points_num > kMinPointsOfOneFrame THEN "publish" ELSE "update"
  /\ UNCHANGED <<notRun, frameVars, history, origin, packet, packet_index,
                 last_packet_is_valid, udp_packet_frame, decoded,
                 handleBuf>>

\* point_cloud_cb_, pkt_cb_ and the other callbacks return.
RunPublish ==
  /\ runPc = "publish"
  /\ runPc' = "update"
  /\ UNCHANGED <<notRun, frameVars, history, origin, packet, packet_index,
                 last_packet_is_valid, udp_packet_frame, decoded,
                 compute_packet_num, handleBuf>>

\* Mutant: packet_num survives into the next frame.
UpdateKeepsPacketNum ==
  /\ points_num' = 0
  /\ per_points_num' = 0
  /\ UNCHANGED <<packet_num, slot>>

\* frame_.Update().
Update ==
  /\ packet_num' = 0
  /\ points_num' = 0
  /\ per_points_num' = 0
  /\ UNCHANGED slot

RunUpdate ==
  /\ runPc = "update"
  /\ Update
  /\ udp_packet_frame' = <<>>
  /\ packet_index' = 0
  /\ base' = base + packet_index
  /\ runPc' = IF last_packet_is_valid THEN "redecode" ELSE "loop"
  /\ UNCHANGED <<notRun, origin, packet, last_packet_is_valid, decoded,
                 compute_packet_num, handleBuf, accepted>>

\* The packet that split the frame is decoded again, as packet 0 of the next.
RunRedecode ==
  /\ runPc = "redecode"
  /\ DecodePacket(packet_num)
  /\ Enqueue(packet_index, points_num, udp_packet_frame)
  /\ runPc' = "loop"
  /\ UNCHANGED <<notRun, history, origin, packet, last_packet_is_valid,
                 compute_packet_num, handleBuf>>

\* Mutant: decoded_packets_buffer_ is not cleared.
KeepDecoded == UNCHANGED decoded

\* decoded_packets_buffer_.eff_clear().
EffClearDecoded == decoded' = <<>>

\* "fail to start a new frame": all slots are used and no packet has split
\* the frame.  ClearPacketBuffer empties the ring ...
RunClear ==
  /\ runPc = "clear"
  /\ packet_index' = 0
  /\ udp_packet_frame' = <<>>
  /\ EffClearDecoded
  /\ runPc' = "clearHandles"
  /\ UNCHANGED <<notRun, frameVars, history, origin, packet,
                 last_packet_is_valid, compute_packet_num, handleBuf>>

\* ... and then the handle lists, without taking their mutexes ...
RunClearHandles ==
  /\ runPc = "clearHandles"
  /\ handleBuf' = [h \in Handlers |-> <<>>]
  /\ runPc' = "discard"
  /\ UNCHANGED <<notRun, frameVars, history, origin, packet, packet_index,
                 last_packet_is_valid, udp_packet_frame, decoded,
                 compute_packet_num>>

\* ... and 100 us later the frame is reset.
RunDiscard ==
  /\ runPc = "discard"
  /\ Update
  /\ base' = Len(accepted)
  /\ runPc' = "loop"
  /\ UNCHANGED <<notRun, origin, packet, packet_index, last_packet_is_valid,
                 udp_packet_frame, decoded, compute_packet_num,
                 handleBuf, accepted>>

RunExit ==
  /\ runPc = "loop" /\ ~is_thread_runing_
  /\ runPc' = "exit"
  /\ UNCHANGED <<notRun, frameVars, history, origin, packet, packet_index,
                 last_packet_is_valid, udp_packet_frame, decoded,
                 compute_packet_num, handleBuf>>

-----------------------------------------------------------------------------
(* ParserThread and HandleThread *)

\* UdpXParser::ComputeXYZI on packet idx of the frame.  Its loops run over
\* frame_.block_num blocks, none at all while the header fields are zero.
ComputeXYZI(idx) ==
  points' = IF per_points_num = 0 THEN points
                                  ELSE [points EXCEPT ![idx] = slot[idx]]

\* FrameNumAdd: the last thing ComputeXYZI does.
FrameNumAdd == compute_packet_num' = compute_packet_num + 1

\* Mutant: the caller does not wait for the mutex.
LockNoWait(h, who) == mutex' = [mutex EXCEPT ![h] = who]

\* mutex_list_[h].lock()
Lock(h, who) ==
  /\ mutex[h] = "free"
  /\ mutex' = [mutex EXCEPT ![h] = who]

Unlock(h) == mutex' = [mutex EXCEPT ![h] = "free"]

ParserPop ==
  /\ parserPc = "pop" /\ running_
  /\ decoded # <<>>
  /\ parserIdx' = Head(decoded)
  /\ decoded' = Tail(decoded)
  /\ parserPc' = IF MultiThread THEN "lock" ELSE "compute"
  /\ UNCHANGED <<notPool, points, compute_packet_num, nUDPCount, mutex,
                 handleBuf, handlePc, handleIdx, corrupted>>

ParserCompute ==
  /\ parserPc = "compute"
  /\ ComputeXYZI(parserIdx)
  /\ parserPc' = "count"
  /\ UNCHANGED <<notPool, decoded, compute_packet_num, parserIdx, nUDPCount,
                 mutex, handleBuf, handlePc, handleIdx, corrupted>>

ParserCount ==
  /\ parserPc = "count"
  /\ FrameNumAdd
  /\ parserPc' = "pop"
  /\ UNCHANGED <<notPool, points, decoded, parserIdx, nUDPCount, mutex,
                 handleBuf, handlePc, handleIdx, corrupted>>

ParserLock ==
  /\ parserPc = "lock"
  /\ Lock(nUDPCount, "parser")
  /\ parserPc' = "push"
  /\ UNCHANGED <<notPool, points, decoded, compute_packet_num, parserIdx,
                 nUDPCount, handleBuf, handlePc, handleIdx, corrupted>>

\* Mutant: the round robin does not wrap.
NextHandlerNoWrap(n) == n + 1

NextHandler(n) == (n + 1) % handle_thread_count_

\* push_back, drop the oldest index when the list exceeds its limit, unlock,
\* and take the next list the next time.
ParserPush ==
  /\ parserPc = "push"
  /\ LET list == Append(handleBuf[nUDPCount], parserIdx)
     IN  handleBuf' = [handleBuf EXCEPT ![nUDPCount] =
                         IF Len(list) > kPacketBufferSize THEN Tail(list) ELSE list]
  /\ Unlock(nUDPCount)
  /\ nUDPCount' = NextHandler(nUDPCount)
  /\ parserPc' = "pop"
  /\ UNCHANGED <<notPool, points, decoded, compute_packet_num, parserIdx,
                 handlePc, handleIdx, corrupted>>

ParserExit ==
  /\ parserPc = "pop" /\ ~running_
  /\ parserPc' = "exit"
  /\ UNCHANGED <<notPool, points, decoded, compute_packet_num, parserIdx,
                 nUDPCount, mutex, handleBuf, handlePc, handleIdx, corrupted>>

\* lock(), size() > 0, front().  A round that finds the list empty changes
\* nothing and is not a step.
HandleFront(h) ==
  /\ handlePc[h] = "lock" /\ running_
  /\ handleBuf[h] # <<>>
  /\ Lock(h, "handler")
  /\ handleIdx' = [handleIdx EXCEPT ![h] = Head(handleBuf[h])]
  /\ handlePc' = [handlePc EXCEPT ![h] = "pop"]
  /\ UNCHANGED <<notPool, points, decoded, compute_packet_num, parserPc,
                 parserIdx, nUDPCount, handleBuf, corrupted>>

\* pop_front().  On a std::list that Run has cleared in the meantime it hands
\* the list's own sentinel node to operator delete.  Nothing can be said of
\* what the process does after that: the behaviour ends there.
HandlePop(h) ==
  /\ handlePc[h] = "pop"
  /\ \/ /\ handleBuf[h] # <<>>
        /\ handleBuf' = [handleBuf EXCEPT ![h] = Tail(@)]
        /\ UNCHANGED corrupted
     \/ /\ handleBuf[h] = <<>>
        /\ corrupted' = TRUE
        /\ UNCHANGED handleBuf
  /\ handlePc' = [handlePc EXCEPT ![h] = "compute"]
  /\ UNCHANGED <<notPool, points, decoded, compute_packet_num, parserPc,
                 parserIdx, nUDPCount, mutex, handleIdx>>

HandleCompute(h) ==
  /\ handlePc[h] = "compute"
  /\ ComputeXYZI(handleIdx[h])
  /\ handlePc' = [handlePc EXCEPT ![h] = "count"]
  /\ UNCHANGED <<notPool, decoded, compute_packet_num, parserPc, parserIdx,
                 nUDPCount, mutex, handleBuf, handleIdx, corrupted>>

\* FrameNumAdd, then unlock().
HandleCount(h) ==
  /\ handlePc[h] = "count"
  /\ FrameNumAdd
  /\ Unlock(h)
  /\ handlePc' = [handlePc EXCEPT ![h] = "lock"]
  /\ UNCHANGED <<notPool, points, decoded, parserPc, parserIdx, nUDPCount,
                 handleBuf, handleIdx, corrupted>>

HandleExit(h) ==
  /\ handlePc[h] = "lock" /\ ~running_
  /\ handlePc' = [handlePc EXCEPT ![h] = "exit"]
  /\ UNCHANGED <<notPool, points, decoded, compute_packet_num, parserPc,
                 parserIdx, nUDPCount, mutex, handleBuf, handleIdx, corrupted>>

-----------------------------------------------------------------------------
(* HesaiLidarSdk::Stop and ~Lidar *)

Stop ==
  /\ stopPc = "none"
  /\ is_thread_runing_' = FALSE
  /\ stopPc' = "joinRun"
  /\ UNCHANGED <<recvVars, origin, runVars, frameVars, points, decoded,
                 compute_packet_num, poolVars, handleBuf, running_, corrupted,
                 history>>

\* Mutant: ~Lidar joins its threads without telling them to stop.
StopJoinRunOnly ==
  /\ stopPc = "joinRun" /\ runPc = "exit"
  /\ stopPc' = "joinLidar"
  /\ UNCHANGED <<recvVars, origin, runVars, frameVars, points, decoded,
                 compute_packet_num, poolVars, handleBuf, is_thread_runing_,
                 running_, corrupted, history>>

\* runing_thread_ptr_->join() returns; delete lidar_ptr_ begins.
StopJoinRun ==
  /\ stopPc = "joinRun" /\ runPc = "exit"
  /\ running_' = FALSE
  /\ stopPc' = "joinLidar"
  /\ UNCHANGED <<recvVars, origin, runVars, frameVars, points, decoded,
                 compute_packet_num, poolVars, handleBuf, is_thread_runing_,
                 corrupted, history>>

StopJoinLidar ==
  /\ stopPc = "joinLidar"
  /\ recvPc = "exit" /\ parserPc = "exit"
  /\ \A h \in Handlers : handlePc[h] = "exit"
  /\ stopPc' = "done"
  /\ UNCHANGED <<recvVars, origin, runVars, frameVars, points, decoded,
                 compute_packet_num, poolVars, handleBuf, is_thread_runing_,
                 running_, corrupted, history>>

-----------------------------------------------------------------------------
Init ==
  /\ recvPc = "receive" /\ recvPacket = NoPacket
  /\ is_timeout_ = FALSE /\ received = 0
  /\ origin = <<>>
  /\ runPc = "loop" /\ packet = NoPacket
  /\ packet_index = 0 /\ last_packet_is_valid = FALSE
  /\ udp_packet_frame = <<>>
  /\ packet_num = 0 /\ points_num = 0 /\ per_points_num = 0
  /\ slot = [i \in Slots |-> 0] /\ points = [i \in Slots |-> 0]
  /\ decoded = <<>> /\ compute_packet_num = 0
  /\ parserPc = "pop" /\ parserIdx = 0 /\ nUDPCount = 0
  /\ mutex = [h \in Handlers |-> "free"]
  /\ handleBuf = [h \in Handlers |-> <<>>]
  /\ handlePc = [h \in Handlers |-> "lock"]
  /\ handleIdx = [h \in Handlers |-> 0]
  /\ is_thread_runing_ = TRUE /\ running_ = TRUE /\ stopPc = "none"
  /\ corrupted = FALSE
  /\ accepted = <<>> /\ base = 0

RecvStep == RecvRoom \/ RecvPut \/ RecvExit

RunStep ==
  \/ RunGet \/ RunSkip \/ RunData \/ RunSplit \/ RunTimeoutSplit
  \/ RunComplete \/ RunReset \/ RunPublish \/ RunUpdate \/ RunRedecode
  \/ RunClear \/ RunClearHandles \/ RunDiscard \/ RunExit

ParserStep ==
  \/ ParserPop \/ ParserCompute \/ ParserCount
  \/ ParserLock \/ ParserPush \/ ParserExit

HandleStep(h) ==
  \/ HandleFront(h) \/ HandlePop(h) \/ HandleCompute(h)
  \/ HandleCount(h) \/ HandleExit(h)

StopStep == StopJoinRun \/ StopJoinLidar

\* Stop has returned; nothing is left to run.
Stopped == stopPc = "done" /\ UNCHANGED vars

Next ==
  \/ /\ ~corrupted
     /\ \/ \E kind \in Kinds : RecvReceive(kind)
        \/ RecvStep
        \/ RunStep
        \/ ParserStep
        \/ \E h \in Handlers : HandleStep(h)
        \/ Stop
        \/ StopStep
  \/ Stopped

Spec == Init /\ [][Next]_vars

\* Every thread keeps running.  Nothing obliges the source to deliver another
\* packet or the application to call Stop.
FairSpec ==
  /\ Spec
  /\ WF_vars(~corrupted /\ RecvStep)
  /\ WF_vars(~corrupted /\ RunStep)
  /\ WF_vars(~corrupted /\ ParserStep)
  /\ \A h \in Handlers : WF_vars(~corrupted /\ HandleStep(h))
  /\ WF_vars(~corrupted /\ StopStep)

-----------------------------------------------------------------------------
Packets == [id : Nat, kind : AllKinds]

RecvTypeOK ==
  /\ recvPc \in {"receive", "room", "put", "exit"}
  /\ recvPacket \in Packets
  /\ is_timeout_ \in BOOLEAN
  /\ received \in 0..MaxPackets
  /\ origin \in Seq(Packets)

RunTypeOK ==
  /\ runPc \in {"loop", "decode", "wait", "reset", "publish", "update",
                "redecode", "clear", "clearHandles", "discard", "exit"}
  /\ packet \in Packets
  /\ packet_index \in 0..kMaxPacketNumPerFrame
  /\ last_packet_is_valid \in BOOLEAN
  /\ udp_packet_frame \in Seq(Nat)
  /\ accepted \in Seq(Nat)
  /\ base \in Nat

FrameTypeOK ==
  /\ packet_num \in 0..kMaxPacketNumPerFrame
  /\ points_num \in Nat
  /\ per_points_num \in {0, PointsPerPacket}
  /\ slot \in [Slots -> Nat]
  /\ points \in [Slots -> Nat]

ParserTypeOK ==
  /\ decoded \in Seq(Slots)
  /\ compute_packet_num \in Nat
  /\ parserPc \in {"pop", "compute", "count", "lock", "push", "exit"}
  /\ parserIdx \in Slots
  /\ nUDPCount \in Handlers \cup {0}

HandleTypeOK ==
  /\ mutex \in [Handlers -> {"free", "parser", "handler"}]
  /\ handleBuf \in [Handlers -> Seq(Slots)]
  /\ handlePc \in [Handlers -> {"lock", "pop", "compute", "count", "exit"}]
  /\ handleIdx \in [Handlers -> Slots]

StopTypeOK ==
  /\ is_thread_runing_ \in BOOLEAN
  /\ running_ \in BOOLEAN
  /\ stopPc \in {"none", "joinRun", "joinLidar", "done"}
  /\ corrupted \in BOOLEAN

TypeOK == /\ RecvTypeOK /\ RunTypeOK /\ FrameTypeOK
          /\ ParserTypeOK /\ HandleTypeOK /\ StopTypeOK

-----------------------------------------------------------------------------
(* Safety *)

\* Indices handed to the workers and not yet counted.
ParserHolds == IF parserPc \in {"compute", "count", "lock", "push"}
                 THEN {parserIdx} ELSE {}
HandlerHolds(h) == IF handlePc[h] \in {"compute", "count"}
                     THEN {handleIdx[h]} ELSE {}
InSeq(s) == {s[j] : j \in 1..Len(s)}
Held(h) == InSeq(handleBuf[h]) \cup HandlerHolds(h)
Pending == InSeq(decoded) \cup ParserHolds \cup UNION {Held(h) : h \in Handlers}

\* The frame given to point_cloud_cb_ and pkt_cb_ holds, slot by slot, the
\* points computed from exactly the packets accepted since the previous frame,
\* in arrival order, and pkt_cb_ gets the same packets (Run lines 198-216).
PublishedComplete ==
  runPc = "publish" =>
    /\ packet_num = packet_index
    /\ points_num = packet_num * PointsPerPacket
    /\ Len(udp_packet_frame) = packet_num
    /\ \A i \in 0..packet_num-1 :
         /\ points[i] = udp_packet_frame[i + 1]
         /\ udp_packet_frame[i + 1] = accepted[base + i + 1]

\* From the moment the counter is found to match until the next frame is
\* started, no worker holds or is about to get an index of the frame: the
\* callbacks and Update() have frame_ to themselves (Run lines 203-249).
FrameOwnership ==
  runPc \in {"reset", "publish", "update", "redecode"} => Pending = {}

\* Run decodes into a slot of the frame that exists and that no worker is
\* still to read, and a worker never reads header fields that Update() has
\* zeroed (Run lines 189-192 and 253, ComputeXYZI).
SlotPrivate ==
  /\ runPc \in {"decode", "redecode"} =>
       packet_num < kMaxPacketNumPerFrame /\ packet_num \notin Pending
  /\ Pending # {} => per_points_num = PointsPerPacket

\* Whatever the sensor sends, Run never writes outside the frame
\* (Run lines 270-276 against the size of LidarDecodedFrame).
DecodeInBounds ==
  runPc \in {"decode", "redecode"} => packet_num < kMaxPacketNumPerFrame

\* No ring or list ever reaches the limit at which its producer would block
\* while its consumer waits for it, or would drop an index the frame waits for
\* (emplace_back after full(), push_back, pop_front of ParserThread).
NoLimitReached ==
  /\ recvPc = "put" => Len(origin) < kPacketBufferSize
  /\ runPc \in {"decode", "redecode"} => Len(decoded) < kPacketBufferSize
  /\ parserPc = "push" => Len(handleBuf[nUDPCount]) < kPacketBufferSize

\* A packet has split the frame and is still to be decoded into the next.
SplitPacket ==
  /\ runPc \in {"wait", "reset", "publish", "update", "redecode"}
  /\ last_packet_is_valid

\* Every packet DecodePacket accepted is in a finished frame, in the current
\* one, or is the splitting packet that is about to open the next.
NoPacketLost ==
  Len(accepted) = base + packet_index +
    (IF SplitPacket THEN 1 ELSE 0)

\* While a HandleThread holds its mutex nobody else changes its list.
HeldListStable ==
  [][\A h \in Handlers :
       handlePc[h] \in {"pop", "compute", "count"} /\ handleBuf'[h] # handleBuf[h]
         => handlePc'[h] # handlePc[h]]_vars

\* No list is popped after it has become empty under its HandleThread.
HeapIntact == ~corrupted

-----------------------------------------------------------------------------
(* The inductive invariant behind the safety properties, for sensors that    *)
(* split every frame before the slots run out.                               *)

NoOverflow == MaxFramePackets < kMaxPacketNumPerFrame

\* Strictly increasing: entries j - i places apart differ by j - i or more.
Ascending(s) == \A i, j \in 1..Len(s) : i <= j => s[i] + (j - i) <= s[j]

\* An index is in one place: indices move in order from Run through the ring
\* and ParserThread's hand to the handle lists, and never to two lists.
RingOrder ==
  /\ Ascending(decoded)
  /\ \A y \in InSeq(decoded) : y < packet_index
  /\ \A x \in ParserHolds : x < packet_index /\ \A y \in InSeq(decoded) : x < y

ListOrder(h) ==
  /\ Ascending(handleBuf[h])
  /\ \A x \in Held(h) :
       /\ x < packet_index
       /\ \A y \in InSeq(decoded) \cup ParserHolds : x < y
  /\ \A x \in HandlerHolds(h) : \A y \in InSeq(handleBuf[h]) : x < y
  /\ handlePc[h] = "pop" =>
       handleBuf[h] # <<>> /\ handleIdx[h] = Head(handleBuf[h])

OneList == \A g, h \in Handlers : g # h => Held(g) \cap Held(h) = {}

Locations == RingOrder /\ (\A h \in Handlers : ListOrder(h)) /\ OneList

\* A mutex is held by the thread that is between lock() and unlock().
Mutexes ==
  /\ parserPc \in {"lock", "push"} => MultiThread
  /\ parserPc = "push" => mutex[nUDPCount] = "parser"
  /\ \A h \in Handlers :
       handlePc[h] \in {"pop", "compute", "count"} => mutex[h] = "handler"

\* compute_packet_num is what is missing from the pending indices.
Counting ==
  /\ IsFiniteSet(Pending)
  /\ runPc \in {"publish", "update"} => compute_packet_num = 0 /\ Pending = {}
  /\ runPc \notin {"publish", "update"} =>
       compute_packet_num + Cardinality(Pending) = packet_index
  /\ runPc = "reset" => compute_packet_num = packet_index
  /\ runPc = "redecode" => packet_index = 0

\* Slot by slot, the frame is what was accepted since the last one.
Frame ==
  /\ runPc \notin {"clear", "clearHandles", "discard"}
  /\ packet_index < kMaxPacketNumPerFrame
  /\ packet_num = packet_index
  /\ packet_index > 0 => per_points_num = PointsPerPacket
  /\ points_num = packet_index * PointsPerPacket
  /\ Len(udp_packet_frame) = packet_index
  /\ Len(accepted) = base + packet_index + (IF SplitPacket THEN 1 ELSE 0)
  /\ SplitPacket => accepted[Len(accepted)] = packet.id
  /\ runPc = "redecode" => last_packet_is_valid
  /\ \A i \in 0..packet_index-1 :
       /\ slot[i] = udp_packet_frame[i + 1]
       /\ slot[i] = accepted[base + i + 1]

\* What is not pending, or is only to be counted, is computed.
Computed ==
  /\ \A i \in 0..packet_index-1 : i \notin Pending => points[i] = slot[i]
  /\ parserPc = "count" => points[parserIdx] = slot[parserIdx]
  /\ \A h \in Handlers :
       handlePc[h] = "count" => points[handleIdx[h]] = slot[handleIdx[h]]

\* The receive thread finds the room it checked for.
Room == /\ Len(origin) <= kPacketBufferSize
        /\ recvPc = "put" => Len(origin) < kPacketBufferSize

IInv == TypeOK /\ Locations /\ Mutexes /\ Counting /\ Frame /\ Computed /\ Room
          /\ HeapIntact

-----------------------------------------------------------------------------
(* Liveness *)

\* A frame Run waits for is completed.
FrameCompletes == runPc = "wait" ~> runPc # "wait"

\* Stop returns.
StopTerminates == stopPc = "joinRun" ~> stopPc = "done"
=============================================================================
