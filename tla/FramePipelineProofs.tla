------------------------ MODULE FramePipelineProofs ------------------------
(***************************************************************************)
(* Proofs about FramePipeline for every size of the frame, the rings and   *)
(* the pool of HandleThreads, and every number of packets.                 *)
(***************************************************************************)
EXTENDS FramePipeline, FiniteSetTheorems, TLAPS

-----------------------------------------------------------------------------
(* Types and bounds, whatever the sensor sends *)

\* Between two packets the next slot is the next index, and it exists.
Bounds ==
  /\ runPc \in {"loop", "decode", "wait", "reset", "publish", "update", "exit"}
       => packet_num = packet_index /\ packet_index < kMaxPacketNumPerFrame
  /\ runPc = "redecode" => packet_num = 0 /\ packet_index = 0
  /\ runPc \in {"clearHandles", "discard"} => packet_index = 0
  /\ parserPc \in {"lock", "push"} => MultiThread

LEMMA NextHandlerType ==
  ASSUME MultiThread, NEW n \in Handlers
  PROVE  NextHandler(n) \in Handlers
<1>1. handle_thread_count_ \in Nat /\ handle_thread_count_ >= 2
  BY PipelineAssumption DEF MultiThread
<1>2. n + 1 \in Nat
  BY <1>1 DEF Handlers
<1>3. PICK m \in Nat : m = n + 1
  BY <1>2
<1>4. m % handle_thread_count_ \in 0..handle_thread_count_-1
  BY <1>1
<1> QED BY <1>3, <1>4 DEF NextHandler, Handlers

LEMMA InitTypes == Init => TypeOK /\ Bounds
<1> SUFFICES ASSUME Init PROVE TypeOK /\ Bounds
  OBVIOUS
<1>1. NoPacket \in Packets
  BY DEF NoPacket, Packets, AllKinds
<1>2. \A S : <<>> \in Seq(S)
  OBVIOUS
<1>3. 0 \in Slots /\ 0 \in 0..kMaxPacketNumPerFrame /\ 0 \in 0..MaxPackets
  BY PipelineAssumption DEF Slots
<1>4. RecvTypeOK /\ RunTypeOK /\ StopTypeOK
  BY <1>1, <1>2, <1>3 DEF Init, RecvTypeOK, RunTypeOK, StopTypeOK
<1>5. FrameTypeOK /\ ParserTypeOK
  BY <1>2, <1>3 DEF Init, FrameTypeOK, ParserTypeOK
<1>6. HandleTypeOK
  BY <1>2, <1>3 DEF Init, HandleTypeOK
<1> QED BY <1>4, <1>5, <1>6, PipelineAssumption DEF Init, Bounds, TypeOK

\* A step of one thread leaves the types of the others' variables alone.
LEMMA FrameOfTypes ==
  ASSUME TypeOK, Bounds
  PROVE  /\ UNCHANGED <<recvVars, origin>> => RecvTypeOK'
         /\ UNCHANGED <<runVars, history>> => RunTypeOK'
         /\ UNCHANGED <<frameVars, points>> => FrameTypeOK'
         /\ UNCHANGED <<decoded, compute_packet_num, parserPc, parserIdx,
                        nUDPCount>> => ParserTypeOK'
         /\ UNCHANGED <<mutex, handleBuf, handlePc, handleIdx>> => HandleTypeOK'
         /\ UNCHANGED <<stopVars, corrupted>> => StopTypeOK'
         /\ UNCHANGED <<runPc, packet_num, packet_index, parserPc>> => Bounds'
<1>1. UNCHANGED <<recvVars, origin>> => RecvTypeOK'
  BY DEF TypeOK, RecvTypeOK, recvVars
<1>2. UNCHANGED <<runVars, history>> => RunTypeOK'
  BY DEF TypeOK, RunTypeOK, runVars, history
<1>3. UNCHANGED <<frameVars, points>> => FrameTypeOK'
  BY DEF TypeOK, FrameTypeOK, frameVars
<1>4. UNCHANGED <<decoded, compute_packet_num, parserPc, parserIdx, nUDPCount>>
        => ParserTypeOK'
  BY DEF TypeOK, ParserTypeOK
<1>5. UNCHANGED <<mutex, handleBuf, handlePc, handleIdx>> => HandleTypeOK'
  BY DEF TypeOK, HandleTypeOK
<1>6. UNCHANGED <<stopVars, corrupted>> => StopTypeOK'
  BY DEF TypeOK, StopTypeOK, stopVars
<1>7. UNCHANGED <<runPc, packet_num, packet_index, parserPc>> => Bounds'
  BY DEF Bounds
<1> QED BY <1>1, <1>2, <1>3, <1>4, <1>5, <1>6, <1>7

LEMMA RecvTypes ==
  ASSUME TypeOK, Bounds,
         (\E kind \in Kinds : RecvReceive(kind)) \/ RecvStep
  PROVE  TypeOK' /\ Bounds'
<1>1. UNCHANGED notRecv
  BY DEF RecvReceive, RecvStep, RecvRoom, RecvPut, RecvExit
<1>2. RecvTypeOK'
  <2> USE DEF TypeOK, RecvTypeOK
  <2>1. ASSUME NEW kind \in Kinds, RecvReceive(kind) PROVE RecvTypeOK'
    BY <2>1, PipelineAssumption DEF RecvReceive, Packets
  <2>2. CASE RecvRoom
    BY <2>2 DEF RecvRoom
  <2>3. CASE RecvPut
    <3>1. Append(origin, recvPacket) \in Seq(Packets)
      OBVIOUS
    <3>2. origin' \in Seq(Packets)
      BY <2>3, <3>1 DEF RecvPut
    <3>3. is_timeout_' \in BOOLEAN
      BY <2>3 DEF RecvPut
    <3>4. recvPc' = "receive" /\ UNCHANGED <<recvPacket, received>>
      BY <2>3 DEF RecvPut
    <3> QED BY <3>2, <3>3, <3>4
  <2>4. CASE RecvExit
    BY <2>4 DEF RecvExit
  <2> QED BY <2>1, <2>2, <2>3, <2>4 DEF RecvStep
<1> QED BY <1>1, <1>2, FrameOfTypes DEF notRecv, runVars, poolVars, frameVars, TypeOK

LEMMA RunTypes ==
  ASSUME TypeOK, Bounds, RunStep
  PROVE  TypeOK' /\ Bounds'
<1>1. UNCHANGED notRun
  BY DEF RunStep, RunGet, RunSkip, RunData, RunSplit, RunTimeoutSplit,
     RunComplete, RunReset, RunPublish, RunUpdate, RunRedecode, RunClear,
     RunClearHandles, RunDiscard, RunExit
<1>2. StopTypeOK'
  BY <1>1, FrameOfTypes DEF notRun
<1>3. UNCHANGED <<recvVars, points, parserPc, parserIdx, nUDPCount, mutex,
                  handlePc, handleIdx>>
  BY <1>1 DEF notRun, poolVars
<1>a. \A i \in 0..kMaxPacketNumPerFrame-1 : i \in Slots
  BY DEF Slots
<1>b. \A e \in Nat : \A s \in Seq(Nat) : Append(s, e) \in Seq(Nat)
  OBVIOUS
<1>c. packet.id \in Nat
  BY DEF TypeOK, RunTypeOK, Packets
<1>d. <<>> \in Seq(Slots) /\ <<>> \in Seq(Nat)
  OBVIOUS
<1>e. UNCHANGED origin => RecvTypeOK'
  BY <1>3, FrameOfTypes
<1>f. UNCHANGED <<decoded, compute_packet_num>> => ParserTypeOK'
  BY <1>3, FrameOfTypes
<1>g. UNCHANGED handleBuf => HandleTypeOK'
  BY <1>3, FrameOfTypes
<1>h. UNCHANGED frameVars => FrameTypeOK'
  BY <1>3, FrameOfTypes
<1> USE PipelineAssumption
<1>10. CASE RunGet
  <2>1. Head(origin) \in Packets /\ Tail(origin) \in Seq(Packets)
    BY <1>10 DEF RunGet, TypeOK, RecvTypeOK
  <2>2. RecvTypeOK' /\ RunTypeOK'
    BY <1>10, <1>3, <2>1 DEF RunGet, TypeOK, RecvTypeOK, RunTypeOK, recvVars, history
  <2>3. FrameTypeOK' /\ ParserTypeOK' /\ HandleTypeOK'
    BY <1>10, <1>f, <1>g, <1>h DEF RunGet
  <2>4. Bounds'
    BY <1>10, <1>3 DEF RunGet, Bounds, frameVars
  <2> QED BY <1>2, <2>2, <2>3, <2>4 DEF TypeOK
<1>11. CASE RunSkip
  <2>1. RunTypeOK' /\ Bounds'
    BY <1>11, <1>3 DEF RunSkip, TypeOK, RunTypeOK, Bounds, frameVars, history
  <2> QED BY <1>2, <1>11, <1>e, <1>f, <1>g, <1>h, <2>1 DEF RunSkip, TypeOK
<1>12. CASE RunComplete
  <2>1. RunTypeOK' /\ Bounds'
    BY <1>12, <1>3 DEF RunComplete, TypeOK, RunTypeOK, Bounds, frameVars, history
  <2> QED BY <1>2, <1>12, <1>e, <1>f, <1>g, <1>h, <2>1 DEF RunComplete, TypeOK
<1>13. CASE RunPublish
  <2>1. RunTypeOK' /\ Bounds'
    BY <1>13, <1>3 DEF RunPublish, TypeOK, RunTypeOK, Bounds, frameVars, history
  <2> QED BY <1>2, <1>13, <1>e, <1>f, <1>g, <1>h, <2>1 DEF RunPublish, TypeOK
<1>14. CASE RunExit
  <2>1. RunTypeOK' /\ Bounds'
    BY <1>14, <1>3 DEF RunExit, TypeOK, RunTypeOK, Bounds, frameVars, history
  <2> QED BY <1>2, <1>14, <1>e, <1>f, <1>g, <1>h, <2>1 DEF RunExit, TypeOK
<1>15. CASE RunReset
  <2>1. RunTypeOK' /\ Bounds'
    BY <1>15, <1>3 DEF RunReset, TypeOK, RunTypeOK, Bounds, frameVars, history
  <2>2. ParserTypeOK'
    BY <1>15, <1>3 DEF RunReset, setComputePacketNumToZero, TypeOK, ParserTypeOK
  <2> QED BY <1>2, <1>15, <1>e, <1>g, <1>h, <2>1, <2>2 DEF RunReset, TypeOK
<1>16. CASE RunData
  <2>1. packet_num \in 0..kMaxPacketNumPerFrame-1 /\ packet_index = packet_num
    BY <1>16 DEF RunData, Bounds, TypeOK, FrameTypeOK
  <2>2. /\ slot' \in [Slots -> Nat]
        /\ packet_num' = packet_num + 1
        /\ per_points_num' = PointsPerPacket
    BY <1>16, <1>c DEF RunData, DecodePacket, TypeOK, FrameTypeOK
  <2>3. /\ udp_packet_frame' \in Seq(Nat)
        /\ accepted' \in Seq(Nat)
    BY <1>16, <1>b, <1>c DEF RunData, Enqueue, TypeOK, RunTypeOK
  <2>4. decoded' \in Seq(Slots)
    BY <1>16, <1>a, <2>1 DEF RunData, Enqueue, TypeOK, ParserTypeOK
  <2>5. points_num' \in Nat /\ packet_index' = packet_index + 1
    BY <1>16, <2>2 DEF RunData, Enqueue, TypeOK, FrameTypeOK
  <2>6. runPc' = IF packet_index + 1 >= kMaxPacketNumPerFrame THEN "clear" ELSE "loop"
    BY <1>16, <2>5 DEF RunData, FrameFull
  <2>7. FrameTypeOK'
    BY <1>3, <2>1, <2>2, <2>5 DEF TypeOK, FrameTypeOK
  <2>8. RunTypeOK'
    BY <1>16, <2>1, <2>3, <2>5, <2>6 DEF RunData, TypeOK, RunTypeOK
  <2>9. ParserTypeOK'
    BY <1>16, <1>3, <2>4 DEF RunData, TypeOK, ParserTypeOK
  <2>10. Bounds'
    BY <1>3, <2>1, <2>2, <2>5, <2>6 DEF Bounds
  <2> QED BY <1>2, <1>16, <1>e, <1>g, <2>7, <2>8, <2>9, <2>10 DEF RunData, TypeOK
<1>17. CASE RunSplit
  <2>1. FrameTypeOK'
    BY <1>17, <1>3, <1>c DEF RunSplit, TypeOK, FrameTypeOK, RunTypeOK
  <2>2. RunTypeOK'
    BY <1>17, <1>b, <1>c DEF RunSplit, TypeOK, RunTypeOK, LastPacketIsValid
  <2>3. Bounds'
    BY <1>17, <1>3 DEF RunSplit, Bounds
  <2> QED BY <1>2, <1>17, <1>e, <1>f, <1>g, <2>1, <2>2, <2>3 DEF RunSplit, TypeOK
<1>18. CASE RunTimeoutSplit
  <2>1. FrameTypeOK'
    BY <1>18, <1>3 DEF RunTimeoutSplit, TypeOK, FrameTypeOK, RunTypeOK
  <2>2. RunTypeOK'
    BY <1>18 DEF RunTimeoutSplit, TypeOK, RunTypeOK, LastPacketIsValid, history
  <2>3. Bounds'
    BY <1>18, <1>3 DEF RunTimeoutSplit, Bounds
  <2> QED BY <1>2, <1>18, <1>e, <1>f, <1>g, <2>1, <2>2, <2>3
          DEF RunTimeoutSplit, TypeOK
<1>19. CASE RunUpdate
  <2>1. FrameTypeOK'
    BY <1>19, <1>3 DEF RunUpdate, Update, TypeOK, FrameTypeOK
  <2>2. RunTypeOK'
    BY <1>19, <1>d DEF RunUpdate, TypeOK, RunTypeOK
  <2>3. Bounds'
    BY <1>19, <1>3 DEF RunUpdate, Update, Bounds
  <2> QED BY <1>2, <1>19, <1>e, <1>f, <1>g, <2>1, <2>2, <2>3 DEF RunUpdate, TypeOK
<1>20. CASE RunRedecode
  <2>1. packet_num = 0 /\ packet_index = 0 /\ 0 \in Slots
    BY <1>20, <1>a DEF RunRedecode, Bounds
  <2>2. /\ slot' \in [Slots -> Nat]
        /\ packet_num' = 1
        /\ per_points_num' = PointsPerPacket
    BY <1>20, <1>c, <2>1 DEF RunRedecode, DecodePacket, TypeOK, FrameTypeOK
  <2>3. /\ udp_packet_frame' \in Seq(Nat)
        /\ packet_index' = 1
    BY <1>20, <1>b, <1>c, <2>1 DEF RunRedecode, Enqueue, TypeOK, RunTypeOK
  <2>4. decoded' \in Seq(Slots)
    BY <1>20, <2>1 DEF RunRedecode, Enqueue, TypeOK, ParserTypeOK
  <2>5. points_num' \in Nat
    BY <1>20, <2>2 DEF RunRedecode, Enqueue, TypeOK, FrameTypeOK
  <2>6. FrameTypeOK'
    BY <1>3, <2>2, <2>5 DEF TypeOK, FrameTypeOK
  <2>7. RunTypeOK'
    BY <1>20, <2>3 DEF RunRedecode, TypeOK, RunTypeOK, history
  <2>8. ParserTypeOK'
    BY <1>20, <1>3, <2>4 DEF RunRedecode, TypeOK, ParserTypeOK
  <2>9. Bounds'
    BY <1>20, <1>3, <2>2, <2>3 DEF RunRedecode, Bounds
  <2> QED BY <1>2, <1>20, <1>e, <1>g, <2>6, <2>7, <2>8, <2>9 DEF RunRedecode, TypeOK
<1>21. CASE RunClear
  <2>1. RunTypeOK' /\ Bounds'
    BY <1>21, <1>3, <1>d DEF RunClear, TypeOK, RunTypeOK, Bounds, frameVars, history
  <2>2. ParserTypeOK'
    BY <1>21, <1>3, <1>d DEF RunClear, EffClearDecoded, TypeOK, ParserTypeOK
  <2> QED BY <1>2, <1>21, <1>e, <1>g, <1>h, <2>1, <2>2 DEF RunClear, TypeOK
<1>22. CASE RunClearHandles
  <2>1. RunTypeOK' /\ Bounds'
    BY <1>22, <1>3 DEF RunClearHandles, TypeOK, RunTypeOK, Bounds, frameVars, history
  <2>2. HandleTypeOK'
    BY <1>22, <1>3, <1>d DEF RunClearHandles, TypeOK, HandleTypeOK
  <2> QED BY <1>2, <1>22, <1>e, <1>f, <1>h, <2>1, <2>2 DEF RunClearHandles, TypeOK
<1>23. CASE RunDiscard
  <2>1. FrameTypeOK'
    BY <1>23, <1>3 DEF RunDiscard, Update, TypeOK, FrameTypeOK
  <2>2. RunTypeOK'
    BY <1>23 DEF RunDiscard, TypeOK, RunTypeOK
  <2>3. Bounds'
    BY <1>23, <1>3 DEF RunDiscard, Update, Bounds
  <2> QED BY <1>2, <1>23, <1>e, <1>f, <1>g, <2>1, <2>2, <2>3 DEF RunDiscard, TypeOK
<1> QED BY <1>10, <1>11, <1>12, <1>13, <1>14, <1>15, <1>16, <1>17, <1>18,
           <1>19, <1>20, <1>21, <1>22, <1>23 DEF RunStep

LEMMA PoolTypes ==
  ASSUME TypeOK, Bounds, ParserStep \/ \E h \in Handlers : HandleStep(h)
  PROVE  TypeOK' /\ Bounds'
<1>1. UNCHANGED notPool
  BY DEF ParserStep, ParserPop, ParserCompute, ParserCount, ParserLock,
     ParserPush, ParserExit, HandleStep, HandleFront, HandlePop, HandleCompute,
     HandleCount, HandleExit
<1>2. RecvTypeOK' /\ RunTypeOK'
  BY <1>1, FrameOfTypes DEF notPool
<1>3. UNCHANGED <<runPc, packet_num, packet_index, frameVars, stopVars>>
  BY <1>1 DEF notPool, runVars, frameVars
<1>a. UNCHANGED points => FrameTypeOK'
  BY <1>3, FrameOfTypes
<1>b. UNCHANGED corrupted => StopTypeOK'
  BY <1>3, FrameOfTypes
<1>c. UNCHANGED parserPc => Bounds'
  BY <1>3, FrameOfTypes
<1>d. UNCHANGED <<mutex, handleBuf, handlePc, handleIdx>> => HandleTypeOK'
  BY FrameOfTypes
<1>e. UNCHANGED <<decoded, compute_packet_num, parserPc, parserIdx, nUDPCount>>
        => ParserTypeOK'
  BY FrameOfTypes
<1>f. ASSUME NEW i \in Slots, ComputeXYZI(i) PROVE FrameTypeOK'
  BY <1>3, <1>f DEF ComputeXYZI, TypeOK, FrameTypeOK, frameVars
<1>10. CASE ParserPop
  <2>1. Head(decoded) \in Slots /\ Tail(decoded) \in Seq(Slots)
    BY <1>10 DEF ParserPop, TypeOK, ParserTypeOK
  <2>2. ParserTypeOK' /\ Bounds'
    BY <1>10, <1>3, <2>1 DEF ParserPop, TypeOK, ParserTypeOK, Bounds
  <2> QED BY <1>2, <1>10, <1>a, <1>b, <1>d, <2>2 DEF ParserPop, TypeOK
<1>11. CASE ParserCompute
  <2>1. ParserTypeOK' /\ Bounds'
    BY <1>11, <1>3 DEF ParserCompute, TypeOK, ParserTypeOK, Bounds
  <2>2. FrameTypeOK'
    BY <1>11, <1>f DEF ParserCompute, TypeOK, ParserTypeOK
  <2> QED BY <1>2, <1>11, <1>b, <1>d, <2>1, <2>2 DEF ParserCompute, TypeOK
<1>12. CASE ParserCount
  <2>1. ParserTypeOK' /\ Bounds'
    BY <1>12, <1>3 DEF ParserCount, FrameNumAdd, TypeOK, ParserTypeOK, Bounds
  <2> QED BY <1>2, <1>12, <1>a, <1>b, <1>d, <2>1 DEF ParserCount, TypeOK
<1>13. CASE ParserLock
  <2>1. ParserTypeOK' /\ Bounds'
    BY <1>13, <1>3 DEF ParserLock, TypeOK, ParserTypeOK, Bounds
  <2>2. HandleTypeOK'
    BY <1>13 DEF ParserLock, Lock, TypeOK, HandleTypeOK
  <2> QED BY <1>2, <1>13, <1>a, <1>b, <2>1, <2>2 DEF ParserLock, TypeOK
<1>14. CASE ParserPush
  <2>1. MultiThread /\ nUDPCount \in Handlers
    BY <1>14, PipelineAssumption
       DEF ParserPush, Bounds, Handlers, MultiThread, TypeOK, ParserTypeOK
  <2>2. nUDPCount' \in Handlers
    BY <1>14, <2>1, NextHandlerType DEF ParserPush
  <2>3. handleBuf[nUDPCount] \in Seq(Slots) /\ parserIdx \in Slots
    BY <2>1 DEF TypeOK, HandleTypeOK, ParserTypeOK
  <2>4. /\ Append(handleBuf[nUDPCount], parserIdx) \in Seq(Slots)
        /\ Tail(Append(handleBuf[nUDPCount], parserIdx)) \in Seq(Slots)
    BY <2>3
  <2>5. HandleTypeOK'
    BY <1>14, <2>4 DEF ParserPush, Unlock, TypeOK, HandleTypeOK
  <2>6. ParserTypeOK' /\ Bounds'
    BY <1>14, <1>3, <2>2 DEF ParserPush, TypeOK, ParserTypeOK, Bounds
  <2> QED BY <1>2, <1>14, <1>a, <1>b, <2>5, <2>6 DEF ParserPush, TypeOK
<1>15. CASE ParserExit
  <2>1. ParserTypeOK' /\ Bounds'
    BY <1>15, <1>3 DEF ParserExit, TypeOK, ParserTypeOK, Bounds
  <2> QED BY <1>2, <1>15, <1>a, <1>b, <1>d, <2>1 DEF ParserExit, TypeOK
<1>16. ASSUME NEW h \in Handlers, HandleStep(h) PROVE TypeOK' /\ Bounds'
  <2>1. CASE HandleFront(h)
    <3>1. Head(handleBuf[h]) \in Slots
      BY <2>1 DEF HandleFront, TypeOK, HandleTypeOK
    <3>2. HandleTypeOK'
      BY <2>1, <3>1 DEF HandleFront, Lock, TypeOK, HandleTypeOK
    <3> QED BY <1>2, <2>1, <1>a, <1>b, <1>c, <1>e, <3>2 DEF HandleFront, TypeOK
  <2>2. CASE HandlePop(h)
    <3>1. handleBuf[h] # <<>> => Tail(handleBuf[h]) \in Seq(Slots)
      BY DEF TypeOK, HandleTypeOK
    <3>2. HandleTypeOK'
      BY <2>2, <3>1 DEF HandlePop, TypeOK, HandleTypeOK
    <3>3. StopTypeOK'
      BY <2>2, <1>3 DEF HandlePop, TypeOK, StopTypeOK, stopVars
    <3> QED BY <1>2, <2>2, <1>a, <1>c, <1>e, <3>2, <3>3 DEF HandlePop, TypeOK
  <2>3. CASE HandleCompute(h)
    <3>1. HandleTypeOK'
      BY <2>3 DEF HandleCompute, TypeOK, HandleTypeOK
    <3>2. FrameTypeOK'
      BY <2>3, <1>f DEF HandleCompute, TypeOK, HandleTypeOK
    <3> QED BY <1>2, <2>3, <1>b, <1>c, <1>e, <3>1, <3>2 DEF HandleCompute, TypeOK
  <2>4. CASE HandleCount(h)
    <3>1. HandleTypeOK'
      BY <2>4 DEF HandleCount, Unlock, TypeOK, HandleTypeOK
    <3>2. ParserTypeOK'
      BY <2>4 DEF HandleCount, FrameNumAdd, TypeOK, ParserTypeOK
    <3> QED BY <1>2, <2>4, <1>a, <1>b, <1>c, <3>1, <3>2 DEF HandleCount, TypeOK
  <2>5. CASE HandleExit(h)
    <3>1. HandleTypeOK'
      BY <2>5 DEF HandleExit, TypeOK, HandleTypeOK
    <3> QED BY <1>2, <2>5, <1>a, <1>b, <1>c, <1>e, <3>1 DEF HandleExit, TypeOK
  <2> QED BY <1>16, <2>1, <2>2, <2>3, <2>4, <2>5 DEF HandleStep
<1> QED BY <1>10, <1>11, <1>12, <1>13, <1>14, <1>15, <1>16 DEF ParserStep

LEMMA StopTypes ==
  ASSUME TypeOK, Bounds, Stop \/ StopStep
  PROVE  TypeOK' /\ Bounds'
<1>1. StopTypeOK'
  BY DEF Stop, StopStep, StopJoinRun, StopJoinLidar, TypeOK, StopTypeOK
<1>2. UNCHANGED <<recvVars, origin, runVars, frameVars, points, decoded,
                  compute_packet_num, poolVars, handleBuf, history>>
  BY DEF Stop, StopStep, StopJoinRun, StopJoinLidar
<1> QED BY <1>1, <1>2, FrameOfTypes DEF TypeOK, runVars, frameVars, poolVars

LEMMA NextTypes ==
  ASSUME TypeOK, Bounds, [Next]_vars
  PROVE  TypeOK' /\ Bounds'
<1>1. CASE UNCHANGED vars
  BY <1>1, FrameOfTypes DEF TypeOK, vars, runVars, frameVars, poolVars
<1> QED BY <1>1, RecvTypes, RunTypes, PoolTypes, StopTypes DEF Next, Stopped

\* Every variable keeps its type, and the indices that travel between Run and
\* the workers stay indices of slots of the frame, whatever the sensor sends.
THEOREM PipelineTypeCorrect == Spec => []TypeOK
<1>1. Init => TypeOK /\ Bounds
  BY InitTypes
<1>2. TypeOK /\ Bounds /\ [Next]_vars => (TypeOK /\ Bounds)'
  BY NextTypes
<1> QED BY <1>1, <1>2, PTL DEF Spec

\* Run never decodes a packet outside LidarDecodedFrame: the check that follows
\* the last slot is made before the next packet is decoded.
THEOREM DecodeStaysInBounds == Spec => []DecodeInBounds
<1>1. Init => TypeOK /\ Bounds
  BY InitTypes
<1>2. TypeOK /\ Bounds /\ [Next]_vars => (TypeOK /\ Bounds)'
  BY NextTypes
<1>3. TypeOK /\ Bounds => DecodeInBounds
  BY PipelineAssumption DEF Bounds, DecodeInBounds
<1> QED BY <1>1, <1>2, <1>3, PTL DEF Spec

-----------------------------------------------------------------------------
(* Sequences of indices *)

LEMMA InSeqAppend ==
  ASSUME NEW s \in Seq(Slots), NEW e \in Slots
  PROVE  /\ InSeq(Append(s, e)) = InSeq(s) \cup {e}
         /\ Append(s, e) \in Seq(Slots)
<1>1. /\ Append(s, e) \in Seq(Slots)
      /\ Len(Append(s, e)) = Len(s) + 1
      /\ \A j \in 1..Len(s) : Append(s, e)[j] = s[j]
      /\ Append(s, e)[Len(s) + 1] = e
  OBVIOUS
<1>2. Len(s) \in Nat
  OBVIOUS
<1> QED BY <1>1, <1>2 DEF InSeq

LEMMA InSeqTail ==
  ASSUME NEW s \in Seq(Slots), s # <<>>
  PROVE  /\ InSeq(s) = {Head(s)} \cup InSeq(Tail(s))
         /\ Head(s) \in Slots /\ Tail(s) \in Seq(Slots)
<1>1. /\ Tail(s) \in Seq(Slots)
      /\ Len(Tail(s)) = Len(s) - 1
      /\ \A j \in 1..Len(s)-1 : Tail(s)[j] = s[j + 1]
      /\ Head(s) = s[1] /\ Head(s) \in Slots
      /\ Len(s) \in Nat /\ Len(s) > 0
  OBVIOUS
<1>2. ASSUME NEW y \in InSeq(s) PROVE y \in {Head(s)} \cup InSeq(Tail(s))
  <2>1. PICK j \in 1..Len(s) : y = s[j]
    BY DEF InSeq
  <2>2. CASE j = 1
    BY <1>1, <2>1, <2>2
  <2>3. CASE j # 1
    <3>1. j - 1 \in 1..Len(Tail(s)) /\ y = Tail(s)[j - 1]
      BY <1>1, <2>1, <2>3
    <3> QED BY <3>1 DEF InSeq
  <2> QED BY <2>2, <2>3
<1>3. ASSUME NEW y \in InSeq(Tail(s)) PROVE y \in InSeq(s)
  <2>1. PICK j \in 1..Len(Tail(s)) : y = Tail(s)[j]
    BY DEF InSeq
  <2>2. j + 1 \in 1..Len(s) /\ y = s[j + 1]
    BY <1>1, <2>1
  <2> QED BY <2>2 DEF InSeq
<1>4. Head(s) \in InSeq(s)
  BY <1>1 DEF InSeq
<1> QED BY <1>1, <1>2, <1>3, <1>4

LEMMA InSeqType ==
  ASSUME NEW s \in Seq(Slots)
  PROVE  InSeq(s) \subseteq Slots /\ (s = <<>> <=> InSeq(s) = {})
<1>1. Len(s) \in Nat /\ (s # <<>> => s[1] \in InSeq(s))
  BY DEF InSeq
<1> QED BY <1>1 DEF InSeq

LEMMA AscendingAppend ==
  ASSUME NEW s \in Seq(Slots), NEW e \in Slots, Ascending(s),
         \A y \in InSeq(s) : y < e
  PROVE  Ascending(Append(s, e))
<1> DEFINE t == Append(s, e)
<1>1. /\ Len(t) = Len(s) + 1
      /\ \A j \in 1..Len(s) : t[j] = s[j]
      /\ t[Len(s) + 1] = e
      /\ Len(s) \in Nat
      /\ \A j \in 1..Len(s) : s[j] \in Nat /\ s[j] < e
      /\ e \in Nat
  BY PipelineAssumption DEF InSeq, Slots
<1>2. ASSUME NEW i \in 1..Len(t), NEW j \in 1..Len(t), i <= j
      PROVE  t[i] + (j - i) <= t[j]
  <2>1. CASE j \in 1..Len(s)
    BY <1>1, <1>2, <2>1 DEF Ascending
  <2>2. CASE j = Len(s) + 1 /\ i \in 1..Len(s)
    <3>1. s[i] + (Len(s) - i) <= s[Len(s)]
      BY <1>1, <2>2 DEF Ascending
    <3>2. s[Len(s)] < e /\ s[Len(s)] \in Nat /\ s[i] \in Nat
      BY <1>1, <2>2
    <3> QED BY <1>1, <2>2, <3>1, <3>2
  <2>3. CASE j = Len(s) + 1 /\ i = j
    BY <1>1, <2>3
  <2> QED BY <1>1, <1>2, <2>1, <2>2, <2>3
<1> QED BY <1>2 DEF Ascending

LEMMA AscendingTail ==
  ASSUME NEW s \in Seq(Slots), s # <<>>, Ascending(s)
  PROVE  Ascending(Tail(s)) /\ \A y \in InSeq(Tail(s)) : Head(s) < y
<1>1. /\ Len(Tail(s)) = Len(s) - 1
      /\ \A j \in 1..Len(s)-1 : Tail(s)[j] = s[j + 1]
      /\ Head(s) = s[1]
      /\ Len(s) \in Nat /\ Len(s) > 0
      /\ \A j \in 1..Len(s) : s[j] \in Nat
  BY PipelineAssumption DEF Slots
<1>2. ASSUME NEW i \in 1..Len(Tail(s)), NEW j \in 1..Len(Tail(s)), i <= j
      PROVE  Tail(s)[i] + (j - i) <= Tail(s)[j]
  <2>1. s[i + 1] + ((j + 1) - (i + 1)) <= s[j + 1]
    BY <1>1, <1>2 DEF Ascending
  <2> QED BY <1>1, <2>1
<1>3. ASSUME NEW j \in 1..Len(Tail(s)) PROVE Head(s) < Tail(s)[j]
  <2>1. s[1] + ((j + 1) - 1) <= s[j + 1]
    BY <1>1 DEF Ascending
  <2> QED BY <1>1, <2>1
<1> QED BY <1>2, <1>3 DEF Ascending, InSeq

\* An ascending sequence of indices below n has at most n entries.
LEMMA AscendingLength ==
  ASSUME NEW s \in Seq(Slots), NEW n \in Nat, Ascending(s),
         \A y \in InSeq(s) : y < n
  PROVE  Len(s) <= n
<1>1. CASE Len(s) = 0
  BY <1>1
<1>2. CASE Len(s) > 0
  <2>1. /\ 1 \in 1..Len(s) /\ Len(s) \in 1..Len(s) /\ Len(s) \in Nat
        /\ s[1] \in Nat /\ s[Len(s)] \in Nat
    BY <1>2, PipelineAssumption DEF Slots
  <2>2. s[1] + (Len(s) - 1) <= s[Len(s)]
    BY <2>1 DEF Ascending
  <2>3. s[Len(s)] < n
    BY <2>1 DEF InSeq
  <2> QED BY <2>1, <2>2, <2>3
<1>3. Len(s) \in Nat
  OBVIOUS
<1> QED BY <1>1, <1>2, <1>3

-----------------------------------------------------------------------------
(* How an index travels *)

LEMMA PendingMembers ==
  /\ \A i : i \in Pending <=> \/ i \in InSeq(decoded) \/ i \in ParserHolds
                              \/ \E h \in Handlers : i \in Held(h)
  /\ \A i : i \in Pending' <=> \/ i \in InSeq(decoded') \/ i \in ParserHolds'
                               \/ \E h \in Handlers : i \in Held(h)'
BY DEF Pending

LEMMA IndexTypes ==
  ASSUME TypeOK
  PROVE  /\ packet_index \in Nat /\ Slots \subseteq Nat
         /\ InSeq(decoded) \subseteq Slots
         /\ ParserHolds \subseteq Slots
         /\ \A h \in Handlers : /\ handleBuf[h] \in Seq(Slots)
                                /\ InSeq(handleBuf[h]) \subseteq Slots
                                /\ HandlerHolds(h) \subseteq Slots
                                /\ Held(h) \subseteq Slots
<1>1. packet_index \in Nat /\ Slots \subseteq Nat
  BY PipelineAssumption DEF TypeOK, RunTypeOK, Slots
<1>2. InSeq(decoded) \subseteq Slots
  BY InSeqType DEF TypeOK, ParserTypeOK
<1>3. ParserHolds \subseteq Slots
  BY DEF TypeOK, ParserTypeOK, ParserHolds
<1>4. ASSUME NEW h \in Handlers
      PROVE  /\ handleBuf[h] \in Seq(Slots)
             /\ InSeq(handleBuf[h]) \subseteq Slots
             /\ HandlerHolds(h) \subseteq Slots
  BY InSeqType DEF TypeOK, HandleTypeOK, HandlerHolds
<1> QED BY <1>1, <1>2, <1>3, <1>4 DEF Held

\* Steps that move no index.
LEMMA SamePlaces ==
  ASSUME Locations,
         UNCHANGED <<decoded, parserIdx, handleBuf, handleIdx, packet_index>>,
         ParserHolds' = ParserHolds,
         \A h \in Handlers : /\ HandlerHolds(h)' = HandlerHolds(h)
                             /\ handlePc'[h] = "pop" => handlePc[h] = "pop"
  PROVE  Locations' /\ Pending' = Pending
<1>1. \A h \in Handlers : Held(h)' = Held(h)
  BY DEF Held
<1>2. RingOrder'
  BY DEF Locations, RingOrder
<1>3. ASSUME NEW h \in Handlers PROVE ListOrder(h)'
  BY <1>1 DEF Locations, ListOrder
<1>4. OneList'
  BY <1>1 DEF Locations, OneList
<1>5. Pending' = Pending
  BY <1>1, PendingMembers
<1> QED BY <1>2, <1>3, <1>4, <1>5 DEF Locations

LEMMA UnmovedPlaces ==
  ASSUME Locations,
         UNCHANGED <<decoded, parserPc, parserIdx, handleBuf, handlePc,
                     handleIdx, packet_index>>
  PROVE  Locations' /\ Pending' = Pending
<1>1. ParserHolds' = ParserHolds
  BY DEF ParserHolds
<1>2. \A h \in Handlers : HandlerHolds(h)' = HandlerHolds(h)
  BY DEF HandlerHolds
<1> QED BY <1>1, <1>2, SamePlaces

\* ComputeXYZI(packet_index): the next index enters the ring.
LEMMA EnqueuePlaces ==
  ASSUME TypeOK, Locations, packet_index \in Slots,
         decoded' = Append(decoded, packet_index),
         packet_index' = packet_index + 1,
         UNCHANGED <<parserPc, parserIdx, handleBuf, handlePc, handleIdx>>
  PROVE  /\ Locations'
         /\ Pending' = Pending \cup {packet_index}
         /\ packet_index \notin Pending
<1>1. InSeq(decoded') = InSeq(decoded) \cup {packet_index}
  BY InSeqAppend DEF TypeOK, ParserTypeOK
<1>2. ParserHolds' = ParserHolds
  BY DEF ParserHolds
<1>3. \A h \in Handlers : HandlerHolds(h)' = HandlerHolds(h) /\ Held(h)' = Held(h)
  BY DEF HandlerHolds, Held
<1>4. Ascending(decoded')
  BY AscendingAppend DEF Locations, RingOrder, TypeOK, ParserTypeOK
<1>5. RingOrder'
  BY <1>1, <1>2, <1>4, IndexTypes DEF Locations, RingOrder
<1>6. ASSUME NEW h \in Handlers PROVE ListOrder(h)'
  BY <1>1, <1>2, <1>3, IndexTypes DEF Locations, ListOrder
<1>7. OneList'
  BY <1>3 DEF Locations, OneList
<1>8. Pending' = Pending \cup {packet_index}
  BY <1>1, <1>2, <1>3, PendingMembers
<1>9. packet_index \notin Pending
  BY PendingMembers, IndexTypes DEF Locations, RingOrder, ListOrder
<1> QED BY <1>5, <1>6, <1>7, <1>8, <1>9 DEF Locations

\* ParserThread takes the first index of the ring.
LEMMA ParserPopPlaces ==
  ASSUME TypeOK, Locations, ParserPop
  PROVE  Locations' /\ Pending' = Pending
<1>0. /\ decoded # <<>> /\ parserIdx' = Head(decoded) /\ decoded' = Tail(decoded)
      /\ parserPc = "pop" /\ parserPc' \in {"lock", "compute"}
      /\ UNCHANGED <<packet_index, handleBuf, handlePc, handleIdx>>
  BY DEF ParserPop, notPool, runVars
<1>1. InSeq(decoded) = {parserIdx'} \cup InSeq(decoded')
  BY <1>0, InSeqTail DEF TypeOK, ParserTypeOK
<1>2. ParserHolds = {} /\ ParserHolds' = {parserIdx'}
  BY <1>0 DEF ParserHolds
<1>3. \A h \in Handlers : HandlerHolds(h)' = HandlerHolds(h) /\ Held(h)' = Held(h)
  BY <1>0 DEF HandlerHolds, Held
<1>4. Ascending(decoded') /\ \A y \in InSeq(decoded') : parserIdx' < y
  BY <1>0, AscendingTail DEF Locations, RingOrder, TypeOK, ParserTypeOK
<1>5. RingOrder'
  BY <1>0, <1>1, <1>2, <1>4 DEF Locations, RingOrder
<1>6. ASSUME NEW h \in Handlers PROVE ListOrder(h)'
  BY <1>0, <1>1, <1>2, <1>3 DEF Locations, ListOrder
<1>7. OneList'
  BY <1>3 DEF Locations, OneList
<1>8. Pending' = Pending
  BY <1>1, <1>2, <1>3, PendingMembers
<1> QED BY <1>5, <1>6, <1>7, <1>8 DEF Locations

\* ParserThread has computed the index in its hand.
LEMMA ParserCountPlaces ==
  ASSUME TypeOK, Locations, ParserCount
  PROVE  Locations' /\ Pending' = Pending \ {parserIdx} /\ parserIdx \in Pending
<1>0. /\ parserPc = "count" /\ parserPc' = "pop"
      /\ UNCHANGED <<decoded, parserIdx, packet_index, handleBuf, handlePc, handleIdx>>
  BY DEF ParserCount, notPool, runVars
<1>1. ParserHolds = {parserIdx} /\ ParserHolds' = {}
  BY <1>0 DEF ParserHolds
<1>2. \A h \in Handlers : HandlerHolds(h)' = HandlerHolds(h) /\ Held(h)' = Held(h)
  BY <1>0 DEF HandlerHolds, Held
<1>3. RingOrder'
  BY <1>0, <1>1 DEF Locations, RingOrder
<1>4. ASSUME NEW h \in Handlers PROVE ListOrder(h)'
  BY <1>0, <1>1, <1>2 DEF Locations, ListOrder
<1>5. OneList'
  BY <1>2 DEF Locations, OneList
<1>6. parserIdx \notin InSeq(decoded) /\ \A h \in Handlers : parserIdx \notin Held(h)
  BY <1>1, IndexTypes DEF Locations, RingOrder, ListOrder
<1>7. Pending' = Pending \ {parserIdx} /\ parserIdx \in Pending
  BY <1>0, <1>1, <1>2, <1>6, PendingMembers
<1> QED BY <1>3, <1>4, <1>5, <1>7 DEF Locations

\* No handle list is ever at its limit: its indices are below packet_index.
LEMMA ListsHaveRoom ==
  ASSUME TypeOK, Locations, packet_index <= kMaxPacketNumPerFrame,
         NEW h \in Handlers
  PROVE  Len(handleBuf[h]) + 1 <= kPacketBufferSize
<1>1. \A y \in InSeq(handleBuf[h]) : y < packet_index
  BY DEF Locations, ListOrder, Held
<1>2. Len(handleBuf[h]) <= packet_index
  BY <1>1, AscendingLength, IndexTypes DEF Locations, ListOrder
<1> QED BY <1>2, IndexTypes, PipelineAssumption

\* ParserThread hands its index to a list.
LEMMA ParserPushPlaces ==
  ASSUME TypeOK, Locations, Mutexes, packet_index <= kMaxPacketNumPerFrame, ParserPush
  PROVE  Locations' /\ Pending' = Pending
<1>00. nUDPCount \in Handlers /\ parserIdx \in Slots
  BY PipelineAssumption
     DEF ParserPush, Mutexes, TypeOK, ParserTypeOK, MultiThread, Handlers
<1>01. PICK n \in Handlers : n = nUDPCount
  BY <1>00
<1>0. n \in Handlers /\ parserIdx \in Slots
  BY <1>00
<1>1. /\ handleBuf[n] \in Seq(Slots)
      /\ Len(Append(handleBuf[n], parserIdx)) <= kPacketBufferSize
  BY <1>0, ListsHaveRoom, IndexTypes
<1>2. /\ parserPc = "push" /\ parserPc' = "pop"
      /\ handleBuf' = [handleBuf EXCEPT ![n] = Append(handleBuf[n], parserIdx)]
      /\ UNCHANGED <<decoded, parserIdx, packet_index, handlePc, handleIdx>>
  <2>1. Len(Append(handleBuf[n], parserIdx)) \in Nat /\ kPacketBufferSize \in Nat
    BY <1>0, <1>1, PipelineAssumption
  <2>2. ~(Len(Append(handleBuf[n], parserIdx)) > kPacketBufferSize)
    BY <1>1, <2>1
  <2> QED BY <1>01, <2>2 DEF ParserPush, notPool, runVars
<1>3. /\ handleBuf'[n] = Append(handleBuf[n], parserIdx)
      /\ \A h \in Handlers : h # n => handleBuf'[h] = handleBuf[h]
  BY <1>0, <1>2 DEF TypeOK, HandleTypeOK
<1>4. ParserHolds = {parserIdx} /\ ParserHolds' = {}
  BY <1>2 DEF ParserHolds
<1>5. InSeq(handleBuf'[n]) = InSeq(handleBuf[n]) \cup {parserIdx}
  BY <1>0, <1>1, <1>3, InSeqAppend
<1>6. \A h \in Handlers : HandlerHolds(h)' = HandlerHolds(h)
  BY <1>2 DEF HandlerHolds
<1>7. /\ Held(n)' = Held(n) \cup {parserIdx}
      /\ \A h \in Handlers : h # n => Held(h)' = Held(h)
  BY <1>3, <1>5, <1>6 DEF Held
<1>8. \A h \in Handlers : \A y \in Held(h) : y < parserIdx
  BY <1>4 DEF Locations, ListOrder
<1>9. RingOrder'
  BY <1>2, <1>4 DEF Locations, RingOrder
<1>10. ASSUME NEW h \in Handlers PROVE ListOrder(h)'
  <2>1. Ascending(handleBuf'[h])
    <3>1. CASE h = n
      <4>1. Ascending(handleBuf[n]) /\ \A y \in InSeq(handleBuf[n]) : y < parserIdx
        BY <1>0, <1>8 DEF Locations, ListOrder, Held
      <4> QED BY <1>0, <1>1, <1>3, <3>1, <4>1, AscendingAppend
    <3>2. CASE h # n
      BY <1>3, <3>2 DEF Locations, ListOrder
    <3> QED BY <3>1, <3>2
  <2>2. parserIdx < packet_index /\ \A y \in InSeq(decoded) : parserIdx < y
    BY <1>4 DEF Locations, RingOrder
  <2>3. \A x \in Held(h)' :
          /\ x < packet_index'
          /\ \A y \in InSeq(decoded') \cup ParserHolds' : x < y
    BY <1>0, <1>2, <1>4, <1>7, <2>2 DEF Locations, ListOrder
  <2>4. \A x \in HandlerHolds(h)' : \A y \in InSeq(handleBuf'[h]) : x < y
    BY <1>0, <1>3, <1>5, <1>6, <1>8 DEF Locations, ListOrder, Held
  <2>5. handlePc'[h] = "pop" =>
          handleBuf'[h] # <<>> /\ handleIdx'[h] = Head(handleBuf'[h])
    <3>1. handlePc'[h] = "pop" => handleBuf[h] # <<>> /\ handleIdx'[h] = Head(handleBuf[h])
      BY <1>2 DEF Locations, ListOrder
    <3>2. handleBuf[n] # <<>> =>
            /\ Append(handleBuf[n], parserIdx) # <<>>
            /\ Head(Append(handleBuf[n], parserIdx)) = Head(handleBuf[n])
      BY <1>0, <1>1
    <3> QED BY <1>3, <3>1, <3>2
  <2> QED BY <2>1, <2>3, <2>4, <2>5 DEF ListOrder
<1>11. OneList'
  <2>1. ASSUME NEW h \in Handlers PROVE parserIdx \notin Held(h)
    BY <1>0, <1>8, IndexTypes
  <2> QED BY <1>0, <1>7, <2>1 DEF Locations, OneList
<1>12. ASSUME NEW i PROVE i \in Pending' <=> i \in Pending
  <2>1. InSeq(decoded') = InSeq(decoded)
    BY <1>2
  <2>2. i \in Pending <=> \/ i \in InSeq(decoded) \/ i = parserIdx
                          \/ \E h \in Handlers : i \in Held(h)
    BY <1>4, PendingMembers
  <2>3. i \in Pending' <=> \/ i \in InSeq(decoded)
                           \/ \E h \in Handlers : i \in Held(h)'
    BY <1>4, <2>1, PendingMembers
  <2>4. (\E h \in Handlers : i \in Held(h)')
          <=> i = parserIdx \/ \E h \in Handlers : i \in Held(h)
    BY <1>0, <1>7
  <2> QED BY <2>2, <2>3, <2>4
<1> QED BY <1>9, <1>10, <1>11, <1>12 DEF Locations

\* HandleThread h reads the first index of its list ...
LEMMA HandleFrontPlaces ==
  ASSUME TypeOK, Locations, NEW h \in Handlers, HandleFront(h)
  PROVE  Locations' /\ Pending' = Pending
<1>0. /\ handlePc[h] = "lock" /\ handleBuf[h] # <<>>
      /\ handlePc' = [handlePc EXCEPT ![h] = "pop"]
      /\ handleIdx' = [handleIdx EXCEPT ![h] = Head(handleBuf[h])]
      /\ UNCHANGED <<decoded, parserPc, parserIdx, packet_index, handleBuf>>
  BY DEF HandleFront, notPool, runVars
<1>1. ParserHolds' = ParserHolds
  BY <1>0 DEF ParserHolds
<1>2. \A g \in Handlers : HandlerHolds(g)' = HandlerHolds(g) /\ Held(g)' = Held(g)
  BY <1>0 DEF HandlerHolds, Held, TypeOK, HandleTypeOK
<1>3. RingOrder'
  BY <1>0, <1>1 DEF Locations, RingOrder
<1>4. ASSUME NEW g \in Handlers PROVE ListOrder(g)'
  <2>1. handlePc'[g] = "pop" =>
          handleBuf'[g] # <<>> /\ handleIdx'[g] = Head(handleBuf'[g])
    BY <1>0 DEF Locations, ListOrder, TypeOK, HandleTypeOK
  <2> QED BY <1>0, <1>1, <1>2, <2>1 DEF Locations, ListOrder
<1>5. OneList'
  BY <1>2 DEF Locations, OneList
<1>6. Pending' = Pending
  BY <1>0, <1>1, <1>2, PendingMembers
<1> QED BY <1>3, <1>4, <1>5, <1>6 DEF Locations

\* ... and takes it out.
LEMMA HandlePopPlaces ==
  ASSUME TypeOK, Locations, NEW h \in Handlers, HandlePop(h)
  PROVE  Locations' /\ Pending' = Pending /\ UNCHANGED corrupted
<1>1. /\ handlePc[h] = "pop"
      /\ handleBuf[h] # <<>> /\ handleIdx[h] = Head(handleBuf[h])
      /\ handleBuf[h] \in Seq(Slots)
      /\ Ascending(handleBuf[h])
  BY IndexTypes DEF HandlePop, Locations, ListOrder
<1>2. /\ handlePc' = [handlePc EXCEPT ![h] = "compute"]
      /\ handleBuf' = [handleBuf EXCEPT ![h] = Tail(handleBuf[h])]
      /\ UNCHANGED <<decoded, parserPc, parserIdx, packet_index, handleIdx, corrupted>>
  BY <1>1 DEF HandlePop, notPool, runVars
<1>3. /\ handleBuf'[h] = Tail(handleBuf[h]) /\ handlePc'[h] = "compute"
      /\ \A g \in Handlers : g # h => handleBuf'[g] = handleBuf[g]
                                      /\ handlePc'[g] = handlePc[g]
  BY <1>2 DEF TypeOK, HandleTypeOK
<1>4. ParserHolds' = ParserHolds
  BY <1>2 DEF ParserHolds
<1>5. /\ InSeq(handleBuf[h]) = {handleIdx[h]} \cup InSeq(handleBuf'[h])
      /\ \A y \in InSeq(handleBuf'[h]) : handleIdx[h] < y
      /\ Ascending(handleBuf'[h])
  BY <1>1, <1>3, InSeqTail, AscendingTail
<1>6. HandlerHolds(h) = {} /\ HandlerHolds(h)' = {handleIdx[h]}
  BY <1>1, <1>2, <1>3 DEF HandlerHolds
<1>7. \A g \in Handlers : g # h => HandlerHolds(g)' = HandlerHolds(g)
  BY <1>2, <1>3 DEF HandlerHolds
<1>8. \A g \in Handlers : Held(g)' = Held(g)
  BY <1>3, <1>5, <1>6, <1>7 DEF Held
<1>9. RingOrder'
  BY <1>2, <1>4 DEF Locations, RingOrder
<1>10. ASSUME NEW g \in Handlers PROVE ListOrder(g)'
  <2>1. CASE g = h
    BY <1>2, <1>3, <1>4, <1>5, <1>6, <1>8, <2>1 DEF Locations, ListOrder
  <2>2. CASE g # h
    BY <1>2, <1>3, <1>4, <1>7, <1>8, <2>2 DEF Locations, ListOrder
  <2> QED BY <2>1, <2>2
<1>11. OneList'
  BY <1>8 DEF Locations, OneList
<1>12. Pending' = Pending
  BY <1>2, <1>4, <1>8, PendingMembers
<1> QED BY <1>2, <1>9, <1>10, <1>11, <1>12 DEF Locations

\* HandleThread h has computed the index in its hand.
LEMMA HandleCountPlaces ==
  ASSUME TypeOK, Locations, NEW h \in Handlers, HandleCount(h)
  PROVE  /\ Locations' /\ Pending' = Pending \ {handleIdx[h]}
         /\ handleIdx[h] \in Pending
<1>0. /\ handlePc[h] = "count"
      /\ handlePc' = [handlePc EXCEPT ![h] = "lock"]
      /\ UNCHANGED <<decoded, parserPc, parserIdx, packet_index, handleBuf, handleIdx>>
  BY DEF HandleCount, notPool, runVars
<1>1. /\ handlePc'[h] = "lock"
      /\ \A g \in Handlers : g # h => handlePc'[g] = handlePc[g]
  BY <1>0 DEF TypeOK, HandleTypeOK
<1>2. ParserHolds' = ParserHolds
  BY <1>0 DEF ParserHolds
<1>3. HandlerHolds(h) = {handleIdx[h]} /\ HandlerHolds(h)' = {}
  BY <1>0, <1>1 DEF HandlerHolds
<1>4. \A g \in Handlers : g # h => HandlerHolds(g)' = HandlerHolds(g)
  BY <1>0, <1>1 DEF HandlerHolds
<1>5. handleIdx[h] \in Held(h) /\ handleIdx[h] \notin InSeq(handleBuf[h])
  <2>1. handleIdx[h] \in Nat
    BY <1>3, IndexTypes
  <2>2. \A y \in InSeq(handleBuf[h]) : handleIdx[h] < y
    BY <1>3 DEF Locations, ListOrder
  <2>3. handleIdx[h] \in Held(h)
    BY <1>3 DEF Held
  <2> QED BY <2>1, <2>2, <2>3
<1>6. /\ Held(h)' = Held(h) \ {handleIdx[h]}
      /\ \A g \in Handlers : g # h => Held(g)' = Held(g)
  BY <1>0, <1>3, <1>4, <1>5 DEF Held
<1>7. RingOrder'
  BY <1>0, <1>2 DEF Locations, RingOrder
<1>8. ASSUME NEW g \in Handlers PROVE ListOrder(g)'
  BY <1>0, <1>1, <1>2, <1>3, <1>4, <1>6 DEF Locations, ListOrder
<1>9. OneList'
  BY <1>6 DEF Locations, OneList
<1>10. /\ handleIdx[h] \notin InSeq(decoded) /\ handleIdx[h] \notin ParserHolds
       /\ \A g \in Handlers : g # h => handleIdx[h] \notin Held(g)
  BY <1>5, IndexTypes DEF Locations, ListOrder, OneList
<1>11. Pending' = Pending \ {handleIdx[h]} /\ handleIdx[h] \in Pending
  BY <1>0, <1>2, <1>5, <1>6, <1>10, PendingMembers
<1> QED BY <1>7, <1>8, <1>9, <1>11 DEF Locations

\* The steps of the workers that move nothing.
LEMMA WorkerPlaces ==
  ASSUME TypeOK, Locations,
         \/ ParserCompute \/ ParserLock \/ ParserExit
         \/ \E h \in Handlers : HandleCompute(h) \/ HandleExit(h)
  PROVE  Locations' /\ Pending' = Pending
<1>1. UNCHANGED <<decoded, parserIdx, handleBuf, handleIdx, packet_index>>
  BY DEF ParserCompute, ParserLock, ParserExit, HandleCompute, HandleExit,
     notPool, runVars
<1>2. CASE ParserCompute \/ ParserLock \/ ParserExit
  <2>1. UNCHANGED handlePc
    BY <1>2 DEF ParserCompute, ParserLock, ParserExit
  <2>2. ParserHolds' = ParserHolds
    BY <1>2 DEF ParserCompute, ParserLock, ParserExit, ParserHolds
  <2>3. \A h \in Handlers : HandlerHolds(h)' = HandlerHolds(h)
    BY <1>1, <2>1 DEF HandlerHolds
  <2> QED BY <1>1, <2>1, <2>2, <2>3, SamePlaces
<1>3. CASE \E h \in Handlers : HandleCompute(h) \/ HandleExit(h)
  <2>1. UNCHANGED parserPc
    BY <1>3 DEF HandleCompute, HandleExit
  <2>2. ParserHolds' = ParserHolds
    BY <1>1, <2>1 DEF ParserHolds
  <2>3. \A h \in Handlers : /\ HandlerHolds(h)' = HandlerHolds(h)
                            /\ handlePc'[h] = "pop" => handlePc[h] = "pop"
    BY <1>1, <1>3 DEF HandleCompute, HandleExit, HandlerHolds, TypeOK, HandleTypeOK
  <2> QED BY <1>1, <2>2, <2>3, SamePlaces
<1> QED BY <1>2, <1>3

-----------------------------------------------------------------------------
(* The invariant, for sensors that split every frame in time *)

SInv == Locations /\ Mutexes /\ Counting /\ Frame /\ Computed /\ Room /\ HeapIntact

\* What a step leaves alone stays true.
LEMMA PartsUnchanged ==
  ASSUME SInv
  PROVE  /\ UNCHANGED <<recvPc, origin>> => Room'
         /\ UNCHANGED <<runVars, frameVars, history>> => Frame'
         /\ UNCHANGED <<parserPc, nUDPCount, mutex, handlePc>> => Mutexes'
         /\ UNCHANGED corrupted => HeapIntact'
         /\ Pending' = Pending /\ UNCHANGED <<runPc, packet_index, compute_packet_num>>
              => Counting'
         /\ Pending' = Pending /\ UNCHANGED <<packet_index, points, slot, parserPc,
                                             parserIdx, handlePc, handleIdx>>
              => Computed'
<1>1. UNCHANGED <<recvPc, origin>> => Room'
  BY DEF SInv, Room
<1>2. UNCHANGED <<runVars, frameVars, history>> => Frame'
  BY DEF SInv, Frame, SplitPacket, runVars, frameVars, history
<1>3. UNCHANGED <<parserPc, nUDPCount, mutex, handlePc>> => Mutexes'
  BY DEF SInv, Mutexes
<1>4. UNCHANGED corrupted => HeapIntact'
  BY DEF SInv, HeapIntact
<1>5. Pending' = Pending /\ UNCHANGED <<runPc, packet_index, compute_packet_num>>
        => Counting'
  BY DEF SInv, Counting
<1>6. Pending' = Pending /\ UNCHANGED <<packet_index, points, slot, parserPc,
                                       parserIdx, handlePc, handleIdx>>
        => Computed'
  BY DEF SInv, Computed
<1> QED BY <1>1, <1>2, <1>3, <1>4, <1>5, <1>6

LEMMA RecvInv ==
  ASSUME TypeOK, SInv, (\E kind \in Kinds : RecvReceive(kind)) \/ RecvStep
  PROVE  SInv'
<1>1. UNCHANGED notRecv
  BY DEF RecvReceive, RecvStep, RecvRoom, RecvPut, RecvExit
<1>2. Locations' /\ Pending' = Pending
  BY <1>1, UnmovedPlaces DEF SInv, notRecv, runVars, poolVars
<1>3. Room'
  <2>1. Len(origin) \in Nat /\ kPacketBufferSize \in Nat
    BY PipelineAssumption DEF TypeOK, RecvTypeOK
  <2>2. CASE (\E kind \in Kinds : RecvReceive(kind)) \/ RecvExit
    BY <2>2 DEF RecvReceive, RecvExit, SInv, Room
  <2>3. CASE RecvRoom
    BY <2>1, <2>3 DEF RecvRoom, OriginFull, SInv, Room
  <2>4. CASE RecvPut
    <3>1. Len(Append(origin, recvPacket)) = Len(origin) + 1
      BY DEF TypeOK, RecvTypeOK
    <3>2. recvPc' = "receive" /\ Len(origin') <= kPacketBufferSize
      BY <2>1, <2>4, <3>1 DEF RecvPut, SInv, Room
    <3> QED BY <3>2 DEF Room
  <2> QED BY <2>2, <2>3, <2>4 DEF RecvStep
<1>4. Frame' /\ Mutexes' /\ HeapIntact' /\ Counting' /\ Computed'
  BY <1>1, <1>2, PartsUnchanged DEF notRecv, runVars, poolVars, frameVars
<1> QED BY <1>2, <1>3, <1>4 DEF SInv

LEMMA StopInv ==
  ASSUME SInv, Stop \/ StopStep
  PROVE  SInv'
<1>1. UNCHANGED <<recvVars, origin, runVars, frameVars, points, decoded,
                  compute_packet_num, poolVars, handleBuf, corrupted, history>>
  BY DEF Stop, StopStep, StopJoinRun, StopJoinLidar
<1>2. Locations' /\ Pending' = Pending
  BY <1>1, UnmovedPlaces DEF SInv, runVars, poolVars
<1>3. Frame' /\ Mutexes' /\ HeapIntact' /\ Counting' /\ Computed' /\ Room'
  BY <1>1, <1>2, PartsUnchanged DEF recvVars, runVars, poolVars, frameVars
<1> QED BY <1>2, <1>3 DEF SInv

-----------------------------------------------------------------------------
(* Steps of the workers *)

\* A worker that finishes an index moves it from pending to counted.
LEMMA CountOne ==
  ASSUME TypeOK, SInv, NEW i \in Pending,
         Pending' = Pending \ {i},
         FrameNumAdd,
         UNCHANGED <<runPc, packet_index>>
  PROVE  Counting'
<1>1. IsFiniteSet(Pending) /\ Cardinality(Pending) \in Nat
  BY FS_CardinalityType DEF SInv, Counting
<1>2. IsFiniteSet(Pending') /\ Cardinality(Pending') = Cardinality(Pending) - 1
  BY <1>1, FS_RemoveElement
<1>3. Cardinality(Pending) # 0
  BY <1>1, FS_EmptySet
<1>4. compute_packet_num \in Nat /\ packet_index \in Nat
  BY IndexTypes DEF TypeOK, ParserTypeOK
<1>5. runPc \notin {"publish", "update"}
  BY DEF SInv, Counting
<1>6. compute_packet_num + Cardinality(Pending) = packet_index
  BY <1>5 DEF SInv, Counting
<1>7. runPc # "reset" /\ runPc # "redecode"
  BY <1>1, <1>3, <1>4, <1>6 DEF SInv, Counting
<1>8. compute_packet_num' + Cardinality(Pending') = packet_index'
  BY <1>1, <1>2, <1>4, <1>6 DEF FrameNumAdd
<1> QED BY <1>2, <1>5, <1>7, <1>8 DEF Counting

\* Computing a pending index turns its slot into points.
LEMMA ComputeOne ==
  ASSUME TypeOK, SInv, NEW i \in Pending, i \in Slots, i < packet_index,
         ComputeXYZI(i), UNCHANGED slot
  PROVE  /\ points'[i] = slot'[i]
         /\ \A k \in Slots : points'[k] = points[k] \/ points'[k] = slot'[k]
         /\ \A k \in Slots : points[k] = slot[k] => points'[k] = slot'[k]
<1>1. per_points_num = PointsPerPacket /\ per_points_num # 0
  BY IndexTypes, PipelineAssumption DEF SInv, Frame
<1>2. points' = [points EXCEPT ![i] = slot[i]]
  BY <1>1 DEF ComputeXYZI
<1> QED BY <1>2 DEF TypeOK, FrameTypeOK

LEMMA ParserInv ==
  ASSUME TypeOK, SInv, ParserStep
  PROVE  SInv'
<1>1. UNCHANGED notPool
  BY DEF ParserStep, ParserPop, ParserCompute, ParserCount, ParserLock,
     ParserPush, ParserExit
<1>2. /\ UNCHANGED <<runPc, packet_index, slot, corrupted, handlePc, handleIdx>>
      /\ Room' /\ Frame' /\ HeapIntact'
  <2>1. UNCHANGED <<corrupted, handlePc, handleIdx>>
    BY DEF ParserStep, ParserPop, ParserCompute, ParserCount, ParserLock,
       ParserPush, ParserExit
  <2> QED BY <1>1, <2>1, PartsUnchanged DEF notPool, recvVars, runVars, frameVars
<1>3. packet_index <= kMaxPacketNumPerFrame
  BY IndexTypes, PipelineAssumption DEF SInv, Frame
<1>4. CASE ParserPop
  <2>1. Locations' /\ Pending' = Pending
    BY <1>4, ParserPopPlaces DEF SInv
  <2>2. Mutexes'
    BY <1>4 DEF ParserPop, SInv, Mutexes
  <2>3. Counting'
    BY <1>2, <1>4, <2>1, PartsUnchanged DEF ParserPop
  <2>4. Computed'
    BY <1>2, <1>4, <2>1 DEF ParserPop, SInv, Computed
  <2> QED BY <1>2, <2>1, <2>2, <2>3, <2>4 DEF SInv
<1>5. CASE ParserCompute
  <2>1. Locations' /\ Pending' = Pending
    BY <1>5, WorkerPlaces DEF SInv
  <2>2. Mutexes'
    BY <1>5 DEF ParserCompute, SInv, Mutexes
  <2>3. Counting'
    BY <1>2, <1>5, <2>1, PartsUnchanged DEF ParserCompute
  <2>4. parserIdx \in ParserHolds
    BY <1>5 DEF ParserCompute, ParserHolds
  <2>5. parserIdx \in Pending /\ parserIdx \in Slots /\ parserIdx < packet_index
    BY <2>4, PendingMembers, IndexTypes DEF SInv, Locations, RingOrder
  <2>6. /\ points'[parserIdx] = slot'[parserIdx]
        /\ \A k \in Slots : points[k] = slot[k] => points'[k] = slot'[k]
    BY <1>2, <1>5, <2>5, ComputeOne DEF ParserCompute
  <2>7. Computed'
    <3>1. \A k \in 0..packet_index-1 : k \in Slots
      BY <1>3, IndexTypes, PipelineAssumption DEF Slots
    <3>2. \A h \in Handlers : handleIdx[h] \in Slots
      BY DEF TypeOK, HandleTypeOK
    <3>3. parserIdx' = parserIdx
      BY <1>5 DEF ParserCompute
    <3> QED BY <1>2, <2>1, <2>6, <3>1, <3>2, <3>3 DEF SInv, Computed
  <2> QED BY <1>2, <2>1, <2>2, <2>3, <2>7 DEF SInv
<1>6. CASE ParserCount
  <2>1. Locations' /\ Pending' = Pending \ {parserIdx} /\ parserIdx \in Pending
    BY <1>6, ParserCountPlaces DEF SInv
  <2>2. Mutexes'
    BY <1>6 DEF ParserCount, SInv, Mutexes
  <2>3. Counting'
    BY <1>2, <1>6, <2>1, CountOne DEF ParserCount
  <2>4. Computed'
    BY <1>2, <1>6, <2>1 DEF ParserCount, SInv, Computed
  <2> QED BY <1>2, <2>1, <2>2, <2>3, <2>4 DEF SInv
<1>7. CASE ParserLock
  <2>1. Locations' /\ Pending' = Pending
    BY <1>7, WorkerPlaces DEF SInv
  <2>2. Mutexes'
    <3>1. nUDPCount \in Handlers
      BY <1>7, PipelineAssumption
         DEF ParserLock, SInv, Mutexes, TypeOK, ParserTypeOK, MultiThread, Handlers
    <3> QED BY <1>2, <1>7, <3>1
            DEF ParserLock, Lock, SInv, Mutexes, TypeOK, HandleTypeOK
  <2>3. Counting'
    BY <1>2, <1>7, <2>1, PartsUnchanged DEF ParserLock
  <2>4. Computed'
    BY <1>2, <1>7, <2>1 DEF ParserLock, SInv, Computed
  <2> QED BY <1>2, <2>1, <2>2, <2>3, <2>4 DEF SInv
<1>8. CASE ParserPush
  <2>1. Locations' /\ Pending' = Pending
    BY <1>3, <1>8, ParserPushPlaces DEF SInv
  <2>2. Mutexes'
    <3>1. parserPc = "push" /\ parserPc' = "pop"
      BY <1>8 DEF ParserPush
    <3>2. mutex[nUDPCount] = "parser"
      BY <3>1 DEF SInv, Mutexes
    <3>3. mutex' = [mutex EXCEPT ![nUDPCount] = "free"]
      BY <1>8 DEF ParserPush, Unlock
    <3>4. ASSUME NEW h \in Handlers, handlePc'[h] \in {"pop", "compute", "count"}
          PROVE  mutex'[h] = "handler"
      <4>1. mutex[h] = "handler"
        BY <1>2, <3>4 DEF SInv, Mutexes
      <4>2. h # nUDPCount
        BY <3>2, <4>1
      <4> QED BY <3>3, <4>1, <4>2 DEF TypeOK, HandleTypeOK
    <3> QED BY <3>1, <3>4 DEF Mutexes
  <2>3. Counting'
    BY <1>2, <1>8, <2>1, PartsUnchanged DEF ParserPush
  <2>4. Computed'
    BY <1>2, <1>8, <2>1 DEF ParserPush, SInv, Computed
  <2> QED BY <1>2, <2>1, <2>2, <2>3, <2>4 DEF SInv
<1>9. CASE ParserExit
  <2>1. Locations' /\ Pending' = Pending
    BY <1>9, WorkerPlaces DEF SInv
  <2>2. Mutexes'
    BY <1>9 DEF ParserExit, SInv, Mutexes
  <2>3. Counting'
    BY <1>2, <1>9, <2>1, PartsUnchanged DEF ParserExit
  <2>4. Computed'
    BY <1>2, <1>9, <2>1 DEF ParserExit, SInv, Computed
  <2> QED BY <1>2, <2>1, <2>2, <2>3, <2>4 DEF SInv
<1> QED BY <1>4, <1>5, <1>6, <1>7, <1>8, <1>9 DEF ParserStep

LEMMA HandleInv ==
  ASSUME TypeOK, SInv, NEW h \in Handlers, HandleStep(h)
  PROVE  SInv'
<1>1. UNCHANGED notPool
  BY DEF HandleStep, HandleFront, HandlePop, HandleCompute, HandleCount, HandleExit
<1>2. /\ UNCHANGED <<runPc, packet_index, slot, parserPc, parserIdx, nUDPCount>>
      /\ Room' /\ Frame'
  <2>1. UNCHANGED <<parserPc, parserIdx, nUDPCount>>
    BY DEF HandleStep, HandleFront, HandlePop, HandleCompute, HandleCount, HandleExit
  <2> QED BY <1>1, <2>1, PartsUnchanged DEF notPool, recvVars, runVars, frameVars
<1>3. packet_index <= kMaxPacketNumPerFrame
  BY IndexTypes, PipelineAssumption DEF SInv, Frame
<1>4. HeapIntact'
  <2>1. UNCHANGED corrupted
    BY HandlePopPlaces
       DEF HandleStep, HandleFront, HandleCompute, HandleCount, HandleExit, SInv
  <2> QED BY <2>1, PartsUnchanged
<1>5. ASSUME NEW pc, pc \in {"pop", "compute", "count"} => mutex'[h] = "handler",
             handlePc' = [handlePc EXCEPT ![h] = pc],
             \A g \in Handlers : g # h => mutex'[g] = mutex[g],
             parserPc = "push" /\ nUDPCount = h => mutex'[h] = "parser"
      PROVE  Mutexes'
  <2>1. parserPc = "push" => nUDPCount \in Handlers
    BY PipelineAssumption
       DEF SInv, Mutexes, TypeOK, ParserTypeOK, MultiThread, Handlers
  <2> QED BY <1>2, <1>5, <2>1 DEF SInv, Mutexes, TypeOK, HandleTypeOK
<1>6. parserPc = "push" /\ nUDPCount = h => mutex[h] = "parser"
  BY DEF SInv, Mutexes
<1>7. handlePc[h] \in {"pop", "compute", "count"} => mutex[h] = "handler"
  BY DEF SInv, Mutexes
<1>8. CASE HandleFront(h)
  <2>1. Locations' /\ Pending' = Pending
    BY <1>8, HandleFrontPlaces DEF SInv
  <2>2. Mutexes'
    <3>1. /\ mutex[h] = "free" /\ mutex'[h] = "handler"
          /\ handlePc' = [handlePc EXCEPT ![h] = "pop"]
          /\ \A g \in Handlers : g # h => mutex'[g] = mutex[g]
      BY <1>8 DEF HandleFront, Lock, TypeOK, HandleTypeOK
    <3> QED BY <1>5, <1>6, <3>1
  <2>3. Counting'
    BY <1>2, <1>8, <2>1, PartsUnchanged DEF HandleFront
  <2>4. Computed'
    BY <1>2, <1>8, <2>1 DEF HandleFront, SInv, Computed, TypeOK, HandleTypeOK
  <2> QED BY <1>2, <1>4, <2>1, <2>2, <2>3, <2>4 DEF SInv
<1>9. CASE HandlePop(h)
  <2>1. Locations' /\ Pending' = Pending
    BY <1>9, HandlePopPlaces DEF SInv
  <2>2. Mutexes'
    <3>1. /\ handlePc[h] = "pop" /\ UNCHANGED mutex
          /\ handlePc' = [handlePc EXCEPT ![h] = "compute"]
      BY <1>9 DEF HandlePop
    <3> QED BY <1>5, <1>6, <1>7, <3>1
  <2>3. Counting'
    BY <1>2, <1>9, <2>1, PartsUnchanged DEF HandlePop
  <2>4. Computed'
    BY <1>2, <1>9, <2>1 DEF HandlePop, SInv, Computed, TypeOK, HandleTypeOK
  <2> QED BY <1>2, <1>4, <2>1, <2>2, <2>3, <2>4 DEF SInv
<1>10. CASE HandleCompute(h)
  <2>1. Locations' /\ Pending' = Pending
    BY <1>10, WorkerPlaces DEF SInv
  <2>2. Mutexes'
    <3>1. /\ handlePc[h] = "compute" /\ UNCHANGED mutex
          /\ handlePc' = [handlePc EXCEPT ![h] = "count"]
      BY <1>10 DEF HandleCompute
    <3> QED BY <1>5, <1>6, <1>7, <3>1
  <2>3. Counting'
    BY <1>2, <1>10, <2>1, PartsUnchanged DEF HandleCompute
  <2>4. handleIdx[h] \in Held(h)
    BY <1>10 DEF HandleCompute, HandlerHolds, Held
  <2>5. /\ handleIdx[h] \in Pending /\ handleIdx[h] \in Slots
        /\ handleIdx[h] < packet_index
    BY <2>4, PendingMembers, IndexTypes DEF SInv, Locations, ListOrder
  <2>6. /\ points'[handleIdx[h]] = slot'[handleIdx[h]]
        /\ \A k \in Slots : points[k] = slot[k] => points'[k] = slot'[k]
    BY <1>2, <1>10, <2>5, ComputeOne DEF HandleCompute
  <2>7. Computed'
    <3>1. \A k \in 0..packet_index-1 : k \in Slots
      BY <1>3, IndexTypes, PipelineAssumption DEF Slots
    <3>2. parserIdx \in Slots /\ \A g \in Handlers : handleIdx[g] \in Slots
      BY DEF TypeOK, HandleTypeOK, ParserTypeOK
    <3>3. /\ handleIdx' = handleIdx
          /\ \A g \in Handlers : g # h => handlePc'[g] = handlePc[g]
      BY <1>10 DEF HandleCompute, TypeOK, HandleTypeOK
    <3> QED BY <1>2, <2>1, <2>6, <3>1, <3>2, <3>3 DEF SInv, Computed
  <2> QED BY <1>2, <1>4, <2>1, <2>2, <2>3, <2>7 DEF SInv
<1>11. CASE HandleCount(h)
  <2>1. /\ Locations' /\ Pending' = Pending \ {handleIdx[h]}
        /\ handleIdx[h] \in Pending
    BY <1>11, HandleCountPlaces DEF SInv
  <2>2. Mutexes'
    <3>1. /\ handlePc[h] = "count" /\ mutex'[h] = "free"
          /\ handlePc' = [handlePc EXCEPT ![h] = "lock"]
          /\ \A g \in Handlers : g # h => mutex'[g] = mutex[g]
      BY <1>11 DEF HandleCount, Unlock, TypeOK, HandleTypeOK
    <3> QED BY <1>5, <1>6, <1>7, <3>1
  <2>3. Counting'
    BY <1>2, <1>11, <2>1, CountOne DEF HandleCount
  <2>4. Computed'
    BY <1>2, <1>11, <2>1 DEF HandleCount, SInv, Computed, TypeOK, HandleTypeOK
  <2> QED BY <1>2, <1>4, <2>1, <2>2, <2>3, <2>4 DEF SInv
<1>12. CASE HandleExit(h)
  <2>1. Locations' /\ Pending' = Pending
    BY <1>12, WorkerPlaces DEF SInv
  <2>2. Mutexes'
    BY <1>2, <1>12 DEF HandleExit, SInv, Mutexes, TypeOK, HandleTypeOK
  <2>3. Counting'
    BY <1>2, <1>12, <2>1, PartsUnchanged DEF HandleExit
  <2>4. Computed'
    BY <1>2, <1>12, <2>1 DEF HandleExit, SInv, Computed, TypeOK, HandleTypeOK
  <2> QED BY <1>2, <1>4, <2>1, <2>2, <2>3, <2>4 DEF SInv
<1> QED BY <1>8, <1>9, <1>10, <1>11, <1>12 DEF HandleStep

-----------------------------------------------------------------------------
(* Steps of Run *)

\* While Run merely walks on, nothing but its own control point changes.
LEMMA RunQuiet ==
  ASSUME TypeOK, SInv, UNCHANGED notRun,
         UNCHANGED <<frameVars, history, packet_index, last_packet_is_valid,
                     udp_packet_frame, decoded, compute_packet_num, handleBuf>>,
         Room', (SplitPacket' <=> SplitPacket), SplitPacket => UNCHANGED packet,
         runPc' \in {"loop", "decode", "reset", "update", "exit"},
         runPc \notin {"reset", "publish"} \/ runPc' = "update",
         runPc \in {"publish", "update"} <=> runPc' = "update",
         runPc' = "reset" => ComputeXYZIComplete
  PROVE  SInv'
<1>1. UNCHANGED <<points, parserPc, parserIdx, nUDPCount, mutex, handlePc,
                  handleIdx, corrupted, slot>>
  BY DEF notRun, poolVars, frameVars
<1>2. Locations' /\ Pending' = Pending
  BY <1>1, UnmovedPlaces DEF SInv
<1>3. Mutexes' /\ HeapIntact' /\ Computed'
  BY <1>1, <1>2, PartsUnchanged
<1>4. Counting'
  BY <1>2 DEF SInv, Counting, ComputeXYZIComplete
<1>5. Frame'
  BY DEF SInv, Frame, frameVars, history
<1> QED BY <1>2, <1>3, <1>4, <1>5 DEF SInv

\* The common part of RunData and RunRedecode: one more packet in the frame.
LEMMA EnqueueInv ==
  ASSUME TypeOK, SInv, UNCHANGED notRun,
         packet_index + 1 < kMaxPacketNumPerFrame,
         runPc \notin {"publish", "update"}, runPc' = "loop",
         DecodePacket(packet_num),
         Enqueue(packet_index, points_num, udp_packet_frame),
         Len(accepted') = base + packet_index + 1,
         accepted'[base + packet_index + 1] = packet.id,
         \A i \in 0..packet_index-1 : accepted'[base + i + 1] = accepted[base + i + 1],
         UNCHANGED <<origin, compute_packet_num, handleBuf, base>>
  PROVE  SInv'
<1>1. UNCHANGED <<recvPc, points, parserPc, parserIdx, nUDPCount, mutex,
                  handlePc, handleIdx, corrupted>>
  BY DEF notRun, poolVars, recvVars
<1>2. /\ packet_index \in Slots /\ packet_index \in Nat
      /\ packet_num = packet_index
      /\ packet_index' = packet_index + 1
  <2>1. packet_index \in Nat /\ kMaxPacketNumPerFrame \in Nat
    BY IndexTypes, PipelineAssumption
  <2>2. packet_index \in Slots
    BY <2>1 DEF Slots
  <2>3. packet_num = packet_index
    BY DEF SInv, Frame
  <2>4. packet_index' = packet_index + 1
    BY DEF Enqueue
  <2> QED BY <2>1, <2>2, <2>3, <2>4
<1>3. /\ Locations'
      /\ Pending' = Pending \cup {packet_index}
      /\ packet_index \notin Pending
  BY <1>1, <1>2, EnqueuePlaces DEF SInv, Enqueue
<1>4. Mutexes' /\ HeapIntact' /\ Room'
  BY <1>1, PartsUnchanged
<1>5. Counting'
  <2>1. IsFiniteSet(Pending) /\ Cardinality(Pending) \in Nat
    BY FS_CardinalityType DEF SInv, Counting
  <2>2. IsFiniteSet(Pending') /\ Cardinality(Pending') = Cardinality(Pending) + 1
    BY <1>3, <2>1, FS_AddElement
  <2>3. compute_packet_num + Cardinality(Pending) = packet_index
    BY DEF SInv, Counting
  <2>4. compute_packet_num \in Nat
    BY DEF TypeOK, ParserTypeOK
  <2>5. compute_packet_num' + Cardinality(Pending') = packet_index'
    BY <1>2, <2>1, <2>2, <2>3, <2>4
  <2> QED BY <2>2, <2>5 DEF Counting
<1>6. /\ slot'[packet_index] = packet.id
      /\ \A i \in Slots : i # packet_index => slot'[i] = slot[i]
      /\ packet_num' = packet_index + 1
      /\ per_points_num' = PointsPerPacket
  BY <1>2 DEF DecodePacket, TypeOK, FrameTypeOK
<1>7. \A i \in 0..packet_index-1 : i \in Slots /\ i # packet_index
  BY <1>2, PipelineAssumption DEF SInv, Frame, Slots
<1>8. Computed'
  <2>1. ASSUME NEW i \in 0..packet_index'-1, i \notin Pending'
        PROVE  points'[i] = slot'[i]
    <3>1. i \in 0..packet_index-1 /\ i \notin Pending
      BY <1>2, <1>3, <2>1
    <3> QED BY <1>1, <1>6, <1>7, <3>1 DEF SInv, Computed
  <2>2. parserPc = "count" => parserIdx \in Slots /\ parserIdx # packet_index
    <3>1. parserPc = "count" => parserIdx \in Pending
      BY PendingMembers DEF ParserHolds
    <3> QED BY <1>3, <3>1 DEF TypeOK, ParserTypeOK
  <2>3. ASSUME NEW h \in Handlers, handlePc[h] = "count"
        PROVE  handleIdx[h] \in Slots /\ handleIdx[h] # packet_index
    <3>1. handleIdx[h] \in Pending
      BY <2>3, PendingMembers DEF HandlerHolds, Held
    <3> QED BY <1>3, <3>1 DEF TypeOK, HandleTypeOK
  <2> QED BY <1>1, <1>6, <2>1, <2>2, <2>3 DEF SInv, Computed
<1>9. Frame'
  <2>1. points_num' = packet_index' * PointsPerPacket
    <3>1. PointsPerPacket \in Nat /\ points_num = packet_index * PointsPerPacket
      BY PipelineAssumption DEF SInv, Frame
    <3>2. points_num' = points_num + PointsPerPacket
      BY <1>6 DEF Enqueue
    <3>3. (packet_index + 1) * PointsPerPacket
            = packet_index * PointsPerPacket + PointsPerPacket
      BY <1>2, <3>1
    <3> QED BY <1>2, <3>1, <3>2, <3>3
  <2>2. /\ udp_packet_frame \in Seq(Nat) /\ packet.id \in Nat
        /\ Len(udp_packet_frame) = packet_index
        /\ udp_packet_frame' = Append(udp_packet_frame, packet.id)
    BY DEF SInv, Frame, Enqueue, TypeOK, RunTypeOK, Packets
  <2>3. /\ Len(udp_packet_frame') = packet_index + 1
        /\ udp_packet_frame'[packet_index + 1] = packet.id
        /\ \A i \in 0..packet_index-1 : udp_packet_frame'[i + 1] = udp_packet_frame[i + 1]
    BY <1>2, <2>2
  <2>4. ASSUME NEW i \in 0..packet_index'-1
        PROVE  /\ slot'[i] = udp_packet_frame'[i + 1]
               /\ slot'[i] = accepted'[base' + i + 1]
    <3>1. CASE i = packet_index
      BY <1>6, <2>3, <3>1
    <3>2. CASE i # packet_index
      <4>1. i \in 0..packet_index-1
        BY <1>2, <3>2
      <4> QED BY <1>6, <1>7, <2>3, <4>1 DEF SInv, Frame
    <3> QED BY <3>1, <3>2
  <2>5. ~SplitPacket'
    BY DEF SplitPacket
  <2>6. Len(accepted') = base' + packet_index' + 0
    BY <1>2 DEF TypeOK, RunTypeOK
  <2> QED BY <1>2, <1>6, <2>1, <2>3, <2>4, <2>5, <2>6 DEF Frame
<1> QED BY <1>3, <1>4, <1>5, <1>8, <1>9 DEF SInv

LEMMA RunSplitInv ==
  ASSUME TypeOK, SInv, RunSplit
  PROVE  SInv'
<1>1. /\ UNCHANGED notRun
      /\ UNCHANGED <<origin, packet, packet_index, udp_packet_frame, points_num,
                     decoded, compute_packet_num, handleBuf, base>>
      /\ runPc = "decode" /\ runPc' = "wait"
  BY DEF RunSplit
<1>2. UNCHANGED <<recvPc, points, parserPc, parserIdx, nUDPCount, mutex,
                  handlePc, handleIdx, corrupted>>
  BY <1>1 DEF notRun, poolVars, recvVars
<1>3. Locations' /\ Pending' = Pending
  BY <1>1, <1>2, UnmovedPlaces DEF SInv
<1>4. Mutexes' /\ HeapIntact' /\ Room'
  BY <1>1, <1>2, PartsUnchanged
<1>5. Counting'
  BY <1>1, <1>3 DEF SInv, Counting
<1>6. /\ packet_index \in Nat /\ packet_num = packet_index
      /\ packet_index < kMaxPacketNumPerFrame
      /\ ~SplitPacket
      /\ Len(accepted) = base + packet_index
      /\ accepted \in Seq(Nat) /\ packet.id \in Nat /\ base \in Nat
  BY <1>1, IndexTypes
     DEF SInv, Frame, SplitPacket, TypeOK, RunTypeOK, Packets
<1>7. /\ \A i \in Slots : i # packet_index => slot'[i] = slot[i]
      /\ packet_num' = packet_index
      /\ per_points_num' = PointsPerPacket
  BY <1>6 DEF RunSplit, TypeOK, FrameTypeOK
<1>a. last_packet_is_valid'
  <2>1. packet_num + 1 # packet_index
    BY <1>6
  <2>2. last_packet_is_valid' = LastPacketIsValid(packet_num + 1)
    BY DEF RunSplit
  <2> QED BY <2>1, <2>2, Zenon DEF LastPacketIsValid
<1>b. accepted' = Append(accepted, packet.id)
  BY DEF RunSplit
<1>8. /\ Len(accepted') = base + packet_index + 1
      /\ accepted'[base + packet_index + 1] = packet.id
      /\ \A i \in 0..packet_index-1 : accepted'[base + i + 1] = accepted[base + i + 1]
  BY <1>6, <1>b
<1>9. \A i \in Pending \cup 0..packet_index-1 : i \in Slots /\ i # packet_index
  BY <1>6, PendingMembers, IndexTypes, PipelineAssumption
     DEF SInv, Locations, RingOrder, ListOrder, Slots
<1>10. Computed'
  <2>1. parserPc = "count" => parserIdx \in Pending
    BY PendingMembers DEF ParserHolds
  <2>2. \A h \in Handlers : handlePc[h] = "count" => handleIdx[h] \in Pending
    BY PendingMembers DEF HandlerHolds, Held
  <2> QED BY <1>1, <1>2, <1>3, <1>7, <1>9, <2>1, <2>2 DEF SInv, Computed
<1>11. Frame'
  <2>1. SplitPacket'
    BY <1>1, <1>a DEF SplitPacket
  <2>2. ASSUME NEW i \in 0..packet_index'-1
        PROVE  /\ slot'[i] = udp_packet_frame'[i + 1]
               /\ slot'[i] = accepted'[base' + i + 1]
    BY <1>1, <1>7, <1>8, <1>9 DEF SInv, Frame
  <2> QED BY <1>1, <1>6, <1>7, <1>8, <2>1, <2>2 DEF SInv, Frame
<1> QED BY <1>3, <1>4, <1>5, <1>10, <1>11 DEF SInv

LEMMA RunUpdateInv ==
  ASSUME TypeOK, SInv, RunUpdate
  PROVE  SInv'
<1>1. /\ UNCHANGED notRun
      /\ UNCHANGED <<origin, packet, last_packet_is_valid, decoded,
                     compute_packet_num, handleBuf, accepted, slot>>
      /\ runPc = "update"
      /\ runPc' = IF last_packet_is_valid THEN "redecode" ELSE "loop"
      /\ packet_index' = 0 /\ packet_num' = 0 /\ points_num' = 0
      /\ udp_packet_frame' = <<>> /\ base' = base + packet_index
  BY DEF RunUpdate, Update
<1>2. UNCHANGED <<recvPc, points, parserPc, parserIdx, nUDPCount, mutex,
                  handlePc, handleIdx, corrupted>>
  BY <1>1 DEF notRun, poolVars, recvVars
<1>3. Pending = {} /\ compute_packet_num = 0
  BY <1>1 DEF SInv, Counting
<1>4. /\ InSeq(decoded) = {} /\ ParserHolds = {}
      /\ \A h \in Handlers : Held(h) = {}
  BY <1>3, PendingMembers
<1>5. /\ ParserHolds' = ParserHolds
      /\ \A h \in Handlers : HandlerHolds(h)' = HandlerHolds(h) /\ Held(h)' = Held(h)
  BY <1>1, <1>2 DEF ParserHolds, HandlerHolds, Held
<1>6. Locations'
  <2>1. RingOrder'
    BY <1>1, <1>4, <1>5 DEF SInv, Locations, RingOrder
  <2>2. ASSUME NEW h \in Handlers PROVE ListOrder(h)'
    BY <1>1, <1>2, <1>4, <1>5 DEF SInv, Locations, ListOrder
  <2>3. OneList'
    BY <1>4, <1>5 DEF OneList
  <2> QED BY <2>1, <2>2, <2>3 DEF Locations
<1>7. Pending' = {}
  BY <1>1, <1>4, <1>5, PendingMembers
<1>8. Mutexes' /\ HeapIntact' /\ Room'
  BY <1>1, <1>2, PartsUnchanged
<1>9. Counting'
  BY <1>1, <1>3, <1>7, FS_EmptySet DEF Counting
<1>10. Computed'
  BY <1>1, <1>2 DEF SInv, Computed
<1>11. Frame'
  <2>1. packet_index \in Nat /\ base \in Nat
    BY IndexTypes DEF TypeOK, RunTypeOK
  <2>2. SplitPacket' <=> SplitPacket
    BY <1>1 DEF SplitPacket
  <2>3. Len(accepted') = base' + packet_index' + (IF SplitPacket' THEN 1 ELSE 0)
    BY <1>1, <2>1, <2>2 DEF SInv, Frame
  <2>4. SplitPacket' => accepted'[Len(accepted')] = packet'.id
    BY <1>1, <2>2 DEF SInv, Frame
  <2>5. Len(udp_packet_frame') = 0 /\ 0 * PointsPerPacket = 0
    BY <1>1, PipelineAssumption
  <2> QED BY <1>1, <2>3, <2>4, <2>5, PipelineAssumption DEF Frame
<1> QED BY <1>6, <1>8, <1>9, <1>10, <1>11 DEF SInv

LEMMA RunInv ==
  ASSUME NoOverflow, TypeOK, SInv, RunStep
  PROVE  SInv'
<1>1. UNCHANGED notRun
  BY DEF RunStep, RunGet, RunSkip, RunData, RunSplit, RunTimeoutSplit,
     RunComplete, RunReset, RunPublish, RunUpdate, RunRedecode, RunClear,
     RunClearHandles, RunDiscard, RunExit
<1>2. UNCHANGED <<recvPc, points, parserPc, parserIdx, nUDPCount, mutex,
                  handlePc, handleIdx, corrupted>>
  BY <1>1 DEF notRun, poolVars, recvVars
<1>3. UNCHANGED origin => Room'
  BY <1>2, PartsUnchanged
<1>4. packet_index \in Nat /\ base \in Nat /\ accepted \in Seq(Nat) /\ packet.id \in Nat
  BY IndexTypes DEF TypeOK, RunTypeOK, Packets
<1>5. CASE RunGet
  <2>1. Room'
    <3>1. Len(Tail(origin)) = Len(origin) - 1 /\ Len(origin) \in Nat
      BY <1>5 DEF RunGet, TypeOK, RecvTypeOK
    <3>2. kPacketBufferSize \in Nat /\ origin' = Tail(origin)
      BY <1>5, PipelineAssumption DEF RunGet
    <3> QED BY <1>2, <3>1, <3>2 DEF SInv, Room
  <2>2. ~SplitPacket /\ ~SplitPacket'
    BY <1>5 DEF RunGet, SplitPacket
  <2> QED BY <1>1, <1>5, <2>1, <2>2, RunQuiet DEF RunGet
<1>6. CASE RunSkip
  <2>1. ~SplitPacket /\ ~SplitPacket'
    BY <1>6 DEF RunSkip, SplitPacket
  <2> QED BY <1>1, <1>3, <1>6, <2>1, RunQuiet DEF RunSkip
<1>7. CASE RunData
  <2>1. packet_index < MaxFramePackets
    BY <1>7 DEF RunData
  <2>2. packet_index' = packet_index + 1 /\ packet_index + 1 < kMaxPacketNumPerFrame
    BY <1>4, <1>7, <2>1, PipelineAssumption DEF RunData, Enqueue, NoOverflow
  <2>3. runPc = "decode" /\ runPc' = "loop"
    BY <1>4, <1>7, <2>2, PipelineAssumption DEF RunData, FrameFull
  <2>4. ~SplitPacket
    BY <2>3 DEF SplitPacket
  <2>5. Len(accepted) = base + packet_index
    BY <1>4, <2>4 DEF SInv, Frame
  <2>6. accepted' = Append(accepted, packet.id)
    BY <1>7 DEF RunData
  <2>7. /\ Len(accepted') = base + packet_index + 1
        /\ accepted'[base + packet_index + 1] = packet.id
        /\ \A i \in 0..packet_index-1 : accepted'[base + i + 1] = accepted[base + i + 1]
    BY <1>4, <2>5, <2>6
  <2> QED BY <1>1, <1>7, <2>2, <2>3, <2>7, EnqueueInv DEF RunData
<1>8. CASE RunSplit
  BY <1>8, RunSplitInv
<1>9. CASE RunTimeoutSplit
  <2>1. /\ packet_num = packet_index
        /\ runPc = "decode" /\ runPc' = "wait"
        /\ UNCHANGED <<frameVars, packet, packet_index, udp_packet_frame, origin,
                       history, decoded, compute_packet_num, handleBuf>>
        /\ ~last_packet_is_valid'
    BY <1>9 DEF RunTimeoutSplit, LastPacketIsValid, SInv, Frame, frameVars
  <2>2. Locations' /\ Pending' = Pending
    BY <1>2, <2>1, UnmovedPlaces DEF SInv
  <2>3. Mutexes' /\ HeapIntact' /\ Room' /\ Computed'
    BY <1>2, <1>3, <2>1, <2>2, PartsUnchanged DEF frameVars
  <2>4. Counting'
    BY <2>1, <2>2 DEF SInv, Counting
  <2>5. ~SplitPacket /\ ~SplitPacket'
    BY <2>1 DEF SplitPacket
  <2>6. Frame'
    BY <2>1, <2>5 DEF SInv, Frame, frameVars, history
  <2> QED BY <2>2, <2>3, <2>4, <2>6 DEF SInv
<1>10. CASE RunComplete
  <2>1. SplitPacket' <=> SplitPacket
    BY <1>10 DEF RunComplete, SplitPacket
  <2> QED BY <1>1, <1>3, <1>10, <2>1, RunQuiet DEF RunComplete
<1>11. CASE RunReset
  <2>1. /\ UNCHANGED <<frameVars, history, origin, packet, packet_index,
                       last_packet_is_valid, udp_packet_frame, decoded, handleBuf>>
        /\ runPc = "reset" /\ runPc' \in {"publish", "update"}
        /\ compute_packet_num' = 0
    BY <1>11 DEF RunReset, setComputePacketNumToZero
  <2>2. Locations' /\ Pending' = Pending
    BY <1>2, <2>1, UnmovedPlaces DEF SInv
  <2>3. Pending = {} /\ IsFiniteSet(Pending)
    <3>1. IsFiniteSet(Pending) /\ Cardinality(Pending) \in Nat
      BY FS_CardinalityType DEF SInv, Counting
    <3>2. /\ compute_packet_num + Cardinality(Pending) = packet_index
          /\ compute_packet_num = packet_index
      BY <2>1 DEF SInv, Counting
    <3>3. Cardinality(Pending) = 0
      BY <1>4, <3>1, <3>2
    <3> QED BY <3>1, <3>3, FS_EmptySet
  <2>4. Mutexes' /\ HeapIntact' /\ Room' /\ Computed'
    BY <1>2, <1>3, <2>1, <2>2, PartsUnchanged DEF frameVars
  <2>5. Counting'
    BY <2>1, <2>2, <2>3 DEF Counting
  <2>6. SplitPacket' <=> SplitPacket
    BY <2>1 DEF SplitPacket
  <2>7. Frame'
    BY <2>1, <2>6 DEF SInv, Frame, frameVars, history
  <2> QED BY <2>2, <2>4, <2>5, <2>7 DEF SInv
<1>12. CASE RunPublish
  <2>1. SplitPacket' <=> SplitPacket
    BY <1>12 DEF RunPublish, SplitPacket
  <2> QED BY <1>1, <1>3, <1>12, <2>1, RunQuiet DEF RunPublish
<1>13. CASE RunUpdate
  BY <1>13, RunUpdateInv
<1>14. CASE RunRedecode
  <2>1. /\ runPc = "redecode" /\ runPc' = "loop" /\ packet_index = 0
        /\ SplitPacket
        /\ UNCHANGED <<accepted, base>>
    BY <1>14 DEF RunRedecode, SInv, Counting, Frame, SplitPacket, history
  <2>2. Len(accepted) = base + 1 /\ accepted[Len(accepted)] = packet.id
    BY <1>4, <2>1 DEF SInv, Frame
  <2>3. /\ Len(accepted') = base + packet_index + 1
        /\ accepted'[base + packet_index + 1] = packet.id
        /\ \A i \in 0..packet_index-1 : accepted'[base + i + 1] = accepted[base + i + 1]
    BY <1>4, <2>1, <2>2
  <2>4. packet_index + 1 < kMaxPacketNumPerFrame
    BY <2>1, PipelineAssumption
  <2> QED BY <1>1, <1>14, <2>1, <2>3, <2>4, EnqueueInv DEF RunRedecode
<1>15. CASE RunClear \/ RunClearHandles \/ RunDiscard
  BY <1>15 DEF RunClear, RunClearHandles, RunDiscard, SInv, Frame
<1>16. CASE RunExit
  <2>1. ~SplitPacket /\ ~SplitPacket'
    BY <1>16 DEF RunExit, SplitPacket
  <2> QED BY <1>1, <1>3, <1>16, <2>1, RunQuiet DEF RunExit
<1> QED BY <1>5, <1>6, <1>7, <1>8, <1>9, <1>10, <1>11, <1>12, <1>13, <1>14,
           <1>15, <1>16 DEF RunStep

LEMMA InitInv == Init => SInv
<1> SUFFICES ASSUME Init PROVE SInv
  OBVIOUS
<1>1. /\ InSeq(decoded) = {} /\ ParserHolds = {}
      /\ \A h \in Handlers : /\ handleBuf[h] = <<>> /\ handlePc[h] = "lock"
                             /\ HandlerHolds(h) = {} /\ Held(h) = {}
  BY DEF Init, InSeq, ParserHolds, HandlerHolds, Held
<1>2. Pending = {}
  BY <1>1, PendingMembers
<1>3. Locations
  <2>1. Ascending(<<>>)
    BY DEF Ascending
  <2> QED BY <1>1, <2>1 DEF Init, Locations, RingOrder, ListOrder, OneList
<1>4. Mutexes /\ HeapIntact /\ Room
  BY <1>1, PipelineAssumption DEF Init, Mutexes, HeapIntact, Room
<1>5. Counting
  BY <1>2, FS_EmptySet DEF Init, Counting
<1>6. Frame
  <2>1. 0 * PointsPerPacket = 0 /\ ~SplitPacket
    BY PipelineAssumption DEF Init, SplitPacket
  <2> QED BY <2>1, PipelineAssumption DEF Init, Frame
<1>7. Computed
  BY <1>1 DEF Init, Computed
<1> QED BY <1>3, <1>4, <1>5, <1>6, <1>7 DEF SInv

LEMMA NextInv ==
  ASSUME NoOverflow, TypeOK, SInv, [Next]_vars
  PROVE  SInv'
<1>1. CASE UNCHANGED vars
  <2>1. Locations' /\ Pending' = Pending
    BY <1>1, UnmovedPlaces DEF SInv, vars, runVars, poolVars
  <2> QED BY <1>1, <2>1, PartsUnchanged
          DEF SInv, vars, recvVars, runVars, frameVars, poolVars
<1> QED BY <1>1, RecvInv, RunInv, ParserInv, HandleInv, StopInv DEF Next, Stopped

-----------------------------------------------------------------------------
(* What the invariant gives *)

LEMMA InvImpliesSafety ==
  ASSUME TypeOK, SInv
  PROVE  /\ PublishedComplete /\ FrameOwnership /\ SlotPrivate
         /\ NoLimitReached /\ NoPacketLost /\ HeapIntact
<1>1. packet_index \in Nat /\ packet_index < kMaxPacketNumPerFrame
      /\ packet_num = packet_index
  BY IndexTypes DEF SInv, Frame
<1>2. runPc \in {"reset", "publish", "update", "redecode"} => Pending = {}
  <2>1. IsFiniteSet(Pending) /\ Cardinality(Pending) \in Nat
    BY FS_CardinalityType DEF SInv, Counting
  <2>2. compute_packet_num \in Nat
    BY DEF TypeOK, ParserTypeOK
  <2>3. runPc \in {"reset", "redecode"} => Cardinality(Pending) = 0
    BY <1>1, <2>1, <2>2 DEF SInv, Counting
  <2> QED BY <2>1, <2>3, FS_EmptySet DEF SInv, Counting
<1>3. FrameOwnership
  BY <1>2 DEF FrameOwnership
<1>4. PublishedComplete
  <2> SUFFICES ASSUME runPc = "publish" PROVE PublishedComplete
    BY DEF PublishedComplete
  <2>1. \A i \in 0..packet_index-1 : points[i] = slot[i]
    BY <1>2 DEF SInv, Computed
  <2> QED BY <1>1, <2>1 DEF SInv, Frame, PublishedComplete
<1>5. SlotPrivate
  <2>1. \A i \in Pending : i \in Nat /\ i < packet_index
    BY PendingMembers, IndexTypes DEF SInv, Locations, RingOrder, ListOrder
  <2>2. Pending # {} => packet_index > 0
    BY <1>1, <2>1
  <2> QED BY <1>1, <2>1, <2>2 DEF SInv, Frame, SlotPrivate
<1>6. NoLimitReached
  <2>1. Len(decoded) <= packet_index
    BY <1>1, AscendingLength DEF SInv, Locations, RingOrder, TypeOK, ParserTypeOK
  <2>2. Len(decoded) \in Nat
    BY DEF TypeOK, ParserTypeOK
  <2>3. Len(decoded) < kPacketBufferSize
    BY <1>1, <2>1, <2>2, PipelineAssumption
  <2>4. parserPc = "push" => nUDPCount \in Handlers
    BY PipelineAssumption
       DEF SInv, Mutexes, TypeOK, ParserTypeOK, MultiThread, Handlers
  <2>5. parserPc = "push" => Len(handleBuf[nUDPCount]) < kPacketBufferSize
    <3> SUFFICES ASSUME parserPc = "push"
                 PROVE  Len(handleBuf[nUDPCount]) < kPacketBufferSize
      OBVIOUS
    <3>1. Len(handleBuf[nUDPCount]) + 1 <= kPacketBufferSize
      BY <1>1, <2>4, ListsHaveRoom, PipelineAssumption DEF SInv
    <3>2. Len(handleBuf[nUDPCount]) \in Nat
      BY <2>4, IndexTypes
    <3> QED BY <3>1, <3>2, PipelineAssumption
  <2> QED BY <2>3, <2>5 DEF SInv, Room, NoLimitReached
<1>7. NoPacketLost
  BY DEF SInv, Frame, NoPacketLost
<1> QED BY <1>3, <1>4, <1>5, <1>6, <1>7 DEF SInv

\* With a sensor that splits every frame before the slots run out, everything
\* Run publishes is complete, no worker touches a frame Run owns, no slot is
\* overwritten while it is needed, no ring or list fills up, no packet is lost
\* and no list is popped when empty: for every size of the frame and the rings,
\* any number of HandleThreads, and at any time during Stop.
THEOREM PipelineSafe ==
  ASSUME NoOverflow
  PROVE  Spec => [](/\ PublishedComplete /\ FrameOwnership /\ SlotPrivate
                    /\ NoLimitReached /\ NoPacketLost /\ HeapIntact)
<1>1. Init => TypeOK /\ Bounds /\ SInv
  BY InitTypes, InitInv
<1>2. TypeOK /\ Bounds /\ SInv /\ [Next]_vars => (TypeOK /\ Bounds /\ SInv)'
  BY NextTypes, NextInv
<1>3. TypeOK /\ Bounds /\ SInv
        => /\ PublishedComplete /\ FrameOwnership /\ SlotPrivate
           /\ NoLimitReached /\ NoPacketLost /\ HeapIntact
  BY InvImpliesSafety
<1> QED BY <1>1, <1>2, <1>3, PTL DEF Spec

\* The parts of it, one by one.  No worker is at a point of a frame that Run
\* publishes or resets: the counter that Run waits for speaks for all of them.
THEOREM FrameIsOwned ==
  ASSUME NoOverflow
  PROVE  Spec => []FrameOwnership
BY PipelineSafe, PTL

\* A slot that Run decodes into is the slot of no packet that is still to be
\* computed.
THEOREM SlotsArePrivate ==
  ASSUME NoOverflow
  PROVE  Spec => []SlotPrivate
BY PipelineSafe, PTL

\* Every packet DecodePacket accepted is in a finished frame, in the current one
\* or about to open the next, also across a timeout split.
THEOREM PacketsAreKept ==
  ASSUME NoOverflow
  PROVE  Spec => []NoPacketLost
BY PipelineSafe, PTL

\* No list gets so long that ParserThread drops an index, and no ring of
\* decoded packets fills up.
THEOREM LimitsAreFar ==
  ASSUME NoOverflow
  PROVE  Spec => []NoLimitReached
BY PipelineSafe, PTL

\* With such a sensor a handle list is changed only by the thread that holds its
\* mutex: ClearPacketBuffer, which does not lock, is never reached.
THEOREM ListsProtected ==
  ASSUME NoOverflow
  PROVE  Spec => HeldListStable
<1> DEFINE Stable == \A h \in Handlers :
              handlePc[h] \in {"pop", "compute", "count"} /\ handleBuf'[h] # handleBuf[h]
                => handlePc'[h] # handlePc[h]
<1>1. Init => TypeOK /\ Bounds /\ SInv
  BY InitTypes, InitInv
<1>2. TypeOK /\ Bounds /\ SInv /\ [Next]_vars => (TypeOK /\ Bounds /\ SInv)'
  BY NextTypes, NextInv
<1>3. TypeOK /\ Bounds /\ SInv /\ [Next]_vars => [Stable]_vars
  <2> SUFFICES ASSUME TypeOK, SInv, Next PROVE Stable
    OBVIOUS
  <2>1. CASE (\E kind \in Kinds : RecvReceive(kind)) \/ RecvStep
    <3>1. UNCHANGED notRecv
      BY <2>1 DEF RecvReceive, RecvStep, RecvRoom, RecvPut, RecvExit
    <3> QED BY <3>1 DEF notRecv
  <2>2. CASE RunStep
    <3>1. ~RunClearHandles
      BY DEF RunClearHandles, SInv, Frame
    <3>2. UNCHANGED handleBuf
      BY <2>2, <3>1 DEF RunStep, RunGet, RunSkip, RunData, RunSplit,
         RunTimeoutSplit, RunComplete, RunReset, RunPublish, RunUpdate,
         RunRedecode, RunClear, RunDiscard, RunExit
    <3> QED BY <3>2
  <2>3. CASE ParserStep
    <3>1. CASE ParserPush
      <4>1. mutex[nUDPCount] = "parser" /\ parserPc = "push"
        BY <3>1 DEF ParserPush, SInv, Mutexes
      <4>2. \A h \in Handlers : h # nUDPCount => handleBuf'[h] = handleBuf[h]
        BY <3>1 DEF ParserPush, TypeOK, HandleTypeOK
      <4>3. \A h \in Handlers :
              handlePc[h] \in {"pop", "compute", "count"} => h # nUDPCount
        BY <4>1 DEF SInv, Mutexes
      <4> QED BY <4>2, <4>3
    <3>2. CASE ~ParserPush
      BY <2>3, <3>2 DEF ParserStep, ParserPop, ParserCompute, ParserCount,
         ParserLock, ParserExit
    <3> QED BY <3>1, <3>2
  <2>4. ASSUME NEW g \in Handlers, HandleStep(g) PROVE Stable
    <3>1. CASE HandlePop(g)
      BY <3>1 DEF HandlePop, TypeOK, HandleTypeOK
    <3>2. CASE ~HandlePop(g)
      BY <2>4, <3>2 DEF HandleStep, HandleFront, HandleCompute, HandleCount, HandleExit
    <3> QED BY <3>1, <3>2
  <2>5. CASE Stop \/ StopStep
    BY <2>5 DEF Stop, StopStep, StopJoinRun, StopJoinLidar
  <2>6. CASE UNCHANGED vars
    BY <2>6 DEF vars
  <2> QED BY <2>1, <2>2, <2>3, <2>4, <2>5, <2>6 DEF Next, Stopped
<1> QED BY <1>1, <1>2, <1>3, PTL DEF Spec, HeldListStable

=============================================================================
