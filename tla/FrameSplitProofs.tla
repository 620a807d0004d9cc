-------------------------- MODULE FrameSplitProofs --------------------------
(***************************************************************************)
(* Proofs about FrameSplit: for every circle, step, start and direction    *)
(* the parsers split once per revolution or scan.                          *)
(***************************************************************************)
EXTENDS FrameSplit, TLAPS

-----------------------------------------------------------------------------
(* What turning means on the circle *)

\* Forwards, s steps from a pass the azimuths above a, up to where they end.
LEMMA PassesForward ==
  ASSUME NEW a \in Azimuths, NEW s \in 0 .. MaxStep, start \in Azimuths,
         direction = 1
  PROVE  Passes(a, s) <=> IF a + s < Circle THEN a < start /\ start <= a + s
                          ELSE start > a \/ start <= a + s - Circle
<1>1. ASSUME Passes(a, s)
      PROVE  IF a + s < Circle THEN a < start /\ start <= a + s
             ELSE start > a \/ start <= a + s - Circle
  <2>1. PICK k \in 1 .. s : Ahead(a, k) = start
    BY <1>1 DEF Passes
  <2> QED BY <2>1, SplitAssumption DEF Ahead, Onto, Azimuths
<1>2. ASSUME a < start, start <= a + s
      PROVE  Passes(a, s)
  <2>1. start - a \in 1 .. s /\ Ahead(a, start - a) = start
    BY <1>2, SplitAssumption DEF Ahead, Onto, Azimuths
  <2> QED BY <2>1 DEF Passes
<1>3. ASSUME a + s >= Circle, start <= a + s - Circle
      PROVE  Passes(a, s)
  <2>1. start + Circle - a \in 1 .. s /\ Ahead(a, start + Circle - a) = start
    BY <1>3, SplitAssumption DEF Ahead, Onto, Azimuths
  <2> QED BY <2>1 DEF Passes
<1> QED BY <1>1, <1>2, <1>3, SplitAssumption DEF Azimuths

\* Backwards, s steps from a pass the azimuths below a, down to where they end.
LEMMA PassesBackward ==
  ASSUME NEW a \in Azimuths, NEW s \in 0 .. MaxStep, start \in Azimuths,
         direction = -1
  PROVE  Passes(a, s) <=> IF a - s >= 0 THEN a > start /\ start >= a - s
                          ELSE start < a \/ start >= a - s + Circle
<1>1. ASSUME Passes(a, s)
      PROVE  IF a - s >= 0 THEN a > start /\ start >= a - s
             ELSE start < a \/ start >= a - s + Circle
  <2>1. PICK k \in 1 .. s : Ahead(a, k) = start
    BY <1>1 DEF Passes
  <2> QED BY <2>1, SplitAssumption DEF Ahead, Onto, Azimuths
<1>2. ASSUME a > start, start >= a - s
      PROVE  Passes(a, s)
  <2>1. a - start \in 1 .. s /\ Ahead(a, a - start) = start
    BY <1>2, SplitAssumption DEF Ahead, Onto, Azimuths
  <2> QED BY <2>1 DEF Passes
<1>3. ASSUME a - s < 0, start >= a - s + Circle
      PROVE  Passes(a, s)
  <2>1. a + Circle - start \in 1 .. s /\ Ahead(a, a + Circle - start) = start
    BY <1>3, SplitAssumption DEF Ahead, Onto, Azimuths
  <2> QED BY <2>1 DEF Passes
<1> QED BY <1>1, <1>2, <1>3, SplitAssumption DEF Azimuths

-----------------------------------------------------------------------------
(* What the parser concludes from three azimuths *)

\* Three azimuths a sensor passes in turn show its direction, although one of
\* the two differences is nearly a whole circle when it passes 0 degrees.
LEMMA DirectionFromThree ==
  ASSUME direction \in {1, -1}, last_last_azimuth_ \in Azimuths,
         NEW s \in 1 .. MaxStep, NEW t \in 1 .. MaxStep,
         last = Ahead(last_last_azimuth_, s)
  PROVE  /\ Division(Ahead(last, t)) # 0
         /\ Reversed(Ahead(last, t)) <=> direction = -1
<1>1. CASE direction = 1
  BY <1>1, SplitAssumption DEF Reversed, Division, Abs, Ahead, Onto, Azimuths
<1>2. CASE direction = -1
  BY <1>2, SplitAssumption DEF Reversed, Division, Abs, Ahead, Onto, Azimuths
<1> QED BY <1>1, <1>2

\* A packet splits the frame exactly if the sensor has passed the start since
\* the packet before.
LEMMA SplitIffPassed ==
  ASSUME direction \in {1, -1}, last_last_azimuth_ \in Azimuths,
         start \in Azimuths,
         NEW s \in 1 .. MaxStep, NEW t \in 0 .. MaxStep,
         last = Ahead(last_last_azimuth_, s),
         direction = -1 => last # start /\ Ahead(last, t) # start
  PROVE  IsNeedFrameSplit(Ahead(last, t)) <=> Passes(last, t)
<1>0. last \in Azimuths
  BY SplitAssumption DEF Ahead, Onto, Azimuths
<1>1. CASE t = 0
  <2>1. Ahead(last, t) = last
    BY <1>0, <1>1, SplitAssumption DEF Ahead, Onto, Azimuths
  <2>2. Division(Ahead(last, t)) = 0
    BY <2>1, <1>0, SplitAssumption DEF Division, Abs, Azimuths
  <2> QED BY <1>1, <2>2 DEF IsNeedFrameSplit, Passes
<1>2. CASE t # 0 /\ direction = 1
  <2>1. /\ Division(Ahead(last, t)) # 0
        /\ ~Reversed(Ahead(last, t))
    BY <1>2, DirectionFromThree
  <2>2. SplitForward(Ahead(last, t)) <=>
          IF last + t < Circle THEN last < start /\ start <= last + t
          ELSE start > last \/ start <= last + t - Circle
    BY <1>0, <1>2, SplitAssumption
    DEF SplitForward, Division, Abs, Ahead, Onto, Azimuths
  <2> QED BY <1>0, <1>2, <2>1, <2>2, PassesForward DEF IsNeedFrameSplit
<1>3. CASE t # 0 /\ direction = -1
  <2>1. /\ Division(Ahead(last, t)) # 0
        /\ Reversed(Ahead(last, t))
    BY <1>3, DirectionFromThree
  <2>2. SplitBackward(Ahead(last, t)) <=>
          IF last - t >= 0 THEN last > start /\ start >= last - t
          ELSE start < last \/ start >= last - t + Circle
    BY <1>0, <1>3, SplitAssumption
    DEF SplitBackward, Division, Abs, Ahead, Onto, Azimuths
  <2> QED BY <1>0, <1>3, <2>1, <2>2, PassesBackward DEF IsNeedFrameSplit
<1> QED BY <1>1, <1>2, <1>3

-----------------------------------------------------------------------------
(* The inductive invariant *)

\* A rotating lidar: what the parser remembers are the sensor's last azimuths.
Remembered ==
  parser \in RotatingParsers =>
    /\ mark \in Azimuths /\ last \in Azimuths /\ last_last_azimuth_ \in Azimuths
    /\ seen >= 1 \/ run = "split" => last = mark
    /\ seen >= 2 => \E s \in 1 .. MaxStep : last = Ahead(last_last_azimuth_, s)
    /\ direction = -1 /\ ~MayMeetStart => mark # start
    /\ settled => seen = 3

\* The others: what the parser remembers is the mark of the last packet.
Numbered ==
  parser \notin RotatingParsers =>
    /\ mark \in Nat
    /\ parser \in FrameIdParsers => mark < IdWidth
    /\ (last = -1 /\ run = "receive" /\ frame = {}) \/ last = mark

\* Both properties, for sensors the azimuth parsers are right about.
OneTurn == ~MayMeetStart => FrameIsOneTurn /\ SplitIsNewTurn

IInv == TypeOK /\ Remembered /\ Numbered /\ OneTurn /\ DirectionFound

LEMMA SplitInit == Init => IInv
<1> SUFFICES ASSUME Init PROVE IInv
  OBVIOUS
<1>1. start \in Azimuths
  BY SplitAssumption DEF Init, FrameStart, Azimuths
<1>2. settled \in BOOLEAN /\ (settled => parser \notin RotatingParsers)
  BY DEF Init
<1>3. TypeOK
  <2>1. /\ parser \in Parsers /\ turn = 0 /\ last_last_azimuth_ = 0
        /\ rotation_flag = 1 /\ scan_complete = FALSE
        /\ run = "receive" /\ frame = {} /\ seen = 0
    BY DEF Init
  <2>2. mark \in Nat /\ last \in Int /\ direction \in {1, -1}
    BY SplitAssumption DEF Init, Azimuths
  <2>3. /\ turn \in Nat /\ last_last_azimuth_ \in Int /\ rotation_flag \in {1, -1}
        /\ seen \in 0 .. 3 /\ frame \subseteq 0 .. turn
    BY <2>1
  <2>4. scan_complete \in BOOLEAN /\ run \in {"receive", "split"}
    BY <2>1
  <2> QED BY <1>1, <1>2, <2>1, <2>2, <2>3, <2>4 DEF TypeOK
<1>4. Remembered
  <2> SUFFICES ASSUME parser \in RotatingParsers PROVE Remembered
    BY DEF Remembered
  <2>1. /\ mark \in Azimuths /\ last = 0 /\ last_last_azimuth_ = 0
        /\ run = "receive" /\ seen = 0
        /\ direction = -1 /\ ~MayMeetStart => mark # start
    BY DEF Init
  <2>2. 0 \in Azimuths
    BY SplitAssumption DEF Azimuths
  <2> QED BY <1>2, <2>1, <2>2 DEF Remembered
<1>5. Numbered
  BY SplitAssumption DEF Init, Numbered, IdWidth
<1>6. OneTurn /\ DirectionFound
  <2>1. run = "receive" /\ seen = 0 /\ (settled => last = -1)
    BY <1>2 DEF Init
  <2> QED BY <2>1 DEF OneTurn, FrameIsOneTurn, SplitIsNewTurn, DirectionFound
<1> QED BY <1>3, <1>4, <1>5, <1>6 DEF IInv

\* DecodePacket does what the family of the parser does.
LEMMA DecodeFamilies ==
  ASSUME NEW m, DecodePacket(m)
  PROVE  /\ parser \in RotatingParsers => DecodeByAzimuth(m)
         /\ parser \in FrameIdParsers => DecodeByFrameId(m)
         /\ parser \in ColumnParsers => /\ scan_complete' = (m < last)
                                        /\ Remember(m)
BY DEF DecodePacket, RotatingParsers, FrameIdParsers, ColumnParsers,
  Udp1_4DecodePacket, Udp3_1DecodePacket, Udp3_2DecodePacket, Udp6_1DecodePacket,
  UdpP40DecodePacket, UdpP64DecodePacket, Udp2_4DecodePacket, Udp2_5DecodePacket,
  Udp2_6DecodePacket, Udp4_7DecodePacket, Udp7_2DecodePacket

\* Run reads a packet of a rotating lidar.
LEMMA DecodeRotating ==
  ASSUME IInv, RunDecode, parser \in RotatingParsers
  PROVE  IInv'
<1> USE SplitAssumption
<1>0. parser \notin FrameIdParsers /\ parser \notin ColumnParsers
  BY DEF RotatingParsers, FrameIdParsers, ColumnParsers
<1>1. DecodeByAzimuth(mark') /\ SensorTurns /\ turn' <= MaxTurns
  BY <1>0, DecodeFamilies DEF RunDecode, SensorSends
<1>2. /\ run = "receive"
      /\ parser' = parser /\ start' = start /\ direction' = direction
      /\ settled' = settled
      /\ run' = IF scan_complete' THEN "split" ELSE "receive"
      /\ frame' = IF scan_complete' THEN frame ELSE frame \cup {turn'}
  BY DEF RunDecode
<1>3. PICK t \in 0 .. MaxStep :
        /\ mark' = Ahead(mark, t)
        /\ turn' = IF Passes(mark, t) THEN turn + 1 ELSE turn
        /\ direction = -1 /\ ~MayMeetStart => mark' # start
  BY <1>1 DEF SensorTurns
<1>4. /\ mark \in Azimuths /\ last \in Azimuths /\ last_last_azimuth_ \in Azimuths
      /\ start \in Azimuths /\ direction \in {1, -1} /\ turn \in Nat
      /\ seen \in 0 .. 3 /\ frame \subseteq 0 .. turn
      /\ rotation_flag \in {1, -1} /\ settled \in BOOLEAN
  BY DEF IInv, TypeOK, Remembered
<1>5. mark' \in Azimuths
  BY <1>3, <1>4 DEF Ahead, Onto, Azimuths
<1>6. /\ scan_complete' = IsNeedFrameSplit(mark')
      /\ last' = mark'
      /\ last_last_azimuth_' = IF mark' # last THEN last ELSE last_last_azimuth_
      /\ seen' = IF mark' # last /\ seen < 3 THEN seen + 1 ELSE seen
      /\ rotation_flag' = IF Division(mark') = 0 THEN rotation_flag
                          ELSE IF Reversed(mark') THEN -1 ELSE 1
  BY <1>1 DEF DecodeByAzimuth
<1>7. scan_complete' \in BOOLEAN
  BY <1>6 DEF IsNeedFrameSplit
<1>8. turn' \in Nat /\ turn <= turn' /\ frame' \subseteq 0 .. turn'
  BY <1>2, <1>3, <1>4
<1>9. TypeOK'
  <2>1. last' \in Int /\ last_last_azimuth_' \in Int /\ mark' \in Nat
    BY <1>4, <1>5, <1>6 DEF Azimuths
  <2>2. seen' \in 0 .. 3 /\ rotation_flag' \in {1, -1}
    BY <1>4, <1>6
  <2>3. parser' \in Parsers /\ run' \in {"receive", "split"}
    BY <1>2 DEF IInv, TypeOK
  <2> QED BY <2>1, <2>2, <2>3, <1>2, <1>4, <1>7, <1>8 DEF TypeOK, Azimuths
<1>10. ASSUME seen >= 1
       PROVE  last = mark
  BY <1>10 DEF IInv, Remembered
<1>11. ASSUME seen' >= 2
       PROVE  \E s \in 1 .. MaxStep : last' = Ahead(last_last_azimuth_, s)'
  <2>1. CASE mark' # last
    <3>1. seen >= 1
      BY <1>4, <1>6, <1>11, <2>1
    <3>2. t \in 1 .. MaxStep
      BY <1>3, <1>4, <1>10, <2>1, <3>1 DEF Ahead, Onto, Azimuths
    <3>3. last' = Ahead(last_last_azimuth_, t)'
      BY <1>2, <1>3, <1>6, <1>10, <2>1, <3>1 DEF Ahead, Onto
    <3> QED BY <3>2, <3>3
  <2>2. CASE mark' = last
    <3>1. \E s \in 1 .. MaxStep : last = Ahead(last_last_azimuth_, s)
      BY <1>6, <1>11, <2>2 DEF IInv, Remembered
    <3> QED BY <1>2, <1>6, <2>2, <3>1 DEF Ahead, Onto
  <2> QED BY <2>1, <2>2
<1>12. Remembered'
  <2>1. settled => seen = 3
    BY DEF IInv, Remembered
  <2>2. settled' => seen' = 3
    BY <1>2, <1>6, <2>1
  <2> QED BY <1>2, <1>3, <1>4, <1>5, <1>6, <1>11, <2>2 DEF Remembered
<1>13. Numbered'
  BY <1>2 DEF Numbered
<1>14. ASSUME NEW s \in 1 .. MaxStep, last = Ahead(last_last_azimuth_, s),
              seen >= 2, mark' # last
       PROVE  rotation_flag' = direction
  <2>1. last = mark
    BY <1>4, <1>10, <1>14
  <2>2. t \in 1 .. MaxStep /\ mark' = Ahead(last, t)
    BY <1>3, <1>4, <1>14, <2>1 DEF Ahead, Onto, Azimuths
  <2>3. Division(mark') # 0 /\ (Reversed(mark') <=> direction = -1)
    BY <1>4, <1>14, <2>2, DirectionFromThree
  <2> QED BY <1>4, <1>6, <2>3
<1>15. DirectionFound'
  <2>1. CASE mark' # last
    <3>1. ASSUME seen' = 3 PROVE seen >= 2
      BY <1>4, <1>6, <2>1, <3>1
    <3>2. seen >= 2 => \E s \in 1 .. MaxStep : last = Ahead(last_last_azimuth_, s)
      BY DEF IInv, Remembered
    <3> QED BY <1>2, <1>14, <2>1, <3>1, <3>2 DEF DirectionFound
  <2>2. CASE mark' = last
    <3>1. Division(mark') = 0
      BY <2>2, <1>4 DEF Division, Abs, Azimuths
    <3> QED BY <1>2, <1>6, <2>2, <3>1 DEF IInv, DirectionFound
  <2> QED BY <2>1, <2>2
<1>16. OneTurn'
  <2> SUFFICES ASSUME ~MayMeetStart, settled
               PROVE  (FrameIsOneTurn /\ SplitIsNewTurn)'
    BY <1>2 DEF OneTurn, FrameIsOneTurn, SplitIsNewTurn
  <2>1. seen = 3 /\ last = mark /\ last # -1
    BY <1>4, <1>10 DEF IInv, Remembered, Azimuths
  <2>2. PICK s \in 1 .. MaxStep : last = Ahead(last_last_azimuth_, s)
    BY <2>1 DEF IInv, Remembered
  <2>3. direction = -1 => last # start /\ Ahead(last, t) # start
    BY <1>3, <2>1 DEF IInv, Remembered
  <2>4. scan_complete' <=> Passes(mark, t)
    BY <1>3, <1>4, <1>6, <2>1, <2>2, <2>3, SplitIffPassed
  <2>5. frame = {turn}
    BY <1>2, <2>1 DEF IInv, OneTurn, FrameIsOneTurn
  <2> QED BY <1>2, <1>3, <1>4, <1>7, <2>4, <2>5 DEF FrameIsOneTurn, SplitIsNewTurn
<1> QED BY <1>9, <1>12, <1>13, <1>15, <1>16 DEF IInv

\* Run reads a packet of a lidar that numbers its frames or columns.
LEMMA DecodeNumbered ==
  ASSUME IInv, RunDecode, parser \notin RotatingParsers
  PROVE  IInv'
<1> USE SplitAssumption
<1>1. /\ run = "receive"
      /\ parser' = parser /\ start' = start /\ direction' = direction
      /\ settled' = settled
      /\ run' = IF scan_complete' THEN "split" ELSE "receive"
      /\ frame' = IF scan_complete' THEN frame ELSE frame \cup {turn'}
  BY DEF RunDecode
<1>2. /\ mark \in Nat /\ turn \in Nat /\ frame \subseteq 0 .. turn
      /\ (last = -1 /\ frame = {}) \/ last = mark
      /\ parser \in Parsers
  BY <1>1 DEF IInv, TypeOK, Numbered
<1>3. /\ last' = mark' /\ last_last_azimuth_' = last_last_azimuth_
      /\ rotation_flag' = rotation_flag /\ seen' = seen
  BY <1>2, DecodeFamilies DEF RunDecode, DecodeByFrameId, Remember, Parsers
<1>4. /\ mark' \in Nat
      /\ parser \in FrameIdParsers => mark' < IdWidth
      /\ turn' \in Nat /\ turn <= turn'
      /\ scan_complete' \in BOOLEAN
      /\ last # -1 => (scan_complete' <=> turn' # turn)
      /\ last = -1 => ~scan_complete'
  <2>1. CASE parser \in FrameIdParsers
    <3>0. parser \notin ColumnParsers
      BY <2>1 DEF FrameIdParsers, ColumnParsers
    <3>1. PICK lost \in 0 .. IdWidth - 1 :
            /\ turn' = turn + lost
            /\ mark' = IF mark + lost >= IdWidth THEN mark + lost - IdWidth
                       ELSE mark + lost
      BY <2>1, <3>0 DEF RunDecode, SensorSends, SensorCounts
    <3>2. mark < IdWidth /\ IdWidth \in Nat
      BY <2>1 DEF IInv, Numbered, IdWidth
    <3>3. scan_complete' = (mark' # last /\ last >= 0)
      BY <2>1, DecodeFamilies DEF RunDecode, DecodeByFrameId
    <3>4. /\ mark' \in Nat /\ mark' < IdWidth
          /\ turn' \in Nat /\ turn <= turn'
          /\ mark' = mark <=> turn' = turn
      BY <1>2, <3>1, <3>2
    <3>5. scan_complete' \in BOOLEAN
      BY <3>3
    <3>6. scan_complete' <=> mark' # last /\ last >= 0
      BY <3>3
    <3> QED BY <1>2, <3>4, <3>5, <3>6
  <2>2. CASE parser \in ColumnParsers
    <3>0. parser \notin FrameIdParsers
      BY <2>2 DEF FrameIdParsers, ColumnParsers
    <3>1. PICK c \in 0 .. Columns - 1 :
            mark' = c /\ turn' = IF c < mark THEN turn + 1 ELSE turn
      BY <2>2, <3>0 DEF RunDecode, SensorSends, SensorScans
    <3>2. scan_complete' = (mark' < last)
      BY <2>2, DecodeFamilies DEF RunDecode
    <3>3. scan_complete' \in BOOLEAN
      BY <3>2
    <3>4. scan_complete' <=> mark' < last
      BY <3>2
    <3> QED BY <1>2, <3>0, <3>1, <3>3, <3>4
  <2> QED BY <1>2, <2>1, <2>2 DEF Parsers
<1>5. TypeOK'
  <2>1. frame' \subseteq 0 .. turn'
    BY <1>1, <1>2, <1>4
  <2>2. last' \in Int
    BY <1>3, <1>4
  <2> QED BY <1>1, <1>3, <1>4, <2>1, <2>2 DEF IInv, TypeOK, Azimuths
<1>6. Remembered'
  BY <1>1 DEF Remembered
<1>7. Numbered'
  BY <1>1, <1>3, <1>4 DEF Numbered, IdWidth
<1>8. OneTurn'
  <2> SUFFICES ASSUME ~MayMeetStart, settled
               PROVE  (FrameIsOneTurn /\ SplitIsNewTurn)'
    BY <1>1 DEF OneTurn, FrameIsOneTurn, SplitIsNewTurn
  <2>1. last # -1 => frame = {turn}
    BY <1>1 DEF IInv, OneTurn, FrameIsOneTurn
  <2>2. CASE scan_complete'
    <3>1. frame' = {turn} /\ turn' # turn /\ run' = "split"
      BY <1>1, <1>4, <2>1, <2>2
    <3> QED BY <3>1 DEF FrameIsOneTurn, SplitIsNewTurn
  <2>3. CASE ~scan_complete'
    <3>0. frame = {} \/ frame = {turn'}
      BY <1>2, <1>4, <2>1, <2>3
    <3>1. frame' = {turn'} /\ run' = "receive"
      BY <1>1, <2>3, <3>0
    <3> QED BY <3>1 DEF FrameIsOneTurn, SplitIsNewTurn
  <2> QED BY <2>2, <2>3
<1>9. DirectionFound'
  BY <1>1, <1>3 DEF IInv, DirectionFound
<1> QED BY <1>5, <1>6, <1>7, <1>8, <1>9 DEF IInv

\* Run ends the frame and decodes the packet again: the memory stays as it is.
LEMMA SplitPreserves ==
  ASSUME IInv, RunSplit
  PROVE  IInv'
<1> USE SplitAssumption
<1>1. /\ run = "split" /\ run' = "receive" /\ frame' = {turn}
      /\ parser' = parser /\ start' = start /\ direction' = direction
      /\ mark' = mark /\ turn' = turn
      /\ settled' = (parser \notin RotatingParsers \/ seen = 3)
  BY DEF RunSplit
<1>2. last = mark /\ last \in Int
  BY <1>1 DEF IInv, TypeOK, Remembered, Numbered
<1>3. /\ last' = last /\ last_last_azimuth_' = last_last_azimuth_
      /\ rotation_flag' = rotation_flag /\ seen' = seen
      /\ scan_complete' \in BOOLEAN
  <2>1. CASE parser \in RotatingParsers
    <3>1. DecodeByAzimuth(mark)
      BY <2>1, DecodeFamilies DEF RunSplit
    <3>2. last_last_azimuth_ \in Int
      BY DEF IInv, TypeOK
    <3>3. Division(mark) = 0
      BY <1>2, <3>2 DEF Division, Abs
    <3>4. scan_complete' \in BOOLEAN
      BY <3>1 DEF DecodeByAzimuth, IsNeedFrameSplit
    <3>5. /\ rotation_flag' = rotation_flag /\ last' = mark
          /\ last_last_azimuth_' = last_last_azimuth_ /\ seen' = seen
      BY <1>2, <3>1, <3>3 DEF DecodeByAzimuth
    <3> QED BY <1>2, <3>4, <3>5
  <2>2. CASE parser \in FrameIdParsers
    <3>1. DecodeByFrameId(mark)
      BY <2>2, DecodeFamilies DEF RunSplit
    <3>2. scan_complete' \in BOOLEAN
      BY <3>1 DEF DecodeByFrameId
    <3> QED BY <1>2, <3>1, <3>2 DEF DecodeByFrameId, Remember
  <2>3. CASE parser \in ColumnParsers
    <3>1. scan_complete' = (mark < last) /\ Remember(mark)
      BY <2>3, DecodeFamilies DEF RunSplit
    <3>2. scan_complete' \in BOOLEAN
      BY <3>1
    <3> QED BY <1>2, <3>1, <3>2 DEF Remember
  <2> QED BY <2>1, <2>2, <2>3 DEF IInv, TypeOK, Parsers
<1>4. settled' \in BOOLEAN /\ (parser \in RotatingParsers /\ settled' => seen' = 3)
  BY <1>1, <1>3
<1>5. TypeOK'
  <2>1. frame' \subseteq 0 .. turn'
    BY <1>1 DEF IInv, TypeOK
  <2> QED BY <1>1, <1>3, <1>4, <2>1 DEF IInv, TypeOK, Azimuths
<1>6. Remembered'
  BY <1>1, <1>2, <1>3, <1>4 DEF IInv, Remembered, Ahead, Onto, Azimuths
<1>7. Numbered'
  BY <1>1, <1>2, <1>3 DEF IInv, Numbered, IdWidth
<1>8. OneTurn'
  BY <1>1 DEF OneTurn, FrameIsOneTurn, SplitIsNewTurn
<1>9. DirectionFound'
  BY <1>1, <1>3 DEF IInv, DirectionFound
<1> QED BY <1>5, <1>6, <1>7, <1>8, <1>9 DEF IInv

LEMMA SplitInductive == Spec => []IInv
<1>1. IInv /\ [Next]_vars => IInv'
  <2> SUFFICES ASSUME IInv, [Next]_vars PROVE IInv'
    OBVIOUS
  <2>1. CASE RunDecode
    BY <2>1, DecodeRotating, DecodeNumbered
  <2>2. CASE RunSplit
    BY <2>2, SplitPreserves
  <2>3. CASE UNCHANGED vars
    BY <2>3 DEF IInv, TypeOK, Remembered, Numbered, OneTurn, DirectionFound,
      FrameIsOneTurn, SplitIsNewTurn, vars, memory, Ahead, Onto, IdWidth, Azimuths
  <2> QED BY <2>1, <2>2, <2>3 DEF Next
<1> QED BY <1>1, SplitInit, PTL DEF Spec

-----------------------------------------------------------------------------
(* The theorems *)

\* The parsers' memory and Run's frame have their types.
THEOREM SplitTypeCorrect == Spec => []TypeOK
BY SplitInductive, PTL DEF IInv

\* Every frame Run publishes holds the packets of one revolution or scan and
\* every revolution or scan ends up in one frame, in both directions of rotation
\* and wherever frames start, for sensors whose azimuths turn by less than half
\* a circle from packet to packet and, reversed, never stop exactly at the start.
THEOREM OneFramePerTurn ==
  ASSUME ~MayMeetStart
  PROVE  Spec => [](FrameIsOneTurn /\ SplitIsNewTurn)
<1>1. IInv => FrameIsOneTurn /\ SplitIsNewTurn
  BY DEF IInv, OneTurn
<1> QED BY <1>1, SplitInductive, PTL

\* The packet that ends a frame is of a later revolution or scan than those in
\* it.
THEOREM SplitsAreNewTurns ==
  ASSUME ~MayMeetStart
  PROVE  Spec => []SplitIsNewTurn
BY OneFramePerTurn, PTL

\* The parser knows the direction of rotation from the third azimuth on, also
\* for a sensor that stops at the start.
THEOREM DirectionIsFound == Spec => []DirectionFound
BY SplitInductive, PTL DEF IInv
=============================================================================
