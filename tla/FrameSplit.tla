----------------------------- MODULE FrameSplit -----------------------------
(***************************************************************************)
(* Where a frame ends: IsNeedFrameSplit of the parsers, the memory that    *)
(* DecodePacket keeps for it, and what Run makes of the answer.            *)
(*                                                                         *)
(* A packet is its mark, the one field the decision looks at: the azimuth  *)
(* of its last block (rotating lidars), the frame ID of its tail, or its   *)
(* column.  turn, a history variable, counts the revolutions or scans the  *)
(* sensor has really begun.  Packets get lost, so the marks of two         *)
(* successive packets may be some steps apart; they keep their order.      *)
(* Packets that DecodePacket refuses (no correction data, wrong preamble)  *)
(* change nothing here: Run continues with the next one.  The split of     *)
(* Udp4_3Parser, with its timeout, is in FieldSplit.                       *)
(***************************************************************************)
EXTENDS Integers

CONSTANTS
  Circle,        \* azimuths of one revolution: 360 * kResolutionInt
  MaxStep,       \* sensor: largest angle between two packets that arrive
  Starts,        \* frame_start_azimuth * kResolutionInt, as configured; whole
                 \* numbers, so that truncating it to uint16_t loses nothing
  MayMeetStart,  \* sensor: a reversed one sends a packet exactly at the start
  FrameIds,      \* values of the frame ID of Udp2_x: 2^8
  Columns,       \* columns of a Udp7_2 frame
  MaxTurns       \* bound: revolutions of the sensor

ASSUME SplitAssumption ==
  /\ Circle \in Nat
  /\ MaxStep \in Nat
  /\ 2 * MaxStep < Circle
  /\ Starts \subseteq Int
  /\ MayMeetStart \in BOOLEAN
  /\ FrameIds \in Nat \ {0, 1}
  /\ Columns \in Nat \ {0}
  /\ MaxTurns \in Nat

Azimuths == 0 .. Circle - 1

RotatingParsers == {"udp1_4", "udp3_1", "udp3_2", "udp6_1", "udp_p40", "udp_p64"}
FrameIdParsers == {"udp2_4", "udp2_5", "udp2_6", "udp4_7"}
ColumnParsers == {"udp7_2"}
Parsers == RotatingParsers \cup FrameIdParsers \cup ColumnParsers

VARIABLES
  parser,        \* the parser CreatGeneralParser has made
  start,         \* frame_start_azimuth_ * kResolutionInt
  direction,     \* sensor: 1 or -1
  mark,          \* of the packet Run has read last
  turn,          \* the revolution or scan that packet belongs to
  last,          \* last_azimuth_, last_frameid_ or last_cloumn_id_
  last_last_azimuth_,
  rotation_flag,
  scan_complete,
  run,           \* "receive", or "split" when Run has to end the frame
  frame,         \* the turns of the packets in the frame
  seen,          \* 0, 1, 2, "3 or more" azimuths have been remembered
  settled        \* the frame was begun by a split with a full memory

memory == <<last, last_last_azimuth_, rotation_flag, seen>>
vars == <<parser, start, direction, mark, turn, memory, scan_complete, run,
          frame, settled>>

-----------------------------------------------------------------------------
(* The sensor (external) *)

\* An azimuth at most one revolution outside the circle, brought back.
Onto(a) ==
  IF a >= Circle THEN a - Circle ELSE IF a < 0 THEN a + Circle ELSE a

\* The azimuth k steps after a.
Ahead(a, k) == Onto(IF direction = 1 THEN a + k ELSE a - k)

\* Turning s steps from azimuth a, the sensor comes to the start of a frame.
Passes(a, s) == \E k \in 1 .. s : Ahead(a, k) = start

\* The mark after the next packet is read, and the turn it belongs to.
SensorTurns ==
  \E s \in 0 .. MaxStep :
    /\ mark' = Ahead(mark, s)
    /\ turn' = IF Passes(mark, s) THEN turn + 1 ELSE turn
    /\ direction = -1 /\ ~MayMeetStart => mark' # start

\* A frame ID is the scan number, cut to its width.  Whole scans may be lost,
\* but not so many that the ID comes round.
SensorCounts(width) ==
  \E lost \in 0 .. width - 1 :
    /\ turn' = turn + lost
    /\ mark' = IF mark + lost >= width THEN mark + lost - width ELSE mark + lost

\* Between two packets that arrive less than a scan's columns are lost.
SensorScans ==
  \E c \in 0 .. Columns - 1 :
    /\ mark' = c
    /\ turn' = IF c < mark THEN turn + 1 ELSE turn

\* The last bit of the byte is the frame mark of Udp4_7.
IdWidth == IF parser = "udp4_7" THEN 2 ELSE FrameIds

SensorSends ==
  /\ \/ parser \in RotatingParsers /\ SensorTurns
     \/ parser \in FrameIdParsers /\ SensorCounts(IdWidth)
     \/ parser \in ColumnParsers /\ SensorScans
  /\ turn' <= MaxTurns

-----------------------------------------------------------------------------
(* Splitting by azimuth *)

Abs(x) == IF x < 0 THEN -x ELSE x

\* Mutant: the difference before is not looked at.
DivisionNewest(azimuth) == Abs(last - azimuth)

\* The smaller of the last two differences.
Division(azimuth) ==
  LET division1 == Abs(last - last_last_azimuth_)
      division2 == Abs(last - azimuth)
  IN  IF division1 > division2 THEN division2 ELSE division1

\* Mutant: only the newest difference is looked at.
ReversedNewest(azimuth) == last - azimuth = Division(azimuth)

\* Among three azimuths one is less than the one before it by division.
Reversed(azimuth) ==
  \/ last_last_azimuth_ - last = Division(azimuth)
  \/ last - azimuth = Division(azimuth)

\* Mutant: the case of 359.9 to 0 degrees is forgotten.
SplitForwardNoJump(azimuth) ==
  last < azimuth /\ last < start /\ azimuth >= start

SplitForward(azimuth) ==
  IF last - azimuth > Division(azimuth)
  THEN start > last \/ start <= azimuth
  ELSE last < azimuth /\ last < start /\ azimuth >= start

SplitBackward(azimuth) ==
  IF azimuth - last > Division(azimuth)
  THEN start <= last \/ start > azimuth
  ELSE last > azimuth /\ last > start /\ azimuth <= start

\* last_last_azimuth_ is never -1, since GeneralParser's constructor sets it to
\* 0: the test for the first two packets never succeeds.
IsNeedFrameSplit(azimuth) ==
  /\ Division(azimuth) # 0
  /\ IF Reversed(azimuth) THEN SplitBackward(azimuth) ELSE SplitForward(azimuth)

\* The azimuths are remembered only when they change.
DecodeByAzimuth(azimuth) ==
  /\ scan_complete' = IsNeedFrameSplit(azimuth)
  /\ rotation_flag' = IF Division(azimuth) = 0 THEN rotation_flag
                      ELSE IF Reversed(azimuth) THEN -1 ELSE 1
  /\ last' = azimuth
  /\ last_last_azimuth_' = IF azimuth # last THEN last ELSE last_last_azimuth_
  /\ seen' = IF azimuth # last /\ seen < 3 THEN seen + 1 ELSE seen

Udp1_4DecodePacket(azimuth) == parser = "udp1_4" /\ DecodeByAzimuth(azimuth)
Udp3_1DecodePacket(azimuth) == parser = "udp3_1" /\ DecodeByAzimuth(azimuth)
Udp3_2DecodePacket(azimuth) == parser = "udp3_2" /\ DecodeByAzimuth(azimuth)
Udp6_1DecodePacket(azimuth) == parser = "udp6_1" /\ DecodeByAzimuth(azimuth)
UdpP40DecodePacket(azimuth) == parser = "udp_p40" /\ DecodeByAzimuth(azimuth)
UdpP64DecodePacket(azimuth) == parser = "udp_p64" /\ DecodeByAzimuth(azimuth)

-----------------------------------------------------------------------------
(* Splitting by frame ID or column; last is -1 before the first packet. *)

Remember(m) ==
  /\ last' = m
  /\ UNCHANGED <<last_last_azimuth_, rotation_flag, seen>>

\* use_angle_ stays true in these parsers.
DecodeByFrameId(id) ==
  /\ scan_complete' = (id # last /\ last >= 0)
  /\ Remember(id)

Udp2_4DecodePacket(id) == parser = "udp2_4" /\ DecodeByFrameId(id)
Udp2_5DecodePacket(id) == parser = "udp2_5" /\ DecodeByFrameId(id)
Udp2_6DecodePacket(id) == parser = "udp2_6" /\ DecodeByFrameId(id)
Udp4_7DecodePacket(id) == parser = "udp4_7" /\ DecodeByFrameId(id)

Udp7_2DecodePacket(column) ==
  /\ parser = "udp7_2"
  /\ scan_complete' = (column < last)
  /\ Remember(column)

DecodePacket(m) ==
  \/ Udp1_4DecodePacket(m) \/ Udp3_1DecodePacket(m) \/ Udp3_2DecodePacket(m)
  \/ Udp6_1DecodePacket(m) \/ UdpP40DecodePacket(m) \/ UdpP64DecodePacket(m)
  \/ Udp2_4DecodePacket(m) \/ Udp2_5DecodePacket(m) \/ Udp2_6DecodePacket(m)
  \/ Udp4_7DecodePacket(m) \/ Udp7_2DecodePacket(m)

-----------------------------------------------------------------------------
(* Run *)

\* A packet is decoded into the frame, or found to belong to the next one.
RunDecode ==
  /\ run = "receive"
  /\ SensorSends
  /\ DecodePacket(mark')
  /\ run' = IF scan_complete' THEN "split" ELSE "receive"
  /\ frame' = IF scan_complete' THEN frame ELSE frame \cup {turn'}
  /\ UNCHANGED <<parser, start, direction, settled>>

\* The frame is published and reset; the packet is decoded again, into the
\* new frame.  Run does not look at scan_complete a second time.
RunSplit ==
  /\ run = "split"
  /\ DecodePacket(mark)
  /\ frame' = {turn}
  /\ run' = "receive"
  /\ settled' = (parser \notin RotatingParsers \/ seen = 3)
  /\ UNCHANGED <<parser, start, direction, mark, turn>>

\* Mutant: the configured azimuth is used as it is.
FrameStartUnchecked(configured) == configured

\* frame_start_azimuth_ outside [0, 360) is taken for 0.
FrameStart(configured) == IF configured \in Azimuths THEN configured ELSE 0

Init ==
  /\ parser \in Parsers
  /\ \E s \in Starts : start = FrameStart(s)
  /\ direction \in (IF parser \in RotatingParsers THEN {1, -1} ELSE {1})
  /\ mark \in (IF parser \in RotatingParsers THEN Azimuths ELSE {0})
  /\ direction = -1 /\ ~MayMeetStart => mark # start
  /\ turn = 0
  /\ last = IF parser \in RotatingParsers THEN 0 ELSE -1
  /\ last_last_azimuth_ = 0
  /\ rotation_flag = 1
  /\ scan_complete = FALSE
  /\ run = "receive"
  /\ frame = {}
  /\ seen = 0
  /\ settled = (parser \notin RotatingParsers)

Next == RunDecode \/ RunSplit

Spec == Init /\ [][Next]_vars

-----------------------------------------------------------------------------
(* Properties *)

\* The parser's memory and Run's frame have their types.
TypeOK ==
  /\ parser \in Parsers
  /\ start \in Azimuths
  /\ direction \in {1, -1}
  /\ mark \in Nat
  /\ turn \in Nat
  /\ last \in Int
  /\ last_last_azimuth_ \in Int
  /\ rotation_flag \in {1, -1}
  /\ scan_complete \in BOOLEAN
  /\ run \in {"receive", "split"}
  /\ frame \subseteq 0 .. turn
  /\ seen \in 0 .. 3
  /\ settled \in BOOLEAN

\* No split is missed and no packet dropped at one: once the parser's memory is
\* full, the frame Run fills holds packets of the sensor's present revolution or
\* scan, and of no other.
FrameIsOneTurn == settled /\ run = "receive" /\ last # -1 => frame = {turn}

\* No split is made twice or too early: the packet that ends a frame belongs
\* to another revolution or scan than the packets in the frame.
SplitIsNewTurn == settled /\ run = "split" => turn \notin frame

\* The direction, which signs the firetime correction of every point, is
\* found by the third different azimuth and never lost at 0 degrees.
DirectionFound == seen = 3 => rotation_flag = direction
=============================================================================
