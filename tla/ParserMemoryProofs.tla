------------------------- MODULE ParserMemoryProofs -------------------------
(***************************************************************************)
(* What parsers remember from packet to packet.  A frame of the AT128 is   *)
(* one field, for every width, spacing, tolerance and acceptance angle     *)
(* that FieldAssumption admits.  The loss tool counts the packets that are *)
(* missing, whatever the width of the sequence numbers.                    *)
(***************************************************************************)
EXTENDS FieldSplit, PacketLoss, FiniteSetTheorems, TLAPS

-----------------------------------------------------------------------------
(* Udp4_3Parser *)

FieldSpec == FieldInit /\ [][FieldNext]_fieldVars

FieldTypes ==
  /\ field \in Nat /\ place \in -1 .. Width - 2
  /\ over \in BOOLEAN /\ use_angle_ \in BOOLEAN
  /\ published \in Int

\* last_azimuth_ is the azimuth of the latest packet, and 0 before the first.
Remembered ==
  IF place = -1 THEN field = 0 /\ last_azimuth_ = 0 /\ use_angle_ /\ fields = {} /\ published = -1
                ELSE last_azimuth_ = Azimuth(field, place + 1)

\* While use_angle_ is set the frame is the field that is swept; it is cleared
\* when that field is over and published.
Swept ==
  /\ use_angle_ /\ place # -1 => fields = {field} /\ published < field
  /\ ~use_angle_ => fields = {} /\ over /\ published <= field

FieldInv == FieldTypes /\ Remembered /\ Swept

\* Three fields in turn: the next two differ from this one.
LEMMA FieldsDiffer ==
  ASSUME NEW f \in Nat
  PROVE  /\ f % 3 \in 0 .. 2
         /\ (f + 1) % 3 \in 0 .. 2 /\ (f + 1) % 3 # f % 3
         /\ (f + 2) % 3 \in 0 .. 2 /\ (f + 2) % 3 # f % 3
OBVIOUS

\* Different fields start at least Spacing apart.
LEMMA StartsApart ==
  ASSUME NEW i \in 0 .. 2, NEW j \in 0 .. 2
  PROVE  /\ start_frame(i) \in Nat \ {0}
         /\ i # j => \/ start_frame(i) >= start_frame(j) + Spacing
                     \/ start_frame(j) >= start_frame(i) + Spacing
<1>1. i = 0 \/ i = 1 \/ i = 2
  OBVIOUS
<1>2. j = 0 \/ j = 1 \/ j = 2
  OBVIOUS
<1>3. 0 * Spacing = 0 /\ 1 * Spacing = Spacing /\ 2 * Spacing = Spacing + Spacing
  BY FieldAssumption
<1> QED BY <1>1, <1>2, <1>3, FieldAssumption DEF start_frame

\* The step to another field is a jump, the step inside of one is not.
LEMMA JumpIffOther ==
  ASSUME FieldTypes, Remembered, place # -1,
         NEW f \in field .. field + 2, NEW p \in 0 .. Width - 2,
         f = field => p > place /\ p - place <= kAzimuthTolerance
  PROVE  Jumps(Azimuth(f, p)) <=> f # field
<1>1. f \in Nat /\ (f = field \/ f = field + 1 \/ f = field + 2)
  BY DEF FieldTypes
<1>2. f % 3 \in 0 .. 2 /\ field % 3 \in 0 .. 2 /\ (f # field => f % 3 # field % 3)
  BY <1>1, FieldsDiffer DEF FieldTypes
<1>3. DEFINE a == start_frame(f % 3)
             b == start_frame(field % 3)
<1>4. a \in Nat \ {0} /\ b \in Nat \ {0}
  BY <1>2, StartsApart
<1>5. f # field => a >= b + Spacing \/ b >= a + Spacing
  BY <1>2, StartsApart
<1>6. f = field => a = b
  OBVIOUS
<1>7. last_azimuth_ = b + (place + 1) /\ Azimuth(f, p) = a + p
  BY DEF Remembered, Azimuth
<1> HIDE DEF a, b
<1> QED BY <1>4, <1>5, <1>6, <1>7, FieldAssumption DEF Jumps, Dist, FieldTypes

\* A timeout that splits comes when the field is over.
LEMMA EndIsOwn ==
  ASSUME FieldTypes, Remembered, AtFieldEnd
  PROVE  /\ place # -1
         /\ Dist(Azimuth(field, Margin), Azimuth(field, place + 1)) < Acceptance
<1>1. PICK i \in 0 .. 2 : Dist(start_frame(i) + Margin, last_azimuth_) < Acceptance
  BY DEF AtFieldEnd
<1>2. field % 3 \in 0 .. 2
  BY FieldsDiffer DEF FieldTypes
<1>3. DEFINE a == start_frame(i)
             b == start_frame(field % 3)
<1>4. a \in Nat \ {0} /\ b \in Nat \ {0}
  BY <1>2, StartsApart
<1>5. place # -1
  <2>1. Dist(a + Margin, 0) >= Width
    BY <1>4, FieldAssumption DEF Dist, Margin
  <2>2. Dist(a + Margin, 0) \in Int
    BY <1>4, FieldAssumption DEF Dist, Margin
  <2> QED BY <2>1, <2>2, <1>1, FieldAssumption DEF Remembered
<1>6. last_azimuth_ = b + (place + 1)
  BY <1>5 DEF Remembered, Azimuth
<1>7. i # field % 3 => a >= b + Spacing \/ b >= a + Spacing
  BY <1>2, StartsApart
<1>8. i = field % 3
  <2> HIDE DEF a, b
  <2>1. Dist(a + Margin, b + (place + 1)) < Acceptance
    BY <1>1, <1>6 DEF a
  <2> QED BY <2>1, <1>4, <1>7, FieldAssumption DEF Dist, Margin, FieldTypes
<1> QED BY <1>1, <1>5, <1>6, <1>8 DEF Azimuth

\* The invariant holds at first.
LEMMA FieldInvInit == FieldInit => FieldInv
<1> SUFFICES ASSUME FieldInit PROVE FieldInv
  OBVIOUS
<1>1. field \in Nat /\ place \in -1 .. Width - 2 /\ published \in Int
  BY FieldAssumption DEF FieldInit
<1>2. over \in BOOLEAN /\ use_angle_ \in BOOLEAN
  BY Zenon DEF FieldInit
<1>3. Remembered
  BY DEF FieldInit, Remembered
<1>4. Swept
  BY DEF FieldInit, Swept
<1> QED BY <1>1, <1>2, <1>3, <1>4 DEF FieldInv, FieldTypes

\* A packet, lost ones before it or not, keeps it.
LEMMA FieldInvPacket == FieldInv /\ FieldPacket => FieldInv'
<1> SUFFICES ASSUME FieldInv, FieldPacket PROVE FieldInv'
  OBVIOUS
<1>1. PICK f \in field .. field + 2, p \in 0 .. Width - 2 :
        /\ f = field => p > place /\ p - place <= kAzimuthTolerance /\ ~over
        /\ field' = f /\ place' = p /\ over' = FALSE
        /\ Udp4_3DecodePacket(f, p)
  BY DEF FieldPacket
<1>2. f \in Nat /\ field \in Nat /\ f >= field /\ p # -1
  BY DEF FieldInv, FieldTypes
<1>0. field' \in Nat /\ place' \in -1 .. Width - 2 /\ place' # -1
  BY <1>1, <1>2, FieldAssumption
<1>3. Remembered'
  BY <1>1, <1>2 DEF Udp4_3DecodePacket, Remembered, Azimuth, start_frame
<1>4. CASE place = -1
  <2>1. ~Jumps(Azimuth(f, p))
    BY <1>4 DEF FieldInv, Remembered, Jumps
  <2>2. use_angle_' = TRUE /\ fields' = {f} /\ published' = -1
    BY <2>1, <1>1, <1>4 DEF Udp4_3DecodePacket, UseAngle, Splits, FieldInv, Remembered
  <2>b. over' \in BOOLEAN /\ use_angle_' \in BOOLEAN
    BY <2>2, <1>1, Zenon
  <2>t. over' \in BOOLEAN /\ use_angle_' \in BOOLEAN /\ published' \in Int
    BY <2>2, <2>b
  <2>s. Swept'
    BY <2>2, <1>1, <1>2, <1>0 DEF FieldInv, FieldTypes, Swept
  <2> QED BY <2>t, <2>s, <1>0, <1>3 DEF FieldInv, FieldTypes
<1>5. CASE place # -1 /\ f = field
  <2>1. ~Jumps(Azimuth(f, p))
    BY <1>1, <1>5, JumpIffOther DEF FieldInv
  <2>2. use_angle_ = TRUE
    BY <1>1, <1>5 DEF FieldInv, Swept, FieldTypes
  <2>3. use_angle_' = TRUE /\ fields' = {f} /\ published' = published
    BY <2>1, <2>2, <1>1, <1>5 DEF Udp4_3DecodePacket, UseAngle, Splits, FieldInv, Swept
  <2>t. over' \in BOOLEAN /\ use_angle_' \in BOOLEAN /\ published' \in Int
    BY <2>2, <2>3, <1>5, <1>1 DEF FieldInv, FieldTypes
  <2>s. Swept'
    BY <2>2, <2>3, <1>5, <1>1, <1>2, <1>0 DEF FieldInv, FieldTypes, Swept
  <2> QED BY <2>t, <2>s, <1>0, <1>3 DEF FieldInv, FieldTypes
<1>6. CASE place # -1 /\ f # field
  <2>1. Jumps(Azimuth(f, p))
    BY <1>1, <1>6, JumpIffOther DEF FieldInv
  <2>2. use_angle_' = TRUE
    BY <2>1, <1>1 DEF Udp4_3DecodePacket, UseAngle
  <2>3. fields' = {f} /\ published' \in Int /\ published' <= field
    <3>1. CASE use_angle_
      <4>1. fields = {field}
        BY <3>1, <1>6 DEF FieldInv, Swept
      <4>2. published' = CHOOSE x \in fields : \A g \in fields : g <= x
        BY <2>1, <3>1, <4>1, <1>1 DEF Udp4_3DecodePacket, Splits, Publish
      <4>3. published' = field
        BY <4>1, <4>2, <1>2
      <4> QED BY <2>1, <3>1, <4>3, <1>1, <1>2 DEF Udp4_3DecodePacket, Splits
    <3>2. CASE ~use_angle_
      BY <3>2, <1>1, <1>2 DEF Udp4_3DecodePacket, Splits, FieldInv, FieldTypes, Swept
    <3> QED BY <3>1, <3>2
  <2>t. over' \in BOOLEAN /\ use_angle_' \in BOOLEAN /\ published' \in Int
    BY <2>2, <2>3, <1>6, <1>1 DEF FieldInv, FieldTypes
  <2>s. Swept'
    BY <2>2, <2>3, <1>6, <1>1, <1>2, <1>0 DEF FieldInv, FieldTypes, Swept
  <2> QED BY <2>t, <2>s, <1>0, <1>3 DEF FieldInv, FieldTypes
<1> QED BY <1>4, <1>5, <1>6

\* So does a timeout, at any time.
LEMMA FieldInvTimeout == FieldInv /\ TimeoutPacket => FieldInv'
<1> SUFFICES ASSUME FieldInv, TimeoutPacket PROVE FieldInv'
  OBVIOUS
<1>1. over' \in BOOLEAN /\ (over => over') /\ UNCHANGED <<field, place, last_azimuth_>>
  BY DEF TimeoutPacket, FieldInv, FieldTypes
<1>2. CASE AtFieldEnd
  <2>1. place # -1 /\ over'
    BY <1>2, EndIsOwn DEF TimeoutPacket, FieldInv
  <2>2. use_angle_' = FALSE /\ fields' = {} /\ Publish
    BY <1>2 DEF TimeoutPacket
  <2>3. published' \in Int /\ published' <= field
    <3>1. CASE use_angle_
      <4>1. fields = {field} /\ field \in Nat
        BY <3>1, <2>1 DEF FieldInv, Swept, FieldTypes
      <4>2. published' = CHOOSE x \in fields : \A g \in fields : g <= x
        BY <2>2, <4>1 DEF Publish
      <4> QED BY <4>1, <4>2
    <3>2. CASE ~use_angle_
      BY <3>2, <2>2 DEF Publish, FieldInv, Swept, FieldTypes
    <3> QED BY <3>1, <3>2
  <2> QED BY <1>1, <2>1, <2>2, <2>3
       DEF FieldInv, FieldTypes, Swept, Remembered, Azimuth, start_frame
<1>3. CASE ~AtFieldEnd
  <2>1. UNCHANGED <<use_angle_, fields, published>>
    BY <1>3 DEF TimeoutPacket
  <2> QED BY <1>1, <2>1 DEF FieldInv, FieldTypes, Swept, Remembered, Azimuth, start_frame
<1> QED BY <1>2, <1>3

\* A frame is one field: for every sensor whose fields are farther apart than
\* kAzimuthTolerance, with packets and fields lost and timeouts at any time.
THEOREM OneFieldPerFrame == FieldSpec => []FrameIsOneField
<1>1. FieldInv => FrameIsOneField
  BY DEF FieldInv, FieldTypes, Remembered, Swept, FrameIsOneField
<1>2. FieldInv /\ UNCHANGED fieldVars => FieldInv'
  BY DEF FieldInv, FieldTypes, Remembered, Swept, fieldVars, Azimuth, start_frame
<1>3. FieldInv /\ [FieldNext]_fieldVars => FieldInv'
  BY <1>2, FieldInvPacket, FieldInvTimeout DEF FieldNext
<1> QED BY <1>1, <1>3, FieldInvInit, PTL DEF FieldSpec

-----------------------------------------------------------------------------
(* Numbers modulo R *)

\* Division with remainder.
LEMMA Divides ==
  ASSUME NEW R \in Nat \ {0}, NEW a \in Int
  PROVE  /\ a \div R \in Int /\ a % R \in 0..R - 1
         /\ a = R * (a \div R) + (a % R)
<1>1. a \div R \in Int
  OBVIOUS
<1>2. a % R \in 0..R-1
  OBVIOUS
<1>3. a = R * (a \div R) + (a % R)
  OBVIOUS
<1> QED BY <1>1, <1>2, <1>3

\* A multiple of R other than 0 is not smaller than R.
LEMMA MulBound ==
  ASSUME NEW R \in Nat \ {0}, NEW k \in Int
  PROVE  /\ k >= 1 => R * k >= R
         /\ k <= -1 => R * k <= -R
OBVIOUS

\* Multiplication distributes over subtraction.
LEMMA Distr ==
  ASSUME NEW R \in Nat \ {0}, NEW k \in Int, NEW q \in Int
  PROVE  R * (k - q) = R * k - R * q
OBVIOUS

\* There is only one remainder.
LEMMA UniqueRemainder ==
  ASSUME NEW R \in Nat \ {0}, NEW a \in Int, NEW q \in Int, NEW r \in 0..R - 1, a = R * q + r
  PROVE  a % R = r
<1> DEFINE p == a \div R
           s == a % R
<1>1. p \in Int /\ s \in 0..R - 1 /\ a = R * p + s
  BY Divides
<1> HIDE DEF p, s
<1>2. R * (p - q) = R * p - R * q /\ R * p \in Int /\ R * q \in Int
  BY <1>1, Distr
<1>3. R * (p - q) = r - s
  BY <1>1, <1>2
<1>4. p - q >= 1 \/ p - q <= -1 \/ p - q = 0
  BY <1>1
<1>5. ~(p - q >= 1) /\ ~(p - q <= -1)
  <2>1. p - q \in Int
    BY <1>1
  <2>2. (p - q >= 1 => R * (p - q) >= R) /\ (p - q <= -1 => R * (p - q) <= -R)
    BY <2>1, MulBound
  <2> DEFINE w == R * (p - q)
  <2>3. w \in Int /\ w = r - s /\ (p - q >= 1 => w >= R) /\ (p - q <= -1 => w <= -R)
    BY <1>1, <1>2, <1>3, <2>2
  <2> HIDE DEF w
  <2> QED BY <1>1, <2>3
<1>6. p = q
  BY <1>1, <1>4, <1>5
<1>7. r = s
  BY <1>1, <1>2, <1>6
<1> QED BY <1>7 DEF s

\* A remainder may be replaced by what it is the remainder of.
LEMMA ModAdd ==
  ASSUME NEW R \in Nat \ {0}, NEW a \in Int, NEW b \in Int
  PROVE  ((a % R) + b) % R = (a + b) % R
<1> DEFINE p == a \div R
           s == a % R
           c == s + b
           t == c % R
           u == c \div R
<1>1. p \in Int /\ s \in 0..R - 1 /\ a = R * p + s
  BY Divides
<1> HIDE DEF p, s
<1>2. c \in Int /\ u \in Int /\ t \in 0..R - 1 /\ c = R * u + t
  BY <1>1, Divides
<1> HIDE DEF u, t
<1>3. R * (p + u) = R * p + R * u /\ R * p \in Int /\ R * u \in Int
  BY <1>1, <1>2
<1>4. a + b = R * (p + u) + t
  BY <1>1, <1>2, <1>3
<1> DEFINE d == a + b
           q == p + u
<1>6. d \in Int /\ q \in Int /\ t \in 0..R - 1 /\ d = R * q + t
  BY <1>1, <1>2, <1>4
<1> HIDE DEF d, q
<1>5. d % R = t
  BY <1>6, UniqueRemainder
<1> QED BY <1>5 DEF t, s, d

\* Multiples of R may be added.
LEMMA ModShift ==
  ASSUME NEW R \in Nat \ {0}, NEW a \in Int, NEW k \in Int
  PROVE  (a + R * k) % R = a % R
<1> DEFINE p == a \div R
           s == a % R
           d == a + R * k
           q == p + k
<1>1. p \in Int /\ s \in 0..R - 1 /\ a = R * p + s
  BY Divides
<1> HIDE DEF p, s
<1>2. R * q = R * p + R * k /\ R * p \in Int /\ R * k \in Int
  BY <1>1
<1>3. d \in Int /\ q \in Int /\ d = R * q + s
  BY <1>1, <1>2
<1> HIDE DEF d, q
<1>4. d % R = s
  BY <1>1, <1>3, UniqueRemainder
<1> QED BY <1>4 DEF d, s

\* The difference of two remainders.
LEMMA ModMinus ==
  ASSUME NEW R \in Nat \ {0}, NEW a \in Int, NEW b \in Int
  PROVE  ((a % R) - (b % R)) % R = (a - b) % R
<1> DEFINE p == a \div R
           s == a % R
           q == b \div R
           t == b % R
           c == a - b
           k == q - p
<1>1. p \in Int /\ s \in 0..R - 1 /\ a = R * p + s /\ q \in Int /\ t \in 0..R - 1 /\ b = R * q + t
  BY Divides
<1> HIDE DEF p, s, q, t
<1>2. R * k = R * q - R * p /\ R * p \in Int /\ R * q \in Int
  BY <1>1, Distr
<1>3. k \in Int /\ c \in Int /\ s - t = c + R * k
  BY <1>1, <1>2
<1> HIDE DEF k, c
<1>4. (c + R * k) % R = c % R
  BY <1>3, ModShift
<1> QED BY <1>3, <1>4 DEF c, s, t

-----------------------------------------------------------------------------
(* CalPktLoss and CalPktTimeLoss *)

LossSpec == LossInit /\ [][LossNext]_lossVars

LossTypes ==
  /\ first \in Nat /\ latest \in Nat /\ again \in Nat
  /\ swapped \in BOOLEAN /\ zeroed \in BOOLEAN
  /\ got \in SUBSET (1..MaxIndex)
  /\ IF got = {} THEN latest = 0 ELSE first \in got /\ latest \in got
  /\ \A i \in got : i >= first
  /\ time_loss_message_ \in [start_timestamp : Nat, last_timestamp : Nat, total_timeloss_count : Nat]

\* The numbers of the packets missing between first and latest, if latest
\* were the newest one.
Balance == (latest - first) - (Cardinality(got) - 1)

\* What the loss tool remembers, as long as start_seqnum has not been 0.
SeqnumsKept ==
  /\ got = {} <=> seqnum_loss_message_.start_seqnum = 0
  /\ seqnum_loss_message_.last_seqnum = latest % SeqRange
  /\ got # {} => seqnum_loss_message_.total_loss_count = Balance % SeqRange
  /\ got = {} => total_packet_count_ = 0
  /\ got # {} /\ latest < SeqRange /\ ~swapped => total_packet_count_ = latest - first

\* The clock of the latest packet is the last timestamp, or an earlier one;
\* a tool that stops at the first loss has stopped.
TimesKept ==
  /\ time_loss_message_.total_timeloss_count <= again
  /\ ~tools.time => time_loss_message_.last_timestamp = 0
  /\ \/ time_loss_message_.last_timestamp <= latest
     \/ ~tools.continue /\ time_loss_message_.total_timeloss_count # 0

LossInv == LossTypes /\ (tools.loss /\ ~zeroed => SeqnumsKept /\ TimesKept)

\* The range of the sequence numbers.
LEMMA RangeType == SeqRange \in Nat \ {0} /\ SeqRange \in Int /\ SeqRange >= 2
BY LossAssumption

\* A remainder of what is in the range or just below it.
LEMMA ModNear ==
  ASSUME NEW R \in Nat \ {0}, NEW d \in Int, -R <= d, d < R
  PROVE  d % R = IF d >= 0 THEN d ELSE d + R
<1>1. CASE d >= 0
  <2>1. d \in 0..R - 1 /\ d = R * 0 + d
    BY <1>1
  <2> QED BY <1>1, <2>1, UniqueRemainder
<1>2. CASE d < 0
  <2>1. d + R \in 0..R - 1 /\ d = R * (-1) + (d + R)
    BY <1>2
  <2>2. -1 \in Int
    OBVIOUS
  <2>3. d % R = d + R
    BY <2>1, <2>2, UniqueRemainder
  <2> QED BY <1>2, <2>3
<1> QED BY <1>1, <1>2

\* What CalPktLoss counts for the packet i after the packet l.
LEMMA LostIs ==
  ASSUME NEW i \in Nat, NEW l \in Nat, i - l < SeqRange, 2 * (l - i) < SeqRange,
         NEW n, n = LostBetween(i % SeqRange, l % SeqRange)
  PROVE  /\ i = l => n = 0
         /\ i > l => n = i - l - 1
         /\ i < l => n = (i - l - 1) + SeqRange /\ n > 0
<1> DEFINE R == SeqRange
           d == i - l
           e == Minus(i % R, l % R)
<1>1. R \in Nat \ {0} /\ R >= 2 /\ R \in Int /\ i \in Int /\ l \in Int
  BY RangeType
<1>2. d \in Int /\ -R <= d /\ d < R /\ -R < 2 * d
  BY <1>1
<1>3. e = d % R
  BY <1>1, ModMinus DEF Minus
<1>4. d % R = IF d >= 0 THEN d ELSE d + R
  <2> HIDE DEF d, R
  <2> QED BY <1>1, <1>2, ModNear
<1>5. n = IF e > 1 THEN e - 1 ELSE 0
  BY DEF LostBetween
<1> HIDE DEF e
<1>6. e = IF d >= 0 THEN d ELSE d + R
  BY <1>3, <1>4
<1>7. CASE i = l
  BY <1>1, <1>5, <1>6, <1>7
<1>8. CASE i > l
  BY <1>1, <1>5, <1>6, <1>8
<1>9. CASE i < l
  <2>1. e = d + R /\ e > 1 /\ d < 0
    BY <1>1, <1>2, <1>6, <1>9
  <2> QED BY <1>1, <1>5, <1>9, <2>1
<1> QED BY <1>7, <1>8, <1>9

\* Adding it to a remainder.
LEMMA LostAdds ==
  ASSUME NEW X \in Int, NEW e \in Int, NEW n, n = e \/ n = e + SeqRange
  PROVE  ((X % SeqRange) + n) % SeqRange = (X + e) % SeqRange
<1> DEFINE R == SeqRange
<1>1. R \in Nat \ {0} /\ R \in Int /\ n \in Int
  BY RangeType
<1> HIDE DEF R
<1>2. ((X % R) + n) % R = (X + n) % R
  BY <1>1, ModAdd
<1>3. CASE n = e
  BY <1>2, <1>3 DEF R
<1>4. CASE n = e + R
  <2> DEFINE c == X + e
  <2>1. c \in Int /\ X + n = c + R * 1 /\ 1 \in Int
    BY <1>1, <1>4
  <2> HIDE DEF c
  <2>2. (c + R * 1) % R = c % R
    BY <1>1, <2>1, ModShift
  <2> QED BY <1>2, <2>1, <2>2 DEF R, c
<1> QED BY <1>3, <1>4 DEF R

\* CalPktLoss as long as start_seqnum has not been 0.
LEMMA CalPktLossIs ==
  ASSUME LossInv, tools.loss, NEW i \in Nat, CalPktLoss(i % SeqRange), ~zeroed'
  PROVE  LET m == seqnum_loss_message_
             n == LostBetween(i % SeqRange, latest % SeqRange)
         IN  /\ ~zeroed /\ SeqnumsKept /\ TimesKept
             /\ m'.start_seqnum # 0 /\ m'.last_seqnum = i % SeqRange
             /\ got = {} => m'.total_loss_count = 0 /\ total_packet_count_' = total_packet_count_
             /\ got # {} =>
                  /\ m'.total_loss_count = (m.total_loss_count + n) % SeqRange
                  /\ m'.is_packet_loss <=> n > 0
             /\ total_packet_count_' =
                  IF i % SeqRange > latest % SeqRange /\ latest % SeqRange # 0
                  THEN (total_packet_count_ + ((i % SeqRange) - (latest % SeqRange))) % SeqRange
                  ELSE total_packet_count_
<1> DEFINE m == seqnum_loss_message_
           s == i % SeqRange
           n == LostBetween(s, latest % SeqRange)
           c == (m.loss_count + n) % SeqRange
<1>1. zeroed' = (zeroed \/ m'.start_seqnum = 0)
  BY DEF CalPktLoss
<1>2. ~zeroed /\ m'.start_seqnum # 0
  BY <1>1 DEF LossInv, LossTypes
<1>3. SeqnumsKept /\ TimesKept
  BY <1>2 DEF LossInv
<1>4. m.last_seqnum = latest % SeqRange /\ (got = {} <=> m.start_seqnum = 0)
  BY <1>3 DEF SeqnumsKept
<1>5. total_packet_count_' =
        IF s > latest % SeqRange /\ latest % SeqRange # 0
        THEN (total_packet_count_ + (s - (latest % SeqRange))) % SeqRange ELSE total_packet_count_
  BY <1>4 DEF CalPktLoss
<1>6. CASE got = {}
  <2>1. m' = [start_seqnum |-> s, last_seqnum |-> s, loss_count |-> 0,
              total_loss_count |-> 0, is_packet_loss |-> FALSE]
    BY <1>4, <1>6 DEF CalPktLoss
  <2>2. latest % SeqRange = 0
    <3>1. latest = 0
      BY <1>6 DEF LossInv, LossTypes
    <3>2. 0 % SeqRange = 0
      BY RangeType
    <3> QED BY <3>1, <3>2
  <2> QED BY <1>2, <1>3, <1>5, <1>6, <2>1, <2>2
<1>7. CASE got # {}
  <2>1. PICK second \in {FALSE} \cup {c # 0} :
           m' = [start_seqnum |-> IF second THEN s ELSE m.start_seqnum, last_seqnum |-> s,
                 loss_count |-> IF second THEN 0 ELSE c,
                 total_loss_count |-> (m.total_loss_count + n) % SeqRange, is_packet_loss |-> n > 0]
    BY <1>4, <1>7 DEF CalPktLoss
  <2>2. m'.last_seqnum = s /\ m'.total_loss_count = (m.total_loss_count + n) % SeqRange
        /\ (m'.is_packet_loss <=> n > 0)
    BY <2>1
  <2> QED BY <1>2, <1>3, <1>5, <1>7, <2>2
<1> QED BY <1>6, <1>7

\* CalPktTimeLoss counts a packet that is not later than the one before only
\* when it is decoded again.
LEMMA CalPktTimeLossKeeps ==
  ASSUME LossTypes, NEW i \in Nat, NEW a \in Nat, CalPktTimeLoss(i)
  PROVE  LET t == time_loss_message_
         IN  /\ t' \in [start_timestamp : Nat, last_timestamp : Nat, total_timeloss_count : Nat]
             /\ /\ TimesKept /\ again <= a
                /\ i <= latest => seqnum_loss_message_'.is_packet_loss \/ a >= again + 1
                => /\ t'.total_timeloss_count <= a
                   /\ ~tools.time => t'.last_timestamp = 0
                   /\ t'.last_timestamp <= i \/ (~tools.continue /\ t'.total_timeloss_count # 0)
<1> DEFINE t == time_loss_message_
<1>1. t \in [start_timestamp : Nat, last_timestamp : Nat, total_timeloss_count : Nat] /\ latest \in Nat /\ again \in Nat
  BY DEF LossTypes
<1>2. CASE ~tools.time \/ (~tools.continue /\ t.total_timeloss_count # 0)
  <2>1. t' = t
    BY <1>2 DEF CalPktTimeLoss
  <2> QED BY <1>1, <1>2, <2>1 DEF TimesKept
<1>3. CASE ~(~tools.time \/ (~tools.continue /\ t.total_timeloss_count # 0)) /\ t.start_timestamp = 0
  <2>1. t' = [start_timestamp |-> i, last_timestamp |-> i, total_timeloss_count |-> 0]
    BY <1>3 DEF CalPktTimeLoss
  <2> QED BY <1>1, <1>3, <2>1
<1>4. CASE /\ ~(~tools.time \/ (~tools.continue /\ t.total_timeloss_count # 0)) /\ t.start_timestamp # 0
           /\ seqnum_loss_message_'.is_packet_loss
  <2>1. t' = [t EXCEPT !.start_timestamp = i, !.last_timestamp = i]
    BY <1>4 DEF CalPktTimeLoss, RestartsAfterLoss
  <2>2. t'.last_timestamp = i /\ t'.total_timeloss_count = t.total_timeloss_count
        /\ t' \in [start_timestamp : Nat, last_timestamp : Nat, total_timeloss_count : Nat]
    BY <1>1, <2>1
  <2> QED BY <1>1, <1>4, <2>2 DEF TimesKept
<1>5. CASE /\ ~(~tools.time \/ (~tools.continue /\ t.total_timeloss_count # 0)) /\ t.start_timestamp # 0
           /\ ~seqnum_loss_message_'.is_packet_loss
  <2>1. t' = [t EXCEPT !.total_timeloss_count = IF i <= t.last_timestamp THEN @ + 1 ELSE @,
                       !.last_timestamp = i]
    BY <1>5 DEF CalPktTimeLoss, RestartsAfterLoss
  <2>2. /\ t'.last_timestamp = i
        /\ t'.total_timeloss_count = IF i <= t.last_timestamp THEN t.total_timeloss_count + 1 ELSE t.total_timeloss_count
        /\ t' \in [start_timestamp : Nat, last_timestamp : Nat, total_timeloss_count : Nat]
    <3> DEFINE x == IF i <= t.last_timestamp THEN t.total_timeloss_count + 1 ELSE t.total_timeloss_count
    <3>1. x \in Nat
      BY <1>1
    <3>2. t' = [t EXCEPT !.total_timeloss_count = x, !.last_timestamp = i]
      BY <2>1
    <3> HIDE DEF x
    <3>3. /\ t'.last_timestamp = i /\ t'.total_timeloss_count = x
          /\ t' \in [start_timestamp : Nat, last_timestamp : Nat, total_timeloss_count : Nat]
      BY <1>1, <3>1, <3>2
    <3> QED BY <3>3 DEF x
  <2>3. TimesKept => t.last_timestamp <= latest /\ t.total_timeloss_count <= again
    BY <1>5 DEF TimesKept
  <2> QED BY <1>1, <1>5, <2>2, <2>3
<1> QED BY <1>2, <1>3, <1>4, <1>5

\* The packets received are finitely many.
LEMMA GotFinite ==
  ASSUME LossTypes
  PROVE  /\ IsFiniteSet(got) /\ Cardinality(got) \in Nat
         /\ \A i : i \notin got => Cardinality(got \cup {i}) = Cardinality(got) + 1
         /\ Cardinality({}) = 0
<1>1. IsFiniteSet(1..MaxIndex)
  BY LossAssumption, FS_Interval
<1>2. IsFiniteSet(got)
  BY <1>1, FS_Subset DEF LossTypes
<1> QED BY <1>2, FS_CardinalityType, FS_AddElement, FS_EmptySet

\* The invariant holds at first.
LEMMA LossInvInit == LossInit => LossInv
<1> SUFFICES ASSUME LossInit PROVE LossInv
  OBVIOUS
<1>1. /\ first = 0 /\ got = {} /\ latest = 0 /\ again = 0 /\ total_packet_count_ = 0
      /\ swapped = FALSE /\ zeroed = FALSE
      /\ seqnum_loss_message_.start_seqnum = 0 /\ seqnum_loss_message_.last_seqnum = 0
      /\ time_loss_message_ = [start_timestamp |-> 0, last_timestamp |-> 0, total_timeloss_count |-> 0]
  BY DEF LossInit
<1>2. swapped \in BOOLEAN /\ zeroed \in BOOLEAN
  BY <1>1, Zenon
<1>3. LossTypes
  BY <1>1, <1>2 DEF LossTypes
<1>4. 0 % SeqRange = 0
  BY RangeType
<1>5. SeqnumsKept /\ TimesKept
  BY <1>1, <1>4 DEF SeqnumsKept, TimesKept
<1> QED BY <1>3, <1>5 DEF LossInv

\* A packet keeps it.
LEMMA LossInvPacket == LossInv /\ LossPacket => LossInv'
<1> SUFFICES ASSUME LossInv, LossPacket PROVE LossInv'
  OBVIOUS
<1>1. PICK i \in 1..MaxIndex :
        /\ i \notin got
        /\ IF got = {} THEN first' = i
           ELSE first' = first /\ i > first /\ i - latest < SeqRange /\ 2 * (latest - i) < SeqRange
        /\ got' = got \cup {i} /\ latest' = i /\ swapped' = (swapped \/ i < latest)
        /\ Decode(i)
        /\ UNCHANGED <<again, tools>>
  BY DEF LossPacket
<1>2. LossTypes /\ i \in Nat /\ i >= 1 /\ again \in Nat /\ latest \in Nat /\ first \in Nat
  BY LossAssumption DEF LossInv, LossTypes
<1>3. CalPktLoss(i % SeqRange) /\ CalPktTimeLoss(i)
  BY <1>1 DEF Decode
<1>4. time_loss_message_' \in [start_timestamp : Nat, last_timestamp : Nat, total_timeloss_count : Nat]
  BY <1>2, <1>3, CalPktTimeLossKeeps
<1>5. swapped' \in BOOLEAN /\ zeroed' \in BOOLEAN
  <2>1. swapped' \in BOOLEAN
    BY <1>1, Zenon DEF LossInv, LossTypes
  <2>2. zeroed' = zeroed \/ zeroed' = (zeroed \/ seqnum_loss_message_'.start_seqnum = 0)
    BY <1>3 DEF CalPktLoss
  <2>3. zeroed' \in BOOLEAN
    BY <1>2, <2>2, Zenon DEF LossTypes
  <2> QED BY <2>1, <2>3
<1>6. LossTypes'
  <2>1. first' \in Nat /\ latest' \in Nat /\ again' \in Nat /\ got' \in SUBSET (1..MaxIndex) /\ got' # {}
    BY <1>1, <1>2 DEF LossTypes
  <2>2. first' \in got' /\ latest' \in got' /\ \A j \in got' : j >= first'
    BY <1>1, <1>2 DEF LossTypes
  <2> QED BY <1>4, <1>5, <2>1, <2>2 DEF LossTypes
<1>7. ASSUME tools'.loss, ~zeroed' PROVE SeqnumsKept' /\ TimesKept'
  <2> DEFINE m == seqnum_loss_message_
             n == LostBetween(i % SeqRange, latest % SeqRange)
             C == Cardinality(got)
  <2>1. /\ SeqnumsKept /\ TimesKept
        /\ m'.start_seqnum # 0 /\ m'.last_seqnum = i % SeqRange
        /\ got = {} => m'.total_loss_count = 0 /\ total_packet_count_' = total_packet_count_
        /\ got # {} => /\ m'.total_loss_count = (m.total_loss_count + n) % SeqRange
                       /\ m'.is_packet_loss <=> n > 0
        /\ total_packet_count_' =
             IF i % SeqRange > latest % SeqRange /\ latest % SeqRange # 0
             THEN (total_packet_count_ + ((i % SeqRange) - (latest % SeqRange))) % SeqRange
             ELSE total_packet_count_
    BY <1>1, <1>2, <1>3, <1>7, CalPktLossIs
  <2>2. C \in Nat /\ Cardinality(got') = C + 1
    BY <1>1, <1>2, GotFinite
  <2>3. got # {} => /\ i # latest /\ latest >= first /\ latest >= 1
                    /\ i > latest => n = i - latest - 1
                    /\ i < latest => n = (i - latest - 1) + SeqRange /\ n > 0
    <3>1. ASSUME got # {} PROVE i # latest /\ latest >= first /\ latest >= 1
      <4>1. latest \in got /\ i \notin got /\ got \subseteq 1..MaxIndex /\ \A j \in got : j >= first
        BY <1>1, <1>2, <3>1 DEF LossTypes
      <4>2. i # latest /\ latest >= first /\ latest \in 1..MaxIndex
        BY <4>1
      <4> QED BY <1>2, <4>2
    <3>2. ASSUME got # {} PROVE i - latest < SeqRange /\ 2 * (latest - i) < SeqRange
      BY <1>1, <3>2
    <3> QED BY <1>2, <3>1, <3>2, LostIs
  <2>4. got # {} => m'.total_loss_count = ((i - first) - C) % SeqRange
    <3> SUFFICES ASSUME got # {} PROVE m'.total_loss_count = ((i - first) - C) % SeqRange
      OBVIOUS
    <3> DEFINE X == (latest - first) - (C - 1)
               e == i - latest - 1
    <3>1. X \in Int /\ e \in Int /\ X + e = (i - first) - C
      BY <1>2, <2>2
    <3>2. m.total_loss_count = X % SeqRange
      BY <2>1 DEF SeqnumsKept, Balance
    <3>3. n = e \/ n = e + SeqRange
      BY <1>2, <2>3
    <3> HIDE DEF X, e, n
    <3>4. ((X % SeqRange) + n) % SeqRange = (X + e) % SeqRange
      BY <3>1, <3>3, LostAdds
    <3> QED BY <2>1, <3>1, <3>2, <3>4
  <2>5. got = {} => (i - first') - C = 0 /\ first' = i
    BY <1>1, <1>2, GotFinite
  <2>6. m'.total_loss_count = Balance' % SeqRange
    <3>1. Balance' = (i - first') - ((C + 1) - 1)
      BY <1>1, <2>2 DEF Balance
    <3>2. first' \in Nat
      BY <1>6 DEF LossTypes
    <3>3. Balance' = (i - first') - C
      BY <1>2, <2>2, <3>1, <3>2
    <3>4. CASE got = {}
      <4>1. 0 % SeqRange = 0
        BY RangeType
      <4> QED BY <2>1, <2>5, <3>3, <3>4, <4>1
    <3>5. CASE got # {}
      BY <1>1, <2>4, <3>3, <3>5
    <3> QED BY <3>4, <3>5
  <2>7. ASSUME i < SeqRange, ~swapped' PROVE total_packet_count_' = i - first'
    <3>1. CASE got = {}
      BY <1>2, <2>1, <2>5, <3>1 DEF SeqnumsKept
    <3>2. CASE got # {}
      <4>1. ~swapped /\ i > latest /\ first' = first
        <5>1. ~swapped /\ ~(i < latest)
          BY <1>1, <2>7
        <5>2. first' = first /\ i # latest
          BY <1>1, <2>3, <3>2
        <5> QED BY <1>2, <5>1, <5>2
      <4>2. latest < SeqRange /\ i % SeqRange = i /\ latest % SeqRange = latest
        <5>1. latest < SeqRange
          BY <1>2, <2>7, <4>1, RangeType
        <5> QED BY <1>2, <2>7, <5>1, RangeType
      <4>3. total_packet_count_ = latest - first
        BY <2>1, <3>2, <4>1, <4>2 DEF SeqnumsKept
      <4>4. total_packet_count_' = ((latest - first) + (i - latest)) % SeqRange
        BY <1>2, <2>1, <2>3, <3>2, <4>1, <4>2, <4>3
      <4>5. (latest - first) + (i - latest) = i - first /\ i - first \in 0..SeqRange - 1
        BY <1>1, <1>2, <2>7, <3>2, RangeType
      <4>6. (i - first) % SeqRange = i - first
        <5> DEFINE d == i - first
        <5>1. d \in 0..SeqRange - 1
          BY <4>5
        <5> HIDE DEF d
        <5>2. d % SeqRange = d
          BY <5>1, RangeType, ModNear
        <5> QED BY <5>2 DEF d
      <4> QED BY <4>1, <4>4, <4>5, <4>6
    <3> QED BY <3>1, <3>2
  <2>8. SeqnumsKept'
    <3>1. got' # {} /\ latest' = i
      BY <1>1
    <3> QED BY <2>1, <2>6, <2>7, <3>1 DEF SeqnumsKept
  <2>9. TimesKept'
    <3>1. i <= latest => m'.is_packet_loss
      <4>1. got = {} => latest = 0
        BY <1>2 DEF LossTypes
      <4> QED BY <1>2, <2>1, <2>3, <4>1
    <3>2. again' = again /\ again <= again /\ tools' = tools /\ latest' = i
      BY <1>1, <1>2
    <3>3. /\ time_loss_message_'.total_timeloss_count <= again
          /\ ~tools.time => time_loss_message_'.last_timestamp = 0
          /\ \/ time_loss_message_'.last_timestamp <= i
             \/ ~tools.continue /\ time_loss_message_'.total_timeloss_count # 0
      BY <1>2, <1>3, <2>1, <3>1, <3>2, CalPktTimeLossKeeps
    <3> QED BY <3>2, <3>3 DEF TimesKept
  <2> QED BY <2>8, <2>9
<1> QED BY <1>6, <1>7 DEF LossInv

\* The packet that ends a frame, decoded again, keeps it.
LEMMA LossInvAgain == LossInv /\ LossAgain => LossInv'
<1> SUFFICES ASSUME LossInv, LossAgain PROVE LossInv'
  OBVIOUS
<1>1. /\ got # {} /\ again' = again + 1 /\ UNCHANGED <<first, got, latest, swapped, tools>>
      /\ CalPktLoss(latest % SeqRange) /\ CalPktTimeLoss(latest)
  BY DEF LossAgain, Decode
<1>2. LossTypes /\ again \in Nat /\ latest \in Nat /\ first \in Nat /\ again + 1 \in Nat
  BY DEF LossInv, LossTypes
<1>3. time_loss_message_' \in [start_timestamp : Nat, last_timestamp : Nat, total_timeloss_count : Nat]
  BY <1>1, <1>2, CalPktTimeLossKeeps
<1>4. zeroed' \in BOOLEAN
  <2>1. zeroed' = zeroed \/ zeroed' = (zeroed \/ seqnum_loss_message_'.start_seqnum = 0)
    BY <1>1 DEF CalPktLoss
  <2> QED BY <1>2, <2>1, Zenon DEF LossTypes
<1>5. LossTypes'
  BY <1>1, <1>2, <1>3, <1>4 DEF LossTypes
<1>6. ASSUME tools'.loss, ~zeroed' PROVE SeqnumsKept' /\ TimesKept'
  <2> DEFINE m == seqnum_loss_message_
             n == LostBetween(latest % SeqRange, latest % SeqRange)
  <2>1. /\ SeqnumsKept /\ TimesKept
        /\ m'.start_seqnum # 0 /\ m'.last_seqnum = latest % SeqRange
        /\ m'.total_loss_count = (m.total_loss_count + n) % SeqRange
        /\ total_packet_count_' =
             IF latest % SeqRange > latest % SeqRange /\ latest % SeqRange # 0
             THEN (total_packet_count_ + ((latest % SeqRange) - (latest % SeqRange))) % SeqRange
             ELSE total_packet_count_
    BY <1>1, <1>2, <1>6, CalPktLossIs
  <2>2. n = 0
    <3>1. latest - latest < SeqRange /\ 2 * (latest - latest) < SeqRange
      BY <1>2, RangeType
    <3> QED BY <1>2, <3>1, LostIs
  <2>3. latest % SeqRange \in Int
    BY <1>2, RangeType
  <2>4. total_packet_count_' = total_packet_count_
    BY <2>1, <2>3
  <2>5. m'.total_loss_count = m.total_loss_count
    <3> DEFINE X == Balance
    <3>1. X \in Int
      BY <1>2, GotFinite DEF Balance
    <3>2. m.total_loss_count = X % SeqRange
      BY <1>1, <2>1 DEF SeqnumsKept
    <3> HIDE DEF X, n
    <3>3. ((X % SeqRange) + n) % SeqRange = (X + 0) % SeqRange
      BY <2>2, <3>1, LostAdds
    <3>4. X + 0 = X
      BY <3>1
    <3> QED BY <2>1, <3>2, <3>3, <3>4
  <2>6. Balance' = Balance
    BY <1>1 DEF Balance
  <2>7. SeqnumsKept'
    BY <1>1, <2>1, <2>4, <2>5, <2>6 DEF SeqnumsKept
  <2>8. /\ time_loss_message_'.total_timeloss_count <= again + 1
        /\ ~tools.time => time_loss_message_'.last_timestamp = 0
        /\ \/ time_loss_message_'.last_timestamp <= latest
           \/ ~tools.continue /\ time_loss_message_'.total_timeloss_count # 0
    <3>1. again <= again + 1 /\ again + 1 >= again + 1
      BY <1>2
    <3> QED BY <1>1, <1>2, <2>1, <3>1, CalPktTimeLossKeeps
  <2>9. TimesKept'
    BY <1>1, <2>8 DEF TimesKept
  <2> QED BY <2>7, <2>9
<1> QED BY <1>5, <1>6 DEF LossInv

\* Every step keeps it.
LEMMA LossInvNext == LossInv /\ [LossNext]_lossVars => LossInv'
<1>1. ASSUME LossInv, UNCHANGED lossVars PROVE LossInv'
  BY <1>1 DEF lossVars, LossInv, LossTypes, SeqnumsKept, TimesKept, Balance
<1> QED BY <1>1, LossInvPacket, LossInvAgain DEF LossNext

\* Every reachable state of the loss tool satisfies LossInv.
THEOREM LossInvariant == LossSpec => []LossInv
BY LossInvInit, LossInvNext, PTL DEF LossSpec

\* When the latest packet is the newest one, total_loss_count is the number of
\* packets missing, although the sequence numbers wrap round and packets are
\* overtaken; CalPktTimeLoss reports only packets that Run has decoded twice.
THEOREM LossesAreCounted == LossSpec => []LossesCounted
<1>1. LossInv => LossesCounted
  <2> SUFFICES ASSUME LossInv PROVE LossesCounted
    OBVIOUS
  <2>1. TimeLosses
    BY DEF LossInv, TimesKept, TimeLosses
  <2>2. ASSUME tools.loss, got # {}, ~zeroed, Newest
        PROVE  /\ seqnum_loss_message_.total_loss_count = Cardinality((first .. latest) \ got) % SeqRange
               /\ latest < SeqRange /\ ~swapped => total_packet_count_ = latest - first
    <3>1. SeqnumsKept /\ LossTypes
      BY <2>2 DEF LossInv
    <3>2. first \in Nat /\ latest \in Nat /\ latest >= first /\ got \subseteq first..latest
      <4>1. /\ first \in Nat /\ latest \in Nat /\ latest \in got /\ got \subseteq 1..MaxIndex
            /\ \A j \in got : j >= first
        BY <2>2, <3>1 DEF LossTypes
      <4>2. \A j \in got : j <= latest /\ j \in Int
        BY <2>2, <4>1, LossAssumption DEF Newest
      <4> QED BY <4>1, <4>2
    <3>3. IsFiniteSet(first..latest) /\ Cardinality(first..latest) = latest - first + 1
      BY <3>2, FS_Interval
    <3>4. Cardinality((first..latest) \ got) = Cardinality(first..latest) - Cardinality((first..latest) \cap got)
      BY <3>3, FS_Difference
    <3>5. (first..latest) \cap got = got
      BY <3>2
    <3>6. Cardinality(got) \in Nat
      BY <3>1, GotFinite
    <3>7. Cardinality((first..latest) \ got) = Balance
      <4> DEFINE c == Cardinality(got)
      <4>1. Cardinality((first..latest) \ got) = (latest - first + 1) - c
        BY <3>3, <3>4, <3>5, Zenon
      <4>2. Balance = (latest - first) - (c - 1)
        BY DEF Balance
      <4>3. c \in Nat
        BY <3>6
      <4> HIDE DEF c
      <4>4. (latest - first + 1) - c = (latest - first) - (c - 1)
        BY <3>2, <4>3
      <4> QED BY <4>1, <4>2, <4>4
    <3> QED BY <2>2, <3>1, <3>7 DEF SeqnumsKept
  <2> QED BY <2>1, <2>2 DEF LossesCounted, SeqnumLosses
<1> QED BY <1>1, LossInvariant, PTL
=============================================================================
