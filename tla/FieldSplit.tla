----------------------------- MODULE FieldSplit -----------------------------
(***************************************************************************)
(* Where a frame of the AT128 ends (Udp4_3Parser).  Its mirrors sweep      *)
(* three fields in turn, far from each other in azimuth: a frame ends when *)
(* the azimuth jumps, or when no packet comes at the end of a field.       *)
(*                                                                         *)
(* A packet is the field it belongs to, counted from 0 on (field), and the *)
(* place of its first block in it (place).                                 *)
(***************************************************************************)
EXTENDS Integers

CONSTANTS
  Width,       \* places of a field
  Spacing,     \* azimuth between the starts of two fields
  kAzimuthTolerance,
  Acceptance,  \* ACCEPTANCE_ANGLE
  MaxFields    \* bound: fields swept

\* The gap between two fields is a jump, and the end of one is not near
\* another one's (in hundredths of a degree: 7625, about 12000, 1000, 200).
ASSUME FieldAssumption ==
  /\ Width \in Nat \ {0, 1} /\ Spacing \in Nat /\ Acceptance \in Nat /\ MaxFields \in Nat
  /\ kAzimuthTolerance \in Nat
  /\ Acceptance <= kAzimuthTolerance /\ Acceptance <= Width
  /\ Spacing - Width > kAzimuthTolerance

VARIABLES field, place,   \* sensor: the latest packet
          over,           \* sensor: what is left of this field will not be sent
          is_timeout_,    \* a timeout is reported once until a packet comes
          last_azimuth_, use_angle_,
          fields,         \* the fields of the packets in the frame
          published       \* the last field published; -1: none

fieldVars == <<field, place, over, is_timeout_, last_azimuth_, use_angle_, fields, published>>

start_frame(i) == 1 + i * Spacing
Azimuth(f, p) == start_frame(f % 3) + p

\* MARGINAL_ANGLE after its start a field ends.
Margin == Width - 1

Dist(a, b) == IF a < b THEN b - a ELSE a - b

Jumps(azimuth) == Dist(azimuth, last_azimuth_) > kAzimuthTolerance /\ last_azimuth_ # 0

\* Mutant: the jump after a timeout does not bring back the splitting.
UseAngleKept(jump) == use_angle_

\* The jump that follows a frame ended by a timeout is passed over.
UseAngle(jump) == use_angle_ \/ jump

Splits(jump) == jump /\ use_angle_

\* Run publishes a frame and begins the next one.
Publish == published' = IF fields = {} THEN published ELSE CHOOSE f \in fields : \A g \in fields : g <= f

\* The two blocks of a packet are at places p and p + 1; the second is no
\* jump.  A packet that splits is decoded again, into the new frame: its
\* first block is then near last_azimuth_.
Udp4_3DecodePacket(f, p) ==
  LET jump == Jumps(Azimuth(f, p))
  IN  /\ last_azimuth_' = Azimuth(f, p + 1)
      /\ use_angle_' = UseAngle(jump)
      /\ IF Splits(jump) THEN Publish /\ fields' = {f}
                         ELSE fields' = fields \cup {f} /\ UNCHANGED published

\* The next packet to arrive: of this field, less than a jump further on, or
\* of one of the next two.
FieldPacket ==
  /\ \E f \in field .. field + 2, p \in 0 .. Width - 2 :
       /\ f < MaxFields
       /\ f = field => p > place /\ p - place <= kAzimuthTolerance /\ ~over
       /\ field' = f /\ place' = p /\ over' = FALSE
       /\ Udp4_3DecodePacket(f, p)
  /\ is_timeout_' = FALSE

\* Mutant: a timeout ends a frame anywhere.
AtFieldEndAnywhere == TRUE
AtFieldEnd == \E i \in 0 .. 2 : Dist(start_frame(i) + Margin, last_azimuth_) < Acceptance

\* select times out.  Where a field ends, nothing more comes of it.
TimeoutPacket ==
  /\ ~is_timeout_ /\ is_timeout_' = TRUE
  /\ over' = (over \/ Dist(Azimuth(field, Margin), Azimuth(field, place + 1)) < Acceptance)
  /\ IF AtFieldEnd THEN Publish /\ fields' = {} /\ use_angle_' = FALSE
                   ELSE UNCHANGED <<use_angle_, fields, published>>
  /\ UNCHANGED <<field, place, last_azimuth_>>

FieldInit ==
  /\ field = 0 /\ place = -1 /\ over = FALSE /\ is_timeout_ = FALSE
  /\ last_azimuth_ = 0 /\ use_angle_ = TRUE /\ fields = {} /\ published = -1

FieldNext == FieldPacket \/ TimeoutPacket

-----------------------------------------------------------------------------
(* Properties *)

\* With packets lost, whole fields included, and timeouts at any time, a frame
\* holds packets of the field that is swept, and of no other, and no part of
\* that field has been published before: a timeout does not split a field in
\* two, nor make the parser miss the jump after the next one.
FrameIsOneField ==
  /\ fields \subseteq {field}
  /\ published \notin fields
=============================================================================
