----------------------------- MODULE PacketLoss -----------------------------
(***************************************************************************)
(* GeneralParser's packet loss tool: CalPktLoss counts gaps in the         *)
(* sequence numbers, CalPktTimeLoss timestamps that do not increase.       *)
(* DecodePacket calls both for every packet; Run decodes the packet that   *)
(* ends a frame a second time.                                             *)
(*                                                                         *)
(* The sensor numbers its packets from some index on and stamps them with  *)
(* an increasing clock, the index; the network loses packets and lets some *)
(* overtake others.                                                        *)
(***************************************************************************)
EXTENDS Integers, FiniteSets

CONSTANTS SeqRange,    \* 2^32
          MaxIndex,    \* bound: index of a packet
          MaxAgain     \* bound: packets decoded twice

ASSUME LossAssumption ==
  SeqRange \in Nat \ {0, 1} /\ MaxIndex \in Nat /\ MaxAgain \in Nat

VARIABLES
  first, got, latest,    \* sensor: first index, indices received, the latest
  swapped,               \* a packet has been overtaken
  again,                 \* how often a packet was decoded a second time
  zeroed,                \* start_seqnum has been a sequence number 0
  tools,                 \* enable_packet_loss_tool_ and the two for timestamps
  seqnum_loss_message_, time_loss_message_, total_packet_count_

lossVars == <<first, got, latest, swapped, again, zeroed, tools,
              seqnum_loss_message_, time_loss_message_, total_packet_count_>>

Minus(a, b) == (a - b) % SeqRange   \* uint32_t

\* Mutant: the difference is taken as a signed number.
LostBetweenSigned(seqnum, last) == IF seqnum - last > 1 THEN seqnum - last - 1 ELSE 0

LostBetween(seqnum, last) == IF Minus(seqnum, last) > 1 THEN Minus(seqnum, last) - 1 ELSE 0

\* The count of the last second is logged and begun anew when it is not 0;
\* whether a second has passed is open.
CalPktLoss(seqnum) ==
  LET m == seqnum_loss_message_
      n == LostBetween(seqnum, m.last_seqnum)
      c == (m.loss_count + n) % SeqRange
  IN  IF ~tools.loss THEN UNCHANGED <<seqnum_loss_message_, total_packet_count_, zeroed>>
      ELSE
        /\ total_packet_count_' =
             IF seqnum > m.last_seqnum /\ m.last_seqnum # 0
             THEN (total_packet_count_ + (seqnum - m.last_seqnum)) % SeqRange ELSE total_packet_count_
        /\ IF m.start_seqnum = 0
           THEN seqnum_loss_message_' =
                  [start_seqnum |-> seqnum, last_seqnum |-> seqnum, loss_count |-> 0,
                   total_loss_count |-> 0, is_packet_loss |-> FALSE]
           ELSE \E second \in {FALSE} \cup {c # 0} : seqnum_loss_message_' =
                  [start_seqnum |-> IF second THEN seqnum ELSE m.start_seqnum,
                   last_seqnum |-> seqnum,
                   loss_count |-> IF second THEN 0 ELSE c,
                   total_loss_count |-> (m.total_loss_count + n) % SeqRange,
                   is_packet_loss |-> n > 0]
        /\ zeroed' = (zeroed \/ seqnum_loss_message_'.start_seqnum = 0)

\* Mutant: a gap does not make the timestamps begin anew.
RestartsAfterLossNever == FALSE
RestartsAfterLoss == seqnum_loss_message_'.is_packet_loss

\* After CalPktLoss has set is_packet_loss.  The count of the last second is
\* only logged and is left out.
CalPktTimeLoss(timestamp) ==
  LET m == time_loss_message_
  IN  time_loss_message_' =
        IF ~tools.time \/ (~tools.continue /\ m.total_timeloss_count # 0) THEN m
        ELSE IF m.start_timestamp = 0
        THEN [start_timestamp |-> timestamp, last_timestamp |-> timestamp, total_timeloss_count |-> 0]
        ELSE IF RestartsAfterLoss
        THEN [m EXCEPT !.start_timestamp = timestamp, !.last_timestamp = timestamp]
        ELSE [m EXCEPT !.total_timeloss_count = IF timestamp <= m.last_timestamp THEN @ + 1 ELSE @,
                       !.last_timestamp = timestamp]

Decode(i) == CalPktLoss(i % SeqRange) /\ CalPktTimeLoss(i)

\* The next packet to arrive: a later one, before the numbers have come
\* round, or one that was overtaken by less than half of them.
LossPacket ==
  \E i \in 1 .. MaxIndex :
    /\ i \notin got
    /\ IF got = {} THEN first' = i
       ELSE first' = first /\ i > first /\ i - latest < SeqRange /\ 2 * (latest - i) < SeqRange
    /\ got' = got \cup {i} /\ latest' = i /\ swapped' = (swapped \/ i < latest)
    /\ Decode(i)
    /\ UNCHANGED <<again, tools>>

\* Run decodes the packet that ends a frame again.
LossAgain ==
  /\ got # {} /\ again < MaxAgain /\ again' = again + 1
  /\ Decode(latest)
  /\ UNCHANGED <<first, got, latest, swapped, tools>>

LossInit ==
  /\ first = 0 /\ got = {} /\ latest = 0 /\ swapped = FALSE /\ again = 0 /\ zeroed = FALSE
  /\ tools \in [loss : BOOLEAN, time : BOOLEAN, continue : BOOLEAN]
  /\ seqnum_loss_message_ = [start_seqnum |-> 0, last_seqnum |-> 0, loss_count |-> 0,
                             total_loss_count |-> 0, is_packet_loss |-> FALSE]
  /\ time_loss_message_ = [start_timestamp |-> 0, last_timestamp |-> 0, total_timeloss_count |-> 0]
  /\ total_packet_count_ = 0

LossNext == LossPacket \/ LossAgain

-----------------------------------------------------------------------------
(* Properties *)

Newest == \A i \in got : i <= latest

\* Unless start_seqnum has been 0, which the code takes for "not started":
\* when the latest packet is the newest one, total_loss_count is the number of
\* packets missing since the first, although the numbers wrap round and
\* overtaking makes the count fall below 0 for a while; and before they wrap
\* round and as long as nothing is overtaken total_packet_count_ is the number
\* sent after the first.
SeqnumLosses ==
  tools.loss /\ got # {} /\ ~zeroed /\ Newest =>
    /\ seqnum_loss_message_.total_loss_count = Cardinality((first .. latest) \ got) % SeqRange
    /\ latest < SeqRange /\ ~swapped => total_packet_count_ = latest - first

\* The clock of the sensor never goes back, and a packet that was overtaken is
\* told from one by its sequence number: the time losses reported are the
\* packets Run has decoded twice (again unless start_seqnum has been 0).
TimeLosses == tools.loss /\ ~zeroed => time_loss_message_.total_timeloss_count <= again

\* What the loss tool reports is what has happened to the packets.
LossesCounted == SeqnumLosses /\ TimeLosses
=============================================================================
