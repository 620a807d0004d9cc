---------------------------- MODULE MCFrameSplit ----------------------------
\* What the parsers remember from packet to packet: the split of eleven of
\* them, that of Udp4_3, and the loss tool.  They share nothing, so each is
\* explored while the other two have not begun.
EXTENDS FrameSplit, FieldSplit, PacketLoss

\* Every place of a frame's start, and one that is out of range.
AllStarts == -1 .. Circle - 1

NoSplit == Init /\ parser = "udp7_2" /\ start = 0
NoLoss == LossInit /\ tools = [loss |-> FALSE, time |-> FALSE, continue |-> FALSE]

MemoryInit ==
  \/ Init /\ FieldInit /\ NoLoss
  \/ NoSplit /\ FieldInit /\ LossInit

MemoryNext ==
  \/ FieldInit /\ NoLoss /\ Next /\ UNCHANGED <<fieldVars, lossVars>>
  \/ NoSplit /\ NoLoss /\ FieldNext /\ UNCHANGED <<vars, lossVars>>
  \/ NoSplit /\ FieldInit /\ LossNext /\ UNCHANGED <<vars, fieldVars>>

MemorySpec == MemoryInit /\ [][MemoryNext]_<<vars, fieldVars, lossVars>>
=============================================================================
