----------------------------- MODULE MCPtcClient -----------------------------
(***************************************************************************)
(* PtcClient with one command of each sort and, for the replies, a payload *)
(* of plain bytes, an empty one, one whose beginning reads as the header   *)
(* of a one-byte answer to "calibration", and fields that end in what      *)
(* looks like the first identifier byte before a payload that starts with  *)
(* the second.                                                             *)
(***************************************************************************)
EXTENDS PtcClient

Data == [look |-> "other", says |-> [cmd |-> "none", rc |-> 1, len |-> 0]]
Forged == << Identifier("id0"), Identifier("id1"),
             [look |-> "other", says |-> [cmd |-> "calibration", rc |-> 0, len |-> 1]] >>
Split == << Identifier("id1"), Forged[3] >>

MCAnswers ==
  {[rc |-> rc, look |-> "other", body |-> b] : rc \in 0..1, b \in {<<>>, <<Data>>, Forged \o <<Data>>}}
  \cup {[rc |-> 0, look |-> "id0", body |-> Split]}
==============================================================================
