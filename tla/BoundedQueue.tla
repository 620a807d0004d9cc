---------------------------- MODULE BoundedQueue ----------------------------
(***************************************************************************)
(* What a BlockingRing promises its callers, with the storage, the lock    *)
(* and the condition variable abstracted away: a double-ended queue of at  *)
(* most N items.  Every operation is one indivisible step; `out` is the    *)
(* item the most recent removal handed to its caller.                      *)
(***************************************************************************)
EXTENDS Naturals, Sequences

CONSTANTS N,       \* capacity
          Values,  \* what may be stored
          Default  \* what `out` shows before the first removal

VARIABLES q,       \* the stored items, oldest first
          out      \* the item handed out by the latest removal

qvars == <<q, out>>

Init == q = <<>> /\ out = Default

PutBack(v) ==
  /\ Len(q) < N
  /\ q' = Append(q, v)
  /\ UNCHANGED out

PutFront(v) ==
  /\ Len(q) < N
  /\ q' = <<v>> \o q
  /\ UNCHANGED out

TakeFront ==
  /\ q # <<>>
  /\ out' = Head(q)
  /\ q' = Tail(q)

TakeBack ==
  /\ q # <<>>
  /\ out' = q[Len(q)]
  /\ q' = SubSeq(q, 1, Len(q) - 1)

Empty == q' = <<>> /\ UNCHANGED out

Next ==
  \/ \E v \in Values : PutBack(v) \/ PutFront(v)
  \/ TakeFront
  \/ TakeBack
  \/ Empty

Spec == Init /\ [][Next]_qvars
=============================================================================
