------------------------- MODULE BlockingRingProofs -------------------------
(***************************************************************************)
(* Proofs about BlockingRing for every capacity, every set of items and    *)
(* every set of threads.                                                   *)
(***************************************************************************)
EXTENDS BlockingRing, SequenceTheorems, TLAPS

\* The slots of a ring of n places: adding less than n to an index below n
\* wraps round at most once.
LEMMA WrapOnce ==
  ASSUME NEW n \in Nat \ {0}, NEW x \in 0..(2*n-1)
  PROVE  x % n = IF x < n THEN x ELSE x - n
<1>1. CASE x < n
  BY <1>1
<1>2. CASE x >= n
  BY <1>2
<1> QED BY <1>1, <1>2

\* The k-th slot after slot b, written without the modulus.
SlotNoMod(b, k) == IF b + k < N THEN b + k ELSE b + k - N

LEMMA SlotValue ==
  ASSUME NEW b \in 0..N-1, NEW k \in 0..N
  PROVE  Slot(b, k) = SlotNoMod(b, k)
<1>1. N \in Nat \ {0}
  BY RingAssumption
<1>2. b + k \in 0..(2*N-1)
  BY <1>1
<1>3. PICK x \in 0..(2*N-1) : x = b + k
  BY <1>2
<1>4. x % N = IF x < N THEN x ELSE x - N
  BY <1>1, WrapOnce
<1> QED BY <1>1, <1>3, <1>4 DEF Slot, SlotNoMod

\* The inductive invariant: the types, the calls and the live slots.
IInv == TypeOK /\ CallsOK /\ LiveSlots

\* Nothing a step does to the threads alone can disturb the ring.
LEMMA CallShape ==
  ASSUME TypeOK, CallsOK, NEW t \in Threads, ReturnAndNotifyOne(t)
  PROVE  /\ op' = [op EXCEPT ![t] = "none"]
         /\ arg' = [arg EXCEPT ![t] = Default]
         /\ at' \in [Threads -> {"out", "lock", "wait"}]
         /\ at'[t] = "out"
         /\ \A u \in Threads \ {t} : at'[u] = "out" <=> at[u] = "out"
         /\ CallsOK'
BY DEF ReturnAndNotifyOne, TypeOK, CallsOK, Threads, AllPush, AllPop

\* What the ring operations do to the contents, each given the invariant.
LEMMA ContentsSeq ==
  ASSUME TypeOK, LiveSlots
  PROVE  Contents \in Seq(Values) /\ Len(Contents) = size
<1>1. size \in Nat /\ \A i \in 1..size : i - 1 \in 0..size-1
  BY RingAssumption DEF TypeOK
<1>2. \A i \in 1..size : ring[Slot(begin, i - 1)] \in Values
  BY <1>1 DEF LiveSlots
<1> QED BY <1>1, <1>2 DEF Contents

LEMMA PushBackContents ==
  ASSUME TypeOK, LiveSlots, ~full, NEW v \in Values, RingPushBack(v)
  PROVE  /\ ring' \in [0..N-1 -> Values \cup {Default}]
         /\ begin' \in 0..N-1 /\ size' \in 0..N
         /\ LiveSlots'
         /\ Contents' = Append(Contents, v)
<1>1. N \in Nat \ {0} /\ begin \in 0..N-1 /\ size \in 0..N-1 /\ size' = size + 1 /\ begin' = begin
  BY RingAssumption DEF TypeOK, full, RingPushBack
<1>2. \A k \in 0..N : Slot(begin, k) = SlotNoMod(begin, k)
  BY SlotValue, <1>1
<1>3. Slot(begin, size) \in 0..N-1
      /\ \A k \in 0..size-1 : Slot(begin, k) # Slot(begin, size) /\ Slot(begin, k) \in 0..N-1
  BY <1>1, <1>2 DEF SlotNoMod
<1>4. ring' \in [0..N-1 -> Values \cup {Default}]
  BY <1>3 DEF TypeOK, RingPushBack
<1>5. \A k \in 0..size-1 : ring'[Slot(begin, k)] = ring[Slot(begin, k)]
  BY <1>3 DEF TypeOK, RingPushBack
<1>6. ring'[Slot(begin, size)] = v
  BY <1>3 DEF TypeOK, RingPushBack
<1>7. LiveSlots'
  <2> SUFFICES ASSUME NEW k \in 0..size'-1 PROVE ring'[Slot(begin, k)] \in Values
    BY <1>1 DEF LiveSlots
  <2>1. CASE k = size
    BY <2>1, <1>6
  <2>2. CASE k \in 0..size-1
    BY <2>2, <1>5 DEF LiveSlots
  <2> QED BY <2>1, <2>2, <1>1
<1>8. Contents' = Append(Contents, v)
  <2>1. Contents \in Seq(Values) /\ Len(Contents) = size
    BY ContentsSeq
  <2>2. Contents' = [i \in 1..size+1 |-> ring'[Slot(begin, i-1)]]
    BY <1>1 DEF Contents
  <2>3. Contents' \in Seq(Values) /\ Len(Contents') = size + 1
    <3>1. \A i \in 1..size+1 : i - 1 \in 0..size'-1
      BY <1>1
    <3> QED BY <2>2, <3>1, <1>1, <1>7 DEF LiveSlots
  <2>4. \A i \in 1..size : Contents'[i] = Contents[i]
    <3>1. \A i \in 1..size : i - 1 \in 0..size-1 /\ i \in 1..size+1
      BY <1>1
    <3> QED BY <2>2, <3>1, <1>5 DEF Contents
  <2>5. Contents'[size + 1] = v
    <3>1. size + 1 \in 1..size+1 /\ (size + 1) - 1 = size
      BY <1>1
    <3> QED BY <2>2, <3>1, <1>6
  <2> HIDE DEF Contents
  <2> QED BY <2>1, <2>3, <2>4, <2>5, <1>1
<1> QED BY <1>1, <1>4, <1>7, <1>8

\* Taking the first item away shifts the others down by one.
LEMMA PopFrontContents ==
  ASSUME TypeOK, LiveSlots, ~empty,
         size' = size - 1, begin' = Slot(begin, 1),
         ring' \in [0..N-1 -> Values \cup {Default}],
         \A k \in 1..size-1 : ring'[Slot(begin, k)] = ring[Slot(begin, k)]
  PROVE  /\ begin' \in 0..N-1 /\ size' \in 0..N
         /\ LiveSlots'
         /\ Contents # <<>> /\ Contents' = Tail(Contents)
         /\ ring[begin] = Head(Contents) /\ ring[begin] \in Values
<1>1. N \in Nat \ {0} /\ begin \in 0..N-1 /\ size \in 1..N
  BY RingAssumption DEF TypeOK, empty
<1>2. \A k \in 0..N : Slot(begin, k) = SlotNoMod(begin, k)
  BY SlotValue, <1>1
<1>3. begin' \in 0..N-1 /\ begin' = SlotNoMod(begin, 1) /\ Slot(begin, 0) = begin
  BY <1>1, <1>2 DEF SlotNoMod
<1>4. \A k \in 0..N : Slot(begin', k) = SlotNoMod(begin', k)
  BY SlotValue, <1>3
<1>5. \A k \in 0..size-2 : Slot(begin', k) = Slot(begin, k + 1) /\ k + 1 \in 1..size-1
  <2> TAKE k \in 0..size-2
  <2>1. k \in 0..N /\ k + 1 \in 0..N /\ k + 1 \in 1..size-1
    BY <1>1
  <2>2. SlotNoMod(begin', k) = SlotNoMod(begin, k + 1)
    BY <1>1, <1>3, <2>1 DEF SlotNoMod
  <2> QED BY <1>2, <1>4, <2>1, <2>2
<1>6. \A k \in 0..size-2 : ring'[Slot(begin', k)] = ring[Slot(begin, k + 1)]
  BY <1>5
<1>7. \A k \in 0..size-1 : ring[Slot(begin, k)] \in Values
  BY DEF LiveSlots
<1>8. LiveSlots'
  <2>1. \A k \in 0..size-2 : k + 1 \in 0..size-1
    BY <1>1
  <2> QED BY <1>1, <1>6, <1>7, <2>1 DEF LiveSlots
<1>9. Contents \in Seq(Values) /\ Len(Contents) = size
  BY ContentsSeq
<1>10. Contents' = [i \in 1..size-1 |-> ring'[Slot(begin', i - 1)]]
  BY DEF Contents
<1>11. Contents' \in Seq(Values) /\ Len(Contents') = size - 1
  <2>1. \A i \in 1..size-1 : i - 1 \in 0..size'-1
    BY <1>1
  <2> QED BY <1>10, <2>1, <1>1, <1>8 DEF LiveSlots
<1>12. \A i \in 1..size-1 : Contents'[i] = Contents[i + 1]
  <2>1. \A i \in 1..size-1 : i - 1 \in 0..size-2 /\ i + 1 \in 1..size /\ (i + 1) - 1 = (i - 1) + 1
    BY <1>1
  <2> QED BY <1>10, <2>1, <1>6 DEF Contents
<1>13. Contents[1] = ring[begin]
  <2>1. 1 \in 1..size /\ 1 - 1 = 0
    BY <1>1
  <2> QED BY <2>1, <1>3 DEF Contents
<1>14. ring[begin] \in Values
  <2>1. 0 \in 0..size-1
    BY <1>1
  <2> QED BY <2>1, <1>3, <1>7
<1> HIDE DEF Contents
<1>15. Contents # <<>> /\ Head(Contents) = Contents[1]
  BY <1>1, <1>9
<1>16. Contents' = Tail(Contents)
  BY <1>1, <1>9, <1>11, <1>12
<1> QED BY <1>1, <1>3, <1>8, <1>13, <1>14, <1>15, <1>16

LEMMA PopBackContents ==
  ASSUME TypeOK, LiveSlots, ~empty, RingPopBack
  PROVE  /\ ring' \in [0..N-1 -> Values \cup {Default}]
         /\ begin' \in 0..N-1 /\ size' \in 0..N
         /\ LiveSlots'
         /\ Contents # <<>> /\ Contents' = SubSeq(Contents, 1, Len(Contents) - 1)
         /\ out' = Contents[Len(Contents)] /\ out' \in Values
<1>1. N \in Nat \ {0} /\ begin \in 0..N-1 /\ size \in 1..N /\ begin' = begin /\ size' = size - 1
  BY RingAssumption DEF TypeOK, empty, RingPopBack
<1>2. \A k \in 0..N : Slot(begin, k) = SlotNoMod(begin, k)
  BY SlotValue, <1>1
<1>3. Slot(begin, size - 1) \in 0..N-1
      /\ \A k \in 0..size-2 : Slot(begin, k) # Slot(begin, size - 1) /\ Slot(begin, k) \in 0..N-1
  BY <1>1, <1>2 DEF SlotNoMod
<1>4. ring' \in [0..N-1 -> Values \cup {Default}]
  BY <1>3 DEF TypeOK, RingPopBack
<1>5. \A k \in 0..size-2 : ring'[Slot(begin, k)] = ring[Slot(begin, k)] /\ k \in 0..size-1
  BY <1>1, <1>3 DEF TypeOK, RingPopBack
<1>6. LiveSlots'
  BY <1>1, <1>5 DEF LiveSlots
<1>7. Contents \in Seq(Values) /\ Len(Contents) = size
  BY ContentsSeq
<1>8. Contents' = [i \in 1..size-1 |-> ring'[Slot(begin, i - 1)]]
  BY <1>1 DEF Contents
<1>9. Contents' \in Seq(Values) /\ Len(Contents') = size - 1
  <2>1. \A i \in 1..size-1 : i - 1 \in 0..size'-1
    BY <1>1
  <2> QED BY <1>8, <2>1, <1>1, <1>6 DEF LiveSlots
<1>10. \A i \in 1..size-1 : Contents'[i] = Contents[i]
  <2>1. \A i \in 1..size-1 : i - 1 \in 0..size-2 /\ i \in 1..size
    BY <1>1
  <2> QED BY <1>8, <2>1, <1>5 DEF Contents
<1>11. out' = Contents[size]
  BY <1>1 DEF RingPopBack, Contents
<1> HIDE DEF Contents
<1>12. Contents' = SubSeq(Contents, 1, Len(Contents) - 1) /\ Contents # <<>> /\ Contents[size] \in Values
  BY <1>1, <1>7, <1>9, <1>10
<1> QED BY <1>1, <1>4, <1>6, <1>7, <1>11, <1>12

LEMMA PushFrontContents ==
  ASSUME TypeOK, LiveSlots, ~full, NEW v \in Values, RingPushFront(v)
  PROVE  /\ ring' \in [0..N-1 -> Values \cup {Default}]
         /\ begin' \in 0..N-1 /\ size' \in 0..N
         /\ LiveSlots'
         /\ Contents' = <<v>> \o Contents
<1>1. N \in Nat \ {0} /\ begin \in 0..N-1 /\ size \in 0..N-1 /\ size' = size + 1
  BY RingAssumption DEF TypeOK, full, RingPushFront
<1>2. \A k \in 0..N : Slot(begin, k) = SlotNoMod(begin, k)
  BY SlotValue, <1>1
<1>3. begin' \in 0..N-1 /\ begin' = SlotNoMod(begin, N - 1)
  BY <1>1, <1>2 DEF SlotNoMod, RingPushFront
<1>4. \A k \in 0..N : Slot(begin', k) = SlotNoMod(begin', k)
  BY SlotValue, <1>3
<1>5. \A k \in 1..size : /\ Slot(begin', k) = Slot(begin, k - 1)
                         /\ Slot(begin, k - 1) # begin'
                         /\ Slot(begin, k - 1) \in 0..N-1
                         /\ k - 1 \in 0..size-1
  BY <1>1, <1>2, <1>3, <1>4 DEF SlotNoMod
<1>6. Slot(begin', 0) = begin'
  BY <1>1, <1>3, <1>4 DEF SlotNoMod
<1>7. /\ ring' \in [0..N-1 -> Values \cup {Default}]
      /\ ring'[Slot(begin', 0)] = v
      /\ \A k \in 1..size : ring'[Slot(begin', k)] = ring[Slot(begin, k - 1)]
  BY <1>3, <1>5, <1>6 DEF TypeOK, RingPushFront
<1>8. LiveSlots'
  <2>1. \A k \in 0..size : k = 0 \/ k \in 1..size
    BY <1>1
  <2>2. \A k \in 0..size : ring'[Slot(begin', k)] \in Values
    BY <1>5, <1>7, <2>1 DEF LiveSlots
  <2> QED BY <1>1, <2>2 DEF LiveSlots
<1>9. Contents \in Seq(Values) /\ Len(Contents) = size
  BY ContentsSeq
<1>10. Contents' = [i \in 1..size+1 |-> ring'[Slot(begin', i - 1)]]
  BY <1>1 DEF Contents
<1>11. Contents' \in Seq(Values) /\ Len(Contents') = size + 1
  <2>1. \A i \in 1..size+1 : i - 1 \in 0..size'-1
    BY <1>1
  <2> QED BY <1>10, <2>1, <1>1, <1>8 DEF LiveSlots
<1>12. Contents'[1] = v
  <2>1. 1 \in 1..size+1 /\ 1 - 1 = 0
    BY <1>1
  <2> QED BY <1>10, <2>1, <1>7
<1>13. \A i \in 2..size+1 : Contents'[i] = Contents[i - 1]
  <2>1. \A i \in 2..size+1 : i - 1 \in 1..size /\ i \in 1..size+1 /\ (i - 1) - 1 \in 0..size-1
    BY <1>1
  <2> QED BY <1>10, <2>1, <1>7 DEF Contents
<1> HIDE DEF Contents
<1>14. Contents' = <<v>> \o Contents
  BY <1>1, <1>9, <1>11, <1>12, <1>13
<1> QED BY <1>1, <1>3, <1>7, <1>8, <1>14

-----------------------------------------------------------------------------
(* The inductive invariant *)

\* A producer's item is a value, and each side runs its own operations.
LEMMA ThreadSides ==
  ASSUME TypeOK, CallsOK, NEW t \in Threads, op[t] # "none"
  PROVE  /\ t \in Producers => op[t] \in AllPush /\ arg[t] \in Values
         /\ t \in Consumers => op[t] \in AllPop
         /\ op[t] \in AllPush => t \in Producers /\ arg[t] \in Values
BY DEF CallsOK, Threads, AllPush, AllPop

\* Every step of the ring is a step of the bounded deque or leaves it alone,
\* and keeps the invariant.
LEMMA StepLemma ==
  ASSUME IInv, [Next]_vars
  PROVE  IInv' /\ [Queue!Next]_(Queue!qvars)
<1> USE DEF IInv
<1>u. N \in Nat \ {0}
  BY RingAssumption
<1>n. ASSUME UNCHANGED <<ring, begin, size, out>>
      PROVE  LiveSlots' /\ UNCHANGED Queue!qvars
  BY <1>n DEF LiveSlots, Contents, Queue!qvars
<1>1. ASSUME NEW t \in Producers, Produce(t)
      PROVE  IInv' /\ UNCHANGED Queue!qvars
  <2>1. PICK o \in PushOps, v \in Values : Call(t, o, v)
    BY <1>1 DEF Produce
  <2>2. TypeOK' /\ CallsOK'
    BY <2>1, RingAssumption DEF Call, TypeOK, CallsOK, Threads, AllPush, AllPop
  <2> QED BY <2>1, <2>2, <1>n DEF Call
<1>2. ASSUME NEW t \in Consumers, Consume(t)
      PROVE  IInv' /\ UNCHANGED Queue!qvars
  <2>1. PICK o \in PopOps : Call(t, o, Default)
    BY <1>2 DEF Consume
  <2>2. TypeOK' /\ CallsOK'
    BY <2>1, RingAssumption DEF Call, TypeOK, CallsOK, Threads, AllPush, AllPop
  <2> QED BY <2>1, <2>2, <1>n DEF Call
<1>3. ASSUME NEW t \in Threads, Wait(t) \/ Wake(t)
      PROVE  IInv' /\ UNCHANGED Queue!qvars
  <2>1. TypeOK' /\ CallsOK'
    BY <1>3 DEF Wait, Wake, TypeOK, CallsOK, Threads
  <2> QED BY <1>3, <2>1, <1>n DEF Wait, Wake
<1>4. ASSUME NEW t \in Threads, PushBack(t)
      PROVE  IInv' /\ Queue!Next
  <2>1. arg[t] \in Values
    BY <1>4, ThreadSides DEF PushBack, AllPush
  <2>2. /\ ring' \in [0..N-1 -> Values \cup {Default}]
        /\ begin' \in 0..N-1 /\ size' \in 0..N
        /\ LiveSlots' /\ Contents' = Append(Contents, arg[t])
    BY <1>4, <2>1, PushBackContents DEF PushBack
  <2>3. CallsOK' /\ TypeOK'
    BY <1>4, <2>2, CallShape DEF PushBack, TypeOK
  <2>4. Len(Contents) < N
    BY <1>4, ContentsSeq, <1>u DEF PushBack, full, TypeOK
  <2>5. Queue!PutBack(arg[t])
    BY <1>4, <2>2, <2>4 DEF PushBack, Queue!PutBack
  <2> QED BY <2>1, <2>2, <2>3, <2>5 DEF Queue!Next
<1>5. ASSUME NEW t \in Threads, PushFront(t)
      PROVE  IInv' /\ Queue!Next
  <2>1. arg[t] \in Values
    BY <1>5, ThreadSides DEF PushFront, AllPush
  <2>2. /\ ring' \in [0..N-1 -> Values \cup {Default}]
        /\ begin' \in 0..N-1 /\ size' \in 0..N
        /\ LiveSlots' /\ Contents' = <<arg[t]>> \o Contents
    BY <1>5, <2>1, PushFrontContents DEF PushFront
  <2>3. CallsOK' /\ TypeOK'
    BY <1>5, <2>2, CallShape DEF PushFront, TypeOK
  <2>4. Len(Contents) < N
    BY <1>5, ContentsSeq, <1>u DEF PushFront, full, TypeOK
  <2>5. Queue!PutFront(arg[t])
    BY <1>5, <2>2, <2>4 DEF PushFront, Queue!PutFront
  <2> QED BY <2>1, <2>2, <2>3, <2>5 DEF Queue!Next
<1>6. ASSUME NEW t \in Threads, PopBack(t)
      PROVE  IInv' /\ Queue!Next
  <2>2. /\ ring' \in [0..N-1 -> Values \cup {Default}]
        /\ begin' \in 0..N-1 /\ size' \in 0..N
        /\ LiveSlots'
        /\ Contents # <<>> /\ Contents' = SubSeq(Contents, 1, Len(Contents) - 1)
        /\ out' = Contents[Len(Contents)] /\ out' \in Values
    BY <1>6, PopBackContents DEF PopBack
  <2>3. CallsOK' /\ TypeOK'
    BY <1>6, <2>2, CallShape DEF PopBack, TypeOK
  <2>4. Queue!TakeBack
    BY <2>2 DEF Queue!TakeBack
  <2> QED BY <2>2, <2>3, <2>4 DEF Queue!Next
<1>7. ASSUME ~empty, RingPopFront \/ RingEffPopFront
      PROVE  /\ ring' \in [0..N-1 -> Values \cup {Default}]
             /\ begin' \in 0..N-1 /\ size' \in 0..N /\ out' \in Values
             /\ LiveSlots' /\ Queue!TakeFront
  <2>1. begin \in 0..N-1 /\ size \in 1..N
    BY <1>7, <1>u DEF TypeOK, empty
  <2>2. \A k \in 1..size-1 : Slot(begin, k) \in 0..N-1 /\ Slot(begin, k) # begin
    <3> TAKE k \in 1..size-1
    <3>1. k \in 0..N
      BY <2>1, <1>u
    <3> QED BY <2>1, <3>1, <1>u, SlotValue DEF SlotNoMod
  <2>3. /\ size' = size - 1 /\ begin' = Slot(begin, 1) /\ out' = ring[begin]
        /\ ring' \in [0..N-1 -> Values \cup {Default}]
        /\ \A k \in 1..size-1 : ring'[Slot(begin, k)] = ring[Slot(begin, k)]
    BY <1>7, <2>1, <2>2 DEF RingPopFront, RingEffPopFront, TypeOK
  <2>4. /\ begin' \in 0..N-1 /\ size' \in 0..N
        /\ LiveSlots'
        /\ Contents # <<>> /\ Contents' = Tail(Contents)
        /\ ring[begin] = Head(Contents) /\ ring[begin] \in Values
    BY <1>7, <2>3, PopFrontContents
  <2> QED BY <2>3, <2>4 DEF Queue!TakeFront
<1>8. ASSUME NEW t \in Threads, PopFront(t) \/ TryPopFront(t)
      PROVE  IInv' /\ Queue!Next
  <2>1. ~empty /\ (RingPopFront \/ RingEffPopFront) /\ ReturnAndNotifyOne(t)
    BY <1>8 DEF PopFront, TryPopFront
  <2>2. CallsOK' /\ TypeOK'
    BY <1>7, <2>1, CallShape DEF TypeOK
  <2> QED BY <1>7, <2>1, <2>2 DEF Queue!Next
<1>9. ASSUME NEW t \in Threads, TryPopFrontTimeout(t)
      PROVE  IInv' /\ [Queue!Next]_(Queue!qvars)
  <2>1. CASE ~empty /\ RingEffPopFront
    <3>1. CallsOK' /\ TypeOK'
      BY <1>9, <1>7, <2>1, CallShape DEF TypeOK, TryPopFrontTimeout
    <3> QED BY <1>7, <2>1, <3>1 DEF Queue!Next
  <2>2. CASE UNCHANGED <<ring, begin, size, out>>
    <3>1. CallsOK' /\ TypeOK'
      BY <1>9, <2>2, CallShape DEF TypeOK, TryPopFrontTimeout
    <3> QED BY <1>n, <2>2, <3>1
  <2> QED BY <1>9, <2>1, <2>2 DEF TryPopFrontTimeout
<1>10. ASSUME Clear \/ EffClear
       PROVE  IInv' /\ Queue!Next
  <2>1. TypeOK' /\ size' = 0
    BY <1>10, <1>u DEF Clear, EffClear, RingClear, RingEffClear, TypeOK
  <2>2. CallsOK' /\ out' = out
    BY <1>10 DEF Clear, EffClear, CallsOK
  <2>3. LiveSlots' /\ Contents' = <<>>
    BY <2>1 DEF LiveSlots, Contents
  <2> QED BY <2>1, <2>2, <2>3 DEF Queue!Next, Queue!Empty
<1>11. CASE UNCHANGED vars
  <2>1. TypeOK' /\ CallsOK'
    BY <1>11 DEF vars, TypeOK, CallsOK
  <2> QED BY <1>11, <2>1, <1>n DEF vars
<1> QED BY <1>1, <1>2, <1>3, <1>4, <1>5, <1>6, <1>8, <1>9, <1>10, <1>11
     DEF Next, Proceed

LEMMA InitLemma ==
  ASSUME Init
  PROVE  IInv /\ Queue!Init
<1>1. N \in Nat \ {0} /\ Default \notin Values
  BY RingAssumption
<1>2. TypeOK /\ CallsOK
  BY <1>1 DEF Init, TypeOK, CallsOK, Threads, AllPush, AllPop
<1>3. LiveSlots /\ Contents = <<>>
  BY DEF Init, LiveSlots, Contents
<1> QED BY <1>2, <1>3 DEF IInv, Init, Queue!Init

-----------------------------------------------------------------------------
(* The theorems *)

\* _begin and _size never leave the array, no matter how many threads use the
\* ring and how often its indices wrap.
THEOREM RingTypeCorrect == Spec => []TypeOK
<1>1. Init => IInv
  BY InitLemma
<1>2. IInv /\ [Next]_vars => IInv'
  BY StepLemma
<1>3. IInv => TypeOK
  BY DEF IInv
<1> QED BY <1>1, <1>2, <1>3, PTL DEF Spec

\* BlockingRing implements the bounded deque: whatever interleaves, the items
\* come out in the order of the deque and none is lost or made up.
THEOREM RingImplementsQueue == Spec => ImplementsQueue
<1>1. Init => IInv /\ Queue!Init
  BY InitLemma
<1>2. IInv /\ [Next]_vars => IInv' /\ [Queue!Next]_(Queue!qvars)
  BY StepLemma
<1> QED BY <1>1, <1>2, PTL DEF Spec, ImplementsQueue, Queue!Spec

\* With one producer and one consumer, whatever operations they use, no
\* notify_one is lost: only clear() and eff_clear() leave a thread asleep that
\* has what it waits for.
THEOREM PairMissesOnlyClears ==
  ASSUME NEW p, NEW c, Producers = {p}, Consumers = {c}
  PROVE  Spec => OnlyClearMisses
<1>0. p # c /\ Threads = {p, c} /\ N \in Nat \ {0}
  BY RingAssumption DEF Threads
<1>1. Init => IInv
  BY InitLemma
<1>2. IInv /\ [Next]_vars =>
        IInv' /\ [\A t \in Threads : Missed(t)' => Missed(t) \/ Clear \/ EffClear]_vars
  <2> SUFFICES ASSUME IInv, Next, ~Clear, ~EffClear,
                      NEW u \in Threads, Missed(u)'
               PROVE  Missed(u)
    BY StepLemma
  <2>1. TypeOK /\ CallsOK /\ TypeOK'
    BY StepLemma DEF IInv
  <2>2. ASSUME NEW t \in Threads, Produce(t) \/ Consume(t) \/ Wait(t) \/ Wake(t)
        PROVE  Missed(u)
    BY <2>1, <2>2 DEF TypeOK, Produce, Consume, Call, Wait, Wake, Missed, Ready, full, empty
  <2>3. ASSUME NEW t \in Threads, ReturnAndNotifyOne(t)
        PROVE  at'[u] # "wait"
    BY <2>1, <2>3, <1>0 DEF ReturnAndNotifyOne, TypeOK
  <2>4. at'[u] = "wait"
    BY DEF Missed
  <2> QED BY <2>2, <2>3, <2>4
     DEF Next, Proceed, PushBack, PushFront, PopFront, PopBack, TryPopFront, TryPopFrontTimeout, Threads
<1> QED BY <1>1, <1>2, PTL DEF Spec, OnlyClearMisses
=============================================================================
