---------------------------- MODULE BlockingRing ----------------------------
(***************************************************************************)
(* libhesai/Container: Ring<T, N>, a circular array addressed by _begin    *)
(* and _size, and BlockingRing<T, N>, which puts one mutex and ONE         *)
(* condition variable around it.  Callers that have to wait for room and   *)
(* callers that have to wait for an item sit on the same condition         *)
(* variable, and every operation ends with a single notify_one.            *)
(*                                                                         *)
(* A critical section of the code, from taking _mutex to releasing it (at  *)
(* return or inside _condv.wait), is one step here.                        *)
(***************************************************************************)
EXTENDS Integers, FiniteSets, Sequences

CONSTANTS N,           \* the ring's capacity
          Values,      \* the items callers store
          Default,     \* T(): what an unused slot holds
          Producers,   \* threads that call the inserting operations
          Consumers,   \* threads that call the removing operations
          CanClear,    \* does any thread call clear / eff_clear?
          PushOps,     \* inserting operations the producers use
          PopOps       \* removing operations the consumers use

AllPush == {"push_back", "emplace_back", "push_front"}
AllPop  == {"pop_front", "pop_back", "try_pop_front"}

ASSUME RingAssumption ==
  /\ N \in Nat \ {0}
  /\ Default \notin Values
  /\ PushOps \subseteq AllPush
  /\ PopOps \subseteq AllPop
  /\ CanClear \in BOOLEAN
  /\ Producers \cap Consumers = {}

Threads == Producers \cup Consumers

VARIABLES ring,   \* *_ring, the array of N slots
          begin,  \* _begin
          size,   \* _size
          op,     \* op[t]: the operation t is inside of, or "none"
          arg,    \* arg[t]: the item t is inserting
          at,     \* at[t]: "out", "lock" (wants _mutex), "wait" (in _condv)
          out     \* the item the latest removal returned

ringvars == <<ring, begin, size>>
vars == <<ring, begin, size, op, arg, at, out>>

-----------------------------------------------------------------------------
(* Ring *)

full == size >= N
empty == size = 0

\* The slot k places after slot b.
Slot(b, k) == (b + k) % N

\* Mutant: the insertion point ignores _begin.
RingPushBackAtSize(v) ==
  /\ ring' = [ring EXCEPT ![size] = v]
  /\ size' = size + 1
  /\ UNCHANGED begin

RingPushBack(v) ==
  /\ ring' = [ring EXCEPT ![Slot(begin, size)] = v]
  /\ size' = size + 1
  /\ UNCHANGED begin

RingPushFront(v) ==
  /\ begin' = Slot(begin, N - 1)
  /\ ring' = [ring EXCEPT ![begin'] = v]
  /\ size' = size + 1

RingPopBack ==
  /\ size' = size - 1
  /\ out' = ring[Slot(begin, size - 1)]
  /\ ring' = [ring EXCEPT ![Slot(begin, size - 1)] = Default]
  /\ UNCHANGED begin

\* Mutant: _begin is advanced without wrapping round.
RingPopFrontNoWrap ==
  /\ size' = size - 1
  /\ out' = ring[begin]
  /\ ring' = [ring EXCEPT ![begin] = Default]
  /\ begin' = begin + 1

RingPopFront ==
  /\ size' = size - 1
  /\ out' = ring[begin]
  /\ ring' = [ring EXCEPT ![begin] = Default]
  /\ begin' = Slot(begin, 1)

\* peek_front followed by eff_pop_front: the slot keeps its old content.
RingEffPopFront ==
  /\ size' = size - 1
  /\ out' = ring[begin]
  /\ begin' = Slot(begin, 1)
  /\ UNCHANGED ring

RingClear ==
  /\ ring' = [i \in 0..N-1 |->
                IF \E k \in 0..size-1 : i = Slot(begin, k) THEN Default ELSE ring[i]]
  /\ size' = 0
  /\ begin' = 0

RingEffClear == size' = 0 /\ begin' = 0 /\ UNCHANGED ring

-----------------------------------------------------------------------------
(* BlockingRing *)

\* A thread enters an operation; it now competes for _mutex.
Call(t, o, v) ==
  /\ at[t] = "out"
  /\ op' = [op EXCEPT ![t] = o]
  /\ arg' = [arg EXCEPT ![t] = v]
  /\ at' = [at EXCEPT ![t] = "lock"]
  /\ UNCHANGED <<ring, begin, size, out>>

\* The predicate t's operation waits for.
Ready(t) == IF t \in Producers THEN ~full ELSE ~empty

\* _condv.wait: the predicate is false, release _mutex and sleep.
Wait(t) ==
  /\ at[t] = "lock"
  /\ ~Ready(t)
  /\ at' = [at EXCEPT ![t] = "wait"]
  /\ UNCHANGED <<ring, begin, size, op, arg, out>>

\* t leaves its operation; its notify_one moves one sleeper, any one, back
\* to competing for _mutex, and does nothing when nobody sleeps.
ReturnAndNotifyOne(t) ==
  LET sleepers == {u \in Threads \ {t} : at[u] = "wait"}
  IN  /\ op' = [op EXCEPT ![t] = "none"]
      /\ arg' = [arg EXCEPT ![t] = Default]
      /\ \/ sleepers = {} /\ at' = [at EXCEPT ![t] = "out"]
         \/ \E u \in sleepers : at' = [at EXCEPT ![t] = "out", ![u] = "lock"]

\* Mutant: an insertion returns without notifying anybody.
PushBackSilent(t) ==
  /\ op[t] \in {"push_back", "emplace_back"} /\ at[t] = "lock" /\ ~full
  /\ RingPushBack(arg[t])
  /\ op' = [op EXCEPT ![t] = "none"]
  /\ arg' = [arg EXCEPT ![t] = Default]
  /\ at' = [at EXCEPT ![t] = "out"]
  /\ UNCHANGED out

PushBack(t) ==
  /\ op[t] \in {"push_back", "emplace_back"} /\ at[t] = "lock" /\ ~full
  /\ RingPushBack(arg[t])
  /\ ReturnAndNotifyOne(t)
  /\ UNCHANGED out

PushFront(t) ==
  /\ op[t] = "push_front" /\ at[t] = "lock" /\ ~full
  /\ RingPushFront(arg[t])
  /\ ReturnAndNotifyOne(t)
  /\ UNCHANGED out

PopFront(t) ==
  /\ op[t] = "pop_front" /\ at[t] = "lock" /\ ~empty
  /\ RingPopFront
  /\ ReturnAndNotifyOne(t)

PopBack(t) ==
  /\ op[t] = "pop_back" /\ at[t] = "lock" /\ ~empty
  /\ RingPopBack
  /\ ReturnAndNotifyOne(t)

TryPopFront(t) ==
  /\ op[t] = "try_pop_front" /\ at[t] = "lock" /\ ~empty
  /\ RingEffPopFront
  /\ ReturnAndNotifyOne(t)

\* Mutant: a timeout without an item returns without notifying anybody.
TryPopFrontTimeoutSilent(t) ==
  /\ op[t] = "try_pop_front" /\ at[t] = "wait"
  /\ \/ ~empty /\ RingEffPopFront /\ ReturnAndNotifyOne(t)
     \/ /\ empty
        /\ op' = [op EXCEPT ![t] = "none"]
        /\ at' = [at EXCEPT ![t] = "out"]
        /\ UNCHANGED <<ring, begin, size, arg, out>>

\* wait_for reaches its 500 ms limit: the predicate is tested once more, an
\* item that is there is taken, and notify_one is called in either case.
TryPopFrontTimeout(t) ==
  /\ op[t] = "try_pop_front" /\ at[t] = "wait"
  /\ \/ ~empty /\ RingEffPopFront
     \/ empty /\ UNCHANGED <<ring, begin, size, out>>
  /\ ReturnAndNotifyOne(t)

\* A sleeper resumes without a notification (a spurious wake-up).
Wake(t) ==
  /\ at[t] = "wait"
  /\ at' = [at EXCEPT ![t] = "lock"]
  /\ UNCHANGED <<ring, begin, size, op, arg, out>>

\* clear() and eff_clear() take the lock but notify nobody.
Clear ==
  /\ RingClear
  /\ UNCHANGED <<op, arg, at, out>>

EffClear ==
  /\ RingEffClear
  /\ UNCHANGED <<op, arg, at, out>>

-----------------------------------------------------------------------------
Init ==
  /\ ring = [i \in 0..N-1 |-> Default]
  /\ begin = 0
  /\ size = 0
  /\ op = [t \in Threads |-> "none"]
  /\ arg = [t \in Threads |-> Default]
  /\ at = [t \in Threads |-> "out"]
  /\ out = Default

Produce(t) == \E o \in PushOps, v \in Values : Call(t, o, v)
Consume(t) == \E o \in PopOps : Call(t, o, Default)

\* What t does inside an operation it has entered.
Proceed(t) ==
  \/ Wait(t)
  \/ PushBack(t)
  \/ PushFront(t)
  \/ PopFront(t)
  \/ PopBack(t)
  \/ TryPopFront(t)

Next ==
  \/ \E t \in Producers : Produce(t)
  \/ \E t \in Consumers : Consume(t)
  \/ \E t \in Threads : Proceed(t) \/ TryPopFrontTimeout(t) \/ Wake(t)
  \/ CanClear /\ (Clear \/ EffClear)

Spec == Init /\ [][Next]_vars

\* A thread inside an operation gets the mutex in the end, and a consumer loop
\* calls again.  The deadline of wait_for is absolute, so spurious wake-ups
\* cannot postpone it for ever: strong fairness.  Producers owe no call,
\* clear() is never owed, and no spurious wake-up may be relied on.
FairSpec ==
  /\ Spec
  /\ \A t \in Threads : WF_vars(Proceed(t)) /\ SF_vars(TryPopFrontTimeout(t))
  /\ \A t \in Consumers : WF_vars(Consume(t))

-----------------------------------------------------------------------------
TypeOK ==
  /\ ring \in [0..N-1 -> Values \cup {Default}]
  /\ begin \in 0..N-1
  /\ size \in 0..N
  /\ op \in [Threads -> AllPush \cup AllPop \cup {"none"}]
  /\ arg \in [Threads -> Values \cup {Default}]
  /\ at \in [Threads -> {"out", "lock", "wait"}]
  /\ out \in Values \cup {Default}

\* A thread is outside exactly when it has no operation, a producer inside
\* carries an item, and each side only runs its own kind of operation.
CallsOK ==
  /\ \A t \in Threads : at[t] = "out" <=> op[t] = "none"
  /\ \A t \in Producers :
       op[t] # "none" => op[t] \in AllPush /\ arg[t] \in Values
  /\ \A t \in Consumers : op[t] # "none" => op[t] \in AllPop

\* The items in the ring, oldest first.
Contents == [i \in 1..size |-> ring[Slot(begin, i - 1)]]

\* Every slot between _begin and _begin + _size holds an item.
LiveSlots == \A k \in 0..size-1 : ring[Slot(begin, k)] \in Values

Queue == INSTANCE BoundedQueue WITH q <- Contents

\* The ring with its lock and condition variable implements the bounded
\* deque: the slots the index arithmetic of Ring selects always hold exactly
\* the items inserted and not yet removed, in order, and a removal returns
\* the right one, whatever threads interleave and however often the indices
\* wrap.
ImplementsQueue == Queue!Spec

\* t sleeps although what it waits for is there.
Missed(t) == at[t] = "wait" /\ Ready(t)

\* No wake-up is lost between one producer and one consumer, although both
\* sleep on the same condition variable and each operation notifies only
\* once: what a sleeper waits for never comes without waking it, unless it
\* comes from clear() or eff_clear(), which notify nobody.
OnlyClearMisses ==
  [][\A t \in Threads : Missed(t)' => Missed(t) \/ Clear \/ EffClear]_vars

\* A blocked insertion always gets through in the end, even when the room it
\* waits for came from a clear(): as long as the consumer keeps polling with
\* try_pop_front, as the SDK's does, its 500 ms timeout notifies in clear()'s
\* place.  (A consumer that calls pop_front may sleep for ever beside it.)
PushCompletes ==
  []<>(\E t \in Consumers : op[t] = "try_pop_front")
    => \A t \in Producers : at[t] = "wait" ~> at[t] = "out"
=============================================================================
