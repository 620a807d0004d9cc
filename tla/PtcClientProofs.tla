-------------------------- MODULE PtcClientProofs --------------------------
(***************************************************************************)
(* QueryCommand hands back the payload of one reply while nothing but a    *)
(* header looks like one, and of the reply to its own question while every *)
(* earlier reply was read to its end: for every set of commands, any       *)
(* payloads and any number of questions.                                   *)
(***************************************************************************)
EXTENDS PtcClient, SequenceTheorems, TLAPS

\* What the opening thread and the queries share: a connection is made and
\* questions are asked only once the opening thread is past its loop.
Opened ==
  connected \/ asked > 0 \/ query # Idle => opener \in {"timeout", "done"}

Request == [q : 1..MaxQueries, cmd : Cmds]

QueryType ==
  [phase : {"idle", "send", "header", "body"}, q : 0..MaxQueries,
   cmd : Cmds \cup {"none"}, found : BOOLEAN,
   header : Seq(Bytes), body : Seq(Bytes)]

PtcTypes ==
  /\ mode \in Modes /\ client \in {"null", "made"}
  /\ opener \in {"make", "try", "handshake", "timeout", "done"}
  /\ InitOpen \in BOOLEAN /\ owner \in {"using", "joining", "gone"}
  /\ sock \in {"none", "zero", "fd"}
  /\ connected \in BOOLEAN /\ link \in {"none", "up", "lost"} /\ timed \in BOOLEAN
  /\ inbox \in Seq(Request) /\ stream \in Seq(Bytes)
  /\ query \in QueryType /\ asked \in 0..MaxQueries
  /\ clean \in BOOLEAN /\ plain \in BOOLEAN
  /\ query.phase # "idle" => query.q # 0 /\ query.cmd \in Cmds

\* c is the byte at place i of the reply that b is part of, and how many bytes
\* of that follow b.
Part(c, b, i) == c.of = b.of /\ c.at = i
Behind(b) == HeaderSize + b.of.len - b.at

\* The header of a reply is what it says it is.
Truthful(b) ==
  /\ b.at = 1 => b.look = "id0"
  /\ b.at = 2 => b.look = "id1"
  /\ b.at = HeaderSize => b.says.cmd = b.of.cmd /\ b.says.len = b.of.len

\* The bytes that are on their way: what is left of a reply is there to its
\* end, in order, with nothing in between.
Whole(s) ==
  \A i \in 1..Len(s) :
    /\ Truthful(s[i])
    /\ Behind(s[i]) >= 0 /\ i + Behind(s[i]) <= Len(s)
    /\ \A k \in 1..Behind(s[i]) : Part(s[i + k], s[i], s[i].at + k)

Marks == plain => Plain(stream)

\* QueryCommand has found what it takes for an identifier and reads on.
Reading == query.phase = "body" \/ query.found

\* Its two buffers and their limits, whatever the bytes are.
Shape ==
  IF ~Reading THEN query.header = <<>> /\ query.body = <<>>
  ELSE /\ query.phase \in {"header", "body"}
       /\ query.phase = "header" => Len(query.header) = 2 /\ query.body = <<>>
       /\ query.phase = "body" =>
            /\ Len(query.header) = HeaderSize
            /\ query.header[3].says.cmd = query.cmd
            /\ Len(query.body) < query.header[3].says.len

\* When a header that is found is a header.
Exact == plain \/ (mode = "tcp_ssl" /\ clean)

\* Then what has been read is the beginning of one reply ...
HeaderRead ==
  Exact /\ Reading =>
    /\ \A j \in 1..Len(query.header) : Part(query.header[j], query.header[1], j)
    /\ query.phase = "body" =>
         /\ query.header[1].of.cmd = query.cmd
         /\ query.header[1].of.len = query.header[3].says.len
         /\ \A j \in 1..Len(query.body) :
              Part(query.body[j], query.header[1], HeaderSize + j)

\* ... and the stream goes on with the rest of it, unless that was lost.
RestComes ==
  Exact /\ Reading =>
    LET b == query.header[1]
        got == Len(query.header) + Len(query.body)
    IN  \/ stream = <<>> /\ link # "up"
        \/ /\ HeaderSize + b.of.len - got <= Len(stream)
           /\ \A k \in 1..(HeaderSize + b.of.len - got) : Part(stream[k], b, got + k)

\* On a clean connection every byte on its way, or read, is of the reply to
\* the query that is waiting.
OwnBytes ==
  clean =>
    /\ inbox # <<>> => /\ query.phase = "header" /\ ~query.found
                       /\ Len(inbox) = 1 /\ inbox[1].q = query.q
                       /\ stream = <<>>
    /\ stream # <<>> => query.phase \in {"header", "body"}
    /\ \A i \in 1..Len(stream) : stream[i].of.q = query.q
    /\ \A j \in 1..Len(query.header) : query.header[j].of.q = query.q
    /\ \A j \in 1..Len(query.body) : query.body[j].of.q = query.q

\* Over TLS nothing that starts a reply is on its way except the one to the
\* query that is waiting, once.
OwnReply ==
  mode = "tcp_ssl" /\ plain =>
    /\ inbox # <<>> => /\ query.phase = "header" /\ ~query.found
                       /\ Len(inbox) = 1 /\ inbox[1].q = query.q
    /\ \A i \in 1..Len(stream) : stream[i].at = 1 =>
         /\ query.phase = "header" /\ ~query.found
         /\ inbox = <<>> /\ stream[i].of.q = query.q
         /\ \A j \in 1..Len(stream) : stream[j].at = 1 => j = i
    /\ Reading => query.header[1].of.q = query.q

\* On a clean TLS connection the reply is read from its first byte on.
FirstByte ==
  mode = "tcp_ssl" /\ clean /\ query.phase = "header" =>
    ~query.found /\ (stream # <<>> => stream[1].at = 1)

\* What has been returned.
Returned ==
  /\ result.plain \/ (mode = "tcp_ssl" /\ result.clean) =>
       \A i \in DOMAIN result.body :
         /\ result.body[i].at = HeaderSize + i
         /\ result.body[i].of = result.body[1].of
         /\ result.body[i].of.cmd = result.cmd
         /\ result.body[i].of.len = Len(result.body)
  /\ result.clean \/ (mode = "tcp_ssl" /\ result.plain) =>
       \A i \in DOMAIN result.body : result.body[i].of.q = result.q

Wire == /\ Whole(stream) /\ Marks /\ Shape /\ HeaderRead /\ RestComes
        /\ OwnBytes /\ OwnReply /\ FirstByte

PtcInv == PtcTypes /\ Opened /\ Wire /\ Returned

-----------------------------------------------------------------------------
(* Bytes and streams *)

\* The place and the length of a byte are numbers, so counting on is one too.
LEMMA BehindInt ==
  ASSUME NEW b \in Bytes
  PROVE  /\ b.at \in Nat /\ b.of.len \in 0..MaxPayload /\ b.says.len \in 0..MaxPayload
         /\ Behind(b) \in Int
<1>1. b.at \in Nat /\ b.of.len \in 0..MaxPayload /\ b.says.len \in 0..MaxPayload
  BY PtcAssumption DEF Bytes, Fields, HeaderSize
<1> QED BY <1>1, PtcAssumption DEF Behind, HeaderSize

\* What Receive leaves in the stream.
LEMMA StreamLeft ==
  ASSUME NEW s \in Seq(Bytes), NEW n \in 0..Len(s)
  PROVE  /\ SubSeq(s, n + 1, Len(s)) \in Seq(Bytes)
         /\ Len(SubSeq(s, n + 1, Len(s))) = Len(s) - n
         /\ \A i \in 1..(Len(s) - n) : SubSeq(s, n + 1, Len(s))[i] = s[n + i]
<1>1. n + 1 \in Int /\ Len(s) \in Int /\ \A i \in (n + 1)..Len(s) : s[i] \in Bytes
  BY LenProperties, ElementOfSeq
<1>2. DEFINE t == SubSeq(s, n + 1, Len(s))
<1>3. /\ t \in Seq(Bytes)
      /\ Len(t) = IF n + 1 <= Len(s) THEN Len(s) - (n + 1) + 1 ELSE 0
      /\ \A i \in 1..(Len(s) - (n + 1) + 1) : t[i] = s[(n + 1) + i - 1]
  BY <1>1, SubSeqProperties
<1>4. \A i \in 1..(Len(s) - n) : t[i] = s[n + i]
  <2> TAKE i \in 1..(Len(s) - n)
  <2>1. i \in 1..(Len(s) - (n + 1) + 1) /\ (n + 1) + i - 1 = n + i
    BY LenProperties
  <2> QED BY <2>1, <1>3
<1> HIDE DEF t
<1>5. Len(t) = Len(s) - n
  BY <1>3, LenProperties
<1> QED BY <1>3, <1>4, <1>5 DEF t

\* What Receive hands over.
LEMMA StreamTaken ==
  ASSUME NEW s \in Seq(Bytes), NEW n \in 0..Len(s)
  PROVE  /\ SubSeq(s, 1, n) \in Seq(Bytes) /\ Len(SubSeq(s, 1, n)) = n
         /\ \A i \in 1..n : SubSeq(s, 1, n)[i] = s[i]
<1>1. 1 \in Int /\ n \in Int /\ \A i \in 1..n : s[i] \in Bytes
  BY LenProperties, ElementOfSeq
<1>2. DEFINE t == SubSeq(s, 1, n)
<1>3. /\ t \in Seq(Bytes)
      /\ Len(t) = IF 1 <= n THEN n - 1 + 1 ELSE 0
      /\ \A i \in 1..(n - 1 + 1) : t[i] = s[1 + i - 1]
  BY <1>1, SubSeqProperties
<1> HIDE DEF t
<1>4. Len(t) = n
  BY <1>3
<1>5. \A i \in 1..n : t[i] = s[i]
  BY <1>3
<1> QED BY <1>3, <1>4, <1>5 DEF t

\* What has been read, and what is read next.
LEMMA Joined ==
  ASSUME NEW s \in Seq(Bytes), NEW t \in Seq(Bytes)
  PROVE  /\ s \o t \in Seq(Bytes) /\ Len(s \o t) = Len(s) + Len(t)
         /\ \A i \in 1..(Len(s) + Len(t)) :
              (s \o t)[i] = IF i <= Len(s) THEN s[i] ELSE t[i - Len(s)]
BY ConcatProperties

\* No byte is in the empty stream.
LEMMA EmptyIn == 1..Len(<<>>) = {}
<1>1. Len(<<>>) = 0
  BY EmptySeq
<1> QED BY <1>1

\* Reading from the front leaves whole replies, or ends of them, behind.
LEMMA WholeLeft ==
  ASSUME NEW s \in Seq(Bytes), NEW n \in 0..Len(s), Whole(s)
  PROVE  Whole(SubSeq(s, n + 1, Len(s)))
<1> DEFINE t == SubSeq(s, n + 1, Len(s))
<1>1. t \in Seq(Bytes) /\ Len(t) = Len(s) - n /\ \A i \in 1..(Len(s) - n) : t[i] = s[n + i]
  BY StreamLeft
<1>2. Len(s) \in Nat
  BY LenProperties
<1> HIDE DEF t
<1> SUFFICES ASSUME NEW i \in 1..Len(t)
             PROVE  /\ Truthful(t[i])
                    /\ Behind(t[i]) >= 0 /\ i + Behind(t[i]) <= Len(t)
                    /\ \A k \in 1..Behind(t[i]) : Part(t[i + k], t[i], t[i].at + k)
  BY DEF Whole, t
<1>3. n + i \in 1..Len(s) /\ t[i] = s[n + i] /\ s[n + i] \in Bytes
  BY <1>1, <1>2, ElementOfSeq
<1>4. Behind(t[i]) \in Int
  BY <1>3, BehindInt
<1>5. Truthful(t[i]) /\ Behind(t[i]) >= 0 /\ n + i + Behind(t[i]) <= Len(s)
  BY <1>3 DEF Whole
<1>6. ASSUME NEW k \in 1..Behind(t[i]) PROVE Part(t[i + k], t[i], t[i].at + k)
  <2>1. i + k \in 1..(Len(s) - n) /\ n + (i + k) = (n + i) + k
    BY <1>2, <1>4, <1>5
  <2>2. Part(s[(n + i) + k], s[n + i], s[n + i].at + k)
    BY <1>3 DEF Whole
  <2> QED BY <2>1, <2>2, <1>1, <1>3
<1> QED BY <1>1, <1>2, <1>4, <1>5, <1>6

\* What looks like a header behind the front did so before.
LEMMA PlainLeft ==
  ASSUME NEW s \in Seq(Bytes), NEW n \in 0..Len(s), Plain(s)
  PROVE  Plain(SubSeq(s, n + 1, Len(s)))
<1> DEFINE t == SubSeq(s, n + 1, Len(s))
<1>1. Len(t) = Len(s) - n /\ \A i \in 1..(Len(s) - n) : t[i] = s[n + i]
  BY StreamLeft
<1>2. Len(s) \in Nat
  BY LenProperties
<1> HIDE DEF t
<1> SUFFICES ASSUME NEW i \in 1..(Len(t) - 1), LooksLikeHeader(t[i], t[i + 1])
             PROVE  t[i].at = 1
  BY DEF Plain, t
<1>3. /\ n + i \in 1..(Len(s) - 1) /\ n + (i + 1) = (n + i) + 1
      /\ i \in 1..(Len(s) - n) /\ i + 1 \in 1..(Len(s) - n)
  BY <1>1, <1>2
<1>4. t[i] = s[n + i] /\ t[i + 1] = s[(n + i) + 1]
  BY <1>1, <1>3
<1> QED BY <1>3, <1>4 DEF Plain

\* A reply is there to its end.
LEMMA ReplyIsWhole ==
  ASSUME NEW m \in Request, NEW a \in Answers
  PROVE  /\ Len(a.body) \in 0..MaxPayload
         /\ Reply(m, a) \in Seq(Bytes) /\ Len(Reply(m, a)) = HeaderSize + Len(a.body)
         /\ \A i \in 1..(HeaderSize + Len(a.body)) :
              /\ Reply(m, a)[i].at = i
              /\ Reply(m, a)[i].of = [q |-> m.q, cmd |-> m.cmd, len |-> Len(a.body)]
         /\ Reply(m, a)[1].look = "id0"
         /\ Whole(Reply(m, a))
<1> DEFINE n == Len(a.body)
           r == Reply(m, a)
           fields == [look |-> a.look, says |-> [cmd |-> m.cmd, rc |-> a.rc, len |-> n]]
           head == <<Identifier("id0"), Identifier("id1"), fields>>
           sym(i) == IF i <= HeaderSize THEN head[i] ELSE a.body[i - HeaderSize]
           of == [q |-> m.q, cmd |-> m.cmd, len |-> n]
           Symbol == [look : Looks, says : Fields]
<1>1. a \in Answer /\ n <= MaxPayload /\ MaxPayload \in Nat
  BY PtcAssumption
<1>2. a.body \in Seq(Symbol) /\ a.look \in Looks /\ a.rc \in 0..1
  BY <1>1 DEF Answer
<1>3. n \in Nat /\ n \in 0..MaxPayload
  BY <1>1, <1>2, LenProperties
<1>4. m.q \in 1..MaxQueries /\ m.cmd \in Cmds
  BY DEF Request
<1>5. fields \in Symbol /\ Identifier("id0") \in Symbol /\ Identifier("id1") \in Symbol
  <2>1. [cmd |-> m.cmd, rc |-> a.rc, len |-> n] \in Fields
    BY <1>2, <1>3, <1>4 DEF Fields
  <2>2. [cmd |-> "none", rc |-> 1, len |-> 0] \in Fields
    BY <1>1 DEF Fields
  <2> QED BY <1>2, <2>1, <2>2 DEF Identifier, Looks
<1>6. of \in [q : 1..MaxQueries, cmd : Cmds, len : 0..MaxPayload]
  BY <1>3, <1>4
<1> HIDE DEF n, of
<1>7. ASSUME NEW i \in 1..(HeaderSize + n) PROVE sym(i) \in Symbol
  <2>1. CASE i <= HeaderSize
    <3>1. i = 1 \/ i = 2 \/ i = 3
      BY <1>3, <2>1 DEF HeaderSize
    <3> QED BY <3>1, <2>1, <1>5
  <2>2. CASE ~(i <= HeaderSize)
    <3>1. i - HeaderSize \in 1..Len(a.body)
      BY <1>3, <2>2 DEF HeaderSize, n
    <3> QED BY <3>1, <2>2, <1>2, ElementOfSeq
  <2> QED BY <2>1, <2>2
<1>8. r = [i \in 1..(HeaderSize + n) |-> Byte(sym(i).look, sym(i).says, i, m, n)]
  BY DEF Reply, n
<1>9. sym(1) = Identifier("id0") /\ sym(2) = Identifier("id1") /\ sym(3) = fields
  BY DEF HeaderSize
<1>10. fields.says.cmd = m.cmd /\ fields.says.len = n
  OBVIOUS
<1> HIDE DEF fields, head, sym, r
<1>11. ASSUME NEW i \in 1..(HeaderSize + n)
       PROVE  /\ r[i] \in Bytes /\ r[i].at = i /\ r[i].of = of
              /\ r[i].look = sym(i).look /\ r[i].says = sym(i).says
  <2>1. sym(i) \in Symbol
    BY <1>7
  <2>2. i \in 1..(HeaderSize + MaxPayload)
    BY <1>1, <1>3 DEF HeaderSize
  <2>3. r[i] = [look |-> sym(i).look, says |-> sym(i).says, at |-> i, of |-> of]
    BY <1>8 DEF Byte, of
  <2> QED BY <2>1, <2>2, <2>3, <1>6 DEF Bytes
<1>12. r \in Seq(Bytes) /\ Len(r) = HeaderSize + n
  <2>1. r \in [1..(HeaderSize + n) -> Bytes] /\ HeaderSize + n \in Nat
    <3>1. HeaderSize + n \in Nat
      BY <1>3 DEF HeaderSize
    <3>2. DOMAIN r = 1..(HeaderSize + n) /\ r = [i \in 1..(HeaderSize + n) |-> r[i]]
      BY <1>8
    <3> QED BY <3>1, <3>2, <1>11
  <2> QED BY <2>1, SMT
<1>13. 1 \in 1..(HeaderSize + n) /\ 2 \in 1..(HeaderSize + n) /\ 3 \in 1..(HeaderSize + n)
  BY <1>3 DEF HeaderSize
<1>14. of.len = n /\ of.cmd = m.cmd
  BY DEF of
<1>15. ASSUME NEW i \in 1..(HeaderSize + n) PROVE Truthful(r[i])
  <2>1. r[1].look = "id0" /\ r[2].look = "id1"
    BY <1>9, <1>11, <1>13 DEF Identifier
  <2>2. r[3].says.cmd = of.cmd /\ r[3].says.len = of.len
    BY <1>9, <1>10, <1>11, <1>13, <1>14
  <2>3. r[i].at = i /\ r[i].of = of
    BY <1>11
  <2> QED BY <2>1, <2>2, <2>3 DEF Truthful, HeaderSize
<1>16. Whole(r)
  <2> SUFFICES ASSUME NEW i \in 1..(HeaderSize + n)
               PROVE  /\ Behind(r[i]) >= 0 /\ i + Behind(r[i]) <= HeaderSize + n
                      /\ \A k \in 1..Behind(r[i]) : Part(r[i + k], r[i], r[i].at + k)
    BY <1>12, <1>15 DEF Whole
  <2>1. Behind(r[i]) = HeaderSize + n - i
    BY <1>11, <1>14 DEF Behind
  <2>2. ASSUME NEW k \in 1..(HeaderSize + n - i) PROVE Part(r[i + k], r[i], r[i].at + k)
    <3>1. i + k \in 1..(HeaderSize + n)
      BY <1>3 DEF HeaderSize
    <3> QED BY <3>1, <1>11 DEF Part
  <2>3. HeaderSize + n - i >= 0 /\ i + (HeaderSize + n - i) <= HeaderSize + n
    BY <1>3 DEF HeaderSize
  <2> QED BY <2>1, <2>2, <2>3
<1>17. r[1].look = "id0"
  BY <1>9, <1>11, <1>13 DEF Identifier
<1> QED BY <1>3, <1>11, <1>12, <1>16, <1>17 DEF n, of, r

\* A reply behind another one.
LEMMA WholeJoined ==
  ASSUME NEW s \in Seq(Bytes), NEW t \in Seq(Bytes), Whole(s), Whole(t)
  PROVE  Whole(s \o t)
<1> DEFINE u == s \o t
<1>1. /\ u \in Seq(Bytes) /\ Len(u) = Len(s) + Len(t)
      /\ \A i \in 1..(Len(s) + Len(t)) : u[i] = IF i <= Len(s) THEN s[i] ELSE t[i - Len(s)]
  BY ConcatProperties
<1>2. Len(s) \in Nat /\ Len(t) \in Nat
  BY LenProperties
<1> HIDE DEF u
<1> SUFFICES ASSUME NEW i \in 1..Len(u)
             PROVE  /\ Truthful(u[i])
                    /\ Behind(u[i]) >= 0 /\ i + Behind(u[i]) <= Len(u)
                    /\ \A k \in 1..Behind(u[i]) : Part(u[i + k], u[i], u[i].at + k)
  BY DEF Whole, u
<1>3. CASE i <= Len(s)
  <2>1. i \in 1..Len(s) /\ u[i] = s[i] /\ s[i] \in Bytes
    BY <1>1, <1>2, <1>3, ElementOfSeq
  <2>2. Behind(s[i]) \in Int
    BY <2>1, BehindInt
  <2>3. /\ Truthful(s[i]) /\ Behind(s[i]) >= 0 /\ i + Behind(s[i]) <= Len(s)
        /\ \A k \in 1..Behind(s[i]) : Part(s[i + k], s[i], s[i].at + k)
    BY <2>1 DEF Whole
  <2>4. ASSUME NEW k \in 1..Behind(s[i]) PROVE u[i + k] = s[i + k]
    BY <2>2, <2>3, <1>1, <1>2
  <2> QED BY <2>1, <2>2, <2>3, <2>4, <1>1, <1>2
<1>4. CASE i > Len(s)
  <2> DEFINE j == i - Len(s)
  <2>1. j \in 1..Len(t) /\ u[i] = t[j] /\ t[j] \in Bytes /\ i = j + Len(s)
    BY <1>1, <1>2, <1>4, ElementOfSeq
  <2> HIDE DEF j
  <2>2. Behind(t[j]) \in Int
    BY <2>1, BehindInt
  <2>3. /\ Truthful(t[j]) /\ Behind(t[j]) >= 0 /\ j + Behind(t[j]) <= Len(t)
        /\ \A k \in 1..Behind(t[j]) : Part(t[j + k], t[j], t[j].at + k)
    BY <2>1 DEF Whole
  <2>4. ASSUME NEW k \in 1..Behind(t[j]) PROVE u[i + k] = t[j + k]
    <3>1. i + k \in 1..(Len(s) + Len(t)) /\ ~(i + k <= Len(s)) /\ (i + k) - Len(s) = j + k
      BY <2>1, <2>2, <2>3, <1>2
    <3> QED BY <3>1, <1>1
  <2> QED BY <2>1, <2>2, <2>3, <2>4, <1>1, <1>2
<1> QED BY <1>3, <1>4, <1>1, <1>2

\* Where it begins, its first byte cannot be the second of an identifier.
LEMMA PlainJoined ==
  ASSUME NEW s \in Seq(Bytes), NEW t \in Seq(Bytes), Plain(s), Plain(t),
         t[1].look = "id0"
  PROVE  Plain(s \o t)
<1> DEFINE u == s \o t
<1>1. /\ Len(u) = Len(s) + Len(t)
      /\ \A i \in 1..(Len(s) + Len(t)) : u[i] = IF i <= Len(s) THEN s[i] ELSE t[i - Len(s)]
  BY ConcatProperties
<1>2. Len(s) \in Nat /\ Len(t) \in Nat
  BY LenProperties
<1> HIDE DEF u
<1> SUFFICES ASSUME NEW i \in 1..(Len(u) - 1), LooksLikeHeader(u[i], u[i + 1])
             PROVE  u[i].at = 1
  BY DEF Plain, u
<1>3. i \in 1..(Len(s) + Len(t)) /\ i + 1 \in 1..(Len(s) + Len(t))
  BY <1>1, <1>2
<1>4. CASE i + 1 <= Len(s)
  <2>1. i \in 1..(Len(s) - 1) /\ i <= Len(s)
    BY <1>2, <1>4
  <2>2. u[i] = s[i] /\ u[i + 1] = s[i + 1]
    BY <1>1, <1>3, <1>4, <2>1
  <2> QED BY <2>1, <2>2 DEF Plain
<1>5. CASE i = Len(s)
  <2>1. ~(i + 1 <= Len(s)) /\ (i + 1) - Len(s) = 1
    BY <1>2, <1>5
  <2>2. u[i + 1] = t[1]
    BY <1>1, <1>3, <2>1
  <2> QED BY <2>2 DEF LooksLikeHeader
<1>6. CASE i > Len(s)
  <2> DEFINE j == i - Len(s)
  <2>1. /\ j \in 1..(Len(t) - 1) /\ ~(i <= Len(s)) /\ ~(i + 1 <= Len(s))
        /\ (i + 1) - Len(s) = j + 1
    BY <1>1, <1>2, <1>6
  <2>2. u[i] = t[j] /\ u[i + 1] = t[j + 1]
    BY <1>1, <1>3, <2>1
  <2> HIDE DEF j
  <2> QED BY <2>1, <2>2 DEF Plain
<1> QED BY <1>2, <1>4, <1>5, <1>6

-----------------------------------------------------------------------------
(* Steps that read nothing *)

\* Between queries nothing has been asked or read.
LEMMA IdleIs ==
  /\ Idle \in QueryType /\ Idle.phase = "idle" /\ Idle.q = 0 /\ ~Idle.found
  /\ Idle.header = <<>> /\ Idle.body = <<>>
BY PtcAssumption, EmptySeq DEF Idle, QueryType

\* An empty stream holds no half of a reply.
LEMMA EmptyIsWhole == Whole(<<>>) /\ Plain(<<>>)
<1>1. Len(<<>>) = 0
  BY EmptySeq
<1>2. Whole(<<>>)
  BY <1>1 DEF Whole
<1>3. Plain(<<>>)
  BY <1>1 DEF Plain
<1> QED BY <1>2, <1>3

\* Between queries nothing is being read.
LEMMA IdleReads ==
  ASSUME query' = Idle
  PROVE  ~Reading' /\ Shape' /\ HeaderRead' /\ RestComes' /\ FirstByte'
<1>1. ~Reading'
  BY IdleIs DEF Reading
<1> QED BY <1>1, IdleIs DEF Shape, HeaderRead, RestComes, FirstByte

\* A connection that is closed leaves nothing to read.
LEMMA CloseKeeps ==
  ASSUME PtcInv, Close, mode' = mode, plain' = plain, clean' => clean,
         query' = query \/ query' = Idle
  PROVE  Wire'
<1> USE EmptySeq, EmptyIsWhole, IdleIs DEF PtcInv, Wire, Close
<1>1. Whole(stream)' /\ Marks'
  BY DEF Marks
<1>2. CASE query' = query
  <2>1. Exact' => Exact
    BY DEF Exact
  <2>2. Shape'
    BY <1>2 DEF Shape, Reading
  <2>3. HeaderRead'
    BY <1>2, <2>1 DEF HeaderRead, Reading
  <2>4. RestComes'
    BY DEF RestComes
  <2>5. OwnBytes'
    BY <1>2 DEF OwnBytes
  <2>6. OwnReply' /\ FirstByte'
    BY <1>2 DEF OwnReply, FirstByte, Reading
  <2> QED BY <1>1, <2>2, <2>3, <2>4, <2>5, <2>6
<1>3. CASE query' = Idle
  <2>1. ~Reading' /\ Shape' /\ HeaderRead' /\ RestComes' /\ FirstByte'
    BY <1>3, IdleReads
  <2>2. OwnBytes' /\ OwnReply'
    BY <1>3, <2>1 DEF OwnBytes, OwnReply
  <2> QED BY <1>1, <2>1, <2>2
<1> QED BY <1>2, <1>3

\* Nor does a fresh one.
LEMMA FreshKeeps ==
  ASSUME PtcInv, NEW s, NEW l, Fresh(s, l), mode' = mode, query' = query, ~Reading
  PROVE  Wire'
<1> USE EmptySeq, EmptyIsWhole DEF PtcInv, Wire, Fresh
<1>1. ~Reading' /\ query.header = <<>> /\ query.body = <<>>
  BY DEF Reading, Shape
<1>2. Shape'
  BY <1>1 DEF Shape
<1>3. HeaderRead' /\ RestComes'
  BY <1>1 DEF HeaderRead, RestComes
<1>4. OwnBytes' /\ OwnReply' /\ FirstByte'
  BY <1>1 DEF OwnBytes, OwnReply, FirstByte, Reading
<1>5. Whole(stream)' /\ Marks'
  BY DEF Marks
<1> QED BY <1>2, <1>3, <1>4, <1>5

\* Steps that touch neither the connection nor the query.
LEMMA SameKeeps ==
  ASSUME PtcInv, UNCHANGED <<mode, link, inbox, stream, query, clean, plain>>
  PROVE  Wire'
<1> USE DEF PtcInv, Wire
<1>1. Whole(stream)' /\ Marks'
  BY DEF Marks
<1>2. (Reading' <=> Reading) /\ (Exact' <=> Exact)
  BY DEF Reading, Exact
<1>3. Shape' /\ HeaderRead' /\ RestComes'
  BY <1>2 DEF Shape, HeaderRead, RestComes
<1>4. OwnBytes' /\ OwnReply' /\ FirstByte'
  BY <1>2 DEF OwnBytes, OwnReply, FirstByte
<1> QED BY <1>1, <1>3, <1>4

\* A query that ends without reading leaves what is in the stream: nothing,
\* or the connection is not clean any more.
LEMMA GivesUpKeeps ==
  ASSUME PtcInv, UNCHANGED <<mode, link, inbox, stream, plain>>, query' = Idle,
         clean' => inbox' = <<>> /\ stream' = <<>>,
         query.phase = "send" \/ mode = "tcp"
  PROVE  Wire'
<1> USE IdleIs, EmptySeq DEF PtcInv, Wire
<1>1. ~Reading' /\ Shape' /\ HeaderRead' /\ RestComes' /\ FirstByte'
  BY IdleReads
<1>2. Whole(stream)' /\ Marks'
  BY DEF Marks
<1>3. OwnBytes'
  BY DEF OwnBytes
<1>4. OwnReply'
  BY <1>1 DEF OwnReply, PtcTypes
<1> QED BY <1>1, <1>2, <1>3, <1>4

\* A query that fails returns no byte.
LEMMA ReturnedEmpty ==
  ASSUME PtcInv, NEW r, Return(r, <<>>)
  PROVE  Returned'
BY EmptySeq DEF Returned, Return

\* The opening thread creates the client and sets its timeouts.
LEMMA OpenerKeeps ==
  ASSUME PtcInv, Opener
  PROVE  PtcInv'
<1> USE DEF PtcInv
<1>1. Returned' /\ Wire'
  BY SameKeeps DEF Opener, MakeClient, OpenerStops, SetTimeout, Returned, sockvars, netvars
<1>2. PtcTypes'
  <2>1. CASE MakeClient
    BY <2>1 DEF MakeClient, PtcTypes
  <2>2. CASE OpenerStops
    BY <2>2 DEF OpenerStops, PtcTypes
  <2>3. CASE SetTimeout
    BY <2>3 DEF SetTimeout, PtcTypes
  <2> QED BY <2>1, <2>2, <2>3 DEF Opener
<1>3. Opened'
  BY DEF Opener, MakeClient, OpenerStops, SetTimeout, Opened
<1> QED BY <1>1, <1>2, <1>3

\* While the opening thread is in its loop nobody asks.
LEMMA NotOpenedYet ==
  ASSUME PtcInv, opener \notin {"timeout", "done"}
  PROVE  ~connected /\ asked = 0 /\ query = Idle /\ ~Reading
BY IdleIs, PtcAssumption DEF PtcInv, PtcTypes, Opened, Reading

\* A new TCP connection starts with an empty stream.
LEMMA TryOpenTcpKeeps ==
  ASSUME PtcInv, NEW ok \in BOOLEAN, TryOpenTcp(ok)
  PROVE  PtcInv'
<1> USE DEF PtcInv, TryOpenTcp, TcpOpens
<1>1. ~connected /\ asked = 0 /\ query = Idle /\ ~Reading
  BY NotOpenedYet
<1>2. Returned'
  BY DEF Returned
<1>3. PtcTypes' /\ Opened'
  BY <1>1, EmptySeq DEF PtcTypes, Opened, Fresh, Close, ghosts
<1>4. Wire'
  BY <1>1, FreshKeeps, CloseKeeps DEF ghosts
<1> QED BY <1>2, <1>3, <1>4

\* So does the socket below a TLS connection ...
LEMMA TryOpenSslKeeps ==
  ASSUME PtcInv, TryOpenSsl
  PROVE  PtcInv'
<1> USE DEF PtcInv, TryOpenSsl, InitSslClientFails, sockvars, netvars
<1>1. ~connected /\ asked = 0 /\ query = Idle /\ ~Reading
  BY NotOpenedYet
<1>2. Returned'
  BY DEF Returned
<1>3. PtcTypes' /\ Opened'
  BY <1>1, EmptySeq DEF PtcTypes, Opened, tcp_try_open
<1>4. Wire'
  BY SameKeeps
<1> QED BY <1>2, <1>3, <1>4

\* ... whatever SSL_connect returns.
LEMMA HandshakeKeeps ==
  ASSUME PtcInv, NEW h \in -1..1, Handshake(h)
  PROVE  PtcInv'
<1> USE DEF PtcInv, Handshake, SslOpens
<1>1. ~connected /\ asked = 0 /\ query = Idle /\ ~Reading
  BY NotOpenedYet
<1>2. Returned'
  BY DEF Returned
<1>3. PtcTypes' /\ Opened'
  BY <1>1, EmptySeq DEF PtcTypes, Opened, Fresh, Close, ghosts
<1>4. Wire'
  BY <1>1, FreshKeeps, CloseKeeps DEF ghosts
<1> QED BY <1>2, <1>3, <1>4

\* A query begins before anything of it is on its way.
LEMMA AskKeeps ==
  ASSUME PtcInv, NEW c \in Cmds, Ask(c)
  PROVE  PtcInv'
<1> USE IdleIs DEF PtcInv, Ask
<1>1. Returned'
  BY DEF Returned
<1>2. query' \in QueryType /\ query'.phase = "send" /\ query'.q = asked + 1 /\ query'.cmd = c
  <2>1. asked + 1 \in 0..MaxQueries
    BY PtcAssumption DEF PtcTypes
  <2>2. query' = [Idle EXCEPT !.phase = "send", !.q = asked + 1, !.cmd = c]
    OBVIOUS
  <2> QED BY <2>1, <2>2, ZenonT(60) DEF QueryType, Idle
<1>3. PtcTypes'
  BY <1>2, PtcAssumption DEF PtcTypes
<1>4. Opened'
  BY PtcAssumption DEF Opened, PtcTypes, IsOpen
<1>5. ~Reading' /\ ~Reading /\ query'.header = <<>> /\ query'.body = <<>>
  BY <1>2 DEF Reading, Idle
<1>6. Wire'
  <2>1. Shape' /\ HeaderRead' /\ RestComes' /\ Whole(stream)' /\ Marks'
    BY <1>5 DEF Shape, HeaderRead, RestComes, Marks, Wire
  <2>2. OwnReply' /\ FirstByte'
    BY <1>2, <1>5 DEF OwnReply, FirstByte, Wire
  <2>3. OwnBytes'
    <3>1. clean => inbox = <<>> /\ stream = <<>>
      BY DEF OwnBytes, Wire
    <3> QED BY <3>1, <1>5, EmptySeq DEF OwnBytes
  <2> QED BY <2>1, <2>2, <2>3 DEF Wire
<1> QED BY <1>1, <1>3, <1>4, <1>6

\* Send finds the connection closed and opens it again.
LEMMA ReopenKeeps ==
  ASSUME PtcInv, Reopen
  PROVE  PtcInv'
<1> USE DEF PtcInv
<1>1. ~Reading /\ query # Idle
  BY IdleIs DEF Reopen, Reading, Wire, Shape
<1>2. opener \in {"timeout", "done"} /\ opener' = opener
  BY <1>1 DEF Opened, Reopen
<1>3. \/ Close /\ Return(-1, <<>>)
      \/ InitSslClientFails /\ Return(-1, <<>>)
      \/ \E s \in {"fd", "none"}, l \in {"up", "none"} :
           Fresh(s, l) /\ UNCHANGED <<query, result>>
  <2>1. CASE mode = "tcp"
    BY <2>1 DEF Reopen, TcpOpens
  <2>2. CASE mode = "tcp_ssl"
    BY <2>2 DEF Reopen, SslOpens, tcp_open
  <2> QED BY <2>1, <2>2 DEF Reopen
<1>4. UNCHANGED <<mode, client, opener, InitOpen, owner, asked>>
  BY DEF Reopen
<1>5. Opened'
  BY <1>2, <1>4 DEF Opened
<1>6. CASE Close /\ Return(-1, <<>>)
  <2>1. query' = Idle /\ (clean' => clean) /\ clean' \in BOOLEAN /\ plain' = plain
    BY <1>6 DEF Return
  <2>2. PtcTypes'
    BY <1>4, <1>6, <2>1, IdleIs, EmptySeq DEF PtcTypes, Close
  <2>3. Wire' /\ Returned'
    BY <1>4, <1>6, <2>1, CloseKeeps, ReturnedEmpty
  <2> QED BY <1>5, <2>2, <2>3
<1>7. CASE InitSslClientFails /\ Return(-1, <<>>)
  <2>1. /\ query' = Idle /\ query.phase = "send" /\ plain' = plain /\ clean' \in BOOLEAN
        /\ clean' => inbox' = <<>> /\ stream' = <<>>
    BY <1>7 DEF Return, Reopen
  <2>2. PtcTypes'
    BY <1>4, <1>7, <2>1, IdleIs DEF PtcTypes, InitSslClientFails, sockvars, netvars
  <2>3. Wire' /\ Returned'
    BY <1>4, <1>7, <2>1, GivesUpKeeps, ReturnedEmpty DEF InitSslClientFails, sockvars, netvars
  <2> QED BY <1>5, <2>2, <2>3
<1>8. ASSUME NEW s \in {"fd", "none"}, NEW l \in {"up", "none"},
             Fresh(s, l), UNCHANGED <<query, result>>
      PROVE  PtcInv'
  <2>1. PtcTypes'
    BY <1>4, <1>8, EmptySeq DEF PtcTypes, Fresh
  <2>2. Wire' /\ Returned'
    BY <1>1, <1>4, <1>8, FreshKeeps DEF Returned
  <2> QED BY <1>5, <2>1, <2>2
<1> QED BY <1>3, <1>6, <1>7, <1>8

\* The request goes out; on a clean connection it is the only one.
LEMMA SendRequestKeeps ==
  ASSUME PtcInv, SendRequest
  PROVE  PtcInv'
<1> USE DEF PtcInv, SendRequest
<1> DEFINE m == PtcStreamEncode(query.q, query.cmd)
<1>1. query \in QueryType /\ query.q \in 1..MaxQueries /\ query.cmd \in Cmds
  BY PtcAssumption DEF PtcTypes, QueryType
<1>2. m \in Request /\ m.q = query.q
  BY <1>1 DEF PtcStreamEncode, Request
<1> HIDE DEF m
<1>3. /\ query' \in QueryType /\ query'.phase = "header" /\ query'.q = query.q
      /\ query'.cmd = query.cmd /\ query'.found = query.found
      /\ query'.header = query.header /\ query'.body = query.body
  BY <1>1 DEF QueryType
<1>4. inbox' = inbox \/ inbox' = Append(inbox, m)
  BY DEF m
<1>5. inbox' \in Seq(Request)
  BY <1>2, <1>4, AppendProperties DEF PtcTypes
<1>6. PtcTypes'
  BY <1>1, <1>3, <1>5 DEF PtcTypes
<1>7. Opened' /\ Returned'
  BY IdleIs DEF Opened, Returned
<1>8. ~Reading /\ ~Reading' /\ query.header = <<>> /\ query.body = <<>>
  BY <1>3 DEF Wire, Shape, Reading
<1>9. Whole(stream)' /\ Marks' /\ Shape' /\ HeaderRead' /\ RestComes'
  BY <1>3, <1>8 DEF Wire, Marks, Shape, HeaderRead, RestComes
<1>10. OwnReply'
  <2> SUFFICES ASSUME mode = "tcp_ssl", plain PROVE OwnReply'
    BY DEF OwnReply
  <2>1. inbox = <<>> /\ \A i \in 1..Len(stream) : stream[i].at # 1
    BY DEF Wire, OwnReply
  <2>2. inbox' # <<>> => Len(inbox') = 1 /\ inbox'[1] = m
    BY <1>2, <1>4, <2>1, AppendProperties, EmptySeq DEF PtcTypes
  <2>3. inbox' # <<>> => /\ query'.phase = "header" /\ ~query'.found
                         /\ Len(inbox') = 1 /\ inbox'[1].q = query'.q
    BY <1>2, <1>3, <1>8, <2>2 DEF Reading
  <2>4. \A i \in 1..Len(stream') : stream'[i].at # 1
    BY <2>1
  <2> QED BY <1>8, <2>3, <2>4 DEF OwnReply
<1>11. OwnBytes' /\ FirstByte'
  <2> SUFFICES ASSUME clean PROVE OwnBytes' /\ FirstByte'
    BY DEF OwnBytes, FirstByte
  <2>1. inbox = <<>> /\ stream = <<>>
    BY DEF Wire, OwnBytes
  <2>2. inbox' # <<>> => Len(inbox') = 1 /\ inbox'[1] = m
    BY <1>2, <1>4, <2>1, AppendProperties, EmptySeq DEF PtcTypes
  <2>3. OwnBytes'
    <3>1. inbox' # <<>> => /\ query'.phase = "header" /\ ~query'.found
                           /\ Len(inbox') = 1 /\ inbox'[1].q = query'.q
                           /\ stream' = <<>>
      BY <1>2, <1>3, <1>8, <2>1, <2>2 DEF Reading
    <3>2. stream' = <<>> /\ query'.header = <<>> /\ query'.body = <<>>
      BY <1>3, <1>8, <2>1
    <3> QED BY <3>1, <3>2, EmptyIn DEF OwnBytes
  <2>4. FirstByte'
    BY <1>3, <1>8, <2>1 DEF FirstByte, Reading
  <2> QED BY <2>3, <2>4
<1> QED BY <1>6, <1>7, <1>9, <1>10, <1>11 DEF Wire

\* The request cannot be sent: the query returns nothing.
LEMMA SendFailsKeeps ==
  ASSUME PtcInv, SendFails
  PROVE  PtcInv'
<1> USE DEF PtcInv, SendFails
<1>1. /\ query' = Idle /\ Returned' /\ plain' = plain /\ (clean' => clean) /\ clean' \in BOOLEAN
      /\ clean' => inbox' = <<>> /\ stream' = <<>>
  BY ReturnedEmpty DEF Return
<1>2. Opened'
  BY <1>1, IdleIs DEF Opened, Close
<1>3. PtcTypes'
  BY <1>1, IdleIs, EmptySeq DEF PtcTypes, Close
<1>4. Wire'
  BY <1>1, CloseKeeps, GivesUpKeeps
<1> QED BY <1>1, <1>2, <1>3, <1>4

\* Nothing came in time: the reply is left behind on TCP, which is no longer
\* clean, and the connection closed on TLS.
LEMMA RecvTimeoutKeeps ==
  ASSUME PtcInv, RecvTimeout
  PROVE  PtcInv'
<1> USE DEF PtcInv, RecvTimeout, RecvGivesUp
<1>1. /\ query' = Idle /\ Returned' /\ plain' = plain /\ (clean' => clean) /\ clean' \in BOOLEAN
      /\ clean' => inbox' = <<>> /\ stream' = <<>>
  BY ReturnedEmpty DEF Return
<1>2. Opened'
  BY <1>1, IdleIs DEF Opened, SslShortRead, Close, sockvars
<1>3. PtcTypes'
  BY <1>1, IdleIs, EmptySeq DEF PtcTypes, SslShortRead, Close, sockvars, netvars
<1>4. mode # "tcp_ssl" => mode = "tcp"
  BY PtcAssumption DEF PtcTypes
<1>5. Wire'
  BY <1>1, <1>4, CloseKeeps, GivesUpKeeps DEF SslShortRead, sockvars, netvars
<1> QED BY <1>1, <1>2, <1>3, <1>5

\* The lidar has gone away: the connection is closed.
LEMMA RecvClosedKeeps ==
  ASSUME PtcInv, RecvClosed
  PROVE  PtcInv'
<1> USE DEF PtcInv, RecvClosed
<1>1. query' = Idle /\ Returned' /\ plain' = plain /\ (clean' => clean) /\ clean' \in BOOLEAN
  BY ReturnedEmpty DEF Return
<1>2. Opened'
  BY <1>1, IdleIs DEF Opened, Close
<1>3. PtcTypes'
  BY <1>1, IdleIs, EmptySeq DEF PtcTypes, Close
<1>4. Wire'
  BY <1>1, CloseKeeps
<1> QED BY <1>1, <1>2, <1>3, <1>4

\* The destructor waits for the opening thread and asks nothing.
LEMMA DestroyKeeps ==
  ASSUME PtcInv, Destroy \/ Destroyed
  PROVE  PtcInv'
<1> USE DEF PtcInv
<1>1. CASE Destroy
  <2>1. PtcTypes' /\ Opened' /\ Returned'
    BY <1>1, ZenonT(160) DEF Destroy, PtcTypes, Opened, Returned
  <2>2. Wire'
    BY <1>1, SameKeeps DEF Destroy
  <2> QED BY <2>1, <2>2
<1>2. CASE Destroyed
  <2>1. PtcTypes' /\ Opened' /\ Returned'
    BY <1>2, EmptySeq DEF Destroyed, Close, PtcTypes, Opened, Returned
  <2>2. Wire'
    BY <1>2, CloseKeeps DEF Destroyed
  <2> QED BY <2>1, <2>2
<1> QED BY <1>1, <1>2

\* A drop loses the rest of the reply that is being read, and with it the
\* session that could bring another.
LEMMA LidarDropsKeeps ==
  ASSUME PtcInv, LidarDrops
  PROVE  PtcInv'
<1> USE DEF PtcInv, LidarDrops
<1>1. PtcTypes' /\ Opened' /\ Returned'
  <2>1. stream' \in Seq(Bytes) /\ inbox' \in Seq(Request)
    BY EmptySeq DEF PtcTypes
  <2> QED BY <2>1 DEF PtcTypes, Opened, Returned
<1>2. Whole(stream)' /\ Marks'
  BY EmptyIsWhole DEF Wire, Marks
<1>3. Shape' /\ HeaderRead'
  BY DEF Shape, HeaderRead, Reading, Exact, Wire
<1>4. RestComes'
  <2>1. CASE stream' = stream
    BY <2>1 DEF RestComes, Reading, Exact, Wire
  <2>2. CASE stream' = <<>>
    BY <2>2 DEF RestComes
  <2> QED BY <2>1, <2>2
<1>5. OwnReply'
  BY EmptySeq DEF OwnReply, Reading, Wire
<1>6. OwnBytes' /\ FirstByte'
  BY EmptySeq DEF OwnBytes, FirstByte, Wire
<1> QED BY <1>1, <1>2, <1>3, <1>4, <1>5, <1>6 DEF Wire

\* A reply that is being read has been read up to some place in it.
LEMMA ReadTypes ==
  ASSUME PtcTypes, Shape, Reading
  PROVE  /\ query.header \in Seq(Bytes) /\ query.body \in Seq(Bytes)
         /\ Len(query.header) \in {2, 3} /\ Len(query.body) \in Nat
         /\ query.header[1] \in Bytes /\ query.header[1].of.len \in 0..MaxPayload
         /\ HeaderSize + query.header[1].of.len - (Len(query.header) + Len(query.body)) \in Int
<1>1. query.header \in Seq(Bytes) /\ query.body \in Seq(Bytes) /\ query.phase \in {"header", "body"}
  BY DEF PtcTypes, QueryType, Shape
<1>2. Len(query.body) \in Nat
  BY <1>1, LenProperties
<1>3. Len(query.header) = 2 \/ Len(query.header) = 3
  BY <1>1 DEF Shape, HeaderSize
<1>4. query.header[1] \in Bytes
  BY <1>1, <1>3, ElementOfSeq
<1>5. query.header[1].of.len \in 0..MaxPayload
  BY <1>4, BehindInt
<1>6. \A a \in 0..MaxPayload, b, c \in Nat : HeaderSize + a - (b + c) \in Int
  BY PtcAssumption DEF HeaderSize
<1> QED BY <1>1, <1>2, <1>3, <1>4, <1>5, <1>6

\* An answer goes behind what is in the stream.
LEMMA LidarAnswersKeeps ==
  ASSUME PtcInv, LidarAnswers
  PROVE  PtcInv'
<1> USE DEF PtcInv, LidarAnswers
<1> DEFINE m == Head(inbox)
<1>1. PICK a \in Answers :
        stream' = stream \o Reply(m, a) /\ plain' = (plain /\ Plain(Reply(m, a)))
  OBVIOUS
<1> DEFINE r == Reply(m, a)
           n == Len(a.body)
<1>2. inbox \in Seq(Request) /\ stream \in Seq(Bytes) /\ Len(stream) \in Nat
  BY LenProperties DEF PtcTypes
<1>3. m \in Request /\ m = inbox[1] /\ inbox' \in Seq(Request) /\ Len(inbox') = Len(inbox) - 1
  BY <1>2, HeadTailProperties
<1>4. /\ n \in 0..MaxPayload
      /\ r \in Seq(Bytes) /\ Len(r) = HeaderSize + n
      /\ \A i \in 1..(HeaderSize + n) :
           r[i].at = i /\ r[i].of = [q |-> m.q, cmd |-> m.cmd, len |-> n]
      /\ r[1].look = "id0"
      /\ Whole(r)
  BY <1>3, ReplyIsWhole
<1> HIDE DEF r, m, n
<1>5. \A i \in 1..(HeaderSize + n) : r[i].at = i /\ r[i].of.q = m.q
  BY <1>4
<1>6. n \in Nat /\ HeaderSize + n \in Nat /\ 1 \in 1..(HeaderSize + n)
  BY <1>4, PtcAssumption DEF HeaderSize
<1>7. /\ stream' = stream \o r /\ stream' \in Seq(Bytes)
      /\ Len(stream') = Len(stream) + (HeaderSize + n)
      /\ \A i \in 1..(Len(stream) + (HeaderSize + n)) :
           stream'[i] = IF i <= Len(stream) THEN stream[i] ELSE r[i - Len(stream)]
  <2>1. stream' = stream \o r
    BY <1>1 DEF r
  <2>2. /\ stream \o r \in Seq(Bytes) /\ Len(stream \o r) = Len(stream) + Len(r)
        /\ \A i \in 1..(Len(stream) + Len(r)) :
             (stream \o r)[i] = IF i <= Len(stream) THEN stream[i] ELSE r[i - Len(stream)]
    BY <1>2, <1>4, Joined
  <2>3. Len(r) = HeaderSize + n
    BY <1>4
  <2> QED BY <2>1, <2>2, <2>3, Zenon
<1>8. PtcTypes' /\ Opened' /\ Returned'
  <2>1. plain' \in BOOLEAN
    BY <1>1
  <2> QED BY <1>3, <1>7, <2>1 DEF PtcTypes, Opened, Returned
<1>9. Whole(stream)' /\ Marks'
  <2>1. Whole(stream \o r)
    BY <1>2, <1>4, WholeJoined DEF Wire
  <2>2. plain' => Plain(stream) /\ Plain(r)
    BY <1>1 DEF Wire, Marks, r
  <2>3. plain' => Plain(stream \o r)
    BY <1>2, <1>4, <2>2, PlainJoined
  <2> QED BY <1>7, <2>1, <2>3 DEF Marks
<1>10. (Reading' <=> Reading) /\ (Exact' => Exact) /\ (plain' => plain)
  BY <1>1 DEF Reading, Exact
<1>11. Shape' /\ HeaderRead'
  BY <1>10 DEF Shape, HeaderRead, Wire
<1>12. RestComes'
  <2> SUFFICES ASSUME Exact, Reading PROVE RestComes'
    BY <1>10 DEF RestComes
  <2> DEFINE left == HeaderSize + query.header[1].of.len - (Len(query.header) + Len(query.body))
  <2>1. /\ left <= Len(stream)
        /\ \A k \in 1..left :
             Part(stream[k], query.header[1], Len(query.header) + Len(query.body) + k)
    <3>1. link = "up"
      OBVIOUS
    <3> QED BY <3>1 DEF RestComes, Wire
  <2>2. left \in Int
    BY ReadTypes DEF Wire
  <2> HIDE DEF left
  <2>3. left <= Len(stream') /\ \A k \in 1..left : stream'[k] = stream[k]
    BY <1>2, <1>6, <1>7, <2>1, <2>2
  <2> QED BY <2>1, <2>3 DEF RestComes, left
<1>13. ASSUME NEW i \in 1..Len(stream'), ~(i <= Len(stream))
       PROVE  /\ i - Len(stream) \in 1..(HeaderSize + n)
              /\ stream'[i].at = i - Len(stream) /\ stream'[i].of.q = m.q
  <2>1. i - Len(stream) \in 1..(HeaderSize + n) /\ stream'[i] = r[i - Len(stream)]
    BY <1>2, <1>6, <1>7, <1>13
  <2> QED BY <2>1, <1>5
<1>14. OwnReply'
  <2> SUFFICES ASSUME mode = "tcp_ssl", plain PROVE OwnReply'
    BY <1>10 DEF OwnReply
  <2>1. /\ query.phase = "header" /\ ~query.found
        /\ Len(inbox) = 1 /\ m.q = query.q
        /\ \A i \in 1..Len(stream) : stream[i].at # 1
    BY <1>3 DEF Wire, OwnReply
  <2>2. inbox' = <<>> /\ ~Reading'
    BY <1>2, <1>3, <2>1, EmptySeq DEF Reading
  <2>3. ASSUME NEW i \in 1..Len(stream'), stream'[i].at = 1
        PROVE  i = Len(stream) + 1 /\ stream'[i].of.q = query.q
    <3>1. ~(i <= Len(stream))
      BY <1>2, <1>6, <1>7, <2>1, <2>3
    <3>2. i - Len(stream) = 1 /\ stream'[i].of.q = m.q
      BY <1>13, <2>3, <3>1
    <3> QED BY <3>2, <2>1, <1>2, <1>7
  <2> QED BY <2>1, <2>2, <2>3 DEF OwnReply
<1>15. OwnBytes' /\ FirstByte'
  <2> SUFFICES ASSUME clean PROVE OwnBytes' /\ FirstByte'
    BY DEF OwnBytes, FirstByte
  <2>1. /\ query.phase = "header" /\ ~query.found
        /\ Len(inbox) = 1 /\ m.q = query.q /\ stream = <<>>
    BY <1>3 DEF Wire, OwnBytes
  <2>2. inbox' = <<>> /\ Len(stream) = 0
    BY <1>2, <1>3, <2>1, EmptySeq
  <2>3. \A i \in 1..Len(stream') : stream'[i].of.q = query.q
    <3> TAKE i \in 1..Len(stream')
    <3>1. ~(i <= Len(stream))
      BY <1>2, <2>2, <1>6, <1>7
    <3> QED BY <3>1, <1>13, <2>1
  <2>4. OwnBytes'
    BY <2>1, <2>2, <2>3 DEF Wire, OwnBytes
  <2>5. stream'[1].at = 1
    <3>1. 1 \in 1..Len(stream') /\ ~(1 <= Len(stream)) /\ 1 - Len(stream) = 1
      BY <1>6, <1>7, <2>2
    <3> QED BY <3>1, <1>13
  <2> QED BY <2>1, <2>4, <2>5 DEF FirstByte
<1> QED BY <1>8, <1>9, <1>11, <1>12, <1>14, <1>15 DEF Wire

-----------------------------------------------------------------------------
(* Steps that read *)

\* Receive returns at least one byte, no more than asked for, and all of
\* them from the stream; over TLS exactly what was asked for.
LEMMA ReceivedIs ==
  ASSUME NEW left \in Nat \ {0}, NEW n \in Received(left), stream \in Seq(Bytes)
  PROVE  /\ n \in 1..left /\ n \in 0..Len(stream) /\ n <= Len(stream) /\ n \in Nat
         /\ mode = "tcp_ssl" => n = left
BY LenProperties DEF Received, SslReads

\* What is left of the stream is what it was behind the bytes read.
LEMMA ReadLeaves ==
  ASSUME PtcInv, NEW n \in 0..Len(stream), stream' = SubSeq(stream, n + 1, Len(stream)),
         plain' = plain
  PROVE  /\ stream \in Seq(Bytes) /\ Len(stream) \in Nat
         /\ stream' \in Seq(Bytes) /\ Len(stream') = Len(stream) - n
         /\ \A i \in 1..Len(stream') : n + i \in 1..Len(stream) /\ stream'[i] = stream[n + i]
         /\ Whole(stream)' /\ Marks'
<1>1. stream \in Seq(Bytes) /\ Len(stream) \in Nat
  BY LenProperties DEF PtcInv, PtcTypes
<1>2. /\ stream' \in Seq(Bytes) /\ Len(stream') = Len(stream) - n
      /\ \A i \in 1..(Len(stream) - n) : stream'[i] = stream[n + i]
  BY <1>1, StreamLeft
<1>3. \A i \in 1..Len(stream') : n + i \in 1..Len(stream) /\ stream'[i] = stream[n + i]
  <2> TAKE i \in 1..Len(stream')
  <2>1. i \in 1..(Len(stream) - n) /\ n + i \in 1..Len(stream)
    BY <1>1, <1>2
  <2> QED BY <2>1, <1>2
<1>4. Whole(stream)'
  BY <1>1, WholeLeft DEF PtcInv, Wire
<1>5. Marks'
  BY <1>1, PlainLeft DEF PtcInv, Wire, Marks
<1> QED BY <1>1, <1>2, <1>3, <1>4, <1>5

\* A query that ends between replies, or in one, leaves nothing in the stream
\* of a clean connection, and over TLS nothing that starts a reply.
LEMMA EndKeeps ==
  ASSUME PtcInv, NEW n \in 0..Len(stream), stream' = SubSeq(stream, n + 1, Len(stream)),
         UNCHANGED <<mode, inbox, plain>>, query' = Idle,
         clean' => inbox' = <<>> /\ stream' = <<>>,
         mode = "tcp_ssl" /\ plain =>
           inbox = <<>> /\ \A i \in 1..Len(stream') : stream'[i].at # 1
  PROVE  Wire'
<1>1. Whole(stream)' /\ Marks'
  BY ReadLeaves
<1>2. ~Reading' /\ Shape' /\ HeaderRead' /\ RestComes' /\ FirstByte'
  BY IdleReads
<1>3. OwnReply'
  BY <1>2 DEF OwnReply
<1>4. OwnBytes'
  <2>1. query'.header = <<>> /\ query'.body = <<>>
    BY IdleIs
  <2> QED BY <2>1, EmptyIn DEF OwnBytes
<1> QED BY <1>1, <1>2, <1>3, <1>4 DEF Wire

\* A complete header: where headers are what they seem, h is the first three
\* bytes of a reply and the stream goes on behind them.
LEMMA HeaderDoneKeeps ==
  ASSUME PtcInv, query.phase = "header",
         NEW h \in Seq(Bytes), Len(h) = HeaderSize,
         NEW n \in 0..Len(stream), stream' = SubSeq(stream, n + 1, Len(stream)),
         UNCHANGED <<mode, client, opener, InitOpen, owner, sock, connected, link,
                     timed, inbox, asked>>,
         Exact =>
           /\ \A j \in 1..HeaderSize : Part(h[j], h[1], j)
           /\ Truthful(h[3])
           /\ h[1].of.len <= Len(stream')
           /\ \A k \in 1..h[1].of.len : Part(stream'[k], h[1], HeaderSize + k),
         clean => inbox = <<>> /\ \A j \in 1..HeaderSize : h[j].of.q = query.q,
         mode = "tcp_ssl" /\ plain =>
           /\ h[1].of.q = query.q /\ inbox = <<>>
           /\ \A i \in 1..Len(stream') : stream'[i].at # 1,
         HeaderDone(h)
  PROVE  PtcInv'
<1>1. \/ Return(-1, <<>>) \/ Return(0, <<>>)
      \/ /\ h[3].says.cmd = query.cmd /\ h[3].says.len # 0
         /\ query' = [query EXCEPT !.phase = "body", !.header = h] /\ GoesOn
  BY DEF HeaderDone, IsValidReply
<1>2. plain' = plain
  BY <1>1 DEF Return, GoesOn
<1>3. stream' \in Seq(Bytes) /\ Whole(stream)' /\ Marks' /\ Len(stream') \in Nat
  BY <1>2, ReadLeaves, LenProperties
<1>4. h[1] \in Bytes /\ h[3] \in Bytes /\ h[3].says.len \in 0..MaxPayload /\ 3 \in 1..HeaderSize
  <2>1. 1 \in 1..Len(h) /\ 3 \in 1..Len(h)
    BY DEF HeaderSize
  <2>2. h[1] \in Bytes /\ h[3] \in Bytes
    BY <2>1, ElementOfSeq
  <2> QED BY <2>1, <2>2, BehindInt
<1>5. query # Idle /\ opener \in {"timeout", "done"} /\ Opened'
  BY IdleIs DEF PtcInv, Opened
<1>6. CASE Return(-1, <<>>) \/ Return(0, <<>>)
  <2>1. /\ query' = Idle /\ Returned' /\ clean' \in BOOLEAN
        /\ clean' => inbox' = <<>> /\ stream' = <<>>
    BY <1>6, ReturnedEmpty DEF Return
  <2>2. PtcTypes'
    BY <1>2, <1>3, <2>1, IdleIs DEF PtcInv, PtcTypes
  <2>3. Wire'
    BY <1>2, <2>1, EndKeeps
  <2> QED BY <1>5, <2>1, <2>2, <2>3 DEF PtcInv
<1>7. CASE /\ h[3].says.cmd = query.cmd /\ h[3].says.len # 0
           /\ query' = [query EXCEPT !.phase = "body", !.header = h] /\ GoesOn
  <2>1. query \in QueryType /\ query.body = <<>> /\ UNCHANGED <<clean, plain, result>>
    <3>1. query \in QueryType
      BY DEF PtcInv, PtcTypes
    <3>2. query.body = <<>>
      BY DEF PtcInv, Wire, Shape
    <3> QED BY <1>7, <3>1, <3>2 DEF GoesOn
  <2>2. /\ query' \in QueryType /\ query'.phase = "body" /\ query'.header = h
        /\ query'.body = <<>> /\ query'.q = query.q /\ query'.cmd = query.cmd
    BY <1>7, <2>1 DEF QueryType
  <2>3. PtcTypes'
    BY <1>3, <2>1, <2>2 DEF PtcInv, PtcTypes
  <2>4. Returned'
    BY <2>1 DEF PtcInv, Returned
  <2>5. Reading' /\ (Exact' <=> Exact)
    BY <2>1, <2>2 DEF Reading, Exact
  <2>6. Shape'
    <3>1. Len(<<>>) < h[3].says.len
      BY <1>4, <1>7, EmptySeq, PtcAssumption
    <3> QED BY <1>7, <2>2, <2>5, <3>1 DEF Shape
  <2>7. Exact => h[1].of.cmd = h[3].says.cmd /\ h[1].of.len = h[3].says.len
    <3> SUFFICES ASSUME Exact PROVE h[1].of.cmd = h[3].says.cmd /\ h[1].of.len = h[3].says.len
      OBVIOUS
    <3>1. Part(h[3], h[1], 3) /\ Truthful(h[3])
      BY <1>4
    <3> QED BY <3>1 DEF Part, Truthful, HeaderSize
  <2>8. HeaderRead'
    BY <1>7, <2>2, <2>5, <2>7, EmptySeq DEF HeaderRead
  <2>9. RestComes'
    <3>1. Exact => h[1].of.len \in 0..MaxPayload
      BY <1>4, BehindInt
    <3>2. Exact => /\ HeaderSize + h[1].of.len - (Len(h) + Len(<<>>)) = h[1].of.len
                   /\ Len(h) + Len(<<>>) = HeaderSize
      BY <3>1, EmptySeq, PtcAssumption DEF HeaderSize
    <3> QED BY <2>2, <2>5, <3>2 DEF RestComes
  <2>10. OwnReply'
    BY <2>1, <2>2, EmptySeq DEF OwnReply
  <2>11. OwnBytes'
    <3> SUFFICES ASSUME clean PROVE OwnBytes'
      BY <2>1 DEF OwnBytes
    <3>1. \A i \in 1..Len(stream) : stream[i].of.q = query.q
      BY DEF PtcInv, Wire, OwnBytes
    <3>2. \A i \in 1..Len(stream') : stream'[i].of.q = query.q
      BY <1>2, <3>1, ReadLeaves
    <3>3. inbox' = <<>> /\ \A j \in 1..Len(h) : h[j].of.q = query.q
      OBVIOUS
    <3> QED BY <2>1, <2>2, <3>2, <3>3, EmptyIn DEF OwnBytes
  <2>12. FirstByte'
    BY <2>2 DEF FirstByte
  <2> QED BY <1>3, <1>5, <2>3, <2>4, <2>6, <2>8, <2>9, <2>10, <2>11, <2>12 DEF PtcInv, Wire
<1> QED BY <1>1, <1>6, <1>7

\* Every outcome of the second loop of QueryCommand.
LEMMA RecvBodyKeeps ==
  ASSUME PtcInv, RecvBody
  PROVE  PtcInv'
<1> DEFINE hd == query.header[1]
           len == query.header[3].says.len
           had == Len(query.body)
<1>1. /\ Reading /\ PtcTypes /\ Shape /\ HeaderRead /\ RestComes /\ OwnBytes /\ OwnReply
      /\ query.phase = "body"
  BY DEF RecvBody, Reading, PtcInv, Wire
<1>2. /\ query.header \in Seq(Bytes) /\ query.body \in Seq(Bytes)
      /\ had \in Nat /\ hd \in Bytes
  BY <1>1, ReadTypes
<1>3. Len(query.header) = HeaderSize /\ had < len /\ query.header[3].says.cmd = query.cmd
  BY <1>1 DEF Shape
<1>4. len \in 0..MaxPayload /\ len \in Nat
  <2>1. 3 \in 1..Len(query.header)
    BY <1>3 DEF HeaderSize
  <2>2. query.header[3] \in Bytes
    BY <1>2, <2>1, ElementOfSeq
  <2> QED BY <2>2, BehindInt, PtcAssumption
<1>5. Exact => /\ hd.of.cmd = query.cmd /\ hd.of.len = len
               /\ \A j \in 1..had : Part(query.body[j], hd, HeaderSize + j)
  BY <1>1 DEF HeaderRead
<1>6. PICK n \in Received(len - had) :
        /\ stream' = SubSeq(stream, n + 1, Len(stream))
        /\ IF Len(query.body \o SubSeq(stream, 1, n)) = len
             THEN Return(0, query.body \o SubSeq(stream, 1, n))
             ELSE query' = [query EXCEPT !.body = query.body \o SubSeq(stream, 1, n)]
                  /\ GoesOn
  BY DEF RecvBody
<1>7. UNCHANGED <<mode, client, opener, InitOpen, owner, sock, connected, link,
                  timed, inbox, asked>> /\ plain' = plain
  BY <1>6 DEF RecvBody, Return, GoesOn
<1> HIDE DEF hd, len, had
<1>8. stream \in Seq(Bytes) /\ Len(stream) \in Nat
  BY <1>1, LenProperties DEF PtcTypes
<1>9. n \in 1..(len - had) /\ n \in 0..Len(stream) /\ n \in Nat /\ n >= 1 /\ n <= Len(stream)
  BY <1>2, <1>3, <1>4, <1>8, ReceivedIs
<1> DEFINE b == query.body \o SubSeq(stream, 1, n)
<1>10. /\ SubSeq(stream, 1, n) \in Seq(Bytes) /\ Len(SubSeq(stream, 1, n)) = n
       /\ \A i \in 1..n : SubSeq(stream, 1, n)[i] = stream[i]
  BY <1>8, <1>9, StreamTaken
<1>11. /\ b \in Seq(Bytes) /\ Len(b) = had + n
       /\ \A i \in 1..(had + n) : b[i] = IF i <= had THEN query.body[i] ELSE stream[i - had]
  <2>1. /\ b \in Seq(Bytes) /\ Len(b) = had + n
        /\ \A i \in 1..(had + n) :
             b[i] = IF i <= had THEN query.body[i] ELSE SubSeq(stream, 1, n)[i - had]
    BY <1>2, <1>10, ConcatProperties, SMTT(40) DEF had
  <2>2. ASSUME NEW i \in 1..(had + n), ~(i <= had)
        PROVE  SubSeq(stream, 1, n)[i - had] = stream[i - had]
    <3>1. i - had \in 1..n
      BY <1>2, <1>9, <2>2
    <3> QED BY <3>1, <1>10
  <2> QED BY <2>1, <2>2
<1>12. stream # <<>>
  BY <1>9, EmptySeq
<1>13. Exact => /\ len - had <= Len(stream)
                /\ \A k \in 1..(len - had) : Part(stream[k], hd, HeaderSize + had + k)
  <2>1. HeaderSize + len - (HeaderSize + had) = len - had
    BY <1>2, <1>4 DEF HeaderSize
  <2> QED BY <1>1, <1>3, <1>5, <1>12, <2>1 DEF RestComes, hd, had
<1>14. /\ stream' \in Seq(Bytes) /\ Len(stream') = Len(stream) - n
       /\ \A i \in 1..Len(stream') : n + i \in 1..Len(stream) /\ stream'[i] = stream[n + i]
       /\ Whole(stream)' /\ Marks'
  BY <1>6, <1>7, <1>9, ReadLeaves
<1>15. Exact => \A j \in 1..(had + n) : Part(b[j], hd, HeaderSize + j)
  <2> SUFFICES ASSUME Exact, NEW j \in 1..(had + n) PROVE Part(b[j], hd, HeaderSize + j)
    OBVIOUS
  <2>1. CASE j <= had
    BY <2>1, <1>2, <1>5, <1>11
  <2>2. CASE ~(j <= had)
    <3>1. j - had \in 1..(len - had) /\ HeaderSize + had + (j - had) = HeaderSize + j
      BY <2>2, <1>2, <1>4, <1>9 DEF HeaderSize
    <3> QED BY <3>1, <2>2, <1>11, <1>13
  <2> QED BY <2>1, <2>2
<1>16. clean => \A j \in 1..(had + n) : b[j].of.q = query.q
  <2> SUFFICES ASSUME clean, NEW j \in 1..(had + n) PROVE b[j].of.q = query.q
    OBVIOUS
  <2>1. /\ \A i \in 1..Len(stream) : stream[i].of.q = query.q
        /\ \A i \in 1..had : query.body[i].of.q = query.q
    BY <1>1 DEF OwnBytes, had
  <2>2. CASE j <= had
    BY <2>1, <2>2, <1>2, <1>11
  <2>3. CASE ~(j <= had)
    <3>1. j - had \in 1..Len(stream)
      BY <2>3, <1>2, <1>8, <1>9
    <3> QED BY <3>1, <2>1, <2>3, <1>11
  <2> QED BY <2>2, <2>3
<1>17. Opened'
  BY <1>1, <1>7, IdleIs DEF PtcInv, Opened
<1>18. mode = "tcp_ssl" /\ plain =>
         /\ hd.of.q = query.q /\ inbox = <<>>
         /\ \A i \in 1..Len(stream') : stream'[i].at # 1
  <2> SUFFICES ASSUME mode = "tcp_ssl", plain
               PROVE  hd.of.q = query.q /\ inbox = <<>>
                      /\ \A i \in 1..Len(stream') : stream'[i].at # 1
    OBVIOUS
  <2>1. hd.of.q = query.q /\ inbox = <<>> /\ \A i \in 1..Len(stream) : stream[i].at # 1
    BY <1>1 DEF OwnReply, hd
  <2> QED BY <2>1, <1>14
<1> HIDE DEF b
<1>19. CASE had + n = len
  <2>1. Return(0, b)
    BY <1>6, <1>11, <1>19 DEF b
  <2>2. /\ query' = Idle /\ result'.body = b /\ result'.q = query.q /\ result'.cmd = query.cmd
        /\ result'.clean = clean /\ result'.plain = plain /\ clean' \in BOOLEAN
        /\ clean' => inbox' = <<>> /\ stream' = <<>>
    BY <2>1 DEF Return
  <2>3. DOMAIN b = 1..len /\ 1 \in 1..len /\ Len(b) = len
    <3>1. Len(b) = len /\ DOMAIN b = 1..Len(b)
      BY <1>11, <1>19, LenProperties
    <3>2. 1 \in 1..len
      BY <1>2, <1>3, <1>4
    <3> QED BY <3>1, <3>2
  <2>4. Exact => \A i \in 1..len : b[i].at = HeaderSize + i /\ b[i].of = hd.of
    BY <1>15, <1>19 DEF Part
  <2>5. Exact => \A i \in DOMAIN b :
                   /\ b[i].at = HeaderSize + i /\ b[i].of = b[1].of
                   /\ b[i].of.cmd = query.cmd /\ b[i].of.len = Len(b)
    BY <1>5, <2>3, <2>4
  <2>6. clean \/ (mode = "tcp_ssl" /\ plain) => \A i \in DOMAIN b : b[i].of.q = query.q
    <3>1. CASE clean
      BY <3>1, <1>16, <1>19, <2>3
    <3>2. CASE mode = "tcp_ssl" /\ plain
      BY <3>2, <1>18, <2>3, <2>4 DEF Exact
    <3> QED BY <3>1, <3>2
  <2>7. Returned'
    BY <1>7, <2>2, <2>5, <2>6 DEF Returned, Exact
  <2>8. PtcTypes'
    BY <1>1, <1>7, <1>14, <2>2, IdleIs DEF PtcTypes
  <2>9. Wire'
    BY <1>6, <1>7, <1>9, <1>18, <2>2, EndKeeps
  <2> QED BY <1>17, <2>7, <2>8, <2>9 DEF PtcInv
<1>20. CASE had + n # len
  <2>1. query' = [query EXCEPT !.body = b] /\ UNCHANGED <<result, clean, plain>>
    BY <1>6, <1>11, <1>20 DEF b, GoesOn
  <2>2. query \in QueryType
    BY <1>1 DEF PtcTypes
  <2>3. /\ query' \in QueryType /\ query'.phase = "body" /\ query'.header = query.header
        /\ query'.body = b /\ query'.q = query.q /\ query'.cmd = query.cmd
    BY <1>1, <1>11, <2>1, <2>2 DEF QueryType
  <2>4. PtcTypes'
    BY <1>1, <1>7, <1>14, <2>1, <2>3 DEF PtcTypes
  <2>5. Returned'
    BY <1>7, <2>1 DEF PtcInv, Returned
  <2>6. Reading' /\ query'.header[1] = hd /\ (Exact' <=> Exact)
    BY <1>7, <2>1, <2>3 DEF Reading, Exact, hd
  <2>7. Shape'
    <3>1. Len(b) < len
      BY <1>2, <1>4, <1>9, <1>11, <1>20
    <3> QED BY <1>3, <2>3, <2>6, <3>1 DEF Shape, len
  <2>8. HeaderRead'
    <3>1. Exact => \A j \in 1..Len(query'.header) : Part(query'.header[j], hd, j)
      BY <1>1, <2>3 DEF HeaderRead, hd
    <3> QED BY <1>5, <1>11, <1>15, <2>3, <2>6, <3>1 DEF HeaderRead, len
  <2>9. RestComes'
    <3> SUFFICES ASSUME Exact PROVE RestComes'
      BY <2>6 DEF RestComes
    <3>1. /\ HeaderSize + len - (HeaderSize + (had + n)) = len - had - n
          /\ len - had - n <= Len(stream')
      BY <1>2, <1>4, <1>8, <1>9, <1>13, <1>14 DEF HeaderSize
    <3>2. ASSUME NEW k \in 1..(len - had - n)
          PROVE  Part(stream'[k], hd, HeaderSize + (had + n) + k)
      <4>1. /\ n + k \in 1..(len - had) /\ k \in 1..Len(stream')
            /\ HeaderSize + had + (n + k) = HeaderSize + (had + n) + k
        BY <1>2, <1>4, <1>8, <1>9, <1>13, <1>14 DEF HeaderSize
      <4> QED BY <4>1, <1>13, <1>14
    <3> QED BY <1>3, <1>5, <1>11, <2>3, <2>6, <3>1, <3>2 DEF RestComes
  <2>10. OwnReply'
    BY <1>7, <1>18, <2>3, <2>6 DEF OwnReply
  <2>11. OwnBytes'
    <3> SUFFICES ASSUME clean PROVE OwnBytes'
      BY <2>1 DEF OwnBytes
    <3>1. /\ inbox = <<>>
          /\ \A i \in 1..Len(stream) : stream[i].of.q = query.q
          /\ \A j \in 1..Len(query.header) : query.header[j].of.q = query.q
      BY <1>1, <1>12 DEF OwnBytes
    <3>2. \A i \in 1..Len(stream') : stream'[i].of.q = query.q
      BY <1>14, <3>1
    <3> QED BY <1>7, <1>11, <1>16, <2>3, <3>1, <3>2 DEF OwnBytes
  <2>12. FirstByte'
    BY <2>3 DEF FirstByte
  <2> QED BY <1>14, <1>17, <2>4, <2>5, <2>7, <2>8, <2>9, <2>10, <2>11, <2>12 DEF PtcInv, Wire
<1> QED BY <1>19, <1>20

\* The identifier was found before: one byte makes the header complete.
LEMMA RecvRestOfHeaderKeeps ==
  ASSUME PtcInv, RecvHeader, query.found
  PROVE  PtcInv'
<1> DEFINE hd == query.header[1]
<1>1. /\ Reading /\ PtcTypes /\ Shape /\ HeaderRead /\ RestComes /\ OwnBytes /\ OwnReply
      /\ query.phase = "header" /\ Whole(stream)
  BY DEF RecvHeader, Reading, PtcInv, Wire
<1>2. /\ query.header \in Seq(Bytes) /\ hd \in Bytes /\ hd.of.len \in 0..MaxPayload
      /\ hd.of.len \in Nat
  BY <1>1, ReadTypes, PtcAssumption
<1>3. Len(query.header) = 2 /\ query.body = <<>>
  BY <1>1 DEF Shape
<1> HIDE DEF hd
<1>4. HeaderSize - Len(query.header) = 1
  BY <1>3 DEF HeaderSize
<1>5. PICK n \in Received(1) :
        LET h == query.header \o SubSeq(stream, 1, n)
        IN  /\ stream' = SubSeq(stream, n + 1, Len(stream))
            /\ IF Len(h) >= HeaderSize THEN HeaderDone(h)
               ELSE query' = [query EXCEPT !.header = h, !.found = (h # <<>>)] /\ GoesOn
  BY <1>4 DEF RecvHeader
<1>6. UNCHANGED <<mode, client, opener, InitOpen, owner, sock, connected, link,
                  timed, inbox, asked>>
  BY DEF RecvHeader
<1>7. stream \in Seq(Bytes) /\ Len(stream) \in Nat
  BY <1>1, LenProperties DEF PtcTypes
<1>8. n = 1 /\ 1 \in 0..Len(stream) /\ 1 <= Len(stream) /\ 1 \in 1..Len(stream)
  <2>1. n \in 1..1 /\ n <= Len(stream)
    BY <1>7, ReceivedIs
  <2> QED BY <2>1, <1>7
<1> DEFINE p == SubSeq(stream, 1, 1)
           h == query.header \o p
<1>9. p \in Seq(Bytes) /\ Len(p) = 1 /\ p[1] = stream[1]
  BY <1>7, <1>8, StreamTaken
<1>10. /\ h \in Seq(Bytes) /\ Len(h) = 3
       /\ h[1] = hd /\ h[2] = query.header[2] /\ h[3] = stream[1]
  <2> HIDE DEF p
  <2>0. /\ h \in Seq(Bytes) /\ Len(h) = Len(query.header) + Len(p)
        /\ \A i \in 1..(Len(query.header) + Len(p)) :
             h[i] = IF i <= Len(query.header) THEN query.header[i] ELSE p[i - Len(query.header)]
    BY <1>2, <1>9, Joined, ZenonT(60)
  <2>1. /\ h \in Seq(Bytes) /\ Len(h) = 2 + 1
        /\ \A i \in 1..(2 + 1) : h[i] = IF i <= 2 THEN query.header[i] ELSE p[i - 2]
    BY <1>3, <1>9, <2>0, ZenonT(60)
  <2> HIDE DEF h
  <2> QED BY <2>1, <1>9 DEF hd
<1>11. /\ stream' = SubSeq(stream, 1 + 1, Len(stream)) /\ Len(stream') = Len(stream) - 1
       /\ \A i \in 1..(Len(stream) - 1) : stream'[i] = stream[1 + i]
  BY <1>5, <1>7, <1>8, StreamLeft
<1>12. HeaderDone(h)
  BY <1>5, <1>8, <1>10 DEF HeaderSize
<1> HIDE DEF h, p
<1>13. stream # <<>>
  BY <1>8, EmptySeq
<1>14. \A j \in 1..HeaderSize : j = 1 \/ j = 2 \/ j = 3
  BY DEF HeaderSize
<1>15. ASSUME Exact
       PROVE  /\ \A j \in 1..HeaderSize : Part(h[j], h[1], j)
              /\ Truthful(h[3])
              /\ h[1].of.len <= Len(stream')
              /\ \A k \in 1..h[1].of.len : Part(stream'[k], h[1], HeaderSize + k)
  <2>1. /\ 1 + hd.of.len <= Len(stream)
        /\ \A k \in 1..(1 + hd.of.len) : Part(stream[k], hd, 2 + k)
    <3>1. HeaderSize + hd.of.len - (2 + Len(<<>>)) = 1 + hd.of.len /\ 2 + Len(<<>>) = 2
      BY <1>2, EmptySeq DEF HeaderSize
    <3> QED BY <1>1, <1>3, <1>13, <1>15, <3>1 DEF RestComes, hd
  <2>2. Part(stream[1], hd, 3)
    <3>1. 1 \in 1..(1 + hd.of.len) /\ 2 + 1 = 3
      BY <1>2
    <3> QED BY <3>1, <2>1
  <2>3. Part(query.header[1], hd, 1) /\ Part(query.header[2], hd, 2)
    <3>1. 1 \in 1..2 /\ 2 \in 1..2
      OBVIOUS
    <3> QED BY <3>1, <1>1, <1>3, <1>15 DEF HeaderRead, hd
  <2>4. \A j \in 1..HeaderSize : Part(h[j], h[1], j)
    BY <1>10, <1>14, <2>2, <2>3 DEF hd
  <2>5. Truthful(h[3])
    BY <1>1, <1>8, <1>10 DEF Whole
  <2>6. hd.of.len <= Len(stream')
    BY <1>2, <1>7, <1>11, <2>1
  <2>7. ASSUME NEW k \in 1..hd.of.len PROVE Part(stream'[k], hd, HeaderSize + k)
    <3>1. /\ k \in 1..(Len(stream) - 1) /\ 1 + k \in 1..(1 + hd.of.len)
          /\ 2 + (1 + k) = HeaderSize + k
      BY <1>2, <1>7, <2>1 DEF HeaderSize
    <3> QED BY <3>1, <1>11, <2>1
  <2> QED BY <2>4, <2>5, <2>6, <2>7, <1>10
<1>16. clean => inbox = <<>> /\ \A j \in 1..HeaderSize : h[j].of.q = query.q
  <2> SUFFICES ASSUME clean
               PROVE  inbox = <<>> /\ h[1].of.q = query.q /\ h[2].of.q = query.q /\ h[3].of.q = query.q
    BY <1>14
  <2>1. /\ inbox = <<>>
        /\ \A i \in 1..Len(stream) : stream[i].of.q = query.q
        /\ \A j \in 1..2 : query.header[j].of.q = query.q
    BY <1>1, <1>3, <1>13 DEF OwnBytes
  <2> QED BY <2>1, <1>8, <1>10 DEF hd
<1>17. mode = "tcp_ssl" /\ plain =>
         /\ h[1].of.q = query.q /\ inbox = <<>>
         /\ \A i \in 1..Len(stream') : stream'[i].at # 1
  <2> SUFFICES ASSUME mode = "tcp_ssl", plain
               PROVE  hd.of.q = query.q /\ inbox = <<>>
                      /\ \A i \in 1..Len(stream') : stream'[i].at # 1
    BY <1>10
  <2>1. hd.of.q = query.q /\ inbox = <<>> /\ \A i \in 1..Len(stream) : stream[i].at # 1
    BY <1>1 DEF OwnReply, hd
  <2>2. \A i \in 1..Len(stream') : 1 + i \in 1..Len(stream) /\ stream'[i] = stream[1 + i]
    BY <1>7, <1>8, <1>11
  <2> QED BY <2>1, <2>2
<1>18. Len(h) = HeaderSize
  BY <1>10 DEF HeaderSize
<1> QED BY <1>1, <1>6, <1>8, <1>10, <1>11, <1>12, <1>15, <1>16, <1>17, <1>18, HeaderDoneKeeps

\* On a clean TLS connection the first two bytes there are look like a header.
LEMMA FirstLooks ==
  ASSUME PtcInv, mode = "tcp_ssl", clean, query.phase = "header", stream # <<>>
  PROVE  stream[1].at = 1 /\ LooksLikeHeader(stream[1], stream[2])
<1>1. stream \in Seq(Bytes) /\ Len(stream) \in Nat /\ Whole(stream) /\ stream[1].at = 1
  BY LenProperties DEF PtcInv, PtcTypes, Wire, FirstByte
<1>2. Len(stream) # 0
  BY <1>1, EmptySeq
<1>3. 1 \in 1..Len(stream)
  BY <1>1, <1>2
<1>4. stream[1] \in Bytes
  BY <1>1, <1>3, ElementOfSeq
<1>5. stream[1].of.len \in Nat /\ Behind(stream[1]) = 2 + stream[1].of.len
  BY <1>1, <1>4, BehindInt, PtcAssumption DEF Behind, HeaderSize
<1>6. 1 \in 1..Behind(stream[1]) /\ 1 + 1 = 2
  BY <1>5
<1>7. /\ 1 + Behind(stream[1]) <= Len(stream) /\ Truthful(stream[1])
      /\ Part(stream[1 + 1], stream[1], stream[1].at + 1)
  BY <1>1, <1>3, <1>6 DEF Whole
<1>8. 2 \in 1..Len(stream) /\ stream[2].at = 2
  BY <1>1, <1>5, <1>7 DEF Part
<1>9. Truthful(stream[2])
  BY <1>1, <1>8 DEF Whole
<1> QED BY <1>1, <1>7, <1>8, <1>9 DEF Truthful, LooksLikeHeader

\* No identifier in the piece: it is dropped.
LEMMA RecvNoHeaderKeeps ==
  ASSUME PtcInv, query.phase = "header", ~query.found,
         NEW n \in 0..Len(stream), stream' = SubSeq(stream, n + 1, Len(stream)), n # 0,
         mode = "tcp_ssl" => n = HeaderSize, HeaderAt(SubSeq(stream, 1, n)) = {},
         query' = [query EXCEPT !.header = <<>>, !.found = FALSE], GoesOn,
         UNCHANGED <<mode, client, opener, InitOpen, owner, sock, connected, link,
                     timed, inbox, asked>>
  PROVE  PtcInv'
<1>1. /\ ~Reading /\ PtcTypes /\ Whole(stream) /\ Shape /\ OwnBytes /\ OwnReply
      /\ UNCHANGED <<clean, plain, result>>
  BY DEF Reading, PtcInv, Wire, GoesOn
<1>2. query' = query
  BY <1>1 DEF Shape, PtcTypes, QueryType
<1>3. /\ stream \in Seq(Bytes) /\ Len(stream) \in Nat
      /\ stream' \in Seq(Bytes) /\ Len(stream') = Len(stream) - n
      /\ \A i \in 1..Len(stream') : n + i \in 1..Len(stream) /\ stream'[i] = stream[n + i]
      /\ Whole(stream)' /\ Marks'
  BY <1>1, ReadLeaves
<1>4. stream # <<>>
  BY EmptySeq
<1>5. PtcTypes' /\ Opened' /\ Returned'
  BY <1>1, <1>2, <1>3 DEF PtcInv, PtcTypes, Opened, Returned
<1>6. ~Reading' /\ Shape' /\ HeaderRead' /\ RestComes'
  BY <1>1, <1>2 DEF Shape, HeaderRead, RestComes, Reading
<1>7. OwnReply'
  <2> SUFFICES ASSUME mode = "tcp_ssl", plain PROVE OwnReply'
    BY <1>1 DEF OwnReply
  <2>1. ASSUME NEW i \in 1..Len(stream'), stream'[i].at = 1
        PROVE  /\ inbox = <<>> /\ stream'[i].of.q = query.q
               /\ \A j \in 1..Len(stream') : stream'[j].at = 1 => j = i
    <3>1. n + i \in 1..Len(stream) /\ stream[n + i].at = 1 /\ stream'[i] = stream[n + i]
      BY <1>3, <2>1
    <3>2. /\ inbox = <<>> /\ stream[n + i].of.q = query.q
          /\ \A j \in 1..Len(stream) : stream[j].at = 1 => j = n + i
      BY <1>1, <3>1 DEF OwnReply
    <3>3. ASSUME NEW j \in 1..Len(stream'), stream'[j].at = 1 PROVE j = i
      <4>1. n + j = n + i
        BY <1>3, <3>2, <3>3
      <4> QED BY <4>1, <1>3
    <3> QED BY <3>1, <3>2, <3>3
  <2>2. inbox # <<>> => Len(inbox) = 1 /\ inbox[1].q = query.q
    BY <1>1 DEF OwnReply
  <2> QED BY <1>2, <1>6, <2>1, <2>2 DEF OwnReply
<1>8. OwnBytes'
  <2> SUFFICES ASSUME clean PROVE OwnBytes'
    BY <1>1 DEF OwnBytes
  <2>1. inbox = <<>> /\ \A i \in 1..Len(stream) : stream[i].of.q = query.q
    BY <1>1, <1>4 DEF OwnBytes
  <2>2. \A i \in 1..Len(stream') : stream'[i].of.q = query.q
    BY <1>3, <2>1
  <2> QED BY <1>1, <1>2, <2>1, <2>2 DEF OwnBytes
<1>9. FirstByte'
  <2> SUFFICES ASSUME mode = "tcp_ssl", clean PROVE FALSE
    BY <1>1 DEF FirstByte
  <2>1. LooksLikeHeader(stream[1], stream[2])
    BY <1>4, FirstLooks
  <2>2. n = 3
    BY DEF HeaderSize
  <2> DEFINE p == SubSeq(stream, 1, n)
  <2>3. Len(p) = n /\ \A i \in 1..n : p[i] = stream[i]
    BY <1>3, StreamTaken
  <2>4. HeaderAt(p) = {}
    OBVIOUS
  <2> HIDE DEF p
  <2>5. 1 \in 1..(Len(p) - 1) /\ p[1] = stream[1] /\ p[1 + 1] = stream[2]
    BY <2>2, <2>3
  <2>6. 1 \in HeaderAt(p)
    BY <2>1, <2>5 DEF HeaderAt
  <2> QED BY <2>4, <2>6
<1> QED BY <1>3, <1>5, <1>6, <1>7, <1>8, <1>9 DEF PtcInv, Wire

\* The header bytes of a piece start with an identifier, the first in it.
LEMMA HeaderFromIs ==
  ASSUME NEW p \in Seq(Bytes), Len(p) \in 1..HeaderSize, HeaderAt(p) # {}
  PROVE  \E i \in 1..(Len(p) - 1) :
           /\ LooksLikeHeader(p[i], p[i + 1])
           /\ LooksLikeHeader(p[1], p[2]) => i = 1
           /\ HeaderFrom(p) \in Seq(Bytes) /\ Len(HeaderFrom(p)) = Len(p) - i + 1
           /\ \A j \in 1..(Len(p) - i + 1) : HeaderFrom(p)[j] = p[i + j - 1]
<1> DEFINE i == CHOOSE i \in HeaderAt(p) : \A j \in HeaderAt(p) : i <= j
<1>1. \A k \in HeaderAt(p) : k = 1 \/ k = 2
  BY DEF HeaderAt, HeaderSize
<1>2. \E k \in HeaderAt(p) : \A j \in HeaderAt(p) : k <= j
  <2>1. CASE 1 \in HeaderAt(p)
    BY <1>1, <2>1
  <2>2. CASE 1 \notin HeaderAt(p)
    BY <1>1, <2>2
  <2> QED BY <2>1, <2>2
<1>3. i \in HeaderAt(p) /\ \A j \in HeaderAt(p) : i <= j
  BY <1>2
<1>4. HeaderFrom(p) = SubSeq(p, i, Len(p))
  BY DEF HeaderFrom
<1> HIDE DEF i
<1>5. i \in 1..(Len(p) - 1) /\ LooksLikeHeader(p[i], p[i + 1])
  BY <1>3 DEF HeaderAt
<1>6. Len(p) \in Nat /\ i \in Int /\ Len(p) \in Int /\ i <= Len(p)
  BY <1>5, LenProperties
<1>7. LooksLikeHeader(p[1], p[2]) => i = 1
  <2>1. 1 \in 1..(Len(p) - 1) /\ 1 + 1 = 2
    BY <1>5, <1>6
  <2>2. LooksLikeHeader(p[1], p[2]) => 1 \in HeaderAt(p)
    BY <2>1 DEF HeaderAt
  <2>3. LooksLikeHeader(p[1], p[2]) => i <= 1
    BY <2>2, <1>3
  <2> QED BY <2>3, <1>5
<1>8. \A k \in i..Len(p) : p[k] \in Bytes
  BY <1>5, <1>6, ElementOfSeq
<1>9. /\ SubSeq(p, i, Len(p)) \in Seq(Bytes)
      /\ Len(SubSeq(p, i, Len(p))) = IF i <= Len(p) THEN Len(p) - i + 1 ELSE 0
      /\ \A k \in 1..(Len(p) - i + 1) : SubSeq(p, i, Len(p))[k] = p[i + k - 1]
  BY <1>6, <1>8, SubSeqProperties
<1> QED BY <1>4, <1>5, <1>6, <1>7, <1>9

\* Byte j of a header that starts at place i.
LEMMA InHeader ==
  ASSUME NEW j \in Nat, NEW m \in Nat, NEW i \in Nat, NEW size \in Nat,
         j >= 1, j <= 3, i >= 1, i + (2 + m) <= size
  PROVE  /\ i + j - 1 \in 1..size /\ i + j - 1 = i + (j - 1)
         /\ j - 1 \in 0..(2 + m) /\ 1 + (j - 1) = j
OBVIOUS

\* Where in the stream what QueryCommand takes for a header starts.
LEMMA NewHeader ==
  ASSUME NEW s \in Seq(Bytes),
         NEW n \in 1..HeaderSize, n <= Len(s), HeaderAt(SubSeq(s, 1, n)) # {}
  PROVE  LET h == HeaderFrom(SubSeq(s, 1, n))
         IN  \E i \in 1..(n - 1) :
               /\ LooksLikeHeader(s[i], s[i + 1])
               /\ LooksLikeHeader(s[1], s[2]) => i = 1
               /\ h \in Seq(Bytes) /\ Len(h) = n - i + 1 /\ (Len(h) = 2 \/ Len(h) = 3)
               /\ \A j \in 1..Len(h) : i + j - 1 \in 1..n /\ h[j] = s[i + j - 1]
<1> DEFINE p == SubSeq(s, 1, n)
           h == HeaderFrom(p)
<1>1. Len(s) \in Nat
  BY LenProperties
<1>2. n \in 0..Len(s) /\ n \in Nat /\ (n = 1 \/ n = 2 \/ n = 3)
  BY <1>1 DEF HeaderSize
<1>3. p \in Seq(Bytes) /\ Len(p) = n /\ \A i \in 1..n : p[i] = s[i]
  BY <1>2, StreamTaken
<1>4. PICK i \in 1..(Len(p) - 1) :
        /\ LooksLikeHeader(p[i], p[i + 1])
        /\ LooksLikeHeader(p[1], p[2]) => i = 1
        /\ h \in Seq(Bytes) /\ Len(h) = Len(p) - i + 1
        /\ \A j \in 1..(Len(p) - i + 1) : h[j] = p[i + j - 1]
  BY <1>3, HeaderFromIs
<1> HIDE DEF p, h
<1>5. i \in 1..(n - 1) /\ i \in 1..n /\ i + 1 \in 1..n /\ 1 \in 1..n /\ 2 \in 1..n
  BY <1>2, <1>3
<1>6. LooksLikeHeader(s[i], s[i + 1]) /\ (LooksLikeHeader(s[1], s[2]) => i = 1)
  <2>1. p[i] = s[i] /\ p[i + 1] = s[i + 1] /\ p[1] = s[1] /\ p[2] = s[2]
    BY <1>3, <1>5
  <2> QED BY <2>1, <1>4
<1>7. Len(h) = n - i + 1 /\ (Len(h) = 2 \/ Len(h) = 3)
  BY <1>2, <1>3, <1>4, <1>5
<1>8. \A j \in 1..Len(h) : i + j - 1 \in 1..n /\ h[j] = s[i + j - 1]
  <2> TAKE j \in 1..Len(h)
  <2>1. i + j - 1 \in 1..n /\ j \in 1..(Len(p) - i + 1)
    BY <1>2, <1>3, <1>5, <1>7
  <2> QED BY <2>1, <1>3, <1>4
<1> QED BY <1>4, <1>5, <1>6, <1>7, <1>8 DEF p, h

\* Where it is one: the beginning of a reply, whose rest is next in the stream.
LEMMA TrueHeader ==
  ASSUME NEW s \in Seq(Bytes), Whole(s), NEW n \in 1..HeaderSize, n <= Len(s),
         NEW i \in 1..(n - 1), s[i].at = 1,
         NEW h \in Seq(Bytes), Len(h) = n - i + 1, Len(h) = 2 \/ Len(h) = 3,
         \A j \in 1..Len(h) : h[j] = s[i + j - 1],
         NEW t \in Seq(Bytes), Len(t) = Len(s) - n,
         \A k \in 1..(Len(s) - n) : t[k] = s[n + k]
  PROVE  /\ h[1] = s[i] /\ h[1].of.len \in Nat
         /\ \A j \in 1..Len(h) : Part(h[j], h[1], j) /\ Truthful(h[j])
         /\ HeaderSize + h[1].of.len - Len(h) <= Len(t)
         /\ \A k \in 1..(HeaderSize + h[1].of.len - Len(h)) : Part(t[k], h[1], Len(h) + k)
<1> DEFINE b == s[i]
<1>1. Len(s) \in Nat /\ n \in Nat /\ (n = 2 \/ n = 3) /\ i \in Nat /\ i < n /\ i \in 1..Len(s)
  <2>1. Len(s) \in Nat
    BY LenProperties
  <2>2. n \in Nat /\ (n = 1 \/ n = 2 \/ n = 3)
    BY DEF HeaderSize
  <2>3. i \in Nat /\ i < n /\ i >= 1
    BY <2>2
  <2> QED BY <2>1, <2>2, <2>3
<1>2. b \in Bytes /\ b.at = 1
  BY <1>1, ElementOfSeq
<1>3. /\ i + Behind(b) <= Len(s)
      /\ \A k \in 1..Behind(b) : Part(s[i + k], b, b.at + k)
  BY <1>1 DEF Whole
<1> HIDE DEF b
<1>4. b.of.len \in Nat /\ Behind(b) = 2 + b.of.len
  <2> DEFINE l == b.of.len
             p == b.at
  <2>1. l \in 0..MaxPayload /\ p = 1 /\ Behind(b) = 3 + l - p
    BY <1>2, BehindInt DEF Behind, HeaderSize
  <2> HIDE DEF l, p
  <2>2. l \in Nat /\ Behind(b) = 2 + l
    BY <2>1, PtcAssumption
  <2> QED BY <2>2 DEF l
<1>5. i + (2 + b.of.len) <= Len(s) /\ \A k \in 1..(2 + b.of.len) : Part(s[i + k], b, 1 + k)
  BY <1>2, <1>3, <1>4
<1>6. \A j \in 0..(2 + b.of.len) : Part(s[i + j], b, 1 + j)
  <2> TAKE j \in 0..(2 + b.of.len)
  <2>1. CASE j = 0
    BY <1>1, <1>2, <2>1 DEF b, Part
  <2>2. CASE j # 0
    BY <1>4, <1>5, <2>2
  <2> QED BY <2>1, <2>2
<1>7. \A j \in 1..Len(h) : Part(h[j], b, j) /\ Truthful(h[j])
  <2> TAKE j \in 1..Len(h)
  <2>1. j \in 1..3
    OBVIOUS
  <2>2. /\ i + j - 1 \in 1..Len(s) /\ i + j - 1 = i + (j - 1)
        /\ j - 1 \in 0..(2 + b.of.len) /\ 1 + (j - 1) = j
    <3> DEFINE m == b.of.len
               size == Len(s)
    <3>1. m \in Nat /\ size \in Nat /\ i \in Nat /\ i >= 1 /\ i + (2 + m) <= size
      BY <1>1, <1>4, <1>5
    <3>2. j \in Nat /\ j >= 1 /\ j <= 3
      BY <2>1
    <3> HIDE DEF m, size
    <3>3. /\ i + j - 1 \in 1..size /\ i + j - 1 = i + (j - 1)
          /\ j - 1 \in 0..(2 + m) /\ 1 + (j - 1) = j
      BY <3>1, <3>2, InHeader
    <3> QED BY <3>3 DEF m, size
  <2>3. h[j] = s[i + (j - 1)] /\ Truthful(s[i + j - 1])
    BY <2>2 DEF Whole
  <2> QED BY <2>2, <2>3, <1>6
<1>8. h[1] = b
  <2>1. 1 \in 1..Len(h) /\ i + 1 - 1 = i
    BY <1>1
  <2> QED BY <2>1 DEF b
<1>9. HeaderSize + b.of.len - Len(h) <= Len(t)
  <2> DEFINE m == b.of.len
             size == Len(s)
  <2>1. m \in Nat /\ size \in Nat /\ i + (2 + m) <= size
    BY <1>1, <1>4, <1>5
  <2> HIDE DEF m, size
  <2>2. 3 + m - (n - i + 1) <= size - n
    BY <2>1, <1>1
  <2>3. Len(h) = n - i + 1 /\ Len(t) = size - n
    BY DEF size
  <2> QED BY <2>2, <2>3 DEF m, HeaderSize
<1>10. ASSUME NEW k \in 1..(HeaderSize + b.of.len - Len(h))
       PROVE  Part(t[k], b, Len(h) + k)
  <2>1. k \in Nat /\ k >= 1 /\ k + Len(h) <= 3 + b.of.len
    <3> DEFINE l == Len(h)
               m == b.of.len
    <3>1. l \in Nat /\ m \in Nat /\ k \in 1..(3 + m - l)
      BY <1>1, <1>4 DEF HeaderSize
    <3> HIDE DEF l, m
    <3>2. k \in Nat /\ k >= 1 /\ k + l <= 3 + m
      BY <3>1
    <3> QED BY <3>2 DEF l, m
  <2>2. Len(h) \in Nat /\ n = Len(h) + i - 1
    BY <1>1
  <2> DEFINE l == Len(h)
             m == b.of.len
             size == Len(s)
  <2>3. l \in Nat /\ m \in Nat /\ size \in Nat /\ k + l <= 3 + m /\ n = l + i - 1 /\ i + (2 + m) <= size
    BY <1>1, <1>4, <1>5, <2>1, <2>2
  <2> HIDE DEF l, m, size
  <2>4. /\ k \in 1..(size - n) /\ n + k = i + (l + k - 1)
        /\ l + k - 1 \in 0..(2 + m) /\ 1 + (l + k - 1) = l + k
    <3>1. k \in Nat /\ k >= 1 /\ i \in Nat /\ n \in Nat
      BY <1>1, <2>1
    <3>2. k \in 1..(size - n) /\ n + k = i + (l + k - 1)
      BY <2>3, <3>1, SMTT(30)
    <3>3. l + k - 1 \in 0..(2 + m) /\ 1 + (l + k - 1) = l + k
      BY <2>3, <3>1, SMTT(30)
    <3> QED BY <3>2, <3>3
  <2>5. t[k] = s[i + (l + k - 1)] /\ Part(s[i + (l + k - 1)], b, l + k)
    BY <2>4, <1>6 DEF l, m, size
  <2> QED BY <2>5 DEF l
<1> QED BY <1>4, <1>7, <1>8, <1>9, <1>10 DEF b

\* What looks like a header in the piece.
LEMMA RecvNewHeaderKeeps ==
  ASSUME PtcInv, query.phase = "header", ~query.found,
         NEW n \in 1..HeaderSize, n <= Len(stream), mode = "tcp_ssl" => n = HeaderSize,
         HeaderAt(SubSeq(stream, 1, n)) # {}
  PROVE  LET h == HeaderFrom(SubSeq(stream, 1, n))
         IN  /\ stream' = SubSeq(stream, n + 1, Len(stream))
             /\ IF Len(h) >= HeaderSize THEN HeaderDone(h)
                ELSE query' = [query EXCEPT !.header = h, !.found = (h # <<>>)] /\ GoesOn
             /\ UNCHANGED <<mode, client, opener, InitOpen, owner, sock, connected, link,
                            timed, inbox, asked>>
             => PtcInv'
<1> DEFINE h == HeaderFrom(SubSeq(stream, 1, n))
           t == SubSeq(stream, n + 1, Len(stream))
<1>1. /\ ~Reading /\ PtcTypes /\ Whole(stream) /\ Marks /\ Shape /\ OwnBytes /\ OwnReply
      /\ Opened /\ Returned
  BY DEF Reading, PtcInv, Wire
<1>2. stream \in Seq(Bytes) /\ Len(stream) \in Nat
  BY <1>1, LenProperties DEF PtcTypes
<1>3. n \in 0..Len(stream) /\ n \in Nat /\ stream # <<>>
  BY <1>2, EmptySeq DEF HeaderSize
<1>4. PICK i \in 1..(n - 1) :
        /\ LooksLikeHeader(stream[i], stream[i + 1])
        /\ LooksLikeHeader(stream[1], stream[2]) => i = 1
        /\ h \in Seq(Bytes) /\ Len(h) = n - i + 1 /\ (Len(h) = 2 \/ Len(h) = 3)
        /\ \A j \in 1..Len(h) : i + j - 1 \in 1..n /\ h[j] = stream[i + j - 1]
  BY <1>2, NewHeader
<1>5. /\ t \in Seq(Bytes) /\ Len(t) = Len(stream) - n
      /\ \A k \in 1..(Len(stream) - n) : t[k] = stream[n + k]
  BY <1>2, <1>3, StreamLeft
<1> HIDE DEF h, t
<1>6. ASSUME mode = "tcp_ssl", clean PROVE i = 1 /\ stream[i].at = 1 /\ Len(h) = 3
  <2>1. stream[1].at = 1 /\ LooksLikeHeader(stream[1], stream[2])
    BY <1>3, <1>6, FirstLooks
  <2> QED BY <2>1, <1>4, <1>6 DEF HeaderSize
<1>7. Exact => stream[i].at = 1
  <2>1. ASSUME plain PROVE stream[i].at = 1
    <3>1. i \in 1..(Len(stream) - 1)
      BY <1>2, <1>3
    <3> QED BY <3>1, <2>1, <1>1, <1>4 DEF Marks, Plain
  <2> QED BY <2>1, <1>6 DEF Exact
<1>8. Exact => /\ h[1] = stream[i] /\ h[1].of.len \in Nat
               /\ \A j \in 1..Len(h) : Part(h[j], h[1], j) /\ Truthful(h[j])
               /\ HeaderSize + h[1].of.len - Len(h) <= Len(t)
               /\ \A k \in 1..(HeaderSize + h[1].of.len - Len(h)) : Part(t[k], h[1], Len(h) + k)
  <2> SUFFICES ASSUME Exact
               PROVE  /\ h[1] = stream[i] /\ h[1].of.len \in Nat
                      /\ \A j \in 1..Len(h) : Part(h[j], h[1], j) /\ Truthful(h[j])
                      /\ HeaderSize + h[1].of.len - Len(h) <= Len(t)
                      /\ \A k \in 1..(HeaderSize + h[1].of.len - Len(h)) : Part(t[k], h[1], Len(h) + k)
    OBVIOUS
  <2>1. stream[i].at = 1 /\ Whole(stream) /\ stream \in Seq(Bytes) /\ h \in Seq(Bytes) /\ t \in Seq(Bytes)
    BY <1>1, <1>2, <1>4, <1>5, <1>7
  <2>2. Len(h) = n - i + 1 /\ (Len(h) = 2 \/ Len(h) = 3) /\ \A j \in 1..Len(h) : h[j] = stream[i + j - 1]
    BY <1>4
  <2> QED BY <1>5, <2>1, <2>2, TrueHeader, ZenonT(160)
<1>9. clean => /\ inbox = <<>>
               /\ \A j \in 1..Len(h) : h[j].of.q = query.q
               /\ \A k \in 1..Len(t) : t[k].of.q = query.q
  <2> SUFFICES ASSUME clean
               PROVE  /\ inbox = <<>>
                      /\ \A j \in 1..Len(h) : h[j].of.q = query.q
                      /\ \A k \in 1..Len(t) : t[k].of.q = query.q
    OBVIOUS
  <2>1. inbox = <<>> /\ \A k \in 1..Len(stream) : stream[k].of.q = query.q
    BY <1>1, <1>3 DEF OwnBytes
  <2>2. ASSUME NEW j \in 1..Len(h) PROVE h[j].of.q = query.q
    <3>1. i + j - 1 \in 1..n /\ h[j] = stream[i + j - 1]
      BY <1>4
    <3>2. i + j - 1 \in 1..Len(stream)
      BY <3>1, <1>2, <1>3
    <3> QED BY <3>1, <3>2, <2>1
  <2>3. ASSUME NEW k \in 1..Len(t) PROVE t[k].of.q = query.q
    <3>1. k \in 1..(Len(stream) - n) /\ n + k \in 1..Len(stream)
      BY <1>2, <1>3, <1>5
    <3> QED BY <3>1, <1>5, <2>1
  <2> QED BY <2>1, <2>2, <2>3
<1>10. mode = "tcp_ssl" /\ plain =>
         /\ h[1].of.q = query.q /\ inbox = <<>>
         /\ \A k \in 1..Len(t) : t[k].at # 1
  <2> SUFFICES ASSUME mode = "tcp_ssl", plain
               PROVE  h[1].of.q = query.q /\ inbox = <<>>
                      /\ \A k \in 1..Len(t) : t[k].at # 1
    OBVIOUS
  <2>1. h[1] = stream[i] /\ stream[i].at = 1 /\ i \in 1..Len(stream)
    BY <1>2, <1>3, <1>7, <1>8 DEF Exact
  <2>2. h[1].of.q = query.q /\ inbox = <<>> /\ \A k \in 1..Len(stream) : stream[k].at = 1 => k = i
    BY <1>1, <2>1 DEF OwnReply
  <2>3. ASSUME NEW k \in 1..Len(t) PROVE t[k].at # 1
    <3>1. k \in 1..(Len(stream) - n) /\ n + k \in 1..Len(stream) /\ n + k # i
      BY <1>2, <1>3, <1>5
    <3> QED BY <3>1, <1>5, <2>2
  <2> QED BY <2>2, <2>3
<1>11. ASSUME stream' = t,
              UNCHANGED <<mode, client, opener, InitOpen, owner, sock, connected, link,
                          timed, inbox, asked>>,
              Len(h) = 3, HeaderDone(h)
       PROVE  PtcInv'
  <2>1. Len(h) = HeaderSize /\ stream' = SubSeq(stream, n + 1, Len(stream)) /\ 3 \in 1..Len(h)
    BY <1>11 DEF HeaderSize, t
  <2>2. Exact => HeaderSize + h[1].of.len - Len(h) = h[1].of.len
    BY <1>8, <1>11 DEF HeaderSize
  <2>3. Exact => /\ \A j \in 1..HeaderSize : Part(h[j], h[1], j)
                 /\ Truthful(h[3])
                 /\ h[1].of.len <= Len(stream')
                 /\ \A k \in 1..h[1].of.len : Part(stream'[k], h[1], HeaderSize + k)
    BY <1>8, <1>11, <2>1, <2>2
  <2>4. clean => inbox = <<>> /\ \A j \in 1..HeaderSize : h[j].of.q = query.q
    BY <1>9, <2>1
  <2>5. mode = "tcp_ssl" /\ plain =>
           /\ h[1].of.q = query.q /\ inbox = <<>>
           /\ \A k \in 1..Len(stream') : stream'[k].at # 1
    BY <1>10, <1>11
  <2> QED BY <1>3, <1>4, <1>11, <2>1, <2>3, <2>4, <2>5, HeaderDoneKeeps
<1>12. ASSUME stream' = t,
              UNCHANGED <<mode, client, opener, InitOpen, owner, sock, connected, link,
                          timed, inbox, asked>>,
              Len(h) = 2, GoesOn,
              query' = [query EXCEPT !.header = h, !.found = TRUE]
       PROVE  PtcInv'
  <2>1. /\ query \in QueryType /\ query.body = <<>> /\ UNCHANGED <<clean, plain, result>>
        /\ Whole(stream)' /\ Marks'
    <3>1. query \in QueryType /\ query.body = <<>> /\ UNCHANGED <<clean, plain, result>>
      BY <1>1, <1>12 DEF PtcTypes, Shape, GoesOn
    <3> QED BY <3>1, <1>3, <1>12, ReadLeaves DEF t
  <2>2. /\ query' \in QueryType /\ query'.phase = "header" /\ query'.header = h
        /\ query'.found /\ query'.body = <<>> /\ query'.q = query.q /\ query'.cmd = query.cmd
    BY <1>4, <1>12, <2>1 DEF QueryType
  <2>3. PtcTypes'
    BY <1>1, <1>5, <1>12, <2>1, <2>2 DEF PtcTypes
  <2>4. Opened' /\ Returned'
    BY <1>1, <1>12, <2>1, IdleIs DEF Opened, Returned
  <2>5. Reading' /\ (Exact' <=> Exact)
    BY <1>12, <2>1, <2>2 DEF Reading, Exact
  <2>6. Shape'
    BY <1>12, <2>2, <2>5 DEF Shape
  <2>7. HeaderRead'
    BY <1>8, <2>2, <2>5 DEF HeaderRead
  <2>8. RestComes'
    <3> SUFFICES ASSUME Exact PROVE RestComes'
      BY <2>5 DEF RestComes
    <3>1. Len(h) + Len(<<>>) = Len(h)
      BY <1>12, EmptySeq
    <3>2. /\ HeaderSize + h[1].of.len - (Len(h) + Len(<<>>)) <= Len(stream')
          /\ \A k \in 1..(HeaderSize + h[1].of.len - (Len(h) + Len(<<>>))) :
               Part(stream'[k], h[1], Len(h) + Len(<<>>) + k)
      BY <1>8, <1>12, <3>1
    <3> QED BY <2>2, <3>2 DEF RestComes
  <2>9. OwnReply'
    BY <1>10, <1>12, <2>1, <2>2 DEF OwnReply
  <2>10. OwnBytes'
    <3> SUFFICES ASSUME clean PROVE OwnBytes'
      BY <2>1 DEF OwnBytes
    <3>1. /\ inbox' = <<>> /\ \A j \in 1..Len(h) : h[j].of.q = query.q
          /\ \A k \in 1..Len(stream') : stream'[k].of.q = query.q
      BY <1>9, <1>12
    <3> QED BY <2>1, <2>2, <3>1, EmptyIn DEF OwnBytes
  <2>11. FirstByte'
    BY <1>6, <1>12, <2>1 DEF FirstByte
  <2> QED BY <2>1, <2>3, <2>4, <2>6, <2>7, <2>8, <2>9, <2>10, <2>11 DEF PtcInv, Wire
<1>13. (Len(h) = 3 => Len(h) >= HeaderSize) /\ (Len(h) = 2 => ~(Len(h) >= HeaderSize) /\ h # <<>>)
  <2>1. Len(h) = 3 => Len(h) >= HeaderSize
    BY DEF HeaderSize
  <2>2. Len(h) = 2 => ~(Len(h) >= HeaderSize)
    BY DEF HeaderSize
  <2>3. ASSUME Len(h) = 2, h = <<>> PROVE FALSE
    <3>1. Len(<<>>) = 2
      BY <2>3
    <3> QED BY <3>1
  <2> QED BY <2>1, <2>2, <2>3
<1>14. Len(h) = 2 \/ Len(h) = 3
  BY <1>4
<1> QED BY <1>11, <1>12, <1>13, <1>14 DEF h, t

\* Every outcome of the first loop of QueryCommand.
LEMMA RecvHeaderKeeps ==
  ASSUME PtcInv, RecvHeader
  PROVE  PtcInv'
<1>1. CASE query.found
  BY <1>1, RecvRestOfHeaderKeeps
<1>2. CASE ~query.found
  <2>1. query.phase = "header" /\ query.header = <<>> /\ stream \in Seq(Bytes)
    BY <1>2 DEF RecvHeader, PtcInv, PtcTypes, Wire, Shape, Reading
  <2>2. HeaderSize - Len(query.header) = HeaderSize /\ HeaderSize \in Nat \ {0}
    BY <2>1, EmptySeq DEF HeaderSize
  <2>3. PICK n \in Received(HeaderSize) :
          LET p == SubSeq(stream, 1, n)
              h == IF HeaderAt(p) = {} THEN <<>> ELSE HeaderFrom(p)
          IN  /\ stream' = SubSeq(stream, n + 1, Len(stream))
              /\ IF Len(h) >= HeaderSize THEN HeaderDone(h)
                 ELSE query' = [query EXCEPT !.header = h, !.found = (h # <<>>)] /\ GoesOn
    BY <1>2, <2>2 DEF RecvHeader
  <2>4. /\ n \in 1..HeaderSize /\ n <= Len(stream) /\ n \in 0..Len(stream) /\ n # 0
        /\ mode = "tcp_ssl" => n = HeaderSize
    <3>1. /\ n \in 1..HeaderSize /\ n <= Len(stream) /\ n \in 0..Len(stream)
          /\ mode = "tcp_ssl" => n = HeaderSize
      BY <2>1, <2>2, ReceivedIs
    <3> QED BY <3>1
  <2>5. UNCHANGED <<mode, client, opener, InitOpen, owner, sock, connected, link,
                    timed, inbox, asked>>
    BY DEF RecvHeader
  <2>6. CASE HeaderAt(SubSeq(stream, 1, n)) = {}
    <3>1. ~(Len(<<>>) >= HeaderSize)
      BY EmptySeq DEF HeaderSize
    <3>2. query' = [query EXCEPT !.header = <<>>, !.found = FALSE] /\ GoesOn
      BY <2>3, <2>6, <3>1
    <3> QED BY <1>2, <2>1, <2>3, <2>4, <2>5, <2>6, <3>2, RecvNoHeaderKeeps
  <2>7. CASE HeaderAt(SubSeq(stream, 1, n)) # {}
    BY <1>2, <2>1, <2>3, <2>4, <2>5, <2>7, RecvNewHeaderKeeps
  <2> QED BY <2>6, <2>7
<1> QED BY <1>1, <1>2 DEF PtcInv, PtcTypes, QueryType

-----------------------------------------------------------------------------
(* The theorems *)

\* At the start there is no connection and no question.
LEMMA PtcInit == Init => PtcInv
<1> SUFFICES ASSUME Init PROVE PtcInv
  OBVIOUS
<1>1. PtcTypes
  <2>1. inbox \in Seq(Request) /\ stream \in Seq(Bytes) /\ query \in QueryType /\ asked \in 0..MaxQueries
    BY IdleIs, EmptySeq, PtcAssumption DEF Init
  <2> QED BY <2>1, IdleIs DEF Init, PtcTypes
<1>2. Opened
  BY DEF Init, Opened
<1>3. ~Reading
  BY IdleIs DEF Init, Reading
<1>4. Wire
  BY <1>3, IdleIs, EmptyIsWhole, EmptySeq
     DEF Init, Wire, Marks, Shape, HeaderRead, RestComes, OwnBytes, OwnReply, FirstByte
<1>5. Returned
  BY EmptySeq DEF Init, NoResult, Returned
<1> QED BY <1>1, <1>2, <1>4, <1>5 DEF PtcInv

\* Every step keeps the invariant.
LEMMA PtcNext == PtcInv /\ [Next]_vars => PtcInv'
<1> SUFFICES ASSUME PtcInv, [Next]_vars PROVE PtcInv'
  OBVIOUS
<1>1. CASE Opener
  BY <1>1, OpenerKeeps
<1>2. CASE TryOpen
  BY <1>2, TryOpenTcpKeeps, TryOpenSslKeeps, HandshakeKeeps DEF TryOpen
<1>3. CASE \E c \in Cmds : Ask(c)
  BY <1>3, AskKeeps
<1>4. CASE QueryStep
  BY <1>4, ReopenKeeps, SendRequestKeeps, SendFailsKeeps, RecvHeaderKeeps,
     RecvBodyKeeps, RecvClosedKeeps DEF QueryStep
<1>5. CASE RecvTimeout
  BY <1>5, RecvTimeoutKeeps
<1>6. CASE LidarAnswers \/ LidarDrops
  BY <1>6, LidarAnswersKeeps, LidarDropsKeeps
<1>7. CASE Destroy \/ Destroyed
  BY <1>7, DestroyKeeps
<1>8. CASE UNCHANGED vars
  <2>1. PtcTypes' /\ Opened' /\ Returned'
    BY <1>8 DEF vars, PtcInv, PtcTypes, Opened, Returned
  <2>2. Wire'
    BY <1>8, SameKeeps DEF vars
  <2> QED BY <2>1, <2>2 DEF PtcInv
<1> QED BY <1>1, <1>2, <1>3, <1>4, <1>5, <1>6, <1>7, <1>8 DEF Next

\* The inductive invariant of the client.
THEOREM PtcInvariant == Spec => []PtcInv
BY PtcInit, PtcNext, PTL DEF Spec

\* Every variable has its type, and QueryCommand's header and payload buffers
\* are never overrun, however the stream is cut into pieces.
THEOREM PtcTypeCorrect == Spec => []TypeOK
<1>1. PtcInv => TypeOK
  <2> SUFFICES ASSUME PtcInv PROVE TypeOK
    OBVIOUS
  <2>1. PtcTypes /\ Shape
    BY DEF PtcInv, Wire
  <2>2. \A i \in DOMAIN stream : stream[i] \in Bytes
    BY <2>1, LenProperties, ElementOfSeq DEF PtcTypes
  <2>3. query.phase \in {"idle", "send", "header", "body"}
    BY <2>1 DEF PtcTypes, QueryType
  <2>4. Len(query.header) <= HeaderSize /\ Len(query.body) <= MaxPayload
    <3>1. CASE ~Reading
      BY <2>1, <3>1, EmptySeq, PtcAssumption DEF Shape, HeaderSize
    <3>2. CASE Reading
      <4>1. query.header \in Seq(Bytes) /\ Len(query.body) \in Nat
        BY <2>1, <3>2, ReadTypes
      <4>2. CASE query.phase = "header"
        <5>1. Len(query.header) = 2 /\ query.body = <<>>
          BY <2>1, <3>2, <4>2 DEF Shape
        <5> QED BY <5>1, EmptySeq, PtcAssumption DEF HeaderSize
      <4>3. CASE query.phase = "body"
        <5>1. Len(query.header) = HeaderSize /\ Len(query.body) < query.header[3].says.len
          BY <2>1, <3>2, <4>3 DEF Shape
        <5>2. 3 \in 1..Len(query.header)
          BY <5>1 DEF HeaderSize
        <5>3. query.header[3] \in Bytes
          BY <4>1, <5>2, ElementOfSeq
        <5>4. query.header[3].says.len \in 0..MaxPayload
          BY <5>3, BehindInt
        <5>5. query.header[3].says.len \in Nat /\ query.header[3].says.len <= MaxPayload
          BY <5>4, PtcAssumption
        <5> QED BY <4>1, <5>1, <5>5, PtcAssumption DEF HeaderSize
      <4> QED BY <2>1, <3>2, <4>2, <4>3 DEF Shape
    <3> QED BY <3>1, <3>2
  <2> QED BY <2>1, <2>2, <2>3, <2>4 DEF PtcTypes, TypeOK
<1> QED BY <1>1, PtcInvariant, PTL

\* What a command method hands back is the whole payload of one reply to its
\* command, in order, however Receive cuts the stream and whatever earlier
\* queries left unread, through drops, timeouts and reconnections: provided
\* that nothing but a header has looked like one on the connection.  Over TLS
\* the payloads may hold anything if earlier replies were read to their ends.
THEOREM PtcOneReplyPerAnswer == Spec => []OneReplyPerAnswer
<1>1. PtcInv => OneReplyPerAnswer
  BY DEF PtcInv, Returned, OneReplyPerAnswer
<1> QED BY <1>1, PtcInvariant, PTL

\* Its bytes are of the reply to this very question, whatever they look like,
\* on a connection on which every earlier reply was read to its end; and over
\* TLS also behind a refused reply, if its payload does not look like a header.
THEOREM PtcAnswerIsOwn == Spec => []AnswerIsOwn
<1>1. PtcInv => AnswerIsOwn
  BY DEF PtcInv, Returned, AnswerIsOwn
<1> QED BY <1>1, PtcInvariant, PTL
=============================================================================
