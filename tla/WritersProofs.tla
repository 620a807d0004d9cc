---------------------------- MODULE WritersProofs ----------------------------
(***************************************************************************)
(* The two threads that write files.  No notification for a message is     *)
(* missed by threadfunc, for any number of threads that log and any number *)
(* of starts.  Whatever the size of the cache and however often recording  *)
(* is started, stopped and interrupted, the records on the disk are whole  *)
(* and every packet dumped is recorded once and in order, but for those    *)
(* the dumping thread was at when TcpDump began; and a replay gives back   *)
(* what the file holds.                                                    *)
(***************************************************************************)
EXTENDS LogQueue, PcapFiles, SequenceTheorems, TLAPS

-----------------------------------------------------------------------------
(* Logger *)

LogSpec == LogInit /\ [][LogNext]_logVars

\* threadfunc holds mutex_ from where it looks at the queue to where it waits,
\* so that the queue stays as empty as it was found; between Stop and the next
\* Start there is no such thread.
LockHeld ==
  /\ mutex_ = "writer" <=> writer \in {"head", "tested"}
  /\ mutex_ \in {"free", "writer"}
  /\ writer = "tested" => queue_ = <<>>
  /\ app = "off" => writer = "gone"

\* LockHeld holds before the first Start.
LEMMA LockInit == LogInit => LockHeld
BY DEF LogInit, LockHeld

\* Every step keeps it: whoever appends to queue_ needs mutex_.
LEMMA LockNext == LockHeld /\ [LogNext]_logVars => LockHeld'
<1> SUFFICES ASSUME LockHeld, [LogNext]_logVars PROVE LockHeld'
  OBVIOUS
<1>1. ASSUME NEW c \in Callers, AddToQueue(c) PROVE LockHeld'
  BY <1>1 DEF AddToQueue, Push, MayPush, Free, LockHeld
<1>2. ASSUME NEW c \in Callers, Notify(c) PROVE LockHeld'
  BY <1>2 DEF Notify, Wakes, LockHeld
<1>3. CASE TestExit
  BY <1>3 DEF TestExit, Thread, LockHeld
<1>4. CASE TakeLock
  BY <1>4 DEF TakeLock, Thread, Free, LockHeld
<1>5. CASE QueueEmpty
  BY <1>5 DEF QueueEmpty, Thread, LockHeld
<1>6. CASE Sleep \/ Spurious
  BY <1>6 DEF Sleep, Spurious, Thread, LockHeld
<1>7. CASE Write
  BY <1>7 DEF Write, Thread, LockHeld
<1>8. CASE Start
  BY <1>8 DEF Start, LockHeld
<1>9. CASE StartLogs
  BY <1>9 DEF StartLogs, Push, MayPush, Free, LockHeld
<1>10. CASE StartReturns \/ StopNotify
  BY <1>10 DEF StartReturns, StopNotify, Wakes, LockHeld
<1>11. CASE Stop \/ StopJoin
  BY <1>11 DEF Stop, StopJoin, LockHeld
<1>12. CASE UNCHANGED logVars
  BY <1>12 DEF logVars, LockHeld
<1> QED BY <1>1, <1>2, <1>3, <1>4, <1>5, <1>6, <1>7, <1>8, <1>9, <1>10, <1>11, <1>12
     DEF LogNext, Threadfunc

\* Only the notification of Stop, which takes no lock, can find threadfunc
\* between its test and its wait with something to be told.
THEOREM OnlyStopIsMissed == LogSpec => OnlyStopMisses
<1>1. LockHeld => [Missed => exit_ /\ queue_ = <<>>]_logVars
  BY DEF LockHeld, Missed
<1> QED BY <1>1, LockInit, LockNext, PTL DEF LogSpec, OnlyStopMisses

-----------------------------------------------------------------------------
(* PcapSaver and PcapSource *)

PcapSpec == PcapInit /\ [][PcapNext]_pcapVars

\* What the saver writes.
Written == {Tcp} \cup {Udp(n) : n \in Nat}
Piece == {PcapHeader} \cup {<<"record", r>> : r \in Written} \cup {<<"bytes", r>> : r \in Written}
         \cup {<<"garbled", r>> : r \in Written}
FileList == Seq(Seq(Piece))

PcapTypes ==
  /\ packets_cache_ \in Seq(Nat) /\ files \in FileList
  /\ dumps \in Nat /\ late \in Nat /\ late <= dumps
  /\ dumper \in [pc : {"outer", "inner", "take", "record", "bytes", "gone"}, pkt : Nat]

\* After the header, records and their bytes in turn.
Shaped(f) ==
  /\ Len(f) >= 1 => f[1] = PcapHeader
  /\ \A j \in Nat \ {0} :
       /\ 2 * j <= Len(f) => f[2 * j][1] = "record"
       /\ 2 * j + 1 <= Len(f) => f[2 * j + 1] = <<"bytes", f[2 * j][2]>>

\* y belongs behind the record x, or one of them is of a packet of R.
Near(x, R) == \E n \in R : x[2] = Udp(n)
Matched(x, y, R) == y = <<"bytes", x[2]>> \/ Near(x, R) \/ Near(y, R)

\* A file of records followed by their bytes, packets of R aside; at its end
\* one of the records E may still be without.
Followed(f, R, E) ==
  /\ Len(f) >= 1 /\ f[1] = PcapHeader
  /\ \A k \in 1..Len(f) : f[k][1] = "record" =>
       \/ k < Len(f) /\ Matched(f[k], f[k + 1], R)
       \/ k = Len(f) /\ f[k][2] \in E

\* The records that somebody is still to write the bytes of, all of them in
\* the last file.
Unfinished ==
  (IF dumper.pc = "bytes" THEN {Udp(dumper.pkt)} ELSE {})
    \cup (IF open /\ client \in {"segment", "crashed"} THEN {Tcp} ELSE {})

EndOf(i) == IF i = Len(files) THEN Unfinished ELSE {}

FilesFollow == \A i \in 1..Len(files) : Followed(files[i], risky, EndOf(i))

\* While TcpDump is at its segment the dumping thread takes no packet but the
\* one it was at.
Apart ==
  client \in {"asleep", "segment"} =>
    dumping_blocked_ /\ (dumper.pc \in {"take", "record", "bytes"} => OnDisk + 1 \in risky)

\* While the dumping thread is there the file is open; it is there from the
\* return of StartRecordPcap to the close of StopRecordPcap or ~Lidar.  When it
\* has ended, all that was dumped before StopRecordPcap is written.
Threads ==
  /\ dumper.pc # "gone" => open
  /\ open => Len(files) >= 1
  /\ client = "crashed" => open
  /\ open /\ client \in {"idle", "asleep", "segment", "stopping", "joining"} => dumping_ /\ dumper.pc # "gone"
  /\ client = "restarting" => is_record_pcap_
  /\ dumper.pc # "gone" /\ client \in {"idle", "asleep", "segment"} => is_record_pcap_
  /\ dumper.pc = "gone" => \A i \in 1..Len(packets_cache_) : packets_cache_[i] > late

\* The packets 1 to top are in the files fs, at most once each and in order;
\* only those of R may be missing.
Ordered(fs, top, R) ==
  /\ \A n \in 1..top : n \in R \/ \E i \in 1..Len(fs) : \E k \in 1..Len(fs[i]) : PacketOf(fs[i][k]) = n
  /\ \A i \in 1..Len(fs) : \A k \in 1..Len(fs[i]) : PacketOf(fs[i][k]) <= top
  /\ \A i, j \in 1..Len(fs) : \A k \in 1..Len(fs[i]), l \in 1..Len(fs[j]) :
       /\ PacketOf(fs[i][k]) # 0 /\ PacketOf(fs[j][l]) # 0
       /\ i < j \/ (i = j /\ k < l)
       => PacketOf(fs[i][k]) < PacketOf(fs[j][l])

\* The others are in the hand of the dumping thread and in the cache.
Numbered ==
  /\ OnDisk \in Nat /\ Ordered(files, OnDisk, risky)
  /\ InHand => dumper.pkt = OnDisk + 1
  /\ \A i \in 1..Len(packets_cache_) : packets_cache_[i] = dumps - Len(packets_cache_) + i

\* What next() is to answer for a record.
Answer(x) == IF Usable(x) THEN x[2].id ELSE Stale

\* n records have been read, and each has been answered; the answer to what is
\* left of a torn one may follow at the end.
Answered(n) ==
  /\ \/ replay.pos = 2 * n + 1
     \/ replay.pos = Len(replay.file) /\ replay.pos = 2 * n + 2
     \/ replay.pos = Len(replay.file) /\ replay.pos = 0 /\ n = 0
  /\ \A j \in 1..n : replay.got[j] = Answer(replay.file[2 * j + 1])
  /\ \/ Len(replay.got) = n
     \/ Len(replay.got) = n + 1 /\ replay.got[n + 1] = Stale
        /\ ~replay.torn /\ replay.pos = Len(replay.file)

Replaying ==
  /\ replay = [on |-> replay.on, file |-> replay.file, torn |-> replay.torn, pos |-> replay.pos,
               end |-> replay.end, got |-> replay.got]
  /\ (\E S : replay.got \in Seq(S)) /\ Len(replay.file) \in Nat /\ replay.pos \in 0..Len(replay.file)
  /\ Shaped(replay.file)
  /\ \E n \in Nat : Answered(n)

PcapInv == PcapTypes /\ FilesFollow /\ Threads /\ Apart /\ Numbered /\ Replaying

\* Even and odd.
LEMMA Parity ==
  ASSUME NEW k \in Nat
  PROVE  \E j \in Nat : k = 2 * j \/ k = 2 * j + 1
<1>1. k \div 2 \in Nat /\ (k = 2 * (k \div 2) \/ k = 2 * (k \div 2) + 1)
  OBVIOUS
<1> QED BY <1>1

\* What the saver writes is written in pieces of files.
LEMMA PieceTypes ==
  /\ PcapHeader \in Piece /\ PacketOf(PcapHeader) = 0 /\ PcapHeader[1] = "header"
  /\ \A r \in Written : <<"record", r>> \in Piece /\ <<"bytes", r>> \in Piece /\ <<"garbled", r>> \in Piece
  /\ \A x \in Piece : PacketOf(x) \in Nat
  /\ \A r : PacketOf(<<"record", r>>) = 0 /\ PacketOf(<<"garbled", r>>) = 0
  /\ Tcp \in Written /\ PacketOf(<<"bytes", Tcp>>) = 0
  /\ \A n \in Nat : Udp(n) \in Written /\ PacketOf(<<"bytes", Udp(n)>>) = n
<1>1. /\ PacketOf(PcapHeader) = 0 /\ PcapHeader[1] = "header"
      /\ \A r : PacketOf(<<"record", r>>) = 0 /\ PacketOf(<<"garbled", r>>) = 0
  BY DEF PacketOf, PcapHeader
<1>2. PacketOf(<<"bytes", Tcp>>) = 0
  BY DEF PacketOf, Tcp, Record
<1>3. \A n \in Nat : PacketOf(<<"bytes", Udp(n)>>) = n
  BY DEF PacketOf, Udp, Record
<1>4. PcapHeader \in Piece
      /\ \A r \in Written : <<"record", r>> \in Piece /\ <<"bytes", r>> \in Piece /\ <<"garbled", r>> \in Piece
  BY DEF Piece
<1>5. Tcp \in Written /\ \A n \in Nat : Udp(n) \in Written
  BY DEF Written
<1>6. ASSUME NEW x \in Piece PROVE PacketOf(x) \in Nat
  <2>1. \/ x = PcapHeader \/ (\E r \in Written : x = <<"record", r>>)
        \/ (\E r \in Written : x = <<"bytes", r>>) \/ (\E r \in Written : x = <<"garbled", r>>)
    BY DEF Piece
  <2>2. \A r \in Written : r = Tcp \/ \E n \in Nat : r = Udp(n)
    BY DEF Written
  <2> QED BY <1>1, <1>2, <1>3, <2>1, <2>2
<1> QED BY <1>1, <1>2, <1>3, <1>4, <1>5, <1>6

\* A file begins with its header.
LEMMA HeaderFollowed ==
  ASSUME NEW R, NEW E
  PROVE  <<PcapHeader>> \in Seq(Piece) /\ Followed(<<PcapHeader>>, R, E)
<1>1. <<PcapHeader>> \in Seq(Piece) /\ Len(<<PcapHeader>>) = 1 /\ <<PcapHeader>>[1] = PcapHeader
  BY PieceTypes
<1>2. \A k \in 1..1 : k = 1
  OBVIOUS
<1> QED BY <1>1, <1>2, PieceTypes DEF Followed

\* A piece written behind a file is the bytes of the record there, if there is
\* one, or has to do with a packet of R.
LEMMA PieceFollows ==
  ASSUME NEW f \in Seq(Piece), NEW R, NEW E, NEW D, Followed(f, R, E), NEW x \in Piece,
         \A z \in Piece : z[1] = "record" /\ z[2] \in E => Matched(z, x, R),
         x[1] = "record" => x[2] \in D
  PROVE  f \o <<x>> \in Seq(Piece) /\ Followed(f \o <<x>>, R, D)
<1> DEFINE g == f \o <<x>>
           m == Len(f)
<1>1. <<x>> \in Seq(Piece) /\ Len(<<x>>) = 1 /\ <<x>>[1] = x /\ m \in Nat
  OBVIOUS
<1>2. g \in Seq(Piece) /\ Len(g) = m + 1 /\ g[m + 1] = x /\ \A i \in 1..m : g[i] = f[i]
  BY <1>1, ConcatProperties
<1>3. m >= 1 /\ f[1] = PcapHeader
  BY DEF Followed
<1>4. \A k \in 1..m : f[k][1] = "record" => \/ k < m /\ Matched(f[k], f[k + 1], R)
                                            \/ k = m /\ f[k][2] \in E
  BY DEF Followed
<1>5. \A k \in 1..m : f[k] \in Piece
  OBVIOUS
<1> HIDE DEF g, m
<1>6. ASSUME NEW k \in 1..m + 1, g[k][1] = "record"
      PROVE  (k < m + 1 /\ Matched(g[k], g[k + 1], R)) \/ (k = m + 1 /\ g[k][2] \in D)
  <2>1. CASE k < m
    <3>1. k \in 1..m /\ k + 1 \in 1..m /\ k < m + 1 /\ k # m
      BY <1>1, <2>1
    <3>2. g[k] = f[k] /\ g[k + 1] = f[k + 1]
      BY <1>2, <3>1
    <3>3. Matched(f[k], f[k + 1], R)
      BY <1>4, <1>6, <3>1, <3>2
    <3> QED BY <3>1, <3>2, <3>3
  <2>2. CASE k = m
    <3>1. k \in 1..m /\ k < m + 1 /\ ~(k < m)
      BY <1>1, <1>3, <2>2
    <3>2. g[k] = f[k] /\ g[k + 1] = x
      BY <1>2, <2>2, <3>1
    <3>3. f[k] \in Piece /\ f[k][1] = "record" /\ f[k][2] \in E
      BY <1>4, <1>5, <1>6, <3>1, <3>2
    <3>4. Matched(f[k], x, R)
      BY <3>3
    <3> QED BY <3>1, <3>2, <3>4
  <2>3. CASE k = m + 1
    BY <1>2, <1>6, <2>3
  <2> QED BY <1>1, <2>1, <2>2, <2>3
<1>7. g[1] = PcapHeader /\ Len(g) >= 1
  <2>1. 1 \in 1..m /\ m + 1 >= 1
    BY <1>1, <1>3
  <2> QED BY <1>2, <1>3, <2>1
<1>8. Followed(g, R, D)
  BY <1>2, <1>6, <1>7 DEF Followed
<1> QED BY <1>2, <1>8 DEF g

\* More packets may be met, more records be unfinished.
LEMMA FollowedMore ==
  ASSUME NEW f, NEW R, NEW E, NEW Q, NEW D, Followed(f, R, E), R \subseteq Q, E \subseteq D
  PROVE  Followed(f, Q, D)
<1>1. \A x, y : Matched(x, y, R) => Matched(x, y, Q)
  BY DEF Matched, Near
<1> QED BY <1>1 DEF Followed

\* The record and the bytes of a packet that SaveUdpPacket writes, which is not
\* one of those received.
LEMMA SavedFollows ==
  ASSUME NEW f \in Seq(Piece), NEW R, Followed(f, R, {})
  PROVE  LET q == Pieces(Udp(0))
         IN  /\ q \in Seq(Piece) /\ Len(q) = 2 /\ PacketOf(q[1]) = 0 /\ PacketOf(q[2]) = 0
             /\ f \o q \in Seq(Piece) /\ Followed(f \o q, R, {})
<1> DEFINE r == Udp(0)
           x == <<"record", r>>
           y == <<"bytes", r>>
<1>1. x \in Piece /\ y \in Piece /\ PacketOf(x) = 0 /\ PacketOf(y) = 0 /\ x[1] = "record" /\ y[1] = "bytes"
  BY PieceTypes
<1>2. \A z \in Piece : z[1] = "record" /\ z[2] \in {r} => Matched(z, y, R)
  BY DEF Matched
<1>3. Pieces(r) = <<x, y>> /\ x[2] \in {r}
  BY DEF Pieces
<1> HIDE DEF r, x, y
<1>4. f \o <<x>> \in Seq(Piece) /\ Followed(f \o <<x>>, R, {r})
  BY <1>1, <1>3, PieceFollows
<1> DEFINE g == f \o <<x>>
<1>g. g \in Seq(Piece) /\ Followed(g, R, {r})
  BY <1>4
<1> HIDE DEF g
<1>5. g \o <<y>> \in Seq(Piece) /\ Followed(g \o <<y>>, R, {})
  <2>1. ~(y[1] = "record")
    BY <1>1
  <2> QED BY <1>1, <1>2, <1>g, <2>1, PieceFollows
<1>6. <<x>> \in Seq(Piece) /\ <<y>> \in Seq(Piece) /\ <<x, y>> \in Seq(Piece) /\ <<x>> \o <<y>> = <<x, y>>
  <2>1. <<x>> \in Seq(Piece) /\ <<y>> \in Seq(Piece) /\ <<x, y>> \in Seq(Piece)
    BY <1>1
  <2>2. /\ <<x>> \o <<y>> \in Seq(Piece) /\ Len(<<x>> \o <<y>>) = 2
        /\ (<<x>> \o <<y>>)[1] = x /\ (<<x>> \o <<y>>)[2] = y
    BY <2>1, ConcatProperties
  <2>3. Len(<<x, y>>) = 2 /\ <<x, y>>[1] = x /\ <<x, y>>[2] = y
    OBVIOUS
  <2>4. \A i \in 1..2 : (<<x>> \o <<y>>)[i] = <<x, y>>[i]
    BY <2>2, <2>3
  <2> QED BY <2>1, <2>2, <2>3, <2>4, SeqEqual
<1>7. (f \o <<x>>) \o <<y>> = f \o (<<x>> \o <<y>>)
  BY <1>6, ConcatAssociative
<1>8. f \o Pieces(r) = g \o <<y>>
  BY <1>3, <1>6, <1>7 DEF g
<1>9. Len(<<x, y>>) = 2 /\ <<x, y>>[1] = x /\ <<x, y>>[2] = y
  OBVIOUS
<1> QED BY <1>1, <1>3, <1>5, <1>6, <1>8, <1>9 DEF r

\* As much of a file as is in step is shaped.
LEMMA InStepShaped ==
  ASSUME NEW S, NEW f \in Seq(S), Len(f) >= 1 => f[1] = PcapHeader, NEW k \in 0..Len(f), InStep(f, k)
  PROVE  SubSeq(f, 1, k) \in Seq(S) /\ Shaped(SubSeq(f, 1, k))
<1> DEFINE g == SubSeq(f, 1, k)
<1>1. g \in Seq(S) /\ Len(g) = k /\ k \in Nat /\ \A i \in 1..k : g[i] = f[i]
  BY SubSeqProperties
<1> HIDE DEF g
<1>2. ASSUME NEW j \in Nat \ {0}
      PROVE  /\ 2 * j <= Len(g) => g[2 * j][1] = "record"
             /\ 2 * j + 1 <= Len(g) => g[2 * j + 1] = <<"bytes", g[2 * j][2]>>
  <2>1. ASSUME 2 * j <= k
        PROVE  /\ g[2 * j] = f[2 * j] /\ f[2 * j][1] = "record"
               /\ 2 * j + 1 <= k => f[2 * j + 1] = <<"bytes", f[2 * j][2]>>
    <3>1. j \in 1..k /\ 2 * j \in 1..k
      BY <1>1, <2>1
    <3> QED BY <1>1, <2>1, <3>1 DEF InStep
  <2>2. 2 * j + 1 <= k => 2 * j <= k /\ 2 * j + 1 \in 1..k
    BY <1>1
  <2>3. 2 * j + 1 <= k => g[2 * j + 1] = f[2 * j + 1]
    BY <1>1, <2>2
  <2> QED BY <1>1, <2>1, <2>2, <2>3
<1>3. Len(g) >= 1 => g[1] = PcapHeader
  <2>1. Len(f) \in Nat /\ (k >= 1 => 1 \in 1..k /\ Len(f) >= 1)
    BY <1>1
  <2> QED BY <1>1, <2>1
<1> QED BY <1>1, <1>2, <1>3 DEF Shaped, g

\* The places of a list of files hold pieces.
LEMMA PlaceTypes ==
  ASSUME NEW fs \in FileList
  PROVE  /\ Len(fs) \in Nat
         /\ \A i \in 1..Len(fs) :
              /\ fs[i] \in Seq(Piece) /\ Len(fs[i]) \in Nat
              /\ \A k \in 1..Len(fs[i]) : fs[i][k] \in Piece /\ PacketOf(fs[i][k]) \in Nat
<1>1. Len(fs) \in Nat /\ \A i \in 1..Len(fs) : fs[i] \in Seq(Piece)
  BY DEF FileList
<1>2. ASSUME NEW f \in Seq(Piece)
      PROVE  Len(f) \in Nat /\ \A k \in 1..Len(f) : f[k] \in Piece /\ PacketOf(f[k]) \in Nat
  BY PieceTypes
<1> QED BY <1>1, <1>2

\* gs holds what fs does, d files further on, and behind and between it
\* nothing that is a packet.
Keeping(gs, fs, d) ==
  /\ Len(gs) >= Len(fs) + d
  /\ \A i \in 1..Len(fs) : Len(gs[i + d]) >= Len(fs[i]) /\ \A k \in 1..Len(fs[i]) : gs[i + d][k] = fs[i][k]
  /\ \A j \in 1..Len(gs) : \A l \in 1..Len(gs[j]) :
       \/ PacketOf(gs[j][l]) = 0
       \/ j - d \in 1..Len(fs) /\ l \in 1..Len(fs[j - d])

\* Such a change leaves the packets in order.
LEMMA KeepingOrder ==
  ASSUME NEW fs \in FileList, NEW gs \in FileList, NEW d \in {0, 1}, NEW top \in Nat, NEW R,
         Keeping(gs, fs, d), Ordered(fs, top, R)
  PROVE  Ordered(gs, top, R)
<1>1. ASSUME NEW i \in 1..Len(fs), NEW k \in 1..Len(fs[i])
      PROVE  /\ i + d \in 1..Len(gs) /\ k \in 1..Len(gs[i + d])
             /\ gs[i + d][k] = fs[i][k]
  <2>1. i + d \in 1..Len(gs)
    BY PlaceTypes DEF Keeping
  <2>2. Len(fs[i]) \in Nat /\ Len(gs[i + d]) \in Nat
    BY <2>1, PlaceTypes
  <2>3. Len(gs[i + d]) >= Len(fs[i]) /\ gs[i + d][k] = fs[i][k]
    BY DEF Keeping
  <2> QED BY <2>1, <2>2, <2>3
<1>2. ASSUME NEW n \in 1..top, n \notin R
      PROVE  \E i \in 1..Len(gs) : \E k \in 1..Len(gs[i]) : PacketOf(gs[i][k]) = n
  <2>1. PICK i \in 1..Len(fs) : \E k \in 1..Len(fs[i]) : PacketOf(fs[i][k]) = n
    BY <1>2 DEF Ordered
  <2>2. PICK k \in 1..Len(fs[i]) : PacketOf(fs[i][k]) = n
    BY <2>1
  <2> QED BY <1>1, <2>2
<1>3. ASSUME NEW j \in 1..Len(gs), NEW l \in 1..Len(gs[j]), PacketOf(gs[j][l]) # 0
      PROVE  /\ j - d \in 1..Len(fs) /\ l \in 1..Len(fs[j - d])
             /\ gs[j][l] = fs[j - d][l]
  <2>1. j - d \in 1..Len(fs) /\ l \in 1..Len(fs[j - d])
    BY <1>3 DEF Keeping
  <2>2. (j - d) + d = j
    BY PlaceTypes
  <2>3. gs[(j - d) + d][l] = fs[j - d][l]
    BY <1>1, <2>1
  <2> QED BY <2>1, <2>2, <2>3
<1>4. ASSUME NEW i \in 1..Len(gs), NEW k \in 1..Len(gs[i])
      PROVE  PacketOf(gs[i][k]) <= top
  <2>1. CASE PacketOf(gs[i][k]) = 0
    BY <2>1
  <2>2. CASE PacketOf(gs[i][k]) # 0
    BY <1>3, <2>2 DEF Ordered
  <2> QED BY <2>1, <2>2
<1>5. ASSUME NEW i \in 1..Len(gs), NEW j \in 1..Len(gs), NEW k \in 1..Len(gs[i]), NEW l \in 1..Len(gs[j]),
             PacketOf(gs[i][k]) # 0, PacketOf(gs[j][l]) # 0, i < j \/ (i = j /\ k < l)
      PROVE  PacketOf(gs[i][k]) < PacketOf(gs[j][l])
  <2>1. /\ i - d \in 1..Len(fs) /\ k \in 1..Len(fs[i - d]) /\ gs[i][k] = fs[i - d][k]
        /\ j - d \in 1..Len(fs) /\ l \in 1..Len(fs[j - d]) /\ gs[j][l] = fs[j - d][l]
    BY <1>3, <1>5
  <2>2. i - d < j - d \/ (i - d = j - d /\ k < l)
    BY <1>5, PlaceTypes, SMTT(40)
  <2> QED BY <1>5, <2>1, <2>2, ZenonT(60) DEF Ordered
<1> QED BY <1>2, <1>4, <1>5 DEF Ordered

\* A packet of R may be missing.
LEMMA OrderedMore ==
  ASSUME NEW fs \in FileList, NEW top \in Nat, NEW R, Ordered(fs, top, R)
  PROVE  /\ \A Q : R \subseteq Q => Ordered(fs, top, Q)
         /\ top + 1 \in R => Ordered(fs, top + 1, R)
<1>1. ASSUME NEW Q, R \subseteq Q PROVE Ordered(fs, top, Q)
  BY <1>1 DEF Ordered
<1>2. ASSUME top + 1 \in R PROVE Ordered(fs, top + 1, R)
  <2>1. \A n \in 1..top + 1 : n \in 1..top \/ n = top + 1
    OBVIOUS
  <2>2. \A n \in 1..top + 1 : n \in R \/ \E i \in 1..Len(fs) : \E k \in 1..Len(fs[i]) : PacketOf(fs[i][k]) = n
    BY <1>2, <2>1 DEF Ordered
  <2>3. ASSUME NEW i \in 1..Len(fs), NEW k \in 1..Len(fs[i]) PROVE PacketOf(fs[i][k]) <= top + 1
    <3>1. PacketOf(fs[i][k]) \in Nat /\ PacketOf(fs[i][k]) <= top
      BY PlaceTypes DEF Ordered
    <3> QED BY <3>1
  <2> QED BY <2>2, <2>3 DEF Ordered
<1> QED BY <1>1, <1>2

\* A file with more pieces at its end.
Extend(fs, L, ps) == [fs EXCEPT ![L] = @ \o ps]

\* Writing to one file leaves the others and what it held alone.
LEMMA Extended ==
  ASSUME NEW fs \in FileList, NEW L \in 1..Len(fs), NEW ps \in Seq(Piece)
  PROVE  /\ Extend(fs, L, ps) \in FileList /\ Len(Extend(fs, L, ps)) = Len(fs)
         /\ \A i \in 1..Len(fs) : i # L => Extend(fs, L, ps)[i] = fs[i]
         /\ Extend(fs, L, ps)[L] = fs[L] \o ps
         /\ Len(Extend(fs, L, ps)[L]) = Len(fs[L]) + Len(ps)
         /\ \A k \in 1..Len(fs[L]) : Extend(fs, L, ps)[L][k] = fs[L][k]
         /\ \A k \in 1..Len(ps) : Extend(fs, L, ps)[L][Len(fs[L]) + k] = ps[k]
<1> DEFINE f == fs[L]
           e == f \o ps
           gs == [fs EXCEPT ![L] = e]
<1>1. f \in Seq(Piece) /\ fs \in Seq(Seq(Piece)) /\ f = fs[L]
  BY PlaceTypes DEF FileList
<1> HIDE DEF f
<1>2. /\ e \in Seq(Piece) /\ Len(e) = Len(f) + Len(ps)
      /\ \A k \in 1..Len(f) : e[k] = f[k]
      /\ \A k \in 1..Len(ps) : e[Len(f) + k] = ps[k]
  BY <1>1, ConcatProperties, SMTT(40)
<1>3. Extend(fs, L, ps) = gs
  BY DEF f, Extend
<1>e. e = f \o ps
  OBVIOUS
<1> HIDE DEF e
<1>4. gs \in FileList /\ Len(gs) = Len(fs) /\ \A j \in 1..Len(fs) : gs[j] = IF j = L THEN e ELSE fs[j]
  <2>1. gs \in Seq(Seq(Piece)) /\ Len(gs) = Len(fs) /\ \A j \in 1..Len(fs) : gs[j] = IF j = L THEN e ELSE fs[j]
    BY <1>1, <1>2, ExceptSeq
  <2> QED BY <2>1 DEF FileList
<1> HIDE DEF gs
<1>5. gs[L] = e
  BY <1>4
<1>6. \A i \in 1..Len(fs) : i # L => gs[i] = fs[i]
  BY <1>4
<1> QED BY <1>1, <1>2, <1>3, <1>4, <1>5, <1>6, <1>e

\* The packet after the last one, written at the end of the last file.
LEMMA PacketFollows ==
  ASSUME NEW fs \in FileList, Len(fs) >= 1, NEW top \in Nat, NEW R, NEW x \in Piece,
         PacketOf(x) = top + 1, Ordered(fs, top, R)
  PROVE  Ordered(Extend(fs, Len(fs), <<x>>), top + 1, R)
<1> DEFINE L == Len(fs)
           m == Len(fs[L])
           gs == Extend(fs, L, <<x>>)
<1>0. <<x>> \in Seq(Piece) /\ Len(<<x>>) = 1 /\ <<x>>[1] = x /\ 1 \in 1..Len(<<x>>)
  OBVIOUS
<1>3. \A i \in 1..L : Len(fs[i]) \in Nat /\ \A k \in 1..Len(fs[i]) : PacketOf(fs[i][k]) \in Nat
  BY PlaceTypes
<1>4. Len(fs) = L /\ Len(fs[L]) = m /\ L \in Nat /\ L >= 1
  BY PlaceTypes
<1> HIDE DEF L, m
<1>a. L \in 1..L /\ m \in Nat
  BY <1>3, <1>4
<1>1. /\ gs \in FileList /\ Len(gs) = L /\ Len(gs[L]) = m + 1
      /\ \A i \in 1..L : i # L => gs[i] = fs[i]
      /\ gs[L][m + 1] = x /\ \A k \in 1..m : gs[L][k] = fs[L][k]
  <2>1. /\ gs \in FileList /\ Len(gs) = L
        /\ \A i \in 1..L : i # L => gs[i] = fs[i]
        /\ Len(gs[L]) = Len(fs[L]) + Len(<<x>>)
        /\ \A k \in 1..Len(fs[L]) : gs[L][k] = fs[L][k]
        /\ \A k \in 1..Len(<<x>>) : gs[L][Len(fs[L]) + k] = <<x>>[k]
    BY <1>0, <1>4, <1>a, Extended, ZenonT(60)
  <2> QED BY <1>0, <1>4, <2>1
<1> HIDE DEF gs
\* The places of gs are those of fs and the new one.
<1>5. ASSUME NEW i \in 1..L, NEW k \in 1..Len(gs[i])
      PROVE  \/ k \in 1..Len(fs[i]) /\ gs[i][k] = fs[i][k]
             \/ i = L /\ k = m + 1 /\ gs[i][k] = x
  BY <1>1, <1>4, <1>a
<1>6. ASSUME NEW i \in 1..L, NEW k \in 1..Len(fs[i])
      PROVE  k \in 1..Len(gs[i]) /\ gs[i][k] = fs[i][k]
  BY <1>1, <1>4, <1>a
<1>7. ASSUME NEW n \in 1..top + 1, n \notin R
      PROVE  \E i \in 1..L : \E k \in 1..Len(gs[i]) : PacketOf(gs[i][k]) = n
  <2>1. CASE n = top + 1
    <3>1. m + 1 \in 1..Len(gs[L]) /\ PacketOf(gs[L][m + 1]) = n
      BY <1>1, <1>a, <2>1
    <3> QED BY <1>a, <3>1
  <2>2. CASE n \in 1..top
    <3>1. PICK i \in 1..L : \E k \in 1..Len(fs[i]) : PacketOf(fs[i][k]) = n
      BY <1>4, <1>7, <2>2 DEF Ordered
    <3>2. PICK k \in 1..Len(fs[i]) : PacketOf(fs[i][k]) = n
      BY <3>1
    <3> QED BY <1>6, <3>2
  <2> QED BY <2>1, <2>2
<1>8. \A i \in 1..L : \A k \in 1..Len(fs[i]) : PacketOf(fs[i][k]) <= top
  BY <1>4 DEF Ordered
<1>9. ASSUME NEW i \in 1..L, NEW k \in 1..Len(gs[i]) PROVE PacketOf(gs[i][k]) <= top + 1
  <2>1. CASE i = L /\ k = m + 1 /\ gs[i][k] = x
    BY <2>1
  <2>2. CASE k \in 1..Len(fs[i]) /\ gs[i][k] = fs[i][k]
    BY <1>3, <1>8, <2>2
  <2> QED BY <1>5, <2>1, <2>2
<1>10. ASSUME NEW i \in 1..L, NEW j \in 1..L, NEW k \in 1..Len(gs[i]), NEW l \in 1..Len(gs[j]),
              PacketOf(gs[i][k]) # 0, PacketOf(gs[j][l]) # 0, i < j \/ (i = j /\ k < l)
       PROVE  PacketOf(gs[i][k]) < PacketOf(gs[j][l])
  <2>1. CASE i = L /\ k = m + 1
    <3>1. L \in Nat /\ m \in Nat /\ Len(gs[L]) = m + 1
      BY <1>1, <1>4, <1>a
    <3> QED BY <1>10, <2>1, <3>1
  <2>2. CASE ~(i = L /\ k = m + 1)
    <3>1. k \in 1..Len(fs[i]) /\ gs[i][k] = fs[i][k]
      BY <1>5, <2>2
    <3>2. CASE j = L /\ l = m + 1 /\ gs[j][l] = x
      BY <1>3, <1>8, <3>1, <3>2
    <3>3. CASE l \in 1..Len(fs[j]) /\ gs[j][l] = fs[j][l]
      BY <1>4, <1>10, <3>1, <3>3 DEF Ordered
    <3> QED BY <1>5, <3>2, <3>3
  <2> QED BY <2>1, <2>2
<1>11. Len(gs) = L
  BY <1>1
<1> QED BY <1>7, <1>9, <1>10, <1>11 DEF Ordered, gs, L

NoPacket(f) == \A k \in 1..Len(f) : PacketOf(f[k]) = 0

\* A new file in front of the others.
LEMMA NewFirst ==
  ASSUME NEW fs \in FileList, NEW f \in Seq(Piece), NoPacket(f)
  PROVE  LET gs == <<f>> \o fs
         IN  /\ gs \in FileList /\ Len(gs) = Len(fs) + 1
             /\ gs[1] = f /\ \A i \in 1..Len(fs) : gs[i + 1] = fs[i]
             /\ Keeping(gs, fs, 1)
<1> DEFINE gs == <<f>> \o fs
<1>1. <<f>> \in Seq(Seq(Piece)) /\ Len(<<f>>) = 1 /\ <<f>>[1] = f /\ Len(fs) \in Nat
      /\ fs \in Seq(Seq(Piece))
  BY PlaceTypes DEF FileList
<1>2. /\ gs \in Seq(Seq(Piece)) /\ Len(gs) = Len(fs) + 1
      /\ gs[1] = f /\ \A i \in 1..Len(fs) : gs[i + 1] = fs[i]
  BY <1>1, ConcatProperties
<1> HIDE DEF gs
<1>3. \A i \in 1..Len(fs) : Len(fs[i]) \in Nat
  BY PlaceTypes
<1>4. ASSUME NEW j \in 1..Len(gs), NEW l \in 1..Len(gs[j])
      PROVE  PacketOf(gs[j][l]) = 0 \/ (j - 1 \in 1..Len(fs) /\ l \in 1..Len(fs[j - 1]))
  <2>1. CASE j = 1
    BY <1>2, <2>1 DEF NoPacket
  <2>2. CASE j # 1
    <3>1. j - 1 \in 1..Len(fs) /\ (j - 1) + 1 = j
      BY <1>1, <1>2, <2>2
    <3> QED BY <1>2, <3>1
  <2> QED BY <2>1, <2>2
<1>5. Keeping(gs, fs, 1)
  BY <1>1, <1>2, <1>3, <1>4, SMTT(40) DEF Keeping
<1> QED BY <1>2, <1>5 DEF FileList, gs

\* A new file behind them.
LEMMA NewLast ==
  ASSUME NEW fs \in FileList, NEW f \in Seq(Piece), NoPacket(f)
  PROVE  LET gs == Append(fs, f)
         IN  /\ gs \in FileList /\ Len(gs) = Len(fs) + 1
             /\ gs[Len(fs) + 1] = f /\ \A i \in 1..Len(fs) : gs[i] = fs[i]
             /\ Keeping(gs, fs, 0)
<1> DEFINE gs == Append(fs, f)
<1>1. Len(fs) \in Nat /\ fs \in Seq(Seq(Piece))
  BY PlaceTypes DEF FileList
<1>2. /\ gs \in Seq(Seq(Piece)) /\ Len(gs) = Len(fs) + 1
      /\ gs[Len(fs) + 1] = f /\ \A i \in 1..Len(fs) : gs[i] = fs[i]
  BY <1>1
<1> HIDE DEF gs
<1>3. \A i \in 1..Len(fs) : Len(fs[i]) \in Nat /\ i + 0 = i
  BY PlaceTypes
<1>4. ASSUME NEW j \in 1..Len(gs), NEW l \in 1..Len(gs[j])
      PROVE  PacketOf(gs[j][l]) = 0 \/ (j - 0 \in 1..Len(fs) /\ l \in 1..Len(fs[j - 0]))
  <2>1. CASE j = Len(fs) + 1
    BY <1>2, <2>1 DEF NoPacket
  <2>2. CASE j # Len(fs) + 1
    <3>1. j \in 1..Len(fs) /\ j - 0 = j
      BY <1>1, <1>2, <2>2
    <3> QED BY <1>2, <3>1
  <2> QED BY <2>1, <2>2
<1>5. Keeping(gs, fs, 0)
  BY <1>1, <1>2, <1>3, <1>4 DEF Keeping
<1> QED BY <1>2, <1>5 DEF FileList, gs

\* One of them made longer by what is no packet.
LEMMA ExtendedKeeps ==
  ASSUME NEW fs \in FileList, NEW L \in 1..Len(fs), NEW ps \in Seq(Piece), NoPacket(ps)
  PROVE  Keeping(Extend(fs, L, ps), fs, 0)
<1> DEFINE gs == Extend(fs, L, ps)
<1>1. /\ gs \in FileList /\ Len(gs) = Len(fs)
      /\ \A i \in 1..Len(fs) : i # L => gs[i] = fs[i]
      /\ Len(gs[L]) = Len(fs[L]) + Len(ps)
      /\ \A k \in 1..Len(fs[L]) : gs[L][k] = fs[L][k]
      /\ \A k \in 1..Len(ps) : gs[L][Len(fs[L]) + k] = ps[k]
  <2>1. gs \in FileList /\ Len(gs) = Len(fs)
    BY Extended, ZenonT(60)
  <2>2. \A i \in 1..Len(fs) : i # L => gs[i] = fs[i]
    BY Extended, ZenonT(60)
  <2>3. Len(gs[L]) = Len(fs[L]) + Len(ps)
    BY Extended, ZenonT(60)
  <2>4. \A k \in 1..Len(fs[L]) : gs[L][k] = fs[L][k]
    BY Extended, ZenonT(60)
  <2>5. \A k \in 1..Len(ps) : gs[L][Len(fs[L]) + k] = ps[k]
    BY Extended, ZenonT(60)
  <2> QED BY <2>1, <2>2, <2>3, <2>4, <2>5, Zenon
<1> HIDE DEF gs
<1>2. Len(ps) \in Nat /\ Len(fs) \in Nat /\ \A i \in 1..Len(fs) : Len(fs[i]) \in Nat
  BY PlaceTypes
<1>3. ASSUME NEW i \in 1..Len(fs)
      PROVE  i + 0 = i /\ Len(gs[i]) >= Len(fs[i]) /\ \A k \in 1..Len(fs[i]) : gs[i][k] = fs[i][k]
  <2>1. i + 0 = i
    BY <1>2
  <2>2. CASE i = L
    BY <1>1, <1>2, <2>1, <2>2
  <2>3. CASE i # L
    <3>1. gs[i] = fs[i]
      BY <1>1, <2>3
    <3> QED BY <1>2, <2>1, <3>1
  <2> QED BY <2>2, <2>3
<1>4. ASSUME NEW j \in 1..Len(gs), NEW l \in 1..Len(gs[j])
      PROVE  PacketOf(gs[j][l]) = 0 \/ (j - 0 \in 1..Len(fs) /\ l \in 1..Len(fs[j - 0]))
  <2>1. j \in 1..Len(fs) /\ j - 0 = j
    BY <1>1, <1>2
  <2>2. CASE j = L /\ l > Len(fs[L])
    <3>1. l - Len(fs[L]) \in 1..Len(ps) /\ Len(fs[L]) + (l - Len(fs[L])) = l
      BY <1>1, <1>2, <2>2
    <3>2. gs[j][l] = ps[l - Len(fs[L])]
      BY <1>1, <2>2, <3>1
    <3> QED BY <3>1, <3>2 DEF NoPacket
  <2>3. CASE ~(j = L /\ l > Len(fs[L]))
    BY <1>1, <1>2, <2>1, <2>3
  <2> QED BY <2>2, <2>3
<1>5. Keeping(gs, fs, 0)
  BY <1>1, <1>2, <1>3, <1>4, SMTT(60) DEF Keeping
<1> QED BY <1>5 DEF gs

\* A file that SaveUdpPacket begins.
LEMMA SavedFile ==
  ASSUME NEW R
  PROVE  LET q == Pieces(Udp(0))
             h == <<PcapHeader>> \o q
         IN  /\ q \in Seq(Piece) /\ NoPacket(q)
             /\ h \in Seq(Piece) /\ NoPacket(h) /\ Followed(h, R, {})
<1> DEFINE q == Pieces(Udp(0))
           b == <<PcapHeader>>
           h == b \o q
<1>1. b \in Seq(Piece) /\ Followed(b, R, {}) /\ Len(b) = 1 /\ b[1] = PcapHeader /\ PacketOf(PcapHeader) = 0
  BY HeaderFollowed, PieceTypes
<1> HIDE DEF b
<1>2. /\ q \in Seq(Piece) /\ Len(q) = 2 /\ PacketOf(q[1]) = 0 /\ PacketOf(q[2]) = 0
      /\ h \in Seq(Piece) /\ Followed(h, R, {})
  BY <1>1, SavedFollows
<1> HIDE DEF q
<1>3. \A k \in 1..2 : k = 1 \/ k = 2
  OBVIOUS
<1>4. NoPacket(q)
  BY <1>2, <1>3 DEF NoPacket
<1>5. NoPacket(h)
  <2>1. /\ Len(h) = Len(b) + Len(q)
        /\ \A i \in 1..Len(b) + Len(q) : h[i] = IF i <= Len(b) THEN b[i] ELSE q[i - Len(b)]
    BY <1>1, <1>2, ConcatProperties
  <2>2. Len(h) = 3 /\ \A i \in 1..3 : h[i] = IF i <= 1 THEN b[i] ELSE q[i - 1]
    BY <1>1, <1>2, <2>1
  <2>3. ASSUME NEW k \in 1..3 PROVE PacketOf(h[k]) = 0
    <3>1. (k = 1 /\ k <= 1) \/ (~(k <= 1) /\ k - 1 = 1) \/ (~(k <= 1) /\ k - 1 = 2)
      OBVIOUS
    <3> QED BY <1>1, <1>2, <2>2, <3>1
  <2> QED BY <2>2, <2>3 DEF NoPacket
<1> QED BY <1>2, <1>4, <1>5 DEF q, h, b

\* The states of the dumping thread.
Dumpers == [pc : {"outer", "inner", "take", "record", "bytes", "gone"}, pkt : Nat]

\* A replay does not change behind its own back.
LEMMA ReplaySame ==
  ASSUME Replaying, replay' = replay
  PROVE  Replaying'
BY DEF Replaying, Answered, Answer, Usable

\* A step that writes nothing, dumps nothing and takes no packet in hand.
LEMMA QuietKeeps ==
  ASSUME PcapInv, UNCHANGED <<files, packets_cache_, dumps, replay>>, risky \subseteq risky',
         late' \in Nat, late' <= dumps, dumper' \in Dumpers,
         dumper' = dumper \/ ({dumper.pc, dumper'.pc} \cap {"record", "bytes"} = {}),
         Unfinished \subseteq Unfinished', Threads', Apart'
  PROVE  PcapInv'
<1>1. PcapTypes'
  BY DEF PcapInv, PcapTypes, Dumpers
<1>2. FilesFollow'
  <2>1. ASSUME NEW i \in 1..Len(files) PROVE Followed(files[i], risky', EndOf(i)')
    <3>1. Followed(files[i], risky, EndOf(i)) /\ EndOf(i) \subseteq EndOf(i)'
      BY DEF PcapInv, FilesFollow, EndOf
    <3> QED BY <3>1, FollowedMore
  <2> QED BY <2>1 DEF FilesFollow
<1>4. (InHand' <=> InHand) /\ (InHand => dumper'.pkt = dumper.pkt)
  BY DEF InHand
<1>5. OnDisk' = OnDisk
  BY <1>4 DEF OnDisk
<1>6. Ordered(files, OnDisk, risky')
  <2>1. files \in FileList /\ OnDisk \in Nat /\ Ordered(files, OnDisk, risky)
    BY DEF PcapInv, PcapTypes, Numbered
  <2> QED BY <2>1, OrderedMore
<1>7. Numbered'
  BY <1>4, <1>5, <1>6 DEF PcapInv, Numbered
<1> QED BY <1>1, <1>2, <1>7, ReplaySame DEF PcapInv

\* RecieveUdpThread but for Dump, and the calls that only set a flag or wait.
LEMMA ReceiverKeeps ==
  ASSUME PcapInv, ReceivePacket \/ TestRecord \/ ReceiverExits, UNCHANGED replay
  PROVE  PcapInv'
<1>1. UNCHANGED <<flags, packets_cache_, dumper, client, disk, counts>>
  BY DEF ReceivePacket, TestRecord, ReceiverExits
<1>2. UNCHANGED <<is_record_pcap_, dumping_, dumping_blocked_, packets_cache_, dumper, client, files, open,
                  dumps, late, risky>>
  BY <1>1 DEF flags, disk, counts
<1>3. Threads'
  BY <1>2 DEF PcapInv, Threads
<1>4. Apart'
  BY <1>2 DEF PcapInv, Apart, OnDisk, InHand
<1>5. Unfinished' = Unfinished
  BY <1>2 DEF Unfinished
<1> QED BY <1>2, <1>3, <1>4, <1>5, QuietKeeps DEF PcapInv, PcapTypes, Dumpers

\* The dumping thread ends when nothing is left to write, and goes for a
\* packet only while it is not told to stay away.
LEMMA DumperLoopKeeps ==
  ASSUME PcapInv, DumperLoop \/ DumperTests, UNCHANGED replay
  PROVE  PcapInv'
<1>1. /\ UNCHANGED <<is_record_pcap_, dumping_, dumping_blocked_, packets_cache_, client, files, open,
                     dumps, late, risky>>
      /\ dumper \in Dumpers /\ dumper.pc \in {"outer", "inner"}
  BY DEF DumperLoop, DumperTests, flags, disk, counts, PcapInv, PcapTypes, Dumpers
<1>2. /\ dumper' \in Dumpers /\ dumper'.pc \in {"outer", "inner", "take", "gone"}
      /\ dumper'.pc = "gone" => ~MoreToDump
      /\ dumper'.pc = "take" => ~dumping_blocked_
  <2>1. CASE DumperLoop
    <3>1. dumper' = [dumper EXCEPT !.pc = IF MoreToDump THEN "inner" ELSE "gone"]
      BY <2>1 DEF DumperLoop
    <3> QED BY <1>1, <3>1 DEF Dumpers
  <2>2. CASE DumperTests
    <3>1. dumper' = [dumper EXCEPT !.pc = IF ~dumping_blocked_ /\ packets_cache_ # <<>> THEN "take" ELSE "outer"]
      BY <2>2 DEF DumperTests
    <3> QED BY <1>1, <3>1 DEF Dumpers
  <2> QED BY <2>1, <2>2
<1>3. dumper'.pc = "gone" => ~dumping_ /\ packets_cache_ = <<>>
  BY <1>2 DEF MoreToDump
<1>4. packets_cache_ = <<>> => Len(packets_cache_) = 0
  OBVIOUS
<1>5. Threads'
  BY <1>1, <1>2, <1>3, <1>4 DEF PcapInv, Threads
<1>6. Apart'
  <2>1. dumper'.pc \in {"take", "record", "bytes"} => ~dumping_blocked_
    BY <1>2
  <2> QED BY <1>1, <2>1 DEF PcapInv, Apart
<1>7. Unfinished' = Unfinished
  BY <1>1, <1>2 DEF Unfinished
<1>8. {dumper.pc, dumper'.pc} \cap {"record", "bytes"} = {}
  BY <1>1, <1>2
<1> QED BY <1>1, <1>2, <1>5, <1>6, <1>7, <1>8, QuietKeeps DEF PcapInv, PcapTypes

\* The calls that write nothing themselves.
LEMMA CallsKeep ==
  ASSUME PcapInv, UNCHANGED replay, client # "crashed",
         \/ StartRecordPcap \/ StopRecordPcap \/ CloseStops \/ CloseJoins \/ TcpDump
         \/ Destroy \/ DestroyCloses \/ DestroyEnds \/ Crash
  PROVE  PcapInv'
<1>1. UNCHANGED <<files, packets_cache_, dumps, dumper>>
  BY DEF StartRecordPcap, StopRecordPcap, CloseStops, CloseJoins, TcpDump, Destroy, DestroyCloses,
         DestroyEnds, Crash, Call, flags, disk, counts
<1>2. late' \in Nat /\ late' <= dumps
  BY DEF StartRecordPcap, StopRecordPcap, CloseStops, CloseJoins, TcpDump, Destroy, DestroyCloses,
         DestroyEnds, Crash, Call, flags, disk, counts, PcapInv, PcapTypes
<1>3. Threads'
  <2>1. CASE StartRecordPcap
    BY <2>1 DEF StartRecordPcap, Call, disk, PcapInv, Threads
  <2>2. CASE StopRecordPcap
    BY <2>2 DEF StopRecordPcap, Call, disk, PcapInv, Threads
  <2>3. CASE CloseStops
    BY <2>3 DEF CloseStops, disk, counts, PcapInv, Threads
  <2>4. CASE CloseJoins
    BY <2>4 DEF CloseJoins, Joined, flags, counts, PcapInv, Threads
  <2>5. CASE TcpDump
    BY <2>5 DEF TcpDump, Call, disk, PcapInv, Threads
  <2>6. CASE Destroy
    BY <2>6 DEF Destroy, flags, disk, counts, PcapInv, Threads
  <2>7. CASE DestroyCloses
    BY <2>7 DEF DestroyCloses, disk, counts, PcapInv, Threads
  <2>8. CASE DestroyEnds
    BY <2>8 DEF DestroyEnds, Joined, flags, counts, PcapInv, Threads
  <2>9. CASE Crash
    BY <2>9 DEF Crash, disk, counts, PcapInv, Threads
  <2> QED BY <2>1, <2>2, <2>3, <2>4, <2>5, <2>6, <2>7, <2>8, <2>9
<1>4. dumper' \in Dumpers
  BY <1>1 DEF PcapInv, PcapTypes, Dumpers
<1>5. risky \subseteq risky'
  BY DEF StartRecordPcap, StopRecordPcap, CloseStops, CloseJoins, TcpDump, Destroy, DestroyCloses,
         DestroyEnds, Crash, Call, counts
<1>6. Unfinished \subseteq Unfinished'
  <2>1. CASE Crash
    BY <1>1, <2>1 DEF Crash, disk, Unfinished
  <2>2. CASE ~Crash
    <3>1. client \notin {"segment", "crashed"}
      BY <2>2 DEF StartRecordPcap, StopRecordPcap, CloseStops, CloseJoins, TcpDump, Destroy, DestroyCloses,
         DestroyEnds, Call
    <3> QED BY <1>1, <3>1 DEF Unfinished
  <2> QED BY <2>1, <2>2
<1>7. Apart'
  <2>1. CASE TcpDump
    <3>1. /\ dumping_blocked_' = TRUE
          /\ risky' = IF dumper.pc \in {"take", "record", "bytes"} THEN risky \cup {OnDisk + 1} ELSE risky
      BY <2>1 DEF TcpDump, Block
    <3>2. OnDisk' = OnDisk
      BY <1>1 DEF OnDisk, InHand
    <3> QED BY <1>1, <3>1, <3>2 DEF Apart
  <2>2. CASE ~TcpDump
    <3>1. client' \notin {"asleep", "segment"}
      BY <2>2 DEF StartRecordPcap, StopRecordPcap, CloseStops, CloseJoins, Destroy, DestroyCloses,
         DestroyEnds, Crash, Call
    <3> QED BY <3>1 DEF Apart
  <2> QED BY <2>1, <2>2
<1> QED BY <1>1, <1>2, <1>3, <1>4, <1>5, <1>6, <1>7, QuietKeeps

\* push_back numbers the packet after the last one.
LEMMA DumpKeeps ==
  ASSUME PcapInv, Dump, UNCHANGED replay
  PROVE  PcapInv'
<1>1. /\ UNCHANGED <<is_record_pcap_, dumping_, dumping_blocked_, dumper, client, files, open, late, risky>>
      /\ packets_cache_' = Append(packets_cache_, dumps + 1) /\ dumps' = dumps + 1
  BY DEF Dump, flags, disk
<1> DEFINE c == packets_cache_
           n == Len(packets_cache_)
<1>2. c \in Seq(Nat) /\ dumps \in Nat /\ dumps + 1 \in Nat /\ late \in Nat /\ late <= dumps
  BY DEF PcapInv, PcapTypes
<1>3. /\ n \in Nat /\ c' \in Seq(Nat) /\ Len(c') = n + 1 /\ c'[n + 1] = dumps + 1
      /\ \A i \in 1..n : c'[i] = c[i]
  BY <1>1, <1>2
<1>4. \A i \in 1..n : c[i] = dumps - n + i
  BY DEF PcapInv, Numbered
<1>5. dumper.pc = "gone" => \A i \in 1..n : c[i] > late
  BY DEF PcapInv, Threads
<1>a. c' = packets_cache_' /\ n = Len(packets_cache_)
  OBVIOUS
<1> HIDE DEF c, n
<1>6. PcapTypes'
  BY <1>1, <1>2, <1>3, <1>a DEF PcapInv, PcapTypes
<1>7. FilesFollow'
  BY <1>1 DEF PcapInv, FilesFollow, EndOf, Unfinished
<1>8. \A i \in 1..n + 1 : i \in 1..n \/ i = n + 1
  BY <1>3
<1>9. Threads'
  <2>1. dumper.pc = "gone" => \A i \in 1..n + 1 : packets_cache_'[i] > late
    BY <1>2, <1>3, <1>5, <1>8, <1>a, SMTT(40)
  <2>2. Len(packets_cache_') = n + 1
    BY <1>3, <1>a
  <2> QED BY <1>1, <2>1, <2>2 DEF PcapInv, Threads
<1>10. (InHand' <=> InHand) /\ dumper' = dumper
  BY <1>1 DEF InHand
<1>11. OnDisk' = OnDisk
  <2>1. dumps' - Len(packets_cache_') = dumps - n
    BY <1>1, <1>2, <1>3, <1>a
  <2> QED BY <1>10, <2>1, <1>a DEF OnDisk
<1>12. \A i \in 1..Len(packets_cache_') : packets_cache_'[i] = dumps' - Len(packets_cache_') + i
  <2>1. ASSUME NEW i \in 1..n + 1 PROVE packets_cache_'[i] = (dumps + 1) - (n + 1) + i
    <3>1. CASE i = n + 1
      BY <1>2, <1>3, <1>a, <3>1
    <3>2. CASE i \in 1..n
      <4>1. packets_cache_'[i] = dumps - n + i
        BY <1>3, <1>4, <1>a, <3>2
      <4> QED BY <1>2, <1>3, <4>1
    <3> QED BY <1>8, <3>1, <3>2
  <2> QED BY <1>1, <1>3, <1>a, <2>1
<1>13. Numbered'
  BY <1>1, <1>10, <1>11, <1>12 DEF PcapInv, Numbered
<1>14. Apart'
  BY <1>1, <1>11 DEF PcapInv, Apart
<1> QED BY <1>6, <1>7, <1>9, <1>13, <1>14, ReplaySame DEF PcapInv

\* The dumping thread takes the oldest packet in hand.
LEMMA DumperTakesKeeps ==
  ASSUME PcapInv, DumperTakes, UNCHANGED replay
  PROVE  PcapInv'
<1>1. /\ UNCHANGED <<is_record_pcap_, dumping_, dumping_blocked_, client, files, open, dumps, late, risky>>
      /\ dumper.pc = "take" /\ dumper \in Dumpers /\ packets_cache_ # <<>>
      /\ packets_cache_' = Tail(packets_cache_) /\ dumper' = [pc |-> "record", pkt |-> Head(packets_cache_)]
  BY DEF DumperTakes, flags, disk, counts, PcapInv, PcapTypes, Dumpers
<1> DEFINE c == packets_cache_
           n == Len(packets_cache_)
<1>2. c \in Seq(Nat) /\ dumps \in Nat
  BY DEF PcapInv, PcapTypes
<1>3. /\ n \in Nat /\ n >= 1 /\ c' \in Seq(Nat) /\ Len(c') = n - 1 /\ Head(c) = c[1] /\ Head(c) \in Nat
      /\ \A i \in 1..n - 1 : c'[i] = c[i + 1]
  BY <1>1, <1>2
<1>4. \A i \in 1..n : c[i] = dumps - n + i
  BY DEF PcapInv, Numbered
<1>a. c' = packets_cache_' /\ n = Len(packets_cache_) /\ c = packets_cache_
  OBVIOUS
<1> HIDE DEF c, n
<1>5. dumper'.pc = "record" /\ dumper'.pkt = c[1] /\ dumper' \in Dumpers
  BY <1>1, <1>3, <1>a DEF Dumpers
<1>6. PcapTypes'
  BY <1>1, <1>2, <1>3, <1>5, <1>a DEF PcapInv, PcapTypes, Dumpers
<1>7. FilesFollow'
  <2>1. Unfinished' = Unfinished
    BY <1>1, <1>5 DEF Unfinished
  <2> QED BY <1>1, <2>1 DEF PcapInv, FilesFollow, EndOf
<1>8. Threads'
  BY <1>1, <1>5 DEF PcapInv, Threads
<1>9. ~InHand /\ InHand'
  BY <1>1, <1>5 DEF InHand
<1>10. OnDisk = dumps - n /\ OnDisk' = OnDisk
  <2>1. OnDisk = dumps - n
    BY <1>2, <1>3, <1>9, <1>a DEF OnDisk
  <2>2. OnDisk' = dumps - (n - 1) - 1
    BY <1>1, <1>3, <1>9, <1>a DEF OnDisk
  <2> QED BY <1>2, <1>3, <2>1, <2>2
<1>11. dumper'.pkt = OnDisk + 1
  <2>1. 1 \in 1..n
    BY <1>3
  <2> QED BY <1>4, <1>5, <1>10, <2>1
<1>12. \A i \in 1..Len(packets_cache_') : packets_cache_'[i] = dumps' - Len(packets_cache_') + i
  <2>1. ASSUME NEW i \in 1..n - 1 PROVE c'[i] = dumps - (n - 1) + i
    <3>1. i + 1 \in 1..n
      BY <1>3
    <3>2. c'[i] = dumps - n + (i + 1)
      BY <1>3, <1>4, <3>1
    <3> QED BY <1>2, <1>3, <3>2
  <2> QED BY <1>1, <1>3, <1>a, <2>1
<1>13. Numbered'
  BY <1>1, <1>10, <1>11, <1>12 DEF PcapInv, Numbered
<1>14. Apart'
  BY <1>1, <1>10 DEF PcapInv, Apart
<1> QED BY <1>6, <1>7, <1>8, <1>13, <1>14, ReplaySame DEF PcapInv

\* Output makes the last file longer by one piece while one is open; while the
\* dumping thread and TcpDump race the piece may be garbled.
LEMMA OutputExtends ==
  ASSUME PcapInv, NEW x, Output(x), open
  PROVE  /\ files \in FileList /\ Len(files) \in 1..Len(files) /\ Len(files) >= 1
         /\ \E y : /\ files' = Extend(files, Len(files), <<y>>)
                   /\ y = x \/ (Racing /\ y = <<"garbled", Udp(dumper.pkt)>>)
<1>1. files \in FileList /\ Len(files) >= 1
  BY DEF PcapInv, PcapTypes, Threads
<1>2. Len(files) \in Nat
  BY <1>1, PlaceTypes
<1>3. PICK y \in Lands(x) : files' = IF open THEN [files EXCEPT ![Len(files)] = @ \o <<y>>] ELSE files
  BY DEF Output
<1>4. files' = Extend(files, Len(files), <<y>>)
  BY <1>3 DEF Extend
<1>5. y = x \/ (Racing /\ y = <<"garbled", Udp(dumper.pkt)>>)
  BY DEF Lands
<1> QED BY <1>1, <1>2, <1>4, <1>5

\* A packet is raced for only if the dumping thread was at it when TcpDump
\* began.
LEMMA RacedIsRisky ==
  ASSUME PcapInv, Racing
  PROVE  dumper.pkt = OnDisk + 1 /\ dumper.pkt \in risky
BY DEF PcapInv, Racing, InHand, Apart, Numbered

\* A piece behind the last file.
LEMMA LastFollows ==
  ASSUME PcapInv, Len(files) >= 1, NEW y \in Piece, files' = Extend(files, Len(files), <<y>>), risky' = risky,
         \A z \in Piece : z[1] = "record" /\ z[2] \in Unfinished => Matched(z, y, risky),
         y[1] = "record" => y[2] \in Unfinished'
  PROVE  files' \in FileList /\ Len(files') = Len(files) /\ FilesFollow'
<1> DEFINE L == Len(files)
<1>1. files \in FileList /\ L \in 1..L /\ <<y>> \in Seq(Piece) /\ files[L] \in Seq(Piece)
  BY PlaceTypes DEF PcapInv, PcapTypes
<1>2. files' \in FileList /\ Len(files') = L
  BY <1>1, Extended, ZenonT(60)
<1>3. files'[L] = files[L] \o <<y>>
  BY <1>1, Extended, ZenonT(60)
<1>4. \A i \in 1..L : i # L => files'[i] = files[i]
  BY <1>1, Extended, ZenonT(60)
<1>5. Followed(files[L], risky, Unfinished) /\ \A i \in 1..L : i # L => Followed(files[i], risky, {})
  BY <1>1 DEF PcapInv, FilesFollow, EndOf
<1>6. Followed(files'[L], risky, Unfinished')
  <2> DEFINE f == files[L]
             E == Unfinished
             D == Unfinished'
  <2>1. f \in Seq(Piece) /\ Followed(f, risky, E) /\ (y[1] = "record" => y[2] \in D)
    BY <1>1, <1>5
  <2>2. \A z \in Piece : z[1] = "record" /\ z[2] \in E => Matched(z, y, risky)
    OBVIOUS
  <2>3. files'[L] = f \o <<y>>
    BY <1>3
  <2> HIDE DEF f, E, D
  <2>4. Followed(f \o <<y>>, risky, D)
    BY <2>1, <2>2, PieceFollows
  <2> QED BY <2>3, <2>4 DEF D
<1>7. ASSUME NEW i \in 1..L PROVE Followed(files'[i], risky', EndOf(i)')
  <2>1. CASE i = L
    BY <1>2, <1>6, <2>1 DEF EndOf
  <2>2. CASE i # L
    BY <1>2, <1>4, <1>5, <2>2 DEF EndOf
  <2> QED BY <2>1, <2>2
<1> QED BY <1>2, <1>7 DEF FilesFollow

\* It writes a record and then its bytes.
LEMMA DumperWritesKeeps ==
  ASSUME PcapInv, DumperWrites, UNCHANGED replay, client # "crashed"
  PROVE  PcapInv'
<1>1. /\ UNCHANGED <<is_record_pcap_, dumping_, dumping_blocked_, packets_cache_, client, open, dumps, late, risky>>
      /\ dumper \in Dumpers /\ dumper.pc \in {"record", "bytes"} /\ open /\ InHand
  BY DEF DumperWrites, flags, counts, PcapInv, PcapTypes, Dumpers, Threads, InHand
<1> DEFINE r == Udp(dumper.pkt)
           L == Len(files)
<1>2. /\ dumper.pkt \in Nat /\ <<"record", r>> \in Piece /\ <<"bytes", r>> \in Piece /\ <<"garbled", r>> \in Piece
      /\ PacketOf(<<"record", r>>) = 0 /\ PacketOf(<<"garbled", r>>) = 0 /\ PacketOf(<<"bytes", r>>) = dumper.pkt
  BY <1>1, PieceTypes DEF Dumpers
<1>3. files \in FileList /\ L \in 1..L /\ L >= 1
  BY <1>1, PlaceTypes DEF PcapInv, PcapTypes, Threads
<1>4. OnDisk \in Nat /\ Ordered(files, OnDisk, risky) /\ dumper.pkt = OnDisk + 1
  BY <1>1 DEF PcapInv, Numbered
\* Whatever it writes, a segment that it meets is a risk it was known to take.
<1>5. ASSUME NEW y, y[2] = r, client = "segment" \/ Racing PROVE Near(y, risky)
  <2>1. Racing
    BY <1>1, <1>5 DEF Racing
  <2>2. dumper.pkt \in risky
    BY <2>1, RacedIsRisky
  <2> QED BY <1>5, <2>2 DEF Near
<1>6. ASSUME NEW y \in Piece, PacketOf(y) = 0
      PROVE  <<y>> \in Seq(Piece) /\ NoPacket(<<y>>)
  <2>1. <<y>> \in Seq(Piece) /\ Len(<<y>>) = 1 /\ <<y>>[1] = y /\ \A k \in 1..1 : k = 1
    OBVIOUS
  <2> QED BY <1>6, <2>1 DEF NoPacket
<1>7. CASE dumper.pc = "record" /\ Output(<<"record", r>>) /\ dumper' = [dumper EXCEPT !.pc = "bytes"]
  <2>1. PICK y : /\ files' = Extend(files, L, <<y>>)
                 /\ y = <<"record", r>> \/ (Racing /\ y = <<"garbled", r>>)
    BY <1>1, <1>7, OutputExtends
  <2>2. dumper' \in Dumpers /\ dumper'.pc = "bytes" /\ dumper'.pkt = dumper.pkt
    BY <1>1, <1>7 DEF Dumpers
  <2>3. y \in Piece /\ y[2] = r /\ PacketOf(y) = 0
    BY <1>2, <2>1
  <2>4. r \in Unfinished'
    BY <2>2 DEF Unfinished
  <2>5. \A z \in Piece : z[1] = "record" /\ z[2] \in Unfinished => Matched(z, y, risky)
    <3>1. ASSUME NEW z, z \in Unfinished PROVE client = "segment"
      BY <1>7, <3>1 DEF Unfinished
    <3> QED BY <1>5, <2>3, <3>1 DEF Matched
  <2>6. files' \in FileList /\ Len(files') = L /\ FilesFollow'
    BY <1>1, <1>3, <2>1, <2>3, <2>4, <2>5, LastFollows
  <2>7. PcapTypes'
    BY <1>1, <2>2, <2>6 DEF PcapInv, PcapTypes, Dumpers
  <2>8. Threads'
    BY <1>1, <2>2, <2>6 DEF PcapInv, Threads
  <2>10. Ordered(files', OnDisk, risky)
    <3>1. Keeping(files', files, 0)
      BY <1>3, <1>6, <2>1, <2>3, ExtendedKeeps
    <3> QED BY <1>3, <1>4, <2>6, <3>1, KeepingOrder
  <2>11. InHand' /\ OnDisk' = OnDisk
    BY <1>1, <2>2 DEF InHand, OnDisk
  <2>12. Numbered'
    BY <1>1, <1>4, <2>2, <2>10, <2>11 DEF PcapInv, Numbered
  <2>13. Apart'
    BY <1>1, <2>11 DEF PcapInv, Apart
  <2> QED BY <2>6, <2>7, <2>8, <2>12, <2>13, ReplaySame DEF PcapInv
<1>8. CASE dumper.pc = "bytes" /\ Output(<<"bytes", r>>) /\ dumper' = [pc |-> "inner", pkt |-> 0]
  <2>1. PICK y : /\ files' = Extend(files, L, <<y>>)
                 /\ y = <<"bytes", r>> \/ (Racing /\ y = <<"garbled", r>>)
    BY <1>1, <1>8, OutputExtends
  <2>2. dumper' \in Dumpers /\ dumper'.pc = "inner"
    BY <1>8 DEF Dumpers
  <2>3. y \in Piece /\ y[2] = r /\ y[1] # "record"
    BY <1>2, <2>1
  <2>5. \A z \in Piece : z[1] = "record" /\ z[2] \in Unfinished => Matched(z, y, risky)
    <3>1. ASSUME NEW z \in Piece, z[2] \in Unfinished PROVE Matched(z, y, risky)
      <4>1. z[2] = r \/ client = "segment"
        BY <3>1 DEF Unfinished
      <4> QED BY <1>5, <2>1, <2>3, <4>1 DEF Matched
    <3> QED BY <3>1
  <2>6. files' \in FileList /\ Len(files') = L /\ FilesFollow'
    BY <1>1, <1>3, <2>1, <2>3, <2>5, LastFollows
  <2>7. PcapTypes'
    BY <1>1, <2>2, <2>6 DEF PcapInv, PcapTypes, Dumpers
  <2>8. Threads'
    BY <1>1, <2>2, <2>6 DEF PcapInv, Threads
  <2>10. Ordered(files', OnDisk + 1, risky)
    <3>1. CASE y = <<"bytes", r>>
      <4>1. PacketOf(y) = OnDisk + 1
        BY <1>2, <1>4, <3>1
      <4> QED BY <1>3, <1>4, <2>1, <2>3, <4>1, PacketFollows
    <3>2. CASE Racing /\ y = <<"garbled", r>>
      <4>1. PacketOf(y) = 0 /\ OnDisk + 1 \in risky
        BY <1>2, <1>4, <3>2, RacedIsRisky
      <4>2. Keeping(files', files, 0)
        BY <1>3, <1>6, <2>1, <2>3, <4>1, ExtendedKeeps
      <4>3. Ordered(files', OnDisk, risky)
        BY <1>3, <1>4, <2>6, <4>2, KeepingOrder
      <4> QED BY <1>4, <2>6, <4>1, <4>3, OrderedMore
    <3> QED BY <2>1, <3>1, <3>2
  <2>11. ~InHand' /\ OnDisk' = OnDisk + 1
    <3>1. ~InHand'
      BY <2>2 DEF InHand
    <3>2. dumps \in Nat /\ Len(packets_cache_) \in Nat
      BY DEF PcapInv, PcapTypes
    <3> QED BY <1>1, <3>1, <3>2 DEF OnDisk
  <2>12. Numbered'
    BY <1>1, <1>4, <2>10, <2>11 DEF PcapInv, Numbered
  <2>13. Apart'
    BY <1>1, <2>2 DEF PcapInv, Apart
  <2> QED BY <2>6, <2>7, <2>8, <2>12, <2>13, ReplaySame DEF PcapInv
<1> QED BY <1>7, <1>8 DEF DumperWrites

\* A step that writes nothing that is a packet and leaves the dumping thread
\* where it is, or outside of its records.
LEMMA FilesKeep ==
  ASSUME PcapInv, UNCHANGED <<packets_cache_, dumps, late, risky, replay>>, files' \in FileList,
         NEW d \in {0, 1}, Keeping(files', files, d), FilesFollow',
         dumper' \in Dumpers,
         dumper' = dumper \/ ({dumper.pc, dumper'.pc} \cap {"record", "bytes"} = {}),
         Threads', Apart'
  PROVE  PcapInv'
<1>1. PcapTypes'
  BY DEF PcapInv, PcapTypes, Dumpers
<1>3. (InHand' <=> InHand) /\ (InHand => dumper'.pkt = dumper.pkt)
  BY DEF InHand
<1>4. OnDisk' = OnDisk
  BY <1>3 DEF OnDisk
<1>5. Ordered(files', OnDisk, risky)
  <2>1. files \in FileList /\ OnDisk \in Nat /\ Ordered(files, OnDisk, risky)
    BY DEF PcapInv, PcapTypes, Numbered
  <2> QED BY <2>1, KeepingOrder
<1>6. Numbered'
  BY <1>3, <1>4, <1>5 DEF PcapInv, Numbered
<1> QED BY <1>1, <1>6, ReplaySame DEF PcapInv

\* Save opens a file, begins it with a header and starts the dumping thread.
LEMMA SaveOpensKeeps ==
  ASSUME PcapInv, SaveOpens, UNCHANGED replay
  PROVE  PcapInv'
<1>1. /\ UNCHANGED <<is_record_pcap_, packets_cache_, dumps, late, risky>>
      /\ client = "restarting" /\ client' = "idle" /\ dumper.pc = "gone" /\ dumper \in Dumpers
      /\ files \in FileList /\ is_record_pcap_
  BY DEF SaveOpens, Joined, counts, PcapInv, PcapTypes, Dumpers, Threads
<1>2. Unfinished = {} /\ Apart'
  BY <1>1 DEF Unfinished, Apart
<1>3. CASE open' = FALSE /\ UNCHANGED <<files, dumping_, dumper>>
  <2>1. Threads'
    BY <1>1, <1>3 DEF PcapInv, Threads
  <2> QED BY <1>1, <1>2, <1>3, <2>1, QuietKeeps DEF PcapInv, PcapTypes
<1>4. CASE /\ files' = Append(files, <<PcapHeader>>) /\ open' = TRUE
           /\ dumping_' = TRUE /\ dumper' = [pc |-> "outer", pkt |-> 0]
  <2> DEFINE h == <<PcapHeader>>
  <2>1. h \in Seq(Piece) /\ Followed(h, risky, {}) /\ Len(h) = 1 /\ h[1] = PcapHeader /\ PacketOf(PcapHeader) = 0
    BY HeaderFollowed, PieceTypes
  <2>2. files' = Append(files, h)
    BY <1>4
  <2> HIDE DEF h
  <2>3. NoPacket(h)
    <3>1. \A k \in 1..1 : k = 1
      OBVIOUS
    <3> QED BY <2>1, <3>1 DEF NoPacket
  <2>4. /\ files' \in FileList /\ Len(files') = Len(files) + 1
        /\ files'[Len(files) + 1] = h /\ \A i \in 1..Len(files) : files'[i] = files[i]
        /\ Keeping(files', files, 0)
    BY <1>1, <2>1, <2>2, <2>3, NewLast
  <2>5. \A i \in 1..Len(files) : Followed(files[i], risky, {})
    BY <1>2 DEF PcapInv, FilesFollow, EndOf
  <2>6. Len(files) \in Nat
    BY <1>1, PlaceTypes
  <2>7. \A i \in 1..Len(files') : Followed(files'[i], risky, {})
    <3>1. \A i \in 1..Len(files) + 1 : i \in 1..Len(files) \/ i = Len(files) + 1
      BY <2>6
    <3> QED BY <2>1, <2>4, <2>5, <3>1
  <2>8. dumper' \in Dumpers /\ dumper'.pc = "outer"
    BY <1>4 DEF Dumpers
  <2>9. Threads'
    <3>1. Len(files') >= 1
      BY <2>4, <2>6
    <3> QED BY <1>1, <1>4, <2>8, <3>1 DEF PcapInv, Threads
  <2>10. FilesFollow'
    <3>1. Unfinished' = {}
      BY <1>1, <2>8 DEF Unfinished
    <3> QED BY <1>1, <2>7, <3>1 DEF FilesFollow, EndOf
  <2>11. {dumper.pc, dumper'.pc} \cap {"record", "bytes"} = {}
    BY <1>1, <2>8
  <2> QED BY <1>1, <1>2, <2>4, <2>8, <2>9, <2>10, <2>11, FilesKeep
<1> QED BY <1>3, <1>4 DEF SaveOpens

\* TcpDump writes a segment, into the packet the dumping thread is at if there
\* is one.
LEMMA TcpDumpWritesKeeps ==
  ASSUME PcapInv, TcpDumpWrites, UNCHANGED replay
  PROVE  PcapInv'
<1>1. /\ UNCHANGED <<is_record_pcap_, dumping_, packets_cache_, dumper, open, dumps, late, risky>>
      /\ client \in {"asleep", "segment"} /\ dumper \in Dumpers /\ files \in FileList
  BY DEF TcpDumpWrites, counts, PcapInv, PcapTypes, Dumpers
<1>2. \/ client = "asleep" /\ Output(<<"record", Tcp>>) /\ client' = "segment" /\ UNCHANGED dumping_blocked_
      \/ client = "segment" /\ Output(<<"bytes", Tcp>>) /\ client' = "idle"
  BY DEF TcpDumpWrites
<1>3. Apart'
  <2>1. OnDisk' = OnDisk
    BY <1>1 DEF OnDisk, InHand
  <2> QED BY <1>1, <1>2, <2>1 DEF PcapInv, Apart
<1>4. CASE ~open
  <2>1. files' = files
    BY <1>2, <1>4 DEF Output
  <2>2. Threads'
    BY <1>1, <1>2, <2>1 DEF PcapInv, Threads
  <2>3. Unfinished' = Unfinished
    BY <1>1, <1>4 DEF Unfinished
  <2> QED BY <1>1, <1>3, <2>1, <2>2, <2>3, QuietKeeps DEF PcapInv, PcapTypes
<1>5. CASE open
  <2> DEFINE L == Len(files)
             r == Udp(dumper.pkt)
  <2>1. L \in 1..L /\ L >= 1
    BY <1>1, <1>5, PlaceTypes DEF PcapInv, Threads
  <2>2. PICK y : /\ files' = Extend(files, L, <<y>>)
                 /\ \/ client = "asleep" /\ client' = "segment" /\ y = <<"record", Tcp>>
                    \/ client = "segment" /\ client' = "idle" /\ y = <<"bytes", Tcp>>
                    \/ Racing /\ y = <<"garbled", r>>
    <3>1. CASE client = "asleep" /\ Output(<<"record", Tcp>>) /\ client' = "segment"
      <4>1. PICK y : /\ files' = Extend(files, L, <<y>>)
                     /\ y = <<"record", Tcp>> \/ (Racing /\ y = <<"garbled", r>>)
        BY <1>5, <3>1, OutputExtends
      <4> QED BY <3>1, <4>1
    <3>2. CASE client = "segment" /\ Output(<<"bytes", Tcp>>) /\ client' = "idle"
      <4>1. PICK y : /\ files' = Extend(files, L, <<y>>)
                     /\ y = <<"bytes", Tcp>> \/ (Racing /\ y = <<"garbled", r>>)
        BY <1>5, <3>2, OutputExtends
      <4> QED BY <3>2, <4>1
    <3> QED BY <1>2, <3>1, <3>2
  <2>3. y \in Piece /\ PacketOf(y) = 0
    <3>1. dumper.pkt \in Nat
      BY <1>1 DEF Dumpers
    <3> QED BY <2>2, <3>1, PieceTypes
  <2>4. ASSUME NEW z, z[2] = r, Racing PROVE Near(z, risky)
    <3>1. dumper.pkt \in risky
      BY <2>4, RacedIsRisky
    <3> QED BY <2>4, <3>1 DEF Near
  <2>5. \A z \in Piece : z[1] = "record" /\ z[2] \in Unfinished => Matched(z, y, risky)
    <3>1. ASSUME NEW z \in Piece, z[2] \in Unfinished PROVE Matched(z, y, risky)
      <4>1. (z[2] = r /\ dumper.pc = "bytes") \/ (z[2] = Tcp /\ client = "segment")
        BY <1>1, <3>1 DEF Unfinished
      <4>2. CASE z[2] = r /\ dumper.pc = "bytes"
        <5>1. Racing
          BY <1>1, <4>2 DEF Racing, InHand
        <5> QED BY <2>4, <4>2, <5>1 DEF Matched
      <4>3. CASE z[2] = Tcp /\ client = "segment"
        <5>1. y = <<"bytes", Tcp>> \/ (Racing /\ y[2] = r)
          BY <2>2, <4>3
        <5> QED BY <2>4, <4>3, <5>1 DEF Matched
      <4> QED BY <4>1, <4>2, <4>3
    <3> QED BY <3>1
  <2>6. y[1] = "record" => y[2] \in Unfinished'
    <3>1. y[1] = "record" => y[2] = Tcp /\ client' = "segment"
      BY <2>2
    <3>2. client' = "segment" => Tcp \in Unfinished'
      BY <1>1, <1>5 DEF Unfinished
    <3> QED BY <3>1, <3>2
  <2>7. files' \in FileList /\ Len(files') = L /\ FilesFollow'
    BY <1>1, <2>1, <2>2, <2>3, <2>5, <2>6, LastFollows
  <2>8. Keeping(files', files, 0)
    <3>1. <<y>> \in Seq(Piece) /\ Len(<<y>>) = 1 /\ <<y>>[1] = y /\ \A k \in 1..1 : k = 1
      BY <2>3
    <3>2. NoPacket(<<y>>)
      BY <2>3, <3>1 DEF NoPacket
    <3> QED BY <1>1, <2>1, <2>2, <3>1, <3>2, ExtendedKeeps
  <2>9. Threads'
    BY <1>1, <1>2, <2>1, <2>7 DEF PcapInv, Threads
  <2> QED BY <1>1, <1>3, <2>7, <2>8, <2>9, FilesKeep
<1> QED BY <1>4, <1>5

\* SaveUdpPacket writes a file of its own, or into one that is closed.
LEMMA SaveUdpPacketKeeps ==
  ASSUME PcapInv, SaveUdpPacket, UNCHANGED replay
  PROVE  PcapInv'
<1>1. /\ UNCHANGED <<is_record_pcap_, dumping_, packets_cache_, dumper, open, dumps, late, risky>>
      /\ client = "idle" /\ client' = "idle" /\ dumper \in Dumpers /\ files \in FileList
  BY DEF SaveUdpPacket, Call, flags, PcapInv, PcapTypes, Dumpers
<1> DEFINE L == Len(files)
           q == Pieces(Udp(0))
           h == <<PcapHeader>> \o q
<1>2. /\ q \in Seq(Piece) /\ NoPacket(q)
      /\ h \in Seq(Piece) /\ NoPacket(h) /\ Followed(h, risky, {})
  BY SavedFile
<1>s. \A f \in Seq(Piece) : Followed(f, risky, {}) => Followed(f \o q, risky, {})
  BY SavedFollows
<1>3. L \in Nat /\ \A i \in 1..L : files[i] \in Seq(Piece)
  BY <1>1, PlaceTypes
<1>4. Apart'
  BY <1>1 DEF Apart
\* Only the dumping thread can be inside of a record, and its file is open.
<1>5. Unfinished' = Unfinished /\ (Unfinished # {} => open /\ L >= 1)
  BY <1>1 DEF Unfinished, PcapInv, Threads
<1>6. \A i \in 1..L : Followed(files[i], risky, EndOf(i))
  BY DEF PcapInv, FilesFollow
<1>7. files' = <<h>> \o files \/ \E i \in 1..Closed : files' = Extend(files, i, q)
  BY DEF SaveUdpPacket, Extend
<1> HIDE DEF q, h
<1>8. CASE files' = <<h>> \o files
  <2>1. /\ files' \in FileList /\ Len(files') = L + 1
        /\ files'[1] = h /\ \A i \in 1..L : files'[i + 1] = files[i]
        /\ Keeping(files', files, 1)
    BY <1>1, <1>2, <1>8, NewFirst
  <2>2. Threads'
    BY <1>1, <1>3, <2>1 DEF PcapInv, Threads
  <2>3. ASSUME NEW i \in 1..Len(files') PROVE Followed(files'[i], risky, EndOf(i)')
    <3>1. CASE i = 1
      <4>1. {} \subseteq EndOf(i)'
        OBVIOUS
      <4> QED BY <1>2, <2>1, <3>1, <4>1, FollowedMore
    <3>2. CASE i # 1
      <4>1. i - 1 \in 1..L /\ (i - 1) + 1 = i /\ (i = Len(files') <=> i - 1 = L)
        BY <1>3, <2>1, <3>2
      <4>2. files'[i] = files[i - 1]
        BY <2>1, <4>1
      <4>3. EndOf(i)' = EndOf(i - 1)
        BY <1>5, <4>1 DEF EndOf
      <4> QED BY <1>6, <4>1, <4>2, <4>3
    <3> QED BY <3>1, <3>2
  <2>4. FilesFollow'
    BY <1>1, <2>3 DEF FilesFollow
  <2> QED BY <1>1, <1>4, <2>1, <2>2, <2>4, FilesKeep
<1>9. ASSUME NEW i \in 1..Closed, files' = Extend(files, i, q) PROVE PcapInv'
  <2>1. i \in 1..L /\ (open => i # L)
    BY <1>3 DEF Closed
  <2>2. /\ files' \in FileList /\ Len(files') = L /\ files'[i] = files[i] \o q
        /\ \A j \in 1..L : j # i => files'[j] = files[j]
    BY <1>1, <1>2, <1>9, <2>1, Extended, ZenonT(60)
  <2>3. Keeping(files', files, 0)
    BY <1>1, <1>2, <1>9, <2>1, ExtendedKeeps
  <2>4. Threads'
    BY <1>1, <2>2 DEF PcapInv, Threads
  <2>5. EndOf(i) = {} /\ \A j \in 1..L : EndOf(j)' = EndOf(j)
    BY <1>5, <2>1, <2>2 DEF EndOf
  <2>6. Followed(files'[i], risky, {})
    BY <1>3, <1>6, <1>s, <2>1, <2>2, <2>5
  <2>7. ASSUME NEW j \in 1..L PROVE Followed(files'[j], risky, EndOf(j)')
    <3>1. CASE j = i
      BY <2>5, <2>6, <3>1
    <3>2. CASE j # i
      BY <1>6, <2>2, <2>5, <3>2
    <3> QED BY <3>1, <3>2
  <2>8. FilesFollow'
    BY <1>1, <2>2, <2>7 DEF FilesFollow
  <2> QED BY <1>1, <1>4, <2>2, <2>3, <2>4, <2>8, FilesKeep
<1> QED BY <1>7, <1>8, <1>9

\* The replay leaves the recorder alone.
LEMMA RecorderSame ==
  ASSUME PcapInv, UNCHANGED <<flags, packets_cache_, receiver, dumper, client, disk, counts>>, Replaying'
  PROVE  PcapInv'
<1>1. UNCHANGED <<is_record_pcap_, dumping_, dumping_blocked_, packets_cache_, dumper, client, files, open,
                  dumps, late, risky>>
  BY DEF flags, disk, counts
<1>2. PcapTypes'
  BY <1>1 DEF PcapInv, PcapTypes
<1>3. FilesFollow'
  BY <1>1 DEF PcapInv, FilesFollow, EndOf, Unfinished
<1>4. Threads'
  BY <1>1 DEF PcapInv, Threads
<1>5. InHand' <=> InHand
  BY <1>1 DEF InHand
<1>6. OnDisk' = OnDisk
  BY <1>1, <1>5 DEF OnDisk
<1>7. Numbered'
  BY <1>1, <1>5, <1>6 DEF PcapInv, Numbered
<1>8. Apart'
  BY <1>1, <1>6 DEF PcapInv, Apart
<1> QED BY <1>2, <1>3, <1>4, <1>7, <1>8 DEF PcapInv

\* A replay begins behind the header of a shaped file.
LEMMA LoadKeeps ==
  ASSUME NEW S, NEW f \in Seq(S), NEW t, Shaped(f), Load(f, t)
  PROVE  Replaying'
<1>1. /\ replay'.file = f /\ replay'.got = <<>> /\ replay'.pos = IF f = <<>> THEN 0 ELSE 1
  BY DEF Load
<1>2. Len(f) \in Nat /\ (f # <<>> => Len(f) >= 1) /\ (f = <<>> => Len(f) = 0)
  OBVIOUS
<1>3. (\E T : <<>> \in Seq(T)) /\ Len(<<>>) = 0
  <2>1. <<>> \in Seq({})
    OBVIOUS
  <2> QED BY <2>1
<1>4. Answered(0)'
  BY <1>1, <1>2, <1>3 DEF Answered
<1>5. replay' = [on |-> replay'.on, file |-> replay'.file, torn |-> replay'.torn, pos |-> replay'.pos,
                 end |-> replay'.end, got |-> replay'.got]
  BY DEF Load
<1> QED BY <1>1, <1>2, <1>3, <1>4, <1>5 DEF Replaying

\* Recordings made by other programs begin with a header too.
LEMMA ForeignHeader ==
  ASSUME NEW f \in ForeignFiles
  PROVE  \E S : f \in Seq(S) /\ f[1] = PcapHeader
<1>1. PICK r \in Records, q \in Records : f = (<<PcapHeader>> \o Pieces(r)) \o Pieces(q)
  BY DEF ForeignFiles
<1> DEFINE S == {PcapHeader, <<"record", r>>, <<"bytes", r>>, <<"record", q>>, <<"bytes", q>>}
           h == <<PcapHeader>>
           a == Pieces(r)
           b == Pieces(q)
<1>2. h \in Seq(S) /\ Len(h) = 1 /\ h[1] = PcapHeader /\ a \in Seq(S) /\ b \in Seq(S)
  BY DEF Pieces
<1> HIDE DEF S, h, a, b
<1>3. h \o a \in Seq(S) /\ Len(h \o a) >= 1 /\ (h \o a)[1] = PcapHeader
  BY <1>2, ConcatProperties
<1> DEFINE g == h \o a
<1>4. g \in Seq(S) /\ Len(g) >= 1 /\ g[1] = PcapHeader /\ f = g \o b
  BY <1>1, <1>3 DEF h, a, b
<1> HIDE DEF g
<1>5. f \in Seq(S) /\ f[1] = PcapHeader
  BY <1>2, <1>4, ConcatProperties
<1> QED BY <1>5

\* As much of a file as is in step is loaded.
LEMMA LoadInStepKeeps ==
  ASSUME NEW S, NEW f \in Seq(S), f[1] = PcapHeader, NEW k \in 0..Len(f), NEW t, InStep(f, k),
         Load(SubSeq(f, 1, k), t)
  PROVE  Replaying'
<1> DEFINE g == SubSeq(f, 1, k)
<1>1. g \in Seq(S) /\ Shaped(g) /\ Load(g, t)
  BY InStepShaped
<1> HIDE DEF g
<1> QED BY <1>1, LoadKeeps

\* That holds for every file of the recorder, for what a crash leaves of the
\* last one, and for others.
LEMMA OpenKeeps ==
  ASSUME PcapInv, Open
  PROVE  Replaying'
<1>1. files \in FileList /\ \A i \in 1..Len(files) : files[i] \in Seq(Piece) /\ files[i][1] = PcapHeader
  BY PlaceTypes DEF PcapInv, PcapTypes, FilesFollow, Followed
<1>2. DOMAIN files = 1..Len(files) /\ Len(files) \in Nat
  BY <1>1, PlaceTypes DEF FileList
<1>3. ASSUME NEW S, NEW f \in Seq(S), f[1] = PcapHeader, LoadInStep(f) PROVE Replaying'
  <2>1. PICK k \in 1..Len(f) : InStep(f, k) /\ Load(SubSeq(f, 1, k), k < Len(f))
    BY <1>3 DEF LoadInStep
  <2>2. k \in 0..Len(f)
    OBVIOUS
  <2> DEFINE t == k < Len(f)
  <2>3. Load(SubSeq(f, 1, k), t)
    BY <2>1
  <2> HIDE DEF t
  <2> QED BY <1>3, <2>1, <2>2, <2>3, LoadInStepKeeps
<1>4. ASSUME NEW i \in DOMAIN files, LoadInStep(files[i]) PROVE Replaying'
  BY <1>1, <1>2, <1>3, <1>4
<1>5. ASSUME NEW k \in 0..Len(files[Len(files)]), NEW t \in BOOLEAN, InStep(files[Len(files)], k),
             Load(SubSeq(files[Len(files)], 1, k), t), Len(files) >= 1
      PROVE  Replaying'
  <2> DEFINE f == files[Len(files)]
  <2>1. f \in Seq(Piece) /\ f[1] = PcapHeader /\ k \in 0..Len(f) /\ InStep(f, k) /\ Load(SubSeq(f, 1, k), t)
    BY <1>1, <1>2, <1>5
  <2> HIDE DEF f
  <2> QED BY <2>1, LoadInStepKeeps
<1>6. ASSUME NEW f \in ForeignFiles, LoadInStep(f) PROVE Replaying'
  <2>1. PICK S : f \in Seq(S) /\ f[1] = PcapHeader
    BY ForeignHeader
  <2> QED BY <1>3, <1>6, <2>1
<1>7. client = "crashed" => Len(files) >= 1
  BY DEF PcapInv, Threads
<1> QED BY <1>4, <1>5, <1>6, <1>7 DEF Open

\* What a step of the replay changes.
Stepped(torn, pos, end, got) ==
  replay' = [on |-> replay.on, file |-> replay.file, torn |-> torn, pos |-> pos, end |-> end, got |-> got]

\* Such a step keeps the file; it is right when the answers are.
LEMMA SteppedKeeps ==
  ASSUME Replaying, NEW torn, NEW pos \in 0..Len(replay.file), NEW end, NEW S, NEW got \in Seq(S), NEW n \in Nat,
         Stepped(torn, pos, end, got), Answered(n)'
  PROVE  Replaying'
<1>1. /\ replay'.file = replay.file /\ replay'.pos = pos /\ replay'.got = got
      /\ replay' = [on |-> replay'.on, file |-> replay'.file, torn |-> replay'.torn, pos |-> replay'.pos,
                    end |-> replay'.end, got |-> replay'.got]
  BY DEF Stepped
<1>2. Len(replay.file) \in Nat /\ Shaped(replay.file)
  BY DEF Replaying
<1>3. (\E m \in Nat : Answered(m)') /\ (\E T : got \in Seq(T))
  OBVIOUS
<1> QED BY <1>1, <1>2, <1>3 DEF Replaying

\* next() reads a record and answers it.
LEMMA NextRecordKeeps ==
  ASSUME Replaying, NextRecord
  PROVE  Replaying'
<1> DEFINE f == replay.file
           p == replay.pos
           g == replay.got
           r == f[p + 1][2]
           a == IF r.size = "fits" THEN Payload(r) ELSE Stale
           h == Append(g, a)
<1>1. /\ (\E S : g \in Seq(S)) /\ Len(f) \in Nat /\ p \in 0..Len(f) /\ Shaped(f)
  BY DEF Replaying
<1>2. PICK n \in Nat : Answered(n)
  BY DEF Replaying
<1>3. Len(f) - p >= 2 /\ p \in Nat /\ p # Len(f)
  BY <1>1 DEF NextRecord, Left
<1>4. p = 2 * n + 1 /\ Len(g) = n
  BY <1>2, <1>3 DEF Answered
<1>5. \A j \in 1..n : g[j] = Answer(f[2 * j + 1])
  BY <1>2 DEF Answered
<1>6. Stepped(replay.torn, p + 2, replay.end, h)
  <2>1. replay = [on |-> replay.on, file |-> replay.file, torn |-> replay.torn, pos |-> replay.pos,
                  end |-> replay.end, got |-> replay.got]
    BY DEF Replaying
  <2>2. CASE r.size = "fits"
    <3>1. replay' = [replay EXCEPT !.pos = @ + 2, !.got = Append(@, Payload(r))]
      BY <2>2 DEF NextRecord
    <3> QED BY <2>1, <2>2, <3>1 DEF Stepped
  <2>3. CASE r.size # "fits"
    <3>1. replay' = [replay EXCEPT !.pos = Skip, !.got = Append(@, Stale)]
      BY <2>3 DEF NextRecord
    <3> QED BY <2>1, <2>3, <3>1 DEF Stepped, Skip
  <2> QED BY <2>2, <2>3
\* The pieces read are the record and its bytes.
<1>7. f[2 * (n + 1) + 1] = <<"bytes", r>>
  <2>1. n + 1 \in Nat \ {0} /\ 2 * (n + 1) + 1 <= Len(f) /\ 2 * (n + 1) = p + 1
    BY <1>1, <1>3, <1>4
  <2>2. f[2 * (n + 1) + 1] = <<"bytes", f[2 * (n + 1)][2]>>
    BY <1>1, <2>1 DEF Shaped
  <2> QED BY <2>1, <2>2
<1>8. a = Answer(f[2 * (n + 1) + 1])
  <2> HIDE DEF f, r
  <2>1. f[2 * (n + 1) + 1][1] = "bytes" /\ f[2 * (n + 1) + 1][2] = r
    BY <1>7
  <2> QED BY <2>1 DEF Answer, Usable, Payload
<1>9. PICK S : g \in Seq(S)
  BY <1>1
<1> HIDE DEF f, p, g, a
<1>10. /\ h \in Seq(S \cup {a}) /\ Len(h) = n + 1 /\ h[n + 1] = a
       /\ \A j \in 1..n : h[j] = g[j]
  <2>1. g \in Seq(S \cup {a})
    BY <1>9
  <2> QED BY <1>4, <2>1
<1> HIDE DEF h
<1>11. \A j \in 1..n + 1 : h[j] = Answer(f[2 * j + 1])
  <2>1. \A j \in 1..n + 1 : j \in 1..n \/ j = n + 1
    OBVIOUS
  <2> QED BY <1>5, <1>8, <1>10, <2>1
<1>12. p + 2 = 2 * (n + 1) + 1 /\ p + 2 \in 0..Len(f)
  BY <1>1, <1>3, <1>4
<1>13. replay'.file = f /\ replay'.pos = p + 2 /\ replay'.got = h
  BY <1>6 DEF Stepped, f
<1>14. Answered(n + 1)'
  BY <1>10, <1>11, <1>12, <1>13 DEF Answered, Answer, Usable
<1>15. n + 1 \in Nat
  OBVIOUS
<1> QED BY <1>6, <1>10, <1>12, <1>14, <1>15, SteppedKeeps DEF f

\* It ends in the middle of a record, at a torn one or at the end of the file.
LEMMA NextEndKeeps ==
  ASSUME Replaying, NextHalf \/ NextTorn \/ NextEof
  PROVE  Replaying'
<1> DEFINE f == replay.file
           p == replay.pos
           g == replay.got
<1>1. /\ Len(f) \in Nat /\ p \in 0..Len(f) /\ p \in Nat
      /\ replay = [on |-> replay.on, file |-> replay.file, torn |-> replay.torn, pos |-> replay.pos,
                   end |-> replay.end, got |-> replay.got]
  BY DEF Replaying
<1>2. PICK n \in Nat : Answered(n)
  BY DEF Replaying
<1>3. PICK S : g \in Seq(S)
  BY DEF Replaying
<1>4. CASE NextHalf
  <2>1. Stepped(replay.torn, p + 1, replay.end, g) /\ Len(f) - p = 1
    BY <1>1, <1>4 DEF NextHalf, Stepped, Left
  <2>2. p # Len(f) /\ p + 1 = Len(f) /\ p + 1 \in 0..Len(f)
    BY <1>1, <2>1
  <2>3. p = 2 * n + 1 /\ Len(g) = n /\ \A j \in 1..n : g[j] = Answer(f[2 * j + 1])
    BY <1>2, <2>2 DEF Answered
  <2>4. replay'.file = f /\ replay'.pos = p + 1 /\ replay'.got = g
    BY <2>1 DEF Stepped
  <2>5. p + 1 = 2 * n + 2
    BY <2>3
  <2>6. Answered(n)'
    BY <2>2, <2>3, <2>4, <2>5 DEF Answered, Answer, Usable
  <2> QED BY <1>3, <2>1, <2>2, <2>6, SteppedKeeps
<1>5. CASE NextTorn
  <2>1. replay.torn /\ Len(f) - p = 0
    BY <1>5 DEF NextTorn, Left
  <2>2. p = Len(f)
    BY <1>1, <2>1
  <2>3. Len(g) = n /\ \A j \in 1..n : g[j] = Answer(f[2 * j + 1])
    BY <1>2, <2>1 DEF Answered
  <2>4. CASE replay' = replay
    BY <2>4, ReplaySame
  <2>5. ASSUME NEW e \in {<<>>, <<Stale>>}, replay' = [replay EXCEPT !.torn = FALSE, !.got = @ \o e]
        PROVE  Replaying'
    <3> DEFINE h == g \o e
    <3>1. Stepped(FALSE, p, replay.end, h)
      BY <1>1, <2>5 DEF Stepped
    <3>2. g \in Seq(S \cup {Stale}) /\ e \in Seq(S \cup {Stale})
      <4>1. g \in Seq(S \cup {Stale})
        BY <1>3
      <4>2. <<>> \in Seq(S \cup {Stale}) /\ <<Stale>> \in Seq(S \cup {Stale})
        OBVIOUS
      <4> QED BY <4>1, <4>2
    <3>3. \/ Len(e) = 0
          \/ Len(e) = 1 /\ e[1] = Stale
      OBVIOUS
    <3>4. /\ h \in Seq(S \cup {Stale}) /\ \A j \in 1..n : h[j] = g[j]
          /\ Len(h) = n \/ (Len(h) = n + 1 /\ h[n + 1] = Stale)
      <4>1. /\ h \in Seq(S \cup {Stale}) /\ Len(h) = Len(g) + Len(e)
            /\ \A i \in 1..Len(g) + Len(e) : h[i] = IF i <= Len(g) THEN g[i] ELSE e[i - Len(g)]
        BY <3>2, ConcatProperties
      <4> HIDE DEF h, g
      <4>2. CASE Len(e) = 0
        BY <2>3, <4>1, <4>2
      <4>3. CASE Len(e) = 1 /\ e[1] = Stale
        <5>1. Len(h) = n + 1 /\ \A i \in 1..n + 1 : h[i] = IF i <= n THEN g[i] ELSE e[i - n]
          BY <2>3, <4>1, <4>3
        <5>2. (n + 1) - n = 1 /\ n + 1 \in 1..n + 1 /\ ~(n + 1 <= n)
          OBVIOUS
        <5>3. h[n + 1] = e[1]
          BY <5>1, <5>2
        <5>4. \A j \in 1..n : j \in 1..n + 1 /\ j <= n
          OBVIOUS
        <5> QED BY <4>1, <4>3, <5>1, <5>3, <5>4
      <4> QED BY <3>3, <4>2, <4>3
    <3> HIDE DEF h
    <3>5. replay'.file = f /\ replay'.pos = p /\ replay'.got = h /\ ~replay'.torn
      BY <3>1 DEF Stepped
    <3>6. \A j \in 1..n : h[j] = Answer(f[2 * j + 1])
      BY <2>3, <3>4
    <3>7. Answered(n)'
      BY <1>2, <2>2, <3>4, <3>5, <3>6 DEF Answered, Answer, Usable
    <3> QED BY <1>1, <3>1, <3>4, <3>7, SteppedKeeps
  <2> QED BY <1>5, <2>4, <2>5 DEF NextTorn
<1>6. CASE NextEof
  <2>1. Stepped(replay.torn, p, TRUE, g)
    BY <1>1, <1>6 DEF NextEof, Stepped
  <2>2. replay'.file = f /\ replay'.pos = p /\ replay'.got = g /\ replay'.torn = replay.torn
    BY <2>1 DEF Stepped
  <2>3. Answered(n)'
    BY <1>2, <2>2 DEF Answered, Answer, Usable
  <2> QED BY <1>1, <1>3, <2>1, <2>3, SteppedKeeps
<1> QED BY <1>4, <1>5, <1>6

\* The invariant holds at first.
LEMMA PcapInvInit == PcapInit => PcapInv
<1> SUFFICES ASSUME PcapInit PROVE PcapInv
  OBVIOUS
<1>1. /\ packets_cache_ = <<>> /\ files = <<>> /\ dumps = 0 /\ late = 0 /\ open = FALSE /\ client = "idle"
      /\ dumper = [pc |-> "gone", pkt |-> 0]
  BY DEF PcapInit
<1>2. /\ <<>> \in Seq(Nat) /\ <<>> \in FileList /\ Len(<<>>) = 0
  BY DEF FileList
<1>3. PcapTypes /\ FilesFollow /\ Threads /\ Apart
  BY <1>1, <1>2 DEF PcapTypes, FilesFollow, Threads, Apart
<1>4. ~InHand /\ OnDisk = 0
  <2>1. ~InHand
    BY <1>1 DEF InHand
  <2>2. Len(packets_cache_) = 0
    BY <1>1, <1>2
  <2>3. dumps = 0
    BY <1>1
  <2>4. OnDisk = 0 - 0 - 0
    BY <2>1, <2>2, <2>3 DEF OnDisk
  <2>5. 0 - 0 - 0 = 0
    OBVIOUS
  <2> QED BY <2>1, <2>4, <2>5
<1>5. Numbered
  BY <1>1, <1>2, <1>4 DEF Numbered, Ordered
<1>6. /\ replay = [on |-> FALSE, file |-> <<>>, torn |-> FALSE, pos |-> 0, end |-> FALSE, got |-> <<>>]
      /\ replay.file = <<>> /\ replay.pos = 0 /\ replay.got = <<>>
  BY DEF PcapInit
<1>7. <<>> \in Seq({})
  OBVIOUS
<1>8. Shaped(<<>>)
  BY <1>2 DEF Shaped
<1>9. Answered(0)
  BY <1>2, <1>6 DEF Answered
<1>10. Replaying
  BY <1>2, <1>6, <1>7, <1>8, <1>9 DEF Replaying
<1> QED BY <1>3, <1>5, <1>10 DEF PcapInv

\* Every step keeps it.
LEMMA PcapInvNext == PcapInv /\ [PcapNext]_pcapVars => PcapInv'
<1> SUFFICES ASSUME PcapInv, [PcapNext]_pcapVars PROVE PcapInv'
  OBVIOUS
<1>1. CASE Recorder
  BY <1>1, ReceiverKeeps, DumpKeeps, DumperLoopKeeps, DumperTakesKeeps, DumperWritesKeeps, CallsKeep,
     SaveOpensKeeps, TcpDumpWritesKeeps, SaveUdpPacketKeeps
     DEF Recorder, Alive, Background, DumpingThread, Returns
<1>2. CASE Replay
  <2>1. Replaying' /\ UNCHANGED <<flags, packets_cache_, receiver, dumper, client, disk, counts>>
    BY <1>2, OpenKeeps, NextRecordKeeps, NextEndKeeps
       DEF Replay, PcapInv, Open, NextRecord, NextHalf, NextTorn, NextEof
  <2> QED BY <2>1, RecorderSame
<1>3. CASE UNCHANGED pcapVars
  <2>1. UNCHANGED <<flags, packets_cache_, receiver, dumper, client, disk, counts>> /\ replay' = replay
    BY <1>3 DEF pcapVars
  <2>2. Replaying'
    BY <2>1, ReplaySame DEF PcapInv
  <2> QED BY <2>1, <2>2, RecorderSame
<1> QED BY <1>1, <1>2, <1>3 DEF PcapNext

\* Every reachable state of the recorder and the replay satisfies PcapInv.
THEOREM PcapInvariant == PcapSpec => []PcapInv
BY PcapInvInit, PcapInvNext, PTL DEF PcapSpec

\* In every file each record is followed by its own bytes, unless it or what
\* follows belongs to a packet the dumping thread was at when TcpDump began.
THEOREM RecordsAreWhole == PcapSpec => []RecordsWhole
<1>1. PcapInv => RecordsWhole
  <2> SUFFICES ASSUME PcapInv, NEW i \in DOMAIN files, NEW k \in 1..Len(files[i]),
                      files[i][k][1] = "record"
               PROVE  \/ /\ k < Len(files[i])
                         /\ \/ files[i][k + 1] = <<"bytes", files[i][k][2]>>
                            \/ Disturbed(files[i][k]) \/ Disturbed(files[i][k + 1])
                      \/ /\ k = Len(files[i]) /\ i = Len(files)
                         /\ dumper.pc = "bytes" \/ client \in {"segment", "crashed"}
    BY DEF RecordsWhole
  <2>1. i \in 1..Len(files)
    BY PlaceTypes DEF PcapInv, PcapTypes, FileList
  <2>2. Followed(files[i], risky, EndOf(i))
    BY <2>1 DEF PcapInv, FilesFollow
  <2>3. \/ k < Len(files[i]) /\ Matched(files[i][k], files[i][k + 1], risky)
        \/ k = Len(files[i]) /\ files[i][k][2] \in EndOf(i)
    BY <2>2 DEF Followed
  <2>4. EndOf(i) # {} => i = Len(files) /\ (dumper.pc = "bytes" \/ client \in {"segment", "crashed"})
    BY DEF EndOf, Unfinished
  <2> QED BY <2>3, <2>4 DEF Matched, Near, Disturbed
<1> QED BY <1>1, PcapInvariant, PTL

\* Every packet dumped is in one file, or on its way to it, once and in order
\* (only one that TcpDump has met may be missing), and StopRecordPcap leaves
\* none behind that was dumped before it.
THEOREM PacketsRecordedOnce == PcapSpec => []RecordedOnce
<1>1. PcapInv => RecordedOnce
  <2> SUFFICES ASSUME PcapInv PROVE RecordedOnce
    OBVIOUS
  <2>1. /\ DOMAIN files = 1..Len(files) /\ \A i \in 1..Len(files) : DOMAIN files[i] = 1..Len(files[i])
        /\ DOMAIN packets_cache_ = 1..Len(packets_cache_)
    BY PlaceTypes DEF PcapInv, PcapTypes, FileList
  <2>2. client = "idle" /\ ~is_record_pcap_ => \A i \in 1..Len(packets_cache_) : packets_cache_[i] > late
    BY DEF PcapInv, Threads
  <2> QED BY <2>1, <2>2 DEF PcapInv, Numbered, Ordered, RecordedOnce
<1> QED BY <1>1, PcapInvariant, PTL

\* A replay gives back the packets of the records it has read, each in its
\* place, for recordings, for what a crash leaves of one, and for others.
THEOREM ReplayIsFaithful == PcapSpec => []ReplayFaithful
<1>1. PcapInv => ReplayFaithful
  <2> SUFFICES ASSUME Replaying PROVE ReplayFaithful
    BY DEF PcapInv
  <2> DEFINE f == replay.file
             p == replay.pos
             g == replay.got
  <2>1. PICK n \in Nat : Answered(n)
    BY DEF Replaying
  <2>2. PICK S : g \in Seq(S)
    BY DEF Replaying
  <2>3. Len(f) \in Nat /\ p \in 0..Len(f) /\ p \in Nat /\ Shaped(f)
    BY DEF Replaying
  <2>4. \A j \in 1..n : g[j] = Answer(f[2 * j + 1])
    BY <2>1 DEF Answered
  <2>5. /\ Len(g) = n \/ (Len(g) = n + 1 /\ g[n + 1] = Stale)
        /\ p = 2 * n + 1 \/ p = 2 * n + 2 \/ (p = 0 /\ n = 0)
    BY <2>1 DEF Answered
  <2>6. DOMAIN g = 1..Len(g) /\ Len(g) \in Nat
    BY <2>2
  <2>7. ASSUME NEW j \in DOMAIN g, g[j] # Stale PROVE 2 * j + 1 <= p /\ Usable(f[2 * j + 1])
    <3> HIDE DEF f, p, g
    <3>1. j \in 1..n
      <4>1. j \in 1..Len(g)
        BY <2>6, <2>7
      <4>2. CASE Len(g) = n
        BY <4>1, <4>2
      <4>3. CASE Len(g) = n + 1 /\ g[n + 1] = Stale
        <5>1. j # n + 1
          BY <2>7, <4>3
        <5> QED BY <4>1, <4>3, <5>1
      <4> QED BY <2>5, <4>2, <4>3
    <3>2. Usable(f[2 * j + 1])
      BY <2>4, <2>7, <3>1 DEF Answer
    <3>3. 2 * j + 1 <= p
      BY <2>3, <2>5, <3>1
    <3> QED BY <3>2, <3>3
  <2>8. ASSUME NEW k \in 1..p, Usable(f[k]) PROVE \E j \in DOMAIN g : k = 2 * j + 1 /\ g[j] = f[k][2].id
    <3>0. f[k][1] = "bytes" /\ k \in Nat /\ k >= 1 /\ k <= p /\ k <= Len(f)
      BY <2>3, <2>8 DEF Usable
    <3>1. PICK j \in Nat : k = 2 * j \/ k = 2 * j + 1
      BY <3>0, Parity
    <3> HIDE DEF f, p, g
    <3>2. k # 2 * j
      <4>1. ASSUME k = 2 * j PROVE FALSE
        <5>1. j \in Nat \ {0} /\ 2 * j <= Len(f)
          BY <3>0, <4>1
        <5>2. f[k][1] = "record"
          BY <2>3, <4>1, <5>1 DEF Shaped
        <5> QED BY <3>0, <5>2
      <4> QED BY <4>1
    <3>3. j # 0
      <4>1. ASSUME j = 0 PROVE FALSE
        <5>1. k = 1 /\ Len(f) >= 1
          BY <2>3, <3>0, <3>1, <4>1
        <5>2. f[k] = PcapHeader
          BY <2>3, <5>1 DEF Shaped
        <5> QED BY <3>0, <5>2, PieceTypes
      <4> QED BY <4>1
    <3>4. j \in 1..n /\ j \in DOMAIN g
      <4>1. p <= 2 * n + 2 \/ p = 0
        BY <2>5
      <4>2. j \in 1..n
        BY <2>3, <3>0, <3>1, <3>2, <3>3, <4>1
      <4>3. n <= Len(g)
        BY <2>5
      <4> QED BY <2>6, <4>2, <4>3
    <3>5. g[j] = f[k][2].id
      BY <2>4, <2>8, <3>1, <3>2, <3>4 DEF Answer
    <3> QED BY <3>1, <3>2, <3>4, <3>5
  <2> QED BY <2>7, <2>8 DEF ReplayFaithful
<1> QED BY <1>1, PcapInvariant, PTL
=============================================================================
