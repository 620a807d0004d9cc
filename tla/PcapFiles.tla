----------------------------- MODULE PcapFiles -----------------------------
(***************************************************************************)
(* Recording and replaying: PcapSaver with its dumping thread, fed by      *)
(* RecieveUdpThread between StartRecordPcap and StopRecordPcap, and        *)
(* PcapSource, which reads such a file, or one from elsewhere, back.       *)
(*                                                                         *)
(* A file is a sequence of pieces: its header, and for every packet a      *)
(* PcapRecord and the bytes it announces, written by two calls.  The       *)
(* packets received are numbered from 1; 0 is the payload of everything    *)
(* else.  A piece written while two threads are inside ofs_ may also be    *)
(* garbled: it stands for whatever bytes the race leaves there, or none.   *)
(***************************************************************************)
EXTENDS Integers, Sequences

CONSTANTS CacheSize,   \* of packets_cache_
          MaxDumps,    \* bound: packets recorded
          MaxCalls     \* bound: calls of the application before ~Lidar

ASSUME PcapFilesAssumption == CacheSize \in Nat \ {0} /\ MaxDumps \in Nat /\ MaxCalls \in Nat

\* What a record may be: link layer and protocol, and its length: at most a
\* header ("small"), usable ("fits") or above 1500 bytes ("big").
Record(link, proto, size, id) == [link |-> link, proto |-> proto, size |-> size, id |-> id]
Udp(id) == Record("ip4", "udp", "fits", id)
Tcp == Record("ip4", "tcp", "fits", 0)

PcapHeader == <<"header", Tcp>>
Pieces(r) == << <<"record", r>>, <<"bytes", r>> >>

\* Recordings made by other programs.
Records ==
  {Record(l, p, z, n) : l \in {"ip4", "ip6", "vlan4", "vlan6", "other"}, p \in {"udp", "tcp", "other"},
                        z \in {"small", "fits", "big"}, n \in {1}}
ForeignFiles == {<<PcapHeader>> \o Pieces(r) \o Pieces(q) : r \in Records, q \in Records}

VARIABLES is_record_pcap_, packets_cache_, dumping_, dumping_blocked_,
          receiver,  \* RecieveUdpThread: "idle", "packet" (received), "dump", "gone"
          dumper,    \* the dumping thread, and the packet it has taken
          client,    \* the application: "idle" or a point inside a call
          files,     \* the files written so far; the last one may be open
          open,      \* ofs_.is_open()
          dumps, calls,
          late,      \* how many were dumped when a recording was last switched off
          risky,     \* the packets the dumping thread was at when TcpDump began
          replay     \* PcapSource: its file, is its end torn off, _fpos in pieces,
                     \* is_pcap_end, and the packets delivered

flags == <<is_record_pcap_, dumping_, dumping_blocked_>>
disk == <<files, open>>
counts == <<dumps, calls, late, risky>>
pcapVars == <<flags, packets_cache_, receiver, dumper, client, disk, counts, replay>>

\* The dumping thread has a packet that it has not written to its end.
InHand == dumper.pc \in {"record", "bytes"}

\* How many of the packets dumped the dumping thread has written.
OnDisk == dumps - Len(packets_cache_) - (IF InHand THEN 1 ELSE 0)

\* Both threads may be inside write() of ofs_, which no lock protects.
Racing == InHand /\ client \in {"asleep", "segment"}

Lands(x) == {x} \cup (IF Racing THEN {<<"garbled", Udp(dumper.pkt)>>} ELSE {})

Output(x) ==
  \E y \in Lands(x) : files' = IF open THEN [files EXCEPT ![Len(files)] = @ \o <<y>>] ELSE files

-----------------------------------------------------------------------------
(* RecieveUdpThread *)

Running == client \notin {"joining", "closing", "done", "crashed"}

ReceivePacket ==
  /\ receiver = "idle" /\ Running /\ dumps < MaxDumps
  /\ receiver' = "packet"
  /\ UNCHANGED <<flags, packets_cache_, dumper, client, disk, counts>>

TestRecord ==
  /\ receiver = "packet"
  /\ receiver' = IF is_record_pcap_ THEN "dump" ELSE "idle"
  /\ UNCHANGED <<flags, packets_cache_, dumper, client, disk, counts>>

\* push_back waits while the ring is full.
HasRoom == Len(packets_cache_) < CacheSize

Dump ==
  /\ receiver = "dump" /\ HasRoom
  /\ packets_cache_' = Append(packets_cache_, dumps + 1)
  /\ dumps' = dumps + 1 /\ receiver' = "idle"
  /\ UNCHANGED <<flags, dumper, client, disk, calls, late, risky>>

ReceiverExits ==
  /\ receiver = "idle" /\ client = "joining" /\ receiver' = "gone"
  /\ UNCHANGED <<flags, packets_cache_, dumper, client, disk, counts>>

-----------------------------------------------------------------------------
(* The dumping thread *)

\* Mutant: the thread ends with packets in the cache.
MoreToDumpNow == dumping_
MoreToDump == dumping_ \/ packets_cache_ # <<>>

DumperLoop ==
  /\ dumper.pc = "outer"
  /\ dumper' = [dumper EXCEPT !.pc = IF MoreToDump THEN "inner" ELSE "gone"]
  /\ UNCHANGED <<flags, packets_cache_, receiver, client, disk, counts>>

\* dumping_blocked_ is not looked at again before the packet is written.
DumperTests ==
  /\ dumper.pc = "inner"
  /\ dumper' = [dumper EXCEPT !.pc = IF ~dumping_blocked_ /\ packets_cache_ # <<>> THEN "take" ELSE "outer"]
  /\ UNCHANGED <<flags, packets_cache_, receiver, client, disk, counts>>

DumperTakes ==
  /\ dumper.pc = "take" /\ packets_cache_ # <<>>
  /\ dumper' = [pc |-> "record", pkt |-> Head(packets_cache_)]
  /\ packets_cache_' = Tail(packets_cache_)
  /\ UNCHANGED <<flags, receiver, client, disk, counts>>

DumperWrites ==
  /\ \/ dumper.pc = "record" /\ Output(<<"record", Udp(dumper.pkt)>>)
        /\ dumper' = [dumper EXCEPT !.pc = "bytes"]
     \/ dumper.pc = "bytes" /\ Output(<<"bytes", Udp(dumper.pkt)>>)
        /\ dumper' = [pc |-> "inner", pkt |-> 0]
  /\ UNCHANGED <<flags, packets_cache_, receiver, client, open, counts>>

-----------------------------------------------------------------------------
(* The application *)

Call(to) == client = "idle" /\ calls < MaxCalls /\ calls' = calls + 1 /\ client' = to

\* StartRecordPcap: packets are dumped from here on; Save begins with close.
StartRecordPcap ==
  /\ Call("restarting") /\ is_record_pcap_' = TRUE /\ dumping_' = FALSE
  /\ UNCHANGED <<dumping_blocked_, packets_cache_, receiver, dumper, disk, dumps, late, risky>>

Joined == dumper.pc = "gone"

\* The file may fail to open: Save returns -1, which StartRecordPcap drops.
SaveOpens ==
  /\ client = "restarting" /\ Joined /\ client' = "idle"
  /\ \/ /\ files' = Append(files, <<PcapHeader>>) /\ open' = TRUE
        /\ dumping_' = TRUE /\ dumper' = [pc |-> "outer", pkt |-> 0]
     \/ open' = FALSE /\ UNCHANGED <<files, dumping_, dumper>>
  /\ UNCHANGED <<is_record_pcap_, dumping_blocked_, packets_cache_, receiver, counts>>

StopRecordPcap ==
  /\ Call("stopping") /\ is_record_pcap_' = FALSE /\ late' = IF open THEN dumps ELSE late
  /\ UNCHANGED <<dumping_, dumping_blocked_, packets_cache_, receiver, dumper, disk, dumps, risky>>

\* close(): dumping_ is cleared, the thread joined, the file closed.
CloseStops ==
  /\ client = "stopping" /\ dumping_' = FALSE /\ client' = "stopped"
  /\ UNCHANGED <<is_record_pcap_, dumping_blocked_, packets_cache_, receiver, dumper, disk, counts>>

CloseJoins ==
  /\ client = "stopped" /\ Joined /\ open' = FALSE /\ client' = "idle"
  /\ UNCHANGED <<flags, packets_cache_, receiver, dumper, files, counts>>

\* Mutant: the dumping thread is not told to stay away.
BlockNever == UNCHANGED dumping_blocked_
Block == dumping_blocked_' = TRUE

TcpDump ==
  /\ Call("asleep") /\ Block
  /\ risky' = IF dumper.pc \in {"take", "record", "bytes"} THEN risky \cup {OnDisk + 1} ELSE risky
  /\ UNCHANGED <<is_record_pcap_, dumping_, packets_cache_, receiver, dumper, disk, dumps, late>>

\* Mutant: the dumping thread stays blocked.
ResumeNever == UNCHANGED dumping_blocked_
Resume == dumping_blocked_' = FALSE

\* One segment stands for all.  The sleep of 100 ms before it is no guard:
\* the dumping thread may be slower.
TcpDumpWrites ==
  /\ \/ client = "asleep" /\ Output(<<"record", Tcp>>)
        /\ client' = "segment" /\ UNCHANGED dumping_blocked_
     \/ client = "segment" /\ Output(<<"bytes", Tcp>>)
        /\ client' = "idle" /\ Resume
  /\ UNCHANGED <<is_record_pcap_, dumping_, packets_cache_, receiver, dumper, open, counts>>

Closed == IF open THEN Len(files) - 1 ELSE Len(files)

\* SaveUdpPacket writes through a stream of its own: a new file, or more
\* packets at the end of one that is there (not the one being recorded).
SaveUdpPacket ==
  /\ Call("idle")
  /\ \/ files' = << <<PcapHeader>> \o Pieces(Udp(0)) >> \o files
     \/ \E i \in 1..Closed : files' = [files EXCEPT ![i] = @ \o Pieces(Udp(0))]
  /\ UNCHANGED <<flags, packets_cache_, receiver, dumper, open, dumps, late, risky>>

\* ~Lidar joins the receiving thread and deletes the saver, which closes.
Destroy ==
  /\ client = "idle" /\ client' = "joining"
  /\ UNCHANGED <<flags, packets_cache_, receiver, dumper, disk, counts>>

DestroyCloses ==
  /\ client = "joining" /\ receiver = "gone" /\ dumping_' = FALSE /\ client' = "closing"
  /\ UNCHANGED <<is_record_pcap_, dumping_blocked_, packets_cache_, receiver, dumper, disk, counts>>

DestroyEnds ==
  /\ client = "closing" /\ Joined /\ open' = FALSE /\ client' = "done"
  /\ UNCHANGED <<flags, packets_cache_, receiver, dumper, files, counts>>

\* The process dies while it records (packets_cache_ and dumper keep saying
\* what was not written).
Crash ==
  /\ open /\ client' = "crashed" /\ receiver' = "gone"
  /\ is_record_pcap_' = FALSE /\ dumping_' = FALSE /\ dumping_blocked_' = FALSE
  /\ UNCHANGED <<packets_cache_, dumper, disk, counts>>

DumpingThread == DumperLoop \/ DumperTests \/ DumperTakes \/ DumperWrites
Background == Dump \/ ReceiverExits \/ DumpingThread
Returns == SaveOpens \/ CloseStops \/ CloseJoins \/ TcpDumpWrites \/ DestroyCloses \/ DestroyEnds

Alive(Step) == client # "crashed" /\ Step /\ UNCHANGED replay

Recorder ==
  \/ Alive(ReceivePacket \/ TestRecord \/ Background)
  \/ Alive(StartRecordPcap \/ StopRecordPcap \/ TcpDump \/ SaveUdpPacket \/ Returns)
  \/ Alive(Destroy) \/ Alive(Crash)

-----------------------------------------------------------------------------
(* PcapSource *)

Stale == -1   \* a packet that no record holds: whatever its buffer held, or bytes read out of step

Load(f, t) ==
  replay' = [on |-> TRUE, file |-> f, torn |-> t, pos |-> IF f = <<>> THEN 0 ELSE 1,
             end |-> FALSE, got |-> <<>>]

\* The first k pieces of f: records and their bytes in turn.
InStep(f, k) ==
  \A j \in 1..k : /\ 2 * j <= k => f[2 * j][1] = "record"
                  /\ 2 * j + 1 <= k => f[2 * j + 1] = <<"bytes", f[2 * j][2]>>

\* What follows is read like the rest of a torn record.
LoadInStep(f) ==
  \E k \in 1..Len(f) : /\ InStep(f, k) /\ (k < Len(f) => ~InStep(f, k + 1))
                       /\ Load(SubSeq(f, 1, k), k < Len(f))

\* A recorded file, what a crash has left of one, or one from elsewhere.
Open ==
  /\ ~replay.on
  /\ \/ client = "done" /\ \E i \in DOMAIN files : LoadInStep(files[i])
     \/ client = "crashed" /\ \E k \in 0..Len(files[Len(files)]), t \in BOOLEAN :
          InStep(files[Len(files)], k) /\ Load(SubSeq(files[Len(files)], 1, k), t)
     \/ client = "done" /\ calls = 0 /\ \E f \in ForeignFiles : LoadInStep(f)
  /\ UNCHANGED <<flags, packets_cache_, receiver, dumper, client, disk, counts>>

Left == Len(replay.file) - replay.pos

\* move(incl_len): a record that is too small or too big is passed over.
Skip == replay.pos + 2

\* Mutant: an IPv4 packet with a VLAN tag is not recognised.
PayloadNoVlan(r) == IF r.link \in {"ip4", "ip6"} /\ r.proto = "udp" THEN r.id ELSE Stale

\* What a readable record gives the caller.  An IPv6 packet with a VLAN tag
\* is never copied.  Any other record is answered by 1 or 2, which
\* RecieveUdpThread takes for the length of a packet.
Payload(r) == IF r.link \in {"ip4", "ip6", "vlan4"} /\ r.proto = "udp" THEN r.id ELSE Stale

NextRecord ==
  /\ replay.on /\ Left >= 2
  /\ LET r == replay.file[replay.pos + 1][2]
     IN  IF r.size = "fits" THEN replay' = [replay EXCEPT !.pos = @ + 2, !.got = Append(@, Payload(r))]
                            ELSE replay' = [replay EXCEPT !.pos = Skip, !.got = Append(@, Stale)]
  /\ UNCHANGED <<flags, packets_cache_, receiver, dumper, client, disk, counts>>

\* The bytes of the last record are missing.
NextHalf ==
  /\ replay.on /\ Left = 1
  /\ replay' = [replay EXCEPT !.pos = @ + 1]
  /\ UNCHANGED <<flags, packets_cache_, receiver, dumper, client, disk, counts>>

\* Half a record at the end: read() fails and moves nothing, so that next()
\* returns -1 for ever; or the bytes happen to look like records (one answer
\* stands for all of them).
NextTorn ==
  /\ replay.on /\ Left = 0 /\ replay.torn
  /\ \/ UNCHANGED replay
     \/ \E g \in {<<>>, <<Stale>>} : replay' = [replay EXCEPT !.torn = FALSE, !.got = @ \o g]
  /\ UNCHANGED <<flags, packets_cache_, receiver, dumper, client, disk, counts>>

\* Mutant: _fpos > size.
EofPast == Left < 0
Eof == Left = 0

NextEof ==
  /\ replay.on /\ Eof /\ ~replay.torn
  /\ replay' = [replay EXCEPT !.end = TRUE]
  /\ UNCHANGED <<flags, packets_cache_, receiver, dumper, client, disk, counts>>

Replay == Open \/ NextRecord \/ NextHalf \/ NextTorn \/ NextEof

PcapInit ==
  /\ is_record_pcap_ = FALSE /\ dumping_ = FALSE /\ dumping_blocked_ = FALSE
  /\ packets_cache_ = <<>> /\ files = <<>> /\ open = FALSE
  /\ receiver = "idle" /\ client = "idle" /\ dumper = [pc |-> "gone", pkt |-> 0]
  /\ dumps = 0 /\ calls = 0 /\ late = 0 /\ risky = {}
  /\ replay = [on |-> FALSE, file |-> <<>>, torn |-> FALSE, pos |-> 0, end |-> FALSE, got |-> <<>>]

PcapNext == Recorder \/ Replay

\* The threads run, and what the application has called runs to its end.
PcapFairness ==
  /\ WF_pcapVars(Alive(TestRecord \/ Dump \/ ReceiverExits))
  /\ WF_pcapVars(Alive(DumpingThread)) /\ WF_pcapVars(Alive(Returns))
  /\ WF_pcapVars(NextRecord \/ NextHalf \/ NextTorn \/ NextEof)

-----------------------------------------------------------------------------
(* Properties *)

\* The recorded packet whose bytes a piece holds; 0: none.
PacketOf(x) == IF x[1] = "bytes" /\ x[2].proto = "udp" THEN x[2].id ELSE 0

\* A piece of a packet that TcpDump may have met.
Disturbed(x) == \E n \in risky : x[2] = Udp(n)

\* In every file each record is followed by its own bytes: TcpDump and the
\* dumping thread do not write into each other's packets, but for the one
\* packet the dumping thread was at when TcpDump set dumping_blocked_ (the
\* sleep of 100 ms does not keep them apart); only the last file may end in a
\* record that is still to get its bytes.
RecordsWhole ==
  \A i \in DOMAIN files : \A k \in 1..Len(files[i]) :
    files[i][k][1] = "record" =>
      \/ /\ k < Len(files[i])
         /\ files[i][k + 1] = <<"bytes", files[i][k][2]>> \/ Disturbed(files[i][k]) \/ Disturbed(files[i][k + 1])
      \/ k = Len(files[i]) /\ i = Len(files) /\ (dumper.pc = "bytes" \/ client \in {"segment", "crashed"})

\* Every packet dumped is in exactly one file, or on its way to one, in the
\* order received, however often recording is stopped and started (but for a
\* packet TcpDump has met, which may be lost); and when StopRecordPcap of a
\* recording that could be opened has returned, only a packet that
\* RecieveUdpThread had tested for before is left behind.
RecordedOnce ==
  /\ \A n \in 1..OnDisk : n \in risky \/
       \E i \in DOMAIN files : \E k \in DOMAIN files[i] : PacketOf(files[i][k]) = n
  /\ \A i, j \in DOMAIN files : \A k \in DOMAIN files[i], l \in DOMAIN files[j] :
       LET m == PacketOf(files[i][k])
           n == PacketOf(files[j][l])
       IN  m <= OnDisk /\ (m # 0 /\ n # 0 /\ (i < j \/ (i = j /\ k < l)) => m < n)
  /\ InHand => dumper.pkt = OnDisk + 1
  /\ \A i \in DOMAIN packets_cache_ : packets_cache_[i] = dumps - Len(packets_cache_) + i
  /\ client = "idle" /\ ~is_record_pcap_ =>
       \A i \in DOMAIN packets_cache_ : packets_cache_[i] > late

\* The records of which a replay is to deliver the payload.
Usable(x) == /\ x[1] = "bytes" /\ x[2].proto = "udp" /\ x[2].size = "fits"
             /\ x[2].link \in {"ip4", "ip6", "vlan4"}

\* A replay delivers the UDP packets of the records read so far, each with
\* its own payload and in its own place (the j-th record of a file is its
\* pieces 2j and 2j + 1); stale buffers aside, nothing is added, lost or
\* reordered.
ReplayFaithful ==
  /\ \A j \in DOMAIN replay.got : replay.got[j] # Stale =>
       2 * j + 1 <= replay.pos /\ Usable(replay.file[2 * j + 1])
  /\ \A k \in 1..replay.pos : Usable(replay.file[k]) =>
       \E j \in DOMAIN replay.got : k = 2 * j + 1 /\ replay.got[j] = replay.file[k][2].id

\* A replay comes to its end unless the file's is torn off.
ReplayEnds == (replay.on /\ ~replay.torn) ~> replay.end

\* ~Lidar returns if packets are being dumped when it is called, full cache
\* or not; without a dumping thread (the file could not be opened) the
\* receiving thread may wait in Dump for ever.
DestructorReturns == (client = "joining" /\ dumper.pc # "gone") ~> client \in {"done", "crashed"}
=============================================================================
