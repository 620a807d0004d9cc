# TLA+ verification of the Hesai Lidar SDK 2.0

This directory holds TLA+ models of the C++ SDK, the TLC configurations that
check them on small instances and TLAPS proofs of their central properties.
`PROJECT.json` says which definition models which lines, and lists what is hard to
test in this code (the hazards) with the properties aimed at it.

## 1. The system

The SDK turns UDP packets of a lidar (or of a recorded `.pcap` file) into
point clouds and gives them to the application through callbacks.

| component | state | operations | interacts with |
|---|---|---|---|
| `HesaiLidarSdk` (`driver/hesai_lidar_sdk.hpp`) | `is_thread_runing_`, the Run, init and Lidar pointers, callbacks, device filters | `Init`, `Init_thread`, `Start`, `Run`, `Stop` | owns a `Lidar`; calls the application |
| `Lidar` (`libhesai/Lidar`) | `origin_packets_buffer_`, `decoded_packets_buffer_`, `handle_thread_packet_buffer_[]`, `mutex_list_[]`, `frame_`, `running_`, `is_timeout_`, `init_finish_[]` | `Init`, `RecieveUdpThread`, `ParserThread`, `HandleThread`, `DecodePacket`, `ComputeXYZI`, `ComputeXYZIComplete`, `ClearPacketBuffer`, `SetThreadNum`, destructor | source, parser, PTC client, logger |
| `Ring`, `BlockingRing` (`libhesai/Container`) | array, `_begin`, `_size`, mutex, one condition variable | push, pop, try_pop with 500 ms timeout, clear | between the threads |
| `LidarDecodedFrame` (`lidar_types.h`) | per-packet slots, points, header fields, `packet_num`, `points_num` | `Update` | written by Run and by the workers |
| `UdpParser`, `GeneralParser`, one parser per lidar model | `compute_packet_num`, last azimuth, loss statistics, corrections | `CreatGeneralParser`, `DecodePacket`, `IsNeedFrameSplit`, `ComputeXYZI`, `CalPktLoss` | called by Run and by the workers |
| `SocketSource`, `PcapSource` | socket or file position | `Open`, `Receive`, `Close` | called by the receive thread |
| `PcapSaver` | ring of packets, `dumping_`, `dumping_blocked_`, file | `Save`, `Dump`, `TcpDump`, `close` | fed by the receive thread |
| `PtcClient`, `TcpClient`, `TcpSslClient`, `PtcParser` | connection, receive buffer | `TryOpen`, `QueryCommand` and the commands built on it | init thread, Run (PTP) |
| `Logger` | queue, `exit_`, `running_`, file | `Start`, `Stop`, `AddToQueue`, `threadfunc` | everybody |
| GPU parsers, `HesaiLidarSdkGpu` | device copies of the frame | as the CPU versions | |

What is hard in it:

* **One frame, no lock.** Run decodes into `frame_`, the workers compute points
  from it and into it. The only synchronisation is a counter: Run waits until
  `compute_packet_num` equals `packet_index`. Everything (what the callbacks
  see, whether a slot is overwritten while it is read, whether Run ever goes
  on) hangs on every index being counted exactly once, in its own frame.
* **Frame borders.** The packet that ends a frame is decoded twice, a timeout
  ends a frame without a packet, and a frame that never ends is thrown away
  by a separate path while the workers keep running.
* **Shared condition variables, check-then-act on the rings, lists with a
  limit, threads that are joined while they wait.**
* Start-up and shut-down order, late replies of the PTC protocol, 32-bit
  sequence numbers, azimuth wrap-around.
* **Correction files** come in a dozen formats and versions, from the lidar or
  from disk, and are written into live tables piece by piece: what a refused or
  an older file leaves behind must not end up in a point.
* **Background writers** (logger, pcap saver) are stopped while others still
  feed them, partly without a lock.

What makes each part correct:

| component | properties |
|---|---|
| rings | first in, first out under any interleaving; no lost wake-up; a blocked push gets through |
| pipeline | a published frame is exactly the packets accepted since the last one, each with its own points; exclusive use of the frame and its slots; no packet lost at a border; no write outside the frame; frames complete; Stop returns |
| life cycle | Start/Stop in any order terminate, nothing is used after it is deleted |
| parsers | one split per revolution, in both directions and across 360 degrees; loss counts match what was lost |
| corrections | an accepted whole file replaces everything the points depend on; the GPU computes from the same entries as the CPU |
| PTC | an answer is one whole reply, of the right command, to this question, as far as the search for the identifier in raw bytes allows; queries and the destructor return |
| logger, pcap saver | everything queued is written once and whole, no wake-up is lost, Stop and close return |
| pcap source | a replay delivers the packets of the file, once, in order, and ends |

## 2. Modules

| module | models | role |
|---|---|---|
| `BoundedQueue` | | abstract bounded deque: what a ring promises |
| `BlockingRing` | `ring.cc`, `blocking_ring.cc` | the circular array with lock and condition variable |
| `BlockingRingProofs` | | proofs about it |
| `FramePipeline` | `Run`, `Stop`, the three kinds of thread of `Lidar`, the frame | the core of the SDK |
| `FramePipelineProofs` | | proofs about it |
| `SdkLifecycle` | `Init`, `Init_thread`, `Start`, `Stop`, entry and gate of `Run`; `Lidar::Init`, `SetThreadNum`, `InitSetPtc`, `~Lidar` | starting and stopping |
| `SdkLifecycleProofs` | | proofs about it |
| `FrameSplit` | `IsNeedFrameSplit` and `DecodePacket` of eleven parsers, the split in `Run` | where frames begin and end |
| `FrameSplitProofs` | | proofs about it |
| `FieldSplit` | the same for `Udp4_3Parser` (AT128), with timeouts | frames of a sensor with three fields |
| `PacketLoss` | `CalPktLoss`, `CalPktTimeLoss` | the packet loss tool |
| `ParserMemoryProofs` | | proofs about `FieldSplit` and `PacketLoss` |
| `Corrections` | loading and use of the angle corrections, twelve parsers | what points are computed from |
| `GpuCorrections` | the GPU parsers' loaders and kernels, `HesaiLidarSdkGpu::Init` | extends `Corrections` by the device tables |
| `CorrectionsProofs` | | proofs about both |
| `PtcClient` | `PtcClient`, `TcpClient`, `TcpSslClient`, the PTC header | questions to the lidar |
| `PtcClientProofs` | | proofs about it |
| `LogQueue` | `Logger` | the log's queue and its writing thread |
| `PcapFiles` | `PcapSaver`, recording in `Lidar`, `PcapSource` | recording and replaying |
| `WritersProofs` | | proofs about `LogQueue` and `PcapFiles` |
| `MCBlockingRing`, `MCFramePipeline`, `MCSdkLifecycle`, `MCPtcClient`, `MCCorrections` | | instances for TLC |
| `MCFrameSplit` | | `FrameSplit`, `FieldSplit` and `PacketLoss` side by side: the memory of the parsers |
| `MCWriters` | | `LogQueue` and `PcapFiles` side by side: the background writers |

`BlockingRing` refines `BoundedQueue`, which is what `FramePipeline` and
`PcapFiles` use in its place; `FrameSplit` and `FieldSplit` refine the choice
whether a packet splits that `FramePipeline` leaves open; `SdkLifecycle`
surrounds `FramePipeline` with the threads that start and stop it and reduces
PTC to whether it opens, which `PtcClient` details; `Corrections` details the
tables of which `SdkLifecycle` says when they are written.

`MCFrameSplit` and `MCWriters` put modules together that share no variable. A
product of them would only multiply states, so each module moves while the
others are in their initial states. This loses nothing: the properties of a
module speak of its own variables only, and its fair actions are not enabled
before its first step.

### BlockingRing

`ring`, `begin`, `size` are the members of `Ring`; `at[t]` says whether thread
`t` is outside, competes for `_mutex` or sleeps in `_condv`. A critical section
is one step. `ReturnAndNotifyOne` picks any sleeper, of either kind, since
producers and consumers share the condition variable. Spurious wake-ups
(`Wake`, external) and the 500 ms timeout may happen at any time; `clear` and
`eff_clear` notify nobody, as in the code. `ImplementsQueue` maps the live slots
to the sequence of `BoundedQueue`.

### FramePipeline

A packet is its arrival number and its kind; a slot of the frame holds the
number of the packet decoded into it and a point entry the number of the packet
it was computed from, so "the right points" is an equation between numbers. The
rings are sequences, which `RingImplementsQueue` justifies; a push is enabled
only when there is room (the code blocks) and a pop only when there is an item
(the code times out and tries again).

* **Receive thread**: `RecvReceive` (source returns), `RecvRoom` (the `full()`
  test), `RecvPut` (the switch; only the first timeout after data is queued),
  `RecvExit`.
* **Run**: `RunGet`, then one of `RunSkip`, `RunData`, `RunSplit`,
  `RunTimeoutSplit`. After a split: `RunComplete` and `RunReset` (the two halves
  of `ComputeXYZIComplete`, because other threads run between them),
  `RunPublish`, `RunUpdate`, `RunRedecode`. When the slots are used up:
  `RunClear`, `RunClearHandles`, `RunDiscard`.
* **Workers**: `ParserPop`, then `ParserCompute`/`ParserCount` (fewer than two
  threads) or `ParserLock`/`ParserPush`; per HandleThread `HandleFront`,
  `HandlePop`, `HandleCompute`, `HandleCount`. `pop_front` on a `std::list`
  emptied by another thread is undefined behaviour: the model sets `corrupted`
  and says nothing about what follows.
* **Stop**: `Stop`, `StopJoinRun`, `StopJoinLidar`.

What a packet contains (whether DecodePacket accepts it, whether it splits) is
the sensor's choice and nondeterministic: `RunSkip` also stands for the paths
on which `DecodePacket` returns 0 without storing a packet (the parser is being
created, the packet-loss tool), where Run finds `packet_num = packet_index` and
does nothing. `accepted` and `base` are history variables for the properties.
`points` distinguishes header fields zeroed by `Update` (`per_points_num = 0`
stands for all of them): a worker that runs then computes nothing.

Assumptions on the constants of `FramePipeline`: a frame has more than one slot and fewer than the
rings have places (5000 and 36000 in `lidar_types.h`).

### SdkLifecycle

The application, the init thread, Run and the Lidar's threads, each at a place
of its own. `app` walks through Init, Start and the three parts of Stop; while
`~Lidar` joins its threads `app` is the name of the one it waits for, so that
threads the init thread starts behind its back are missed as in the code.
`init` walks through `Init_thread` and `Lidar::Init`: `InitSetThreads` and
`InitNewThreads` (the lowering and the raising of `running_` in `SetThreadNum`),
`InitPtc`, `InitFirstPacket`/`InitParser` (the loop that waits for a packet the
dispatch knows), `InitWaitPtc`, `InitLoad` (either way of getting the tables may
fail), `InitCloud`, `InitAll`. `InitUsesFreed` is a step of the init thread in a
Lidar that Stop has deleted: undefined behaviour, `corrupted` is set and the
model stops. `StopMoments` says when the application calls Stop: before Start
has returned (which is also `~HesaiLidarSdk` on another thread's Start), after
it, or after a callback. What Run does with packets is abstracted to the gate
(`RunPoint`), a fault message (`RunFault`) and a decode that may publish.

### FrameSplit

`FramePipeline` leaves it to chance whether a packet splits the frame; this
module is about the decision. A packet is reduced to the field the parser
compares (`mark`: azimuth, frame ID or column), `last` and `last_last_azimuth_`
are what DecodePacket remembers. Six parsers share the azimuth logic
(`IsNeedFrameSplit`, `DecodeByAzimuth`), four compare frame IDs, one columns; each
has its DecodePacket here. The sensor is external: it turns in one direction or
numbers its scans, and packets are lost between any two. `turn` counts what it
really did, so the properties compare the parser's frames with the truth.
The azimuth parsers need two remembered azimuths; they start with zeros, not
with the -1 that they test for, so what happens to the first two packets is
left open (`settled`). `RunDecode` and `RunSplit` are the two places where Run
decodes.

### FieldSplit

The AT128 sweeps three fields in turn; `Azimuth(f, p)` places them on the
circle, `Spacing` apart and `Width` wide. `field` and `place` are the truth,
`last_azimuth_` and `use_angle_` what `Udp4_3Parser` keeps of it. `FieldPacket` is
the next packet that arrives: any number before it, whole fields included, may
be lost, as long as consecutive packets of one field are no jump apart. A
timeout may come at any time (`TimeoutPacket`), is reported once until data
arrives (`is_timeout_` of the receiving thread), and splits near the end of a
field only. Assumed of the sensor: after a timeout within the acceptance angle of
a field's end nothing more comes of that field (`over`).

### PacketLoss

`got`, `latest` and `first` are what really arrived; numbers are taken modulo
`SeqRange` (2^32 in the code), so the wrap-around and the intermediate count
below zero of overtaken packets are in the model. `LossAgain` is the second
decoding of a splitting packet. All eight combinations of the three switches are
initial states. `zeroed` remembers that a `start_seqnum` was 0, which the code
takes for "not started"; `swapped` that a packet was overtaken, after which
`total_packet_count_`, which adds forward steps only, is no longer the number sent.

### Corrections and GpuCorrections

A table is a function from cells (one per channel, plus the few scalar ones) to
the number of the load that wrote it, `None` or `Junk`; a file is its format, version,
number of channels and of mirrors, and which of its lines are good. A loader is the set of
cells it writes and when it refuses, with what it has stored until then; a
`ComputeXYZI` or a kernel is the set of cells it reads. The loads are those of
`Lidar::Init` (the lidar's answer, then the file), of the GPU driver's `Init`
(its own questions, then the file) and of the application afterwards. A flag
that no constructor initialises starts as either value. The mirrors of version 4
of the ET files are cells of their own, so a file with fewer of them leaves the
entries of an older one; such a file is not `Whole`. The adjustment tables are
one cell: how long they are, and the turns of a frame, are left out.

`GpuParser` is `SetLidarType`: the driver hands it what the CPU parser decoded as
its type, and "ET25", the type of `Udp2_6`, gets the kernel of `Udp2_5`. `Udp2_6`
counts channels within a sequence (`SeqChannels` of them), the kernel over the whole
packet (`Beyond`). `flaky` is a lidar that may answer one question and not the
next; `had` remembers what Init had to load. Points of second returns, which the
CPU computes for `Udp2_6` and no kernel does, read the same entries and are not
told apart.

### PtcClient

Replies are sequences of bytes. A byte is what `QueryCommand` may make of it: does
it equal the first or the second identifier byte (`look`), and what would it say
if it stood where the fields of a header are (`says`). The lidar chooses the
payload freely (`Answers`), so payloads can contain headers of replies nobody sent,
or begin with the second identifier byte behind fields that end in the first;
the search of line 188 in raw bytes (`HeaderAt`) finds these like any other. Each
byte also carries, for the properties only, its place in the reply it is part of
and the question, command and length of that. The ghost `plain` says that on this
connection nothing but the beginnings of replies looks like a header, `clean` that
every reply to an earlier query was read to its end. TCP hands any prefix to `Receive`, TLS what was asked for. The lidar
(external) answers any request late, refuses it, or goes away; `RecvTimeout`
leaves the reply in the stream on TCP and closes on TLS. The opening thread
retries; `Send` reopens a closed connection without timeouts, as in the code. On
Linux `SOCKET` is unsigned and `SSL_connect` is compared with 0, so a failed open
may count as one that worked (`SslOpens`). The setters return `QueryCommand`'s int as a
bool, true for failure (`SetterReturns`), see the findings.

### LogQueue and PcapFiles

`LogQueue`: callers push under `mutex_` and notify after it; `threadfunc` is at
"loop", "lock", "head" (holds the mutex), "tested" (found the queue empty and
`exit_` clear, still holds it), "asleep" or "awake". `Stop` writes `exit_` without the
mutex. `exit_` is never cleared, so a second `Start` gets a thread that ends at
once. Whether the level and target rules let the message of `Start` into the
queue is left open (`StartLogs`).

`PcapFiles`: a file is a sequence of pieces, a record's header and its bytes being
two pieces because they are two writes, so that the j-th record of a file is its
pieces 2j and 2j + 1. The receiving thread tests
`is_record_pcap_` and dumps in two steps; the dumping thread tests
`dumping_blocked_`, takes a packet and writes its two pieces in four. The
application starts and stops recordings, dumps TCP segments, saves single packets;
opening may fail, the process may die at any point, leaving any prefix, torn or
not.

`TcpDump` sets `dumping_blocked_`, sleeps for 100 ms and writes its two pieces. The
sleep is no guard of the model: the dumping thread may have tested the flag
before and be held up for any time. While both are at `ofs_`, which no lock
protects, a piece lands as it is or garbled (`Lands`; a garbled piece stands for any
bytes, also for none). `risky` is a ghost: the packets the dumping thread was at
when a `TcpDump` began.

`PcapSource` then reads a file, or one from elsewhere with other link layers,
protocols and sizes. From the first place on where records and their bytes are
out of step (`InStep`) what it reads is summarised as the rest of a torn record.

## 3. Runs

| run | instance | shows |
|---|---|---|
| `ring` | 2 slots, 1 producer, 1 consumer, every operation, clear, fair | types, refinement of `BoundedQueue`; only clear can leave somebody asleep; blocked pushes complete |
| `pipeline` | 4 slots, 2 HandleThreads, all packet kinds, 4 packets, fair | complete frames, exclusive frame and slots, no packet lost, lists protected by their mutexes, frames complete, Stop returns |
| `pipeline_overflow` | 2 slots, 2 HandleThreads, a sensor that does not split, 5 packets | no write outside the frame, no limit reached |
| `lifecycle_pcap` | recorded file, 4 CPUs, 2 HandleThreads, 3 packets, 2 rounds, Stop after a callback, fair | no use of a freed Lidar, Stop returns |
| `lifecycle_lidar` | live lidar whose PTC may never open, Stop after Start or a callback, fair | threads joined; tables not written while Run decodes; Run gets going |
| `frame_split` | circle of 9, steps up to 4, every start, both directions, 8-bit IDs cut to 4 values, 4 turns; 7 fields of 6 places; 8 packets with numbers modulo 5 | one frame per revolution, scan or field, direction recognised, losses counted |
| `ptc_client` | TCP and TLS, 3 questions of 2 commands, payloads up to 4 bytes with and without headers in them, fair | answers are whole, of the right command and to this question; queries and destructor return |
| `corrections` | 12 parsers, 11 with a kernel, 2 channels, 2 sequences, 2 mirrors, every kind of file, up to 3 loads, a lidar that answers or not | whole files replace everything; GPU and CPU read the same, or the GPU one load |
| `writers` | 2 callers, 4 messages, 2 starts; cache of 1, 2 packets, 3 calls, crash, foreign files of 2 records, fair | records whole, each packet recorded once, replay faithful and ending, destructor returns, no lost wake-up but Stop's, messages written |
| `overflow_publish`, `stop_race`, `corrections_unloaded` | | findings, see below |

Bounds. Two slots make a ring wrap after three operations and be full and
empty in between; refinement for more threads is proved. `MaxPackets` = 4 with
frames of up to three packets gives a complete frame and the
beginning of the next, so state that survives a frame border shows; two
HandleThreads are the smallest pool for which indices are spread and finish out
of order, and frames of three packets give one of them two. `MaxFramePackets` is
the longest frame the sensor sends: below `kMaxPacketNumPerFrame` the overflow
path is unreachable, at it it is taken. The proofs remove the other bounds.
Two rounds of Init and Stop show what one leaves to the next (`is_thread_runing_`
is not reset by Init). A step of 4 on a circle of 9 is the largest the
assumption `2 * MaxStep < Circle` allows; four turns let every remembered azimuth
come from a settled frame. Seven fields are two rounds of the three and the
beginning of a third, so that a field that is missed and its neighbour have the
same place again; a width of 6 with a tolerance of 3 and an acceptance of 2 keeps
the order of the real values (7625, 1000 and 200 hundredths of a degree). Eight packets
with numbers modulo 5 wrap once and leave room for an overtaken packet on either
side. Three questions let a late reply meet a question of the same and of
another command; a payload of four bytes holds a header and one byte behind it,
and a shorter one the two halves of a split identifier. Two channels and three loads
are a previous file, a refused one and the next; with two sequences `Udp2_6` has one
channel less than its kernel reads, and two mirrors allow a file with one. A cache of one packet is full
at once, so every `Dump` can block; two packets and three calls allow a
recording that is stopped, a packet left behind and a second recording, and a
`TcpDump` between the pieces of one packet with another in the cache. Deadlock checking is off only where the system really
can come to a halt: Run with sensors that overflow the frame, the life cycle,
where the application may be done and Init may wait for a packet nobody sends,
and the modules whose sensors, files, questions or calls are used up at a bound.

Fairness. Every thread keeps being scheduled (weak fairness of each thread's
steps); the source owes no packet and the application no Stop. A `std::mutex`
is assumed to be granted in the end to a waiting ParserThread: a HandleThread
whose list is empty locks and unlocks in a tight loop, and those empty rounds
are not steps of the model. In `BlockingRing` the timeout of `wait_for` is
strongly fair because its deadline is absolute. In `PtcClient` a timeout that has
been set expires and the client's threads run, but no connection ever has to
succeed, the lidar owes no answer and a TLS handshake may take for ever, which is
why `DestructorReturns` is claimed for TCP. In `LogQueue` and `PcapFiles` the
background threads run and calls proceed; nobody has to log, record or stop, and
no spurious wake-up may be relied on.

### Findings

When a frame uses up its slots before any packet splits it
(`hesai_lidar_sdk.hpp` 269-277) Run empties the queues and resets the frame, but
not `compute_packet_num`, and takes no mutex:

* `overflow_publish`: the old count completes the next frame early and it is
  published with points of discarded packets. Once the count is past
  `packet_index`, Run waits for equality for ever, and Stop with it, because that
  wait does not look at `is_thread_runing_`.
* In the same path `ClearPacketBuffer` empties the handle lists without their
  mutexes; `HeldListStable` is therefore claimed for sensors that split in time.

With 5000 slots this needs a sensor or a configuration in which no split is
recognised for 5000 packets, which the code expects to happen: it has the path
and logs "fail to start a new frame".

Starting and stopping:

* `stop_race`: Run raises `is_thread_runing_` as its first action; a Stop right
  after Start may have cleared it before, and then waits for ever. After a
  callback (`lifecycle_pcap`) Stop is safe.
* `SetThreadNum` limits the threads to CPUs - 2. With two CPUs that is the
  initial count 0, the early return is taken and no thread starts at all
  (`ThreadsStarted` proves the other cases).

Splitting:

* A sensor that turns backwards past 360 degrees onto exactly
  the start azimuth gets no new frame (`start > azimuth` where the case without a
  jump has `azimuth <= start`); with start 0, which is also what a start out of
  range is taken for, a packet at exactly 0 gets two. `frame_split` and the
  theorems therefore exclude packets exactly at the start, for reversed sensors
  only (`MayMeetStart`).
* The loss tool counts a time loss at every split, because the splitting packet
  is decoded twice; `LossesCounted` allows exactly these. It also starts anew when
  `start_seqnum` is 0, which is a legal number (`zeroed`).

Corrections:

* `corrections_unloaded`: `Udp2_5Parser` (and `Udp2_6Parser`) hands a binary file
  it has refused to its `.csv` reader, which finds no lines, reports success and
  sets `get_correction_file_`; packets are parsed from entries nothing has set,
  although the change notes say that they are refused.
* `Udp7_2ParserGpu::LoadCorrectionString` tests the binary loader the wrong way
  round: a refused reply counts as loaded and the file is never tried.
  `GpuComputesLikeCpu` excepts this case (`Deaf`).
* `SetLidarType` gives `Udp2_6` the kernel of `Udp2_5`, which takes
  `ichannel % laser_num` for the channel where the CPU uses `chn_index`: the entries are
  loaded from the same file, but points of the second and later sequences are
  computed from those of other channels or of none. `GpuComputesLikeCpu` excepts
  exactly the entries that only the kernel reads (`Beyond`).
* If the lidar answers only some of the questions, decoder and kernel may work on
  different files. What is claimed then is that the kernel's tables are complete
  and of one load.

Writers, where the passing properties have their limits:

* `Stop` of the logger can come between the test of `exit_` and the wait; its
  notification is then missed and `~Lidar` joins a sleeping thread. `OnlyStopMisses`
  shows that nothing else is. After `Stop` the logger never writes again.
* Nothing but a sleep keeps `TcpDump` out of a packet that the dumping thread has in
  hand. `RecordsWhole` and `RecordedOnce` except that one packet (`risky`): it may be
  split, garbled or lost, and the segment beside it; every other record is whole.
* `StartRecordPcap` drops the result of `Save`: if the file cannot be opened,
  packets are queued with nobody to write them and the receiving thread blocks
  when the cache is full. `DestructorReturns` is claimed for recordings that run.
* The replay of a recording whose end is torn off never reaches `is_pcap_end`, and
  the return values 1 and 2 of `next` are taken for lengths of packets.

PTC:

* A query that times out on TCP leaves its reply in the stream, where the next
  one with the same command takes it for its own; a refused reply leaves its
  payload, on TLS too. `AnswerIsOwn` is claimed for connections on which every
  earlier reply was read to its end (`clean`) and, on TLS, where nothing looks like a
  header that is none (`plain`).
* A header is searched for in raw bytes and only inside one received piece. When
  the identifier of a reply is cut in two the search goes on in its payload, and
  leftovers of a payload are searched like anything else: bytes that look like
  a header are then taken for one and the answer is a part of a payload.
  `OneReplyPerAnswer` is claimed for connections without such bytes and, on TLS, where
  reads are not cut, for clean ones with any.
* A connection reopened by `Send` has no timeouts, so `TimedQueryReturns` speaks of
  sockets that have them.
* `ptc_client.h` 107-108 (and the other setters) says "@return true Set successful";
  the setters return the int of `QueryCommand` as a bool, which is true when it
  failed. The callers in `lidar.cc` (230, 237) negate it and so agree with the code.
  No property depends on which of the two is meant.

Two limits of the passing runs belong to the code: with a live lidar Stop frees
the Lidar while the init thread may still wait for PTC in it, so `LidarAlive` is
claimed for the other sources only; and a Stop before Start has returned can meet
`SetThreadNum`, which raises `running_` again and starts threads that `~Lidar`
has already passed, so `ThreadsJoined` and `ExitSticks` are claimed for
applications that stop later (`"inited"` not in `StopMoments`).

## 4. Proofs

Checked by TLAPS for all values of the constants.

| theorem | statement |
|---|---|
| `RingTypeCorrect`, `RingImplementsQueue` | types; the ring implements the deque |
| `PairMissesOnlyClears` | one producer, one consumer: `OnlyClearMisses` |
| `PipelineTypeCorrect`, `DecodeStaysInBounds` | any sensor: types, and no decode outside the frame |
| `PipelineSafe` | sensor splits in time: `PublishedComplete`, `FrameOwnership`, `SlotPrivate`, `NoLimitReached`, `NoPacketLost`, `HeapIntact` |
| `FrameIsOwned`, `SlotsArePrivate`, `PacketsAreKept`, `LimitsAreFar` | the parts of it that the runs check, one by one |
| `ListsProtected` | sensor splits in time: `HeldListStable` |
| `LifecycleTypeCorrect`, `TablesWrittenBeforeUse` | any application: types, `TablesQuiet` |
| `ReleasedWhenQuiet`, `ExitIsFinal` | application stops after Start: `ThreadsJoined`, `ExitSticks` |
| `NoUseAfterStop` | the same, source not a live lidar: `LidarAlive` |
| `ThreadsStarted` | the same, clamped thread number not 0: `InitStartsThreads` |
| `SplitTypeCorrect`, `DirectionIsFound` | types; `DirectionFound` |
| `OneFramePerTurn`, `SplitsAreNewTurns` | reversed sensor never exactly at the start: `FrameIsOneTurn`, `SplitIsNewTurn` |
| `OneFieldPerFrame` | fields farther apart than the tolerance: `FrameIsOneField` |
| `LossesAreCounted` | any range of sequence numbers, losses and reordering: `LossesCounted` |
| `PtcTypeCorrect`, `PtcOneReplyPerAnswer`, `PtcAnswerIsOwn` | any commands, payload bound and questions, TCP and TLS, any payloads (lookalikes under the conditions in the properties): `TypeOK`, `OneReplyPerAnswer`, `AnswerIsOwn` |
| `CorrAcceptedIsWhole`, `CorrGpuComputesLikeCpu` | any parser, channels, sequences, mirrors, files and loads: `AcceptedIsWhole`, `GpuComputesLikeCpu` |
| `RecordsAreWhole`, `PacketsRecordedOnce`, `ReplayIsFaithful` | any cache, packets, calls, crashes, no assumption on time: `RecordsWhole`, `RecordedOnce`, `ReplayFaithful` |
| `OnlyStopIsMissed` | any callers: `OnlyStopMisses` |

`PtcInvariant`, `CorrInvariant`, `PcapInvariant` and `LossInvariant` state the inductive
invariants on which the theorems of their modules rest.

The argument for the ring: the live slots, read from `begin`, are the queue's
sequence; each operation of the array is one operation on the sequence. That
needs the invariant that live slots hold items and that callers are in an
operation of their own kind. Modular index arithmetic is reduced to one
subtraction by `WrapOnce`.

The argument for the pipeline: no safety property is inductive, because each
depends on where every index is. `IInv` says

* `Locations`: an index is in exactly one place, and places are ordered. Indices
  in the handle lists are below the one ParserThread holds, which is below those
  in the ring, and all are below `packet_index`;
* `Counting`: `compute_packet_num` plus the number of pending indices is
  `packet_index`, so equality means that nothing is pending (cardinalities, by
  `FiniteSetTheorems`);
* `Frame` and `Computed`: slot by slot the frame is what was accepted, and what
  is not pending has been computed from it;
* `Mutexes`, `Room`: who holds a mutex; the receive thread, the only producer,
  finds the room it saw.

From these, completeness at "publish" is `Counting` then `Computed`. The limits
are never reached because ascending indices below `packet_index` <
`kMaxPacketNumPerFrame` < `kPacketBufferSize` are too few to fill anything. The
assumption `NoOverflow` (`MaxFramePackets < kMaxPacketNumPerFrame`) is needed:
without it the runs above refute the properties. Proofs about types and bounds
do without it.

The argument for the life cycle: `Ownership` ties the existence of the Lidar, of
the init thread and of Run to the application's place. `Progress` says that
whoever has left Start has seen a flag that the init thread sets only after it
has created all threads; `JoinedInOrder` then carries each join of `~Lidar` up to
the release, since nothing can restart a thread. `ThreadsExist` needs the
clamped number to differ from the initial 0.

The argument for splitting: `PassesForward` and `PassesBackward` say in
inequalities what it means to pass the start on a circle; `DirectionFromThree`
that three azimuths less than half a circle apart show the direction, also when
one difference is nearly a whole circle; `SplitIffPassed` puts them together. The
invariant then only has to say that the memory holds the sensor's last two
azimuths (`Remembered`), respectively its last number (`Numbered`).

The argument for the AT128: `Remembered` says that `last_azimuth_` is the azimuth of
the latest packet, `Swept` that the frame is the field being swept while
`use_angle_` is set, and that otherwise that field is over and its frame has been
published. `JumpIffOther` turns the code's comparison of azimuths into "another
field", `EndIsOwn` shows that a timeout that splits is at the end of this field.

The argument for the loss tool: `total_loss_count` is a sum over all packets, but
it has a closed form. `Balance`, the distance from the first to the latest packet
less the packets received after the first, grows by the gap minus one at every
step, also when the step goes back, and the code adds the same number modulo
`SeqRange` (`SeqnumsKept`); so no induction over the packets is needed. When the
latest packet is the newest one `Balance` is the number missing, which lies
between 0 and the distance. Remainders by a variable modulus are beyond the SMT
solver, so `ModAdd`, `ModShift`, `ModMinus` and `ModNear` are proved from the uniqueness
of quotient and remainder. `TimesKept` adds that the last timestamp is not ahead of
the latest packet: a timestamp that does not increase is then a packet that was
overtaken, which has just set `is_packet_loss`, or one decoded twice.

The argument for PTC: `Whole` says that from every byte on its way the rest of its
reply follows without a gap; replies are appended and read from the front only,
so reading any number of bytes keeps it (`WholeLeft`, `WholeJoined`). `Shape` bounds
the two buffers whatever the bytes are, which is enough for the types. `Exact` is the
case in which a header that is found is one: nothing looks like one (`Marks` keeps
that for the bytes on their way), or the connection is a clean TLS one, on which a
query begins to read at the first byte of its reply (`FirstByte`). Then
`HeaderRead` says that what a query has read is a beginning of one reply, `RestComes`
that the stream goes on with the rest of it, unless the link is lost; together they
make an answer one reply. `OwnBytes` says that on a clean connection every byte read
or on its way is of the reply to the waiting query, `OwnReply` that on a plain TLS
connection only that reply begins anywhere; every step that breaks one of them
clears `clean` or empties the stream.

The argument for the corrections: `Keeps` is the promise of a loader, proved for
each of the twelve and, as `GpuKeeps`, for those of the GPU: it leaves a table, it
refuses what it may refuse, and a whole file gives the parser every entry it
reads, under the version by which it decides what to read. `Progress` remembers stage
by stage which reply or file the tables come from, because the GPU driver loads
after the CPU parser and must come to the same choice (`Refused`), unless the lidar
answered one of them only, when `OneLoad` is what remains.

The argument for the files: `Followed` says that in a file every record is followed by
its bytes or one of the two is of a `risky` packet, except that at the end of the last
file somebody may still be to write them (`Unfinished`). `Apart` is why nothing else
is disturbed: while `TcpDump` is at its segment `dumping_blocked_` is set, so the only
packet the dumping thread can be at is the one it was at before, which is in
`risky`. `Numbered` says that the packets in the files (but for risky ones), in the
dumping thread's hand and in the cache are, in this order, the numbers 1 to `dumps`. `Threads` ties the thread to the open file and
says that a thread that has ended leaves only packets that came after
`StopRecordPcap`. `Replaying` counts the records read and compares answer and record
one by one; since what is read in step are pairs of pieces a prefix of a file ends at a
record's border or in its middle, and nowhere else.

The argument for the logger: `LockHeld` says that `threadfunc` holds `mutex_` from
its look at the queue to its wait, so the queue is still empty when it falls
asleep; only `exit_`, which is written without the mutex, can have changed.

Only model-checked: liveness (`PushCompletes`, `FrameCompletes`,
`StopTerminates`, `StopReturns`, `FaultPathOpens`, `TimedQueryReturns`,
`DestructorReturns` of `PtcClient` and of `PcapFiles`, `ReplayEnds`, `MessagesWritten`),
which TLAPS does not handle under fairness. Every invariant, action property and
refinement that a passing run checks is proved, under the hypotheses of the table:
for a sensor that overflows its frame `NoLimitReached` stays with TLC.

## 5. What is left

Extensions of the model, not of its proofs: `SetThreadNum` on a running Lidar, the
setters of single PTC parameters, `Stop` before the first `Init`. Three hazards
have no property: what the logger does for a second Lidar of the process, where
the code simply writes nothing; packets of one scan that arrive in the wrong
order, which the split cannot tell from its end; and the reply that
`Udp7_2ParserGpu` counts as loaded, where the code does go wrong.

## 6. Not modelled

Point coordinates and the values in correction tables (floating point; where
they come from is modelled), firetime corrections, packet layouts
(`UdpProtocol`), the arithmetic of the CUDA kernels, the cryptography of TLS,
platform wrappers, tools and test programs, and `Ring2Dex`/`Ring2DShared`,
which nothing uses. `SetLidarType` of the GPU has no kernel for `Udp2_4` and never
creates the one of `Udp2_6`. `CreatGeneralParser` itself is a table from version
bytes to classes. Data races on plain `bool` flags (`running_`,
`is_thread_runing_`) are modelled as atomic reads and writes; the race on `ofs_` as the
pieces that `Lands` allows, without what it could do to pieces already buffered.

Risks seen while reading that no model reaches, beside the hazards in
`PROJECT.json`:

* `ptc_client.cc:350`: `GetLidarStatus` takes 49 bytes from a reply of any length;
  `ptc_client.h:82`: `IsOpen` dereferences `client_`, which another thread creates.
* `udp_parser_gpu.cu:179` drops the error code of `ComputeXYZI`, so a frame without
  tables is published with older points; `udp1_4_parser_gpu.cu:125` and the like
  ignore every load after the first, so that a reload reaches the decoder only.
* Lengths and angles: `udp4_7_parser_gpu.cu:70` (a table that begins at 20 degrees is
  used from 2 on), `udp2_5_parser.cc:184` (a length from the file is not checked),
  `pcap_saver.cc:90` (packets above 1458 bytes), `udp_parser.cc:371` (index
  `packet_num - 1`).
* `udp_parser.cc:298` creates the pcap saver on first use without a lock;
  `general_parser.cc:44` starts the remembered azimuths at 0 and not at the -1 that
  is tested for, so the first two packets are left open in `FrameSplit`.
