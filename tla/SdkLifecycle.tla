---------------------------- MODULE SdkLifecycle ----------------------------
(***************************************************************************)
(* Starting and stopping the SDK: HesaiLidarSdk::Init, Init_thread, Start, *)
(* the entry and the gate of Run, Stop; Lidar::Init, SetThreadNum,         *)
(* InitSetPtc and ~Lidar.                                                  *)
(*                                                                         *)
(* The application is one thread.  Init returns at once and leaves the     *)
(* work to the init thread; Start polls init_finish_ until Run may begin.  *)
(* What Run and the worker threads do with packets is FramePipeline's      *)
(* subject; here a packet only creates the parser or passes Run's gate.    *)
(* enable_udp_thread and enable_parser_thread have their default, true.    *)
(***************************************************************************)
EXTENDS Integers, FiniteSets

CONSTANTS
  source_type,   \* "lidar", "pcap" or "other" (packets fed by the application)
  thread_num,    \* decoder_param.thread_num
  CPUs,          \* GetAvailableCPUNum()
  StopMoments,   \* when the application calls Stop: see StopAllowed
  MaxPackets,    \* bound: packets the source delivers to one Lidar
  MaxRounds      \* bound: how often the application calls Init

ASSUME LifecycleAssumption ==
  /\ source_type \in {"lidar", "pcap", "other"}
  /\ thread_num \in Int
  /\ CPUs \in Nat \ {0}
  /\ StopMoments \subseteq {"inited", "started", "called"}
  /\ MaxPackets \in Nat
  /\ MaxRounds \in Nat

Threads == {"receive", "parser", "handle", "setPtc"}
InitStatus == {"FaultMessParse", "PtcInitFinish", "PointCloudParse", "AllInitFinish"}

VARIABLES
  app,                  \* where the application is; a thread's name: ~Lidar joins it
  rounds,               \* calls of Init so far
  lidar,                \* "none", "alive", "destroying" (in ~Lidar), "freed"
  init,                 \* where the init thread is
  init_finish_,         \* the flags that are set
  running_,
  threads,              \* the Lidar's threads: "none", "alive", "exited"
  handle_thread_count_,
  hasParser,            \* GetParser() != nullptr
  get_correction_file_, \* the parser has correction data
  ptcOpen,              \* ptc_client_->IsOpen()
  origin,               \* number of packets in origin_packets_buffer_
  delivered,            \* packets the source has delivered
  is_thread_runing_,
  run,                  \* where Run is
  called,               \* the application has been called back
  corrupted             \* freed memory has been used

lidarVars == <<init_finish_, running_, threads, handle_thread_count_, hasParser,
               get_correction_file_, ptcOpen, origin, delivered>>
sdkVars == <<is_thread_runing_, run, called>>
vars == <<app, rounds, lidar, init, lidarVars, sdkVars, corrupted>>

-----------------------------------------------------------------------------
\* Mutant: the ring is popped without looking.
GetOnePacketUnchecked == origin' = origin - 1

\* GetOnePacket succeeds, for the init thread or for Run.
GetOnePacket == origin > 0 /\ origin' = origin - 1

-----------------------------------------------------------------------------
(* The application *)

\* new Lidar, new init thread.
AppInit ==
  /\ app \in {"new", "stopped"} /\ rounds < MaxRounds
  /\ app' = "inited"
  /\ rounds' = rounds + 1
  /\ lidar' = "alive"
  /\ init' = "enter"
  /\ init_finish_' = {}
  /\ running_' = TRUE
  /\ threads' = [t \in Threads |-> "none"]
  /\ handle_thread_count_' = 0
  /\ hasParser' = FALSE /\ get_correction_file_' = FALSE /\ ptcOpen' = FALSE
  /\ origin' = 0 /\ delivered' = 0
  /\ called' = FALSE
  /\ UNCHANGED <<is_thread_runing_, run, corrupted>>

\* Mutant: every source has to be initialised completely.
MayStartLate == "AllInitFinish" \in init_finish_

\* Mutant: every source may start with the parser.
MayStartEarly == "FaultMessParse" \in init_finish_

MayStart == \/ source_type = "lidar" /\ "FaultMessParse" \in init_finish_
            \/ "AllInitFinish" \in init_finish_

\* The poll of Start that succeeds; the others only sleep.
AppStart ==
  /\ app = "inited"
  /\ MayStart
  /\ run' = "enter"
  /\ app' = "started"
  /\ UNCHANGED <<rounds, lidar, init, lidarVars, is_thread_runing_, called, corrupted>>

StopAllowed ==
  \/ app = "inited" /\ "inited" \in StopMoments    \* or ~HesaiLidarSdk
  \/ app = "started" /\ "started" \in StopMoments
  \/ app = "started" /\ "called" \in StopMoments /\ called

\* Stop: a thread that exists is told to end ...
StopRun ==
  /\ StopAllowed
  /\ app' = IF run = "none" THEN "delete" ELSE "joinRun"
  /\ is_thread_runing_' = IF run = "none" THEN is_thread_runing_ ELSE FALSE
  /\ UNCHANGED <<rounds, lidar, init, lidarVars, run, called, corrupted>>

\* ... and joined,
StopJoinRun ==
  /\ app = "joinRun" /\ run = "exit"
  /\ run' = "none"
  /\ app' = "delete"
  /\ UNCHANGED <<rounds, lidar, init, lidarVars, is_thread_runing_, called, corrupted>>

\* Mutant: ~Lidar leaves running_ as it is.
StopDeleteQuiet ==
  /\ app = "delete"
  /\ lidar' = "destroying"
  /\ app' = "receive"
  /\ UNCHANGED <<rounds, init, lidarVars, sdkVars, corrupted>>

\* delete lidar_ptr_: ~Lidar tells its threads to end ...
StopDelete ==
  /\ app = "delete"
  /\ running_' = FALSE
  /\ lidar' = "destroying"
  /\ app' = "receive"
  /\ UNCHANGED <<rounds, init, init_finish_, threads, handle_thread_count_,
                 hasParser, get_correction_file_, ptcOpen, origin, delivered,
                 sdkVars, corrupted>>

\* Mutant: the HandleThreads are not joined.
DestructorJoinsFew(t) == t # "handle"

\* if (handle_thread_count_ > 1); the others it joins if they exist.
DestructorJoins(t) == t = "handle" => handle_thread_count_ > 1

AfterJoin == [receive |-> "parser", parser |-> "setPtc", setPtc |-> "handle", handle |-> "free"]

\* ... joins them one after the other ...
StopJoin(t) ==
  /\ app = t
  /\ DestructorJoins(t) => threads[t] # "alive"
  /\ app' = AfterJoin[t]
  /\ UNCHANGED <<rounds, lidar, init, lidarVars, sdkVars, corrupted>>

\* ... and frees the parser, the PTC client, the source and itself; lidar_ptr_
\* is null.
StopFree ==
  /\ app = "free"
  /\ lidar' = "freed"
  /\ app' = "joinInit"
  /\ UNCHANGED <<rounds, init, lidarVars, sdkVars, corrupted>>

\* The init thread is joined last.
StopJoinInit ==
  /\ app = "joinInit" /\ init = "done"
  /\ init' = "none"
  /\ app' = "stopped"
  /\ UNCHANGED <<rounds, lidar, lidarVars, sdkVars, corrupted>>

-----------------------------------------------------------------------------
(* The init thread: Init_thread and Lidar::Init *)

\* if (nullptr != lidar_ptr_) lidar_ptr_->Init(param_): the logger, the source.
InitEnter ==
  /\ init = "enter"
  /\ init' = IF lidar = "freed" THEN "done" ELSE "setThreads"
  /\ UNCHANGED <<app, rounds, lidar, lidarVars, sdkVars, corrupted>>

\* SetThreadNum leaves two CPUs to others.
ClampedThreadNum == IF thread_num > CPUs - 2 THEN CPUs - 2 ELSE thread_num

SameThreadNum == handle_thread_count_ = ClampedThreadNum

\* Nothing to do, or running_ goes down to end the old threads ...
InitSetThreads ==
  /\ init = "setThreads" /\ lidar # "freed"
  /\ init' = IF SameThreadNum THEN "ptc" ELSE "newThreads"
  /\ running_' = IF SameThreadNum THEN running_ ELSE FALSE
  /\ UNCHANGED <<app, rounds, lidar, init_finish_, threads, handle_thread_count_,
                 hasParser, get_correction_file_, ptcOpen, origin, delivered,
                 sdkVars, corrupted>>

\* ... which there are none of yet, up again, and the new ones start.
InitNewThreads ==
  /\ init = "newThreads" /\ lidar # "freed"
  /\ running_' = TRUE
  /\ handle_thread_count_' = ClampedThreadNum
  /\ threads' = [threads EXCEPT !["receive"] = "alive", !["parser"] = "alive",
                   !["handle"] = IF ClampedThreadNum > 1 THEN "alive" ELSE "none"]
  /\ init' = "ptc"
  /\ UNCHANGED <<app, rounds, lidar, init_finish_, hasParser, get_correction_file_,
                 ptcOpen, origin, delivered, sdkVars, corrupted>>

\* A live lidar gets a PtcClient and the thread that runs InitSetPtc.
InitPtc ==
  /\ init = "ptc" /\ lidar # "freed"
  /\ threads' = IF source_type = "lidar" THEN [threads EXCEPT !["setPtc"] = "alive"]
                                         ELSE threads
  /\ init' = "parser"
  /\ UNCHANGED <<app, rounds, lidar, init_finish_, running_, handle_thread_count_,
                 hasParser, get_correction_file_, ptcOpen, origin, delivered,
                 sdkVars, corrupted>>

\* while (GetParser() == nullptr && running_): a packet the dispatch knows
\* creates the parser, any other is forgotten.
InitFirstPacket ==
  /\ init = "parser" /\ lidar # "freed"
  /\ ~hasParser /\ running_
  /\ GetOnePacket
  /\ hasParser' \in BOOLEAN
  /\ UNCHANGED <<app, rounds, lidar, init, init_finish_, running_, threads,
                 handle_thread_count_, get_correction_file_, ptcOpen, delivered,
                 sdkVars, corrupted>>

\* Without a parser Init gives up; with one FaultMessParse is set.
InitParser ==
  /\ init = "parser" /\ lidar # "freed"
  /\ hasParser \/ ~running_
  /\ init' = IF hasParser THEN "waitPtc" ELSE "all"
  /\ init_finish_' = IF hasParser THEN init_finish_ \cup {"FaultMessParse"} ELSE init_finish_
  /\ UNCHANGED <<app, rounds, lidar, running_, threads, handle_thread_count_,
                 hasParser, get_correction_file_, ptcOpen, origin, delivered,
                 sdkVars, corrupted>>

\* A live lidar is asked for its correction data over PTC.
InitWaitPtc ==
  /\ init = "waitPtc" /\ lidar # "freed"
  /\ source_type = "lidar" => ptcOpen \/ ~running_
  /\ init' = "load"
  /\ UNCHANGED <<app, rounds, lidar, lidarVars, sdkVars, corrupted>>

\* The tables are written, from PTC or from the file; both may fail.
InitLoad ==
  /\ init = "load" /\ lidar # "freed"
  /\ get_correction_file_' \in BOOLEAN
  /\ init' = "cloud"
  /\ UNCHANGED <<app, rounds, lidar, init_finish_, running_, threads,
                 handle_thread_count_, hasParser, ptcOpen, origin, delivered,
                 sdkVars, corrupted>>

InitCloud ==
  /\ init = "cloud" /\ lidar # "freed"
  /\ init_finish_' = init_finish_ \cup {"PointCloudParse"}
  /\ init' = "all"
  /\ UNCHANGED <<app, rounds, lidar, running_, threads, handle_thread_count_,
                 hasParser, get_correction_file_, ptcOpen, origin, delivered,
                 sdkVars, corrupted>>

\* Back in Init_thread: set whatever Lidar::Init returned.
InitAll ==
  /\ init = "all" /\ lidar # "freed"
  /\ init_finish_' = init_finish_ \cup {"AllInitFinish"}
  /\ init' = "done"
  /\ UNCHANGED <<app, rounds, lidar, running_, threads, handle_thread_count_,
                 hasParser, get_correction_file_, ptcOpen, origin, delivered,
                 sdkVars, corrupted>>

\* The init thread goes on in a Lidar that is gone.
InitUsesFreed ==
  /\ init \notin {"none", "enter", "done"} /\ lidar = "freed"
  /\ corrupted' = TRUE
  /\ UNCHANGED <<app, rounds, lidar, init, lidarVars, sdkVars>>

-----------------------------------------------------------------------------
(* The Lidar's threads *)

\* The source delivers a packet and the receive thread queues it.
Receive ==
  /\ threads["receive"] = "alive" /\ running_
  /\ delivered < MaxPackets
  /\ delivered' = delivered + 1
  /\ origin' = origin + 1
  /\ UNCHANGED <<app, rounds, lidar, init, init_finish_, running_, threads,
                 handle_thread_count_, hasParser, get_correction_file_, ptcOpen,
                 sdkVars, corrupted>>

\* while (running_) ends.
ThreadExit(t) ==
  /\ threads[t] = "alive" /\ ~running_
  /\ threads' = [threads EXCEPT ![t] = "exited"]
  /\ UNCHANGED <<app, rounds, lidar, init, init_finish_, running_,
                 handle_thread_count_, hasParser, get_correction_file_, ptcOpen,
                 origin, delivered, sdkVars, corrupted>>

\* TryOpen succeeds; nobody knows when.
PtcOpens ==
  /\ threads["setPtc"] # "none" /\ lidar = "alive" /\ ~ptcOpen
  /\ ptcOpen' = TRUE
  /\ UNCHANGED <<app, rounds, lidar, init, init_finish_, running_, threads,
                 handle_thread_count_, hasParser, get_correction_file_, origin,
                 delivered, sdkVars, corrupted>>

\* InitSetPtc finds the connection, configures the lidar and ends.
InitSetPtc ==
  /\ threads["setPtc"] = "alive" /\ running_ /\ ptcOpen
  /\ init_finish_' = init_finish_ \cup {"PtcInitFinish"}
  /\ threads' = [threads EXCEPT !["setPtc"] = "exited"]
  /\ UNCHANGED <<app, rounds, lidar, init, running_, handle_thread_count_,
                 hasParser, get_correction_file_, ptcOpen, origin, delivered,
                 sdkVars, corrupted>>

-----------------------------------------------------------------------------
(* Run *)

\* The first thing Run does.
RunEnter ==
  /\ run = "enter"
  /\ is_thread_runing_' = TRUE
  /\ run' = "loop"
  /\ UNCHANGED <<app, rounds, lidar, init, lidarVars, called, corrupted>>

RunExit ==
  /\ run = "loop" /\ ~is_thread_runing_
  /\ run' = "exit"
  /\ UNCHANGED <<app, rounds, lidar, init, lidarVars, is_thread_runing_, called, corrupted>>

\* A fault message is passed on at once.
RunFault ==
  /\ run = "loop" /\ is_thread_runing_
  /\ GetOnePacket
  /\ called' = TRUE
  /\ UNCHANGED <<app, rounds, lidar, init, init_finish_, running_, threads,
                 handle_thread_count_, hasParser, get_correction_file_, ptcOpen,
                 delivered, is_thread_runing_, run, corrupted>>

\* Mutant: the gate is open as soon as there is a parser.
GateOpenEarly == "FaultMessParse" \in init_finish_

\* if (!init_finish_[PointCloudParse]) continue;
GateOpen == "PointCloudParse" \in init_finish_

\* A point cloud packet is decoded behind the gate and forgotten before it.
RunPoint ==
  /\ run = "loop" /\ is_thread_runing_
  /\ GetOnePacket
  /\ run' = IF GateOpen THEN "decode" ELSE "loop"
  /\ UNCHANGED <<app, rounds, lidar, init, init_finish_, running_, threads,
                 handle_thread_count_, hasParser, get_correction_file_, ptcOpen,
                 delivered, is_thread_runing_, called, corrupted>>

\* DecodePacket reads the tables; without them it refuses.  With them a frame
\* may be complete and be published.
RunDecode ==
  /\ run = "decode"
  /\ called' \in {called, get_correction_file_ \/ called}
  /\ run' = "loop"
  /\ UNCHANGED <<app, rounds, lidar, init, lidarVars, is_thread_runing_, corrupted>>

-----------------------------------------------------------------------------
Init ==
  /\ app = "new" /\ rounds = 0 /\ lidar = "none" /\ init = "none"
  /\ init_finish_ = {} /\ running_ = FALSE
  /\ threads = [t \in Threads |-> "none"]
  /\ handle_thread_count_ = 0
  /\ hasParser = FALSE /\ get_correction_file_ = FALSE /\ ptcOpen = FALSE
  /\ origin = 0 /\ delivered = 0
  /\ is_thread_runing_ = FALSE /\ run = "none" /\ called = FALSE
  /\ corrupted = FALSE

StopStep ==
  \/ StopJoinRun \/ StopDelete \/ (\E t \in Threads : StopJoin(t)) \/ StopFree
  \/ StopJoinInit

InitStep ==
  \/ InitEnter \/ InitSetThreads \/ InitNewThreads \/ InitPtc \/ InitFirstPacket
  \/ InitParser \/ InitWaitPtc \/ InitLoad \/ InitCloud \/ InitAll \/ InitUsesFreed

RunStep == RunEnter \/ RunExit \/ RunFault \/ RunPoint \/ RunDecode

Next ==
  /\ ~corrupted
  /\ \/ AppInit \/ AppStart \/ StopRun \/ StopStep
     \/ InitStep
     \/ Receive \/ (\E t \in Threads : ThreadExit(t)) \/ PtcOpens \/ InitSetPtc
     \/ RunStep

Spec == Init /\ [][Next]_vars

\* The application proceeds inside Start and Stop, every thread keeps running.
\* No packet, no connection and no call of Stop is owed.
FairSpec ==
  /\ Spec
  /\ WF_vars(~corrupted /\ AppStart)
  /\ WF_vars(~corrupted /\ StopStep)
  /\ WF_vars(~corrupted /\ InitStep)
  /\ \A t \in Threads : WF_vars(~corrupted /\ ThreadExit(t))
  /\ WF_vars(~corrupted /\ RunStep)

-----------------------------------------------------------------------------
PlacesOK ==
  /\ app \in {"new", "inited", "started", "joinRun", "delete", "free", "joinInit",
              "stopped"} \cup Threads
  /\ lidar \in {"none", "alive", "destroying", "freed"}
  /\ init \in {"none", "enter", "setThreads", "newThreads", "ptc", "parser",
               "waitPtc", "load", "cloud", "all", "done"}
  /\ run \in {"none", "enter", "loop", "decode", "exit"}
  /\ threads \in [Threads -> {"none", "alive", "exited"}]
  /\ init_finish_ \subseteq InitStatus

CountersOK ==
  /\ rounds \in 0..MaxRounds
  /\ handle_thread_count_ \in Int
  /\ origin \in Nat
  /\ delivered \in 0..MaxPackets
  /\ origin <= delivered

FlagsOK ==
  /\ running_ \in BOOLEAN
  /\ hasParser \in BOOLEAN
  /\ get_correction_file_ \in BOOLEAN
  /\ ptcOpen \in BOOLEAN
  /\ is_thread_runing_ \in BOOLEAN
  /\ called \in BOOLEAN
  /\ corrupted \in BOOLEAN

TypeOK == PlacesOK /\ CountersOK /\ FlagsOK

\* Stop never pulls the Lidar away from under the init thread: with a recorded
\* file Start returns only when Lidar::Init has finished (Start line 136 and
\* the order of the three parts of Stop).
LidarAlive == ~corrupted

\* When the memory of the Lidar is released no thread that works on it is left
\* (Stop line 114, the joins of
\* ~Lidar): the init thread starts none behind ~Lidar's back once Start has
\* returned.
ThreadsJoined ==
  lidar = "freed" =>
    /\ \A t \in Threads : threads[t] # "alive"
    /\ run = "none"

\* "Refuse to parse the point cloud when the angle calibration file is not
\* loaded": while the init thread may write the correction tables, Run is not
\* in DecodePacket, although Start lets it run before they are loaded.
TablesQuiet == run = "decode" => init \in {"all", "done"}

\* "the Lidar class will start a udp data recieve thread and parser thread
\* when init()": once SetThreadNum has returned both exist (lidar.h line 81).
InitStartsThreads ==
  init \in {"parser", "waitPtc", "load", "cloud", "all", "done"} =>
    threads["receive"] # "none" /\ threads["parser"] # "none"

\* running_ is "the exit condition of udp/parser thread": once ~Lidar has lowered
\* it, it stays down, although SetThreadNum on the init thread raises it again
\* without looking (lidar.cc lines 59 and 591).
ExitSticks == lidar \in {"destroying", "freed"} => ~running_

-----------------------------------------------------------------------------
(* Inductive invariants *)

\* The application's place says what exists; Stop undoes things in order.
Ownership ==
  /\ lidar = "none" <=> app = "new"
  /\ lidar = "destroying" <=> app \in Threads \cup {"free"}
  /\ lidar = "freed" <=> app \in {"joinInit", "stopped"}
  /\ init = "none" <=> app \in {"new", "stopped"}
  /\ run # "none" => app \in {"started", "joinRun"}
  /\ threads["handle"] = "alive" => handle_thread_count_ > 1
  /\ run = "decode" => "PointCloudParse" \in init_finish_
  /\ "PointCloudParse" \in init_finish_ => init \in {"all", "done", "none"}

\* For an application that does not stop before Start has returned: how far
\* the init thread has come when Stop begins.
Progress ==
  /\ "FaultMessParse" \in init_finish_ =>
       init \notin {"enter", "setThreads", "newThreads", "ptc", "parser"}
  /\ "AllInitFinish" \in init_finish_ => init \in {"done", "none"}
  /\ app \notin {"new", "inited", "stopped"} => MayStart

\* For the same application: a thread that ~Lidar has joined has not come back.
JoinedInOrder ==
  /\ app \in {"parser", "setPtc", "handle", "free", "joinInit", "stopped"} => threads["receive"] # "alive"
  /\ app \in {"setPtc", "handle", "free", "joinInit", "stopped"} => threads["parser"] # "alive"
  /\ app \in {"handle", "free", "joinInit", "stopped"} => threads["setPtc"] # "alive"
  /\ app \in {"free", "joinInit", "stopped"} => threads["handle"] # "alive"

\* For a machine on which SetThreadNum does not find its work done.
ThreadsExist ==
  /\ init \in {"enter", "setThreads"} => handle_thread_count_ = 0
  /\ init \in {"ptc", "parser", "waitPtc", "load", "cloud", "all", "done"} =>
       threads["receive"] # "none" /\ threads["parser"] # "none"

-----------------------------------------------------------------------------
\* "do not need to wait for the PTC to connect successfully before starting to
\* parse the fault message": once the lidar's type is known Run gets going,
\* or the application has given up, whatever PTC does.
FaultPathOpens ==
  (hasParser /\ app = "inited") ~> (run = "loop" \/ app \notin {"inited", "started"})

\* "stop process thread": Stop returns.
StopReturns == app \in {"joinRun", "delete"} ~> app = "stopped"
=============================================================================
