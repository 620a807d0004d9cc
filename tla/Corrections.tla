---------------------------- MODULE Corrections ----------------------------
(***************************************************************************)
(* The angle corrections of a parser (libhesai/UdpParser): loading them    *)
(* from the lidar's reply or from a file, and what the points of a packet  *)
(* are computed from.                                                      *)
(*                                                                         *)
(* A table is a set of cells; what is kept of a cell is its origin: the    *)
(* number of the load that wrote it.  A loader is the set of cells it      *)
(* writes, ComputeXYZI the set of cells it reads; the trigonometry in      *)
(* between is left out.  The three leading entries of the ET tables        *)
(* (apha, beta | gamma) are two cells here.                                *)
(***************************************************************************)
EXTENDS Integers, Sequences, FiniteSets

CONSTANTS Parsers,      \* the parsers to run
          MaxChannels,  \* how many channels a table has room for
          LaserNum,     \* frame.laser_num of the lidar's packets
          SeqNum,       \* how many sequences share the lasers of an ET packet
          MaxMirrors,   \* how many mirrors a table has room for
          MirrorNum,    \* how many mirrors the lidar's packets name
          MaxLoads      \* bound: how often correction data is loaded

Generals == {"1_4", "3_1", "3_2", "6_1", "p40", "p64"}
AllParsers == Generals \cup {"2_4", "2_5", "2_6", "4_3", "4_7", "7_2"}

ASSUME CorrectionsAssumption ==
  /\ Parsers \subseteq AllParsers
  /\ MaxChannels \in Nat \ {0} /\ LaserNum \in 1..MaxChannels /\ MaxLoads \in Nat
  /\ SeqNum \in 1..LaserNum /\ MaxMirrors \in Nat /\ MirrorNum \in 0..MaxMirrors

None == 0    \* the origin of a cell nobody has written
Junk == -1   \* ... of one filled from uninitialised or foreign memory

Channels(name, k) == {<<name, i>> : i \in 1..k}
Lead == <<"lead", 0>>       \* elevations[0], [1]: apha and beta
Gamma == <<"gamma", 0>>     \* elevations[2]
Adjust == <<"adjust", 0>>   \* azimuth_adjust, elevation_adjust
Mirrors(k) == Channels("mirror", k)   \* gamma_f and the offset deltas
Fields == <<"fields", 0>>   \* start_frame, end_frame, resolution

\* "ang" are the angles of a channel; Udp4_7 keeps its azimuths apart, as
\* one ("azi") or as an even and an odd one ("pair").
Cells == {Lead, Gamma, Adjust, Fields} \cup Mirrors(MaxMirrors) \cup Channels("ang", MaxChannels)
           \cup Channels("azi", MaxChannels) \cup Channels("pair", MaxChannels)

\* What a file can be.  Version 4 of a binary one says how many mirrors it
\* has; sane is false when the divisor is zero or the number of fields is
\* too large.  In a .csv a line may have fewer than three fields or a laser
\* id that is not its number.
LineKinds == {"good", "short", "wrong"}
Dat(versions, channels, mirrors, sane) ==
  [kind : {"dat"}, version : versions, channels : channels, mirrors : mirrors,
   sane : sane, lines : {<<>>}]
Files ==
  UNION {Dat((0..5) \ {4}, 0..MaxChannels + 1, {0}, {TRUE}),
         Dat({4}, 0..MaxChannels + 1, 0..MaxMirrors + 1, {TRUE}),
         Dat(0..5, {MaxChannels}, {0}, {FALSE}),
         [kind : {"csv"}, version : {0}, channels : {0}, mirrors : {0}, sane : {TRUE},
          lines : {s \in UNION {[1..k -> LineKinds] : k \in 0..MaxChannels + 2} :
                     Cardinality({i \in DOMAIN s : s[i] # "good"}) <= 1}]}
Missing == [kind |-> "missing", version |-> 0, channels |-> 0, mirrors |-> 0,
            sane |-> FALSE, lines |-> <<>>]

VARIABLES parser,  \* which parser the packets have asked for
          driver,  \* "cpu": HesaiLidarSdk, "gpu": HesaiLidarSdkGpu
          source,  \* "lidar": a live one; "file": a recording
          cpu,     \* the table of the parser
          str,     \* what the lidar answers to GetCorrectionInfo, or Missing
          path,    \* the file at correction_file_path, or Missing
          flaky,   \* may the lidar leave one question open and answer the next?
          stage,   \* "string", "file": inside Lidar::Init; "gpu": inside Init
                   \* of the GPU driver after it; "run": packets are parsed
          latest,  \* the latest load: its number, what it returned, and was it whole?
          points   \* the cells behind the points of the frame

config == <<parser, driver, source>>
cpuVars == <<config, cpu, str, path, flaky, stage, latest, points>>

-----------------------------------------------------------------------------
(* Loading *)

Refuse(t) == [ret |-> -1, tab |-> t]
Accept(t, W, n) ==
  [ret |-> 0, tab |-> [t EXCEPT !.loaded = TRUE,
                                !.cells = [c \in Cells |-> IF c \in W THEN n ELSE @[c]]]]

\* A binary file: the header is stored, then checked, and only then the
\* tables W are filled.
LoadDat(t, f, versions, W, n) ==
  IF f.kind # "dat" \/ f.version \notin versions THEN Refuse(t)
  ELSE LET h == [t EXCEPT !.version = f.version]
       IN  IF f.channels > MaxChannels \/ f.mirrors > MaxMirrors \/ ~f.sane
           THEN Refuse(h) ELSE Accept(h, W, n)

\* The lines of a .csv that count: short ones, if there are any, are skipped.
Counted(f) ==
  IF \A i \in DOMAIN f.lines : f.lines[i] # "short" THEN f.lines
  ELSE SelectSeq(f.lines, LAMBDA l : l # "short")

\* Line k goes to cell at[k]; one with a wrong id leaves that entry of the
\* local array as it was, uninitialised, and it is copied all the same.
StoreLines(cells, f, n, at) ==
  [c \in Cells |->
     LET K == {k \in DOMAIN Counted(f) : at[k] = c}
     IN  IF K = {} THEN cells[c]
         ELSE IF \A k \in K : Counted(f)[k] = "good" THEN n ELSE Junk]

Lines == 1 .. MaxChannels + 2
EtEntry == [k \in Lines |-> CASE k = 1 -> Lead [] k = 2 -> Gamma [] OTHER -> <<"ang", k - 2>>]
Angle == [k \in Lines |-> <<"ang", k>>]

\* GeneralParser::LoadCorrectionString: never refuses.
GeneralLoadString(t, f, n) ==
  [ret |-> 0, tab |-> [t EXCEPT !.loaded = TRUE, !.size = Len(Counted(f)),
                                !.cells = StoreLines(@, f, n, Angle)]]

\* Every LoadCorrectionFile reads the file and hands it to LoadCorrectionString.
FromFile(t, f, r) == IF f.kind = "missing" THEN Refuse(t) ELSE r

GeneralLoadFile(t, f, n) == FromFile(t, f, GeneralLoadString(t, f, n))

EtCells(f) == {Lead, Gamma} \cup Channels("ang", f.channels)

Udp2_4LoadString(t, f, n) == LoadDat(t, f, {1}, EtCells(f), n)

\* Every row with three fields counts, whatever its id; the header is made up.
Udp2_4LoadCsv(t, f, n) ==
  [ret |-> 0, tab |-> [t EXCEPT !.loaded = TRUE, !.version = 1,
     !.cells = [c \in Cells |-> IF \E k \in DOMAIN Counted(f) : EtEntry[k] = c THEN n ELSE @[c]]]]

\* The suffix of the name decides.
Udp2_4LoadFile(t, f, n) ==
  FromFile(t, f, IF f.kind = "csv" THEN Udp2_4LoadCsv(t, f, n) ELSE Udp2_4LoadString(t, f, n))

EtLoadCsv(t, f, n) ==
  [ret |-> 0, tab |-> [t EXCEPT !.loaded = TRUE, !.cells = StoreLines(@, f, n, EtEntry)]]

\* A refused binary file is tried as a .csv, in which it has no lines.
Udp2_5LoadCsv(t, f, n) == EtLoadCsv(t, f, n)

\* Mutant: corrections_.min_version is not set beside the header's.
Udp2_5MinVersionKept(t, f) == t.min_version

\* corrections_.min_version follows the header's, also when the file is
\* refused after it.
Udp2_5MinVersion(t, f) ==
  IF f.kind = "dat" /\ f.version \in 1..4 THEN f.version ELSE t.min_version

\* What the four versions of the file fill.  In the fourth there is a gamma
\* for every mirror the file has; the entries of the others stay.
Udp2_5V1(f) == EtCells(f)
Udp2_5V2(f) == EtCells(f) \cup {Adjust}
Udp2_5V3(f) == EtCells(f) \cup {Adjust}
Udp2_5V4(f) == (EtCells(f) \ {Gamma}) \cup {Adjust} \cup Mirrors(f.mirrors)

Udp2_5LoadDat(t, f, n) ==
  LoadDat([t EXCEPT !.min_version = Udp2_5MinVersion(t, f)], f, 1..4,
          CASE f.version = 1 -> Udp2_5V1(f) [] f.version = 2 -> Udp2_5V2(f)
            [] f.version = 3 -> Udp2_5V3(f) [] OTHER -> Udp2_5V4(f), n)

Udp2_5LoadString(t, f, n) ==
  LET d == Udp2_5LoadDat(t, f, n) IN IF d.ret = 0 THEN d ELSE Udp2_5LoadCsv(d.tab, f, n)

Udp2_5LoadFile(t, f, n) == FromFile(t, f, Udp2_5LoadString(t, f, n))

Udp2_6LoadCsv(t, f, n) == EtLoadCsv(t, f, n)

Udp2_6LoadDat(t, f, n) ==
  LoadDat(t, f, {1, 2}, EtCells(f) \cup (IF f.version = 2 THEN {Adjust} ELSE {}), n)

Udp2_6LoadString(t, f, n) ==
  LET d == Udp2_6LoadDat(t, f, n) IN IF d.ret = 0 THEN d ELSE Udp2_6LoadCsv(d.tab, f, n)

Udp2_6LoadFile(t, f, n) == FromFile(t, f, Udp2_6LoadString(t, f, n))

Udp4_3LoadString(t, f, n) ==
  LoadDat(t, f, {5}, {Fields, Adjust} \cup Channels("ang", f.channels), n)

Udp4_3LoadFile(t, f, n) == FromFile(t, f, Udp4_3LoadString(t, f, n))

Udp4_7LoadString(t, f, n) ==
  LoadDat(t, f, 1..3,
          Channels("ang", f.channels)
            \cup Channels(IF f.version = 1 THEN "azi" ELSE "pair", f.channels)
            \cup (IF f.version = 3 THEN {Adjust} ELSE {}), n)

Udp4_7LoadFile(t, f, n) == FromFile(t, f, Udp4_7LoadString(t, f, n))

\* Version 0 takes its angles from the start of the file, header included;
\* neither version is checked against the size of the tables.
Udp7_2LoadDat(t, f, n) ==
  IF f.kind # "dat" \/ f.version \notin {0, 1} THEN Refuse(t)
  ELSE Accept(t, Cells \cap Channels("ang", f.channels), IF f.version = 0 THEN Junk ELSE n)

\* The lines before a short one are in the table when it is refused; lines
\* with wrong ids are skipped.
Udp7_2LoadCsv(t, f, n) ==
  LET short == {i \in DOMAIN f.lines : f.lines[i] = "short"}
      read == {i \in DOMAIN f.lines : f.lines[i] = "good" /\ \A s \in short : i < s}
      r == Accept(t, {Angle[i] : i \in read}, n)
  IN  IF short = {} THEN r ELSE [Refuse(r.tab) EXCEPT !.tab.loaded = t.loaded]

Udp7_2LoadString(t, f, n) ==
  LET d == Udp7_2LoadDat(t, f, n) IN IF d.ret = 0 THEN d ELSE Udp7_2LoadCsv(t, f, n)

Udp7_2LoadFile(t, f, n) == FromFile(t, f, Udp7_2LoadString(t, f, n))

\* UdpParser::LoadCorrectionString and LoadCorrectionFile.
LoadString(t, f, n) ==
  CASE parser \in Generals -> GeneralLoadString(t, f, n)
    [] parser = "2_4" -> Udp2_4LoadString(t, f, n)
    [] parser = "2_5" -> Udp2_5LoadString(t, f, n)
    [] parser = "2_6" -> Udp2_6LoadString(t, f, n)
    [] parser = "4_3" -> Udp4_3LoadString(t, f, n)
    [] parser = "4_7" -> Udp4_7LoadString(t, f, n)
    [] parser = "7_2" -> Udp7_2LoadString(t, f, n)

LoadFile(t, f, n) ==
  CASE parser \in Generals -> GeneralLoadFile(t, f, n)
    [] parser = "2_4" -> Udp2_4LoadFile(t, f, n)
    [] parser = "2_5" -> Udp2_5LoadFile(t, f, n)
    [] parser = "2_6" -> Udp2_6LoadFile(t, f, n)
    [] parser = "4_3" -> Udp4_3LoadFile(t, f, n)
    [] parser = "4_7" -> Udp4_7LoadFile(t, f, n)
    [] parser = "7_2" -> Udp7_2LoadFile(t, f, n)

-----------------------------------------------------------------------------
(* Computing: the cells the points of a packet depend on *)

Lasers(name) == Channels(name, LaserNum)

\* azimuth_collection_[i] and elevation_correction_[i] of every channel.
GeneralReads == Lasers("ang")
Udp1_4ComputeXYZI == GeneralReads
Udp3_1ComputeXYZI == GeneralReads
Udp3_2ComputeXYZI == GeneralReads
Udp6_1ComputeXYZI == GeneralReads
UdpP40ComputeXYZI == GeneralReads
UdpP64ComputeXYZI == GeneralReads

Udp2_4ComputeXYZI(t) == {Lead, Gamma} \cup Lasers("ang")

Udp2_5ComputeXYZI(t) ==
  {Lead} \cup Lasers("ang")
    \cup (IF t.min_version = 4 THEN Mirrors(MirrorNum) ELSE {Gamma})
    \cup (IF t.version \in {2, 3} \/ t.min_version = 4 THEN {Adjust} ELSE {})

\* The channel is chn_index, which DecodePacket counts anew in every sequence.
SeqChannels == LaserNum \div SeqNum

Udp2_6ComputeXYZI(t) ==
  {Lead, Gamma} \cup Channels("ang", SeqChannels)
    \cup (IF t.version \in {2, 3} THEN {Adjust} ELSE {})

Udp4_3ComputeXYZI(t) == {Fields, Adjust} \cup Lasers("ang")

Udp4_7ComputeXYZI(t) == Lasers("ang") \cup (IF t.version = 3 THEN {Adjust} ELSE {})

\* Azimuths DecodePacket takes from the tables: Udp4_7's, and both angles of
\* Udp7_2, which its ComputeXYZI does not look up again.
Udp4_7Azimuths(t) ==
  CASE t.version = 1 -> Lasers("azi") [] t.version \in {2, 3} -> Lasers("pair") [] OTHER -> {}
Udp7_2Angles == Lasers("ang")

DecodeReads(t) ==
  CASE parser = "4_7" -> Udp4_7Azimuths(t) [] parser = "7_2" -> Udp7_2Angles [] OTHER -> {}

ComputeReads(t) ==
  CASE parser = "1_4" -> Udp1_4ComputeXYZI
    [] parser = "3_1" -> Udp3_1ComputeXYZI
    [] parser = "3_2" -> Udp3_2ComputeXYZI
    [] parser = "6_1" -> Udp6_1ComputeXYZI
    [] parser = "p40" -> UdpP40ComputeXYZI
    [] parser = "p64" -> UdpP64ComputeXYZI
    [] parser = "2_4" -> Udp2_4ComputeXYZI(t)
    [] parser = "2_5" -> Udp2_5ComputeXYZI(t)
    [] parser = "2_6" -> Udp2_6ComputeXYZI(t)
    [] parser = "4_3" -> Udp4_3ComputeXYZI(t)
    [] parser = "4_7" -> Udp4_7ComputeXYZI(t)
    [] parser = "7_2" -> {}

\* Where the value of a cell comes from; the vectors of GeneralParser end
\* with the file's last line.
Origin(t, c) == IF parser \in Generals /\ c[2] > t.size THEN Junk ELSE t.cells[c]

Used(t, C) == {<<c, Origin(t, c)>> : c \in C}

-----------------------------------------------------------------------------
(* The steps *)

\* Does the file give every cell the parser reads?
Whole(f) ==
  IF parser \in Generals THEN f.kind = "csv" /\ Len(f.lines) >= LaserNum
                              /\ \A i \in DOMAIN f.lines : f.lines[i] = "good"
  ELSE /\ f.kind = "dat" /\ f.sane /\ f.mirrors <= MaxMirrors
       /\ f.channels \in (IF parser = "2_6" THEN SeqChannels ELSE LaserNum)..MaxChannels
       /\ parser = "2_5" /\ f.version = 4 => f.mirrors >= MirrorNum
       /\ f.version \in CASE parser = "2_4" -> {1} [] parser = "2_5" -> 1..4
                          [] parser = "2_6" -> {1, 2} [] parser = "4_3" -> {5}
                          [] parser = "4_7" -> 1..3 [] parser = "7_2" -> {1}

Loaded(r, n, f) ==
  cpu' = r.tab /\ latest' = [n |-> n, ret |-> r.ret, whole |-> Whole(f)]

\* Lidar::Init ends; what str and path held is not looked at again unless
\* the GPU parser is to be loaded too.
InitEnds ==
  IF driver = "gpu" THEN stage' = "gpu" /\ UNCHANGED <<str, path>>
  ELSE stage' = "run" /\ str' = Missing /\ path' = Missing

\* Does GetCorrectionInfo get an answer this time?
Answered == IF flaky THEN BOOLEAN ELSE {str # Missing}

\* Lidar::Init with a live lidar.
LoadCorrectionForUdpParser ==
  /\ stage = "string"
  /\ \E answered \in Answered :
       LET r == IF answered THEN LoadString(cpu, str, 1) ELSE Refuse(cpu)
       IN  /\ Loaded(r, 1, IF answered THEN str ELSE Missing)
           /\ IF r.ret = -1 THEN stage' = "file" /\ UNCHANGED <<str, path>> ELSE InitEnds
  /\ UNCHANGED <<config, flaky, points>>

\* ... and then, or with any other source, the file.
LoadCorrectionFile ==
  /\ stage = "file"
  /\ Loaded(LoadFile(cpu, path, 2), 2, path)
  /\ InitEnds
  /\ UNCHANGED <<config, flaky, points>>

\* The application loads correction data itself, as a string
\* (LoadCorrectionFromROSbag, LoadCorrectionString) or as a file.
Reload(f) ==
  /\ stage = "run" /\ latest.n < MaxLoads
  /\ LET n == IF latest.n < 2 THEN 3 ELSE latest.n + 1
     IN  \/ Loaded(LoadString(cpu, f, n), n, f)
         \/ Loaded(LoadFile(cpu, f, n), n, f)
  /\ UNCHANGED <<config, str, path, flaky, stage, points>>

\* DecodePacket returns without touching the frame unless the flag is set.
Decodes == cpu.loaded

\* Points outside every field of Udp4_3's mirrors keep what the slot held.
InField == IF parser = "4_3" THEN BOOLEAN ELSE {TRUE}

ComputePacket ==
  /\ stage = "run" /\ driver = "cpu" /\ Decodes
  /\ \E inside \in InField :
       points' = IF inside THEN Used(cpu, DecodeReads(cpu) \cup ComputeReads(cpu)) ELSE points
  /\ UNCHANGED <<config, cpu, str, path, flaky, stage, latest>>

\* Parsers that do not initialise get_correction_file_: it may start as
\* anything; so may corrections_.min_version of Udp2_5.
Uninitialised == Generals \cup {"7_2"}
Blank(flag, m) ==
  [loaded |-> flag, version |-> 0, min_version |-> m, size |-> 0, cells |-> [c \in Cells |-> None]]
MinVersions(p) == IF p = "2_5" THEN {0, 4} ELSE {0}

CpuInit ==
  /\ parser \in Parsers
  /\ \E flag \in IF parser \in Uninitialised THEN BOOLEAN ELSE {FALSE}, m \in MinVersions(parser) :
       cpu = Blank(flag, m)
  /\ latest = [n |-> 0, ret |-> 0, whole |-> FALSE]
  /\ points = {}
  /\ source \in {"lidar", "file"}
  /\ stage = IF source = "lidar" THEN "string" ELSE "file"
  /\ str \in IF source = "lidar" THEN Files \cup {Missing} ELSE {Missing}
  /\ path \in Files \cup {Missing}

CpuNext ==
  \/ LoadCorrectionForUdpParser \/ LoadCorrectionFile
  \/ \E f \in Files : Reload(f)
  \/ ComputePacket

-----------------------------------------------------------------------------
(* Properties *)

\* Once a file has been accepted that gives the parser all it reads, the
\* points are computed from that file alone: whatever formats and versions
\* were loaded, or half loaded and refused, before it.
AcceptedIsWhole ==
  latest.n # 0 /\ latest.whole =>
    /\ latest.ret = 0 /\ cpu.loaded
    /\ \A u \in Used(cpu, DecodeReads(cpu) \cup ComputeReads(cpu)) : u[2] = latest.n

\* No point is computed from a table entry that no correction data set
\* ("Refuse to parse the point cloud when the angle calibration file is not
\* loaded").
ParsesOnlyLoaded == \A u \in points : u[2] \notin {None, Junk}
=============================================================================
