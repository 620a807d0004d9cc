------------------------- MODULE CorrectionsProofs -------------------------
(***************************************************************************)
(* Every parser of the CPU driver computes from the correction data it     *)
(* accepted last, and every kernel from what the parser beside it works    *)
(* on, for any number of channels, lasers and loads.                       *)
(***************************************************************************)
EXTENDS GpuCorrections, TLAPS

IsTable(t) ==
  t \in [loaded : BOOLEAN, version : 0..5, min_version : 0..5, size : {t.size},
         cells : [Cells -> Int]]

Sources == Files \cup {Missing}

CorrTypes ==
  /\ parser \in AllParsers /\ driver \in {"cpu", "gpu"} /\ source \in {"lidar", "file"}
  /\ driver = "gpu" => parser \in GpuParsers
  /\ IsTable(cpu) /\ IsTable(gpu)
  /\ str \in Sources /\ path \in Sources
  /\ stage \in {"string", "file", "gpu", "run"}
  /\ latest \in [n : Nat, ret : {0, -1}, whole : BOOLEAN]
  /\ tries \in 0 .. Tries - 1 /\ flaky \in BOOLEAN
  /\ had \in [reply : BOOLEAN, whole : BOOLEAN]

\* A binary file that passes the checks of a loader for these versions.
Fits(f, versions) ==
  /\ f.kind = "dat" /\ f.version \in versions /\ f.sane
  /\ f.channels <= MaxChannels /\ f.mirrors <= MaxMirrors

\* What Lidar::Init could not load as the lidar's reply.
Refused(f) ==
  \/ f = Missing
  \/ parser = "4_3" /\ ~Fits(f, {5})
  \/ parser = "4_7" /\ ~Fits(f, 1..3)
  \/ parser \in {"2_4", "7_2"}

\* The table t holds what file f, loaded as number n, gives the parser.
Holds(t, f, n) ==
  /\ t.loaded
  /\ \A c \in DecodeReads(t) \cup ComputeReads(t) : Origin(t, c) = n
  /\ parser \in {"2_5", "2_6", "4_7"} => t.version = f.version
  /\ parser = "2_5" => t.min_version = f.version

\* The tables of the GPU parser, and those of the CPU parser, agree.
LikeCpu(t) == t.loaded /\ Used(t, KernelReads(t) \ Beyond) = Used(cpu, ComputeReads(cpu))
Agrees == LikeCpu(gpu)

\* The kernel works on one load.
OneLoad(t) ==
  t.loaded /\ \E n \in 1..2 : \A c \in KernelReads(t) \ Beyond : Origin(t, c) = n
Steady == OneLoad(gpu)

\* Where GpuComputesLikeCpu compares the two.
Comparable == driver = "gpu" /\ ~flaky /\ latest.n \in {1, 2} /\ latest.whole

\* As long as str is there: what Deaf says after it.
Ignored == parser = "7_2" /\ latest.n = 2 /\ str # Missing

\* What has been loaded from where, stage by stage.
Progress ==
  /\ stage \in {"string", "file"} => ~gpu.loaded /\ tries = 0
  /\ stage = "string" => source = "lidar" /\ latest.n = 0
  /\ stage = "file" => \/ source = "file" /\ latest.n = 0
                       \/ source = "lidar" /\ latest.n = 1 /\ (flaky \/ Refused(str))
  /\ stage = "gpu" =>
       /\ driver = "gpu"
       /\ \/ latest.n = 1 /\ source = "lidar" /\ (flaky \/ str # Missing)
             /\ latest.whole = Whole(str) /\ (latest.whole => Holds(cpu, str, 1))
          \/ latest.n = 2 /\ (source = "lidar" => flaky \/ Refused(str))
             /\ latest.whole = Whole(path) /\ (latest.whole => Holds(cpu, path, 2))
       /\ tries = 0 => ~gpu.loaded
       /\ tries > 0 /\ Comparable /\ ~Ignored => Agrees
       /\ tries > 0 /\ Whole(str) /\ Whole(path) => Steady
  /\ stage = "run" => /\ latest.n >= 1
                      /\ Comparable /\ ~Deaf => Agrees
                      /\ driver = "gpu" /\ had.whole => Steady

CorrInv == CorrTypes /\ AcceptedIsWhole /\ Progress

\* The promise of a loader: whatever it does with file f it leaves a table;
\* it refuses what it may refuse; and a file that is whole gives the parser
\* everything it reads.
Keeps(r, f, n) ==
  /\ IsTable(r.tab) /\ r.ret \in {0, -1}
  /\ r.ret = -1 => Refused(f)
  /\ Whole(f) => r.ret = 0 /\ Holds(r.tab, f, n)

-----------------------------------------------------------------------------
(* Files, cells and tables *)

\* What a loader may be given.
LEMMA SourceTypes ==
  ASSUME NEW f \in Sources
  PROVE  /\ f.version \in 0..5 /\ f.channels \in Nat /\ f.mirrors \in Nat
         /\ f.kind \in {"dat", "csv", "missing"}
         /\ f.kind = "missing" <=> f = Missing
         /\ f.kind = "csv" => \E k \in Nat : f.lines \in [1..k -> LineKinds]
<1>1. CASE f = Missing
  BY <1>1 DEF Missing
<1>2. ASSUME NEW V \in SUBSET (0..5), NEW C \in SUBSET Nat, NEW M \in SUBSET Nat, NEW S,
             f \in Dat(V, C, M, S)
      PROVE  f.version \in 0..5 /\ f.channels \in Nat /\ f.mirrors \in Nat
             /\ f.kind = "dat" /\ f # Missing
  <2>1. f.kind \in {"dat"} /\ f.version \in V /\ f.channels \in C /\ f.mirrors \in M
    BY <1>2 DEF Dat
  <2>2. Missing.kind = "missing"
    BY DEF Missing
  <2>3. f.kind = "dat" /\ f # Missing
    BY <2>1, <2>2
  <2> QED BY <2>1, <2>3
<1>3. CASE f \in [kind : {"csv"}, version : {0}, channels : {0}, mirrors : {0}, sane : {TRUE},
          lines : {s \in UNION {[1..k -> LineKinds] : k \in 0..MaxChannels + 2} :
                     Cardinality({i \in DOMAIN s : s[i] # "good"}) <= 1}]
  <2>1. f.lines \in UNION {[1..k -> LineKinds] : k \in 0..MaxChannels + 2}
    BY <1>3
  <2>2. PICK k \in 0..MaxChannels + 2 : f.lines \in [1..k -> LineKinds]
    BY <2>1
  <2>3. f.kind = "csv" /\ f.version = 0 /\ f.channels = 0 /\ f.mirrors = 0
    BY <1>3
  <2>4. f # Missing
    BY <2>3 DEF Missing
  <2>5. k \in Nat
    BY CorrectionsAssumption
  <2> QED BY <2>2, <2>3, <2>4, <2>5
<1>4. 0..MaxChannels + 1 \in SUBSET Nat /\ 0..MaxMirrors + 1 \in SUBSET Nat
      /\ {MaxChannels} \in SUBSET Nat /\ {0} \in SUBSET Nat
  BY CorrectionsAssumption
<1>5. (0..5) \ {4} \in SUBSET (0..5) /\ {4} \in SUBSET (0..5) /\ 0..5 \in SUBSET (0..5)
  OBVIOUS
<1>6. CASE f \in Dat((0..5) \ {4}, 0..MaxChannels + 1, {0}, {TRUE})
  BY <1>2, <1>4, <1>5, <1>6
<1>7. CASE f \in Dat({4}, 0..MaxChannels + 1, 0..MaxMirrors + 1, {TRUE})
  BY <1>2, <1>4, <1>5, <1>7
<1>8. CASE f \in Dat(0..5, {MaxChannels}, {0}, {FALSE})
  BY <1>2, <1>4, <1>5, <1>8
<1> QED BY <1>1, <1>3, <1>6, <1>7, <1>8 DEF Sources, Files

\* A sequence of a packet has no more channels than the packet.
LEMMA SeqChannelsIn == SeqChannels \in 0..LaserNum
BY CorrectionsAssumption DEF SeqChannels

\* What the computation reads are entries of the table.
LEMMA LasersAreCells ==
  /\ Lasers("ang") \subseteq Cells /\ Lasers("azi") \subseteq Cells /\ Lasers("pair") \subseteq Cells
  /\ Lead \in Cells /\ Gamma \in Cells /\ Adjust \in Cells /\ Fields \in Cells
  /\ Mirrors(MirrorNum) \subseteq Cells
  /\ Channels("ang", SeqChannels) \subseteq Lasers("ang")
<1>1. Lasers("ang") \subseteq Cells /\ Lasers("azi") \subseteq Cells /\ Lasers("pair") \subseteq Cells
  BY CorrectionsAssumption DEF Lasers, Channels, Cells
<1>2. Lead \in Cells /\ Gamma \in Cells /\ Adjust \in Cells /\ Fields \in Cells
  BY DEF Cells
<1>3. Mirrors(MirrorNum) \subseteq Mirrors(MaxMirrors)
  BY CorrectionsAssumption DEF Mirrors, Channels
<1>4. Mirrors(MirrorNum) \subseteq Cells
  BY <1>3 DEF Cells
<1>5. Channels("ang", SeqChannels) \subseteq Lasers("ang")
  BY CorrectionsAssumption, SeqChannelsIn DEF Lasers, Channels
<1> QED BY <1>1, <1>2, <1>4, <1>5

\* A file with enough channels has an entry for every laser.
LEMMA LasersIn ==
  ASSUME NEW name, NEW k \in Nat, k >= LaserNum
  PROVE  Lasers(name) \subseteq Channels(name, k)
BY CorrectionsAssumption DEF Lasers, Channels

\* ... and one for every mirror the packets name, if it has that many.
LEMMA MirrorsIn ==
  ASSUME NEW f \in Sources, f.mirrors >= MirrorNum
  PROVE  Mirrors(MirrorNum) \subseteq Mirrors(f.mirrors)
<1>1. f.mirrors \in Nat
  BY SourceTypes
<1> QED BY <1>1, CorrectionsAssumption DEF Mirrors, Channels

\* A loader that accepts writes its cells and marks the table as loaded.
LEMMA AcceptIs ==
  ASSUME NEW t, IsTable(t), NEW W, NEW n \in Int
  PROVE  LET r == Accept(t, W, n)
         IN  /\ r.ret = 0 /\ IsTable(r.tab) /\ r.tab.loaded
             /\ r.tab.version = t.version /\ r.tab.min_version = t.min_version
             /\ \A c \in Cells : c \in W => r.tab.cells[c] = n
<1>1. [c \in Cells |-> IF c \in W THEN n ELSE t.cells[c]] \in [Cells -> Int]
  BY DEF IsTable
<1> QED BY <1>1 DEF IsTable, Accept

\* A binary file is refused exactly if it does not fit.
LEMMA LoadDatIs ==
  ASSUME NEW t, IsTable(t), NEW f \in Sources, NEW V, NEW W, NEW n \in Int
  PROVE  LET r == LoadDat(t, f, V, W, n)
         IN  /\ r.ret \in {0, -1} /\ IsTable(r.tab) /\ r.tab.min_version = t.min_version
             /\ r.ret = 0 <=> Fits(f, V)
             /\ Fits(f, V) => /\ r.tab.loaded /\ r.tab.version = f.version
                              /\ \A c \in Cells : c \in W => r.tab.cells[c] = n
             /\ ~Fits(f, V) => r.tab.loaded = t.loaded
<1> DEFINE h == [t EXCEPT !.version = f.version]
           r == LoadDat(t, f, V, W, n)
<1>1. f.version \in 0..5 /\ f.channels \in Nat /\ f.mirrors \in Nat
  BY SourceTypes
<1>2. IsTable(h) /\ h.version = f.version /\ h.min_version = t.min_version /\ h.loaded = t.loaded
  BY <1>1 DEF IsTable
<1> HIDE DEF h
<1>3. Refuse(t) = [ret |-> -1, tab |-> t] /\ Refuse(h) = [ret |-> -1, tab |-> h]
  BY DEF Refuse
<1>4. CASE Fits(f, V)
  <2>1. r = Accept(h, W, n)
    BY <1>1, <1>4, CorrectionsAssumption DEF LoadDat, Fits, h
  <2> HIDE DEF r
  <2>2. /\ r.ret = 0 /\ IsTable(r.tab) /\ r.tab.loaded
        /\ r.tab.version = h.version /\ r.tab.min_version = h.min_version
        /\ \A c \in Cells : c \in W => r.tab.cells[c] = n
    BY <1>2, <2>1, AcceptIs
  <2> QED BY <1>2, <1>4, <2>2 DEF r
<1>5. CASE ~Fits(f, V)
  <2>1. r = Refuse(t) \/ r = Refuse(h)
    BY <1>1, <1>5, CorrectionsAssumption DEF LoadDat, Fits, h
  <2> HIDE DEF r
  <2>2. r.ret = -1 /\ (r.tab = t \/ r.tab = h)
    BY <1>3, <2>1
  <2> QED BY <1>2, <1>5, <2>2 DEF r
<1> QED BY <1>4, <1>5

\* The readers of .csv files write entries of the table only.
LEMMA StoreLinesTyped ==
  ASSUME NEW cells \in [Cells -> Int], NEW f, NEW n \in Int, NEW at
  PROVE  StoreLines(cells, f, n, at) \in [Cells -> Int]
BY DEF StoreLines, Junk

\* A .csv with a good line for every laser: each has its own cell.
LEMMA StoreLinesWhole ==
  ASSUME NEW cells, NEW f \in Sources, NEW n, f.kind = "csv",
         Len(f.lines) >= LaserNum, \A i \in DOMAIN f.lines : f.lines[i] = "good"
  PROVE  /\ Len(Counted(f)) \in Nat /\ Len(Counted(f)) >= LaserNum
         /\ \A c \in Lasers("ang") : StoreLines(cells, f, n, Angle)[c] = n
<1>1. PICK m \in Nat : f.lines \in [1..m -> LineKinds]
  BY SourceTypes
<1>2. Counted(f) = f.lines
  BY DEF Counted
<1>3. Len(f.lines) = m /\ DOMAIN f.lines = 1..m
  BY <1>1
<1>4. ASSUME NEW c \in Lasers("ang") PROVE StoreLines(cells, f, n, Angle)[c] = n
  <2>1. PICK i \in 1..LaserNum : c = <<"ang", i>>
    BY DEF Lasers, Channels
  <2>2. i \in DOMAIN f.lines /\ i \in Lines /\ Angle[i] = c
    BY <1>3, <2>1, CorrectionsAssumption DEF Lines, Angle
  <2>3. {k \in DOMAIN Counted(f) : Angle[k] = c} # {}
    BY <1>2, <2>2
  <2>4. c \in Cells
    BY LasersAreCells
  <2>5. \A k \in {k \in DOMAIN Counted(f) : Angle[k] = c} : Counted(f)[k] = "good"
    BY <1>2
  <2> QED BY <2>3, <2>4, <2>5 DEF StoreLines
<1> QED BY <1>2, <1>3, <1>4

-----------------------------------------------------------------------------
(* The loaders of the CPU parsers *)

\* There is nothing in a file that is not there.
LEMMA MissingIsNotWhole == ~Whole(Missing)
BY DEF Whole, Missing

\* A parser with a binary format: it reads R of what the file fills, W.
LEMMA DatKeeps ==
  ASSUME NEW t, IsTable(t), NEW f \in Sources, NEW V, NEW W, NEW n \in Int,
         parser \in AllParsers \ Generals,
         Whole(f) => Fits(f, V),
         ~Fits(f, V) => Refused(f),
         Whole(f) => \A u : u.version = f.version /\ u.min_version = t.min_version =>
                       /\ DecodeReads(u) \cup ComputeReads(u) \subseteq W \cap Cells
                       /\ parser = "2_5" => u.min_version = f.version
  PROVE  Keeps(LoadDat(t, f, V, W, n), f, n)
<1> DEFINE r == LoadDat(t, f, V, W, n)
<1>1. /\ r.ret \in {0, -1} /\ IsTable(r.tab) /\ r.tab.min_version = t.min_version
      /\ r.ret = 0 <=> Fits(f, V)
      /\ Fits(f, V) => /\ r.tab.loaded /\ r.tab.version = f.version
                       /\ \A c \in Cells : c \in W => r.tab.cells[c] = n
  BY LoadDatIs
<1> HIDE DEF r
<1>2. ASSUME Whole(f) PROVE r.ret = 0 /\ Holds(r.tab, f, n)
  <2>1. /\ r.ret = 0 /\ r.tab.loaded /\ r.tab.version = f.version
        /\ \A c \in Cells : c \in W => r.tab.cells[c] = n
    BY <1>1, <1>2
  <2>2. /\ DecodeReads(r.tab) \cup ComputeReads(r.tab) \subseteq W \cap Cells
        /\ parser = "2_5" => r.tab.min_version = f.version
    BY <1>1, <1>2, <2>1
  <2>3. \A c : Origin(r.tab, c) = r.tab.cells[c]
    BY DEF Origin
  <2> QED BY <2>1, <2>2, <2>3 DEF Holds
<1> QED BY <1>1, <1>2 DEF Keeps, r

\* A file of the ET with enough channels covers what its points need.
LEMMA EtCellsIn ==
  ASSUME NEW f, f.channels \in LaserNum..MaxChannels
  PROVE  {Lead, Gamma} \cup Lasers("ang") \subseteq EtCells(f) \cap Cells
<1>1. f.channels \in Nat /\ f.channels >= LaserNum
  BY CorrectionsAssumption
<1> QED BY <1>1, LasersIn, LasersAreCells DEF EtCells

\* ... those of Udp2_6, which count their channels in a sequence, too.
LEMMA EtSequenceIn ==
  ASSUME NEW f, f.channels \in SeqChannels..MaxChannels
  PROVE  {Lead, Gamma} \cup Channels("ang", SeqChannels) \subseteq EtCells(f) \cap Cells
<1>1. Channels("ang", SeqChannels) \subseteq Channels("ang", f.channels)
  BY SeqChannelsIn, CorrectionsAssumption DEF Channels
<1> QED BY <1>1, LasersAreCells DEF EtCells

\* GeneralParser::LoadCorrectionString, which six parsers inherit.
LEMMA GeneralKeeps ==
  ASSUME NEW t, IsTable(t), NEW f \in Sources, NEW n \in Int, parser \in Generals
  PROVE  Keeps(GeneralLoadString(t, f, n), f, n)
<1> DEFINE r == GeneralLoadString(t, f, n)
<1>1. StoreLines(t.cells, f, n, Angle) \in [Cells -> Int]
  BY StoreLinesTyped DEF IsTable
<1>2. /\ r.ret = 0 /\ IsTable(r.tab) /\ r.tab.loaded
      /\ r.tab.size = Len(Counted(f)) /\ r.tab.cells = StoreLines(t.cells, f, n, Angle)
  BY <1>1 DEF GeneralLoadString, IsTable
<1> HIDE DEF r
<1>3. ASSUME Whole(f) PROVE Holds(r.tab, f, n)
  <2>1. /\ Len(Counted(f)) \in Nat /\ Len(Counted(f)) >= LaserNum
        /\ \A c \in Lasers("ang") : r.tab.cells[c] = n
    BY <1>2, <1>3, StoreLinesWhole DEF Whole
  <2>2. DecodeReads(r.tab) \cup ComputeReads(r.tab) = Lasers("ang")
    BY DEF Generals, DecodeReads, ComputeReads, GeneralReads, Udp1_4ComputeXYZI,
           Udp3_1ComputeXYZI, Udp3_2ComputeXYZI, Udp6_1ComputeXYZI, UdpP40ComputeXYZI,
           UdpP64ComputeXYZI
  <2>3. \A c \in Lasers("ang") : ~(c[2] > r.tab.size)
    BY <1>2, <2>1, CorrectionsAssumption DEF Lasers, Channels
  <2>4. parser \notin {"2_5", "2_6", "4_7"}
    BY DEF Generals
  <2> QED BY <1>2, <2>1, <2>2, <2>3, <2>4 DEF Holds, Origin
<1> QED BY <1>2, <1>3 DEF Keeps, r

\* The .csv reader of the ET parsers accepts whatever it is given.
LEMMA EtCsvTyped ==
  ASSUME NEW t, IsTable(t), NEW f, NEW n \in Int
  PROVE  EtLoadCsv(t, f, n).ret = 0 /\ IsTable(EtLoadCsv(t, f, n).tab)
         /\ EtLoadCsv(t, f, n).tab.loaded
<1>1. StoreLines(t.cells, f, n, EtEntry) \in [Cells -> Int]
  BY StoreLinesTyped DEF IsTable
<1> QED BY <1>1 DEF EtLoadCsv, IsTable

\* For the other parsers only binary files are whole.
LEMMA WholeDat ==
  ASSUME parser \in AllParsers \ Generals, NEW f \in Sources, Whole(f)
  PROVE  /\ f.kind = "dat" /\ f.sane /\ f.mirrors <= MaxMirrors
         /\ f.channels \in Nat /\ f.channels <= MaxChannels
         /\ parser # "2_6" => f.channels \in LaserNum..MaxChannels /\ f.channels >= LaserNum
         /\ parser = "2_6" => f.channels \in SeqChannels..MaxChannels
         /\ parser = "2_5" /\ f.version = 4 => f.mirrors >= MirrorNum
         /\ parser = "2_4" => f.version \in {1}
         /\ parser = "2_5" => f.version \in 1..4
         /\ parser = "2_6" => f.version \in {1, 2}
         /\ parser = "4_3" => f.version \in {5}
         /\ parser = "4_7" => f.version \in 1..3
         /\ parser = "7_2" => f.version \in {1}
<1>1. /\ f.kind = "dat" /\ f.sane /\ f.mirrors <= MaxMirrors
      /\ f.channels \in (IF parser = "2_6" THEN SeqChannels ELSE LaserNum)..MaxChannels
      /\ parser = "2_5" /\ f.version = 4 => f.mirrors >= MirrorNum
  BY DEF Whole
<1>2. /\ f.channels \in Nat /\ f.channels <= MaxChannels
      /\ parser # "2_6" => f.channels \in LaserNum..MaxChannels /\ f.channels >= LaserNum
      /\ parser = "2_6" => f.channels \in SeqChannels..MaxChannels
  BY <1>1, SeqChannelsIn, CorrectionsAssumption
<1>3. f.version \in CASE parser = "2_4" -> {1} [] parser = "2_5" -> 1..4
                       [] parser = "2_6" -> {1, 2} [] parser = "4_3" -> {5}
                       [] parser = "4_7" -> 1..3 [] parser = "7_2" -> {1}
  BY DEF Whole
<1> QED BY <1>1, <1>2, <1>3

\* The loader of Udp2_4Parser.
LEMMA Udp2_4Keeps ==
  ASSUME NEW t, IsTable(t), NEW f \in Sources, NEW n \in Int, parser = "2_4"
  PROVE  Keeps(Udp2_4LoadString(t, f, n), f, n)
<1>1. parser \in AllParsers \ Generals
  BY DEF AllParsers, Generals
<1>2. Whole(f) => Fits(f, {1})
  BY <1>1, WholeDat DEF Fits
<1>3. ~Fits(f, {1}) => Refused(f)
  BY DEF Refused
<1>4. ASSUME Whole(f), NEW u
      PROVE  DecodeReads(u) \cup ComputeReads(u) \subseteq EtCells(f) \cap Cells
  <2>1. DecodeReads(u) \cup ComputeReads(u) = {Lead, Gamma} \cup Lasers("ang")
    BY DEF DecodeReads, ComputeReads, Udp2_4ComputeXYZI
  <2> QED BY <1>1, <1>4, <2>1, WholeDat, EtCellsIn
<1> QED BY <1>1, <1>2, <1>3, <1>4, DatKeeps DEF Udp2_4LoadString

\* The loader of Udp4_3Parser.
LEMMA Udp4_3Keeps ==
  ASSUME NEW t, IsTable(t), NEW f \in Sources, NEW n \in Int, parser = "4_3"
  PROVE  Keeps(Udp4_3LoadString(t, f, n), f, n)
<1> DEFINE W == {Fields, Adjust} \cup Channels("ang", f.channels)
<1>1. parser \in AllParsers \ Generals
  BY DEF AllParsers, Generals
<1>2. Whole(f) => Fits(f, {5})
  BY <1>1, WholeDat DEF Fits
<1>3. ~Fits(f, {5}) => Refused(f)
  BY DEF Refused
<1>4. ASSUME Whole(f), NEW u
      PROVE  DecodeReads(u) \cup ComputeReads(u) \subseteq W \cap Cells
  <2>1. DecodeReads(u) \cup ComputeReads(u) = {Fields, Adjust} \cup Lasers("ang")
    BY DEF DecodeReads, ComputeReads, Udp4_3ComputeXYZI
  <2>2. Lasers("ang") \subseteq Channels("ang", f.channels)
    BY <1>1, <1>4, WholeDat, LasersIn
  <2> QED BY <2>1, <2>2, LasersAreCells
<1> QED BY <1>1, <1>2, <1>3, <1>4, DatKeeps DEF Udp4_3LoadString

\* The loader of Udp4_7Parser.
LEMMA Udp4_7Keeps ==
  ASSUME NEW t, IsTable(t), NEW f \in Sources, NEW n \in Int, parser = "4_7"
  PROVE  Keeps(Udp4_7LoadString(t, f, n), f, n)
<1> DEFINE W == Channels("ang", f.channels)
                  \cup Channels(IF f.version = 1 THEN "azi" ELSE "pair", f.channels)
                  \cup (IF f.version = 3 THEN {Adjust} ELSE {})
<1>1. parser \in AllParsers \ Generals
  BY DEF AllParsers, Generals
<1>2. Whole(f) => Fits(f, 1..3)
  BY <1>1, WholeDat DEF Fits
<1>3. ~Fits(f, 1..3) => Refused(f)
  BY DEF Refused
<1>4. ASSUME Whole(f), NEW u, u.version = f.version
      PROVE  DecodeReads(u) \cup ComputeReads(u) \subseteq W \cap Cells
  <2>1. DecodeReads(u) \cup ComputeReads(u) =
          Udp4_7Azimuths(u) \cup Lasers("ang") \cup (IF f.version = 3 THEN {Adjust} ELSE {})
    BY <1>4 DEF DecodeReads, ComputeReads, Udp4_7ComputeXYZI
  <2>2. /\ Lasers("ang") \subseteq Channels("ang", f.channels)
        /\ Lasers("azi") \subseteq Channels("azi", f.channels)
        /\ Lasers("pair") \subseteq Channels("pair", f.channels)
    BY <1>1, <1>4, WholeDat, LasersIn
  <2>3. f.version = 1 \/ f.version = 2 \/ f.version = 3
    BY <1>1, <1>4, WholeDat
  <2>4. Udp4_7Azimuths(u) = IF f.version = 1 THEN Lasers("azi") ELSE Lasers("pair")
    BY <1>4, <2>3 DEF Udp4_7Azimuths
  <2> QED BY <2>1, <2>2, <2>3, <2>4, LasersAreCells
<1> HIDE DEF W
<1>5. Keeps(LoadDat(t, f, 1..3, W, n), f, n)
  BY <1>1, <1>2, <1>3, <1>4, DatKeeps
<1> QED BY <1>5 DEF Udp4_7LoadString, W

\* The loader of Udp2_5Parser, with the .csv reader behind the binary one.
LEMMA Udp2_5Keeps ==
  ASSUME NEW t, IsTable(t), NEW f \in Sources, NEW n \in Int, parser = "2_5"
  PROVE  Keeps(Udp2_5LoadString(t, f, n), f, n)
<1> DEFINE s == [t EXCEPT !.min_version = Udp2_5MinVersion(t, f)]
           W == CASE f.version = 1 -> Udp2_5V1(f) [] f.version = 2 -> Udp2_5V2(f)
                  [] f.version = 3 -> Udp2_5V3(f) [] OTHER -> Udp2_5V4(f)
           d == LoadDat(s, f, 1..4, W, n)
<1>1. parser \in AllParsers \ Generals
  BY DEF AllParsers, Generals
<1>2. Udp2_5MinVersion(t, f) \in 0..5
  BY SourceTypes DEF Udp2_5MinVersion, IsTable
<1>3. IsTable(s) /\ s.min_version = Udp2_5MinVersion(t, f)
  BY <1>2 DEF IsTable
<1>4. Udp2_5LoadString(t, f, n) = IF d.ret = 0 THEN d ELSE EtLoadCsv(d.tab, f, n)
  BY DEF Udp2_5LoadString, Udp2_5LoadDat, Udp2_5LoadCsv
<1>5. Whole(f) => Fits(f, 1..4)
  BY <1>1, WholeDat DEF Fits
<1> HIDE DEF s
<1>6. d.ret \in {0, -1} /\ IsTable(d.tab) /\ (d.ret = 0 <=> Fits(f, 1..4))
  BY <1>3, LoadDatIs
<1>7. ASSUME Whole(f)
      PROVE  Keeps(d, f, n)
  <2>1. Fits(f, 1..4)
    BY <1>5, <1>7
  <2>2. s.min_version = f.version
    BY <1>3, <2>1 DEF Fits, Udp2_5MinVersion
  <2>3. ASSUME NEW u, u.version = f.version, u.min_version = s.min_version
        PROVE  DecodeReads(u) \cup ComputeReads(u) \subseteq W \cap Cells
    <3>1. u.min_version = f.version
      BY <2>2, <2>3
    <3>2. DecodeReads(u) \cup ComputeReads(u) =
            {Lead} \cup Lasers("ang")
              \cup (IF f.version = 4 THEN Mirrors(MirrorNum) ELSE {Gamma})
              \cup (IF f.version \in {2, 3, 4} THEN {Adjust} ELSE {})
      BY <2>3, <3>1 DEF DecodeReads, ComputeReads, Udp2_5ComputeXYZI
    <3>3. {Lead, Gamma} \cup Lasers("ang") \subseteq EtCells(f) \cap Cells
      BY <1>1, <1>7, WholeDat, EtCellsIn
    <3>4. f.version = 1 \/ f.version = 2 \/ f.version = 3 \/ f.version = 4
      BY <2>1 DEF Fits
    <3>5. Gamma # Lead /\ Gamma \notin Lasers("ang")
      BY DEF Gamma, Lead, Lasers, Channels
    <3>6. CASE f.version = 1
      BY <3>2, <3>3, <3>6 DEF Udp2_5V1
    <3>7. CASE f.version = 2 \/ f.version = 3
      BY <3>2, <3>3, <3>7, LasersAreCells DEF Udp2_5V2, Udp2_5V3
    <3>8. CASE f.version = 4
      <4>1. W = (EtCells(f) \ {Gamma}) \cup {Adjust} \cup Mirrors(f.mirrors)
        BY <3>8 DEF Udp2_5V4
      <4>2. DecodeReads(u) \cup ComputeReads(u) = {Lead, Adjust} \cup Mirrors(MirrorNum) \cup Lasers("ang")
        BY <3>2, <3>8
      <4>3. Mirrors(MirrorNum) \subseteq Mirrors(f.mirrors)
        BY <1>1, <1>7, <3>8, WholeDat, MirrorsIn
      <4> HIDE DEF W
      <4> QED BY <3>3, <3>5, <4>1, <4>2, <4>3, LasersAreCells
    <3> QED BY <3>4, <3>6, <3>7, <3>8
  <2> HIDE DEF W
  <2> QED BY <1>1, <1>3, <1>7, <2>1, <2>2, <2>3, DatKeeps
<1> HIDE DEF d
<1>8. CASE d.ret = 0
  <2>1. Udp2_5LoadString(t, f, n) = d
    BY <1>4, <1>8
  <2> QED BY <1>6, <1>7, <1>8, <2>1 DEF Keeps
<1>9. CASE d.ret # 0
  <2>1. Udp2_5LoadString(t, f, n) = EtLoadCsv(d.tab, f, n)
    BY <1>4, <1>9
  <2>2. ~Whole(f)
    BY <1>5, <1>6, <1>9
  <2>3. EtLoadCsv(d.tab, f, n).ret = 0 /\ IsTable(EtLoadCsv(d.tab, f, n).tab)
    BY <1>6, EtCsvTyped
  <2> QED BY <2>1, <2>2, <2>3 DEF Keeps
<1> QED BY <1>8, <1>9

\* The loader of Udp2_6Parser, likewise.
LEMMA Udp2_6Keeps ==
  ASSUME NEW t, IsTable(t), NEW f \in Sources, NEW n \in Int, parser = "2_6"
  PROVE  Keeps(Udp2_6LoadString(t, f, n), f, n)
<1> DEFINE W == EtCells(f) \cup (IF f.version = 2 THEN {Adjust} ELSE {})
           d == LoadDat(t, f, {1, 2}, W, n)
<1>1. parser \in AllParsers \ Generals
  BY DEF AllParsers, Generals
<1>2. Udp2_6LoadString(t, f, n) = IF d.ret = 0 THEN d ELSE EtLoadCsv(d.tab, f, n)
  BY DEF Udp2_6LoadString, Udp2_6LoadDat, Udp2_6LoadCsv
<1>3. Whole(f) => Fits(f, {1, 2})
  BY <1>1, WholeDat DEF Fits
<1>4. d.ret \in {0, -1} /\ IsTable(d.tab) /\ (d.ret = 0 <=> Fits(f, {1, 2}))
  BY LoadDatIs
<1>5. ASSUME Whole(f)
      PROVE  Keeps(d, f, n)
  <2>1. Fits(f, {1, 2})
    BY <1>3, <1>5
  <2>2. ASSUME NEW u, u.version = f.version
        PROVE  DecodeReads(u) \cup ComputeReads(u) \subseteq W \cap Cells
    <3>1. f.version = 1 \/ f.version = 2
      BY <2>1 DEF Fits
    <3>2. DecodeReads(u) \cup ComputeReads(u) =
            {Lead, Gamma} \cup Channels("ang", SeqChannels)
              \cup (IF f.version = 2 THEN {Adjust} ELSE {})
      BY <2>2, <3>1 DEF DecodeReads, ComputeReads, Udp2_6ComputeXYZI
    <3>3. {Lead, Gamma} \cup Channels("ang", SeqChannels) \subseteq EtCells(f) \cap Cells
      BY <1>1, <1>5, WholeDat, EtSequenceIn
    <3> QED BY <3>2, <3>3, LasersAreCells
  <2> HIDE DEF W
  <2>3. parser # "2_5"
    OBVIOUS
  <2> QED BY <1>1, <1>5, <2>1, <2>2, <2>3, DatKeeps
<1> HIDE DEF d
<1>6. CASE d.ret = 0
  <2>1. Udp2_6LoadString(t, f, n) = d
    BY <1>2, <1>6
  <2> QED BY <1>4, <1>5, <1>6, <2>1 DEF Keeps
<1>7. CASE d.ret # 0
  <2>1. Udp2_6LoadString(t, f, n) = EtLoadCsv(d.tab, f, n)
    BY <1>2, <1>7
  <2>2. ~Whole(f)
    BY <1>3, <1>4, <1>7
  <2>3. EtLoadCsv(d.tab, f, n).ret = 0 /\ IsTable(EtLoadCsv(d.tab, f, n).tab)
    BY <1>4, EtCsvTyped
  <2> QED BY <2>1, <2>2, <2>3 DEF Keeps
<1> QED BY <1>6, <1>7

\* What the binary loader of Udp7_2Parser leaves behind.
LEMMA Udp7_2DatIs ==
  ASSUME NEW t, IsTable(t), NEW f, NEW n \in Int
  PROVE  LET r == Udp7_2LoadDat(t, f, n)
         IN  /\ r.ret \in {0, -1} /\ IsTable(r.tab)
             /\ r.ret = 0 => r.tab.loaded
             /\ r.ret = -1 => r.tab = t
             /\ f.kind = "dat" /\ f.version = 1 =>
                  /\ r.ret = 0
                  /\ \A c \in Cells : c \in Channels("ang", f.channels) => r.tab.cells[c] = n
<1> DEFINE W == Cells \cap Channels("ang", f.channels)
           m == IF f.version = 0 THEN Junk ELSE n
           r == Udp7_2LoadDat(t, f, n)
           a == Accept(t, W, m)
<1>1. m \in Int
  BY DEF Junk
<1> HIDE DEF W, m
<1>2. /\ a.ret = 0 /\ IsTable(a.tab) /\ a.tab.loaded
      /\ \A c \in Cells : c \in W => a.tab.cells[c] = m
  BY <1>1, AcceptIs
<1>3. CASE f.kind # "dat" \/ f.version \notin {0, 1}
  <2>1. r = Refuse(t)
    BY <1>3 DEF Udp7_2LoadDat
  <2> QED BY <1>3, <2>1 DEF Refuse
<1>4. CASE ~(f.kind # "dat" \/ f.version \notin {0, 1})
  <2>1. r = a
    BY <1>4 DEF Udp7_2LoadDat, W, m
  <2> HIDE DEF r, a
  <2>2. f.version = 1 => m = n
    BY DEF m
  <2>3. \A c \in Cells : c \in Channels("ang", f.channels) => c \in W
    BY DEF W
  <2> QED BY <1>2, <2>1, <2>2, <2>3 DEF r
<1> QED BY <1>3, <1>4

\* What its .csv loader leaves behind.
LEMMA Udp7_2CsvIs ==
  ASSUME NEW t, IsTable(t), NEW f, NEW n \in Int
  PROVE  LET r == Udp7_2LoadCsv(t, f, n)
         IN  r.ret \in {0, -1} /\ IsTable(r.tab) /\ (t.loaded => r.tab.loaded)
<1> DEFINE short == {i \in DOMAIN f.lines : f.lines[i] = "short"}
           read == {i \in DOMAIN f.lines : f.lines[i] = "good" /\ \A s \in short : i < s}
           W == {Angle[i] : i \in read}
           a == Accept(t, W, n)
           b == [Refuse(a.tab) EXCEPT !.tab.loaded = t.loaded]
           r == Udp7_2LoadCsv(t, f, n)
<1>1. r = IF short = {} THEN a ELSE b
  BY DEF Udp7_2LoadCsv
<1> HIDE DEF W, short, r
<1>2. a.ret = 0 /\ IsTable(a.tab) /\ a.tab.loaded
  BY AcceptIs
<1>3. b.ret = -1 /\ IsTable(b.tab) /\ b.tab.loaded = t.loaded
  BY <1>2 DEF Refuse, IsTable
<1> HIDE DEF a, b
<1> QED BY <1>1, <1>2, <1>3 DEF r

\* The loader of Udp7_2Parser, which tries one after the other.
LEMMA Udp7_2Keeps ==
  ASSUME NEW t, IsTable(t), NEW f \in Sources, NEW n \in Int, parser = "7_2"
  PROVE  Keeps(Udp7_2LoadString(t, f, n), f, n)
<1> DEFINE d == Udp7_2LoadDat(t, f, n)
           r == Udp7_2LoadString(t, f, n)
<1>1. parser \in AllParsers \ Generals
  BY DEF AllParsers, Generals
<1>2. r = IF d.ret = 0 THEN d ELSE Udp7_2LoadCsv(t, f, n)
  BY DEF Udp7_2LoadString
<1>3. /\ d.ret \in {0, -1} /\ IsTable(d.tab)
      /\ d.ret = 0 => d.tab.loaded
      /\ f.kind = "dat" /\ f.version = 1 =>
           /\ d.ret = 0
           /\ \A c \in Cells : c \in Channels("ang", f.channels) => d.tab.cells[c] = n
  BY Udp7_2DatIs
<1>4. LET q == Udp7_2LoadCsv(t, f, n) IN q.ret \in {0, -1} /\ IsTable(q.tab)
  BY Udp7_2CsvIs
<1> HIDE DEF d, r
<1>5. r.ret \in {0, -1} /\ IsTable(r.tab)
  BY <1>2, <1>3, <1>4
<1>6. ASSUME Whole(f) PROVE r.ret = 0 /\ Holds(r.tab, f, n)
  <2>1. /\ f.kind = "dat" /\ f.version = 1
        /\ f.channels \in Nat /\ f.channels >= LaserNum
    BY <1>1, <1>6, WholeDat
  <2>2. r = d /\ d.ret = 0
    BY <1>2, <1>3, <2>1
  <2>3. DecodeReads(r.tab) \cup ComputeReads(r.tab) = Lasers("ang")
    BY DEF DecodeReads, ComputeReads, Udp7_2Angles
  <2>4. \A c \in Lasers("ang") : r.tab.cells[c] = n
    BY <1>3, <2>1, <2>2, LasersIn, LasersAreCells
  <2> QED BY <1>1, <1>3, <2>2, <2>3, <2>4 DEF Holds, Origin
<1>7. Refused(f)
  BY DEF Refused
<1> QED BY <1>5, <1>6, <1>7 DEF Keeps, r

\* Every LoadCorrectionString keeps the promise.
LEMMA LoadStringKeeps ==
  ASSUME NEW t, IsTable(t), NEW f \in Sources, NEW n \in Int, parser \in AllParsers
  PROVE  Keeps(LoadString(t, f, n), f, n)
<1>1. CASE parser \in Generals
  BY <1>1, GeneralKeeps DEF LoadString, Generals
<1>2. CASE parser = "2_4"
  BY <1>2, Udp2_4Keeps DEF LoadString, Generals
<1>3. CASE parser = "2_5"
  BY <1>3, Udp2_5Keeps DEF LoadString, Generals
<1>4. CASE parser = "2_6"
  BY <1>4, Udp2_6Keeps DEF LoadString, Generals
<1>5. CASE parser = "4_3"
  BY <1>5, Udp4_3Keeps DEF LoadString, Generals
<1>6. CASE parser = "4_7"
  BY <1>6, Udp4_7Keeps DEF LoadString, Generals
<1>7. CASE parser = "7_2"
  BY <1>7, Udp7_2Keeps DEF LoadString, Generals
<1> QED BY <1>1, <1>2, <1>3, <1>4, <1>5, <1>6, <1>7 DEF AllParsers

\* A missing file is refused, any other is loaded as a string.
LEMMA FromFileKeeps ==
  ASSUME NEW t, IsTable(t), NEW f \in Sources, NEW n, NEW r, Keeps(r, f, n)
  PROVE  Keeps(FromFile(t, f, r), f, n)
<1>1. CASE f.kind = "missing"
  <2>1. f = Missing
    BY <1>1, SourceTypes
  <2>2. FromFile(t, f, r) = [ret |-> -1, tab |-> t]
    BY <1>1 DEF FromFile, Refuse
  <2> QED BY <2>1, <2>2, MissingIsNotWhole DEF Keeps, Refused
<1>2. CASE f.kind # "missing"
  BY <1>2 DEF FromFile
<1> QED BY <1>1, <1>2

\* Udp2_4 reads a .csv by itself.
LEMMA Udp2_4CsvTyped ==
  ASSUME NEW t, IsTable(t), NEW f, NEW n \in Int
  PROVE  Udp2_4LoadCsv(t, f, n).ret = 0 /\ IsTable(Udp2_4LoadCsv(t, f, n).tab)
<1> DEFINE C == [c \in Cells |-> IF \E k \in DOMAIN Counted(f) : EtEntry[k] = c THEN n ELSE t.cells[c]]
<1>1. C \in [Cells -> Int]
  BY DEF IsTable
<1>2. Udp2_4LoadCsv(t, f, n) =
        [ret |-> 0, tab |-> [t EXCEPT !.loaded = TRUE, !.version = 1, !.cells = C]]
  BY DEF Udp2_4LoadCsv, IsTable
<1> HIDE DEF C
<1> DEFINE u == [t EXCEPT !.loaded = TRUE, !.version = 1, !.cells = C]
<1>3. IsTable(u)
  <2> DEFINE h == [t EXCEPT !.version = 1]
  <2>1. 1 \in 0..5
    OBVIOUS
  <2>2. IsTable(h)
    BY <2>1 DEF IsTable
  <2>3. u = [h EXCEPT !.loaded = TRUE, !.cells = C]
    BY DEF IsTable
  <2> HIDE DEF h, u
  <2> QED BY <1>1, <2>2, <2>3 DEF IsTable
<1> HIDE DEF u
<1>4. Udp2_4LoadCsv(t, f, n) = [ret |-> 0, tab |-> u]
  BY <1>2 DEF u
<1> QED BY <1>3, <1>4

\* Every LoadCorrectionFile does.
LEMMA LoadFileKeeps ==
  ASSUME NEW t, IsTable(t), NEW f \in Sources, NEW n \in Int, parser \in AllParsers
  PROVE  Keeps(LoadFile(t, f, n), f, n)
<1>1. CASE parser \in Generals
  <2>1. LoadFile(t, f, n) = FromFile(t, f, GeneralLoadString(t, f, n))
    BY <1>1 DEF LoadFile, Generals, GeneralLoadFile
  <2> QED BY <1>1, <2>1, GeneralKeeps, FromFileKeeps
<1>2. CASE parser = "2_4"
  <2> DEFINE r == IF f.kind = "csv" THEN Udp2_4LoadCsv(t, f, n) ELSE Udp2_4LoadString(t, f, n)
  <2>1. LoadFile(t, f, n) = FromFile(t, f, r)
    BY <1>2 DEF LoadFile, Generals, Udp2_4LoadFile
  <2>2. Keeps(r, f, n)
    <3>1. CASE f.kind = "csv"
      <4>1. ~Whole(f)
        BY <1>2, <3>1 DEF Whole, Generals
      <4> QED BY <3>1, <4>1, Udp2_4CsvTyped DEF Keeps
    <3>2. CASE f.kind # "csv"
      BY <1>2, <3>2, Udp2_4Keeps
    <3> QED BY <3>1, <3>2
  <2> HIDE DEF r
  <2> QED BY <2>1, <2>2, FromFileKeeps
<1>3. CASE parser = "2_5"
  <2>1. LoadFile(t, f, n) = FromFile(t, f, Udp2_5LoadString(t, f, n))
    BY <1>3 DEF LoadFile, Generals, Udp2_5LoadFile
  <2> QED BY <1>3, <2>1, Udp2_5Keeps, FromFileKeeps
<1>4. CASE parser = "2_6"
  <2>1. LoadFile(t, f, n) = FromFile(t, f, Udp2_6LoadString(t, f, n))
    BY <1>4 DEF LoadFile, Generals, Udp2_6LoadFile
  <2> QED BY <1>4, <2>1, Udp2_6Keeps, FromFileKeeps
<1>5. CASE parser = "4_3"
  <2>1. LoadFile(t, f, n) = FromFile(t, f, Udp4_3LoadString(t, f, n))
    BY <1>5 DEF LoadFile, Generals, Udp4_3LoadFile
  <2> QED BY <1>5, <2>1, Udp4_3Keeps, FromFileKeeps
<1>6. CASE parser = "4_7"
  <2>1. LoadFile(t, f, n) = FromFile(t, f, Udp4_7LoadString(t, f, n))
    BY <1>6 DEF LoadFile, Generals, Udp4_7LoadFile
  <2> QED BY <1>6, <2>1, Udp4_7Keeps, FromFileKeeps
<1>7. CASE parser = "7_2"
  <2>1. LoadFile(t, f, n) = FromFile(t, f, Udp7_2LoadString(t, f, n))
    BY <1>7 DEF LoadFile, Generals, Udp7_2LoadFile
  <2> QED BY <1>7, <2>1, Udp7_2Keeps, FromFileKeeps
<1> QED BY <1>1, <1>2, <1>3, <1>4, <1>5, <1>6, <1>7 DEF AllParsers

-----------------------------------------------------------------------------
(* The loaders of the GPU parsers *)

\* What the kernels read after file f, and what ComputeXYZI does.
Reads(f) ==
  CASE parser \in Generals -> Lasers("ang")
    [] parser = "2_5" -> {Lead} \cup Lasers("ang")
                           \cup (IF f.version = 4 THEN Mirrors(MirrorNum) ELSE {Gamma})
                           \cup (IF f.version \in {2, 3, 4} THEN {Adjust} ELSE {})
    [] parser = "2_6" -> {Lead, Gamma} \cup Channels("ang", SeqChannels)
                           \cup (IF f.version = 2 THEN {Adjust} ELSE {})
    [] parser = "4_3" -> {Fields, Adjust} \cup Lasers("ang")
    [] parser = "4_7" -> Lasers("ang") \cup (IF f.version = 3 THEN {Adjust} ELSE {})
    [] parser = "7_2" -> {}

\* A GPU table holds all that the kernel reads of file f.
GpuHolds(t, f, n) ==
  /\ t.loaded /\ KernelReads(t) \ Beyond = Reads(f)
  /\ \A c \in Reads(f) : Origin(t, c) = n

\* All but Udp2_6 have a kernel of their own, which reads no more than they do.
LEMMA OwnKernel ==
  ASSUME parser # "2_6"
  PROVE  GpuParser = parser /\ Beyond = {} /\ \A t : KernelReads(t) \ Beyond = KernelReads(t)
BY DEF GpuParser, Beyond

\* Both read the same cells.
LEMMA CpuReads ==
  ASSUME parser \in GpuParsers, NEW t, NEW f \in Sources, NEW n, Whole(f), Holds(t, f, n)
  PROVE  ComputeReads(t) = Reads(f)
<1>1. CASE parser \in Generals
  BY <1>1 DEF Reads, Generals, ComputeReads, GeneralReads, Udp1_4ComputeXYZI,
     Udp3_1ComputeXYZI, Udp3_2ComputeXYZI, Udp6_1ComputeXYZI, UdpP40ComputeXYZI,
     UdpP64ComputeXYZI
<1>2. CASE parser = "2_5"
  <2>1. t.version = f.version /\ t.min_version = f.version
    BY <1>2 DEF Holds
  <2>2. ComputeReads(t) = Udp2_5ComputeXYZI(t)
    BY <1>2 DEF ComputeReads
  <2> QED BY <1>2, <2>1, <2>2 DEF Reads, Generals, Udp2_5ComputeXYZI
<1>3. CASE parser = "4_3"
  BY <1>3 DEF Reads, Generals, ComputeReads, Udp4_3ComputeXYZI
<1>4. CASE parser = "4_7"
  <2>1. t.version = f.version
    BY <1>4 DEF Holds
  <2> QED BY <1>4, <2>1 DEF Reads, Generals, ComputeReads, Udp4_7ComputeXYZI
<1>5. CASE parser = "7_2"
  BY <1>5 DEF Reads, Generals, ComputeReads
<1>6. CASE parser = "2_6"
  <2>1. t.version = f.version
    BY <1>6 DEF Holds
  <2>2. parser \in AllParsers \ Generals
    BY <1>6 DEF AllParsers, Generals
  <2>3. f.version \in {1, 2}
    BY <1>6, <2>2, WholeDat
  <2>4. ComputeReads(t) = Udp2_6ComputeXYZI(t)
    BY <1>6 DEF ComputeReads
  <2> QED BY <1>6, <2>1, <2>3, <2>4 DEF Reads, Generals, Udp2_6ComputeXYZI
<1> QED BY <1>1, <1>2, <1>3, <1>4, <1>5, <1>6 DEF GpuParsers, AllParsers

\* Two tables that hold the same whole file give the same points.
LEMMA BothAgree ==
  ASSUME parser \in GpuParsers, NEW t, NEW u, NEW f \in Sources, NEW n, Whole(f),
         Holds(t, f, n), GpuHolds(u, f, n)
  PROVE  u.loaded /\ Used(u, KernelReads(u) \ Beyond) = Used(t, ComputeReads(t))
<1>1. ComputeReads(t) = Reads(f) /\ KernelReads(u) \ Beyond = Reads(f) /\ u.loaded
  BY CpuReads DEF GpuHolds
<1>2. \A c \in Reads(f) : Origin(t, c) = n /\ Origin(u, c) = n
  BY <1>1 DEF Holds, GpuHolds
<1> QED BY <1>1, <1>2 DEF Used

\* The promise of a GPU loader.  Only Udp7_2's may refuse a file that is
\* whole, and it has marked the tables as loaded by then.
GpuKeeps(r, t, f, n) ==
  /\ IsTable(r.tab) /\ r.ret \in {0, -1}
  /\ t.loaded => r.tab.loaded
  /\ Whole(f) => /\ r.ret = 0 \/ parser = "7_2"
                 /\ parser \in Generals /\ ~t.loaded => GpuHolds(r.tab, f, n)
                 /\ parser \notin Generals => GpuHolds(r.tab, f, n)
  /\ parser \in Generals /\ t.loaded => r.tab = t
  /\ parser \in {"4_3", "4_7"} /\ Refused(f) => r.ret = -1

\* The .csv loader that most GPU parsers share.
LEMMA GpuCsvKeeps ==
  ASSUME NEW t, IsTable(t), NEW f \in Sources, NEW n \in Int, parser \in Generals
  PROVE  GpuKeeps(GpuCsv(t, f, n), t, f, n)
<1> DEFINE J == [c \in Cells |-> Junk]
           C == StoreLines(J, f, n, Angle)
           r == GpuCsv(t, f, n)
<1>1. parser \notin {"2_5", "2_6", "4_3", "4_7", "7_2"}
  BY DEF Generals
<1>2. J \in [Cells -> Int]
  BY DEF Junk
<1>3. C \in [Cells -> Int]
  BY <1>2, StoreLinesTyped
<1> HIDE DEF J, C
<1>4. CASE f.kind = "missing"
  <2>1. ~Whole(f)
    BY <1>4 DEF Whole
  <2>2. r = [ret |-> -1, tab |-> t]
    BY <1>4 DEF GpuCsv, Refuse
  <2> QED BY <1>1, <2>1, <2>2 DEF GpuKeeps
<1>5. CASE f.kind # "missing" /\ t.loaded
  <2>1. r = [ret |-> 0, tab |-> t]
    BY <1>5 DEF GpuCsv
  <2> QED BY <1>1, <1>5, <2>1 DEF GpuKeeps
<1>6. CASE f.kind # "missing" /\ ~t.loaded
  <2> DEFINE u == [t EXCEPT !.loaded = TRUE, !.size = MaxChannels, !.cells = C]
  <2>1. IsTable(u) /\ u.loaded /\ u.size = MaxChannels /\ u.cells = C
    BY <1>3 DEF IsTable
  <2>2. /\ r.ret = 0 /\ IsTable(r.tab) /\ r.tab.loaded /\ r.tab.size = MaxChannels
        /\ r.tab.cells = C
    <3>1. r = [ret |-> 0, tab |-> u]
      BY <1>6 DEF GpuCsv, C, J
    <3> HIDE DEF u, r
    <3> QED BY <2>1, <3>1
  <2> HIDE DEF r
  <2>3. ASSUME Whole(f) PROVE GpuHolds(r.tab, f, n)
    <3>1. \A c \in Lasers("ang") : C[c] = n
      BY <2>3, StoreLinesWhole DEF Whole, C
    <3>2. Reads(f) = Lasers("ang") /\ KernelReads(r.tab) \ Beyond = Lasers("ang")
      BY <1>1, OwnKernel DEF Reads, KernelReads, Generals, GeneralReads, Udp1_4Kernel, Udp3_1Kernel,
             Udp3_2Kernel, Udp6_1Kernel, UdpP40Kernel, UdpP64Kernel
    <3>3. \A c \in Lasers("ang") : ~(c[2] > r.tab.size)
      BY <2>2, CorrectionsAssumption DEF Lasers, Channels
    <3> QED BY <2>2, <3>1, <3>2, <3>3 DEF GpuHolds, Origin
  <2> QED BY <1>1, <1>6, <2>2, <2>3 DEF GpuKeeps, r
<1> QED BY <1>4, <1>5, <1>6

\* A file that cannot be opened changes nothing on the device.
LEMMA GpuMissingKeeps ==
  ASSUME NEW t, IsTable(t), NEW f \in Sources, NEW n, NEW r, f.kind = "missing"
  PROVE  FromFile(t, f, r) = [ret |-> -1, tab |-> t] /\ GpuKeeps(FromFile(t, f, r), t, f, n)
<1>1. FromFile(t, f, r) = [ret |-> -1, tab |-> t]
  BY DEF FromFile, Refuse
<1>2. ~Whole(f)
  BY SourceTypes, MissingIsNotWhole
<1> QED BY <1>1, <1>2 DEF GpuKeeps

\* What the kernel of Udp2_5ParserGpu shares with either parser's ComputeXYZI
\* after a file of a version that the parser knows.
LEMMA Udp2_5KernelReads ==
  ASSUME parser \in {"2_5", "2_6"}, NEW t, NEW f, t.min_version = f.version,
         f.version \in 1..4, parser = "2_6" => f.version \in {1, 2}
  PROVE  KernelReads(t) \ Beyond = Reads(f)
<1>1. KernelReads(t) = Udp2_5Kernels(t)
  BY DEF KernelReads, GpuParser
<1>2. f.version = 1 \/ f.version = 2 \/ f.version = 3 \/ f.version = 4
  OBVIOUS
<1>3. Udp2_5Kernels(t) = {Lead} \cup Lasers("ang")
                           \cup (IF f.version = 4 THEN Mirrors(MirrorNum) ELSE {Gamma})
                           \cup (IF f.version \in {2, 3, 4} THEN {Adjust} ELSE {})
  BY <1>2 DEF Udp2_5Kernels, Udp2_5KernelV1, Udp2_5KernelV2V3, Udp2_5KernelV4
<1>4. CASE parser = "2_5"
  <2>1. Reads(f) = Udp2_5Kernels(t)
    BY <1>3, <1>4 DEF Reads, Generals
  <2> QED BY <1>1, <1>4, <2>1, OwnKernel
<1>5. CASE parser = "2_6"
  <2>1. Reads(f) = {Lead, Gamma} \cup Channels("ang", SeqChannels)
                     \cup (IF f.version = 2 THEN {Adjust} ELSE {})
    BY <1>5 DEF Reads, Generals
  <2>2. Beyond = Lasers("ang") \ Channels("ang", SeqChannels)
    BY <1>5 DEF Beyond
  <2>3. Lead \notin Lasers("ang") /\ Gamma \notin Lasers("ang") /\ Adjust \notin Lasers("ang")
    BY DEF Lead, Gamma, Adjust, Lasers, Channels
  <2>4. Channels("ang", SeqChannels) \subseteq Lasers("ang")
    BY LasersAreCells
  <2>5. Udp2_5Kernels(t) = {Lead, Gamma} \cup Lasers("ang")
                             \cup (IF f.version = 2 THEN {Adjust} ELSE {})
    BY <1>3, <1>5
  <2> QED BY <1>1, <2>1, <2>2, <2>3, <2>4, <2>5
<1> QED BY <1>4, <1>5

\* The loader of Udp2_5ParserGpu, which has the packets of Udp2_6 too.
LEMMA Udp2_5GpuKeeps ==
  ASSUME NEW t, IsTable(t), NEW f \in Sources, NEW n \in Int, parser \in {"2_5", "2_6"}
  PROVE  GpuKeeps(Udp2_5GpuLoad(t, f, n), t, f, n)
<1> DEFINE m == IF f.kind = "dat" /\ f.version \in 1..4 THEN f.version ELSE t.min_version
           s == [t EXCEPT !.min_version = m]
           W == CASE f.version = 1 -> Udp2_5GpuV1(f) [] f.version = 2 -> Udp2_5GpuV2(f)
                  [] f.version = 3 -> Udp2_5GpuV3(f) [] OTHER -> Udp2_5GpuV4(f)
           d == LoadDat(s, f, 1..4, W, n)
           r == IF d.ret = 0 THEN d ELSE EtLoadCsv(d.tab, f, n)
<1>1. parser \in AllParsers \ Generals /\ parser \notin Generals
  BY DEF AllParsers, Generals
<1>2. m \in 0..5
  BY SourceTypes DEF IsTable
<1>3. Udp2_5GpuLoad(t, f, n) = FromFile(t, f, r)
  BY DEF Udp2_5GpuLoad, Udp2_5GpuLoadDat, Udp2_5GpuLoadCsv, IsTable
<1>4. ASSUME Whole(f) PROVE Fits(f, 1..4)
  <2>1. f.version \in 1..4
    BY <1>1, <1>4, WholeDat
  <2> QED BY <1>1, <1>4, <2>1, WholeDat DEF Fits
<1>5. Fits(f, 1..4) => m = f.version
  BY DEF Fits
<1> HIDE DEF m
<1>6. IsTable(s) /\ s.min_version = m /\ s.loaded = t.loaded
  BY <1>2 DEF IsTable
<1> HIDE DEF s
<1>7. /\ d.ret \in {0, -1} /\ IsTable(d.tab) /\ d.tab.min_version = s.min_version
      /\ d.ret = 0 <=> Fits(f, 1..4)
      /\ Fits(f, 1..4) => /\ d.tab.loaded /\ d.tab.version = f.version
                          /\ \A c \in Cells : c \in W => d.tab.cells[c] = n
  BY <1>6, LoadDatIs
<1>8. ASSUME Whole(f)
      PROVE  r.ret = 0 /\ GpuHolds(r.tab, f, n)
  <2>1. Fits(f, 1..4)
    BY <1>4, <1>8
  <2>2. f.version = 1 \/ f.version = 2 \/ f.version = 3 \/ f.version = 4
    BY <2>1 DEF Fits
  <2>6. Reads(f) \subseteq W \cap Cells
    <3>1. CASE parser = "2_5"
      <4>1. {Lead, Gamma} \cup Lasers("ang") \subseteq EtCells(f) \cap Cells
        BY <1>1, <1>8, <3>1, WholeDat, EtCellsIn
      <4>2. Gamma # Lead /\ Gamma \notin Lasers("ang")
        BY DEF Gamma, Lead, Lasers, Channels
      <4>3. Reads(f) = {Lead} \cup Lasers("ang")
                         \cup (IF f.version = 4 THEN Mirrors(MirrorNum) ELSE {Gamma})
                         \cup (IF f.version \in {2, 3, 4} THEN {Adjust} ELSE {})
        BY <1>1, <3>1 DEF Reads
      <4>4. CASE f.version = 1
        BY <4>1, <4>3, <4>4 DEF Udp2_5GpuV1
      <4>5. CASE f.version = 2 \/ f.version = 3
        BY <4>1, <4>3, <4>5, LasersAreCells DEF Udp2_5GpuV2, Udp2_5GpuV3
      <4>6. CASE f.version = 4
        <5>1. W = (EtCells(f) \ {Gamma}) \cup {Adjust} \cup Mirrors(f.mirrors)
          BY <4>6 DEF Udp2_5GpuV4
        <5>2. Reads(f) = {Lead, Adjust} \cup Mirrors(MirrorNum) \cup Lasers("ang")
          BY <4>3, <4>6
        <5>3. Mirrors(MirrorNum) \subseteq Mirrors(f.mirrors)
          BY <1>1, <1>8, <3>1, <4>6, WholeDat, MirrorsIn
        <5> HIDE DEF W
        <5> QED BY <4>1, <4>2, <5>1, <5>2, <5>3, LasersAreCells
      <4> QED BY <2>2, <4>4, <4>5, <4>6
    <3>2. CASE parser = "2_6"
      <4>1. {Lead, Gamma} \cup Channels("ang", SeqChannels) \subseteq EtCells(f) \cap Cells
        BY <1>1, <1>8, <3>2, WholeDat, EtSequenceIn
      <4>2. Reads(f) = {Lead, Gamma} \cup Channels("ang", SeqChannels)
                         \cup (IF f.version = 2 THEN {Adjust} ELSE {})
        BY <1>1, <3>2 DEF Reads
      <4>3. CASE f.version = 1
        BY <4>1, <4>2, <4>3 DEF Udp2_5GpuV1
      <4>4. CASE f.version = 2
        BY <4>1, <4>2, <4>4, LasersAreCells DEF Udp2_5GpuV2
      <4> QED BY <1>1, <1>8, <3>2, <4>3, <4>4, WholeDat
    <3> QED BY <3>1, <3>2
  <2> HIDE DEF d, W
  <2>7. r = d /\ d.ret = 0 /\ d.tab.min_version = f.version
    BY <1>5, <1>6, <1>7, <2>1
  <2>8. KernelReads(d.tab) \ Beyond = Reads(f)
    <3>1. f.version \in 1..4 /\ (parser = "2_6" => f.version \in {1, 2})
      BY <1>1, <1>8, <2>2, WholeDat
    <3> QED BY <2>7, <3>1, Udp2_5KernelReads
  <2>9. \A c \in Reads(f) : d.tab.cells[c] = n
    BY <1>7, <2>1, <2>6
  <2> QED BY <1>1, <1>7, <2>1, <2>7, <2>8, <2>9 DEF GpuHolds, Origin
<1>9. r.ret = 0 /\ IsTable(r.tab) /\ r.tab.loaded
  <2> HIDE DEF d
  <2>1. EtLoadCsv(d.tab, f, n).ret = 0 /\ IsTable(EtLoadCsv(d.tab, f, n).tab)
        /\ EtLoadCsv(d.tab, f, n).tab.loaded
    BY <1>7, EtCsvTyped
  <2> QED BY <1>7, <2>1
<1> HIDE DEF r
<1>10. CASE f.kind = "missing"
  BY <1>3, <1>10, GpuMissingKeeps
<1>11. CASE f.kind # "missing"
  <2>1. Udp2_5GpuLoad(t, f, n) = r
    BY <1>3, <1>11 DEF FromFile
  <2> QED BY <1>1, <1>8, <1>9, <2>1 DEF GpuKeeps
<1> QED BY <1>10, <1>11

\* The two that share LoadDat with the CPU parser.
LEMMA GpuDatKeeps ==
  ASSUME NEW t, IsTable(t), NEW f \in Sources, NEW n \in Int, NEW V, NEW W,
         parser \in {"4_3", "4_7"},
         Whole(f) => Fits(f, V) /\ Reads(f) \subseteq W \cap Cells,
         Refused(f) <=> f = Missing \/ ~Fits(f, V),
         \A u : u.version = f.version => KernelReads(u) \ Beyond = Reads(f)
  PROVE  GpuKeeps(FromFile(t, f, LoadDat(t, f, V, W, n)), t, f, n)
<1> DEFINE r == LoadDat(t, f, V, W, n)
<1>1. parser \notin Generals /\ parser # "7_2"
  BY DEF Generals
<1>2. /\ r.ret \in {0, -1} /\ IsTable(r.tab)
      /\ r.ret = 0 <=> Fits(f, V)
      /\ Fits(f, V) => /\ r.tab.loaded /\ r.tab.version = f.version
                       /\ \A c \in Cells : c \in W => r.tab.cells[c] = n
      /\ ~Fits(f, V) => r.tab.loaded = t.loaded
  BY LoadDatIs
<1> HIDE DEF r
<1>3. ASSUME Whole(f) PROVE r.ret = 0 /\ GpuHolds(r.tab, f, n)
  <2>1. /\ r.ret = 0 /\ r.tab.loaded /\ r.tab.version = f.version
        /\ \A c \in Reads(f) : r.tab.cells[c] = n
    BY <1>2, <1>3
  <2> QED BY <1>1, <2>1 DEF GpuHolds, Origin
<1>4. CASE f.kind = "missing"
  BY <1>4, GpuMissingKeeps DEF r
<1>5. CASE f.kind # "missing"
  <2>1. FromFile(t, f, r) = r /\ f # Missing
    BY <1>5, SourceTypes DEF FromFile
  <2>2. Refused(f) => r.ret = -1
    BY <1>2, <2>1
  <2> QED BY <1>1, <1>2, <1>3, <2>1, <2>2 DEF GpuKeeps, r
<1> QED BY <1>4, <1>5

\* The loader of Udp4_3ParserGpu.
LEMMA Udp4_3GpuKeeps ==
  ASSUME NEW t, IsTable(t), NEW f \in Sources, NEW n \in Int, parser = "4_3"
  PROVE  GpuKeeps(Udp4_3GpuLoad(t, f, n), t, f, n)
<1> DEFINE W == {Fields, Adjust} \cup Channels("ang", f.channels)
<1>1. parser \in AllParsers \ Generals
  BY DEF AllParsers, Generals
<1>2. Reads(f) = {Fields, Adjust} \cup Lasers("ang")
  BY <1>1 DEF Reads
<1>3. ASSUME Whole(f) PROVE Fits(f, {5}) /\ Reads(f) \subseteq W \cap Cells
  <2>1. Lasers("ang") \subseteq Channels("ang", f.channels)
    BY <1>1, <1>3, WholeDat, LasersIn
  <2>2. Fits(f, {5})
    BY <1>1, <1>3, WholeDat DEF Fits
  <2> QED BY <1>2, <2>1, <2>2, LasersAreCells
<1>4. \A u : u.version = f.version => KernelReads(u) \ Beyond = Reads(f)
  BY <1>2, OwnKernel DEF KernelReads, Udp4_3Kernel
<1>5. Refused(f) <=> f = Missing \/ ~Fits(f, {5})
  BY DEF Refused
<1> HIDE DEF W
<1>6. GpuKeeps(FromFile(t, f, LoadDat(t, f, {5}, W, n)), t, f, n)
  BY <1>3, <1>4, <1>5, GpuDatKeeps
<1> QED BY <1>6 DEF Udp4_3GpuLoad, W

\* The loader of Udp4_7ParserGpu.
LEMMA Udp4_7GpuKeeps ==
  ASSUME NEW t, IsTable(t), NEW f \in Sources, NEW n \in Int, parser = "4_7"
  PROVE  GpuKeeps(Udp4_7GpuLoad(t, f, n), t, f, n)
<1> DEFINE W == Channels("ang", f.channels) \cup (IF f.version = 3 THEN {Adjust} ELSE {})
<1>1. parser \in AllParsers \ Generals
  BY DEF AllParsers, Generals
<1>2. Reads(f) = Lasers("ang") \cup (IF f.version = 3 THEN {Adjust} ELSE {})
  BY <1>1 DEF Reads
<1>3. ASSUME Whole(f) PROVE Fits(f, 1..3) /\ Reads(f) \subseteq W \cap Cells
  <2>1. Lasers("ang") \subseteq Channels("ang", f.channels)
    BY <1>1, <1>3, WholeDat, LasersIn
  <2>2. Fits(f, 1..3)
    BY <1>1, <1>3, WholeDat DEF Fits
  <2> QED BY <1>2, <2>1, <2>2, LasersAreCells
<1>4. \A u : u.version = f.version => KernelReads(u) \ Beyond = Reads(f)
  BY <1>2, OwnKernel DEF KernelReads, Udp4_7Kernel
<1>5. Refused(f) <=> f = Missing \/ ~Fits(f, 1..3)
  BY DEF Refused
<1> HIDE DEF W
<1>6. GpuKeeps(FromFile(t, f, LoadDat(t, f, 1..3, W, n)), t, f, n)
  BY <1>3, <1>4, <1>5, GpuDatKeeps
<1> QED BY <1>6 DEF Udp4_7GpuLoad, W

\* The loader of Udp7_2ParserGpu, whose binary loader is tested the wrong way
\* round.
LEMMA Udp7_2GpuKeeps ==
  ASSUME NEW t, IsTable(t), NEW f \in Sources, NEW n \in Int, NEW lucky, parser = "7_2"
  PROVE  GpuKeeps(Udp7_2GpuLoad(t, f, n, lucky), t, f, n)
<1> DEFINE d == Udp7_2LoadDat(t, f, n)
           q == Udp7_2GpuLoadCsv(d.tab, f, n, lucky)
           r == IF d.ret # 0 THEN [ret |-> 0, tab |-> t] ELSE q
<1>1. parser \in AllParsers \ Generals /\ parser \notin Generals
  BY DEF AllParsers, Generals
<1>2. Udp7_2GpuLoad(t, f, n, lucky) = FromFile(t, f, r)
  BY DEF Udp7_2GpuLoad, Udp7_2GpuLoadDat
<1>3. /\ d.ret \in {0, -1} /\ IsTable(d.tab)
      /\ d.ret = 0 => d.tab.loaded
      /\ f.kind = "dat" /\ f.version = 1 => d.ret = 0
  BY Udp7_2DatIs
<1> HIDE DEF d
<1>4. q.ret \in {0, -1} /\ IsTable(q.tab) /\ (d.tab.loaded => q.tab.loaded)
  <2>1. CASE f.kind = "csv"
    BY <1>3, <2>1, Udp7_2CsvIs DEF Udp7_2GpuLoadCsv
  <2>2. CASE f.kind # "csv" /\ lucky
    <3>1. q = Accept(d.tab, Channels("ang", MaxChannels), Junk)
      BY <2>2 DEF Udp7_2GpuLoadCsv
    <3>2. Junk \in Int
      BY DEF Junk
    <3> HIDE DEF q
    <3> QED BY <1>3, <3>1, <3>2, AcceptIs
  <2>3. CASE f.kind # "csv" /\ ~lucky
    <3>1. q = [ret |-> -1, tab |-> d.tab]
      BY <2>3 DEF Udp7_2GpuLoadCsv, Refuse
    <3> HIDE DEF q
    <3> QED BY <1>3, <3>1
  <2> QED BY <2>1, <2>2, <2>3
<1> HIDE DEF q
<1>5. r.ret \in {0, -1} /\ IsTable(r.tab) /\ (t.loaded \/ d.ret = 0 => r.tab.loaded)
  BY <1>3, <1>4
<1> HIDE DEF r
<1>6. ASSUME Whole(f) PROVE GpuHolds(r.tab, f, n)
  <2>1. d.ret = 0
    BY <1>1, <1>3, <1>6, WholeDat
  <2>2. Reads(f) = {} /\ KernelReads(r.tab) \ Beyond = {}
    BY <1>1, OwnKernel DEF Reads, KernelReads, Udp7_2Kernel
  <2> QED BY <1>5, <2>1, <2>2 DEF GpuHolds
<1>7. CASE f.kind = "missing"
  BY <1>2, <1>7, GpuMissingKeeps
<1>8. CASE f.kind # "missing"
  <2>1. Udp7_2GpuLoad(t, f, n, lucky) = r
    BY <1>2, <1>8 DEF FromFile
  <2> QED BY <1>1, <1>5, <1>6, <2>1 DEF GpuKeeps
<1> QED BY <1>7, <1>8

\* Every loader of the GPU parsers keeps the promise.
LEMMA GpuLoadKeeps ==
  ASSUME NEW t, IsTable(t), NEW f \in Sources, NEW n \in Int, NEW lucky,
         parser \in GpuParsers
  PROVE  GpuKeeps(GpuLoad(t, f, n, lucky), t, f, n)
<1>1. CASE parser \in Generals
  <2>1. GpuLoad(t, f, n, lucky) = GpuCsv(t, f, n)
    BY <1>1 DEF GpuLoad, GpuParser, Generals, Udp1_4GpuLoad, Udp3_1GpuLoad, Udp3_2GpuLoad,
       Udp6_1GpuLoad, UdpP40GpuLoad, UdpP64GpuLoad
  <2> QED BY <1>1, <2>1, GpuCsvKeeps
<1>2. CASE parser \in {"2_5", "2_6"}
  BY <1>2, Udp2_5GpuKeeps DEF GpuLoad, GpuParser
<1>3. CASE parser = "4_3"
  BY <1>3, Udp4_3GpuKeeps DEF GpuLoad, GpuParser
<1>4. CASE parser = "4_7"
  BY <1>4, Udp4_7GpuKeeps DEF GpuLoad, GpuParser
<1>5. CASE parser = "7_2"
  BY <1>5, Udp7_2GpuKeeps DEF GpuLoad, GpuParser
<1> QED BY <1>1, <1>2, <1>3, <1>4, <1>5 DEF GpuParsers, AllParsers

-----------------------------------------------------------------------------
(* The parser stays the same: what is said of the next state is said with it. *)

\* Which entries are read depends on the parser and the table only.
LEMMA SameReads ==
  ASSUME parser' = parser
  PROVE  /\ DecodeReads(cpu)' = DecodeReads(cpu') /\ ComputeReads(cpu)' = ComputeReads(cpu')
         /\ KernelReads(gpu)' = KernelReads(gpu') /\ Beyond' = Beyond
<1>1. DecodeReads(cpu)' = DecodeReads(cpu')
  BY DEF DecodeReads, Udp4_7Azimuths
<1>2. ComputeReads(cpu)' = ComputeReads(cpu')
  BY DEF ComputeReads, Udp2_4ComputeXYZI, Udp2_5ComputeXYZI, Udp2_6ComputeXYZI,
         Udp4_3ComputeXYZI, Udp4_7ComputeXYZI
<1>3. GpuParser' = GpuParser /\ Beyond' = Beyond
  BY DEF GpuParser, Beyond
<1>4. KernelReads(gpu)' = KernelReads(gpu')
  BY <1>3 DEF KernelReads, Udp2_5Kernels, Udp4_7Kernel
<1> QED BY <1>1, <1>2, <1>3, <1>4

\* Entries used from one load are entries that load wrote.
LEMMA UsedFrom ==
  ASSUME NEW t, NEW C, NEW n
  PROVE  (\A u \in Used(t, C) : u[2] = n) <=> \A c \in C : Origin(t, c) = n
<1>1. ASSUME \A u \in Used(t, C) : u[2] = n, NEW c \in C PROVE Origin(t, c) = n
  <2>1. <<c, Origin(t, c)>> \in Used(t, C)
    BY DEF Used
  <2>2. <<c, Origin(t, c)>>[2] = n
    BY <1>1, <2>1
  <2> QED BY <2>2
<1>2. ASSUME \A c \in C : Origin(t, c) = n, NEW u \in Used(t, C) PROVE u[2] = n
  <2>1. PICK c \in C : u = <<c, Origin(t, c)>>
    BY DEF Used
  <2> QED BY <1>2, <2>1
<1> QED BY <1>1, <1>2

\* What AcceptedIsWhole says, entry by entry.
LEMMA AcceptedMeans ==
  ASSUME AcceptedIsWhole
  PROVE  latest.n # 0 /\ latest.whole =>
           /\ latest.ret = 0 /\ cpu.loaded
           /\ \A c \in DecodeReads(cpu) \cup ComputeReads(cpu) : Origin(cpu, c) = latest.n
<1>1. (\A u \in Used(cpu, DecodeReads(cpu) \cup ComputeReads(cpu)) : u[2] = latest.n)
        <=> \A c \in DecodeReads(cpu) \cup ComputeReads(cpu) : Origin(cpu, c) = latest.n
  BY UsedFrom
<1> QED BY <1>1 DEF AcceptedIsWhole

\* What a file gives depends on the parser and the file only.
LEMMA SameMeaning ==
  ASSUME parser' = parser
  PROVE  /\ Whole(str)' <=> Whole(str')
         /\ Whole(path)' <=> Whole(path')
         /\ Refused(str)' <=> Refused(str')
         /\ Holds(cpu, str, 1)' <=> Holds(cpu', str', 1)
         /\ Holds(cpu, path, 2)' <=> Holds(cpu', path', 2)
         /\ cpu' = cpu => (Agrees' <=> LikeCpu(gpu'))
         /\ Steady' <=> OneLoad(gpu')
         /\ AcceptedIsWhole' <=>
              (latest'.n # 0 /\ latest'.whole =>
                 /\ latest'.ret = 0 /\ cpu'.loaded
                 /\ \A c \in DecodeReads(cpu') \cup ComputeReads(cpu') : Origin(cpu', c) = latest'.n)
<1>1. (Whole(str)' <=> Whole(str')) /\ (Whole(path)' <=> Whole(path'))
  BY DEF Whole
<1>2. Refused(str)' <=> Refused(str')
  BY DEF Refused
<1>3. (Holds(cpu, str, 1)' <=> Holds(cpu', str', 1)) /\ (Holds(cpu, path, 2)' <=> Holds(cpu', path', 2))
  BY SameReads DEF Holds, Origin
<1>4. ASSUME cpu' = cpu PROVE Agrees' <=> LikeCpu(gpu')
  BY <1>4, SameReads DEF Agrees, LikeCpu, Used, Origin
<1>6. Steady' <=> OneLoad(gpu')
  BY SameReads DEF Steady, OneLoad, Origin
<1>5. AcceptedIsWhole' <=>
              (latest'.n # 0 /\ latest'.whole =>
                 /\ latest'.ret = 0 /\ cpu'.loaded
                 /\ \A c \in DecodeReads(cpu') \cup ComputeReads(cpu') : Origin(cpu', c) = latest'.n)
  <2>1. Used(cpu, DecodeReads(cpu) \cup ComputeReads(cpu))'
          = Used(cpu', DecodeReads(cpu') \cup ComputeReads(cpu'))
    BY SameReads DEF Used, Origin
  <2>2. (\A u \in Used(cpu', DecodeReads(cpu') \cup ComputeReads(cpu')) : u[2] = latest'.n)
          <=> \A c \in DecodeReads(cpu') \cup ComputeReads(cpu') : Origin(cpu', c) = latest'.n
    BY UsedFrom
  <2> QED BY <2>1, <2>2 DEF AcceptedIsWhole
<1> QED BY <1>1, <1>2, <1>3, <1>4, <1>5, <1>6

\* Any load keeps the promise of AcceptedIsWhole, whatever was there before.
LEMMA LoadedKeeps ==
  ASSUME NEW r, NEW n \in Nat \ {0}, NEW f, Keeps(r, f, n), Loaded(r, n, f), parser' = parser
  PROVE  /\ IsTable(cpu') /\ latest' \in [n : Nat, ret : {0, -1}, whole : BOOLEAN]
         /\ AcceptedIsWhole'
         /\ latest'.n = n /\ (latest'.whole <=> Whole(f)) /\ (Whole(f) => Holds(cpu', f, n))
<1>1. cpu' = r.tab /\ latest' = [n |-> n, ret |-> r.ret, whole |-> Whole(f)]
  BY DEF Loaded
<1>2. Whole(f) \in BOOLEAN
  BY DEF Whole
<1>3. latest'.n = n /\ latest'.ret = r.ret /\ (latest'.whole <=> Whole(f))
  BY <1>1
<1>4. latest' \in [n : Nat, ret : {0, -1}, whole : BOOLEAN]
  BY <1>1, <1>2 DEF Keeps
<1>5. IsTable(cpu') /\ (Whole(f) => r.ret = 0 /\ Holds(cpu', f, n))
  BY <1>1 DEF Keeps
<1>6. AcceptedIsWhole'
  BY <1>3, <1>5, SameMeaning DEF Holds
<1> QED BY <1>3, <1>4, <1>5, <1>6

\* At the start nothing has been loaded.
LEMMA CorrInit == Init => CorrInv
<1> SUFFICES ASSUME Init PROVE CorrInv
  OBVIOUS
<1>1. ASSUME NEW flag \in BOOLEAN, NEW m \in {0, 4} PROVE IsTable(Blank(flag, m)) /\ (Blank(flag, m).loaded <=> flag)
  <2>1. [c \in Cells |-> None] \in [Cells -> Int]
    BY DEF None
  <2> QED BY <2>1 DEF IsTable, Blank
<1>2. \A p : MinVersions(p) \subseteq {0, 4}
  BY DEF MinVersions
<1>3. IsTable(cpu)
  BY <1>1, <1>2 DEF Init, CpuInit
<1>4. IsTable(gpu) /\ ~gpu.loaded
  BY <1>1, <1>2 DEF Init
<1>5. parser \in AllParsers /\ driver \in {"cpu", "gpu"} /\ (driver = "gpu" => parser \in GpuParsers)
  BY CorrectionsAssumption DEF Init, CpuInit
<1>6. source \in {"lidar", "file"} /\ stage = IF source = "lidar" THEN "string" ELSE "file"
  BY DEF Init, CpuInit
<1>7. str \in Sources /\ path \in Sources
  BY <1>6 DEF Init, CpuInit, Sources
<1>8. latest \in [n : Nat, ret : {0, -1}, whole : BOOLEAN] /\ latest.n = 0
  BY DEF Init, CpuInit
<1>9. tries = 0 /\ flaky \in BOOLEAN /\ had \in [reply : BOOLEAN, whole : BOOLEAN]
  BY DEF Init
<1>10. CorrTypes
  BY <1>3, <1>4, <1>5, <1>6, <1>7, <1>8, <1>9 DEF CorrTypes, Tries
<1>11. AcceptedIsWhole
  BY <1>8 DEF AcceptedIsWhole
<1>12. Progress
  BY <1>4, <1>6, <1>8, <1>9 DEF Progress
<1> QED BY <1>10, <1>11, <1>12 DEF CorrInv

\* Lidar::Init is over: the GPU parser comes next, or the packets do.
LEMMA InitEndsKeeps ==
  ASSUME CorrTypes, NEW n \in {1, 2}, InitEnds,
         UNCHANGED <<config, gpu, tries, flaky, had>>,
         IsTable(cpu'), latest' \in [n : Nat, ret : {0, -1}, whole : BOOLEAN],
         latest'.n = n,
         AcceptedIsWhole', ~gpu.loaded, tries = 0,
         n = 1 => source = "lidar" /\ (flaky \/ str # Missing) /\ (latest'.whole <=> Whole(str))
                  /\ (Whole(str) => Holds(cpu', str, 1)),
         n = 2 => (source = "lidar" => flaky \/ Refused(str)) /\ (latest'.whole <=> Whole(path))
                  /\ (Whole(path) => Holds(cpu', path, 2))
  PROVE  CorrInv'
<1>1. parser' = parser /\ driver' = driver /\ source' = source
  BY DEF config
<1>2. Missing \in Sources
  BY DEF Sources
<1>3. CorrTypes'
  BY <1>1, <1>2 DEF CorrTypes, InitEnds
<1>4. CASE driver = "gpu"
  <2>1. stage' = "gpu" /\ str' = str /\ path' = path
    BY <1>4 DEF InitEnds
  <2>2. \/ latest'.n = 1 /\ source' = "lidar" /\ (flaky' \/ str' # Missing)
             /\ (latest'.whole <=> Whole(str)') /\ (latest'.whole => Holds(cpu, str, 1)')
        \/ latest'.n = 2 /\ (source' = "lidar" => flaky' \/ Refused(str)')
             /\ (latest'.whole <=> Whole(path)') /\ (latest'.whole => Holds(cpu, path, 2)')
    BY <1>1, <2>1, SameMeaning
  <2>3. latest'.whole \in BOOLEAN /\ Whole(str)' \in BOOLEAN /\ Whole(path)' \in BOOLEAN
    BY DEF Whole
  <2>4. Progress'
    BY <1>1, <1>4, <2>1, <2>2, <2>3 DEF Progress
  <2> QED BY <1>3, <2>4 DEF CorrInv
<1>5. CASE driver # "gpu"
  <2>1. stage' = "run"
    BY <1>5 DEF InitEnds
  <2>2. ~Comparable' /\ driver' # "gpu"
    BY <1>1, <1>5 DEF Comparable
  <2>3. Progress'
    BY <2>1, <2>2 DEF Progress
  <2> QED BY <1>3, <2>3 DEF CorrInv
<1> QED BY <1>4, <1>5

\* Lidar::Init loads the answer of the lidar.
LEMMA LoadCorrectionForUdpParserKeeps ==
  ASSUME CorrInv, LoadCorrectionForUdpParser, UNCHANGED <<gpu, tries, had>>
  PROVE  CorrInv'
<1>1. /\ CorrTypes /\ stage = "string" /\ source = "lidar" /\ latest.n = 0
      /\ ~gpu.loaded /\ tries = 0 /\ UNCHANGED <<config, flaky, points>>
  BY DEF CorrInv, Progress, LoadCorrectionForUdpParser
<1>2. IsTable(cpu) /\ str \in Sources /\ parser \in AllParsers
  BY <1>1 DEF CorrTypes
<1>3. PICK answered \in Answered :
        LET r == IF answered THEN LoadString(cpu, str, 1) ELSE Refuse(cpu)
        IN  /\ Loaded(r, 1, IF answered THEN str ELSE Missing)
            /\ IF r.ret = -1 THEN stage' = "file" /\ UNCHANGED <<str, path>> ELSE InitEnds
  BY DEF LoadCorrectionForUdpParser
<1> DEFINE r == IF answered THEN LoadString(cpu, str, 1) ELSE Refuse(cpu)
           f == IF answered THEN str ELSE Missing
<1>4. Keeps(r, f, 1) /\ (r.ret = 0 => answered)
  <2>1. CASE ~answered
    <3>1. r = [ret |-> -1, tab |-> cpu] /\ f = Missing
      BY <2>1 DEF Refuse
    <3> HIDE DEF r, f
    <3> QED BY <1>2, <3>1, MissingIsNotWhole DEF Keeps, Refused
  <2>2. CASE answered
    BY <1>2, <2>2, LoadStringKeeps
  <2> QED BY <2>1, <2>2
<1>5. answered => flaky \/ str # Missing
  BY DEF Answered
<1>6. ~answered => flaky \/ str = Missing
  BY DEF Answered
<1>7. /\ Loaded(r, 1, f)
      /\ IF r.ret = -1 THEN stage' = "file" /\ UNCHANGED <<str, path>> ELSE InitEnds
  BY <1>3
<1>8. answered => f = str
  OBVIOUS
<1>9. ~answered => f = Missing
  OBVIOUS
<1> HIDE DEF r, f
<1>10. parser' = parser /\ driver' = driver /\ source' = source
  BY <1>1 DEF config
<1>11. /\ IsTable(cpu') /\ latest' \in [n : Nat, ret : {0, -1}, whole : BOOLEAN]
       /\ AcceptedIsWhole'
       /\ latest'.n = 1 /\ (latest'.whole <=> Whole(f)) /\ (Whole(f) => Holds(cpu', f, 1))
  BY <1>4, <1>7, <1>10, LoadedKeeps
<1>12. CASE r.ret = -1
  <2>1. stage' = "file" /\ str' = str /\ path' = path
    BY <1>7, <1>12
  <2>2. CorrTypes'
    BY <1>1, <1>10, <1>11, <2>1 DEF CorrTypes
  <2>3. Refused(f)
    BY <1>4, <1>12 DEF Keeps
  <2>4. flaky \/ Refused(str)
    BY <1>6, <1>8, <2>3 DEF Refused
  <2>5. flaky' \/ Refused(str)'
    BY <1>1, <1>10, <2>1, <2>4, SameMeaning
  <2>6. Progress'
    BY <1>1, <1>10, <1>11, <2>1, <2>5 DEF Progress
  <2> QED BY <1>11, <2>2, <2>6 DEF CorrInv
<1>13. CASE r.ret # -1
  <2>1. InitEnds /\ answered /\ f = str
    BY <1>4, <1>7, <1>8, <1>13 DEF Keeps
  <2>2. flaky \/ str # Missing
    BY <1>5, <2>1
  <2> QED BY <1>1, <1>11, <2>1, <2>2, InitEndsKeeps
<1> QED BY <1>12, <1>13

\* Lidar::Init loads the file instead.
LEMMA LoadCorrectionFileKeeps ==
  ASSUME CorrInv, LoadCorrectionFile, UNCHANGED <<gpu, tries, had>>
  PROVE  CorrInv'
<1> DEFINE r == LoadFile(cpu, path, 2)
<1>1. /\ CorrTypes /\ stage = "file" /\ (source = "lidar" => flaky \/ Refused(str))
      /\ ~gpu.loaded /\ tries = 0
  BY DEF CorrInv, Progress, LoadCorrectionFile
<1>2. Keeps(r, path, 2)
  BY <1>1, LoadFileKeeps DEF CorrTypes
<1>3. Loaded(r, 2, path) /\ InitEnds /\ UNCHANGED <<config, flaky, points>>
  BY DEF LoadCorrectionFile
<1> HIDE DEF r
<1>4. parser' = parser
  BY <1>3 DEF config
<1>5. /\ IsTable(cpu') /\ latest' \in [n : Nat, ret : {0, -1}, whole : BOOLEAN]
      /\ AcceptedIsWhole'
      /\ latest'.n = 2 /\ (latest'.whole <=> Whole(path)) /\ (Whole(path) => Holds(cpu', path, 2))
  BY <1>2, <1>3, <1>4, LoadedKeeps
<1> QED BY <1>1, <1>3, <1>5, InitEndsKeeps

\* The tables of the GPU parser are left alone.
LEMMA SameSteady ==
  ASSUME parser' = parser, gpu' = gpu
  PROVE  Steady' <=> Steady
BY SameReads DEF Steady, OneLoad, Origin

\* A load of the application's: from then on the two tables may differ.
LEMMA ReloadKeeps ==
  ASSUME CorrInv, NEW f \in Files, Reload(f), UNCHANGED <<gpu, tries, had>>
  PROVE  CorrInv'
<1> DEFINE n == IF latest.n < 2 THEN 3 ELSE latest.n + 1
<1>1. /\ CorrTypes /\ stage = "run" /\ latest.n >= 1 /\ latest.n \in Nat /\ f \in Sources
      /\ IsTable(cpu) /\ parser \in AllParsers
  BY DEF CorrInv, Progress, Reload, CorrTypes, Sources
<1>2. n \in Nat \ {0} /\ n \in Int /\ n >= 3 /\ n \notin {1, 2}
  BY <1>1
<1>3. /\ Loaded(LoadString(cpu, f, n), n, f) \/ Loaded(LoadFile(cpu, f, n), n, f)
      /\ UNCHANGED <<config, str, path, flaky, stage, points>>
  BY DEF Reload
<1> HIDE DEF n
<1>4. parser' = parser /\ driver' = driver /\ source' = source
  BY <1>3 DEF config
<1>5. Keeps(LoadString(cpu, f, n), f, n) /\ Keeps(LoadFile(cpu, f, n), f, n)
  BY <1>1, <1>2, LoadStringKeeps, LoadFileKeeps
<1>6. /\ IsTable(cpu') /\ latest' \in [n : Nat, ret : {0, -1}, whole : BOOLEAN]
      /\ AcceptedIsWhole' /\ latest'.n = n
  BY <1>2, <1>3, <1>4, <1>5, LoadedKeeps
<1>7. CorrTypes'
  BY <1>1, <1>3, <1>4, <1>6 DEF CorrTypes
<1>8. ~Comparable'
  BY <1>2, <1>6 DEF Comparable
<1>9. driver' = "gpu" /\ had'.whole => Steady'
  BY <1>1, <1>4, SameSteady DEF CorrInv, Progress
<1>10. Progress'
  BY <1>1, <1>2, <1>3, <1>6, <1>8, <1>9 DEF Progress
<1> QED BY <1>6, <1>7, <1>10 DEF CorrInv

\* Steps that load nothing.
LEMMA SameKeeps ==
  ASSUME CorrInv, UNCHANGED <<config, cpu, str, path, flaky, stage, latest, gpu, tries, had>>
  PROVE  CorrInv'
<1>1. UNCHANGED <<parser, driver, source>>
  BY DEF config
<1>2. CorrTypes'
  BY <1>1 DEF CorrInv, CorrTypes
<1>3. AcceptedIsWhole'
  <2>1. latest.n # 0 /\ latest.whole =>
          /\ latest.ret = 0 /\ cpu.loaded
          /\ \A c \in DecodeReads(cpu) \cup ComputeReads(cpu) : Origin(cpu, c) = latest.n
    BY AcceptedMeans DEF CorrInv
  <2>2. cpu' = cpu /\ latest' = latest
    OBVIOUS
  <2> QED BY <1>1, <2>1, <2>2, SameMeaning
<1>4. /\ Agrees' <=> Agrees
      /\ Steady' <=> Steady
      /\ Comparable' <=> Comparable
      /\ Ignored' <=> Ignored
      /\ Deaf' <=> Deaf
  BY <1>1, SameMeaning, SameSteady DEF Agrees, Comparable, Ignored, Deaf
<1>5. Progress'
  <2>1. (Refused(str)' <=> Refused(str)) /\ Whole(str)' = Whole(str) /\ Whole(path)' = Whole(path)
    BY <1>1 DEF Refused, Whole
  <2>2. (Holds(cpu, str, 1)' <=> Holds(cpu, str, 1)) /\ (Holds(cpu, path, 2)' <=> Holds(cpu, path, 2))
    BY <1>1, SameMeaning
  <2> QED BY <1>1, <1>4, <2>1, <2>2 DEF CorrInv, Progress
<1> QED BY <1>2, <1>3, <1>5 DEF CorrInv

\* Loading what the CPU parser holds makes the tables agree.
LEMMA GpuLoadAgrees ==
  ASSUME parser \in GpuParsers, NEW u, IsTable(u), NEW f \in Sources, NEW n \in Int,
         NEW lucky, Whole(f), Holds(cpu, f, n),
         u.loaded /\ parser \in Generals => u = gpu /\ Agrees
  PROVE  LikeCpu(GpuLoad(u, f, n, lucky).tab)
<1> DEFINE r == GpuLoad(u, f, n, lucky)
<1>1. GpuKeeps(r, u, f, n)
  BY GpuLoadKeeps
<1> HIDE DEF r
<1>2. CASE parser \in Generals /\ u.loaded
  <2>1. r.tab = gpu
    BY <1>1, <1>2 DEF GpuKeeps
  <2> QED BY <1>2, <2>1 DEF Agrees, r
<1>3. CASE ~(parser \in Generals /\ u.loaded)
  <2>1. GpuHolds(r.tab, f, n)
    BY <1>1, <1>3 DEF GpuKeeps
  <2> QED BY <2>1, BothAgree DEF LikeCpu, r
<1> QED BY <1>2, <1>3

\* Loading a whole file leaves the kernel with one load.
LEMMA GpuLoadSteady ==
  ASSUME parser \in GpuParsers, NEW u, IsTable(u), NEW f \in Sources, NEW n \in 1..2,
         NEW lucky, Whole(f), u.loaded /\ parser \in Generals => OneLoad(u)
  PROVE  OneLoad(GpuLoad(u, f, n, lucky).tab)
<1> DEFINE r == GpuLoad(u, f, n, lucky)
<1>1. GpuKeeps(r, u, f, n)
  BY GpuLoadKeeps
<1> HIDE DEF r
<1>2. CASE parser \in Generals /\ u.loaded
  <2>1. r.tab = u
    BY <1>1, <1>2 DEF GpuKeeps
  <2> QED BY <1>2, <2>1 DEF r
<1>3. CASE ~(parser \in Generals /\ u.loaded)
  <2>1. GpuHolds(r.tab, f, n)
    BY <1>1, <1>3 DEF GpuKeeps
  <2> QED BY <2>1 DEF GpuHolds, OneLoad, r
<1> QED BY <1>2, <1>3

\* In the stage "gpu": what the invariant says when the two can be compared.
LEMMA GpuStage ==
  ASSUME CorrInv, stage = "gpu"
  PROVE  /\ CorrTypes /\ driver = "gpu" /\ parser \in GpuParsers /\ latest.n \in {1, 2}
         /\ IsTable(cpu) /\ IsTable(gpu) /\ str \in Sources /\ path \in Sources
         /\ Comparable /\ ~Ignored /\ gpu.loaded => Agrees
         /\ Whole(str) /\ Whole(path) /\ gpu.loaded => Steady
         /\ Comparable /\ latest.n = 1 =>
              source = "lidar" /\ str # Missing /\ Whole(str) /\ Holds(cpu, str, 1)
         /\ Comparable /\ latest.n = 2 =>
              /\ Whole(path) /\ Holds(cpu, path, 2)
              /\ source = "lidar" => Refused(str)
<1>1. CorrTypes /\ Progress
  BY DEF CorrInv
<1>2. tries = 0 \/ tries > 0
  BY <1>1 DEF CorrTypes, Tries
<1>3. Comparable => latest.whole /\ ~flaky
  BY DEF Comparable
<1>4. latest.n = 1 \/ latest.n = 2
  BY <1>1 DEF Progress
<1>5. CASE latest.n = 1
  BY <1>1, <1>2, <1>3, <1>5 DEF Progress, CorrTypes
<1>6. CASE latest.n = 2
  BY <1>1, <1>2, <1>3, <1>6 DEF Progress, CorrTypes
<1> QED BY <1>4, <1>5, <1>6

\* What a GPU step leaves: the same CPU parser, and tables that agree with it
\* or cannot be compared.
LEMMA GpuStepKeeps ==
  ASSUME CorrInv, stage = "gpu",
         UNCHANGED <<config, cpu, latest, points, flaky>>, IsTable(gpu'),
         Comparable /\ ~Ignored => LikeCpu(gpu'),
         Whole(str) /\ Whole(path) => OneLoad(gpu'),
         \/ GpuReady /\ tries' \in 0 .. Tries - 1
         \/ tries' \in 1 .. Tries - 1 /\ UNCHANGED <<stage, str, path, had>>
  PROVE  CorrInv'
<1>1. UNCHANGED <<parser, driver, source>> /\ cpu' = cpu /\ latest' = latest /\ flaky' = flaky
  BY DEF config
<1>2. Missing \in Sources
  BY DEF Sources
<1>3. CorrTypes'
  <2>1. had' \in [reply : BOOLEAN, whole : BOOLEAN]
    <3>1. CASE GpuReady
      BY <3>1 DEF GpuReady, Whole
    <3>2. CASE had' = had
      BY <3>2, GpuStage DEF CorrTypes
    <3> QED BY <3>1, <3>2
  <2> QED BY <1>1, <1>2, <2>1, GpuStage DEF CorrTypes, GpuReady, Tries
<1>4. AcceptedIsWhole'
  <2>1. latest.n # 0 /\ latest.whole =>
          /\ latest.ret = 0 /\ cpu.loaded
          /\ \A c \in DecodeReads(cpu) \cup ComputeReads(cpu) : Origin(cpu, c) = latest.n
    BY AcceptedMeans DEF CorrInv
  <2> QED BY <1>1, <2>1, SameMeaning
<1>5. /\ Comparable' /\ ~Ignored => Agrees'
      /\ Whole(str) /\ Whole(path) => Steady'
  BY <1>1, SameMeaning DEF Comparable
<1>6. CASE GpuReady
  <2>1. /\ stage' = "run" /\ latest'.n >= 1
        /\ had'.reply <=> str # Missing
        /\ had'.whole <=> Whole(str) /\ Whole(path)
    <3>1. stage' = "run" /\ latest'.n >= 1
      BY <1>1, <1>6, GpuStage DEF GpuReady
    <3>2. had' = [reply |-> str # Missing, whole |-> Whole(str) /\ Whole(path)]
      BY <1>6 DEF GpuReady
    <3>3. had'.reply = (str # Missing) /\ had'.whole = (Whole(str) /\ Whole(path))
      BY <3>2, Zenon
    <3> QED BY <3>1, <3>3
  <2>2. Deaf' <=> Ignored
    BY <1>1, <2>1 DEF Deaf, Ignored
  <2>3. Progress'
    BY <1>5, <2>1, <2>2 DEF Progress
  <2> QED BY <1>3, <1>4, <2>3 DEF CorrInv
<1>7. CASE tries' \in 1 .. Tries - 1 /\ UNCHANGED <<stage, str, path, had>>
  <2>1. (Refused(str)' <=> Refused(str)) /\ Whole(str)' = Whole(str) /\ Whole(path)' = Whole(path)
    BY <1>1, <1>7 DEF Refused, Whole
  <2>2. (Holds(cpu, str, 1)' <=> Holds(cpu, str, 1)) /\ (Holds(cpu, path, 2)' <=> Holds(cpu, path, 2))
    BY <1>1, <1>7, SameMeaning
  <2>3. tries' # 0
    BY <1>7
  <2>4. stage' = "gpu" /\ str' = str /\ path' = path
    BY <1>7
  <2>5. Progress
    BY DEF CorrInv
  <2>6. \/ latest'.n = 1 /\ source' = "lidar" /\ (flaky' \/ str' # Missing)
             /\ latest'.whole = Whole(str)' /\ (latest'.whole => Holds(cpu, str, 1)')
        \/ latest'.n = 2 /\ (source' = "lidar" => flaky' \/ Refused(str)')
             /\ latest'.whole = Whole(path)' /\ (latest'.whole => Holds(cpu, path, 2)')
    BY <1>1, <2>1, <2>2, <2>4, <2>5 DEF Progress
  <2>7. driver' = "gpu"
    BY <1>1, GpuStage
  <2>8. Ignored' <=> Ignored
    BY <1>1, <2>4 DEF Ignored
  <2>9. Progress'
    BY <1>5, <2>1, <2>3, <2>4, <2>6, <2>7, <2>8 DEF Progress
  <2> QED BY <1>3, <1>4, <2>9 DEF CorrInv
<1> QED BY <1>6, <1>7

\* The GPU driver asks the lidar once more, up to three times.
LEMMA GpuAskKeeps ==
  ASSUME CorrInv, GpuAsk
  PROVE  CorrInv'
<1>1. stage = "gpu" /\ source = "lidar" /\ UNCHANGED <<config, cpu, latest, points, flaky>>
  BY DEF GpuAsk
<1>2. PICK answered \in Answered, lucky \in BOOLEAN :
        LET r == IF answered THEN GpuLoad(gpu, str, 1, lucky) ELSE Refuse(gpu)
        IN  /\ gpu' = IF r.ret = 0 THEN r.tab ELSE GpuFallBack(r.tab, lucky)
            /\ IF r.ret = 0 \/ LastTry
               THEN GpuReady /\ tries' = 0
               ELSE tries' = tries + 1 /\ UNCHANGED <<stage, str, path, had>>
  BY DEF GpuAsk
<1> DEFINE r == IF answered THEN GpuLoad(gpu, str, 1, lucky) ELSE Refuse(gpu)
           b == GpuLoad(r.tab, path, 2, lucky)
<1>3. /\ driver = "gpu" /\ parser \in GpuParsers /\ latest.n \in {1, 2}
      /\ IsTable(gpu) /\ str \in Sources /\ path \in Sources
      /\ Comparable /\ ~Ignored /\ gpu.loaded => Agrees
      /\ Whole(str) /\ Whole(path) /\ gpu.loaded => Steady
      /\ tries \in 0 .. Tries - 1
  BY <1>1, GpuStage DEF CorrTypes
<1>4. GpuKeeps(GpuLoad(gpu, str, 1, lucky), gpu, str, 1)
  BY <1>3, GpuLoadKeeps
<1>5. Refuse(gpu).ret = -1 /\ Refuse(gpu).tab = gpu
  BY DEF Refuse
<1>6. r.ret \in {0, -1} /\ IsTable(r.tab)
  BY <1>3, <1>4, <1>5 DEF GpuKeeps
<1>7. GpuKeeps(b, r.tab, path, 2)
  BY <1>3, <1>6, GpuLoadKeeps
<1>8. gpu' = IF r.ret = 0 THEN r.tab ELSE b.tab
  BY <1>2 DEF GpuFallBack
<1>9. IsTable(gpu')
  BY <1>6, <1>7, <1>8 DEF GpuKeeps
<1>10. \/ GpuReady /\ tries' \in 0 .. Tries - 1
       \/ tries' \in 1 .. Tries - 1 /\ UNCHANGED <<stage, str, path, had>>
  <2>1. CASE r.ret = 0 \/ LastTry
    BY <1>2, <2>1 DEF Tries
  <2>2. CASE ~(r.ret = 0 \/ LastTry)
    BY <1>2, <1>3, <2>2 DEF Tries, LastTry
  <2> QED BY <2>1, <2>2
<1>11. ASSUME Comparable, ~Ignored
       PROVE  LikeCpu(gpu')
  <2>1. answered <=> str # Missing
    BY <1>2, <1>11 DEF Comparable, Answered
  <2>2. CASE latest.n = 1
    <3>1. answered /\ Whole(str) /\ Holds(cpu, str, 1)
      BY <1>1, <1>11, <2>1, <2>2, GpuStage
    <3>2. LikeCpu(r.tab)
      <4>1. LikeCpu(GpuLoad(gpu, str, 1, lucky).tab)
        BY <1>3, <1>11, <3>1, GpuLoadAgrees
      <4> QED BY <3>1, <4>1
    <3>3. CASE parser # "7_2"
      <4>1. r.ret = 0
        BY <1>4, <3>1, <3>3 DEF GpuKeeps
      <4> QED BY <1>8, <3>2, <4>1
    <3>4. CASE parser = "7_2"
      <4>1. gpu'.loaded
        BY <1>7, <1>8, <3>2 DEF GpuKeeps, LikeCpu
      <4>2. KernelReads(gpu') \ Beyond = {} /\ ComputeReads(cpu) = {}
        BY <3>4, OwnKernel DEF KernelReads, Udp7_2Kernel, ComputeReads
      <4> QED BY <4>1, <4>2 DEF Used, LikeCpu
    <3> QED BY <3>3, <3>4
  <2>3. CASE latest.n = 2
    <3>1. Whole(path) /\ Holds(cpu, path, 2) /\ Refused(str)
      BY <1>1, <1>11, <2>3, GpuStage
    <3>2. str = Missing \/ parser \in {"4_3", "4_7"}
      BY <1>3, <1>11, <2>3, <3>1 DEF Refused, GpuParsers, Ignored
    <3>3. r.ret = -1 /\ (parser \in Generals => r.tab = gpu)
      <4>1. CASE str = Missing
        BY <1>5, <2>1, <4>1
      <4>2. CASE str # Missing
        <5>1. parser \in {"4_3", "4_7"} /\ parser \notin Generals
          BY <3>2, <4>2 DEF Generals
        <5> QED BY <1>4, <2>1, <3>1, <4>2, <5>1 DEF GpuKeeps
      <4> QED BY <4>1, <4>2
    <3>4. LikeCpu(GpuLoad(r.tab, path, 2, lucky).tab)
      <4> HIDE DEF r
      <4> QED BY <1>3, <1>6, <1>11, <3>1, <3>3, GpuLoadAgrees
    <3> HIDE DEF r
    <3> QED BY <1>8, <3>3, <3>4
  <2> QED BY <1>3, <2>2, <2>3
<1>12. ASSUME Whole(str), Whole(path)
       PROVE  OneLoad(gpu')
  <2>1. gpu.loaded => OneLoad(gpu)
    BY <1>3, <1>12 DEF Steady
  <2>2. CASE ~answered
    <3>1. r = Refuse(gpu)
      BY <2>2
    <3>2. r.ret = -1 /\ r.tab = gpu
      BY <1>5, <3>1
    <3>3. OneLoad(b.tab)
      <4>1. OneLoad(GpuLoad(gpu, path, 2, lucky).tab)
        BY <1>3, <1>12, <2>1, GpuLoadSteady
      <4> HIDE DEF r
      <4> QED BY <3>2, <4>1
    <3> HIDE DEF r, b
    <3> QED BY <1>8, <3>2, <3>3
  <2>3. CASE answered
    <3>1. r = GpuLoad(gpu, str, 1, lucky)
      BY <2>3
    <3>2. OneLoad(r.tab)
      <4>1. OneLoad(GpuLoad(gpu, str, 1, lucky).tab)
        BY <1>3, <1>12, <2>1, GpuLoadSteady
      <4> HIDE DEF r
      <4> QED BY <3>1, <4>1
    <3>3. OneLoad(b.tab)
      <4> HIDE DEF r
      <4> QED BY <1>3, <1>6, <1>12, <3>2, GpuLoadSteady
    <3> HIDE DEF r, b
    <3> QED BY <1>8, <3>2, <3>3
  <2> QED BY <2>2, <2>3
<1> HIDE DEF r, b
<1> QED BY <1>1, <1>9, <1>10, <1>11, <1>12, GpuStepKeeps

\* It loads the file when it got nothing.
LEMMA GpuLoadFileKeeps ==
  ASSUME CorrInv, GpuLoadFile
  PROVE  CorrInv'
<1>1. stage = "gpu" /\ source = "file" /\ UNCHANGED <<config, cpu, latest, points, flaky>>
      /\ GpuReady /\ tries' = tries
  BY DEF GpuLoadFile
<1>2. PICK lucky \in BOOLEAN : gpu' = GpuLoad(gpu, path, 2, lucky).tab
  BY DEF GpuLoadFile
<1>3. /\ driver = "gpu" /\ parser \in GpuParsers /\ latest.n \in {1, 2}
      /\ IsTable(gpu) /\ path \in Sources
      /\ Comparable /\ ~Ignored /\ gpu.loaded => Agrees
      /\ Whole(str) /\ Whole(path) /\ gpu.loaded => Steady
      /\ tries \in 0 .. Tries - 1
  BY <1>1, GpuStage DEF CorrTypes
<1>4. GpuKeeps(GpuLoad(gpu, path, 2, lucky), gpu, path, 2)
  BY <1>3, GpuLoadKeeps
<1>5. IsTable(gpu')
  BY <1>2, <1>4 DEF GpuKeeps
<1>6. ASSUME Comparable, ~Ignored
      PROVE  LikeCpu(gpu')
  <2>1. latest.n = 2 /\ Whole(path) /\ Holds(cpu, path, 2)
    BY <1>1, <1>3, <1>6, GpuStage
  <2>2. LikeCpu(GpuLoad(gpu, path, 2, lucky).tab)
    BY <1>3, <1>6, <2>1, GpuLoadAgrees
  <2> QED BY <1>2, <2>2
<1>7. ASSUME Whole(str), Whole(path)
      PROVE  OneLoad(gpu')
  BY <1>2, <1>3, <1>7, GpuLoadSteady DEF Steady
<1> QED BY <1>1, <1>3, <1>5, <1>6, <1>7, GpuStepKeeps

-----------------------------------------------------------------------------
(* The theorems *)

\* Every step keeps the invariant.
LEMMA CorrNext == CorrInv /\ [Next]_vars => CorrInv'
<1> SUFFICES ASSUME CorrInv, [Next]_vars PROVE CorrInv'
  OBVIOUS
<1>1. CASE CpuNext /\ UNCHANGED <<gpu, tries, had>>
  <2>1. CASE LoadCorrectionForUdpParser
    BY <1>1, <2>1, LoadCorrectionForUdpParserKeeps
  <2>2. CASE LoadCorrectionFile
    BY <1>1, <2>2, LoadCorrectionFileKeeps
  <2>3. CASE \E f \in Files : Reload(f)
    BY <1>1, <2>3, ReloadKeeps
  <2>4. CASE ComputePacket
    BY <1>1, <2>4, SameKeeps DEF ComputePacket
  <2> QED BY <1>1, <2>1, <2>2, <2>3, <2>4 DEF CpuNext
<1>2. CASE GpuAsk
  BY <1>2, GpuAskKeeps
<1>3. CASE GpuLoadFile
  BY <1>3, GpuLoadFileKeeps
<1>4. CASE ComputeFrame
  BY <1>4, SameKeeps DEF ComputeFrame
<1>5. CASE UNCHANGED vars
  BY <1>5, SameKeeps DEF vars, cpuVars
<1> QED BY <1>1, <1>2, <1>3, <1>4, <1>5 DEF Next

\* The inductive invariant of the two drivers.
THEOREM CorrInvariant == Spec => []CorrInv
BY CorrInit, CorrNext, PTL DEF Spec

\* Once a parser has accepted correction data that gives it all it reads, its
\* points are computed from that data alone, for every parser of the CPU
\* driver and any sequence of loads before it.
THEOREM CorrAcceptedIsWhole == Spec => []AcceptedIsWhole
<1>1. CorrInv => AcceptedIsWhole
  BY DEF CorrInv
<1> QED BY <1>1, CorrInvariant, PTL

\* After Init of the GPU driver with whole files the kernel shares with
\* ComputeXYZI the very cells that it reads, from the same load, unless the
\* reply of a lidar with Udp7_2 was ignored; and when the lidar answers only
\* some questions it never works on a mixture.  For every parser that has a
\* kernel, and Udp2_6 beside the kernel of Udp2_5.
THEOREM CorrGpuComputesLikeCpu == Spec => []GpuComputesLikeCpu
<1>1. CorrInv => GpuComputesLikeCpu
  <2> SUFFICES ASSUME CorrInv, stage = "run", driver = "gpu", latest.n \in {1, 2}
               PROVE  /\ ~flaky /\ latest.whole /\ ~Deaf =>
                           gpu.loaded /\ Used(gpu, KernelReads(gpu) \ Beyond)
                                           = Used(cpu, ComputeReads(cpu))
                      /\ flaky /\ had.whole =>
                           gpu.loaded /\ \E n \in 1..2 :
                             \A u \in Used(gpu, KernelReads(gpu) \ Beyond) : u[2] = n
    BY DEF GpuComputesLikeCpu
  <2>1. (Comparable /\ ~Deaf => Agrees) /\ (had.whole => Steady)
    BY DEF CorrInv, Progress
  <2>2. ~flaky /\ latest.whole /\ ~Deaf =>
          gpu.loaded /\ Used(gpu, KernelReads(gpu) \ Beyond) = Used(cpu, ComputeReads(cpu))
    BY <2>1 DEF Comparable, Agrees, LikeCpu
  <2>3. ASSUME had.whole
        PROVE  gpu.loaded /\ \E n \in 1..2 :
                 \A u \in Used(gpu, KernelReads(gpu) \ Beyond) : u[2] = n
    <3>1. gpu.loaded
      BY <2>1, <2>3 DEF Steady, OneLoad
    <3>2. PICK n \in 1..2 : \A c \in KernelReads(gpu) \ Beyond : Origin(gpu, c) = n
      BY <2>1, <2>3 DEF Steady, OneLoad
    <3>3. \A u \in Used(gpu, KernelReads(gpu) \ Beyond) : u[2] = n
      BY <3>2, UsedFrom
    <3> QED BY <3>1, <3>3
  <2> QED BY <2>2, <2>3
<1> QED BY <1>1, CorrInvariant, PTL
=============================================================================
