--------------------------- MODULE GpuCorrections ---------------------------
(***************************************************************************)
(* HesaiLidarSdkGpu (driver/hesai_lidar_sdk_gpu.cuh) and the parsers of    *)
(* libhesai/UdpParserGpu.  Packets are decoded by the parser of            *)
(* Corrections; the points of a frame are computed by a kernel from tables *)
(* of its own, loaded by code of its own.  This module is about whether    *)
(* the two sets of tables agree.                                           *)
(***************************************************************************)
EXTENDS Corrections

VARIABLES gpu,    \* the tables of the GPU parser
          tries,  \* how often Init has asked the lidar for them
          had     \* ghost: what Init had to load: was there a reply of the
                  \* lidar, and were that and the file whole?

vars == <<cpuVars, gpu, tries, had>>

\* SetLidarType with what GetLidarType says: it has no case for "ET25-E1X"
\* (Udp2_4), and "ET25" (Udp2_6) gets the parser of "ET25-E2X" (Udp2_5).
GpuParsers == AllParsers \ {"2_4"}
GpuParser == IF parser = "2_6" THEN "2_5" ELSE parser
Tries == 3

-----------------------------------------------------------------------------
(* Loading.  LoadCorrectionFile reads the file and calls                   *)
(* LoadCorrectionString: one operator for both.                            *)

\* A parser that has tables ignores new ones; otherwise the local arrays go
\* to the device whole, also the entries no line has set.
GpuCsv(t, f, n) ==
  IF f.kind = "missing" THEN Refuse(t)
  ELSE IF t.loaded THEN [ret |-> 0, tab |-> t]
  ELSE [ret |-> 0, tab |-> [t EXCEPT !.loaded = TRUE, !.size = MaxChannels,
          !.cells = StoreLines([c \in Cells |-> Junk], f, n, Angle)]]

Udp1_4GpuLoad(t, f, n) == GpuCsv(t, f, n)
Udp3_1GpuLoad(t, f, n) == GpuCsv(t, f, n)
Udp3_2GpuLoad(t, f, n) == GpuCsv(t, f, n)
Udp6_1GpuLoad(t, f, n) == GpuCsv(t, f, n)
UdpP40GpuLoad(t, f, n) == GpuCsv(t, f, n)
UdpP64GpuLoad(t, f, n) == GpuCsv(t, f, n)

\* The versions of the file, as on the CPU.
Udp2_5GpuV1(f) == EtCells(f)
Udp2_5GpuV2(f) == EtCells(f) \cup {Adjust}
Udp2_5GpuV3(f) == EtCells(f) \cup {Adjust}
Udp2_5GpuV4(f) == (EtCells(f) \ {Gamma}) \cup {Adjust} \cup Mirrors(f.mirrors)

Udp2_5GpuLoadDat(t, f, n) ==
  LoadDat([t EXCEPT !.min_version = IF f.kind = "dat" /\ f.version \in 1..4 THEN f.version ELSE @],
          f, 1..4,
          CASE f.version = 1 -> Udp2_5GpuV1(f) [] f.version = 2 -> Udp2_5GpuV2(f)
            [] f.version = 3 -> Udp2_5GpuV3(f) [] OTHER -> Udp2_5GpuV4(f), n)

Udp2_5GpuLoadCsv(t, f, n) == EtLoadCsv(t, f, n)

Udp2_5GpuLoad(t, f, n) ==
  LET d == Udp2_5GpuLoadDat(t, f, n)
  IN  FromFile(t, f, IF d.ret = 0 THEN d ELSE Udp2_5GpuLoadCsv(d.tab, f, n))

Udp4_3GpuLoad(t, f, n) ==
  FromFile(t, f, LoadDat(t, f, {5}, {Fields, Adjust} \cup Channels("ang", f.channels), n))

Udp4_7GpuLoad(t, f, n) ==
  FromFile(t, f, LoadDat(t, f, 1..3,
    Channels("ang", f.channels) \cup (IF f.version = 3 THEN {Adjust} ELSE {}), n))

Udp7_2GpuLoadDat(t, f, n) == Udp7_2LoadDat(t, f, n)

\* What the text reader makes of a binary file is anybody's guess.
Udp7_2GpuLoadCsv(t, f, n, lucky) ==
  IF f.kind = "csv" THEN Udp7_2LoadCsv(t, f, n)
  ELSE IF lucky THEN Accept(t, Channels("ang", MaxChannels), Junk) ELSE Refuse(t)

\* The test is the wrong way round: a file that is not binary counts as
\* loaded without a look at it, and a binary one is read as text after all.
Udp7_2GpuLoad(t, f, n, lucky) ==
  LET d == Udp7_2GpuLoadDat(t, f, n)
  IN  FromFile(t, f, IF d.ret # 0 THEN [ret |-> 0, tab |-> t]
                     ELSE Udp7_2GpuLoadCsv(d.tab, f, n, lucky))

\* UdpParserGpu::LoadCorrectionString and LoadCorrectionFile.
GpuLoad(t, f, n, lucky) ==
  CASE GpuParser = "1_4" -> Udp1_4GpuLoad(t, f, n)
    [] GpuParser = "3_1" -> Udp3_1GpuLoad(t, f, n)
    [] GpuParser = "3_2" -> Udp3_2GpuLoad(t, f, n)
    [] GpuParser = "6_1" -> Udp6_1GpuLoad(t, f, n)
    [] GpuParser = "p40" -> UdpP40GpuLoad(t, f, n)
    [] GpuParser = "p64" -> UdpP64GpuLoad(t, f, n)
    [] GpuParser = "2_5" -> Udp2_5GpuLoad(t, f, n)
    [] GpuParser = "4_3" -> Udp4_3GpuLoad(t, f, n)
    [] GpuParser = "4_7" -> Udp4_7GpuLoad(t, f, n)
    [] GpuParser = "7_2" -> Udp7_2GpuLoad(t, f, n, lucky)

-----------------------------------------------------------------------------
(* Computing: the cells the kernels read *)

Udp1_4Kernel == GeneralReads
Udp3_1Kernel == GeneralReads
Udp3_2Kernel == GeneralReads
Udp6_1Kernel == GeneralReads
UdpP40Kernel == GeneralReads
UdpP64Kernel == GeneralReads

\* The channel is the place of the point in its block, ichannel % lasernum.
Udp2_5KernelV1 == {Lead, Gamma} \cup Lasers("ang")
Udp2_5KernelV2V3 == {Lead, Gamma, Adjust} \cup Lasers("ang")
Udp2_5KernelV4 == {Lead, Adjust} \cup Mirrors(MirrorNum) \cup Lasers("ang")

\* With any other version no kernel is started.
Udp2_5Kernels(t) ==
  CASE t.min_version = 1 -> Udp2_5KernelV1 [] t.min_version \in {2, 3} -> Udp2_5KernelV2V3
    [] t.min_version = 4 -> Udp2_5KernelV4 [] OTHER -> {}

Udp4_3Kernel == {Fields, Adjust} \cup Lasers("ang")
Udp4_7Kernel(t) == Lasers("ang") \cup (IF t.version = 3 THEN {Adjust} ELSE {})

\* Its arguments include the tables; it reads the decoded angles alone.
Udp7_2Kernel == {}

KernelReads(t) ==
  CASE GpuParser = "1_4" -> Udp1_4Kernel [] GpuParser = "3_1" -> Udp3_1Kernel
    [] GpuParser = "3_2" -> Udp3_2Kernel [] GpuParser = "6_1" -> Udp6_1Kernel
    [] GpuParser = "p40" -> UdpP40Kernel [] GpuParser = "p64" -> UdpP64Kernel
    [] GpuParser = "2_5" -> Udp2_5Kernels(t) [] GpuParser = "4_3" -> Udp4_3Kernel
    [] GpuParser = "4_7" -> Udp4_7Kernel(t) [] GpuParser = "7_2" -> Udp7_2Kernel

-----------------------------------------------------------------------------
(* The steps *)

GpuReady ==
  /\ stage' = "run" /\ str' = Missing /\ path' = Missing
  /\ had' = [reply |-> str # Missing, whole |-> Whole(str) /\ Whole(path)]

\* Mutant: without tables from the lidar there are none.
GpuFallBackNever(t, lucky) == t

\* LoadCorrectionFile, whatever comes of it.
GpuFallBack(t, lucky) == GpuLoad(t, path, 2, lucky).tab

LastTry == tries + 1 = Tries

\* One round of the loop in Init with a live lidar: ask it for its
\* corrections; without an answer that can be loaded take the file, and ask
\* again.
GpuAsk ==
  /\ stage = "gpu" /\ source = "lidar"
  /\ \E answered \in Answered, lucky \in BOOLEAN :
       LET r == IF answered THEN GpuLoad(gpu, str, 1, lucky) ELSE Refuse(gpu)
       IN  /\ gpu' = IF r.ret = 0 THEN r.tab ELSE GpuFallBack(r.tab, lucky)
           /\ IF r.ret = 0 \/ LastTry
              THEN GpuReady /\ tries' = 0
              ELSE tries' = tries + 1 /\ UNCHANGED <<stage, str, path, had>>
  /\ UNCHANGED <<config, cpu, flaky, latest, points>>

\* ... with any other source.
GpuLoadFile ==
  /\ stage = "gpu" /\ source = "file"
  /\ \E lucky \in BOOLEAN : gpu' = GpuLoad(gpu, path, 2, lucky).tab
  /\ GpuReady
  /\ UNCHANGED <<config, cpu, flaky, latest, points, tries>>

\* Run: a decoded frame is computed and published.  UdpParserGpu::ComputeXYZI
\* drops the error code of a parser without tables, so the frame is
\* published as it is.
ComputeFrame ==
  /\ stage = "run" /\ driver = "gpu" /\ Decodes
  /\ \E inside \in InField :
       points' = IF inside /\ gpu.loaded /\ ~(GpuParser = "2_5" /\ Udp2_5Kernels(gpu) = {})
                 THEN Used(cpu, DecodeReads(cpu)) \cup Used(gpu, KernelReads(gpu))
                 ELSE points
  /\ UNCHANGED <<config, cpu, str, path, flaky, stage, latest, gpu, tries, had>>

\* corrections_loaded_ is set to FALSE by every constructor.
Init ==
  /\ CpuInit
  /\ driver \in IF parser \in GpuParsers THEN {"cpu", "gpu"} ELSE {"cpu"}
  /\ \E m \in MinVersions(GpuParser) : gpu = Blank(FALSE, m)
  /\ tries = 0 /\ had = [reply |-> FALSE, whole |-> FALSE]
  /\ flaky \in IF driver = "gpu" /\ str # Missing THEN BOOLEAN ELSE {FALSE}

Next ==
  \/ CpuNext /\ UNCHANGED <<gpu, tries, had>>
  \/ GpuAsk \/ GpuLoadFile \/ ComputeFrame

Spec == Init /\ [][Next]_vars

-----------------------------------------------------------------------------
(* Properties *)

\* Entries that the kernel reads and the CPU parser does not: Udp2_6 takes a
\* point's channel from its place in a sequence, the kernel of Udp2_5 from its
\* place in the whole packet.
Beyond == IF parser = "2_6" THEN Lasers("ang") \ Channels("ang", SeqChannels) ELSE {}

\* Udp7_2 counts a reply of the lidar that the CPU parser refused as loaded
\* and never gets to the file: it has no tables at all.
Deaf == parser = "7_2" /\ latest.n = 2 /\ had.reply

\* After Init with files that are whole the kernel works on the same
\* corrections as the CPU parser: it reads the very entries that ComputeXYZI
\* would, from the same load.  Not so where Deaf; and for Udp2_6 the entries
\* are there but the kernel reads others too, for other points (Beyond).  If
\* the lidar answers only some of the questions, the two may have taken one
\* the lidar's reply and the other the file: but the kernel never works on a
\* mixture of them.
GpuComputesLikeCpu ==
  stage = "run" /\ driver = "gpu" /\ latest.n \in {1, 2} =>
    LET shared == KernelReads(gpu) \ Beyond
    IN  /\ ~flaky /\ latest.whole /\ ~Deaf =>
             gpu.loaded /\ Used(gpu, shared) = Used(cpu, ComputeReads(cpu))
        /\ flaky /\ had.whole =>
             gpu.loaded /\ \E n \in 1..2 : \A u \in Used(gpu, shared) : u[2] = n
=============================================================================
