------------------------- MODULE SdkLifecycleProofs -------------------------
(***************************************************************************)
(* Proofs about SdkLifecycle for every source, number of threads and CPUs, *)
(* and any number of rounds of Init, Start and Stop.                       *)
(***************************************************************************)
EXTENDS SdkLifecycle, TLAPS

-----------------------------------------------------------------------------
LEMMA InitTypes == Init => TypeOK
<1> SUFFICES ASSUME Init PROVE TypeOK
  OBVIOUS
<1>1. PlacesOK
  BY DEF Init, PlacesOK
<1>2. CountersOK
  BY LifecycleAssumption DEF Init, CountersOK
<1>3. FlagsOK
  BY Zenon DEF Init, FlagsOK
<1> QED BY <1>1, <1>2, <1>3 DEF TypeOK

LEMMA AppTypes ==
  ASSUME TypeOK, AppInit \/ AppStart \/ StopRun \/ StopStep
  PROVE  TypeOK'
<1>1. CASE AppInit
  <2>1. PlacesOK'
    BY <1>1 DEF AppInit, TypeOK, PlacesOK
  <2>2. CountersOK'
    BY <1>1, LifecycleAssumption DEF AppInit, TypeOK, CountersOK
  <2>3. FlagsOK'
    BY <1>1, Zenon DEF AppInit, TypeOK, FlagsOK
  <2> QED BY <2>1, <2>2, <2>3 DEF TypeOK
<1>2. CASE AppStart
  <2>1. PlacesOK'
    BY <1>2 DEF AppStart, lidarVars, TypeOK, PlacesOK
  <2>2. CountersOK'
    BY <1>2, LifecycleAssumption DEF AppStart, lidarVars, TypeOK, CountersOK
  <2>3. FlagsOK'
    BY <1>2, Zenon DEF AppStart, lidarVars, TypeOK, FlagsOK
  <2> QED BY <2>1, <2>2, <2>3 DEF TypeOK
<1>3. CASE StopRun
  <2>1. PlacesOK'
    BY <1>3 DEF StopRun, lidarVars, TypeOK, PlacesOK
  <2>2. CountersOK'
    BY <1>3, LifecycleAssumption DEF StopRun, lidarVars, TypeOK, CountersOK
  <2>3. FlagsOK'
    BY <1>3, Zenon DEF StopRun, lidarVars, TypeOK, FlagsOK
  <2> QED BY <2>1, <2>2, <2>3 DEF TypeOK
<1>4. CASE StopJoinRun
  <2>1. PlacesOK'
    BY <1>4 DEF StopJoinRun, lidarVars, TypeOK, PlacesOK
  <2>2. CountersOK'
    BY <1>4, LifecycleAssumption DEF StopJoinRun, lidarVars, TypeOK, CountersOK
  <2>3. FlagsOK'
    BY <1>4, Zenon DEF StopJoinRun, lidarVars, TypeOK, FlagsOK
  <2> QED BY <2>1, <2>2, <2>3 DEF TypeOK
<1>5. CASE StopDelete
  <2>1. PlacesOK'
    BY <1>5 DEF StopDelete, sdkVars, Threads, TypeOK, PlacesOK
  <2>2. CountersOK'
    BY <1>5, LifecycleAssumption DEF StopDelete, sdkVars, TypeOK, CountersOK
  <2>3. FlagsOK'
    BY <1>5, Zenon DEF StopDelete, sdkVars, TypeOK, FlagsOK
  <2> QED BY <2>1, <2>2, <2>3 DEF TypeOK
<1>6. CASE StopFree
  <2>1. PlacesOK'
    BY <1>6 DEF StopFree, lidarVars, sdkVars, TypeOK, PlacesOK
  <2>2. CountersOK'
    BY <1>6, LifecycleAssumption DEF StopFree, lidarVars, sdkVars, TypeOK, CountersOK
  <2>3. FlagsOK'
    BY <1>6, Zenon DEF StopFree, lidarVars, sdkVars, TypeOK, FlagsOK
  <2> QED BY <2>1, <2>2, <2>3 DEF TypeOK
<1>7. CASE StopJoinInit
  <2>1. PlacesOK'
    BY <1>7 DEF StopJoinInit, lidarVars, sdkVars, TypeOK, PlacesOK
  <2>2. CountersOK'
    BY <1>7, LifecycleAssumption DEF StopJoinInit, lidarVars, sdkVars, TypeOK, CountersOK
  <2>3. FlagsOK'
    BY <1>7, Zenon DEF StopJoinInit, lidarVars, sdkVars, TypeOK, FlagsOK
  <2> QED BY <2>1, <2>2, <2>3 DEF TypeOK
<1>8. ASSUME NEW t \in Threads, StopJoin(t) PROVE TypeOK'
  <2>1. PlacesOK'
    BY <1>8 DEF StopJoin, AfterJoin, Threads, lidarVars, sdkVars, TypeOK, PlacesOK
  <2>2. CountersOK'
    BY <1>8, LifecycleAssumption DEF StopJoin, lidarVars, sdkVars, TypeOK, CountersOK
  <2>3. FlagsOK'
    BY <1>8, Zenon DEF StopJoin, lidarVars, sdkVars, TypeOK, FlagsOK
  <2> QED BY <2>1, <2>2, <2>3 DEF TypeOK
<1> QED BY <1>1, <1>2, <1>3, <1>4, <1>5, <1>6, <1>7, <1>8 DEF StopStep

LEMMA InitThreadTypes ==
  ASSUME TypeOK, InitStep
  PROVE  TypeOK'
<1>1. CASE InitEnter
  <2>1. PlacesOK'
    BY <1>1 DEF InitEnter, lidarVars, sdkVars, TypeOK, PlacesOK
  <2>2. CountersOK'
    BY <1>1, LifecycleAssumption DEF InitEnter, lidarVars, sdkVars, TypeOK, CountersOK
  <2>3. FlagsOK'
    BY <1>1, Zenon DEF InitEnter, lidarVars, sdkVars, TypeOK, FlagsOK
  <2> QED BY <2>1, <2>2, <2>3 DEF TypeOK
<1>2. CASE InitSetThreads
  <2>1. PlacesOK'
    BY <1>2 DEF InitSetThreads, sdkVars, TypeOK, PlacesOK
  <2>2. CountersOK'
    BY <1>2, LifecycleAssumption DEF InitSetThreads, sdkVars, TypeOK, CountersOK
  <2>3. FlagsOK'
    BY <1>2, Zenon DEF InitSetThreads, sdkVars, TypeOK, FlagsOK
  <2> QED BY <2>1, <2>2, <2>3 DEF TypeOK
<1>3. CASE InitNewThreads
  <2>0. ClampedThreadNum \in Int
    BY LifecycleAssumption DEF ClampedThreadNum
  <2>1. PlacesOK'
    BY <1>3, <2>0 DEF InitNewThreads, sdkVars, TypeOK, PlacesOK
  <2>2. CountersOK'
    BY <1>3, LifecycleAssumption, <2>0 DEF InitNewThreads, sdkVars, TypeOK, CountersOK
  <2>3. FlagsOK'
    BY <1>3, Zenon DEF InitNewThreads, sdkVars, TypeOK, FlagsOK
  <2> QED BY <2>1, <2>2, <2>3 DEF TypeOK
<1>4. CASE InitPtc
  <2>1. PlacesOK'
    BY <1>4 DEF InitPtc, sdkVars, TypeOK, PlacesOK
  <2>2. CountersOK'
    BY <1>4, LifecycleAssumption DEF InitPtc, sdkVars, TypeOK, CountersOK
  <2>3. FlagsOK'
    BY <1>4, Zenon DEF InitPtc, sdkVars, TypeOK, FlagsOK
  <2> QED BY <2>1, <2>2, <2>3 DEF TypeOK
<1>5. CASE InitFirstPacket
  <2>1. PlacesOK'
    BY <1>5 DEF InitFirstPacket, GetOnePacket, sdkVars, TypeOK, PlacesOK
  <2>2. CountersOK'
    BY <1>5, LifecycleAssumption DEF InitFirstPacket, GetOnePacket, sdkVars, TypeOK, CountersOK
  <2>3. FlagsOK'
    BY <1>5, Zenon DEF InitFirstPacket, GetOnePacket, sdkVars, TypeOK, FlagsOK
  <2> QED BY <2>1, <2>2, <2>3 DEF TypeOK
<1>6. CASE InitParser
  <2>1. PlacesOK'
    BY <1>6 DEF InitParser, sdkVars, TypeOK, PlacesOK, InitStatus
  <2>2. CountersOK'
    BY <1>6, LifecycleAssumption DEF InitParser, sdkVars, TypeOK, CountersOK
  <2>3. FlagsOK'
    BY <1>6, Zenon DEF InitParser, sdkVars, TypeOK, FlagsOK
  <2> QED BY <2>1, <2>2, <2>3 DEF TypeOK
<1>7. CASE InitWaitPtc
  <2>1. PlacesOK'
    BY <1>7 DEF InitWaitPtc, lidarVars, sdkVars, TypeOK, PlacesOK
  <2>2. CountersOK'
    BY <1>7, LifecycleAssumption DEF InitWaitPtc, lidarVars, sdkVars, TypeOK, CountersOK
  <2>3. FlagsOK'
    BY <1>7, Zenon DEF InitWaitPtc, lidarVars, sdkVars, TypeOK, FlagsOK
  <2> QED BY <2>1, <2>2, <2>3 DEF TypeOK
<1>8. CASE InitLoad
  <2>1. PlacesOK'
    BY <1>8 DEF InitLoad, sdkVars, TypeOK, PlacesOK
  <2>2. CountersOK'
    BY <1>8, LifecycleAssumption DEF InitLoad, sdkVars, TypeOK, CountersOK
  <2>3. FlagsOK'
    BY <1>8, Zenon DEF InitLoad, sdkVars, TypeOK, FlagsOK
  <2> QED BY <2>1, <2>2, <2>3 DEF TypeOK
<1>9. CASE InitCloud
  <2>1. PlacesOK'
    BY <1>9 DEF InitCloud, sdkVars, TypeOK, PlacesOK, InitStatus
  <2>2. CountersOK'
    BY <1>9, LifecycleAssumption DEF InitCloud, sdkVars, TypeOK, CountersOK
  <2>3. FlagsOK'
    BY <1>9, Zenon DEF InitCloud, sdkVars, TypeOK, FlagsOK
  <2> QED BY <2>1, <2>2, <2>3 DEF TypeOK
<1>10. CASE InitAll
  <2>1. PlacesOK'
    BY <1>10 DEF InitAll, sdkVars, TypeOK, PlacesOK, InitStatus
  <2>2. CountersOK'
    BY <1>10, LifecycleAssumption DEF InitAll, sdkVars, TypeOK, CountersOK
  <2>3. FlagsOK'
    BY <1>10, Zenon DEF InitAll, sdkVars, TypeOK, FlagsOK
  <2> QED BY <2>1, <2>2, <2>3 DEF TypeOK
<1>11. CASE InitUsesFreed
  <2>1. PlacesOK'
    BY <1>11 DEF InitUsesFreed, lidarVars, sdkVars, TypeOK, PlacesOK
  <2>2. CountersOK'
    BY <1>11, LifecycleAssumption DEF InitUsesFreed, lidarVars, sdkVars, TypeOK, CountersOK
  <2>3. FlagsOK'
    BY <1>11, Zenon DEF InitUsesFreed, lidarVars, sdkVars, TypeOK, FlagsOK
  <2> QED BY <2>1, <2>2, <2>3 DEF TypeOK
<1> QED BY <1>1, <1>2, <1>3, <1>4, <1>5, <1>6, <1>7, <1>8, <1>9, <1>10, <1>11 DEF InitStep

LEMMA ThreadTypes ==
  ASSUME TypeOK, Receive \/ (\E t \in Threads : ThreadExit(t)) \/ PtcOpens \/ InitSetPtc
  PROVE  TypeOK'
<1>1. CASE Receive
  <2>1. PlacesOK'
    BY <1>1 DEF Receive, sdkVars, TypeOK, PlacesOK
  <2>2. CountersOK'
    BY <1>1, LifecycleAssumption DEF Receive, sdkVars, TypeOK, CountersOK
  <2>3. FlagsOK'
    BY <1>1, Zenon DEF Receive, sdkVars, TypeOK, FlagsOK
  <2> QED BY <2>1, <2>2, <2>3 DEF TypeOK
<1>2. ASSUME NEW t \in Threads, ThreadExit(t) PROVE TypeOK'
  <2>1. PlacesOK'
    BY <1>2 DEF ThreadExit, sdkVars, TypeOK, PlacesOK
  <2>2. CountersOK'
    BY <1>2, LifecycleAssumption DEF ThreadExit, sdkVars, TypeOK, CountersOK
  <2>3. FlagsOK'
    BY <1>2, Zenon DEF ThreadExit, sdkVars, TypeOK, FlagsOK
  <2> QED BY <2>1, <2>2, <2>3 DEF TypeOK
<1>3. CASE PtcOpens
  <2>1. PlacesOK'
    BY <1>3 DEF PtcOpens, sdkVars, TypeOK, PlacesOK
  <2>2. CountersOK'
    BY <1>3, LifecycleAssumption DEF PtcOpens, sdkVars, TypeOK, CountersOK
  <2>3. FlagsOK'
    BY <1>3, Zenon DEF PtcOpens, sdkVars, TypeOK, FlagsOK
  <2> QED BY <2>1, <2>2, <2>3 DEF TypeOK
<1>4. CASE InitSetPtc
  <2>1. PlacesOK'
    BY <1>4 DEF InitSetPtc, sdkVars, TypeOK, PlacesOK, InitStatus, Threads
  <2>2. CountersOK'
    BY <1>4, LifecycleAssumption DEF InitSetPtc, sdkVars, TypeOK, CountersOK
  <2>3. FlagsOK'
    BY <1>4, Zenon DEF InitSetPtc, sdkVars, TypeOK, FlagsOK
  <2> QED BY <2>1, <2>2, <2>3 DEF TypeOK
<1> QED BY <1>1, <1>2, <1>3, <1>4

LEMMA RunTypes ==
  ASSUME TypeOK, RunStep
  PROVE  TypeOK'
<1>1. CASE RunEnter
  <2>1. PlacesOK'
    BY <1>1 DEF RunEnter, lidarVars, TypeOK, PlacesOK
  <2>2. CountersOK'
    BY <1>1, LifecycleAssumption DEF RunEnter, lidarVars, TypeOK, CountersOK
  <2>3. FlagsOK'
    BY <1>1, Zenon DEF RunEnter, lidarVars, TypeOK, FlagsOK
  <2> QED BY <2>1, <2>2, <2>3 DEF TypeOK
<1>2. CASE RunExit
  <2>1. PlacesOK'
    BY <1>2 DEF RunExit, lidarVars, TypeOK, PlacesOK
  <2>2. CountersOK'
    BY <1>2, LifecycleAssumption DEF RunExit, lidarVars, TypeOK, CountersOK
  <2>3. FlagsOK'
    BY <1>2, Zenon DEF RunExit, lidarVars, TypeOK, FlagsOK
  <2> QED BY <2>1, <2>2, <2>3 DEF TypeOK
<1>3. CASE RunFault
  <2>1. PlacesOK'
    BY <1>3 DEF RunFault, GetOnePacket, TypeOK, PlacesOK
  <2>2. CountersOK'
    BY <1>3, LifecycleAssumption DEF RunFault, GetOnePacket, TypeOK, CountersOK
  <2>3. FlagsOK'
    BY <1>3, Zenon DEF RunFault, GetOnePacket, TypeOK, FlagsOK
  <2> QED BY <2>1, <2>2, <2>3 DEF TypeOK
<1>4. CASE RunPoint
  <2>1. PlacesOK'
    BY <1>4 DEF RunPoint, GetOnePacket, TypeOK, PlacesOK
  <2>2. CountersOK'
    BY <1>4, LifecycleAssumption DEF RunPoint, GetOnePacket, TypeOK, CountersOK
  <2>3. FlagsOK'
    BY <1>4, Zenon DEF RunPoint, GetOnePacket, TypeOK, FlagsOK
  <2> QED BY <2>1, <2>2, <2>3 DEF TypeOK
<1>5. CASE RunDecode
  <2>1. PlacesOK'
    BY <1>5 DEF RunDecode, lidarVars, TypeOK, PlacesOK
  <2>2. CountersOK'
    BY <1>5, LifecycleAssumption DEF RunDecode, lidarVars, TypeOK, CountersOK
  <2>3. FlagsOK'
    BY <1>5, Zenon DEF RunDecode, lidarVars, TypeOK, FlagsOK
  <2> QED BY <2>1, <2>2, <2>3 DEF TypeOK
<1> QED BY <1>1, <1>2, <1>3, <1>4, <1>5 DEF RunStep

\* The flags, counters and places of the life cycle keep their types whatever
\* the application, the source and the connection do.
THEOREM LifecycleTypeCorrect == Spec => []TypeOK
<1>1. TypeOK /\ [Next]_vars => TypeOK'
  <2> SUFFICES ASSUME TypeOK, [Next]_vars PROVE TypeOK'
    OBVIOUS
  <2>1. CASE Next
    BY <2>1, AppTypes, InitThreadTypes, ThreadTypes, RunTypes DEF Next
  <2>2. CASE UNCHANGED vars
    BY <2>2 DEF vars, lidarVars, sdkVars, TypeOK, PlacesOK, CountersOK, FlagsOK
  <2> QED BY <2>1, <2>2
<1> QED BY InitTypes, <1>1, PTL DEF Spec
-----------------------------------------------------------------------------
(* Stopping *)

\* Whatever the application does.
LEMMA OwnershipStep ==
  ASSUME TypeOK, Ownership, Next
  PROVE  Ownership'
<1>1. CASE AppInit
  BY <1>1 DEF AppInit, Threads, TypeOK, PlacesOK, Ownership
<1>2. CASE AppStart
  BY <1>2 DEF AppStart, lidarVars, TypeOK, PlacesOK, Ownership, Threads
<1>3. CASE StopRun
  BY <1>3 DEF StopRun, lidarVars, StopAllowed, TypeOK, PlacesOK, Ownership, Threads
<1>4. CASE StopJoinRun
  BY <1>4 DEF StopJoinRun, lidarVars, TypeOK, PlacesOK, Ownership, Threads
<1>5. CASE StopDelete
  BY <1>5 DEF StopDelete, sdkVars, Threads, TypeOK, PlacesOK, Ownership
<1>6. ASSUME NEW t \in Threads, StopJoin(t) PROVE Ownership'
  BY <1>6 DEF StopJoin, lidarVars, sdkVars, AfterJoin, DestructorJoins, Threads,
       TypeOK, PlacesOK, Ownership
<1>7. CASE StopFree
  BY <1>7 DEF StopFree, lidarVars, sdkVars, TypeOK, PlacesOK, Ownership, Threads
<1>8. CASE StopJoinInit
  BY <1>8 DEF StopJoinInit, lidarVars, sdkVars, TypeOK, PlacesOK, Ownership, Threads
<1>9. CASE InitEnter
  BY <1>9 DEF InitEnter, lidarVars, sdkVars, TypeOK, PlacesOK, Ownership, Threads
<1>10. CASE InitSetThreads
  BY <1>10 DEF InitSetThreads, sdkVars, TypeOK, PlacesOK, Ownership, Threads
<1>11. CASE InitNewThreads
  BY <1>11 DEF InitNewThreads, sdkVars, Threads, TypeOK, PlacesOK, Ownership
<1>12. CASE InitPtc
  BY <1>12 DEF InitPtc, sdkVars, Threads, TypeOK, PlacesOK, Ownership
<1>13. CASE InitFirstPacket
  BY <1>13 DEF InitFirstPacket, sdkVars, TypeOK, PlacesOK, Ownership, Threads
<1>14. CASE InitParser
  BY <1>14 DEF InitParser, sdkVars, TypeOK, PlacesOK, Ownership, Threads
<1>15. CASE InitWaitPtc
  BY <1>15 DEF InitWaitPtc, lidarVars, sdkVars, TypeOK, PlacesOK, Ownership, Threads
<1>16. CASE InitLoad
  BY <1>16 DEF InitLoad, sdkVars, TypeOK, PlacesOK, Ownership, Threads
<1>17. CASE InitCloud
  BY <1>17 DEF InitCloud, sdkVars, TypeOK, PlacesOK, Ownership, Threads
<1>18. CASE InitAll
  BY <1>18 DEF InitAll, sdkVars, TypeOK, PlacesOK, Ownership, Threads
<1>19. CASE InitUsesFreed
  BY <1>19 DEF InitUsesFreed, lidarVars, sdkVars, TypeOK, PlacesOK, Ownership, Threads
<1>20. CASE Receive
  BY <1>20 DEF Receive, sdkVars, TypeOK, PlacesOK, Ownership, Threads
<1>21. ASSUME NEW t \in Threads, ThreadExit(t) PROVE Ownership'
  BY <1>21 DEF ThreadExit, sdkVars, Threads, TypeOK, PlacesOK, Ownership
<1>22. CASE PtcOpens
  BY <1>22 DEF PtcOpens, sdkVars, TypeOK, PlacesOK, Ownership, Threads
<1>23. CASE InitSetPtc
  BY <1>23 DEF InitSetPtc, sdkVars, Threads, TypeOK, PlacesOK, Ownership
<1>24. CASE RunEnter
  BY <1>24 DEF RunEnter, lidarVars, TypeOK, PlacesOK, Ownership, Threads
<1>25. CASE RunExit
  BY <1>25 DEF RunExit, lidarVars, TypeOK, PlacesOK, Ownership, Threads
<1>26. CASE RunFault
  BY <1>26 DEF RunFault, TypeOK, PlacesOK, Ownership, Threads
<1>27. CASE RunPoint
  BY <1>27 DEF RunPoint, GateOpen, TypeOK, PlacesOK, Ownership, Threads
<1>28. CASE RunDecode
  BY <1>28 DEF RunDecode, lidarVars, TypeOK, PlacesOK, Ownership, Threads
<1> QED BY <1>1, <1>2, <1>3, <1>4, <1>5, <1>6, <1>7, <1>8, <1>9, <1>10, <1>11, <1>12, <1>13, <1>14,
           <1>15, <1>16, <1>17, <1>18, <1>19, <1>20, <1>21, <1>22, <1>23, <1>24, <1>25, <1>26, <1>27, <1>28
        DEF Next, StopStep, InitStep, RunStep

\* For applications that leave Stop until Start has returned.
LEMMA ProgressStep ==
  ASSUME TypeOK, Ownership, Progress, "inited" \notin StopMoments, Next
  PROVE  Progress'
<1>1. CASE AppInit
  BY <1>1 DEF AppInit, Threads, TypeOK, PlacesOK, Ownership, Progress, MayStart
<1>2. CASE AppStart
  BY <1>2 DEF AppStart, lidarVars, TypeOK, PlacesOK, Ownership, Progress, MayStart,
       Threads
<1>3. CASE StopRun
  BY <1>3 DEF StopRun, lidarVars, StopAllowed, TypeOK, PlacesOK, Ownership, Progress,
       MayStart, Threads
<1>4. CASE StopJoinRun
  BY <1>4 DEF StopJoinRun, lidarVars, TypeOK, PlacesOK, Ownership, Progress, MayStart,
       Threads
<1>5. CASE StopDelete
  BY <1>5 DEF StopDelete, sdkVars, Threads, TypeOK, PlacesOK, Ownership, Progress,
       MayStart
<1>6. ASSUME NEW t \in Threads, StopJoin(t) PROVE Progress'
  BY <1>6 DEF StopJoin, lidarVars, sdkVars, AfterJoin, DestructorJoins, Threads,
       TypeOK, PlacesOK, Ownership, Progress, MayStart
<1>7. CASE StopFree
  BY <1>7 DEF StopFree, lidarVars, sdkVars, TypeOK, PlacesOK, Ownership, Progress,
       MayStart, Threads
<1>8. CASE StopJoinInit
  BY <1>8 DEF StopJoinInit, lidarVars, sdkVars, TypeOK, PlacesOK, Ownership, Progress,
       MayStart, Threads
<1>9. CASE InitEnter
  BY <1>9 DEF InitEnter, lidarVars, sdkVars, TypeOK, PlacesOK, Ownership, Progress,
       MayStart, Threads
<1>10. CASE InitSetThreads
  BY <1>10 DEF InitSetThreads, sdkVars, TypeOK, PlacesOK, Ownership, Progress,
       MayStart, Threads
<1>11. CASE InitNewThreads
  BY <1>11 DEF InitNewThreads, sdkVars, Threads, TypeOK, PlacesOK, Ownership, Progress,
       MayStart
<1>12. CASE InitPtc
  BY <1>12 DEF InitPtc, sdkVars, Threads, TypeOK, PlacesOK, Ownership, Progress, MayStart
<1>13. CASE InitFirstPacket
  BY <1>13 DEF InitFirstPacket, sdkVars, TypeOK, PlacesOK, Ownership, Progress,
       MayStart, Threads
<1>14. CASE InitParser
  BY <1>14 DEF InitParser, sdkVars, TypeOK, PlacesOK, Ownership, Progress, MayStart,
       Threads
<1>15. CASE InitWaitPtc
  BY <1>15 DEF InitWaitPtc, lidarVars, sdkVars, TypeOK, PlacesOK, Ownership, Progress,
       MayStart, Threads
<1>16. CASE InitLoad
  BY <1>16 DEF InitLoad, sdkVars, TypeOK, PlacesOK, Ownership, Progress, MayStart, Threads
<1>17. CASE InitCloud
  BY <1>17 DEF InitCloud, sdkVars, TypeOK, PlacesOK, Ownership, Progress, MayStart,
       Threads
<1>18. CASE InitAll
  BY <1>18 DEF InitAll, sdkVars, TypeOK, PlacesOK, Ownership, Progress, MayStart, Threads
<1>19. CASE InitUsesFreed
  BY <1>19 DEF InitUsesFreed, lidarVars, sdkVars, TypeOK, PlacesOK, Ownership,
       Progress, MayStart, Threads
<1>20. CASE Receive
  BY <1>20 DEF Receive, sdkVars, TypeOK, PlacesOK, Ownership, Progress, MayStart, Threads
<1>21. ASSUME NEW t \in Threads, ThreadExit(t) PROVE Progress'
  BY <1>21 DEF ThreadExit, sdkVars, Threads, TypeOK, PlacesOK, Ownership, Progress,
       MayStart
<1>22. CASE PtcOpens
  BY <1>22 DEF PtcOpens, sdkVars, TypeOK, PlacesOK, Ownership, Progress, MayStart, Threads
<1>23. CASE InitSetPtc
  BY <1>23 DEF InitSetPtc, sdkVars, Threads, TypeOK, PlacesOK, Ownership, Progress,
       MayStart
<1>24. CASE RunEnter
  BY <1>24 DEF RunEnter, lidarVars, TypeOK, PlacesOK, Ownership, Progress, MayStart,
       Threads
<1>25. CASE RunExit
  BY <1>25 DEF RunExit, lidarVars, TypeOK, PlacesOK, Ownership, Progress, MayStart,
       Threads
<1>26. CASE RunFault
  BY <1>26 DEF RunFault, TypeOK, PlacesOK, Ownership, Progress, MayStart, Threads
<1>27. CASE RunPoint
  BY <1>27 DEF RunPoint, GateOpen, TypeOK, PlacesOK, Ownership, Progress, MayStart,
       Threads
<1>28. CASE RunDecode
  BY <1>28 DEF RunDecode, lidarVars, TypeOK, PlacesOK, Ownership, Progress, MayStart,
       Threads
<1> QED BY <1>1, <1>2, <1>3, <1>4, <1>5, <1>6, <1>7, <1>8, <1>9, <1>10, <1>11, <1>12, <1>13, <1>14,
           <1>15, <1>16, <1>17, <1>18, <1>19, <1>20, <1>21, <1>22, <1>23, <1>24, <1>25, <1>26, <1>27, <1>28
        DEF Next, StopStep, InitStep, RunStep

LEMMA JoinedStep ==
  ASSUME TypeOK, Ownership, Progress, JoinedInOrder, "inited" \notin StopMoments, Next
  PROVE  JoinedInOrder'
<1>1. CASE AppInit
  BY <1>1 DEF AppInit, Threads, TypeOK, PlacesOK, Ownership, Progress, MayStart,
       JoinedInOrder
<1>2. CASE AppStart
  BY <1>2 DEF AppStart, lidarVars, TypeOK, PlacesOK, Ownership, Progress, MayStart,
       JoinedInOrder, Threads
<1>3. CASE StopRun
  BY <1>3 DEF StopRun, lidarVars, StopAllowed, TypeOK, PlacesOK, Ownership, Progress,
       MayStart, JoinedInOrder, Threads
<1>4. CASE StopJoinRun
  BY <1>4 DEF StopJoinRun, lidarVars, TypeOK, PlacesOK, Ownership, Progress, MayStart,
       JoinedInOrder, Threads
<1>5. CASE StopDelete
  BY <1>5 DEF StopDelete, sdkVars, Threads, TypeOK, PlacesOK, Ownership, Progress,
       MayStart, JoinedInOrder
<1>6. ASSUME NEW t \in Threads, StopJoin(t) PROVE JoinedInOrder'
  BY <1>6 DEF StopJoin, lidarVars, sdkVars, AfterJoin, DestructorJoins, Threads,
       TypeOK, PlacesOK, Ownership, Progress, MayStart, JoinedInOrder
<1>7. CASE StopFree
  BY <1>7 DEF StopFree, lidarVars, sdkVars, TypeOK, PlacesOK, Ownership, Progress,
       MayStart, JoinedInOrder, Threads
<1>8. CASE StopJoinInit
  BY <1>8 DEF StopJoinInit, lidarVars, sdkVars, TypeOK, PlacesOK, Ownership, Progress,
       MayStart, JoinedInOrder, Threads
<1>9. CASE InitEnter
  BY <1>9 DEF InitEnter, lidarVars, sdkVars, TypeOK, PlacesOK, Ownership, Progress,
       MayStart, JoinedInOrder, Threads
<1>10. CASE InitSetThreads
  BY <1>10 DEF InitSetThreads, sdkVars, TypeOK, PlacesOK, Ownership, Progress,
       MayStart, JoinedInOrder, Threads
<1>11. CASE InitNewThreads
  BY <1>11 DEF InitNewThreads, sdkVars, Threads, TypeOK, PlacesOK, Ownership, Progress,
       MayStart, JoinedInOrder
<1>12. CASE InitPtc
  BY <1>12 DEF InitPtc, sdkVars, Threads, TypeOK, PlacesOK, Ownership, Progress,
       MayStart, JoinedInOrder
<1>13. CASE InitFirstPacket
  BY <1>13 DEF InitFirstPacket, sdkVars, TypeOK, PlacesOK, Ownership, Progress,
       MayStart, JoinedInOrder, Threads
<1>14. CASE InitParser
  BY <1>14 DEF InitParser, sdkVars, TypeOK, PlacesOK, Ownership, Progress, MayStart,
       JoinedInOrder, Threads
<1>15. CASE InitWaitPtc
  BY <1>15 DEF InitWaitPtc, lidarVars, sdkVars, TypeOK, PlacesOK, Ownership, Progress,
       MayStart, JoinedInOrder, Threads
<1>16. CASE InitLoad
  BY <1>16 DEF InitLoad, sdkVars, TypeOK, PlacesOK, Ownership, Progress, MayStart,
       JoinedInOrder, Threads
<1>17. CASE InitCloud
  BY <1>17 DEF InitCloud, sdkVars, TypeOK, PlacesOK, Ownership, Progress, MayStart,
       JoinedInOrder, Threads
<1>18. CASE InitAll
  BY <1>18 DEF InitAll, sdkVars, TypeOK, PlacesOK, Ownership, Progress, MayStart,
       JoinedInOrder, Threads
<1>19. CASE InitUsesFreed
  BY <1>19 DEF InitUsesFreed, lidarVars, sdkVars, TypeOK, PlacesOK, Ownership,
       Progress, MayStart, JoinedInOrder, Threads
<1>20. CASE Receive
  BY <1>20 DEF Receive, sdkVars, TypeOK, PlacesOK, Ownership, Progress, MayStart,
       JoinedInOrder, Threads
<1>21. ASSUME NEW t \in Threads, ThreadExit(t) PROVE JoinedInOrder'
  BY <1>21 DEF ThreadExit, sdkVars, Threads, TypeOK, PlacesOK, Ownership, Progress,
       MayStart, JoinedInOrder
<1>22. CASE PtcOpens
  BY <1>22 DEF PtcOpens, sdkVars, TypeOK, PlacesOK, Ownership, Progress, MayStart,
       JoinedInOrder, Threads
<1>23. CASE InitSetPtc
  BY <1>23 DEF InitSetPtc, sdkVars, Threads, TypeOK, PlacesOK, Ownership, Progress,
       MayStart, JoinedInOrder
<1>24. CASE RunEnter
  BY <1>24 DEF RunEnter, lidarVars, TypeOK, PlacesOK, Ownership, Progress, MayStart,
       JoinedInOrder, Threads
<1>25. CASE RunExit
  BY <1>25 DEF RunExit, lidarVars, TypeOK, PlacesOK, Ownership, Progress, MayStart,
       JoinedInOrder, Threads
<1>26. CASE RunFault
  BY <1>26 DEF RunFault, TypeOK, PlacesOK, Ownership, Progress, MayStart,
       JoinedInOrder, Threads
<1>27. CASE RunPoint
  BY <1>27 DEF RunPoint, GateOpen, TypeOK, PlacesOK, Ownership, Progress, MayStart,
       JoinedInOrder, Threads
<1>28. CASE RunDecode
  BY <1>28 DEF RunDecode, lidarVars, TypeOK, PlacesOK, Ownership, Progress, MayStart,
       JoinedInOrder, Threads
<1> QED BY <1>1, <1>2, <1>3, <1>4, <1>5, <1>6, <1>7, <1>8, <1>9, <1>10, <1>11, <1>12, <1>13, <1>14,
           <1>15, <1>16, <1>17, <1>18, <1>19, <1>20, <1>21, <1>22, <1>23, <1>24, <1>25, <1>26, <1>27, <1>28
        DEF Next, StopStep, InitStep, RunStep

LEMMA ExitStep ==
  ASSUME TypeOK, Ownership, Progress, ExitSticks, Next
  PROVE  ExitSticks'
<1>1. CASE AppInit
  BY <1>1 DEF AppInit, Threads, TypeOK, PlacesOK, Ownership, Progress, MayStart,
       ExitSticks
<1>2. CASE AppStart
  BY <1>2 DEF AppStart, lidarVars, TypeOK, PlacesOK, Ownership, Progress, MayStart,
       ExitSticks, Threads
<1>3. CASE StopRun
  BY <1>3 DEF StopRun, lidarVars, StopAllowed, TypeOK, PlacesOK, Ownership, Progress,
       MayStart, ExitSticks, Threads
<1>4. CASE StopJoinRun
  BY <1>4 DEF StopJoinRun, lidarVars, TypeOK, PlacesOK, Ownership, Progress, MayStart,
       ExitSticks, Threads
<1>5. CASE StopDelete
  BY <1>5 DEF StopDelete, sdkVars, Threads, TypeOK, PlacesOK, Ownership, Progress,
       MayStart, ExitSticks
<1>6. ASSUME NEW t \in Threads, StopJoin(t) PROVE ExitSticks'
  BY <1>6 DEF StopJoin, lidarVars, sdkVars, AfterJoin, DestructorJoins, Threads,
       TypeOK, PlacesOK, Ownership, Progress, MayStart, ExitSticks
<1>7. CASE StopFree
  BY <1>7 DEF StopFree, lidarVars, sdkVars, TypeOK, PlacesOK, Ownership, Progress,
       MayStart, ExitSticks, Threads
<1>8. CASE StopJoinInit
  BY <1>8 DEF StopJoinInit, lidarVars, sdkVars, TypeOK, PlacesOK, Ownership, Progress,
       MayStart, ExitSticks, Threads
<1>9. CASE InitEnter
  BY <1>9 DEF InitEnter, lidarVars, sdkVars, TypeOK, PlacesOK, Ownership, Progress,
       MayStart, ExitSticks, Threads
<1>10. CASE InitSetThreads
  BY <1>10 DEF InitSetThreads, sdkVars, TypeOK, PlacesOK, Ownership, Progress,
       MayStart, ExitSticks, Threads
<1>11. CASE InitNewThreads
  BY <1>11 DEF InitNewThreads, sdkVars, Threads, TypeOK, PlacesOK, Ownership, Progress,
       MayStart, ExitSticks
<1>12. CASE InitPtc
  BY <1>12 DEF InitPtc, sdkVars, Threads, TypeOK, PlacesOK, Ownership, Progress,
       MayStart, ExitSticks
<1>13. CASE InitFirstPacket
  BY <1>13 DEF InitFirstPacket, sdkVars, TypeOK, PlacesOK, Ownership, Progress,
       MayStart, ExitSticks, Threads
<1>14. CASE InitParser
  BY <1>14 DEF InitParser, sdkVars, TypeOK, PlacesOK, Ownership, Progress, MayStart,
       ExitSticks, Threads
<1>15. CASE InitWaitPtc
  BY <1>15 DEF InitWaitPtc, lidarVars, sdkVars, TypeOK, PlacesOK, Ownership, Progress,
       MayStart, ExitSticks, Threads
<1>16. CASE InitLoad
  BY <1>16 DEF InitLoad, sdkVars, TypeOK, PlacesOK, Ownership, Progress, MayStart,
       ExitSticks, Threads
<1>17. CASE InitCloud
  BY <1>17 DEF InitCloud, sdkVars, TypeOK, PlacesOK, Ownership, Progress, MayStart,
       ExitSticks, Threads
<1>18. CASE InitAll
  BY <1>18 DEF InitAll, sdkVars, TypeOK, PlacesOK, Ownership, Progress, MayStart,
       ExitSticks, Threads
<1>19. CASE InitUsesFreed
  BY <1>19 DEF InitUsesFreed, lidarVars, sdkVars, TypeOK, PlacesOK, Ownership,
       Progress, MayStart, ExitSticks, Threads
<1>20. CASE Receive
  BY <1>20 DEF Receive, sdkVars, TypeOK, PlacesOK, Ownership, Progress, MayStart,
       ExitSticks, Threads
<1>21. ASSUME NEW t \in Threads, ThreadExit(t) PROVE ExitSticks'
  BY <1>21 DEF ThreadExit, sdkVars, Threads, TypeOK, PlacesOK, Ownership, Progress,
       MayStart, ExitSticks
<1>22. CASE PtcOpens
  BY <1>22 DEF PtcOpens, sdkVars, TypeOK, PlacesOK, Ownership, Progress, MayStart,
       ExitSticks, Threads
<1>23. CASE InitSetPtc
  BY <1>23 DEF InitSetPtc, sdkVars, Threads, TypeOK, PlacesOK, Ownership, Progress,
       MayStart, ExitSticks
<1>24. CASE RunEnter
  BY <1>24 DEF RunEnter, lidarVars, TypeOK, PlacesOK, Ownership, Progress, MayStart,
       ExitSticks, Threads
<1>25. CASE RunExit
  BY <1>25 DEF RunExit, lidarVars, TypeOK, PlacesOK, Ownership, Progress, MayStart,
       ExitSticks, Threads
<1>26. CASE RunFault
  BY <1>26 DEF RunFault, TypeOK, PlacesOK, Ownership, Progress, MayStart, ExitSticks,
       Threads
<1>27. CASE RunPoint
  BY <1>27 DEF RunPoint, GateOpen, TypeOK, PlacesOK, Ownership, Progress, MayStart,
       ExitSticks, Threads
<1>28. CASE RunDecode
  BY <1>28 DEF RunDecode, lidarVars, TypeOK, PlacesOK, Ownership, Progress, MayStart,
       ExitSticks, Threads
<1> QED BY <1>1, <1>2, <1>3, <1>4, <1>5, <1>6, <1>7, <1>8, <1>9, <1>10, <1>11, <1>12, <1>13, <1>14,
           <1>15, <1>16, <1>17, <1>18, <1>19, <1>20, <1>21, <1>22, <1>23, <1>24, <1>25, <1>26, <1>27, <1>28
        DEF Next, StopStep, InitStep, RunStep

LEMMA ThreadsStep ==
  ASSUME TypeOK, Ownership, Progress, ThreadsExist, ClampedThreadNum # 0, Next
  PROVE  ThreadsExist'
<1>1. CASE AppInit
  BY <1>1 DEF AppInit, Threads, TypeOK, PlacesOK, Ownership, Progress, MayStart,
       ThreadsExist, SameThreadNum
<1>2. CASE AppStart
  BY <1>2 DEF AppStart, lidarVars, TypeOK, PlacesOK, Ownership, Progress, MayStart,
       ThreadsExist, SameThreadNum, Threads
<1>3. CASE StopRun
  BY <1>3 DEF StopRun, lidarVars, StopAllowed, TypeOK, PlacesOK, Ownership, Progress,
       MayStart, ThreadsExist, SameThreadNum, Threads
<1>4. CASE StopJoinRun
  BY <1>4 DEF StopJoinRun, lidarVars, TypeOK, PlacesOK, Ownership, Progress, MayStart,
       ThreadsExist, SameThreadNum, Threads
<1>5. CASE StopDelete
  BY <1>5 DEF StopDelete, sdkVars, Threads, TypeOK, PlacesOK, Ownership, Progress,
       MayStart, ThreadsExist, SameThreadNum
<1>6. ASSUME NEW t \in Threads, StopJoin(t) PROVE ThreadsExist'
  BY <1>6 DEF StopJoin, lidarVars, sdkVars, AfterJoin, DestructorJoins, Threads,
       TypeOK, PlacesOK, Ownership, Progress, MayStart, ThreadsExist, SameThreadNum
<1>7. CASE StopFree
  BY <1>7 DEF StopFree, lidarVars, sdkVars, TypeOK, PlacesOK, Ownership, Progress,
       MayStart, ThreadsExist, SameThreadNum, Threads
<1>8. CASE StopJoinInit
  BY <1>8 DEF StopJoinInit, lidarVars, sdkVars, TypeOK, PlacesOK, Ownership, Progress,
       MayStart, ThreadsExist, SameThreadNum, Threads
<1>9. CASE InitEnter
  BY <1>9 DEF InitEnter, lidarVars, sdkVars, TypeOK, PlacesOK, Ownership, Progress,
       MayStart, ThreadsExist, SameThreadNum, Threads
<1>10. CASE InitSetThreads
  BY <1>10 DEF InitSetThreads, sdkVars, TypeOK, PlacesOK, Ownership, Progress,
       MayStart, ThreadsExist, SameThreadNum, Threads
<1>11. CASE InitNewThreads
  BY <1>11 DEF InitNewThreads, sdkVars, Threads, TypeOK, PlacesOK, Ownership, Progress,
       MayStart, ThreadsExist, SameThreadNum
<1>12. CASE InitPtc
  BY <1>12 DEF InitPtc, sdkVars, Threads, TypeOK, PlacesOK, Ownership, Progress,
       MayStart, ThreadsExist, SameThreadNum
<1>13. CASE InitFirstPacket
  BY <1>13 DEF InitFirstPacket, sdkVars, TypeOK, PlacesOK, Ownership, Progress,
       MayStart, ThreadsExist, SameThreadNum, Threads
<1>14. CASE InitParser
  BY <1>14 DEF InitParser, sdkVars, TypeOK, PlacesOK, Ownership, Progress, MayStart,
       ThreadsExist, SameThreadNum, Threads
<1>15. CASE InitWaitPtc
  BY <1>15 DEF InitWaitPtc, lidarVars, sdkVars, TypeOK, PlacesOK, Ownership, Progress,
       MayStart, ThreadsExist, SameThreadNum, Threads
<1>16. CASE InitLoad
  BY <1>16 DEF InitLoad, sdkVars, TypeOK, PlacesOK, Ownership, Progress, MayStart,
       ThreadsExist, SameThreadNum, Threads
<1>17. CASE InitCloud
  BY <1>17 DEF InitCloud, sdkVars, TypeOK, PlacesOK, Ownership, Progress, MayStart,
       ThreadsExist, SameThreadNum, Threads
<1>18. CASE InitAll
  BY <1>18 DEF InitAll, sdkVars, TypeOK, PlacesOK, Ownership, Progress, MayStart,
       ThreadsExist, SameThreadNum, Threads
<1>19. CASE InitUsesFreed
  BY <1>19 DEF InitUsesFreed, lidarVars, sdkVars, TypeOK, PlacesOK, Ownership,
       Progress, MayStart, ThreadsExist, SameThreadNum, Threads
<1>20. CASE Receive
  BY <1>20 DEF Receive, sdkVars, TypeOK, PlacesOK, Ownership, Progress, MayStart,
       ThreadsExist, SameThreadNum, Threads
<1>21. ASSUME NEW t \in Threads, ThreadExit(t) PROVE ThreadsExist'
  BY <1>21 DEF ThreadExit, sdkVars, Threads, TypeOK, PlacesOK, Ownership, Progress,
       MayStart, ThreadsExist, SameThreadNum
<1>22. CASE PtcOpens
  BY <1>22 DEF PtcOpens, sdkVars, TypeOK, PlacesOK, Ownership, Progress, MayStart,
       ThreadsExist, SameThreadNum, Threads
<1>23. CASE InitSetPtc
  BY <1>23 DEF InitSetPtc, sdkVars, Threads, TypeOK, PlacesOK, Ownership, Progress,
       MayStart, ThreadsExist, SameThreadNum
<1>24. CASE RunEnter
  BY <1>24 DEF RunEnter, lidarVars, TypeOK, PlacesOK, Ownership, Progress, MayStart,
       ThreadsExist, SameThreadNum, Threads
<1>25. CASE RunExit
  BY <1>25 DEF RunExit, lidarVars, TypeOK, PlacesOK, Ownership, Progress, MayStart,
       ThreadsExist, SameThreadNum, Threads
<1>26. CASE RunFault
  BY <1>26 DEF RunFault, TypeOK, PlacesOK, Ownership, Progress, MayStart, ThreadsExist,
       SameThreadNum, Threads
<1>27. CASE RunPoint
  BY <1>27 DEF RunPoint, GateOpen, TypeOK, PlacesOK, Ownership, Progress, MayStart,
       ThreadsExist, SameThreadNum, Threads
<1>28. CASE RunDecode
  BY <1>28 DEF RunDecode, lidarVars, TypeOK, PlacesOK, Ownership, Progress, MayStart,
       ThreadsExist, SameThreadNum, Threads
<1> QED BY <1>1, <1>2, <1>3, <1>4, <1>5, <1>6, <1>7, <1>8, <1>9, <1>10, <1>11, <1>12, <1>13, <1>14,
           <1>15, <1>16, <1>17, <1>18, <1>19, <1>20, <1>21, <1>22, <1>23, <1>24, <1>25, <1>26, <1>27, <1>28
        DEF Next, StopStep, InitStep, RunStep

LEMMA AliveStep ==
  ASSUME TypeOK, Ownership, Progress, LidarAlive, source_type # "lidar", Next
  PROVE  LidarAlive'
<1>1. CASE AppInit
  BY <1>1 DEF AppInit, Threads, Ownership, Progress, MayStart, LidarAlive
<1>2. CASE AppStart
  BY <1>2 DEF AppStart, lidarVars, Ownership, Progress, MayStart, LidarAlive
<1>3. CASE StopRun
  BY <1>3 DEF StopRun, lidarVars, StopAllowed, Ownership, Progress, MayStart, LidarAlive
<1>4. CASE StopJoinRun
  BY <1>4 DEF StopJoinRun, lidarVars, Ownership, Progress, MayStart, LidarAlive
<1>5. CASE StopDelete
  BY <1>5 DEF StopDelete, sdkVars, Threads, Ownership, Progress, MayStart, LidarAlive
<1>6. ASSUME NEW t \in Threads, StopJoin(t) PROVE LidarAlive'
  BY <1>6 DEF StopJoin, lidarVars, sdkVars, AfterJoin, DestructorJoins, Threads,
       Ownership, Progress, MayStart, LidarAlive
<1>7. CASE StopFree
  BY <1>7 DEF StopFree, lidarVars, sdkVars, Ownership, Progress, MayStart, LidarAlive
<1>8. CASE StopJoinInit
  BY <1>8 DEF StopJoinInit, lidarVars, sdkVars, Ownership, Progress, MayStart, LidarAlive
<1>9. CASE InitEnter
  BY <1>9 DEF InitEnter, lidarVars, sdkVars, Ownership, Progress, MayStart, LidarAlive
<1>10. CASE InitSetThreads
  BY <1>10 DEF InitSetThreads, sdkVars, Ownership, Progress, MayStart, LidarAlive
<1>11. CASE InitNewThreads
  BY <1>11 DEF InitNewThreads, sdkVars, Threads, Ownership, Progress, MayStart, LidarAlive
<1>12. CASE InitPtc
  BY <1>12 DEF InitPtc, sdkVars, Threads, Ownership, Progress, MayStart, LidarAlive
<1>13. CASE InitFirstPacket
  BY <1>13 DEF InitFirstPacket, sdkVars, Ownership, Progress, MayStart, LidarAlive
<1>14. CASE InitParser
  BY <1>14 DEF InitParser, sdkVars, Ownership, Progress, MayStart, LidarAlive
<1>15. CASE InitWaitPtc
  BY <1>15 DEF InitWaitPtc, lidarVars, sdkVars, Ownership, Progress, MayStart, LidarAlive
<1>16. CASE InitLoad
  BY <1>16 DEF InitLoad, sdkVars, Ownership, Progress, MayStart, LidarAlive
<1>17. CASE InitCloud
  BY <1>17 DEF InitCloud, sdkVars, Ownership, Progress, MayStart, LidarAlive
<1>18. CASE InitAll
  BY <1>18 DEF InitAll, sdkVars, Ownership, Progress, MayStart, LidarAlive
<1>19. CASE InitUsesFreed
  BY <1>19 DEF InitUsesFreed, lidarVars, sdkVars, Threads, Ownership, Progress,
       MayStart, LidarAlive
<1>20. CASE Receive
  BY <1>20 DEF Receive, sdkVars, Ownership, Progress, MayStart, LidarAlive
<1>21. ASSUME NEW t \in Threads, ThreadExit(t) PROVE LidarAlive'
  BY <1>21 DEF ThreadExit, sdkVars, Threads, Ownership, Progress, MayStart, LidarAlive
<1>22. CASE PtcOpens
  BY <1>22 DEF PtcOpens, sdkVars, Ownership, Progress, MayStart, LidarAlive
<1>23. CASE InitSetPtc
  BY <1>23 DEF InitSetPtc, sdkVars, Threads, Ownership, Progress, MayStart, LidarAlive
<1>24. CASE RunEnter
  BY <1>24 DEF RunEnter, lidarVars, Ownership, Progress, MayStart, LidarAlive
<1>25. CASE RunExit
  BY <1>25 DEF RunExit, lidarVars, Ownership, Progress, MayStart, LidarAlive
<1>26. CASE RunFault
  BY <1>26 DEF RunFault, Ownership, Progress, MayStart, LidarAlive
<1>27. CASE RunPoint
  BY <1>27 DEF RunPoint, GateOpen, Ownership, Progress, MayStart, LidarAlive
<1>28. CASE RunDecode
  BY <1>28 DEF RunDecode, lidarVars, Ownership, Progress, MayStart, LidarAlive
<1> QED BY <1>1, <1>2, <1>3, <1>4, <1>5, <1>6, <1>7, <1>8, <1>9, <1>10, <1>11, <1>12, <1>13, <1>14,
           <1>15, <1>16, <1>17, <1>18, <1>19, <1>20, <1>21, <1>22, <1>23, <1>24, <1>25, <1>26, <1>27, <1>28
        DEF Next, StopStep, InitStep, RunStep

\* For every application, even one that stops in the middle of Init: Run never
\* decodes while the init thread may write the correction tables.
THEOREM TablesWrittenBeforeUse == Spec => []TablesQuiet
<1>1. Init => Ownership
  BY DEF Init, Ownership, Threads
<1>2. TypeOK /\ Ownership /\ [Next]_vars => Ownership'
  <2> SUFFICES ASSUME TypeOK, Ownership, [Next]_vars PROVE Ownership'
    OBVIOUS
  <2>1. CASE UNCHANGED vars
    BY <2>1 DEF vars, lidarVars, sdkVars, Ownership
  <2> QED BY <2>1, OwnershipStep
<1>3. Ownership => TablesQuiet
  BY DEF Ownership, TablesQuiet
<1> QED BY <1>1, <1>2, <1>3, LifecycleTypeCorrect, PTL DEF Spec

LEMMA ProgressInvariant ==
  ASSUME "inited" \notin StopMoments
  PROVE  Spec => [](TypeOK /\ Ownership /\ Progress)
<1>1. Init => Ownership /\ Progress
  BY DEF Init, Ownership, Progress, Threads
<1>2. TypeOK /\ Ownership /\ Progress /\ [Next]_vars => Ownership' /\ Progress'
  <2> SUFFICES ASSUME TypeOK, Ownership, Progress, [Next]_vars
               PROVE  Ownership' /\ Progress'
    OBVIOUS
  <2>1. CASE UNCHANGED vars
    BY <2>1 DEF vars, lidarVars, sdkVars, Ownership, Progress, MayStart
  <2> QED BY <2>1, OwnershipStep, ProgressStep
<1> QED BY <1>1, <1>2, LifecycleTypeCorrect, PTL DEF Spec

\* For every application that leaves Stop until Start has returned: no thread
\* is left when the Lidar's memory is released.
THEOREM ReleasedWhenQuiet ==
  ASSUME "inited" \notin StopMoments
  PROVE  Spec => []ThreadsJoined
<1>1. Init => JoinedInOrder
  BY DEF Init, JoinedInOrder, Threads
<1>2. TypeOK /\ Ownership /\ Progress /\ JoinedInOrder /\ [Next]_vars => JoinedInOrder'
  <2> SUFFICES ASSUME TypeOK, Ownership, Progress, JoinedInOrder, [Next]_vars
               PROVE  JoinedInOrder'
    OBVIOUS
  <2>1. CASE UNCHANGED vars
    BY <2>1 DEF vars, lidarVars, JoinedInOrder
  <2> QED BY <2>1, JoinedStep
<1>3. Ownership /\ JoinedInOrder => ThreadsJoined
  BY DEF Ownership, JoinedInOrder, ThreadsJoined, Threads
<1> QED BY <1>1, <1>2, <1>3, ProgressInvariant, PTL DEF Spec

\* Once ~Lidar has told the threads to end, nothing tells them to go on, for
\* every application that leaves Stop until Start has returned.
THEOREM ExitIsFinal ==
  ASSUME "inited" \notin StopMoments
  PROVE  Spec => []ExitSticks
<1>1. Init => ExitSticks
  BY DEF Init, ExitSticks
<1>2. TypeOK /\ Ownership /\ Progress /\ ExitSticks /\ [Next]_vars => ExitSticks'
  <2> SUFFICES ASSUME TypeOK, Ownership, Progress, ExitSticks, [Next]_vars
               PROVE  ExitSticks'
    OBVIOUS
  <2>1. CASE UNCHANGED vars
    BY <2>1 DEF vars, lidarVars, sdkVars, ExitSticks
  <2> QED BY <2>1, ExitStep
<1> QED BY <1>1, <1>2, ProgressInvariant, PTL DEF Spec

\* With a recorded file, or packets fed by the application, such an application
\* never has the Lidar pulled away from under the init thread.
THEOREM NoUseAfterStop ==
  ASSUME "inited" \notin StopMoments, source_type # "lidar"
  PROVE  Spec => []LidarAlive
<1>1. Init => LidarAlive
  BY DEF Init, LidarAlive
<1>2. TypeOK /\ Ownership /\ Progress /\ LidarAlive /\ [Next]_vars => LidarAlive'
  <2> SUFFICES ASSUME TypeOK, Ownership, Progress, LidarAlive, [Next]_vars
               PROVE  LidarAlive'
    OBVIOUS
  <2>1. CASE UNCHANGED vars
    BY <2>1 DEF vars, LidarAlive
  <2> QED BY <2>1, AliveStep
<1> QED BY <1>1, <1>2, ProgressInvariant, PTL DEF Spec

\* The receive and parser threads exist when Lidar::Init goes on after
\* SetThreadNum, unless the number asked for, limited to the CPUs less two, is
\* the zero the Lidar starts with.
THEOREM ThreadsStarted ==
  ASSUME "inited" \notin StopMoments, ClampedThreadNum # 0
  PROVE  Spec => []InitStartsThreads
<1>1. Init => ThreadsExist
  BY DEF Init, ThreadsExist
<1>2. TypeOK /\ Ownership /\ Progress /\ ThreadsExist /\ [Next]_vars => ThreadsExist'
  <2> SUFFICES ASSUME TypeOK, Ownership, Progress, ThreadsExist, [Next]_vars
               PROVE  ThreadsExist'
    OBVIOUS
  <2>1. CASE UNCHANGED vars
    BY <2>1 DEF vars, lidarVars, ThreadsExist
  <2> QED BY <2>1, ThreadsStep
<1>3. ThreadsExist => InitStartsThreads
  BY DEF ThreadsExist, InitStartsThreads
<1> QED BY <1>1, <1>2, <1>3, ProgressInvariant, PTL DEF Spec
=============================================================================
