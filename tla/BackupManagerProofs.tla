------------------------ MODULE BackupManagerProofs ------------------------
(***************************************************************************)
(* Two jobs never have synchronizers of one device, for any number of      *)
(* request handlers, jobs and devices.  in_progress_map_ alone does not    *)
(* say so: a job's thread may erase it while StartBackup still holds the   *)
(* Backup.  The invariant therefore says that start_backup_mutex_ keeps    *)
(* the devices of the job being started from every other entry until       *)
(* StartBackup returns.                                                    *)
(***************************************************************************)
EXTENDS BackupManager, TLAPS

Listed == {"spawned", "running", "ended", "released"}

Busy(h) == handler[h] # "idle"

(* One handler at a time is inside StartBackup.                             *)
OneStarter ==
  /\ \A g, h \in Handlers : Busy(g) /\ Busy(h) => g = h
  /\ \A h \in Handlers : Busy(h) => start_backup_mutex_ /\ job[h] \in Jobs

(* Where a job is says whether it is in the map, and with which devices.    *)
Recorded ==
  /\ \A j \in Jobs :
       /\ in_progress_map_[j] \in {{}, DevicesOf(j)}
       /\ phase[j] \in Listed => in_progress_map_[j] = DevicesOf(j)
       /\ reply_map_[j] = "none" => phase[j] = "none" /\ in_progress_map_[j] = {}
       /\ reply_map_[j] # "none" => vectors[j] # <<>>
       /\ phase[j] \in {"ended", "released", "erased", "gone"} =>
            reply_map_[j] \in Final
       /\ j \in told => phase[j] # "none"
  /\ \A h \in Handlers :
       /\ Busy(h) => reply_map_[job[h]] # "none"
       /\ handler[h] \in {"add", "build", "erase"} => phase[job[h]] = "none"
       /\ handler[h] = "build" => in_progress_map_[job[h]] = DevicesOf(job[h])
       /\ handler[h] = "return" => phase[job[h]] # "none"

(* The entries of the map are disjoint, and disjoint from the devices of    *)
(* the job StartBackup is building or about to return.                      *)
Disjoint ==
  /\ \A i, j \in Jobs : i # j =>
       in_progress_map_[i] \cap in_progress_map_[j] = {}
  /\ \A h \in Handlers, j \in Jobs :
       handler[h] \in {"build", "return"} /\ j # job[h] =>
         in_progress_map_[j] \cap DevicesOf(job[h]) = {}

IInv == TypeOK /\ OneStarter /\ Recorded /\ Disjoint

\* The devices of a job are devices.
LEMMA DevicesOfType ==
  ASSUME TypeOK, NEW j \in Jobs
  PROVE  DevicesOf(j) \subseteq Devices
  BY DEF TypeOK, DevicesOf

\* A request that StartBackup did not refuse names a device.
LEMMA DevicesOfNonEmpty ==
  ASSUME TypeOK, NEW j \in Jobs, vectors[j] # <<>>
  PROVE  DevicesOf(j) # {}
<1>1. vectors[j] \in Seq(Devices) /\ Len(vectors[j]) # 0
  BY DEF TypeOK
<1>2. 1 \in DOMAIN vectors[j]
  BY <1>1
<1> QED BY <1>2, Zenon DEF DevicesOf

\* The invariant holds before the first request.
LEMMA InitIInv == Init => IInv
<1> SUFFICES ASSUME Init PROVE IInv
  BY Zenon
<1>1. TypeOK
  <2>1. <<>> \in Seq(Devices)
    OBVIOUS
  <2> QED BY <2>1, Zenon DEF Init, TypeOK, Final
<1>2. OneStarter /\ Recorded /\ Disjoint
  BY ZenonT(30) DEF Init, OneStarter, Busy, Recorded, Disjoint, Listed, Final
<1> QED BY <1>1, <1>2, Zenon DEF IInv

\* No step leaves the types.
LEMMA TypeNext == IInv /\ [Next]_vars => TypeOK'
<1> SUFFICES ASSUME IInv, [Next]_vars PROVE TypeOK'
  BY Zenon
<1> USE DEF IInv, TypeOK, Final
<1>1. ASSUME NEW h \in Handlers, NEW r \in Requests, NEW j \in Jobs,
             NEW f \in BOOLEAN, StartBackup(h, r, j, f)
      PROVE  TypeOK'
  BY <1>1, ManagerAssumption, Zenon
     DEF StartBackup, CreateEventHandler, HandlerStep
<1>2. ASSUME NEW h \in Handlers, AddToInProgressSet(h) PROVE TypeOK'
  <2>1. job[h] \in Jobs
    BY <1>2, Zenon DEF AddToInProgressSet, HandlerStep, OneStarter, Busy
  <2>2. DevicesOf(job[h]) \subseteq Devices
    BY <2>1, DevicesOfType, Zenon
  <2> QED BY <1>2, <2>1, <2>2, Zenon DEF AddToInProgressSet, HandlerStep
<1>3. ASSUME NEW h \in Handlers, AlreadyInProgress(h) PROVE TypeOK'
  BY <1>3, Zenon DEF AlreadyInProgress, Leave, HandlerStep
<1>4. ASSUME NEW h \in Handlers, CreateDeviceSynchronizer(h) PROVE TypeOK'
  <2>1. job[h] \in Jobs
    BY <1>4, Zenon DEF CreateDeviceSynchronizer, Building, OneStarter, Busy
  <2>2. NextDevice(h) \in Devices
    BY <1>4, <2>1 DEF CreateDeviceSynchronizer, Building, NextDevice
  <2> QED BY <1>4, <2>1, <2>2 DEF CreateDeviceSynchronizer, starting
<1>5. ASSUME NEW h \in Handlers, NEW b \in BOOLEAN, CreateBackupThrows(h, b)
      PROVE  TypeOK'
  <2>1. job[h] \in Jobs
    BY <1>5, Zenon DEF CreateBackupThrows, Building, OneStarter, Busy
  <2>2. NextDevice(h) \in Devices
    BY <1>5, <2>1 DEF CreateBackupThrows, Building, NextDevice
  <2> QED BY <1>5, <2>1, <2>2, Zenon DEF CreateBackupThrows, HandlerStep
<1>6. ASSUME NEW h \in Handlers, EraseFailedStart(h) PROVE TypeOK'
  BY <1>6, Zenon DEF EraseFailedStart, Leave, HandlerStep
<1>7. ASSUME NEW h \in Handlers, SpawnBackupThread(h) PROVE TypeOK'
  BY <1>7, Zenon DEF SpawnBackupThread, HandlerStep
<1>8. ASSUME NEW h \in Handlers, ReturnUuid(h) PROVE TypeOK'
  <2>1. job[h] \in Jobs
    BY <1>8, Zenon DEF ReturnUuid, Leave, HandlerStep, OneStarter, Busy
  <2> QED BY <1>8, <2>1, Zenon DEF ReturnUuid, Leave, HandlerStep
<1>9. ASSUME NEW h \in Handlers, NEW j \in Jobs, StopBackup(h, j) PROVE TypeOK'
  BY <1>9, Zenon DEF StopBackup, starting
<1>10. ASSUME NEW j \in Jobs, JobThread(j) PROVE TypeOK'
  BY <1>10, ZenonT(30)
     DEF JobThread, DoBackupBegins, ReleaseBackup, EraseJob, UnlockMap,
         PhaseStep, starting
<1>11. ASSUME NEW j \in Jobs, NEW v \in Final, DoBackupEnds(j, v) PROVE TypeOK'
  BY <1>11, Zenon DEF DoBackupEnds, PhaseStep, starting
<1>12. CASE BeginTeardown \/ Teardown
  BY <1>12, Zenon
     DEF BeginTeardown, Teardown, CancelAll, MapIsEmpty, ManagerStep, starting
<1>13. CASE UNCHANGED vars
  BY <1>13, Zenon DEF vars, starting
<1> QED
  BY <1>1, <1>2, <1>3, <1>4, <1>5, <1>6, <1>7, <1>8, <1>9, <1>10, <1>11, <1>12,
     <1>13, SMTT(20)
     DEF Next, Start, Over

\* No step lets a second handler into StartBackup.
LEMMA StarterNext == IInv /\ [Next]_vars => OneStarter'
<1> SUFFICES ASSUME IInv, [Next]_vars PROVE OneStarter'
  BY Zenon
<1> USE DEF IInv, TypeOK, OneStarter, Busy
<1>1. ASSUME NEW h \in Handlers, NEW r \in Requests, NEW j \in Jobs,
             NEW f \in BOOLEAN, StartBackup(h, r, j, f)
      PROVE  OneStarter'
  BY <1>1, Zenon DEF StartBackup, CreateEventHandler, HandlerStep
<1>2. ASSUME NEW h \in Handlers, Start(h) PROVE OneStarter'
  <2>1. CASE AddToInProgressSet(h) \/ SpawnBackupThread(h)
    BY <2>1, Zenon DEF AddToInProgressSet, SpawnBackupThread, HandlerStep
  <2>2. CASE CreateDeviceSynchronizer(h)
    BY <2>2, Zenon DEF CreateDeviceSynchronizer, starting
  <2>3. ASSUME NEW started \in BOOLEAN, CreateBackupThrows(h, started)
        PROVE  OneStarter'
    BY <2>3, Zenon DEF CreateBackupThrows, HandlerStep
  <2>4. CASE AlreadyInProgress(h)
    BY <2>4, Zenon DEF AlreadyInProgress, Leave, HandlerStep
  <2>5. CASE EraseFailedStart(h)
    BY <2>5, Zenon DEF EraseFailedStart, Leave, HandlerStep
  <2>6. CASE ReturnUuid(h)
    BY <2>6, Zenon DEF ReturnUuid, Leave, HandlerStep
  <2> QED BY <1>2, <2>1, <2>2, <2>3, <2>4, <2>5, <2>6, Zenon DEF Start
<1>3. CASE UNCHANGED starting
  BY <1>3, Zenon DEF starting
<1>4. ASSUME NEW h \in Handlers, NEW j \in Jobs, StopBackup(h, j)
      PROVE  UNCHANGED starting
  BY <1>4, Zenon DEF StopBackup
<1>5. ASSUME NEW j \in Jobs, JobThread(j) \/ \E v \in Final : DoBackupEnds(j, v)
      PROVE  UNCHANGED starting
  BY <1>5, Zenon
     DEF JobThread, DoBackupBegins, ReleaseBackup, EraseJob, UnlockMap,
         DoBackupEnds
<1>6. CASE BeginTeardown \/ Teardown \/ UNCHANGED vars
  BY <1>3, <1>6, Zenon DEF BeginTeardown, Teardown, CancelAll, MapIsEmpty, vars
<1> QED
  BY <1>1, <1>2, <1>3, <1>4, <1>5, <1>6 DEF Next, Over

\* No step breaks the bookkeeping of the map or its disjointness.
LEMMA RecordNext == IInv /\ [Next]_vars => Recorded' /\ Disjoint'
<1> SUFFICES ASSUME IInv, [Next]_vars PROVE Recorded' /\ Disjoint'
  BY Zenon
<1> USE DEF IInv, TypeOK, OneStarter, Busy, Recorded, Disjoint, Listed, Final
<1>1. ASSUME UNCHANGED vectors
      PROVE  \A j \in Jobs : DevicesOf(j)' = DevicesOf(j)
  BY <1>1 DEF DevicesOf
<1>2. ASSUME NEW h \in Handlers, NEW r \in Requests, NEW j \in Jobs,
             NEW f \in BOOLEAN, StartBackup(h, r, j, f)
      PROVE  Recorded' /\ Disjoint'
  <2>1. \A g \in Handlers : ~Busy(g)
    BY <1>2, Zenon DEF StartBackup, CreateEventHandler
  <2>2. \A i \in Jobs : i # j => DevicesOf(i)' = DevicesOf(i)
    BY <1>2 DEF StartBackup, CreateEventHandler, DevicesOf
  <2>3. r # <<>>
    BY ManagerAssumption, Zenon
  <2>4. Recorded'
    BY <1>2, <2>1, <2>2, <2>3 DEF StartBackup, CreateEventHandler, HandlerStep
  <2>5. Disjoint'
    BY <1>2, <2>1 DEF StartBackup, CreateEventHandler, HandlerStep
  <2> QED BY <2>4, <2>5, Zenon
<1>3. ASSUME NEW h \in Handlers, AddToInProgressSet(h)
      PROVE  Recorded' /\ Disjoint'
  <2>1. job[h] \in Jobs /\ \A j \in Jobs : DevicesOf(j)' = DevicesOf(j)
    BY <1>1, <1>3, Zenon DEF AddToInProgressSet, HandlerStep
  <2>2. \A j \in Jobs : in_progress_map_[j] \cap DevicesOf(job[h]) = {}
    BY <1>3, Zenon DEF AddToInProgressSet, InProgress
  <2>3. \A g \in Handlers : g # h => ~Busy(g) /\ ~Busy(g)'
    BY <1>3, Zenon DEF AddToInProgressSet, HandlerStep
  <2>4. Recorded'
    BY <1>3, <2>1, <2>3 DEF AddToInProgressSet, HandlerStep
  <2>5. Disjoint'
    BY <1>3, <2>1, <2>2, <2>3 DEF AddToInProgressSet, HandlerStep
  <2> QED BY <2>4, <2>5, Zenon
<1>4. ASSUME NEW h \in Handlers,
             AlreadyInProgress(h) \/ ReturnUuid(h)
      PROVE  Recorded' /\ Disjoint'
  <2>1. \A j \in Jobs : DevicesOf(j)' = DevicesOf(j)
    BY <1>1, <1>4, Zenon DEF AlreadyInProgress, ReturnUuid
  <2>2. \A g \in Handlers : ~Busy(g)'
    <3>1. Busy(h) /\ handler' = [handler EXCEPT ![h] = "idle"]
      BY <1>4, Zenon DEF AlreadyInProgress, ReturnUuid, Leave, HandlerStep
    <3> QED BY <3>1
  <2> QED
    BY <1>4, <2>1, <2>2 DEF AlreadyInProgress, ReturnUuid, Leave, HandlerStep
<1>5. ASSUME NEW h \in Handlers, CreateDeviceSynchronizer(h)
      PROVE  Recorded' /\ Disjoint'
  BY <1>1, <1>5 DEF CreateDeviceSynchronizer, starting
<1>6. ASSUME NEW h \in Handlers, NEW b \in BOOLEAN, CreateBackupThrows(h, b)
      PROVE  Recorded' /\ Disjoint'
  <2>1. \A j \in Jobs : DevicesOf(j)' = DevicesOf(j)
    BY <1>1, <1>6, Zenon DEF CreateBackupThrows
  <2> QED BY <1>6, <2>1 DEF CreateBackupThrows, HandlerStep
<1>7. ASSUME NEW h \in Handlers, EraseFailedStart(h)
      PROVE  Recorded' /\ Disjoint'
  <2>1. \A j \in Jobs : DevicesOf(j)' = DevicesOf(j)
    BY <1>1, <1>7, Zenon DEF EraseFailedStart
  <2>2. \A g \in Handlers : ~Busy(g)'
    BY <1>7, Zenon DEF EraseFailedStart, Leave, HandlerStep
  <2> QED BY <1>7, <2>1, <2>2 DEF EraseFailedStart, Leave, HandlerStep
<1>8. ASSUME NEW h \in Handlers, SpawnBackupThread(h)
      PROVE  Recorded' /\ Disjoint'
  <2>1. \A j \in Jobs : DevicesOf(j)' = DevicesOf(j)
    BY <1>1, <1>8, Zenon DEF SpawnBackupThread
  <2>2. \A g \in Handlers : g # h => ~Busy(g) /\ ~Busy(g)'
    BY <1>8 DEF SpawnBackupThread, HandlerStep
  <2> QED BY <1>8, <2>1, <2>2 DEF SpawnBackupThread, HandlerStep
<1>9. ASSUME NEW h \in Handlers, NEW j \in Jobs, StopBackup(h, j)
      PROVE  Recorded' /\ Disjoint'
  BY <1>1, <1>9 DEF StopBackup, starting
<1>10. ASSUME NEW j \in Jobs,
              \/ DoBackupBegins(j) \/ ReleaseBackup(j) \/ UnlockMap(j)
              \/ \E v \in Final : DoBackupEnds(j, v)
       PROVE  Recorded' /\ Disjoint'
  <2>1. \A i \in Jobs : DevicesOf(i)' = DevicesOf(i)
    BY <1>1, <1>10, Zenon
       DEF DoBackupBegins, ReleaseBackup, UnlockMap, DoBackupEnds
  <2> QED
    BY <1>10, <2>1, SMTT(20)
       DEF DoBackupBegins, ReleaseBackup, UnlockMap, DoBackupEnds, PhaseStep,
           starting
<1>11. ASSUME NEW j \in Jobs, EraseJob(j) PROVE Recorded' /\ Disjoint'
  <2>1. \A i \in Jobs : DevicesOf(i)' = DevicesOf(i)
    BY <1>1, <1>11, Zenon DEF EraseJob
  <2>2. UNCHANGED <<handler, job, reply_map_, vectors, told>>
    BY <1>11, Zenon DEF EraseJob, starting
  <2>3. phase[j] = "released" /\ phase' = [phase EXCEPT ![j] = "erased"]
    BY <1>11, Zenon DEF EraseJob, PhaseStep
  <2>4. in_progress_map_' = [in_progress_map_ EXCEPT ![j] = {}]
    BY <1>11, Zenon DEF EraseJob
  <2>5. Recorded'
    <3>1. ASSUME NEW h \in Handlers, Busy(h), handler[h] # "return"
          PROVE  job[h] # j
      BY <2>3, <3>1, SMTT(20)
    <3> QED BY <2>1, <2>2, <2>3, <2>4, <3>1
  <2>6. Disjoint'
    <3>1. \A i \in Jobs : in_progress_map_'[i] \subseteq in_progress_map_[i]
      BY <2>4
    <3>2. ASSUME NEW h \in Handlers, NEW i \in Jobs,
                 handler[h] \in {"build", "return"}, i # job[h]
          PROVE  in_progress_map_'[i] \cap DevicesOf(job[h])' = {}
      <4>1. job[h] \in Jobs /\ job'[h] = job[h]
        BY <2>2, <3>2, Zenon
      <4>2. DevicesOf(job[h])' = DevicesOf(job[h])
        BY <2>1, <4>1, Zenon
      <4>3. in_progress_map_[i] \cap DevicesOf(job[h]) = {}
        BY <3>2, Zenon
      <4> QED BY <3>1, <4>2, <4>3
    <3> QED BY <2>2, <3>1, <3>2
  <2> QED BY <2>5, <2>6, Zenon
<1>12. CASE BeginTeardown \/ Teardown \/ UNCHANGED vars
  <2>1. \A i \in Jobs : DevicesOf(i)' = DevicesOf(i)
    BY <1>1, <1>12, Zenon
       DEF BeginTeardown, Teardown, CancelAll, MapIsEmpty, vars
  <2> QED
    BY <1>12, <2>1
       DEF BeginTeardown, Teardown, CancelAll, MapIsEmpty, vars, starting
<1> HIDE DEF IInv, TypeOK, OneStarter, Busy, Recorded, Disjoint, Listed
<1> QED
  BY <1>2, <1>3, <1>4, <1>5, <1>6, <1>7, <1>8, <1>9, <1>10, <1>11, <1>12, Zenon
     DEF Next, Start, JobThread, Over

\* The invariant holds in every reachable state.
LEMMA Invariance == Spec => []IInv
<1>1. IInv /\ [Next]_vars => IInv'
  BY TypeNext, StarterNext, RecordNext, Zenon DEF IInv
<1> QED BY <1>1, InitIInv, PTL DEF Spec

(* The type invariant of BackupManager.                                     *)
THEOREM ManagerTypeCorrect == Spec => []TypeOK
<1>1. IInv => TypeOK BY Zenon DEF IInv
<1> QED BY <1>1, Invariance, PTL

(* No two jobs have synchronizers of one device at a time, for any number   *)
(* of handlers, jobs and devices and any requests.                          *)
THEOREM DevicesAreExclusive == Spec => []DeviceExclusion
<1>1. ASSUME IInv PROVE DeviceExclusion
  <2> SUFFICES ASSUME NEW i \in Jobs, NEW j \in Jobs, i # j, Held(i), Held(j)
               PROVE  DevicesOf(i) \cap DevicesOf(j) = {}
    BY Zenon DEF DeviceExclusion
  <2> USE <1>1 DEF IInv, OneStarter, Busy, Recorded, Disjoint, Listed
  <2>1. ASSUME NEW k \in Jobs, Held(k)
        PROVE  \/ in_progress_map_[k] = DevicesOf(k)
               \/ \E h \in Handlers : job[h] = k /\ handler[h] = "return"
    BY <2>1 DEF Held
  <2>2. CASE in_progress_map_[i] = DevicesOf(i) /\ in_progress_map_[j] = DevicesOf(j)
    BY <2>2, Zenon
  <2>3. ASSUME NEW h \in Handlers, job[h] = i, handler[h] = "return"
        PROVE  DevicesOf(i) \cap DevicesOf(j) = {}
    BY <2>1, <2>3
  <2>4. ASSUME NEW h \in Handlers, job[h] = j, handler[h] = "return"
        PROVE  DevicesOf(i) \cap DevicesOf(j) = {}
    BY <2>1, <2>4
  <2> QED BY <2>1, <2>2, <2>3, <2>4, Zenon
<1> QED BY <1>1, Invariance, PTL

(* A job whose uuid was given out and that is no longer in progress has its *)
(* verdict in the status tracker.                                           *)
THEOREM NotRunningIsFinal == Spec => []NotRunningMeansFinal
<1>1. ASSUME IInv PROVE NotRunningMeansFinal
  <2> SUFFICES ASSUME NEW j \in told, in_progress_map_[j] = {}
               PROVE  reply_map_[j] \in Final
    BY Zenon DEF NotRunningMeansFinal
  <2>1. j \in Jobs /\ phase[j] # "none"
    BY <1>1, Zenon DEF IInv, TypeOK, Recorded
  <2>2. DevicesOf(j) # {}
    BY <1>1, <2>1, DevicesOfNonEmpty, Zenon DEF IInv, Recorded
  <2> QED BY <1>1, <2>1, <2>2, Zenon DEF IInv, TypeOK, Recorded, Listed
<1> QED BY <1>1, Invariance, PTL

(* Once the destructor has begun no request is handled, and what it saw     *)
(* when it returned stays so: nothing enters the map any more.              *)
Closed ==
  /\ manager # "up" => \A h \in Handlers : handler[h] = "idle"
  /\ manager = "destroyed" => \A j \in Jobs : in_progress_map_[j] = {}

\* Nothing but the end of a request or of a job happens after BeginTeardown.
LEMMA ClosedNext == IInv /\ Closed /\ [Next]_vars => Closed'
<1> SUFFICES ASSUME IInv, Closed, [Next]_vars PROVE Closed'
  BY Zenon
<1> USE DEF IInv, TypeOK, Closed
<1>1. ASSUME NEW h \in Handlers, NEW r \in Requests, NEW j \in Jobs,
             NEW f \in BOOLEAN, StartBackup(h, r, j, f)
      PROVE  Closed'
  BY <1>1, Zenon DEF StartBackup, CreateEventHandler
<1>2. ASSUME NEW h \in Handlers, Start(h) PROVE Closed'
  <2>1. handler[h] # "idle" /\ manager' = manager
    BY <1>2, Zenon
       DEF Start, AddToInProgressSet, AlreadyInProgress, Leave, Building,
           CreateDeviceSynchronizer, CreateBackupThrows, EraseFailedStart,
           SpawnBackupThread, ReturnUuid, HandlerStep
  <2> QED BY <2>1, Zenon
<1>3. ASSUME NEW h \in Handlers, NEW j \in Jobs, StopBackup(h, j) PROVE Closed'
  BY <1>3, Zenon DEF StopBackup, starting
<1>4. ASSUME NEW j \in Jobs, JobThread(j) PROVE Closed'
  BY <1>4, Zenon
     DEF JobThread, DoBackupBegins, ReleaseBackup, EraseJob, UnlockMap,
         starting
<1>5. ASSUME NEW j \in Jobs, NEW v \in Final, DoBackupEnds(j, v) PROVE Closed'
  BY <1>5, Zenon DEF DoBackupEnds, starting
<1>6. CASE BeginTeardown \/ Teardown
  BY <1>6, Zenon
     DEF BeginTeardown, Teardown, CancelAll, MapIsEmpty, ManagerStep, starting
<1>7. CASE UNCHANGED vars
  BY <1>7, Zenon DEF vars, starting
<1> QED BY <1>1, <1>2, <1>3, <1>4, <1>5, <1>6, <1>7 DEF Next, Over

(* When the destructor has returned no thread holds a Backup: a job whose   *)
(* thread does is in the map, which the destructor saw empty.               *)
THEOREM BackupsReleased == Spec => []ReleasedBeforeExit
<1>1. Init => Closed
  BY Zenon DEF Init, Closed
<1>2. ASSUME IInv, Closed PROVE ReleasedBeforeExit
  <2> SUFFICES ASSUME manager = "destroyed", NEW j \in Jobs,
                      phase[j] \in Listed
               PROVE  FALSE
    BY <1>2, Zenon DEF ReleasedBeforeExit, IInv, TypeOK, Listed
  <2>1. in_progress_map_[j] = {} /\ in_progress_map_[j] = DevicesOf(j)
    BY <1>2, Zenon DEF Closed, IInv, Recorded
  <2>2. vectors[j] # <<>>
    BY <1>2, Zenon DEF IInv, Recorded, Listed
  <2> QED BY <1>2, <2>1, <2>2, DevicesOfNonEmpty, Zenon DEF IInv
<1> QED BY <1>1, <1>2, ClosedNext, Invariance, PTL DEF Spec

=============================================================================
