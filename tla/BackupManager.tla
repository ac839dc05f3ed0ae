--------------------------- MODULE BackupManager ---------------------------
(***************************************************************************)
(* backup/backup_manager.cc between the threads that handle requests, the  *)
(* detached thread of every job and the destructor, with the part of       *)
(* BackupStatusTracker, RequestHandler, BackupBuilder and                  *)
(* UnsyncedSectorManager that they reach.  What a job does between its     *)
(* start and its verdict is the contract BackupJob, which Backup           *)
(* implements.                                                             *)
(*                                                                         *)
(* dattod has one thread that handles requests; the manager's two mutexes  *)
(* allow for several, and so does the model.  The listener is joined       *)
(* before the manager is destroyed, so that no request is being handled    *)
(* by then.                                                                *)
(***************************************************************************)
EXTENDS Naturals, Sequences, FiniteSets

CONSTANTS
  Handlers,        \* threads that handle requests
  Jobs,            \* the uuids make_uuid returns, each once
  Devices,         \* source devices, by uuid
  Requests,        \* start requests: sequences of devices, none empty
  NoJob            \* a handler without a job

ASSUME ManagerAssumption ==
  /\ NoJob \notin Jobs
  /\ \A r \in Requests : r \in Seq(Devices) /\ r # <<>>

VARIABLES
  in_progress_map_,    \* job |-> the set of its devices, {} when not in it
  reply_map_,          \* job |-> its published status, "none" without one
  cancelled,           \* jobs whose coordinator is cancelled
  tracing,             \* devices with a tracer
  handler,             \* where each handler is
  job,                 \* the job each handler is starting
  full,                \* whether that is a full backup
  start_backup_mutex_, \* is it held?
  vectors,             \* job |-> the devices it was asked to back up
  syncs,               \* job |-> the DeviceSynchronizers built so far
  phase,               \* where the thread of each job is
  manager,             \* "up", or where its destructor is
  told                 \* history: the jobs whose uuid a client was given

starting == <<handler, job, full, start_backup_mutex_>>
vars == <<in_progress_map_, reply_map_, cancelled, tracing, starting, vectors,
          syncs, phase, manager, told>>

Final == {"SUCCEEDED", "CANCELLED", "FAILED"}

TypeOK ==
  /\ in_progress_map_ \in [Jobs -> SUBSET Devices]
  /\ reply_map_ \in [Jobs -> {"none", "NOT_STARTED", "IN_PROGRESS"} \cup Final]
  /\ cancelled \subseteq Jobs
  /\ tracing \subseteq Devices
  /\ handler \in [Handlers -> {"idle", "add", "build", "erase", "return"}]
  /\ job \in [Handlers -> Jobs \cup {NoJob}]
  /\ full \in [Handlers -> BOOLEAN]
  /\ start_backup_mutex_ \in BOOLEAN
  /\ vectors \in [Jobs -> Seq(Devices)]
  /\ syncs \in [Jobs -> Nat]
  /\ phase \in [Jobs -> {"none", "spawned", "running", "ended", "released",
                         "erased", "gone"}]
  /\ manager \in {"up", "closing", "waiting", "destroyed"}
  /\ told \subseteq Jobs

Init ==
  /\ in_progress_map_ = [j \in Jobs |-> {}]
  /\ reply_map_ = [j \in Jobs |-> "none"]
  /\ cancelled = {}
  /\ tracing = {}
  /\ handler = [h \in Handlers |-> "idle"]
  /\ job = [h \in Handlers |-> NoJob]
  /\ full = [h \in Handlers |-> FALSE]
  /\ start_backup_mutex_ = FALSE
  /\ vectors = [j \in Jobs |-> <<>>]
  /\ syncs = [j \in Jobs |-> 0]
  /\ phase = [j \in Jobs |-> "none"]
  /\ manager = "up"
  /\ told = {}

\* in_progress_map_mutex_ is held over more than one step only by a thread
\* that has erased its job and is about to end.
MapLocked == \E j \in Jobs : phase[j] = "erased"

DevicesOf(j) == {vectors[j][i] : i \in DOMAIN vectors[j]}

-----------------------------------------------------------------------------
(* StartBackup, called by RequestHandler::Handle *)

HandlerStep(h, from, to) ==
  handler[h] = from /\ handler' = [handler EXCEPT ![h] = to]

\* Nobody has the uuid yet, so the new reply is seen with its first status.
CreateEventHandler(j) ==
  /\ reply_map_[j] = "none"
  /\ reply_map_' = [reply_map_ EXCEPT ![j] = "NOT_STARTED"]

StartBackup(h, request, j, is_full) ==
  /\ HandlerStep(h, "idle", "add")
  /\ manager = "up"
  /\ ~start_backup_mutex_
  /\ start_backup_mutex_' = TRUE
  /\ job' = [job EXCEPT ![h] = j]
  /\ full' = [full EXCEPT ![h] = is_full]
  /\ vectors' = [vectors EXCEPT ![j] = request]
  /\ CreateEventHandler(j)
  /\ UNCHANGED <<in_progress_map_, cancelled, tracing, syncs, phase, manager,
                 told>>

InProgress(devices) ==
  \E j \in Jobs : in_progress_map_[j] \cap devices # {}

\* mutant: only checks, records nothing
AddToInProgressSetUnrecorded(h) ==
  /\ HandlerStep(h, "add", "build")
  /\ ~MapLocked
  /\ ~InProgress(DevicesOf(job[h]))
  /\ UNCHANGED <<in_progress_map_, reply_map_, cancelled, tracing, job, full,
                 start_backup_mutex_, vectors, syncs, phase, manager, told>>

AddToInProgressSet(h) ==
  /\ HandlerStep(h, "add", "build")
  /\ ~MapLocked
  /\ ~InProgress(DevicesOf(job[h]))
  /\ in_progress_map_' = [in_progress_map_ EXCEPT ![job[h]] = DevicesOf(job[h])]
  /\ UNCHANGED <<reply_map_, cancelled, tracing, job, full,
                 start_backup_mutex_, vectors, syncs, phase, manager, told>>

\* StartBackup is left, and the mutex released, with or without a uuid.
Leave(h, from) ==
  /\ HandlerStep(h, from, "idle")
  /\ job' = [job EXCEPT ![h] = NoJob]
  /\ start_backup_mutex_' = FALSE

AlreadyInProgress(h) ==
  /\ Leave(h, "add")
  /\ ~MapLocked
  /\ InProgress(DevicesOf(job[h]))
  /\ UNCHANGED <<in_progress_map_, reply_map_, cancelled, tracing, full,
                 vectors, syncs, phase, manager, told>>

NextDevice(h) == vectors[job[h]][syncs[job[h]] + 1]

Building(h) == handler[h] = "build" /\ syncs[job[h]] < Len(vectors[job[h]])

\* BackupBuilder::CreateDeviceSynchronizer; see DeviceSynchronizer
CreateDeviceSynchronizer(h) ==
  /\ Building(h)
  /\ full[h] \/ NextDevice(h) \in tracing
  /\ tracing' = tracing \cup {NextDevice(h)}
  /\ syncs' = [syncs EXCEPT ![job[h]] = @ + 1]
  /\ UNCHANGED <<in_progress_map_, reply_map_, cancelled, starting, vectors,
                 phase, manager, told>>

(* A device or its image cannot be opened, its tracer not started, or there *)
(* is no trace data; a tracer that was started stays.  The synchronizers    *)
(* built so far are gone before the handler's catch is entered.             *)
CreateBackupThrows(h, started) ==
  /\ Building(h)
  /\ started => full[h]
  /\ HandlerStep(h, "build", "erase")
  /\ tracing' = IF started THEN tracing \cup {NextDevice(h)} ELSE tracing
  /\ syncs' = [syncs EXCEPT ![job[h]] = 0]
  /\ UNCHANGED <<in_progress_map_, reply_map_, cancelled, job, full,
                 start_backup_mutex_, vectors, phase, manager, told>>

EraseFailedStart(h) ==
  /\ Leave(h, "erase")
  /\ ~MapLocked
  /\ in_progress_map_' = [in_progress_map_ EXCEPT ![job[h]] = {}]
  /\ UNCHANGED <<reply_map_, cancelled, tracing, full, vectors, syncs, phase,
                 manager, told>>

\* backup_thread is created and detached
SpawnBackupThread(h) ==
  /\ HandlerStep(h, "build", "return")
  /\ ~Building(h)
  /\ phase' = [phase EXCEPT ![job[h]] = "spawned"]
  /\ UNCHANGED <<in_progress_map_, reply_map_, cancelled, tracing, job, full,
                 start_backup_mutex_, vectors, syncs, manager, told>>

\* mutant: the mutex is not held as far as the return
ReturnsUnlocked(h) ==
  /\ handler[h] = "return"
  /\ start_backup_mutex_
  /\ start_backup_mutex_' = FALSE
  /\ told' = told \cup {job[h]}
  /\ UNCHANGED <<in_progress_map_, reply_map_, cancelled, tracing, handler,
                 job, full, vectors, syncs, phase, manager>>

(* The handler's own pointer to the Backup goes before the lock does.       *)
ReturnUuid(h) ==
  /\ Leave(h, "return")
  /\ told' = told \cup {job[h]}
  /\ UNCHANGED <<in_progress_map_, reply_map_, cancelled, tracing, full,
                 vectors, syncs, phase, manager>>

StopBackup(h, j) ==
  /\ manager = "up"
  /\ handler[h] = "idle"
  /\ ~MapLocked
  /\ in_progress_map_[j] # {}
  /\ cancelled' = cancelled \cup {j}
  /\ UNCHANGED <<in_progress_map_, reply_map_, tracing, starting, vectors,
                 syncs, phase, manager, told>>

-----------------------------------------------------------------------------
(* The thread of a job *)

PhaseStep(j, from, to) ==
  phase[j] = from /\ phase' = [phase EXCEPT ![j] = to]

DoBackupBegins(j) ==
  /\ PhaseStep(j, "spawned", "running")
  /\ reply_map_' = [reply_map_ EXCEPT ![j] = "IN_PROGRESS"]
  /\ UNCHANGED <<in_progress_map_, cancelled, tracing, starting, vectors,
                 syncs, manager, told>>

\* mutant: the entry goes with the verdict, before the Backup
DoBackupEndsErasing(j, verdict) ==
  /\ PhaseStep(j, "running", "ended")
  /\ verdict = "CANCELLED" => j \in cancelled
  /\ reply_map_' = [reply_map_ EXCEPT ![j] = verdict]
  /\ in_progress_map_' = [in_progress_map_ EXCEPT ![j] = {}]
  /\ UNCHANGED <<cancelled, tracing, starting, vectors, syncs, manager, told>>

\* as BackupJob's Conclude
DoBackupEnds(j, verdict) ==
  /\ PhaseStep(j, "running", "ended")
  /\ verdict = "CANCELLED" => j \in cancelled
  /\ reply_map_' = [reply_map_ EXCEPT ![j] = verdict]
  /\ UNCHANGED <<in_progress_map_, cancelled, tracing, starting, vectors,
                 syncs, manager, told>>

\* backup.reset()
ReleaseBackup(j) ==
  /\ PhaseStep(j, "ended", "released")
  /\ UNCHANGED <<in_progress_map_, reply_map_, cancelled, tracing, starting,
                 vectors, syncs, manager, told>>

EraseJob(j) ==
  /\ ~MapLocked
  /\ PhaseStep(j, "released", "erased")
  /\ in_progress_map_' = [in_progress_map_ EXCEPT ![j] = {}]
  /\ UNCHANGED <<reply_map_, cancelled, tracing, starting, vectors, syncs,
                 manager, told>>

\* ~lock_guard
UnlockMap(j) ==
  /\ PhaseStep(j, "erased", "gone")
  /\ UNCHANGED <<in_progress_map_, reply_map_, cancelled, tracing, starting,
                 vectors, syncs, manager, told>>

-----------------------------------------------------------------------------
(* ~BackupManager *)

ManagerStep(from, to) == manager = from /\ manager' = to

BeginTeardown ==
  /\ ManagerStep("up", "closing")
  /\ \A h \in Handlers : handler[h] = "idle"
  /\ UNCHANGED <<in_progress_map_, reply_map_, cancelled, tracing, starting,
                 vectors, syncs, phase, told>>

\* mutant: the destructor only waits
CancelAllNot ==
  /\ ManagerStep("closing", "waiting")
  /\ ~MapLocked
  /\ UNCHANGED <<in_progress_map_, reply_map_, cancelled, tracing, starting,
                 vectors, syncs, phase, told>>

CancelAll ==
  /\ ManagerStep("closing", "waiting")
  /\ ~MapLocked
  /\ cancelled' = cancelled \cup {j \in Jobs : in_progress_map_[j] # {}}
  /\ UNCHANGED <<in_progress_map_, reply_map_, tracing, starting, vectors,
                 syncs, phase, told>>

\* The map is looked at without its mutex.
MapIsEmpty ==
  /\ ManagerStep("waiting", "destroyed")
  /\ \A j \in Jobs : in_progress_map_[j] = {}
  /\ UNCHANGED <<in_progress_map_, reply_map_, cancelled, tracing, starting,
                 vectors, syncs, phase, told>>

Over ==
  /\ manager = "destroyed"
  /\ \A j \in Jobs : phase[j] \in {"none", "gone"}
  /\ UNCHANGED vars

-----------------------------------------------------------------------------

Start(h) ==
  \/ AddToInProgressSet(h) \/ AlreadyInProgress(h)
  \/ CreateDeviceSynchronizer(h)
  \/ \E started \in BOOLEAN : CreateBackupThrows(h, started)
  \/ EraseFailedStart(h) \/ SpawnBackupThread(h) \/ ReturnUuid(h)

JobThread(j) ==
  \/ DoBackupBegins(j) \/ ReleaseBackup(j) \/ EraseJob(j) \/ UnlockMap(j)

Teardown == CancelAll \/ MapIsEmpty

Next ==
  \/ \E h \in Handlers : \/ \E r \in Requests, j \in Jobs, f \in BOOLEAN :
                              StartBackup(h, r, j, f)
                         \/ Start(h)
                         \/ \E j \in Jobs : StopBackup(h, j)
  \/ \E j \in Jobs : JobThread(j) \/ \E v \in Final : DoBackupEnds(j, v)
  \/ BeginTeardown \/ Teardown
  \/ Over

Spec == Init /\ [][Next]_vars

(* Threads run on, and a job that is cancelled comes to its verdict         *)
(* (CancelEnds of Backup).                                                  *)
Fairness ==
  /\ \A h \in Handlers : WF_vars(Start(h))
  /\ \A j \in Jobs :
       /\ WF_vars(JobThread(j))
       /\ WF_vars(j \in cancelled /\ \E v \in Final : DoBackupEnds(j, v))
  /\ WF_vars(Teardown)

FairSpec == Spec /\ Fairness

-----------------------------------------------------------------------------
(* Properties *)

\* The handler, or the thread of the job, has a pointer to its Backup.
Held(j) ==
  \/ \E h \in Handlers : job[h] = j /\ handler[h] \in {"build", "return"}
  \/ phase[j] \in {"spawned", "running", "ended"}

(* No two jobs have synchronizers of one device at a time, also when a      *)
(* request names it twice, and though a job leaves in_progress_map_ while   *)
(* StartBackup may still hold its Backup (StartBackup, AddToInProgressSet,  *)
(* the order in the thread of the job).                                     *)
DeviceExclusion ==
  \A i, j \in Jobs : i # j /\ Held(i) /\ Held(j) =>
    DevicesOf(i) \cap DevicesOf(j) = {}

(* A client that was given a uuid and is told "Job not running" by          *)
(* StopBackup finds the verdict of the job in the status tracker.           *)
NotRunningMeansFinal ==
  \A j \in told : in_progress_map_[j] = {} => reply_map_[j] \in Final

(* When the destructor has returned no thread holds a Backup, with its      *)
(* devices, any more: of the threads that were detached only the unlocking  *)
(* of the map is left ("to avoid a race on program exit as we detach").     *)
ReleasedBeforeExit ==
  manager = "destroyed" =>
    \A j \in Jobs : phase[j] \in {"none", "erased", "gone"}

(* The destructor of the manager ends, with every job ended before it.      *)
TeardownEnds == manager = "closing" ~> manager = "destroyed"

=============================================================================
