------------------------------- MODULE Backup -------------------------------
(***************************************************************************)
(* One backup: the thread in Backup::DoBackup, the synchronizer threads    *)
(* it starts (the control of DeviceSynchronizer::DoSync) and the           *)
(* BackupCoordinator they share.  What a synchronizer copies is modelled   *)
(* in DeviceSynchronizer; here an UnsyncedSectorStore is the set of the    *)
(* intervals it holds.  The tracer adds to it at any moment, and so does   *)
(* another synchronizer take from it: stores are kept by device, and a     *)
(* request may name a device twice.                                        *)
(***************************************************************************)
EXTENDS BackupCoordinator

CONSTANTS
  Devices,        \* the devices of a request
  Sectors,        \* what a store may hold: an interval is one of these
  None,           \* the interval [0, 0)
  MaxTraces,      \* bound: intervals the tracers add while it runs
  Faulty,         \* the workers whose opens, freezes or copies may throw
  UuidMayFail     \* may GetUuid throw while the threads are started?

ASSUME BackupAssumption ==
  /\ IsFiniteSet(Sectors)
  /\ None \notin Sectors
  /\ MaxTraces \in Nat
  /\ Faulty \subseteq Workers
  /\ UuidMayFail \in BOOLEAN

VARIABLES
  main,       \* where the thread in DoBackup is
  status,     \* what the BackupEventHandler has published
  bytes_unsynced,   \* per device, what the SyncCountHandler has published
  pc,         \* where each synchronizer thread is
  was_done,   \* DoSync's local: SignalFinished is in force for this worker
  seen,       \* DoSync's local unsynced_sector_count
  source,     \* source_device_ of each worker
  unsynced,   \* the UnsyncedSectorStore of each device
  to_sync,    \* DoSync's local to_sync_interval
  uncopied,   \* history: per device, what was in its store when the backup
              \* started and is in no image yet
  traces,     \* intervals the tracers may still add
  refusals    \* history: calls of SignalMoreWorkToDo that returned false

stores == <<source, unsynced, to_sync, uncopied>>
locals == <<pc, was_done, seen, stores, bytes_unsynced>>
vars == <<coordinator, main, status, locals, traces, refusals>>

MainState == {"start", "spawn", "wait", "join", "gather", "poll",
              "fail", "cancel", "succeed", "done", "aborted"}
WorkerState == {"unborn", "open", "loop", "count", "decide", "wait", "take",
                "remove", "copy", "close", "catch", "exited"}
Status == {"NOT_STARTED", "IN_PROGRESS", "SUCCEEDED", "CANCELLED", "FAILED"}

TypeOK ==
  /\ CoordinatorTypeOK
  /\ main \in MainState
  /\ status \in Status
  /\ bytes_unsynced \in [Workers -> Nat]
  /\ pc \in [Workers -> WorkerState]
  /\ was_done \in [Workers -> BOOLEAN]
  /\ seen \in [Workers -> Nat]
  /\ source \in [Workers -> Devices]
  /\ unsynced \in [Devices -> SUBSET Sectors]
  /\ to_sync \in [Workers -> Sectors \cup {None}]
  /\ uncopied \in [Devices -> SUBSET Sectors]
  /\ traces \in Nat
  /\ refusals \in Nat

Init ==
  /\ CoordinatorInit
  /\ main = "start"
  /\ status = "NOT_STARTED"
  /\ bytes_unsynced = [w \in Workers |-> 0]     \* the default
  /\ pc = [w \in Workers |-> "unborn"]
  /\ was_done = [w \in Workers |-> FALSE]
  /\ seen = [w \in Workers |-> 0]
  /\ source \in [Workers -> Devices]
  /\ unsynced \in [Devices -> SUBSET Sectors]
  /\ to_sync = [w \in Workers |-> None]
  /\ uncopied = unsynced
  /\ traces \in 0 .. MaxTraces
  /\ refusals = 0

-----------------------------------------------------------------------------
(* DeviceSynchronizer::DoSync, one action per call that touches shared      *)
(* state.                                                                   *)

Alive == main # "aborted"

Goto(w, from, to) ==
  /\ Alive
  /\ pc[w] = from
  /\ pc' = [pc EXCEPT ![w] = to]

\* mutant: the exception of a copy is caught in the loop
ThrowFromCopyCaught(w) ==
  /\ w \in Faulty
  /\ \/ \E from \in {"open", "count"} : Goto(w, from, "catch")
     \/ to_sync[w] # None /\ Goto(w, "copy", "loop")
  /\ to_sync' = [to_sync EXCEPT ![w] = None]
  /\ UNCHANGED <<coordinator, main, status, was_done, seen, source, unsynced,
                 uncopied, bytes_unsynced, traces, refusals>>

\* Opening the two devices, freezing and copying can throw.
Throw(w) ==
  /\ w \in Faulty
  /\ \/ \E from \in {"open", "count"} : Goto(w, from, "catch")
     \/ to_sync[w] # None /\ Goto(w, "copy", "catch")
  /\ to_sync' = [to_sync EXCEPT ![w] = None]
  /\ UNCHANGED <<coordinator, main, status, was_done, seen, source, unsynced,
                 uncopied, bytes_unsynced, traces, refusals>>

OpenDevices(w) ==
  /\ Goto(w, "open", "loop")
  /\ UNCHANGED <<coordinator, main, status, was_done, seen, stores,
                 bytes_unsynced, traces, refusals>>

CheckCancelled(w) ==
  /\ Goto(w, "loop", IF IsCancelled THEN "close" ELSE "count")
  /\ UNCHANGED <<coordinator, main, status, was_done, seen, stores,
                 bytes_unsynced, traces, refusals>>

(* The two reads of UnsyncedSectorCount are one: the first only decides     *)
(* whether the second is made, and a store holding less than 1MB always     *)
(* gets the second, under a freeze.  So flush_time > 0 whenever the value   *)
(* kept is 0, and DoSync's condition is seen = 0.                           *)
CountUnsynced(w) ==
  /\ Goto(w, "count", "decide")
  /\ seen' = [seen EXCEPT ![w] = Cardinality(unsynced[source[w]])]
  /\ UNCHANGED <<coordinator, main, status, was_done, stores, bytes_unsynced,
                 traces, refusals>>

(* The count is published before DoSync acts on it; only clients that ask   *)
(* for the status read it, so that is part of the step that follows.        *)
UpdateUnsyncedCount(w) ==
  bytes_unsynced' = [bytes_unsynced EXCEPT ![w] = seen[w]]

\* mutant: SignalFinished again on every pass, was_done not consulted
SyncCompleteAgain(w) ==
  /\ Goto(w, "decide", "wait")
  /\ seen[w] = 0
  /\ was_done' = [was_done EXCEPT ![w] = TRUE]
  /\ SignalFinished
  /\ UpdateUnsyncedCount(w)
  /\ UNCHANGED <<main, status, seen, stores, traces, refusals>>

\* mutant: the count is only reported while there is work left
SyncCompleteUnreported(w) ==
  /\ Goto(w, "decide", "wait")
  /\ seen[w] = 0
  /\ was_done' = [was_done EXCEPT ![w] = TRUE]
  /\ IF was_done[w] THEN UNCHANGED coordinator ELSE SignalFinished
  /\ UNCHANGED <<main, status, seen, stores, bytes_unsynced, traces, refusals>>

SyncComplete(w) ==
  /\ Goto(w, "decide", "wait")
  /\ seen[w] = 0
  /\ was_done' = [was_done EXCEPT ![w] = TRUE]
  /\ IF was_done[w] THEN UNCHANGED coordinator ELSE SignalFinished
  /\ UpdateUnsyncedCount(w)
  /\ UNCHANGED <<main, status, seen, stores, traces, refusals>>

\* mutant: a synchronizer that is done leaves without waiting for the others
WaitUntilFinishedAlone(w) ==
  /\ Goto(w, "wait", "close")
  /\ UNCHANGED <<coordinator, main, status, was_done, seen, stores,
                 bytes_unsynced, traces, refusals>>

\* A wait that times out goes round the loop again.
WaitUntilFinished(w) ==
  /\ Goto(w, "wait", IF Finished THEN "close" ELSE "loop")
  /\ UNCHANGED <<coordinator, main, status, was_done, seen, stores,
                 bytes_unsynced, traces, refusals>>

\* The answer of SignalMoreWorkToDo is not looked at.
MoreWork(w) ==
  /\ Goto(w, "decide", "take")
  /\ seen[w] > 0
  /\ was_done' = [was_done EXCEPT ![w] = FALSE]
  /\ IF was_done[w]
       THEN /\ SignalMoreWorkToDo
            /\ refusals' = IF MoreWorkPermitted THEN refusals ELSE refusals + 1
       ELSE UNCHANGED <<coordinator, refusals>>
  /\ UpdateUnsyncedCount(w)
  /\ seen' = [seen EXCEPT ![w] = 0]     \* not read again in this round
  /\ UNCHANGED <<main, status, stores, traces>>

(* Any interval stands for the one after the last returned.  The store may  *)
(* be empty by now, another synchronizer having taken what was counted.     *)
GetInterval(w) ==
  /\ Goto(w, "take", "remove")
  /\ \E s \in Sectors \cup {None} :
       /\ IF unsynced[source[w]] = {} THEN s = None ELSE s \in unsynced[source[w]]
       /\ to_sync' = [to_sync EXCEPT ![w] = s]
  /\ UNCHANGED <<coordinator, main, status, was_done, seen, source, unsynced,
                 uncopied, bytes_unsynced, traces, refusals>>

RemoveInterval(w) ==
  /\ Goto(w, "remove", "copy")
  /\ unsynced' = [unsynced EXCEPT ![source[w]] = @ \ {to_sync[w]}]
  /\ UNCHANGED <<coordinator, main, status, was_done, seen, source, to_sync,
                 uncopied, bytes_unsynced, traces, refusals>>

(* Nothing is copied for [0, 0).  bytes_transferred, which only grows, is   *)
(* left out of the published status.                                        *)
CopyInterval(w) ==
  /\ Goto(w, "copy", "loop")
  /\ uncopied' = [uncopied EXCEPT ![source[w]] = @ \ {to_sync[w]}]
  /\ to_sync' = [to_sync EXCEPT ![w] = None]
  /\ UNCHANGED <<coordinator, main, status, was_done, seen, source, unsynced,
                 bytes_unsynced, traces, refusals>>

CloseDevices(w) ==
  /\ Goto(w, "close", "exited")
  /\ UNCHANGED <<coordinator, main, status, was_done, seen, stores,
                 bytes_unsynced, traces, refusals>>

CatchException(w) ==
  /\ Goto(w, "catch", "exited")
  /\ AddFatalError(w)
  /\ UNCHANGED <<main, status, was_done, seen, stores, bytes_unsynced, traces,
                 refusals>>

Synchronizer(w) ==
  \/ OpenDevices(w) \/ CheckCancelled(w) \/ CountUnsynced(w)
  \/ SyncComplete(w) \/ WaitUntilFinished(w) \/ MoreWork(w)
  \/ GetInterval(w) \/ RemoveInterval(w) \/ CopyInterval(w)
  \/ CloseDevices(w) \/ Throw(w) \/ CatchException(w)

-----------------------------------------------------------------------------
(* Backup::DoBackup *)

BackupInProgress ==
  /\ main = "start"
  /\ main' = "spawn"
  /\ status' = "IN_PROGRESS"
  /\ UNCHANGED <<coordinator, locals, traces, refusals>>

\* CreateSyncCountHandler, then the thread
StartSyncThread(w) ==
  /\ main = "spawn"
  /\ Goto(w, "unborn", "open")
  /\ UNCHANGED <<coordinator, main, status, was_done, seen, stores,
                 bytes_unsynced, traces, refusals>>

(* CreateSyncCountHandler asks the device for its uuid, which can throw.    *)
(* The exception leaves DoBackup and the function of the thread it runs     *)
(* in: std::terminate ends the daemon.                                      *)
SyncCountHandlerThrows ==
  /\ UuidMayFail
  /\ main = "spawn"
  /\ \E w \in Workers : pc[w] = "unborn"
  /\ main' = "aborted"
  /\ UNCHANGED <<coordinator, status, locals, traces, refusals>>

AllStarted ==
  /\ main = "spawn"
  /\ \A w \in Workers : pc[w] # "unborn"
  /\ main' = "wait"
  /\ UNCHANGED <<coordinator, status, locals, traces, refusals>>

\* The 2 second wait is repeated until the predicate holds.
AwaitFinished ==
  /\ main = "wait"
  /\ Finished
  /\ main' = "join"
  /\ UNCHANGED <<coordinator, status, locals, traces, refusals>>

JoinSome ==   \* mutant: joins only until one thread has ended
  /\ main = "join"
  /\ \E w \in Workers : pc[w] = "exited"
  /\ main' = "gather"
  /\ UNCHANGED <<coordinator, status, locals, traces, refusals>>

JoinThreads ==
  /\ main = "join"
  /\ \A w \in Workers : pc[w] = "exited"
  /\ main' = "gather"
  /\ UNCHANGED <<coordinator, status, locals, traces, refusals>>

\* mutant: the cancelled flag is looked at before the errors
GatherAfterCancelled ==
  /\ main = "gather"
  /\ main' = IF ~IsCancelled /\ fatal_errors_ # <<>> THEN "fail" ELSE "poll"
  /\ UNCHANGED <<coordinator, status, locals, traces, refusals>>

\* Every error has a source, so error_text is empty only without errors.
GatherErrors ==
  /\ main = "gather"
  /\ main' = IF fatal_errors_ # <<>> THEN "fail" ELSE "poll"
  /\ UNCHANGED <<coordinator, status, locals, traces, refusals>>

PollCancelled ==
  /\ main = "poll"
  /\ main' = IF IsCancelled THEN "cancel" ELSE "succeed"
  /\ UNCHANGED <<coordinator, status, locals, traces, refusals>>

Verdict == [fail |-> "FAILED", cancel |-> "CANCELLED", succeed |-> "SUCCEEDED"]

PublishVerdict ==
  /\ main \in DOMAIN Verdict
  /\ status' = Verdict[main]
  /\ main' = "done"
  /\ UNCHANGED <<coordinator, locals, traces, refusals>>

DoBackup ==
  \/ BackupInProgress
  \/ \E w \in Workers : StartSyncThread(w)
  \/ AllStarted \/ AwaitFinished \/ JoinThreads
  \/ GatherErrors \/ PollCancelled \/ PublishVerdict

-----------------------------------------------------------------------------
(* The environment: the tracers, and BackupManager::StopBackup / CancelAll. *)

TraceArrives(d) ==
  /\ Alive
  /\ traces > 0
  /\ traces' = traces - 1
  /\ \E s \in Sectors : unsynced' = [unsynced EXCEPT ![d] = @ \cup {s}]
  /\ UNCHANGED <<coordinator, main, status, pc, was_done, seen, source, to_sync,
                 uncopied, bytes_unsynced, refusals>>

StopBackup ==
  /\ Alive
  /\ Cancel
  /\ UNCHANGED <<main, status, locals, traces, refusals>>

Over == main \in {"done", "aborted"} /\ UNCHANGED vars

Next ==
  \/ DoBackup
  \/ SyncCountHandlerThrows
  \/ \E w \in Workers : Synchronizer(w)
  \/ \E d \in Devices : TraceArrives(d)
  \/ StopBackup
  \/ Over

(* Every thread keeps running: the operating system schedules it, the       *)
(* timed waits end, and no single open, freeze or copy takes for ever.      *)
Fairness ==
  /\ WF_vars(DoBackup)
  /\ \A w \in Workers : WF_vars(Synchronizer(w))

Spec == Init /\ [][Next]_vars
FairSpec == Spec /\ Fairness

-----------------------------------------------------------------------------
(* Properties *)

Working == {w \in Workers : ~was_done[w]}

Left(w) == pc[w] \in {"close", "exited"}

(* The coordinator's counter is exact up to the increments it refused:      *)
(* modulo the width of unsigned int, count_ plus the refused calls of       *)
(* SignalMoreWorkToDo is the number of workers that are not done.           *)
CountAccounting ==
  (count_ + refusals) % UIntModulus = Cardinality(Working) % UIntModulus

(* Unless a worker went on working after being refused, or the backup is    *)
(* cancelled, no synchronizer leaves DoSync while another still works.      *)
FinishTogetherUnlessRefused ==
  (~cancelled_ /\ refusals = 0 /\ \E w \in Workers : Left(w)) => Working = {}

(* The verdict DoBackup publishes agrees with how its threads ended: it     *)
(* comes after every thread, FAILED is exactly when a thread threw, and     *)
(* SUCCEEDED only when every synchronizer left with its store seen empty.   *)
VerdictSound ==
  main = "done" =>
    /\ \A w \in Workers : pc[w] = "exited"
    /\ status = "FAILED" <=> fatal_errors_ # <<>>
    /\ status = "CANCELLED" => cancelled_
    /\ status = "SUCCEEDED" => Working = {}

(* A client that is told SUCCEEDED is told that nothing is left to copy on  *)
(* any device: the last count every DoSync published was 0, also when it    *)
(* took work back or was refused it (UpdateUnsyncedCount, DoBackup).        *)
SucceededReportsNothingLeft ==
  status = "SUCCEEDED" => \A w \in Workers : bytes_unsynced[w] = 0

(* A backup that is told to have succeeded has copied everything that was   *)
(* unsynced when it started, although a synchronizer may find that another  *)
(* one of the same device has emptied the store it counted, or takes an     *)
(* interval that another one took (GetInterval, RemoveInterval, DoBackup).  *)
(* Into one image of the device: a device named twice has two, and which    *)
(* of them gets an interval depends on the threads.                         *)
SucceededCopiedAll ==
  status = "SUCCEEDED" => \A w \in Workers : uncopied[source[w]] = {}

(* The detailed backup implements the contract BackupJob.                   *)
SyncOutcome ==
  [w \in Workers |->
     IF pc[w] # "exited" THEN "running"
     ELSE IF \E i \in DOMAIN fatal_errors_ : fatal_errors_[i] = w THEN "error"
     ELSE IF was_done[w] THEN "synced" ELSE "gave_up"]

Job == INSTANCE BackupJob WITH outcome <- SyncOutcome, stopped <- cancelled_

ImplementsJob == Job!JobSpec

(* A backup that is cancelled, or that fails, comes to an end.              *)
CancelEnds == []<>(cancelled_ => main \in {"done", "aborted"})

(* A backup whose devices stop being written to comes to an end, provided   *)
(* no worker was refused more work: every SignalFinished is then matched.   *)
EndsUnlessRefused == []<>(main \in {"done", "aborted"} \/ refusals > 0)

(* WaitUntilFinished waits for all synchronization to be done: a backup     *)
(* whose devices stop being written to comes to an end.                     *)
BackupEnds == <>(main \in {"done", "aborted"})

=============================================================================
