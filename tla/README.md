# A TLA+ model of the Linux agent

dattod backs up the block devices of a running machine. It seeds a store with
the sectors a file system uses, traces the writes that go on meanwhile, copies
sectors to a remote NBD device until the store is empty, and freezes the file
system when it has to be sure of what it copies. The modules here model the
threads, locks, counters and kernel interfaces that make this work; TLC checks
them on small instances and TLAPS proves the main invariants for every size.

## The system and where it is modelled

| part of the code | what it does | module |
| --- | --- | --- |
| `backup/backup_coordinator.*` | a counter, a cancel flag and a list of errors shared by the syncs of a backup | `BackupCoordinator` |
| `backup/backup.*`, the control of `device_synchronizer/*` | one thread per device, the wait for all of them, the verdict | `Backup`, abstractly `BackupJob` |
| `backup/backup_manager.*`, parts of `backup_status_tracker/*` | the jobs in progress, start, stop, teardown | `BackupManager` |
| `backup/backup_builder.*`, the data of `device_synchronizer/*` | seeding the store, the copy loop, volatile sectors and freezes | `DeviceSynchronizer` |
| `unsynced_sector_manager/unsynced_sector_store.*` | the map of sectors that are not in the image yet | `UnsyncedSectorStore` |
| `freeze_helper/*` | run a function while the file system is frozen, for a limited time | `FreezeHelper`, abstractly `FreezeWindow` |
| `block_device/mountable_block_device.*` | freeze and thaw a device, when a cached look at the mounts says it is mounted | `MountableBlockDevice` |
| `block_device/ext_mountable_block_device.*`, `ext_file_system.*` | the sectors an ext file system uses, read group by group under freezes | `ExtMountableBlockDevice` |
| `tracing/*`, `unsynced_sector_manager.*` | blktrace, one reader thread per CPU, flush and stop | `DeviceTracer`, abstractly `TraceChannel` |
| `block_device/nbd_client.*`, `nbd_block_device.*` | choose, configure, serve and release a `/dev/nbdN` | `NbdClient` |
| `logging/*` | a queue and a writer thread, so that nobody who logs waits for the disk | `QueuingLogSink` |
| `dattod/*`, `request_listener/*`, `dattolib`, the stop of the init script | the process: lock, signals, listener, replies, shutdown | `Daemon` |

How they fit together: `Daemon` receives requests and destroys the manager when
it stops; `BackupManager` turns a request into a job, of which it only assumes
the contract `BackupJob`; `Backup` implements that contract with
`BackupCoordinator` (it EXTENDS it) and one thread per device; what such a
thread does with the data of its device is `DeviceSynchronizer`, which EXTENDS
`UnsyncedSectorStore`, takes freezes as `FreezeWindow` promises them, in effect
or not as `TrulyFrozen` of `ExtMountableBlockDevice` leaves open, the sectors in
use as its `SnapshotExact` states them, and the traces as `TraceChannel` promises
them, which `DeviceTracer` implements;
its destination is opened by `NbdClient`. `ExtMountableBlockDevice` EXTENDS
`MountableBlockDevice`, which EXTENDS `FreezeHelper`: the three run together,
the freezes of the helper being those of the device, and its body the walk over
the bitmaps.

Not modelled, and why: `XfsMountableBlockDevice` is never created (the factory
refuses xfs); the look-ups of `BlockDeviceFactory`, the parsing of
`/proc/mounts`, `nbd_server`, `fsawarebdcopy`, `dattocli` and `dattonet` are
straight-line I/O and text; the protocol buffers are generated.
`ClearSyncHistory` and `ReInsertSyncHistory` are defined in
`UnsyncedSectorStore`, but no code calls them and no action takes them. The
descriptor table of the process is not modelled, and so neither is the second
`close` of `mount_file_descriptor_`; nor are the data races on the `std::map` of
`UnsyncedSectorManager` and on the reply `CreateSyncCountHandler` adds to, whose
outcomes depend on the library, nor the writes of the listener thread to the
local `started` of a constructor that has returned, whose outcome depends on the
compiler. A composition of `DeviceSynchronizer` with
`Backup` is out of TLC's reach (385 thousand states for one sync and one write):
`Backup` takes from it that a store is emptied interval by interval and refilled by
traces, and `DeviceSynchronizer` has one sync of its device, where a request that
names the device twice makes two. PROJECT.json has the complete list.

## The modules

**BackupCoordinator, Backup, BackupJob.** State: `count_` (modulo
`UIntModulus`, it is an `unsigned int`), `cancelled_`, `fatal_errors_`; per sync
its position in `DoSync`, `was_done`, its device, the interval in its hands, the
count it last saw and the count it last published; per device the intervals of its
store, which two syncs share when a request names the device twice; the position of
`DoBackup` and the published status. `uncopied` is history: the intervals that were
unsynced at the start and that no sync has copied yet. A
method of the coordinator is one step, because each holds `mutex_` throughout;
every statement of `DoSync` between two of them is a step of its own. Traces
arrive at any moment (`TraceArrives`), devices fail (`Throw`), a client cancels
(`StopBackup`), and asking a device for its UUID may throw out of `DoBackup`
(`SyncCountHandlerThrows`). `BackupJob` is the promise: every sync ends, and
then one verdict is published that agrees with how they ended.

**BackupManager.** Handlers run `StartBackup` step by step under
`start_backup_mutex_`: reply created, devices tested and entered, synchronizers
built (which may throw), thread detached, uuid returned. The thread of a job
runs it, publishes, releases the Backup, erases its entry and unlocks. The
destructor sets its flag, cancels and spins. Handlers may be several: the
mutexes allow it, although dattod has one listener thread.

**UnsyncedSectorStore, DeviceSynchronizer.** The store is a function from sectors
to times (0: not in the map), its intervals are the maximal runs of one time,
and the sweep is `end_of_last_continuous_`. A write is traced when it is queued
and reaches the disk later, within `VolatileSeconds`; the content of a sector is
the number of the last write that reached it. The thread builds the synchronizer
(clear, read the sectors in use, seed) and then runs the loop: count, recount
under a freeze, decide, get and remove an interval, read and write block by
block, with or without a freeze. A trace may be lost, to a full relay buffer or
to a reader that has ended. `raced`, `dropped` and `untraced` are history:
sectors whose mark was removed between `GetInterval` and `RemoveInterval`,
sectors of an interval whose copy failed, and sectors of a write whose trace was
lost. `Freeze` reports success without freezing on ext2 and where the cached mounts
do not show the device, so a freeze takes effect or not: `frozen` is what
`FreezeHelper` believes, `held` what the kernel does, and `unguarded` is history,
the sectors that were being written, or were not yet in the bitmaps, when the code
read them under a freeze without effect.

**FreezeHelper, FreezeWindow.** The caller and the unfreeze thread, with the
mutex, the condition variable (a notification that finds nobody waiting is
lost; wakeups may be spurious), the three flags, freezes and thaws that throw,
and destruction. `FreezeWindow` is the promise: an accepted body ran inside one
freeze.

**MountableBlockDevice, ExtMountableBlockDevice.** The first gives `FreezeHelper`
the device it calls: `IsMounted` with its ten-second cache, `Freeze` and `Thaw`,
which do nothing when the cache says the device is not mounted and may throw
when it is, and the destructor, which thaws once more what was left frozen. The
administrator mounts and unmounts (`ChangeMount`), and the kernel's own
`sb_frozen` is kept apart from what the object believes. The second has the body
of `GetInUseSectors`: bitmap after bitmap, group after group, restarted when the
freeze did not last, the padding of the last group cut off, blocks turned into
sectors, while the file system allocates and frees blocks whenever it is not
frozen. A device object is made, used, destroyed and made again. ext2 devices,
which are never frozen, are included.

**DeviceTracer.** One relay buffer and one reader thread per CPU; records with and
without payload; poll that may stay silent about records in a partly filled
buffer; errors that end a thread; `FlushBuffers` with a helper thread per CPU;
the constructor with its clean-up and the destructor with its joins;
`CleanupBlockTrace` may throw in both, and the trace that it leaves on is in the
way of the next constructor, which cleans up again.
`TraceChannel` is the promise: a queue per CPU, from which traces are handed over
in order and once each; a reader that ends loses the one trace it holds, and
what is queued is lost only when the channel is closed. Traces are numbered as
they are made, so that a queue is a set whose least element is next.

**QueuingLogSink.** Threads in `send`, the writer thread (timed wait, drain with
the mutex released around each `fputs`, test of `should_die_`) and the destructor.
The log is on the file system a backup freezes: `fputs` blocks while it is frozen,
and the thread that thaws logs before it does. `fputs` does not fail in the model;
the code ignores its result, and a line that cannot be written is gone.

**NbdClient.** Clients search for a device without a pid, clear its old socket,
set theirs and start the thread whose `NBD_DO_IT` publishes the pid, at any time:
the constructor yields once and returns. `shared` is history: clients that met on
one device. A constructor that throws leaks its descriptors; the model closes the
connection, which no device has by then.

**Daemon.** Processes open the pid file, lock it, write their pid, install the
handlers, remove and bind the socket, wait for the listener, pause, and take
everything down. A listener polls, accepts, reads, handles and replies. Clients send
a request or nonsense, or hang up. A process that dies leaves both files behind.
The stop action of the init script waits until the process named in the pid file has
ended, or finds that it names none (`StopDaemon`; under `set -e` the script goes no
further while that process runs), and then removes whatever file is at the path
(`RemovePidFile`), at any moment and also while a dattod starts: `start` returns
when `daemon()` has forked, before the flock. A file is known by the process that
created it, so that a removed file, still open and locked, and the new one at the
same path are told apart. `crossed` is history: processes that ran while the script
removed a file that one of them had open, or that started beside such a one.

## What the runs check

Passing runs:

| run | bounds | states | shows |
| --- | --- | --- | --- |
| `MCBackup` | 2 syncs of 2 devices or of one, both may fail, 2 intervals a store, 2 traces, 3 intervals and traces together, `count_` mod 8 | 477 thousand | `CountAccounting`, `FinishTogetherUnlessRefused`, `VerdictSound`, `SucceededReportsNothingLeft`, `SucceededCopiedAll`, refinement `ImplementsJob`, liveness `CancelEnds`, `EndsUnlessRefused` |
| `MCDeviceSynchronizer` | 2 sectors in 2 blocks, 1 write, freezes with and without effect, faults and lost traces, 2 freeze attempts | 385 thousand | `NoLostWrite`, `FrozenCopyExact`, liveness `SyncSettles`, `ImageCatchesUp` |
| `MCExtMountableBlockDevice` | 2 attempts, failing look-ups, freezes and thaws, 2 mounts or unmounts, 1 block allocated or freed | 826 thousand | `NeverFreezesTwice`, `LeavesNothingBehind`, `TrulyFrozen`, `LeftThawed`, `SnapshotExact`, refinement `KeepsItsWord`, liveness `AlwaysThaws` |
| `MCBackupManager` | 2 handlers, 2 jobs, 2 devices, requests of one or two | 156 thousand | `DeviceExclusion`, `NotRunningMeansFinal`, `ReleasedBeforeExit`, liveness `TeardownEnds` |
| `MCDeviceTracer` | 2 CPUs, buffers of 2 units, 2 traces, faults | 157 thousand | `FlushDelivers`, `NoTracerNoTrace`, refinement `ImplementsChannel`, liveness `FlushAndStopReturn` |
| `MCNbdClient` | 3 clients, 1 device | 155 thousand | `KeptWhileServed`, `Undisturbed`, liveness `DisconnectEnds` |
| `MCQueuingLogSink` | 3 threads, 5 lines, 2 freezes, a buffer of 1 line | 18 thousand | `NothingLost`, `LastWordsWritten`, liveness `FreezeEnds`, `WriterServes` |
| `MCDaemon` | 2 processes and 1 client, or 1 process and 2 clients | 155 thousand | `OneDaemon`, `AnsweredOnce`, `ManagerOutlivesListener`, liveness `StartsAndEnds`, `ClientReturns` |

`MCQueuingLogSink` does not check for deadlock: the program ends with the
destructor of the sink.

Runs that find a violation, each of something the code or a comment says:

* `MCBackup_refused`: a trace that arrives after the last sync has signalled is
  refused by `SignalMoreWorkToDo`, whose result `DoSync` ignores; the sync
  signals again, `count_` wraps, and `DoBackup` waits for ever.
* `MCDeviceSynchronizer_failed_copy`: an interval leaves the store before it is
  copied, so a failed copy leaves sectors that are neither marked nor copied;
  the next incremental backup does not know of them.
* `MCFreezeHelper_lost_wakeup`: the unfreeze thread sets its flags and notifies
  without the mutex; between the caller's test and its wait the notification is
  lost and `RunWhileFrozen` sleeps.
* `MCNbdClient_window`: the constructor yields to the thread that is to enter
  `NBD_DO_IT` and does not wait for it; until it does the device has no pid, and the
  next `FindOpenNbdDevice` takes it although it is in use and another is free.

Why these bounds are enough to be interesting: two syncs are needed for one to be
done while the other works, two traces for a sync to be called back twice, and two
intervals in one store for two syncs to take turns at it; a write of one or both of
two sectors in blocks of their own can fall before, between and after the reads and
writes of their copies, in a full backup and in the incremental ones that follow,
and lets the sweep pass an interval (two writes, without faults and liveness, give
3.3 million states and no error, and the theorems cover any number); two mounts or unmounts let a file system
come back while the cache still says otherwise; two freezes of the log's file
system let one begin while the writer is still behind with the lines of the other;
three NBD clients on one device let one take what another has lost, or not yet
entered, while a third looks on; two processes let the second start at each point of
the first one's life and of the script's stop, and two clients let one wait while the
other is served; a request that names a device twice is among those of
`MCBackupManager`, and both cases are in `MCBackup`. `VolatileSeconds`,
`FreezeBelow` and `FreezeAttempts` are 1 or 2 where the code has 10 seconds, one
megabyte and 10, so that both sides of each test are reached. `MaxWrites`,
`MaxTraces`, `MaxWork` and `MaxEpoch` only end the enumeration.

Every property of a passing run has a mutant in PROJECT.json, a definition
marked `mutant` next to the one it replaces, with which the property fails.

## Exceptions the properties name

Some guarantees hold only outside a window the code leaves open. The model keeps
a history variable for each, and the property exempts exactly what it records:

* `NoLostWrite` exempts `raced` (a trace between `GetInterval` and
  `RemoveInterval` of a write that has not reached the disk), `dropped`
  (failed copies, the subject of `MCDeviceSynchronizer_failed_copy`),
  `untraced` (a lost trace, until a full backup reads the bitmaps again) and
  `unguarded` (ext2, or a mount the cache does not show: what was being written, or
  was not in the bitmaps yet, as it was read under a freeze without effect, until
  it is read again with no write under way);
  `ImageCatchesUp` exempts the same sectors, and `FrozenCopyExact` speaks of freezes
  that are in effect. On ext2, therefore, what holds of a file system that is written
  to during a backup is only that nothing else than those sectors is missed.
* `FinishTogetherUnlessRefused` and `EndsUnlessRefused` exempt a refused
  `SignalMoreWorkToDo`, the subject of `MCBackup_refused`.
* `AlwaysThaws` and `LeavesNothingBehind` exempt a thaw that failed: the helper
  does not thaw again. The destructor of the device does, and `LeftThawed` only
  exempts a file system unmounted while frozen and a thaw that fails there too.
* `TrulyFrozen` exempts a mount or unmount since the device last looked, and
  ext2; `SnapshotExact` what was read while that left the freeze unsure.
* `LastWordsWritten` exempts a `should_die_` set between the writer's last drain
  and its test.
* `FlushDelivers` exempts a flush that an earlier empty read has answered
  (`overtaken`), `FlushAndStopReturn` a reader thread that has ended on an error,
  `NoTracerNoTrace` a trace that `CleanupBlockTrace` could not stop (`left_on`).
* `Undisturbed` and `DisconnectEnds` exempt `shared` devices. `KeptWhileServed` says
  when a device may come to be shared: when its client's connection has ended or its
  thread has not entered `NBD_DO_IT` yet. That the second does not happen is
  `OneOwner`, which `MCNbdClient_window` refutes.
* `OneDaemon` exempts `crossed` processes. A start, a stop and a start are enough to
  make some: the stop finds no pid in a file that the first dattod has open, and
  removes it; both then hold a lock, each on its own file, and the second unlinks the
  socket of the first.
* `StartsAndEnds` counts a `main` in `pause` as started; a signal that came before is
  lost, against the comment in `dattod/signal_handler.h:15`. `ClientReturns` and
  `StartsAndEnds` are about clients that speak or hang up.
* `SucceededCopiedAll` is about the backup as a whole: of a device named twice, each
  of the two images gets only the intervals its own sync took.

## Fairness

Every thread that can step does so eventually: weak fairness of each thread's
steps, which the scheduler provides. Beyond that: the kernel completes writes,
delivers traces and returns from `NBD_DO_IT` after a disconnect
(`DeviceSynchronizer`, `DeviceTracer`, `NbdClient`); the usleep of the unfreeze
thread ends; and a client that has connected to dattod sends or hangs up, which
dattolib does at once (`Daemon`). There is no fairness on requests, new writes,
faults, signals, or the start of processes. Strong fairness is used in one place:
a thread in `send` that wants `mutex_` gets it although the writer takes it again
and again (`Push` of `QueuingLogSink`).

`DeviceSynchronizer` and `Backup` take it that a call of `RunWhileFrozen` returns, and
`BackupManager` that a backup which is cancelled ends. `MCFreezeHelper_lost_wakeup`
shows that the first may fail. `CancelEnds`, `EndsUnlessRefused`, `SyncSettles`,
`ImageCatchesUp` and `TeardownEnds` hold as long as no wakeup is lost there.

## What is proved

The proofs are for all values of the constants, under the named assumptions of
the modules. Beyond the types of the constants they say: finitely many syncs, at
least one and fewer than `UIntModulus` (`CoordinatorAssumption`); a request names a
device (`ManagerAssumption`); at least one sector, one sector per block, one
volatile second, one block to freeze below and one attempt (`StoreAssumption`,
`SyncAssumption`, `FreezeAssumption`); a file system with a
block after its first data block, which is 0 or 1, and groups and blocks that are
not empty (`GeometryAssumption`); finitely many loggers (`LogAssumption`); at least
one CPU (`TracerAssumption`); and that the marks for "no job", "no client" and "no
process" are none (`ManagerAssumption`, `NbdAssumption`, `NobodyIsNoOne`).
Type correctness is proved in each of these modules and not run again by TLC.

* `BackupProofs`. `BackupTypeCorrect`, `VerdictIsSound` and `SuccessLeavesNothing`
  follow from the inductive invariant `Ending`, which says what each position of a sync and of `DoBackup` implies: a sync that has
  left was done or saw the cancel, an error implies the cancel, after the joins
  all have exited. `VerdictSound` alone is not inductive because the verdict is
  chosen several steps before it is published. `SuccessCopiesAll` adds `Copying`: an
  interval that has not been copied is in its store, in the hands of a sync of that
  device, or was in those of one that threw, which rules success out; a sync that
  finds the store empty, or takes what another has taken too, does not disturb it.
  `SyncsFinishTogether` rests on
  `Counting`: as long as nobody was refused, `count_` is the number of syncs
  that are not done, so that a zero that one sync saw stays a zero.
  `CountIsAccounted` covers the refusals and the wrap of the counter: `Accounting`
  says that `count_` plus the refusals differs from the number of working syncs by
  a multiple of `UIntModulus`, which the steps of the counter preserve where an
  equation of remainders gives the solver nothing to hold on to.
  `BackupKeepsContract` is the refinement of `BackupJob`; `Publishing` adds that
  nothing runs before IN_PROGRESS is published and that only a thread that has
  ended has left an error, and every step but four kinds is `Silent`: it leaves
  the outcomes as they are.
* `ExtMountableBlockDeviceProofs`. First `FreezeHelper` alone: `FreezeTypeCorrect`,
  `NoDoubleFreeze`, `NothingLeftBehind`, and `WordKept`, that it implements
  `FreezeWindow`. `HelperInv` ties the frozen file system to the positions of the
  unfreeze thread and says that a body which runs while that thread has not yet
  cleared `is_frozen_` has been frozen since its start; this is what makes the
  unlocked test in `EndRequiredFreezeBlock` right. `DeviceRunsHelper` shows that
  every step of the device is a step of the helper or leaves it alone, so that
  these hold inside the device too (`DeviceKeepsPromises`). Then the device:
  `DeviceTypeCorrect`, `FreezesAreReal`, `DeviceLeavesThawed` and
  `SnapshotOfOneMoment`, for every geometry of the file system. `TrulyFrozen` is
  not inductive because the helper believes a `Freeze` that does nothing on a
  device taken for unmounted: `CacheTrue` says when the cached answer of
  `IsMounted` can be believed, `FreezeReal` carries that from `Freeze` to the
  flags, and `FreezeOwned` says that a file system that is frozen, and was not
  left so by an unmount or by the destructor's failed Thaw, is one the device
  knows to be mounted and knows it has to thaw. For the scan, `MapRead` says
  that what a body that may still be accepted has read of the bitmaps is what
  the disk holds, `MapKept` that once accepted it stays that of the moment, and
  `SectorsFound` that the sectors collected are those of the groups before the
  `i`-th; lemmas about the geometry (`NextGroup`, `AllGroups`, `BitsAreBlocks`)
  show that the groups partition the blocks and that the padding bits of the
  last one are left out.
* `BackupManagerProofs`. `ManagerTypeCorrect`, `DevicesAreExclusive`,
  `NotRunningIsFinal` and `BackupsReleased`. Disjoint entries in the map are not
  enough, because a job may erase its entry while `StartBackup` still holds its
  Backup: `IInv` adds that one handler at a time is in `StartBackup` and that the
  devices of the job it is starting are in nobody else's entry until it returns.
  `BackupsReleased` adds `Closed`: no request is being handled once the destructor
  has begun, and the map is empty when it has returned.
* `DeviceSynchronizerProofs`. `SyncTypeCorrect`, `NoWriteLost` and
  `FrozenCopiesExact`, for any device, block size, volatile time and number of
  writes, with and without faults, and whether or not each freeze takes effect.
  `NoLostWrite` speaks of writes
  that have reached the disk; what makes it inductive is `Watched`, about those that
  have not. A write in flight is in the trace buffer, or its sector carries a mark
  that is no older than the write (`Recorded`), or the mark has been taken and the
  block will be read under a freeze: one in effect, which no write in flight survives
  (`Timing`), or one without, whose sectors `ReadBlock` adds to `unguarded`.
  `RemoveToSync` keeps `Watched` because of `Taken`: an interval handed
  out as not volatile was last marked `VolatileSeconds` ago, when no write that is
  still in flight had been queued, and a later mark is the race that `raced`
  records. `Filling` covers the time between the bitmaps and the store, and
  `Buffered` a write that lands between `pread` and `pwrite`. Here is where
  VOLATILE_SECONDS as a bound on the age of a write is needed (`Tick`). The lemmas
  sort the steps into twenty cases, one of which (`Quiet`) is every step that only
  moves the thread on.
* `DeviceTracerProofs`. `TracerTypeCorrect`, `FlushIsComplete`, `NothingLeftRunning`,
  `NeverBadMagic` and `TracerIsChannel`, for any number of CPUs, size of the relay
  buffers and number of traces. `FlushDelivers` speaks of the moment in which
  `FlushBuffers` returns; `Flushing` follows each request to it: until it is
  answered, what is awaited is handled or still in the buffer or the hand of its
  thread, and an open request belongs to a flush thread that waits. An empty read
  answers it rightly because of `Aligned` (a record is in a thread's hand only
  between `read` and `AddTrace`). `Aligned` also says that a thread that has to skip
  a payload has that payload before it and one that reads has a record before it,
  from the order of the units in a buffer (`WellFormed` in `Ordered`); this is
  `NeverBadMagic`, and it is needed for the types too, since a thread out of step
  would hand over what is no trace. `Lifecycle` ties the manager's entry, the block
  trace and the threads to the position of the constructor or the destructor. For
  the refinement, the channel is open while the block trace is on or being taken
  down, a queue holds the records of a buffer and the one in the hand, and the
  readers are the threads that have not ended. A recorded request is `Accept`
  (or nothing, when the buffer is full), `AddTrace` is `HandOver`, a thread that ends
  is `EndReader` or `EndReaderHolding`, and polls, reads, skipped payloads, flushes
  and joins leave the channel alone.
* `QueuingLogSinkProofs`. `SinkTypeCorrect`, `EveryLineOnce` and `LastWords`.
  `Order` adds to `NothingLost` that the writer has a line in hand only while it
  writes, that nobody logs once the destructor has begun, and that a writer about
  to test `should_die_` has drained the queue unless it was overtaken.
* `NbdClientProofs`. `NbdTypeCorrect`, `ServedBySelf` and `DeviceKept`, whenever the
  thread of a client gets to run. `IInv` says that
  constructors exclude each other and, in `Undivided`, what a client that has met
  no other finds on its device at each step of `ConfigureNbdDevice` and of its
  thread, the ioctl not yet entered included.
* `DaemonProofs`. `DaemonTypeCorrect`, `OnlyOneDaemon`, `ManagerOutlives` and
  `OneAnswer`, for any number of processes and clients. `Locks` ties the files, the
  locks on them and the socket path to the positions of the processes: a file is
  locked by one process, and as long as one that runs has not been crossed all have
  the file at the path open. `Stages` says what a process has by where its `main`
  is; `Sessions` follows a connection from the backlog to `connection_fd` and to
  its reply, and needs that a backlog holds no client twice.

Every invariant and every refinement that the runs check is proved. Only
model-checked: the liveness properties, since fairness and ENABLED are outside
what the prover handles.

## Running

Inside this directory, `tlc -config MCBackup.cfg MCBackup` checks a run (the
pairs of module and configuration are in PROJECT.json) and
`tlapm BackupProofs.tla` checks a module of proofs.
