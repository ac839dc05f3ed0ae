------------------------- MODULE DeviceSynchronizer -------------------------
(***************************************************************************)
(* One source device and its image: the writes of the file system, the     *)
(* traces blktrace makes of them, the UnsyncedSectorStore the traces go    *)
(* to, BackupBuilder::CreateDeviceSynchronizer, which prepares the store,  *)
(* and DeviceSynchronizer::DoSync, which empties it into the destination.  *)
(*                                                                         *)
(* A write is traced when it is queued (device_tracer.cc asks for          *)
(* BLK_TC_QUEUE) and reaches the disk later.  A freeze that takes effect   *)
(* waits for the writes under way and holds back new ones; Freeze does     *)
(* nothing on ext2, nor where the cached mount list shows no mount, and    *)
(* RunWhileFrozen cannot tell.  The content of a sector is the number of   *)
(* the last write that reached it, 0 if there was none.  The other syncs   *)
(* of the backup, on other devices, only show in how the waits of the      *)
(* coordinator end; see Backup.                                            *)
(***************************************************************************)
EXTENDS UnsyncedSectorStore, FiniteSets

CONSTANTS
  SectorsPerBlock,   \* block_size_bytes / SECTOR_SIZE
  FreezeBelow,       \* ONE_MEGABYTE / SECTOR_SIZE
  FreezeAttempts,    \* the tries RunWhileFrozen makes, 10 in the code
  MaxWrites,         \* bound: writes of the file system
  MaxEpoch,          \* bound: the clock stops here
  Faults             \* may opens, freezes, copies and the tracer fail?

ASSUME SyncAssumption ==
  /\ SectorsPerBlock \in Nat \ {0}
  /\ FreezeBelow \in Nat \ {0}
  /\ FreezeAttempts \in Nat \ {0}
  /\ MaxWrites \in Nat
  /\ MaxEpoch \in Nat
  /\ Faults \in BOOLEAN

VARIABLES
  epoch,          \* time(NULL)
  disk,           \* the content of the source
  dest,           \* the content of the image
  inflight,       \* writes queued that have not reached the disk
  trace_buffer,   \* traces no CpuTracer has handed to the store yet
  tracing,        \* UnsyncedSectorManager::IsTracing
  frozen,         \* is_frozen_ of the FreezeHelper
  held,           \* the kernel holds writes back: the freeze took effect
  next_id,        \* the number of the next write
  pc,             \* the thread that builds the synchronizer and runs DoSync
  in_use,         \* the result of GetInUseSectors
  to_sync,        \* to_sync_interval
  is_volatile,
  offset,         \* in sectors
  buf,            \* the buffer of copy_block
  attempts,       \* freeze_attempts
  seeded,         \* history: the store has been filled for a full backup
  segment_time,   \* history: the time of the segment GetInterval handed out
  raced,          \* history: see RemoveToSync
  dropped,        \* history: sectors of intervals whose copy was abandoned
  untraced,       \* history: sectors of writes whose trace was lost
  unguarded       \* history: see GetInUseSectors and ReadBlock

device == <<epoch, disk, inflight, trace_buffer, tracing, next_id>>
copying == <<in_use, to_sync, is_volatile, offset, buf, segment_time>>
history == <<seeded, raced, dropped, untraced, unguarded>>
freeze == <<frozen, held>>
vars == <<store, device, dest, freeze, pc, copying, attempts, history>>

WriteRecord == [set : SUBSET Sectors, id : Nat, queued : Nat]

BuildStates == {"clear", "in_use", "seed", "open"}
CopyStates == {"copy_begin", "read", "write", "copy_end"}
SyncStates ==
  {"loop", "count_begin", "recount", "wait", "get", "remove"} \cup CopyStates

TypeOK ==
  /\ StoreTypeOK
  /\ epoch \in Nat
  /\ disk \in [Sectors -> Nat]
  /\ dest \in [Sectors -> Nat]
  /\ inflight \subseteq WriteRecord
  /\ trace_buffer \subseteq WriteRecord
  /\ tracing \in BOOLEAN
  /\ frozen \in BOOLEAN
  /\ held \in BOOLEAN
  /\ next_id \in Nat
  /\ pc \in {"idle", "exit"} \cup BuildStates \cup SyncStates
  /\ in_use \subseteq Sectors
  /\ to_sync \in Interval
  /\ is_volatile \in BOOLEAN
  /\ offset \in Nat
  /\ buf \in [Sectors -> Nat]
  /\ attempts \in Nat
  /\ seeded \in BOOLEAN
  /\ segment_time \in Nat
  /\ raced \subseteq Sectors
  /\ dropped \subseteq Sectors
  /\ untraced \subseteq Sectors
  /\ unguarded \subseteq Sectors

Init ==
  /\ StoreInit
  /\ epoch = VolatileSeconds + 1
  /\ disk \in [Sectors -> {0, 1}]
  /\ dest = [s \in Sectors |-> 0]
  /\ inflight = {}
  /\ trace_buffer = {}
  /\ tracing = FALSE
  /\ frozen = FALSE
  /\ held = FALSE
  /\ next_id = 2
  /\ pc = "idle"
  /\ in_use = {}
  /\ to_sync = [lower |-> 0, upper |-> 0]
  /\ is_volatile = FALSE
  /\ offset = 0
  /\ buf = [s \in Sectors |-> 0]
  /\ attempts = 0
  /\ seeded = FALSE
  /\ segment_time = 0
  /\ raced = {}
  /\ dropped = {}
  /\ untraced = {}
  /\ unguarded = {}

-----------------------------------------------------------------------------
(* The file system, the block layer and the tracer.                         *)

InFlight(s) == \E w \in inflight : s \in w.set
Pending(s) == \E w \in trace_buffer : s \in w.set

QueueWrite(set) ==
  /\ ~held
  /\ next_id < MaxWrites + 2
  /\ LET w == [set |-> set, id |-> next_id, queued |-> epoch]
     IN  /\ inflight' = inflight \cup {w}
         /\ trace_buffer' = IF tracing THEN trace_buffer \cup {w}
                            ELSE trace_buffer
  /\ next_id' = next_id + 1
  /\ UNCHANGED <<store, epoch, disk, tracing, dest, freeze, pc, copying,
                 attempts, history>>

CompleteWrite(w) ==
  /\ w \in inflight
  /\ inflight' = inflight \ {w}
  /\ disk' = [s \in Sectors |-> IF s \in w.set THEN w.id ELSE disk[s]]
  /\ UNCHANGED <<store, epoch, trace_buffer, tracing, next_id, dest, freeze,
                 pc, copying, attempts, history>>

\* TraceHandler::AddTrace, for a write of at least one sector
AddTrace(w) ==
  /\ w \in trace_buffer
  /\ AddInterval(w.set, epoch)
  /\ trace_buffer' = trace_buffer \ {w}
  /\ UNCHANGED <<epoch, disk, inflight, tracing, next_id, dest, freeze, pc,
                 copying, attempts, history>>

(* The relay buffer was full, or the CpuTracer that reads it has ended on   *)
(* an error; the tracer stays in place, and IsTracing true.  See            *)
(* DeviceTracer.                                                            *)
LoseTrace(w) ==
  /\ Faults
  /\ w \in trace_buffer
  /\ trace_buffer' = trace_buffer \ {w}
  /\ untraced' = untraced \cup w.set
  /\ UNCHANGED <<store, epoch, disk, inflight, tracing, next_id, dest, freeze,
                 pc, copying, attempts, seeded, raced, dropped, unguarded>>

(* What VOLATILE_SECONDS assumes of the block layer: a write reaches the    *)
(* disk less than that long after it was queued.                            *)
Tick ==
  /\ epoch < MaxEpoch
  /\ \A w \in inflight : epoch + 1 < w.queued + VolatileSeconds
  /\ epoch' = epoch + 1
  /\ UNCHANGED <<store, disk, inflight, trace_buffer, tracing, next_id, dest,
                 freeze, pc, copying, attempts, history>>

\* The thread of FreezeHelper thaws when the freeze has lasted long enough.
Thaw ==
  /\ frozen
  /\ frozen' = FALSE
  /\ held' = FALSE
  /\ UNCHANGED <<store, device, dest, pc, copying, attempts, history>>

-----------------------------------------------------------------------------
(* BackupBuilder::CreateDeviceSynchronizer *)

Step(from, to) == pc = from /\ pc' = to

StartFull ==
  /\ Step("idle", "clear")
  /\ tracing' = TRUE
  /\ UNCHANGED <<store, epoch, disk, inflight, trace_buffer, next_id, dest,
                 freeze, copying, attempts, history>>

StartIncremental ==
  /\ Step("idle", "open")
  /\ tracing
  /\ UNCHANGED <<store, device, dest, freeze, copying, attempts, history>>

ClearStore ==
  /\ Step("clear", "in_use")
  /\ ClearIntervals
  /\ seeded' = FALSE
  /\ UNCHANGED <<device, dest, freeze, copying, attempts, raced, dropped,
                 untraced, unguarded>>

(* The bitmaps are read at a moment when the file system is frozen, or,     *)
(* when the freeze has no effect, as they are: they may then lack what is   *)
(* being written, and what has been written but not yet entered in them.    *)
(* unguarded collects these sectors.  What the tracer missed until then is  *)
(* in the bitmaps or among these.                                           *)
GetInUseSectors(in_effect, shown) ==
  /\ Step("in_use", "seed")
  /\ in_effect => inflight = {} /\ shown = {s \in Sectors : disk[s] # 0}
  /\ in_use' = shown
  /\ untraced' = {}
  /\ unguarded' = {s \in Sectors :
                     InFlight(s) \/ (disk[s] # 0 /\ s \notin shown)}
  /\ UNCHANGED <<store, device, dest, freeze, to_sync, is_volatile,
                 offset, buf, segment_time, attempts, seeded, raced, dropped>>

GetInUseSectorsThrows ==
  /\ Faults
  /\ Step("in_use", "idle")
  /\ UNCHANGED <<store, device, dest, freeze, copying, attempts, history>>

SeedStore ==
  /\ Step("seed", "open")
  /\ AddNonVolatileInterval(in_use)
  /\ seeded' = TRUE
  /\ raced' = {}
  /\ dropped' = {}
  /\ in_use' = {}
  /\ UNCHANGED <<device, dest, freeze, to_sync, is_volatile, offset, buf,
                 segment_time, attempts, untraced, unguarded>>

\* the constructor's checks and the two opens
OpenDevices ==
  /\ Step("open", "loop")
  /\ UNCHANGED <<store, device, dest, freeze, copying, attempts, history>>

OpenDevicesThrows ==
  /\ Faults
  /\ Step("open", "exit")
  /\ UNCHANGED <<store, device, dest, freeze, copying, attempts, history>>

-----------------------------------------------------------------------------
(* FreezeHelper::RunWhileFrozen, as FreezeHelper shows it to behave: the    *)
(* body starts once Freeze has returned, and is run again when the freeze   *)
(* had been thawed before the body ended.                                   *)

BeginFreeze(from, to, in_effect) ==
  /\ Step(from, to)
  /\ frozen' = TRUE
  /\ IF frozen THEN UNCHANGED held
     ELSE held' = in_effect /\ (in_effect => inflight = {})
  /\ attempts' = attempts + 1
  /\ UNCHANGED <<store, device, dest, copying, history>>

\* mutant: a new freeze is begun, and the body not run again under it
RunAgainInName(at, begin) ==
  /\ Step(at, at)
  /\ ~frozen
  /\ inflight = {}
  /\ attempts < FreezeAttempts
  /\ frozen' = TRUE
  /\ held' = TRUE
  /\ attempts' = attempts + 1
  /\ UNCHANGED <<store, device, dest, copying, history>>

RunAgain(at, begin) ==
  /\ Step(at, begin)
  /\ ~frozen
  /\ attempts < FreezeAttempts
  /\ UNCHANGED <<store, device, dest, freeze, copying, attempts, history>>

-----------------------------------------------------------------------------
(* DeviceSynchronizer::DoSync *)

\* The interval and the offset are local to a round of the loop.
EndRound ==
  /\ to_sync' = [lower |-> 0, upper |-> 0]
  /\ is_volatile' = FALSE
  /\ offset' = 0
  /\ segment_time' = 0
  /\ attempts' = 0

\* IsCancelled may say yes at any time.
LeaveCancelled ==
  /\ Step("loop", "exit")
  /\ EndRound
  /\ UNCHANGED <<store, device, dest, freeze, in_use, buf, history>>

\* mutant: what is less than a block is not worth another round
AfterCountWithRest(count) == IF count <= SectorsPerBlock THEN "wait" ELSE "get"

\* where a round goes on, given unsynced_sector_count
AfterCount(count) == IF count = 0 THEN "wait" ELSE "get"

CountUnsynced ==
  /\ LET count == Cardinality(UnsyncedSectors)
     IN  Step("loop", IF count < FreezeBelow THEN "count_begin"
                      ELSE AfterCount(count))
  /\ EndRound
  /\ UNCHANGED <<store, device, dest, freeze, in_use, buf, history>>

(* The body of the RunWhileFrozen of the count, and the EndRequiredFreeze-  *)
(* Block that accepts it; nothing looks at the count in between.            *)
RecountUnsynced ==
  /\ Step("recount", AfterCount(Cardinality(UnsyncedSectors)))
  /\ frozen
  /\ attempts' = 0
  /\ UNCHANGED <<store, device, dest, freeze, copying, history>>

\* WaitUntilFinished: done, or a timeout and round again
AwaitOthers(to) ==
  /\ to \in {"exit", "loop"}
  /\ Step("wait", to)
  /\ UNCHANGED <<store, device, dest, freeze, copying, attempts, history>>

GetToSync(I) ==
  /\ Step("get", "remove")
  /\ GetInterval(I)
  /\ to_sync' = I
  /\ is_volatile' = IsVolatile(I, epoch)
  /\ segment_time' = IF I.lower < I.upper
                     THEN unsynced_sector_map_[I.lower] ELSE 0
  /\ UNCHANGED <<device, dest, freeze, in_use, offset, buf, attempts,
                 history>>

NextBlock(at) ==
  IF at >= to_sync.upper THEN "loop"
  ELSE IF is_volatile THEN "copy_begin" ELSE "read"

(* A write traced between GetInterval and here was marked, and the mark is  *)
(* removed; is_volatile is that of before.  When such a write is still      *)
(* under way and the interval is copied without a freeze, the copy can      *)
(* miss it: raced collects these sectors.  A sector handed out again is no  *)
(* longer excused by what happened to it before.                            *)
RemoveToSync ==
  /\ Step("remove", NextBlock(to_sync.lower))
  /\ RemoveInterval(In(to_sync))
  /\ offset' = to_sync.lower
  /\ attempts' = 0
  /\ raced' = (raced \ In(to_sync)) \cup
       {s \in In(to_sync) : /\ ~is_volatile
                            /\ unsynced_sector_map_[s] > segment_time
                            /\ InFlight(s)}
  /\ dropped' = dropped \ In(to_sync)
  /\ untraced' = untraced \ {s \in In(to_sync) : ~InFlight(s)}
  /\ UNCHANGED <<device, dest, freeze, in_use, to_sync, is_volatile,
                 buf, segment_time, seeded, unguarded>>

Block == offset .. offset + SectorsPerBlock - 1

(* The pread of copy_block.  A volatile block taken for frozen when it is   *)
(* not may be read with a write under way whose mark is already gone:       *)
(* unguarded collects these sectors too.  A sector of the interval read     *)
(* with no write under way is no longer excused by it.                      *)
ReadBlock ==
  /\ Step("read", "write")
  /\ offset + SectorsPerBlock <= NumSectors
  /\ buf' = [s \in Sectors |-> IF s \in Block THEN disk[s] ELSE buf[s]]
  /\ LET now == Block \cap In(to_sync)
     IN  unguarded' = {s \in unguarded : s \in now => InFlight(s)} \cup
           {s \in now : /\ is_volatile /\ frozen
                        /\ InFlight(s) /\ ~Marked(s) /\ ~Pending(s)}
  /\ UNCHANGED <<store, device, dest, freeze, in_use, to_sync,
                 is_volatile, offset, segment_time, attempts, seeded, raced,
                 dropped, untraced>>

Written(set) == [s \in Sectors |-> IF s \in set THEN buf[s] ELSE dest[s]]

\* the pwrite of copy_block; an unfrozen copy is then done with the block
WriteBlock ==
  /\ dest' = Written(Block)
  /\ buf' = [s \in Sectors |-> 0]
  /\ IF is_volatile
       THEN Step("write", "copy_end") /\ UNCHANGED <<offset, attempts>>
       ELSE /\ Step("write", NextBlock(offset + SectorsPerBlock))
            /\ offset' = offset + SectorsPerBlock
            /\ attempts' = 0
  /\ UNCHANGED <<store, device, freeze, in_use, to_sync, is_volatile,
                 segment_time, history>>

EndCopy ==
  /\ frozen
  /\ Step("copy_end", NextBlock(offset + SectorsPerBlock))
  /\ offset' = offset + SectorsPerBlock
  /\ attempts' = 0
  /\ UNCHANGED <<store, device, dest, freeze, in_use, to_sync,
                 is_volatile, buf, segment_time, history>>

(* An exception leaves DoSync: a freeze or a copy fails, a block reaches    *)
(* past the end of the device, or the freezes never lasted long enough.     *)
(* A failed write may have reached part of the block.                       *)
ThrowCause ==
  \/ Faults /\ pc \in {"count_begin", "copy_begin", "read", "write"}
  \/ pc = "read" /\ offset + SectorsPerBlock > NumSectors
  \/ pc \in {"recount", "copy_end"} /\ ~frozen /\ attempts >= FreezeAttempts

Throw(part) ==
  /\ ThrowCause
  /\ part \subseteq Block
  /\ pc # "write" => part = {}
  /\ dest' = Written(part)
  /\ buf' = [s \in Sectors |-> 0]
  /\ dropped' = IF pc \in CopyStates
                THEN dropped \cup {s \in In(to_sync) : s >= offset}
                ELSE dropped
  /\ EndRound
  /\ pc' = "exit"
  /\ UNCHANGED <<store, device, freeze, in_use, seeded, raced, untraced,
                 unguarded>>

\* The destructor of the FreezeHelper waits for the thaw.
LeaveDoSync ==
  /\ Step("exit", "idle")
  /\ ~frozen
  /\ UNCHANGED <<store, device, dest, freeze, copying, attempts, history>>

-----------------------------------------------------------------------------

FileSystem ==
  \/ \E I \in Interval : I.lower < I.upper /\ QueueWrite(In(I))
  \/ \E w \in inflight : CompleteWrite(w)
  \/ Tick

Request == StartFull \/ StartIncremental

Build ==
  \/ ClearStore
  \/ \E in_effect \in BOOLEAN :
       \E shown \in SUBSET {s \in Sectors : disk[s] # 0 \/ InFlight(s)} :
         GetInUseSectors(in_effect, shown)
  \/ GetInUseSectorsThrows \/ SeedStore
  \/ OpenDevices \/ OpenDevicesThrows

DoSync ==
  \/ LeaveCancelled
  \/ CountUnsynced
  \/ \E in_effect \in BOOLEAN : BeginFreeze("count_begin", "recount", in_effect)
  \/ RecountUnsynced
  \/ RunAgain("recount", "count_begin")
  \/ \E to \in {"exit", "loop"} : AwaitOthers(to)
  \/ \E I \in Selected : GetToSync(I)
  \/ RemoveToSync
  \/ \E in_effect \in BOOLEAN : BeginFreeze("copy_begin", "read", in_effect)
  \/ ReadBlock \/ WriteBlock
  \/ RunAgain("copy_end", "copy_begin")
  \/ EndCopy
  \/ \E part \in SUBSET (Block \cap Sectors) : Throw(part)
  \/ LeaveDoSync

Next ==
  \/ FileSystem
  \/ \E w \in trace_buffer : AddTrace(w) \/ LoseTrace(w)
  \/ Thaw
  \/ Request
  \/ Build
  \/ DoSync

Spec == Init /\ [][Next]_vars

(* The kernel finishes writes and hands over traces, the freeze thread      *)
(* thaws, and the sync runs on; requests, writes and faults may not come.   *)
Fairness ==
  /\ WF_vars(\E w \in inflight : CompleteWrite(w))
  /\ WF_vars(\E w \in trace_buffer : AddTrace(w))
  /\ WF_vars(Thaw)
  /\ WF_vars(Build)
  /\ WF_vars(DoSync)

FairSpec == Spec /\ Fairness

-----------------------------------------------------------------------------
(* Properties *)

(* The sync still holds s and will copy what is on the disk now: it has not *)
(* come to s, has just read it, or will copy it again since the freeze was  *)
(* thawed.                                                                  *)
ToCopy(s) ==
  /\ pc \in CopyStates
  /\ s \in In(to_sync)
  /\ \/ s >= offset + SectorsPerBlock
     \/ s >= offset /\ pc \in {"copy_begin", "read"}
     \/ s >= offset /\ pc = "write" /\ buf[s] = disk[s]
     \/ s >= offset /\ is_volatile /\ ~frozen

Accounted(s) == Marked(s) \/ Pending(s) \/ ToCopy(s)

Excused(s) == s \in raced \cup dropped \cup untraced \cup unguarded

(* Once the store has been filled for a full backup, a sector whose image   *)
(* is out of date is marked in the store, has a trace on its way there, or  *)
(* is about to be copied (DoSync, copy_block, CreateDeviceSynchronizer).    *)
(* The only exceptions: the sectors of an interval whose copy failed, of    *)
(* one written between GetInterval and RemoveInterval, of writes whose      *)
(* trace was lost, and of writes under way, or not yet in the bitmaps, when *)
(* the code reads under a freeze that has no effect (ext2, or a mount the   *)
(* cache does not show).  A full backup makes good what was missed.         *)
NoLostWrite ==
  seeded => \A s \in Sectors : disk[s] # dest[s] => Accounted(s) \/ Excused(s)

(* When RunWhileFrozen accepts the copy of a block while the kernel holds   *)
(* writes back, the image of the block is what is on the disk: the freeze   *)
(* was in effect from before the read, whatever was thawed and frozen again *)
(* on the way (copy_func).  Where Freeze has no effect nothing of the kind  *)
(* holds, and what the copy may miss is in NoLostWrite's exceptions.        *)
FrozenCopyExact ==
  pc = "copy_end" /\ held => \A s \in Block \cap Sectors : dest[s] = disk[s]

(* A sync that is running finds its store empty or leaves, once the writes  *)
(* end: neither the sweep nor the retries of a freeze go on for ever.       *)
SyncSettles == pc = "loop" ~> pc \in {"wait", "exit"}

(* A sector whose image is out of date is brought up to date by the sync    *)
(* that runs, or the sync comes to an end first: no mark is passed over for *)
(* ever by the sweep of GetInterval, taken for the end of the work by       *)
(* DoSync, or left behind by copy_block.  The exceptions are NoLostWrite's. *)
ImageCatchesUp ==
  \A s \in Sectors :
    seeded /\ pc \in SyncStates /\ disk[s] # dest[s] ~>
      \/ disk[s] = dest[s]
      \/ pc \notin SyncStates
      \/ Excused(s)

(* As NoLostWrite, with no exception for an interval whose copy failed.     *)
NoLostWriteOnFailure ==
  seeded => \A s \in Sectors :
    disk[s] # dest[s] =>
      Accounted(s) \/ s \in raced \cup untraced \cup unguarded

=============================================================================
