---------------------- MODULE DeviceSynchronizerProofs ----------------------
(***************************************************************************)
(* No write is lost between the disk and the image, for any device, block  *)
(* size, volatile time and number of writes, with freezes that take effect *)
(* and freezes that do not, but for the exceptions NoLostWrite names; and  *)
(* a copy accepted under a freeze in effect is exact.                      *)
(*                                                                         *)
(* One part of the invariant is about the types, the clock, the interval   *)
(* that has been handed out and the record of each write that is in        *)
(* flight; the other is about what is still to be copied.                  *)
(***************************************************************************)
EXTENDS DeviceSynchronizer, TLAPS

(* The clock, the tracer and the freeze: writes in flight are young, none   *)
(* is in flight under a freeze in effect, and nothing is written but is     *)
(* traced from the start of a full backup on.                               *)
Timing ==
  /\ epoch > 0 /\ next_id > 0
  /\ \A w \in inflight :
       w.id > 0 /\ w.queued > 0 /\ w.queued <= epoch
       /\ epoch < w.queued + VolatileSeconds
  /\ held => inflight = {}
  /\ pc # "idle" \/ seeded => tracing
  /\ pc \in {"in_use", "seed"} => ~seeded
  /\ \A s \in Sectors : disk[s] = 0 => dest[s] = 0 /\ buf[s] = 0

(* Between GetInterval and RemoveInterval the interval stays marked, and    *)
(* one that was not volatile is not made so by the time that passes.        *)
Taken ==
  pc = "remove" =>
    \A s \in In(to_sync) :
      /\ unsynced_sector_map_[s] >= segment_time /\ segment_time > 0
      /\ is_volatile \/ segment_time + VolatileSeconds <= epoch

(* The write w in flight to s is behind a trace or a mark of s, or s is     *)
(* among the sectors whose traces were lost or that were read unguarded.    *)
Recorded(w, s) ==
  Pending(s) \/ unsynced_sector_map_[s] >= w.queued
  \/ s \in untraced \cup unguarded

\* s is to be read, or read again, by a copy under a freeze.
ToRead(s) ==
  /\ pc \in CopyStates /\ is_volatile /\ s \in In(to_sync)
  /\ \/ s >= offset + SectorsPerBlock
     \/ s >= offset /\ (pc \in {"copy_begin", "read"} \/ ~frozen)

(* A write in flight has been recorded, or its sector is still to be read.  *)
Watched ==
  \A w \in inflight : \A s \in w.set :
    /\ pc = "seed" => Recorded(w, s)
    /\ seeded => Recorded(w, s) \/ (~Marked(s) /\ (Excused(s) \/ ToRead(s)))

(* What was written since the bitmaps were read is recorded too.            *)
Filling ==
  pc = "seed" =>
    \A s \in Sectors :
      disk[s] # 0 => \/ s \in in_use \/ Marked(s) \/ Pending(s)
                     \/ s \in untraced \cup unguarded

(* A buffer that has gone stale between pread and pwrite will be made good. *)
Buffered ==
  pc = "write" =>
    \A s \in Block \cap Sectors : buf[s] # disk[s] =>
      /\ ~held
      /\ seeded => \/ Marked(s) \/ Pending(s) \/ Excused(s)
                    \/ (s \in In(to_sync) /\ is_volatile /\ ~frozen)

IInv ==
  /\ TypeOK /\ Timing /\ Taken /\ Watched /\ Filling /\ Buffered
  /\ NoLostWrite /\ FrozenCopyExact

-----------------------------------------------------------------------------
(* Steps *)

Calm == {"idle", "exit", "clear", "open", "loop", "count_begin", "recount",
         "wait", "get"}

(* The steps of the thread that decide where it goes on and do no more.     *)
Quiet ==
  /\ UNCHANGED <<store, device, dest, in_use, buf, history>>
  /\ to_sync' \in Interval /\ is_volatile' \in BOOLEAN
  /\ offset' \in Nat /\ segment_time' \in Nat /\ attempts' \in Nat
  /\ frozen' \in BOOLEAN /\ held' \in BOOLEAN
  /\ held' => held \/ inflight = {}
  /\ pc \in Calm \cup {"in_use"} /\ pc' \in Calm
  /\ pc = "idle" => tracing

\* An interval is a set of sectors.
LEMMA IntervalInSectors ==
  ASSUME NEW I \in Interval
  PROVE  /\ In(I) \subseteq Sectors
         /\ I.lower \in Nat /\ I.upper \in Nat /\ I.upper <= NumSectors
<1>1. I.lower \in 0 .. NumSectors /\ I.upper \in 0 .. NumSectors
  BY Zenon DEF Interval
<1> QED BY <1>1, StoreAssumption DEF In, Sectors

\* A sector of an interval lies between its ends.
LEMMA SectorOfInterval ==
  ASSUME NEW I \in Interval, NEW s \in In(I)
  PROVE  /\ s \in Sectors /\ I.lower \in Sectors
         /\ s >= I.lower /\ s < I.upper
         /\ I.lower < I.upper /\ ~(I.lower >= I.upper)
<1>1. I.lower \in 0 .. NumSectors /\ I.upper \in 0 .. NumSectors
  BY Zenon DEF Interval
<1> QED BY <1>1, StoreAssumption DEF In, Sectors

\* Which steps are quiet.
LEMMA QuietSteps ==
  ASSUME TypeOK,
         GetInUseSectorsThrows \/ OpenDevices \/ OpenDevicesThrows
         \/ StartIncremental \/ LeaveCancelled \/ CountUnsynced
         \/ (\E e \in BOOLEAN : BeginFreeze("count_begin", "recount", e))
         \/ RecountUnsynced \/ RunAgain("recount", "count_begin")
         \/ (\E to \in {"exit", "loop"} : AwaitOthers(to)) \/ LeaveDoSync
  PROVE  Quiet
<1> USE DEF Quiet, Calm, Step, copying, freeze
<1>0. [lower |-> 0, upper |-> 0] \in Interval
  BY StoreAssumption DEF Interval
<1>1. CASE GetInUseSectorsThrows
  BY <1>1, Zenon DEF GetInUseSectorsThrows, TypeOK
<1>2. CASE OpenDevices
  BY <1>2, Zenon DEF OpenDevices, TypeOK
<1>3. CASE OpenDevicesThrows
  BY <1>3, Zenon DEF OpenDevicesThrows, TypeOK
<1>4. CASE StartIncremental
  BY <1>4, Zenon DEF StartIncremental, TypeOK
<1>5. CASE LeaveCancelled
  BY <1>0, <1>5, Zenon DEF LeaveCancelled, EndRound, TypeOK
<1>6. CASE CountUnsynced
  BY <1>0, <1>6, Zenon DEF CountUnsynced, AfterCount, EndRound, TypeOK
<1>7. CASE \E e \in BOOLEAN : BeginFreeze("count_begin", "recount", e)
  BY <1>7 DEF BeginFreeze, TypeOK
<1>8. CASE RecountUnsynced
  BY <1>8 DEF RecountUnsynced, AfterCount, TypeOK
<1>9. CASE RunAgain("recount", "count_begin")
  BY <1>9, Zenon DEF RunAgain, TypeOK
<1>10. CASE \E to \in {"exit", "loop"} : AwaitOthers(to)
  BY <1>10 DEF AwaitOthers, TypeOK
<1>11. CASE LeaveDoSync
  BY <1>11, Zenon DEF LeaveDoSync, TypeOK
<1> QED
  BY <1>1, <1>2, <1>3, <1>4, <1>5, <1>6, <1>7, <1>8, <1>9, <1>10, <1>11, Zenon

\* Every step is one of these.
LEMMA StepCases ==
  ASSUME TypeOK, [Next]_vars
  PROVE  \/ \E set \in SUBSET Sectors : QueueWrite(set)
         \/ \E w \in inflight : CompleteWrite(w)
         \/ \E w \in trace_buffer : AddTrace(w) \/ LoseTrace(w)
         \/ Tick \/ Thaw \/ StartFull \/ ClearStore
         \/ (\E e \in BOOLEAN : \E shown \in SUBSET Sectors :
               GetInUseSectors(e, shown))
         \/ SeedStore \/ (\E I \in Selected : GetToSync(I)) \/ RemoveToSync
         \/ (\E e \in BOOLEAN : BeginFreeze("copy_begin", "read", e))
         \/ ReadBlock \/ WriteBlock
         \/ RunAgain("copy_end", "copy_begin") \/ EndCopy
         \/ (\E part \in SUBSET Sectors : Throw(part)) \/ Quiet
         \/ UNCHANGED vars
<1>1. \A I \in Interval : In(I) \in SUBSET Sectors
  BY IntervalInSectors, Zenon
<1>2. CASE FileSystem
  BY <1>1, <1>2, Zenon DEF FileSystem
<1>3. CASE Request
  BY <1>3, QuietSteps, Zenon DEF Request
<1>4. CASE Build
  BY <1>4, QuietSteps, Zenon DEF Build
<1>5. CASE DoSync
  BY <1>5, QuietSteps, Zenon DEF DoSync
<1> QED BY <1>2, <1>3, <1>4, <1>5, Zenon DEF Next

\* What GetInterval hands out: one segment of the map, or nothing.
LEMMA SelectedIsSegment ==
  ASSUME TypeOK, NEW I \in Selected
  PROVE  /\ I \in Interval
         /\ I.lower < I.upper => I \in Segments
<1>1. [lower |-> 0, upper |-> 0] \in Interval
  BY StoreAssumption DEF Interval
<1> QED BY <1>1 DEF Selected, Lowest, Segments

\* The types the arithmetic below needs.
LEMMA Types ==
  ASSUME TypeOK
  PROVE  /\ NumSectors \in Nat /\ VolatileSeconds \in Nat
         /\ SectorsPerBlock \in Nat /\ SectorsPerBlock > 0
         /\ unsynced_sector_map_ \in [Sectors -> Nat]
         /\ epoch \in Nat /\ offset \in Nat /\ segment_time \in Nat
         /\ to_sync \in Interval
         /\ \A w \in inflight : w.set \subseteq Sectors /\ w.queued \in Nat
BY StoreAssumption, SyncAssumption DEF TypeOK, StoreTypeOK, WriteRecord

-----------------------------------------------------------------------------
(* What is still to be copied                                               *)

\* No step loses a write.
LEMMA NextNoLostWrite ==
  ASSUME TypeOK, Timing, Taken, Watched, Filling, Buffered, NoLostWrite,
         [Next]_vars
  PROVE  NoLostWrite'
<1> USE DEF Step, store, device, copying, history, freeze, Accounted, ToCopy,
           Excused, Marked, Pending, CopyStates
<1> SUFFICES ASSUME seeded', NEW s \in Sectors, disk'[s] # dest'[s]
             PROVE  Accounted(s)' \/ Excused(s)'
  BY Zenon DEF NoLostWrite, Excused
<1>1. ASSUME NEW set \in SUBSET Sectors, QueueWrite(set)
             PROVE  Accounted(s)' \/ Excused(s)'
  BY <1>1, Zenon DEF QueueWrite, NoLostWrite
<1>2. ASSUME NEW w \in inflight, CompleteWrite(w)
             PROVE  Accounted(s)' \/ Excused(s)'
  <2>1. CASE s \in w.set
    <3>1. w.queued > 0 /\ w.queued \in Nat /\ unsynced_sector_map_[s] \in Nat
      BY Types, Zenon DEF Timing
    <3>2. Recorded(w, s) => Marked(s) \/ Pending(s) \/ Excused(s)
      BY <2>1, <3>1 DEF Recorded
    <3>3. Recorded(w, s) \/ Excused(s) \/ ToRead(s)
      BY <1>2, <2>1, Zenon DEF Watched, CompleteWrite
    <3>4. ToRead(s) => ToCopy(s)'
      BY <1>2, Zenon DEF ToRead, CompleteWrite
    <3> QED BY <1>2, <3>2, <3>3, <3>4, Zenon DEF CompleteWrite
  <2>2. CASE s \notin w.set
    <3>1. disk'[s] = disk[s]
      BY <1>2, <2>2, Zenon DEF CompleteWrite
    <3> QED BY <1>2, <3>1, Zenon DEF CompleteWrite, NoLostWrite
  <2> QED BY <2>1, <2>2, Zenon
<1>3. ASSUME NEW w \in trace_buffer, AddTrace(w)
             PROVE  Accounted(s)' \/ Excused(s)'
  BY <1>3, StoreAssumption, SyncAssumption
     DEF AddTrace, AddInterval, AddedAt, TypeOK, StoreTypeOK, WriteRecord,
         NoLostWrite
<1>4. ASSUME NEW w \in trace_buffer, LoseTrace(w)
             PROVE  Accounted(s)' \/ Excused(s)'
  BY <1>4, Zenon DEF LoseTrace, NoLostWrite
<1>5. CASE Tick
  BY <1>5, Zenon DEF Tick, NoLostWrite
<1>6. CASE Thaw
  BY <1>6, Zenon DEF Thaw, NoLostWrite
<1>7. CASE StartFull
  BY <1>7, Zenon DEF StartFull, NoLostWrite
<1>8. CASE ClearStore
  BY <1>8, Zenon DEF ClearStore, ClearIntervals
<1>9. ASSUME NEW e \in BOOLEAN, NEW shown \in SUBSET Sectors,
             GetInUseSectors(e, shown)
             PROVE  Accounted(s)' \/ Excused(s)'
  BY <1>9, Zenon DEF GetInUseSectors, Timing
<1>10. CASE SeedStore
  <2>1. disk[s] # 0
    BY <1>10, Zenon DEF SeedStore, Timing
  <2>2. s \in in_use \/ Marked(s) \/ Pending(s) \/ s \in untraced \cup unguarded
    BY <1>10, <2>1, Zenon DEF SeedStore, Filling
  <2>3. unsynced_sector_map_[s] \in Nat
    BY Types, Zenon
  <2>4. s \in in_use \/ Marked(s) => Marked(s)'
    BY <1>10, <2>3 DEF SeedStore, AddNonVolatileInterval, AddedAt
  <2> QED BY <1>10, <2>2, <2>4, Zenon DEF SeedStore
<1>11. ASSUME NEW I \in Selected, GetToSync(I)
             PROVE  Accounted(s)' \/ Excused(s)'
  BY <1>11, Zenon
     DEF GetToSync, GetInterval, IsVolatile, IsVolatileSector, NoLostWrite
<1>12. CASE RemoveToSync
  <2>2. CASE s \in In(to_sync)
    <3>1. s >= to_sync.lower /\ ~(to_sync.lower >= to_sync.upper)
      BY <2>2, SectorOfInterval, Types, Zenon
    <3>2. pc' \in {"copy_begin", "read"}
      BY <1>12, <3>1, Zenon DEF RemoveToSync, NextBlock
    <3>3. ToCopy(s)'
      BY <1>12, <2>2, <3>1, <3>2, Zenon DEF RemoveToSync
    <3> QED BY <3>3, Zenon
  <2>3. CASE s \notin In(to_sync)
    <3>1. Marked(s) \/ Pending(s) \/ Excused(s)
      BY <1>12, <2>3, Zenon DEF RemoveToSync, NoLostWrite
    <3>2. Marked(s) => Marked(s)'
      BY <1>12, <2>3, Zenon DEF RemoveToSync, RemoveInterval, Without
    <3>3. Pending(s) => Pending(s)'
      BY <1>12, Zenon DEF RemoveToSync
    <3>4. Excused(s) => Excused(s)'
      BY <1>12, <2>3, Zenon DEF RemoveToSync
    <3> QED BY <3>1, <3>2, <3>3, <3>4, Zenon
  <2> QED BY <2>2, <2>3, Zenon
<1>13. CASE \E e \in BOOLEAN : BeginFreeze("copy_begin", "read", e)
  BY <1>13, Zenon DEF BeginFreeze, NoLostWrite
<1>14. CASE ReadBlock
  <2>1. Marked(s) \/ Pending(s) \/ ToCopy(s) \/ Excused(s)
    BY <1>14, Zenon DEF ReadBlock, NoLostWrite
  <2>3. s \in Block => buf'[s] = disk[s] /\ s >= offset
    BY <1>14 DEF ReadBlock, Block
  <2>2. CASE ToCopy(s)
    <3>1. s \in Block \/ s >= offset + SectorsPerBlock
      BY <1>14, <2>2, Types DEF ReadBlock, Block, Sectors
    <3> QED BY <1>14, <2>2, <2>3, <3>1, Zenon DEF ReadBlock
  <2>4. CASE s \in unguarded
    BY <1>14, <2>3, <2>4, Zenon DEF ReadBlock
  <2>5. CASE Marked(s) \/ Pending(s) \/ s \in raced \cup dropped \cup untraced
    BY <1>14, <2>5, Zenon DEF ReadBlock
  <2> QED BY <2>1, <2>2, <2>4, <2>5, Zenon
<1>15. CASE WriteBlock
  <2>1. /\ pc = "write"
        /\ UNCHANGED <<store, device, to_sync, is_volatile, freeze, history>>
    BY <1>15, Zenon DEF WriteBlock
  <2>2. CASE s \in Block
    <3>1. dest'[s] = buf[s]
      BY <1>15, <2>2, Zenon DEF WriteBlock, Written
    <3>2. \/ Marked(s) \/ Pending(s) \/ Excused(s)
          \/ (s \in In(to_sync) /\ is_volatile /\ ~frozen)
      BY <2>1, <2>2, <3>1, Zenon DEF Buffered
    <3>3. CASE s \in In(to_sync) /\ is_volatile /\ ~frozen
      <4>1. s >= offset
        BY <2>2 DEF Block
      <4>2. pc' = "copy_end" /\ offset' = offset
        BY <1>15, <3>3, Zenon DEF WriteBlock
      <4> QED BY <2>1, <3>3, <4>1, <4>2, Zenon
    <3> QED BY <2>1, <3>2, <3>3, Zenon
  <2>3. CASE s \notin Block
    <3>1. dest'[s] = dest[s]
      BY <1>15, <2>3, Zenon DEF WriteBlock, Written
    <3>2. Marked(s) \/ Pending(s) \/ ToCopy(s) \/ Excused(s)
      BY <2>1, <3>1, Zenon DEF NoLostWrite
    <3>3. CASE ToCopy(s)
      <4>1. s \in In(to_sync) /\ s >= offset + SectorsPerBlock
        BY <2>3, <3>3, Types DEF Block, Sectors
      <4>2. s < to_sync.upper /\ to_sync.upper \in Nat /\ s \in Nat
        BY <4>1, SectorOfInterval, IntervalInSectors, Types DEF Sectors
      <4>3. ~(offset + SectorsPerBlock >= to_sync.upper)
        BY <4>1, <4>2, Types
      <4>4. CASE is_volatile
        BY <1>15, <4>1, <4>4, Zenon DEF WriteBlock
      <4>5. CASE ~is_volatile
        <5>1. pc' = "read" /\ offset' = offset + SectorsPerBlock
          BY <1>15, <4>3, <4>5, Zenon DEF WriteBlock, NextBlock
        <5> QED BY <2>1, <4>1, <5>1, Zenon
      <4> QED BY <4>4, <4>5, Zenon
    <3> QED BY <2>1, <3>2, <3>3, Zenon
  <2> QED BY <2>2, <2>3, Zenon
<1>16. CASE RunAgain("copy_end", "copy_begin")
  BY <1>16, Zenon DEF RunAgain, NoLostWrite
<1>17. CASE EndCopy
  <2>1. /\ pc = "copy_end" /\ frozen
        /\ UNCHANGED <<store, device, to_sync, dest, history>>
    BY <1>17, Zenon DEF EndCopy
  <2>2. Marked(s) \/ Pending(s) \/ ToCopy(s) \/ Excused(s)
    BY <2>1, Zenon DEF NoLostWrite
  <2>3. CASE ToCopy(s)
    <3>1. s \in In(to_sync) /\ s >= offset + SectorsPerBlock
      BY <2>1, <2>3, Zenon
    <3>2. s < to_sync.upper /\ to_sync.upper \in Nat /\ s \in Nat
      BY <3>1, SectorOfInterval, IntervalInSectors, Types DEF Sectors
    <3>3. ~(offset + SectorsPerBlock >= to_sync.upper)
      BY <3>1, <3>2, Types
    <3>4. pc' \in {"read", "copy_begin"} /\ offset' = offset + SectorsPerBlock
      BY <1>17, <3>3, Zenon DEF EndCopy, NextBlock
    <3> QED BY <2>1, <3>1, <3>4, Zenon
  <2> QED BY <2>1, <2>2, <2>3, Zenon
<1>18. ASSUME NEW part \in SUBSET Sectors, Throw(part)
             PROVE  Accounted(s)' \/ Excused(s)'
  <2>1. UNCHANGED <<store, device, raced, untraced, unguarded, seeded>>
    BY <1>18, Zenon DEF Throw
  <2>2. dropped \subseteq dropped'
    BY <1>18, Zenon DEF Throw
  <2>3. CASE s \in part
    <3>1. pc = "write" /\ s \in Block /\ dest'[s] = buf[s]
      BY <1>18, <2>3, Zenon DEF Throw, Written
    <3>2. Marked(s) \/ Pending(s) \/ Excused(s) \/ s \in In(to_sync)
      BY <2>1, <3>1, Zenon DEF Buffered
    <3>3. s >= offset
      BY <3>1 DEF Block
    <3>4. s \in In(to_sync) => s \in dropped'
      BY <1>18, <3>1, <3>3, Zenon DEF Throw
    <3> QED BY <2>1, <2>2, <3>2, <3>4, Zenon
  <2>4. CASE s \notin part
    <3>1. dest'[s] = dest[s]
      BY <1>18, <2>4, Zenon DEF Throw, Written
    <3>2. Marked(s) \/ Pending(s) \/ ToCopy(s) \/ Excused(s)
      BY <2>1, <3>1, Zenon DEF NoLostWrite
    <3>3. ToCopy(s) => pc \in CopyStates /\ s \in In(to_sync) /\ s >= offset
      BY Types DEF Sectors
    <3>4. ToCopy(s) => s \in dropped'
      BY <1>18, <3>3, Zenon DEF Throw
    <3> QED BY <2>1, <2>2, <3>2, <3>4, Zenon
  <2> QED BY <2>3, <2>4, Zenon
<1>19. CASE Quiet
  BY <1>19, Zenon DEF Quiet, Calm, NoLostWrite
<1>20. CASE UNCHANGED vars
  BY <1>20, Zenon DEF vars, NoLostWrite
<1> QED
  BY StepCases, <1>1, <1>2, <1>3, <1>4, <1>5, <1>6, <1>7, <1>8, <1>9, <1>10,
     <1>11, <1>12, <1>13, <1>14, <1>15, <1>16, <1>17, <1>18, <1>19, <1>20,
     Zenon

\* Nothing is missed between the bitmaps and the store, a buffer goes stale
\* only by a write that has been recorded, and a frozen copy stays exact until
\* it is accepted.
LEMMA NextCopying ==
  ASSUME TypeOK, Timing, Watched, Filling, Buffered, FrozenCopyExact, [Next]_vars
  PROVE  Filling' /\ Buffered' /\ FrozenCopyExact'
<1> USE DEF Step, store, device, copying, history, freeze, Recorded, Excused,
           Marked, Pending, Block
<1>1. ASSUME NEW set \in SUBSET Sectors, QueueWrite(set)
      PROVE  Filling' /\ Buffered' /\ FrozenCopyExact'
  BY <1>1, StoreAssumption, SyncAssumption, Zenon
     DEF QueueWrite, TypeOK, StoreTypeOK, WriteRecord, Filling, Buffered,
         FrozenCopyExact
<1>2. ASSUME NEW w \in inflight, CompleteWrite(w)
      PROVE  Filling' /\ Buffered' /\ FrozenCopyExact'
  <2>1. /\ UNCHANGED <<store, trace_buffer, dest, freeze, pc, copying, history>>
        /\ ~held
    BY <1>2, Zenon DEF CompleteWrite, Timing
  <2>2. \A s \in Sectors : s \notin w.set => disk'[s] = disk[s]
    BY <1>2, Zenon DEF CompleteWrite
  <2>3. ASSUME NEW s \in Sectors, s \in w.set, Recorded(w, s)
        PROVE  Marked(s) \/ Pending(s) \/ s \in untraced \cup unguarded
    <3>1. w.queued > 0 /\ w.queued \in Nat /\ unsynced_sector_map_[s] \in Nat
      BY <2>3, Types, Zenon DEF Timing
    <3> QED BY <2>3, <3>1
  <2>4. Filling'
    <3> SUFFICES ASSUME pc = "seed", NEW s \in Sectors, disk'[s] # 0
                 PROVE  s \in in_use \/ Marked(s) \/ Pending(s)
                        \/ s \in untraced \cup unguarded
      BY <2>1, Zenon DEF Filling
    <3>1. CASE s \in w.set
      BY <2>3, <3>1, Zenon DEF Watched
    <3>2. CASE s \notin w.set
      BY <2>2, <3>2, Zenon DEF Filling
    <3> QED BY <3>1, <3>2, Zenon
  <2>5. Buffered'
    <3> SUFFICES ASSUME pc = "write", NEW s \in Block \cap Sectors,
                        buf[s] # disk'[s], seeded
                 PROVE  \/ Marked(s) \/ Pending(s) \/ Excused(s)
                        \/ (s \in In(to_sync) /\ is_volatile /\ ~frozen)
      BY <2>1, Zenon DEF Buffered
    <3>1. CASE s \in w.set
      <4>1. Recorded(w, s) \/ Excused(s) \/ ToRead(s)
        BY <3>1, Zenon DEF Watched
      <4>2. ToRead(s) => s \in In(to_sync) /\ is_volatile /\ ~frozen
        BY Types DEF ToRead, Sectors
      <4> QED BY <2>3, <3>1, <4>1, <4>2, Zenon
    <3>2. CASE s \notin w.set
      BY <2>2, <3>2, Zenon DEF Buffered
    <3> QED BY <3>1, <3>2, Zenon
  <2>6. FrozenCopyExact'
    BY <2>1, Zenon DEF FrozenCopyExact
  <2> QED BY <2>4, <2>5, <2>6, Zenon
<1>3. ASSUME NEW w \in trace_buffer, AddTrace(w)
      PROVE  Filling' /\ Buffered' /\ FrozenCopyExact'
  BY <1>3, StoreAssumption, SyncAssumption
     DEF AddTrace, AddInterval, AddedAt, TypeOK, StoreTypeOK, WriteRecord,
         Filling, Buffered, FrozenCopyExact
<1>4. ASSUME NEW w \in trace_buffer, LoseTrace(w)
      PROVE  Filling' /\ Buffered' /\ FrozenCopyExact'
  BY <1>4, Zenon DEF LoseTrace, Filling, Buffered, FrozenCopyExact
<1>5. CASE Tick
  BY <1>5, Zenon DEF Tick, Filling, Buffered, FrozenCopyExact
<1>6. CASE Thaw
  BY <1>6, Zenon DEF Thaw, Filling, Buffered, FrozenCopyExact
<1>7. CASE StartFull
  BY <1>7, Zenon DEF StartFull, Filling, Buffered, FrozenCopyExact
<1>8. CASE ClearStore
  BY <1>8, Zenon
     DEF ClearStore, ClearIntervals, Filling, Buffered, FrozenCopyExact
<1>9. ASSUME NEW e \in BOOLEAN, NEW shown \in SUBSET Sectors,
             GetInUseSectors(e, shown)
      PROVE  Filling' /\ Buffered' /\ FrozenCopyExact'
  BY <1>9, Zenon DEF GetInUseSectors, Filling, Buffered, FrozenCopyExact
<1>10. CASE SeedStore
  BY <1>10, Zenon
     DEF SeedStore, AddNonVolatileInterval, AddedAt, Filling, Buffered,
         FrozenCopyExact
<1>11. ASSUME NEW I \in Selected, GetToSync(I)
      PROVE  Filling' /\ Buffered' /\ FrozenCopyExact'
  BY <1>11, Zenon
     DEF GetToSync, GetInterval, IsVolatile, IsVolatileSector, Filling,
         Buffered, FrozenCopyExact
<1>12. CASE RemoveToSync
  BY <1>12, Zenon
     DEF RemoveToSync, RemoveInterval, Without, NextBlock, Filling, Buffered,
         FrozenCopyExact
<1>13. CASE \E e \in BOOLEAN : BeginFreeze("copy_begin", "read", e)
  BY <1>13, Zenon DEF BeginFreeze, Filling, Buffered, FrozenCopyExact
<1>14. CASE ReadBlock
  BY <1>14, StoreAssumption, SyncAssumption, Zenon
     DEF ReadBlock, TypeOK, StoreTypeOK, WriteRecord, Filling, Buffered,
         FrozenCopyExact
<1>15. CASE WriteBlock
  <2>1. Filling'
    BY <1>15, Zenon DEF WriteBlock, Written, NextBlock, Filling
  <2>2. Buffered'
    BY <1>15, Zenon DEF WriteBlock, Written, NextBlock, Buffered
  <2>3. FrozenCopyExact'
    <3> SUFFICES ASSUME pc' = "copy_end", held', NEW s \in Block' \cap Sectors
                 PROVE  dest'[s] = disk'[s]
      BY Zenon DEF FrozenCopyExact
    <3>1. is_volatile
      BY <1>15, Zenon DEF WriteBlock, NextBlock
    <3>2. s \in Block /\ dest'[s] = buf[s]
      BY <1>15, <3>1, Zenon DEF WriteBlock, Written
    <3>3. buf[s] = disk[s]
      BY <1>15, <3>2, Zenon DEF WriteBlock, Buffered
    <3> QED BY <1>15, <3>2, <3>3, Zenon DEF WriteBlock
  <2> QED BY <2>1, <2>2, <2>3, Zenon
<1>16. CASE RunAgain("copy_end", "copy_begin")
  BY <1>16, Zenon DEF RunAgain, Filling, Buffered, FrozenCopyExact
<1>17. CASE EndCopy
  BY <1>17, Zenon DEF EndCopy, NextBlock, Filling, Buffered, FrozenCopyExact
<1>18. ASSUME NEW part \in SUBSET Sectors, Throw(part)
      PROVE  Filling' /\ Buffered' /\ FrozenCopyExact'
  BY <1>18, Zenon DEF Throw, Written, Filling, Buffered, FrozenCopyExact
<1>19. CASE Quiet
  BY <1>19, Zenon DEF Quiet, Calm, Filling, Buffered, FrozenCopyExact
<1>20. CASE UNCHANGED vars
  BY <1>20, Zenon DEF vars, Filling, Buffered, FrozenCopyExact
<1> QED
  BY StepCases, <1>1, <1>2, <1>3, <1>4, <1>5, <1>6, <1>7, <1>8, <1>9, <1>10,
     <1>11, <1>12, <1>13, <1>14, <1>15, <1>16, <1>17, <1>18, <1>19, <1>20,
     Zenon

-----------------------------------------------------------------------------
(* The writes in flight, the clock and the types                            *)

\* A write in flight stays recorded, or will be read under a freeze.
LEMMA NextWatched ==
  ASSUME TypeOK, Timing, Taken, Watched, [Next]_vars
  PROVE  Watched'
<1> USE DEF Step, store, device, copying, history, freeze, Recorded, Excused,
           Marked, Pending, ToRead, CopyStates
<1>1. ASSUME NEW set \in SUBSET Sectors, QueueWrite(set) PROVE Watched'
  BY <1>1, StoreAssumption, SyncAssumption, Zenon
     DEF QueueWrite, TypeOK, StoreTypeOK, WriteRecord, Timing, Watched
<1>2. ASSUME NEW w \in inflight, CompleteWrite(w) PROVE Watched'
  BY <1>2, Zenon DEF CompleteWrite, Watched
<1>3. ASSUME NEW w \in trace_buffer, AddTrace(w) PROVE Watched'
  BY <1>3, StoreAssumption, SyncAssumption
     DEF AddTrace, AddInterval, AddedAt, TypeOK, StoreTypeOK, WriteRecord,
         Timing, Watched
<1>4. ASSUME NEW w \in trace_buffer, LoseTrace(w) PROVE Watched'
  BY <1>4, Zenon DEF LoseTrace, Watched
<1>5. CASE Tick
  BY <1>5, Zenon DEF Tick, Watched
<1>6. CASE Thaw
  BY <1>6, Zenon DEF Thaw, Watched
<1>7. CASE StartFull
  BY <1>7, Zenon DEF StartFull, Watched
<1>8. CASE ClearStore
  BY <1>8, Zenon DEF ClearStore, ClearIntervals, Watched
<1>9. ASSUME NEW e \in BOOLEAN, NEW shown \in SUBSET Sectors,
             GetInUseSectors(e, shown)
      PROVE  Watched'
  <2>1. \A w \in inflight : \A s \in w.set : s \in unguarded'
    BY <1>9, Types, Zenon DEF GetInUseSectors, InFlight
  <2>2. inflight' = inflight /\ seeded' = seeded
    BY <1>9, Zenon DEF GetInUseSectors
  <2> QED BY <2>1, <2>2, Zenon DEF Watched
<1>10. CASE SeedStore
  BY <1>10, StoreAssumption, SyncAssumption
     DEF SeedStore, AddNonVolatileInterval, AddedAt, TypeOK, StoreTypeOK,
         WriteRecord, Watched
<1>11. ASSUME NEW I \in Selected, GetToSync(I) PROVE Watched'
  BY <1>11, Zenon
     DEF GetToSync, GetInterval, IsVolatile, IsVolatileSector, Watched
<1>12. CASE RemoveToSync
  <2> SUFFICES ASSUME NEW w \in inflight, NEW s \in w.set, seeded
               PROVE  \/ Recorded(w, s)'
                      \/ /\ ~Marked(s)'
                         /\ Excused(s)' \/ ToRead(s)'
    BY <1>12, Zenon DEF RemoveToSync, RemoveInterval, NextBlock, Watched
  <2>1. s \in Sectors /\ InFlight(s)
    BY Types, Zenon DEF InFlight
  <2>2. pc = "remove" /\ trace_buffer' = trace_buffer
    BY <1>12, Zenon DEF RemoveToSync
  <2>3. CASE s \notin In(to_sync)
    <3>1. unsynced_sector_map_'[s] = unsynced_sector_map_[s]
      BY <1>12, <2>1, <2>3, Zenon DEF RemoveToSync, RemoveInterval, Without
    <3>2. /\ s \in untraced => s \in untraced'
          /\ s \in unguarded => s \in unguarded'
          /\ s \in raced => s \in raced'
          /\ s \in dropped => s \in dropped'
      BY <1>12, <2>3, Zenon DEF RemoveToSync
    <3> QED BY <2>2, <3>1, <3>2, Zenon DEF Watched
  <2>4. CASE s \in In(to_sync)
    <3>1. unsynced_sector_map_'[s] = 0
      BY <1>12, <2>1, <2>4, Zenon DEF RemoveToSync, RemoveInterval, Without
    <3>2. s \in untraced \cup unguarded => s \in untraced' \cup unguarded'
      BY <1>12, <2>1, Zenon DEF RemoveToSync
    <3>3. /\ unsynced_sector_map_[s] >= segment_time /\ segment_time > 0
          /\ is_volatile \/ segment_time + VolatileSeconds <= epoch
      BY <2>2, <2>4, Zenon DEF Taken
    <3>4. Recorded(w, s)
      BY <2>1, <2>2, <3>3, Types DEF Watched
    <3>5. CASE unsynced_sector_map_[s] >= w.queued /\ is_volatile
      <4>1. s >= to_sync.lower /\ ~(to_sync.lower >= to_sync.upper)
        BY <2>4, SectorOfInterval, Types, Zenon
      <4> QED BY <1>12, <2>4, <3>1, <3>5, <4>1, Zenon
                 DEF RemoveToSync, NextBlock
    <3>6. CASE unsynced_sector_map_[s] >= w.queued /\ ~is_volatile
      <4>1. unsynced_sector_map_[s] \in Nat /\ w.queued \in Nat
            /\ epoch < w.queued + VolatileSeconds
        BY <2>1, Types, Zenon DEF Timing
      <4>2. unsynced_sector_map_[s] > segment_time
        BY <3>3, <3>6, <4>1, Types
      <4>3. s \in raced'
        BY <1>12, <2>1, <2>4, <3>6, <4>2, Zenon DEF RemoveToSync
      <4> QED BY <3>1, <4>3, Zenon
    <3> QED BY <2>2, <3>2, <3>4, <3>5, <3>6, Zenon
  <2> QED BY <2>3, <2>4, Zenon
<1>13. CASE \E e \in BOOLEAN : BeginFreeze("copy_begin", "read", e)
  <2>1. /\ pc = "copy_begin" /\ pc' = "read"
        /\ UNCHANGED <<store, device, dest, copying, history>>
    BY <1>13, Zenon DEF BeginFreeze
  <2> QED BY <2>1, Zenon DEF Watched
<1>14. CASE ReadBlock
  <2> SUFFICES ASSUME NEW w \in inflight, NEW s \in w.set, seeded
               PROVE  Recorded(w, s)' \/ (~Marked(s)' /\ (Excused(s)' \/ ToRead(s)'))
    BY <1>14, Zenon DEF ReadBlock, Watched
  <2>1. s \in Sectors /\ InFlight(s)
    BY Types, Zenon DEF InFlight
  <2>2. s \in unguarded => s \in unguarded'
    BY <1>14, <2>1, Zenon DEF ReadBlock
  <2>3. CASE ToRead(s) /\ ~Marked(s) /\ ~Pending(s)
    <3>1. s \in Block \/ s >= offset + SectorsPerBlock
      BY <2>1, <2>3, Types DEF Block, Sectors
    <3>2. s \in Block /\ frozen => s \in unguarded'
      BY <1>14, <2>1, <2>3, Zenon DEF ReadBlock
    <3>3. ~frozen \/ s >= offset + SectorsPerBlock => ToRead(s)'
      BY <1>14, <2>3, <3>1, Types DEF ReadBlock, Block
    <3> QED BY <1>14, <2>3, <3>1, <3>2, <3>3, Zenon DEF ReadBlock
  <2>4. Recorded(w, s) \/ (~Marked(s) /\ (Excused(s) \/ ToRead(s)))
    BY Zenon DEF Watched
  <2> QED BY <1>14, <2>2, <2>3, <2>4, Zenon DEF ReadBlock
<1>15. CASE WriteBlock
  BY <1>15, Types DEF WriteBlock, Written, NextBlock, Watched
<1>16. CASE RunAgain("copy_end", "copy_begin")
  BY <1>16, Zenon DEF RunAgain, Watched
<1>17. CASE EndCopy
  <2> SUFFICES ASSUME NEW w \in inflight, NEW s \in w.set, seeded
               PROVE  Recorded(w, s)' \/ (~Marked(s)' /\ (Excused(s)' \/ ToRead(s)'))
    BY <1>17, Zenon DEF EndCopy, NextBlock, Watched
  <2>1. Recorded(w, s) \/ (~Marked(s) /\ (Excused(s) \/ ToRead(s)))
    BY Zenon DEF Watched
  <2>2. CASE ToRead(s)
    <3>1. s \in In(to_sync) /\ s >= offset + SectorsPerBlock
      BY <1>17, <2>2, Zenon DEF EndCopy
    <3>2. s < to_sync.upper /\ to_sync.upper \in Nat /\ s \in Nat
      BY <3>1, SectorOfInterval, IntervalInSectors, Types DEF Sectors
    <3>3. ~(offset + SectorsPerBlock >= to_sync.upper)
      BY <3>1, <3>2, Types
    <3>4. pc' = "copy_begin" /\ offset' = offset + SectorsPerBlock
      BY <1>17, <2>2, <3>3, Zenon DEF EndCopy, NextBlock
    <3>5. ToRead(s)'
      BY <1>17, <2>2, <3>1, <3>4, Zenon DEF EndCopy
    <3> QED BY <1>17, <2>1, <3>5, Zenon DEF EndCopy
  <2> QED BY <1>17, <2>1, <2>2, Zenon DEF EndCopy
<1>18. ASSUME NEW part \in SUBSET Sectors, Throw(part) PROVE Watched'
  <2>1. /\ pc' = "exit" /\ UNCHANGED <<store, device, raced>>
        /\ UNCHANGED <<seeded, untraced, unguarded>>
    BY <1>18, Zenon DEF Throw
  <2>2. dropped \subseteq dropped'
    BY <1>18, Zenon DEF Throw
  <2>3. \A s \in Sectors : ToRead(s) => s >= offset
    BY Types DEF Sectors
  <2>4. \A s \in Sectors : ToRead(s) => s \in dropped'
    BY <1>18, <2>3, Zenon DEF Throw
  <2>5. \A w \in inflight : w.set \subseteq Sectors
    BY Types, Zenon
  <2> QED BY <2>1, <2>2, <2>4, <2>5, Zenon DEF Watched
<1>19. CASE Quiet
  BY <1>19 DEF Quiet, Calm, Watched
<1>20. CASE UNCHANGED vars
  BY <1>20, Zenon DEF vars, Watched
<1> QED
  BY StepCases, <1>1, <1>2, <1>3, <1>4, <1>5, <1>6, <1>7, <1>8, <1>9, <1>10,
     <1>11, <1>12, <1>13, <1>14, <1>15, <1>16, <1>17, <1>18, <1>19, <1>20,
     Zenon

\* Time, freezes and the tracer go together in every step, and an interval
\* that has been handed out stays marked until it is removed.
LEMMA NextTiming ==
  ASSUME TypeOK, Timing, Taken, [Next]_vars
  PROVE  Timing' /\ Taken'
<1> USE DEF Step, store, device, copying, history, freeze
<1>1. ASSUME NEW set \in SUBSET Sectors, QueueWrite(set)
      PROVE  Timing' /\ Taken'
  BY <1>1, StoreAssumption, SyncAssumption
     DEF QueueWrite, TypeOK, StoreTypeOK, WriteRecord, Timing, Taken
<1>2. ASSUME NEW w \in inflight, CompleteWrite(w) PROVE Timing' /\ Taken'
  BY <1>2, StoreAssumption, SyncAssumption
     DEF CompleteWrite, TypeOK, StoreTypeOK, WriteRecord, Timing, Taken
<1>3. ASSUME NEW w \in trace_buffer, AddTrace(w) PROVE Timing' /\ Taken'
  BY <1>3, IntervalInSectors, StoreAssumption, SyncAssumption
     DEF AddTrace, AddInterval, AddedAt, TypeOK, StoreTypeOK, WriteRecord,
         Timing, Taken
<1>4. ASSUME NEW w \in trace_buffer, LoseTrace(w) PROVE Timing' /\ Taken'
  BY <1>4, Zenon DEF LoseTrace, Timing, Taken
<1>5. CASE Tick
  BY <1>5, StoreAssumption, SyncAssumption
     DEF Tick, TypeOK, StoreTypeOK, WriteRecord, Timing, Taken
<1>6. CASE Thaw
  BY <1>6, Zenon DEF Thaw, Timing, Taken
<1>7. CASE StartFull
  BY <1>7, Zenon DEF StartFull, Timing, Taken
<1>8. CASE ClearStore
  BY <1>8, Zenon DEF ClearStore, ClearIntervals, Timing, Taken
<1>9. ASSUME NEW e \in BOOLEAN, NEW shown \in SUBSET Sectors,
             GetInUseSectors(e, shown)
      PROVE  Timing' /\ Taken'
  BY <1>9, Zenon DEF GetInUseSectors, Timing, Taken
<1>10. CASE SeedStore
  BY <1>10, Zenon DEF SeedStore, AddNonVolatileInterval, AddedAt, Timing, Taken
<1>11. ASSUME NEW I \in Selected, GetToSync(I) PROVE Timing' /\ Taken'
  <2>1. Timing'
    BY <1>11, Zenon
       DEF GetToSync, GetInterval, IsVolatile, IsVolatileSector, Timing
  <2>2. Taken'
    <3>1. I \in Interval /\ (I.lower < I.upper => I \in Segments)
      BY SelectedIsSegment, Zenon
    <3> SUFFICES ASSUME NEW s \in In(I)
          PROVE  /\ unsynced_sector_map_[s] >= segment_time' /\ segment_time' > 0
                 /\ is_volatile' \/ segment_time' + VolatileSeconds <= epoch
      BY <1>11, Zenon DEF GetToSync, GetInterval, Taken
    <3>2. I.lower < I.upper /\ s \in Sectors /\ I.lower \in Sectors
      BY <3>1, SectorOfInterval, Zenon
    <3>3. unsynced_sector_map_[s] = unsynced_sector_map_[I.lower]
          /\ unsynced_sector_map_[I.lower] # 0
      BY <3>1, <3>2, Zenon DEF Segments, Marked
    <3>4. segment_time' = unsynced_sector_map_[I.lower]
      BY <1>11, <3>2, Zenon DEF GetToSync
    <3>5. unsynced_sector_map_[I.lower] \in Nat
      BY <3>2, Types, Zenon
    <3>6. is_volatile' <=> unsynced_sector_map_[I.lower] > epoch - VolatileSeconds
      BY ONLY <1>11, <3>2, Zenon DEF GetToSync, IsVolatile, IsVolatileSector
    <3>7. is_volatile' \/ segment_time' + VolatileSeconds <= epoch
      BY <3>4, <3>5, <3>6, Types
    <3> QED BY <3>3, <3>4, <3>5, <3>7
  <2> QED BY <2>1, <2>2, Zenon
<1>12. CASE RemoveToSync
  BY <1>12, Zenon
     DEF RemoveToSync, RemoveInterval, Without, NextBlock, Timing, Taken
<1>13. CASE \E e \in BOOLEAN : BeginFreeze("copy_begin", "read", e)
  BY <1>13 DEF BeginFreeze, Timing, Taken
<1>14. CASE ReadBlock
  BY <1>14, Zenon DEF ReadBlock, Timing, Taken
<1>15. CASE WriteBlock
  BY <1>15, Zenon DEF WriteBlock, Written, NextBlock, Timing, Taken
<1>16. CASE RunAgain("copy_end", "copy_begin")
  BY <1>16, Zenon DEF RunAgain, Timing, Taken
<1>17. CASE EndCopy
  BY <1>17, Zenon DEF EndCopy, NextBlock, Timing, Taken
<1>18. ASSUME NEW part \in SUBSET Sectors, Throw(part) PROVE Timing' /\ Taken'
  <2>1. Timing'
    <3>1. \A s \in Sectors : buf'[s] = 0 /\ dest'[s] \in {buf[s], dest[s]}
      BY <1>18, Zenon DEF Throw, Written
    <3> QED BY <1>18, <3>1, Zenon DEF Throw, ThrowCause, Timing
  <2>2. Taken'
    BY <1>18, Zenon DEF Throw, Written, Taken
  <2> QED BY <2>1, <2>2, Zenon
<1>19. CASE Quiet
  BY <1>19, Zenon DEF Quiet, Calm, Timing, Taken
<1>20. CASE UNCHANGED vars
  BY <1>20, Zenon DEF vars, Timing, Taken
<1> QED
  BY StepCases, <1>1, <1>2, <1>3, <1>4, <1>5, <1>6, <1>7, <1>8, <1>9, <1>10,
     <1>11, <1>12, <1>13, <1>14, <1>15, <1>16, <1>17, <1>18, <1>19, <1>20,
     Zenon

\* Every step keeps the types.
LEMMA NextTypes ==
  ASSUME TypeOK, [Next]_vars
  PROVE  TypeOK'
<1> USE StoreAssumption, SyncAssumption
       DEF StoreTypeOK, WriteRecord, BuildStates, CopyStates, SyncStates, Step,
           store, device, copying, history, freeze
<1>1. ASSUME NEW set \in SUBSET Sectors, QueueWrite(set) PROVE TypeOK'
  BY <1>1 DEF QueueWrite, TypeOK
<1>2. ASSUME NEW w \in inflight, CompleteWrite(w) PROVE TypeOK'
  BY <1>2, ZenonT(30) DEF CompleteWrite, TypeOK
<1>3. ASSUME NEW w \in trace_buffer, AddTrace(w) PROVE TypeOK'
  BY <1>3, ZenonT(60) DEF AddTrace, AddInterval, AddedAt, TypeOK
<1>4. ASSUME NEW w \in trace_buffer, LoseTrace(w) PROVE TypeOK'
  BY <1>4, ZenonT(60) DEF LoseTrace, TypeOK
<1>5. CASE Tick
  BY <1>5 DEF Tick, TypeOK
<1>6. CASE Thaw
  BY <1>6, ZenonT(30) DEF Thaw, TypeOK
<1>7. CASE StartFull
  BY <1>7, Zenon DEF StartFull, TypeOK
<1>8. CASE ClearStore
  BY <1>8, Zenon DEF ClearStore, ClearIntervals, TypeOK
<1>9. ASSUME NEW e \in BOOLEAN, NEW shown \in SUBSET Sectors,
             GetInUseSectors(e, shown)
      PROVE  TypeOK'
  BY <1>9, Zenon DEF GetInUseSectors, TypeOK
<1>10. CASE SeedStore
  BY <1>10, Zenon DEF SeedStore, AddNonVolatileInterval, AddedAt, TypeOK
<1>11. ASSUME NEW I \in Selected, GetToSync(I) PROVE TypeOK'
  <2>1. I \in Interval
    BY SelectedIsSegment, Zenon
  <2>2. I.upper \in 0 .. NumSectors
        /\ (I.lower < I.upper => I.lower \in Sectors)
    BY <2>1 DEF Interval, Sectors
  <2>3. segment_time' \in Nat
    BY <1>11, <2>2, Zenon DEF GetToSync, TypeOK
  <2>4. is_volatile' \in BOOLEAN
    BY <1>11, Zenon DEF GetToSync, IsVolatile
  <2> QED BY <1>11, <2>1, <2>2, <2>3, <2>4, Zenon
             DEF GetToSync, GetInterval, TypeOK
<1>12. CASE RemoveToSync
  <2>1. In(to_sync) \subseteq Sectors /\ to_sync.lower \in Nat
    BY IntervalInSectors, Zenon DEF TypeOK
  <2>2. unsynced_sector_map_' \in [Sectors -> Nat]
    BY <1>12, Zenon DEF RemoveToSync, RemoveInterval, Without, TypeOK
  <2>3. pc' \in {"loop", "copy_begin", "read"}
    BY <1>12, Zenon DEF RemoveToSync, NextBlock
  <2>4. raced' \subseteq Sectors /\ dropped' \subseteq Sectors
        /\ untraced' \subseteq Sectors
    BY <1>12, <2>1, Zenon DEF RemoveToSync, TypeOK
  <2> QED BY <1>12, <2>1, <2>2, <2>3, <2>4, Zenon
             DEF RemoveToSync, RemoveInterval, TypeOK
<1>13. CASE \E e \in BOOLEAN : BeginFreeze("copy_begin", "read", e)
  BY <1>13 DEF BeginFreeze, TypeOK
<1>14. CASE ReadBlock
  <2>1. In(to_sync) \subseteq Sectors
    BY IntervalInSectors, Zenon DEF TypeOK
  <2>2. unguarded' \subseteq Sectors
    BY <1>14, <2>1, Zenon DEF ReadBlock, TypeOK
  <2> QED BY <1>14, <2>2, Zenon DEF ReadBlock, TypeOK
<1>15. CASE WriteBlock
  BY <1>15 DEF WriteBlock, Written, NextBlock, TypeOK
<1>16. CASE RunAgain("copy_end", "copy_begin")
  BY <1>16, Zenon DEF RunAgain, TypeOK
<1>17. CASE EndCopy
  BY <1>17 DEF EndCopy, NextBlock, TypeOK
<1>18. ASSUME NEW part \in SUBSET Sectors, Throw(part) PROVE TypeOK'
  <2>1. In(to_sync) \subseteq Sectors
    BY IntervalInSectors, Zenon DEF TypeOK
  <2>2. dest' \in [Sectors -> Nat] /\ dropped' \subseteq Sectors
    BY <1>18, <2>1, Zenon DEF Throw, Written, TypeOK
  <2>3. [lower |-> 0, upper |-> 0] \in Interval
    BY DEF Interval
  <2> QED BY <1>18, <2>2, <2>3, Zenon DEF Throw, EndRound, TypeOK
<1>19. CASE Quiet
  BY <1>19, ZenonT(30) DEF Quiet, Calm, TypeOK
<1>20. CASE UNCHANGED vars
  BY <1>20 DEF vars, TypeOK
<1> QED
  BY StepCases, <1>1, <1>2, <1>3, <1>4, <1>5, <1>6, <1>7, <1>8, <1>9, <1>10,
     <1>11, <1>12, <1>13, <1>14, <1>15, <1>16, <1>17, <1>18, <1>19, <1>20,
     Zenon

\* All of it holds before the first backup.
LEMMA InitIInv == Init => IInv
<1> SUFFICES ASSUME Init PROVE IInv
  BY Zenon
<1> USE StoreAssumption, SyncAssumption DEF Init, StoreInit
<1>1. TypeOK
  <2>1. 0 \in 0 .. NumSectors
    OBVIOUS
  <2>2. to_sync \in Interval
    BY <2>1, Zenon DEF Interval
  <2>3. StoreTypeOK
    BY <2>1, Zenon DEF StoreTypeOK
  <2>4. disk \in [Sectors -> Nat] /\ dest \in [Sectors -> Nat]
        /\ buf \in [Sectors -> Nat]
    OBVIOUS
  <2>5. /\ epoch \in Nat /\ next_id \in Nat /\ offset \in Nat
        /\ attempts \in Nat /\ segment_time \in Nat
    OBVIOUS
  <2>6. /\ tracing \in BOOLEAN /\ frozen \in BOOLEAN /\ held \in BOOLEAN
        /\ is_volatile \in BOOLEAN /\ seeded \in BOOLEAN
    BY Zenon
  <2>7. /\ inflight \subseteq WriteRecord /\ trace_buffer \subseteq WriteRecord
        /\ in_use \subseteq Sectors /\ raced \subseteq Sectors
        /\ dropped \subseteq Sectors /\ untraced \subseteq Sectors
        /\ unguarded \subseteq Sectors
    BY Zenon
  <2>8. pc \in {"idle", "exit"} \cup BuildStates \cup SyncStates
    BY Zenon
  <2> QED BY <2>2, <2>3, <2>4, <2>5, <2>6, <2>7, <2>8, Zenon DEF TypeOK
<1>2. Timing /\ Taken /\ Watched /\ Filling /\ Buffered
  BY DEF Timing, Taken, Watched, Filling, Buffered
<1>3. NoLostWrite /\ FrozenCopyExact
  BY Zenon DEF NoLostWrite, FrozenCopyExact
<1> QED BY <1>1, <1>2, <1>3, Zenon DEF IInv

-----------------------------------------------------------------------------
(* Theorems *)

\* The invariant holds in every reachable state.
LEMMA Invariance == Spec => []IInv
<1>1. ASSUME IInv, [Next]_vars PROVE IInv'
  <2>1. TypeOK'
    BY <1>1, NextTypes, Zenon DEF IInv
  <2>2. Timing' /\ Taken' /\ Watched'
    BY <1>1, NextTiming, NextWatched, Zenon DEF IInv
  <2>3. Filling' /\ Buffered' /\ FrozenCopyExact'
    BY <1>1, NextCopying, Zenon DEF IInv
  <2>4. NoLostWrite'
    BY <1>1, NextNoLostWrite, Zenon DEF IInv
  <2> QED BY <2>1, <2>2, <2>3, <2>4, Zenon DEF IInv
<1> QED BY <1>1, InitIInv, PTL DEF Spec

(* Every variable keeps its type: the times, the intervals handed out and   *)
(* the offset of the copy among them (DoSync, UnsyncedSectorStore).         *)
THEOREM SyncTypeCorrect == Spec => []TypeOK
<1>1. IInv => TypeOK
  BY Zenon DEF IInv
<1> QED BY <1>1, Invariance, PTL

(* Once a full backup has filled the store, an image sector that is out of  *)
(* date is marked, traced, or about to be copied, but for the exceptions    *)
(* NoLostWrite names, whatever the writes and failures and whether or not   *)
(* the freezes take effect                                                  *)
(* (CreateDeviceSynchronizer, DoSync, copy_block, AddTrace).                *)
THEOREM NoWriteLost == Spec => []NoLostWrite
<1>1. IInv => NoLostWrite
  BY Zenon DEF IInv
<1> QED BY <1>1, Invariance, PTL

(* A block RunWhileFrozen accepts while the freeze is in effect was copied  *)
(* under that freeze and is what is on the disk (copy_func,                 *)
(* FreezeHelper::RunWhileFrozen).                                           *)
THEOREM FrozenCopiesExact == Spec => []FrozenCopyExact
<1>1. IInv => FrozenCopyExact
  BY Zenon DEF IInv
<1> QED BY <1>1, Invariance, PTL

=============================================================================
