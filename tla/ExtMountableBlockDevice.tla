---------------------- MODULE ExtMountableBlockDevice -----------------------
(***************************************************************************)
(* block_device/ext_mountable_block_device.cc and ext_file_system.cc, with *)
(* the FreezeHelper and the MountableBlockDevice they stand on: a device   *)
(* object from its construction by the BackupBuilder, through              *)
(* GetInUseSectors (of a full backup) and DoSync, to its destruction, and  *)
(* then the next one.  GetInUseSectors runs one function while frozen that *)
(* reads the block bitmaps into memory, one that reads the superblock, and *)
(* one per block group; the file system allocates and frees blocks         *)
(* whenever it is mounted and not frozen.                                  *)
(***************************************************************************)
EXTENDS MountableBlockDevice, Integers, FiniteSets

CONSTANTS
  s_first_data_block, s_blocks_per_group, s_blocks_count,
  sectors_per_block,
  MaxChanges          \* bound: blocks allocated or freed

ASSUME GeometryAssumption ==
  /\ s_first_data_block \in {0, 1}
  /\ s_blocks_per_group \in Nat \ {0}
  /\ s_blocks_count \in Nat /\ s_first_data_block < s_blocks_count
  /\ sectors_per_block \in Nat \ {0}
  /\ MaxChanges \in Nat

VARIABLES
  is_ext2_,
  position,       \* what the object is used for
  i,              \* the group GetInUseSectors is at
  bitmaps_read,   \* groups ext2fs_read_bitmaps has read
  block_map,      \* ExtFileSystem's bitmap: the blocks whose bit is set
  sectors,        \* what GetInUseSectors returns
  allocated,      \* the blocks in use on the disk
  changes,        \* changes of allocated to come
  as_of,          \* history: allocated when the bitmaps were accepted
  unsure          \* history: it could change then, or the mount had

scan == <<i, bitmaps_read, block_map, sectors, as_of, unsure>>
disk == <<allocated, changes>>
ext == <<is_ext2_, position, scan, disk>>
extVars == <<vars, device, table, ext>>

Blocks == s_first_data_block .. s_blocks_count - 1
Ceiling(a, b) == (a + b - 1) \div b
group_desc_count == Ceiling(s_blocks_count - s_first_data_block,
                            s_blocks_per_group)
cur_group_block_offset(g) == s_first_data_block + g * s_blocks_per_group
Group(g) == cur_group_block_offset(g) ..
              cur_group_block_offset(g) + s_blocks_per_group - 1
\* bits of the last group beyond the end of the file system, which mkfs sets
Padding == Group(group_desc_count - 1) \ Blocks

SectorsOf(blocks) ==
  UNION {b * sectors_per_block .. (b + 1) * sectors_per_block - 1 : b \in blocks}

Positions == {"open", "super", "groups", "scanned", "sync", "over", "closed"}

ExtTypeOK ==
  /\ MountableTypeOK
  /\ is_ext2_ \in BOOLEAN
  /\ position \in Positions
  /\ i \in 0 .. group_desc_count
  /\ bitmaps_read \in 0 .. group_desc_count
  /\ block_map \subseteq Blocks \union Padding
  /\ sectors \subseteq {0, 1} \union SectorsOf(Blocks)
  /\ allocated \subseteq Blocks /\ as_of \subseteq Blocks
  /\ changes \in 0 .. MaxChanges
  /\ unsure \in BOOLEAN

\* the superblock's block is always in use
ExtInit ==
  /\ Init /\ MountableInit
  /\ is_ext2_ \in BOOLEAN
  /\ position \in {"open", "sync"}
  /\ i = 0 /\ bitmaps_read = 0 /\ block_map = {} /\ sectors = {}
  /\ allocated = {s_first_data_block}
  /\ changes = MaxChanges
  /\ as_of = {} /\ unsure = FALSE

-----------------------------------------------------------------------------
(* The unfreeze thread, calling ExtMountableBlockDevice::Freeze and Thaw *)

\* mutant: every file system is treated as one that cannot be frozen
ExtFreezeNever ==
  /\ Freeze
  /\ UNCHANGED <<device, table, ext>>

ExtFreeze ==
  /\ Freeze
  /\ IF is_ext2_ THEN UNCHANGED device ELSE FreezeDevice
  /\ UNCHANGED <<table, ext>>

ExtFreezeThrows ==
  /\ FreezeThrows
  /\ ~is_ext2_ /\ FreezeDeviceThrows
  /\ UNCHANGED <<table, ext>>

ExtThaw ==
  /\ Thaw
  /\ IF is_ext2_ THEN UNCHANGED device ELSE ThawDevice
  /\ UNCHANGED <<table, ext>>

ExtThawThrows ==
  /\ ThawThrows
  /\ ~is_ext2_ /\ ThawDeviceThrows
  /\ UNCHANGED <<table, ext>>

UnfreezeThread ==
  \/ ExtFreeze \/ ExtFreezeThrows \/ ExtThaw \/ ExtThawThrows
  \/ /\ \/ SetDidFreeze \/ SetIsFrozen \/ NotifyOne("notify", "sleep") \/ Sleep
        \/ SetError \/ NotifyOne("notify_error", "done")
     /\ UNCHANGED <<device, table, ext>>

-----------------------------------------------------------------------------
(* GetInUseSectors, and the calls of DoSync *)

RunWhileFrozen ==
  /\ position \in {"open", "super", "groups", "sync"}
  /\ Call
  /\ UNCHANGED <<device, table, ext>>

\* The function opens the file system anew on each attempt.
EnterBody ==
  /\ StartRun
  /\ bitmaps_read' = IF position = "open" THEN 0 ELSE bitmaps_read
  /\ UNCHANGED <<device, table, disk, is_ext2_, position, i, block_map,
                 sectors, as_of, unsure>>

\* ExtFileSystem's ext2fs_read_bitmaps, group by group
ReadBitmap ==
  /\ caller = "body" /\ position = "open"
  /\ bitmaps_read < group_desc_count
  /\ bitmaps_read' = bitmaps_read + 1
  /\ LET g == Group(bitmaps_read)
     IN  block_map' = (block_map \ g) \union ((allocated \union Padding) \cap g)
  /\ UNCHANGED <<vars, device, table, disk, is_ext2_, position, i, sectors,
                 as_of, unsure>>

BodyDone == position = "open" => bitmaps_read = group_desc_count

\* The loop over the bits of a group stops at the end of the file system.
InsertGroup ==
  sectors' = sectors \union
    SectorsOf({b \in block_map \cap Group(i) : b < s_blocks_count})

\* What GetInUseSectors does when a function has been accepted
Advance ==
  \/ /\ position = "open"
     /\ position' = "super"
     /\ as_of' = allocated
     /\ unsure' = (is_ext2_ \/ moved)
     /\ UNCHANGED <<i, sectors>>
  \/ /\ position = "super"
     /\ position' = "groups"
     /\ i' = 0
     /\ sectors' = {0, 1}
     /\ UNCHANGED <<as_of, unsure>>
  \/ /\ position = "groups"
     /\ InsertGroup
     /\ i' = i + 1
     /\ position' = IF i' < group_desc_count THEN "groups" ELSE "scanned"
     /\ UNCHANGED <<as_of, unsure>>
  \/ /\ position = "sync"
     /\ UNCHANGED <<position, i, sectors, as_of, unsure>>

LeaveBody ==
  /\ BodyDone
  /\ EndRequiredFreezeBlock
  /\ IF accepted' THEN Advance
                  ELSE UNCHANGED <<position, i, sectors, as_of, unsure>>
  /\ UNCHANGED <<device, table, disk, is_ext2_, bitmaps_read, block_map>>

\* mutant: an exception of RunWhileFrozen is swallowed and the call made again
ThrowSwallowed ==
  /\ \/ GiveUp
     \/ position \in {"open", "sync"} /\ RunThrows
     \/ was_error_ /\ CheckError
  /\ UNCHANGED <<position, device, table, is_ext2_, scan, disk>>

\* An exception of RunWhileFrozen ends the use of the object.
RunWhileFrozenThrows ==
  /\ \/ GiveUp
     \/ position \in {"open", "sync"} /\ RunThrows
     \/ was_error_ /\ CheckError
  /\ position' = "over"
  /\ UNCHANGED <<device, table, is_ext2_, scan, disk>>

WithinRunWhileFrozen ==
  /\ \/ Attempt \/ BeginRequiredFreezeBlock \/ Join \/ Spawn \/ TestCondition
     \/ Wait \/ SpuriousWakeup
     \/ ~was_error_ /\ CheckError
  /\ UNCHANGED <<device, table, ext>>

-----------------------------------------------------------------------------
(* The FreezeHelper and the device end, and their successors begin. *)

EndOfScope ==
  /\ position \in {"scanned", "sync", "over"}
  /\ BeginDestroy
  /\ position' = IF position = "sync" THEN "over" ELSE position
  /\ UNCHANGED <<device, table, is_ext2_, scan, disk>>

DestroyHelper ==
  /\ Destroy
  /\ UNCHANGED <<device, table, ext>>

\* DoSync makes a FreezeHelper of its own for the device.
StartSync ==
  /\ position = "scanned"
  /\ Construct
  /\ position' = "sync"
  /\ UNCHANGED <<device, table, is_ext2_, scan, disk>>

DestroyDevice ==
  /\ position = "over" /\ caller = "gone"
  /\ position' = "closed"
  /\ DestructDevice
  /\ UNCHANGED <<vars, table, is_ext2_, scan, disk>>

\* BlockDeviceFactory makes another object for the next backup, which is
\* full or incremental.
NewDevice ==
  /\ position = "closed"
  /\ Construct /\ ConstructDevice
  /\ position' \in {"open", "sync"}
  /\ i' = 0 /\ bitmaps_read' = 0 /\ block_map' = {} /\ sectors' = {}
  /\ as_of' = {} /\ unsure' = FALSE
  /\ UNCHANGED <<table, is_ext2_, disk>>

-----------------------------------------------------------------------------
(* The file system, the clock and the administrator *)

\* A block is allocated or freed.
ChangeAllocation ==
  /\ mounted /\ ~sb_frozen
  /\ changes > 0
  /\ changes' = changes - 1
  /\ \E b \in Blocks \ {s_first_data_block} :
       allocated' = IF b \in allocated THEN allocated \ {b}
                                       ELSE allocated \union {b}
  /\ UNCHANGED <<vars, device, table, is_ext2_, position, scan>>

Environment ==
  \/ ChangeAllocation
  \/ (CacheExpires \/ ChangeMount) /\ UNCHANGED <<vars, ext>>

ExtNext ==
  \/ UnfreezeThread
  \/ RunWhileFrozen \/ EnterBody \/ ReadBitmap \/ LeaveBody
  \/ RunWhileFrozenThrows \/ WithinRunWhileFrozen
  \/ EndOfScope \/ DestroyHelper \/ StartSync \/ DestroyDevice \/ NewDevice
  \/ Environment

ExtSpec == ExtInit /\ [][ExtNext]_extVars

\* Only the unfreeze thread is sure to run on; the caller may stop anywhere.
ExtFairSpec == ExtSpec /\ WF_extVars(UnfreezeThread)

-----------------------------------------------------------------------------
(* Properties *)

(* When FreezeHelper says a file system is frozen, it is, unless the device *)
(* is ext2 or has been mounted or unmounted since IsMounted last looked: no *)
(* failed look-up, and no device left frozen by another, makes a freeze     *)
(* that was never made pass for one.                                        *)
TrulyFrozen == is_frozen_ /\ mounted /\ ~is_ext2_ => sb_frozen \/ moved

(* A device object that is gone has left its file system thawed, whichever  *)
(* Thaw() of the unfreeze thread failed, unless it was unmounted while      *)
(* frozen or the last Thaw(), in the destructor, failed as well.            *)
LeftThawed == position = "closed" /\ sb_frozen => excused

(* GetInUseSectors returns the sectors of the blocks that were in use at    *)
(* one moment, together with sectors 0 and 1, although it reads them group  *)
(* by group while the file system changes, in several freezes.              *)
SnapshotExact ==
  position = "scanned" /\ ~unsure => sectors = {0, 1} \union SectorsOf(as_of)

=============================================================================
