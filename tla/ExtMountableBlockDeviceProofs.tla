------------------- MODULE ExtMountableBlockDeviceProofs --------------------
(***************************************************************************)
(* FreezeHelper keeps the promise of FreezeWindow, for every number of     *)
(* attempts and whatever fails; and a device that is frozen through it is  *)
(* really frozen, is left thawed, and is scanned as of one moment, for     *)
(* every geometry of its file system.                                      *)
(*                                                                         *)
(* The inductive invariant of the helper says which thread positions go    *)
(* with a frozen file system, and that a body which runs while the         *)
(* unfreeze thread is on its way to the thaw started frozen.  That of the  *)
(* device adds when the mount cache can be believed, who has to undo a     *)
(* freeze, and which blocks and sectors a scan has covered.                *)
(***************************************************************************)
EXTENDS ExtMountableBlockDevice, TLAPS

-----------------------------------------------------------------------------
(* The helper *)

Holding == {"set_did_freeze", "set_is_frozen", "notify", "sleep", "thaw"}

(* The strengthening that makes NeverFreezesTwice, LeavesNothingBehind and  *)
(* the acceptance of a body inductive.                                      *)
HelperInv ==
  /\ TypeOK
  /\ is_frozen_ => thread \in {"notify", "sleep"}
  /\ thread \in Holding => fs_frozen
  /\ fs_frozen => thread \in Holding \/ thaw_failed
  /\ caller \in {"spawn", "gone"} => thread = "none"
  /\ thread \in {"freeze", "set_did_freeze"} =>
       /\ ~did_freeze_ /\ ~was_error_
       /\ caller \in {"test", "before_wait", "waiting"}
  /\ caller = "body" /\ thread \in {"set_is_frozen", "notify", "sleep"} => kept
  /\ caller = "body" => ~accepted

\* The invariant holds after construction.
LEMMA InitHelperInv == Init => HelperInv
<1>1. 0 \in 0 .. MaxAttempts
  BY FreezeAssumption
<1>2. Init => TypeOK
  BY <1>1, Zenon DEF Init, TypeOK, CallerStates, ThreadStates
<1> QED
  BY <1>2, Zenon DEF Init, HelperInv, Holding

\* Every step of the caller or of the unfreeze thread preserves it.
LEMMA NextHelperInv == HelperInv /\ [Next]_vars => HelperInv'
<1> SUFFICES ASSUME HelperInv, [Next]_vars PROVE HelperInv'
  BY Zenon
<1> USE FreezeAssumption
       DEF HelperInv, TypeOK, CallerStates, ThreadStates, Holding, CallerStep,
           ThreadStep, flags, record
<1>1. CASE Call BY <1>1 DEF Call
<1>2. CASE Attempt BY <1>2 DEF Attempt
<1>3. CASE GiveUp BY <1>3, ZenonT(30) DEF GiveUp
<1>4. CASE StartRun BY <1>4, Zenon DEF StartRun
<1>5. CASE EndRequiredFreezeBlock BY <1>5, Zenon DEF EndRequiredFreezeBlock
<1>6. CASE RunThrows BY <1>6, Zenon DEF RunThrows
<1>7. CASE BeginRequiredFreezeBlock BY <1>7, ZenonT(30) DEF BeginRequiredFreezeBlock
<1>8. CASE Join BY <1>8, Zenon DEF Join
<1>9. CASE Spawn BY <1>9, Zenon DEF Spawn
<1>10. CASE TestCondition BY <1>10 DEF TestCondition
<1>11. CASE Wait BY <1>11, ZenonT(30) DEF Wait
<1>12. CASE SpuriousWakeup BY <1>12, ZenonT(60) DEF SpuriousWakeup
<1>13. CASE CheckError BY <1>13 DEF CheckError
<1>14. CASE Freeze BY <1>14, Zenon DEF Freeze
<1>15. CASE FreezeThrows BY <1>15, Zenon DEF FreezeThrows
<1>16. CASE SetDidFreeze BY <1>16, Zenon DEF SetDidFreeze
<1>17. CASE SetIsFrozen BY <1>17, ZenonT(30) DEF SetIsFrozen
<1>18. CASE NotifyOne("notify", "sleep") BY <1>18 DEF NotifyOne
<1>19. CASE NotifyOne("notify_error", "done") BY <1>19, Zenon DEF NotifyOne
<1>20. CASE Sleep BY <1>20, ZenonT(30) DEF Sleep
<1>21. CASE Thaw BY <1>21, Zenon DEF Thaw
<1>22. CASE ThawThrows BY <1>22, Zenon DEF ThawThrows
<1>23. CASE SetError BY <1>23, Zenon DEF SetError
<1>24. CASE BeginDestroy BY <1>24 DEF BeginDestroy
<1>25. CASE Destroy BY <1>25, Zenon DEF Destroy
<1>26. CASE Construct BY <1>26, Zenon DEF Construct
<1>27. CASE UNCHANGED vars BY <1>27 DEF vars
<1> QED
  BY <1>1, <1>2, <1>3, <1>4, <1>5, <1>6, <1>7, <1>8, <1>9, <1>10, <1>11, <1>12,
     <1>13, <1>14, <1>15, <1>16, <1>17, <1>18, <1>19, <1>20, <1>21, <1>22,
     <1>23, <1>24, <1>25, <1>26, <1>27, Zenon
     DEF Next, CallerNext, ThreadNext

\* The invariant holds in every reachable state.
LEMMA Invariance == Spec => []HelperInv
  BY InitHelperInv, NextHelperInv, PTL DEF Spec

(* The type invariant of FreezeHelper.                                      *)
THEOREM FreezeTypeCorrect == Spec => []TypeOK
<1>1. HelperInv => TypeOK BY Zenon DEF HelperInv
<1> QED BY <1>1, Invariance, PTL

(* The unfreeze thread never calls Freeze on a file system that this object *)
(* left frozen, unless a Thaw threw.                                        *)
THEOREM NoDoubleFreeze == Spec => []NeverFreezesTwice
<1>1. HelperInv => NeverFreezesTwice BY Zenon
                                        DEF HelperInv, NeverFreezesTwice,
                                            Holding
<1> QED BY <1>1, Invariance, PTL

(* After ~FreezeHelper no unfreeze thread runs, and the file system is      *)
(* thawed unless a Thaw threw.                                              *)
THEOREM NothingLeftBehind == Spec => []LeavesNothingBehind
<1>1. HelperInv => LeavesNothingBehind BY Zenon
                                          DEF HelperInv, LeavesNothingBehind,
                                              Holding
<1> QED BY <1>1, Invariance, PTL

(* RunWhileFrozen accepts a function only if the file system was frozen     *)
(* from its start to its end: FreezeHelper implements FreezeWindow.         *)
THEOREM WordKept == Spec => KeepsItsWord
<1>1. Init => Window!WindowInit
  BY Zenon DEF Init, Window!WindowInit
<1>2. ASSUME HelperInv, [Next]_vars
      PROVE  [Window!WindowNext]_(Window!window)
  <2> USE <1>2
         DEF HelperInv, TypeOK, Holding, CallerStep, ThreadStep, flags, record,
             Window!window
  <2>1. CASE Freeze
    BY <2>1, Zenon DEF Freeze, Window!WindowNext, Window!FreezeFs
  <2>2. CASE Thaw
    BY <2>2, Zenon DEF Thaw, Window!WindowNext, Window!ThawFs
  <2>3. CASE StartRun
    BY <2>3, Zenon DEF StartRun, Window!WindowNext, Window!StartBody
  <2>4. CASE EndRequiredFreezeBlock
    <3>1. CASE is_frozen_
      <4>1. kept /\ accepted' = TRUE
        BY <2>4, <3>1, Zenon DEF EndRequiredFreezeBlock
      <4>2. Window!AcceptBody
        BY <2>4, <4>1, <3>1, Zenon
           DEF EndRequiredFreezeBlock, Window!AcceptBody
      <4> QED BY <4>2, Zenon DEF Window!WindowNext
    <3>2. CASE ~is_frozen_
      <4>1. Window!RejectBody
        BY <2>4, <3>2, Zenon DEF EndRequiredFreezeBlock, Window!RejectBody
      <4> QED BY <4>1, Zenon DEF Window!WindowNext
    <3> QED BY <3>1, <3>2, Zenon
  <2>5. CASE RunThrows
    BY <2>5, Zenon DEF RunThrows, Window!WindowNext, Window!RejectBody
  <2>6. CASE \/ Call \/ BeginDestroy \/ Construct \/ SpuriousWakeup
             \/ Attempt \/ GiveUp \/ BeginRequiredFreezeBlock \/ Join \/ Spawn
             \/ TestCondition \/ Wait \/ CheckError \/ Destroy
    BY <2>6, Zenon
       DEF Call, BeginDestroy, Construct, SpuriousWakeup, Attempt, GiveUp,
           BeginRequiredFreezeBlock, Join, Spawn, TestCondition, Wait,
           CheckError, Destroy
  <2>7. CASE \/ FreezeThrows \/ SetDidFreeze \/ SetIsFrozen \/ Sleep
             \/ ThawThrows \/ SetError \/ NotifyOne("notify", "sleep")
             \/ NotifyOne("notify_error", "done")
    BY <2>7, Zenon
       DEF FreezeThrows, SetDidFreeze, SetIsFrozen, Sleep, ThawThrows,
           SetError, NotifyOne
  <2>8. CASE UNCHANGED vars
    BY <2>8, Zenon DEF vars
  <2> QED
    BY <2>1, <2>2, <2>3, <2>4, <2>5, <2>6, <2>7, <2>8, Zenon
       DEF Next, CallerNext, ThreadNext
<1> QED BY <1>1, <1>2, Invariance, PTL
           DEF Spec, KeepsItsWord, Window!WindowSpec

-----------------------------------------------------------------------------
(* The device and its scan: every step of the composition is one of the     *)
(* helper or leaves it alone, so that what has been proved of the helper    *)
(* holds of the helper within the device.                                   *)

\* A step of ExtMountableBlockDevice is a step of FreezeHelper or a stutter.
LEMMA HelperStep == [ExtNext]_extVars => [Next]_vars
<1> SUFFICES ASSUME [ExtNext]_extVars PROVE [Next]_vars
  BY Zenon
<1> USE DEF Next, CallerNext, ThreadNext
<1>1. CASE UnfreezeThread
  BY <1>1, Zenon
     DEF UnfreezeThread, ExtFreeze, ExtFreezeThrows, ExtThaw, ExtThawThrows
<1>2. CASE RunWhileFrozen \/ EnterBody \/ LeaveBody
  BY <1>2, Zenon DEF RunWhileFrozen, EnterBody, LeaveBody
<1>3. CASE RunWhileFrozenThrows \/ WithinRunWhileFrozen
  BY <1>3, Zenon DEF RunWhileFrozenThrows, WithinRunWhileFrozen
<1>4. CASE EndOfScope \/ DestroyHelper \/ StartSync \/ NewDevice
  BY <1>4, Zenon DEF EndOfScope, DestroyHelper, StartSync, NewDevice
<1>5. CASE ReadBitmap \/ DestroyDevice \/ Environment
  BY <1>5, Zenon DEF ReadBitmap, DestroyDevice, Environment, ChangeAllocation
<1>6. CASE UNCHANGED extVars
  BY <1>6, Zenon DEF extVars
<1> QED BY <1>1, <1>2, <1>3, <1>4, <1>5, <1>6, Zenon DEF ExtNext

(* FreezeHelper within the device behaves as FreezeHelper alone: neither    *)
(* the mount cache nor the scan reaches into its flags or its threads.      *)
THEOREM DeviceRunsHelper == ExtSpec => Spec
<1>1. ExtInit => Init BY Zenon DEF ExtInit
<1> QED BY <1>1, HelperStep, PTL DEF ExtSpec, Spec

-----------------------------------------------------------------------------
(* The geometry: the blocks of the groups before the g-th                   *)

Before(g) == {b \in Blocks : b < cur_group_block_offset(g)}

\* Dividing and multiplying back.
LEMMA Division ==
  ASSUME NEW M \in Int, NEW x \in Int, M > 0
  PROVE  /\ x = M * (x \div M) + (x % M)
         /\ x \div M \in Int /\ x % M \in Int /\ 0 <= x % M /\ x % M < M
  BY SMTT(30)

\* There is a group, and the groups reach to the end of the file system.
LEMMA GroupsReachEnd ==
  /\ group_desc_count \in Nat /\ group_desc_count >= 1
  /\ cur_group_block_offset(group_desc_count) >= s_blocks_count
<1> DEFINE M == s_blocks_per_group
           n == s_blocks_count - s_first_data_block
           q == (n + M - 1) \div M
<1>1. M \in Int /\ M > 0 /\ n \in Int /\ n > 0
  BY GeometryAssumption
<1>2. q = group_desc_count
  BY Zenon DEF group_desc_count, Ceiling
<1>3. /\ n + M - 1 = M * q + ((n + M - 1) % M)
      /\ q \in Int /\ (n + M - 1) % M \in Int /\ (n + M - 1) % M < M
  BY <1>1, Division
<1> HIDE DEF q, M, n
<1>4. M * q > n - 1
  BY <1>1, <1>3
<1>5. q >= 1
  <2>1. CASE q <= 0
    <3>1. M * q <= 0
      BY <1>1, <1>3, <2>1
    <3> QED BY <1>1, <1>3, <1>4, <3>1
  <2> QED BY <1>3, <2>1
<1>6. s_first_data_block + q * M >= s_blocks_count
  <2>1. q * M = M * q /\ M * q \in Int
    BY <1>1, <1>3
  <2>2. n = s_blocks_count - s_first_data_block
    BY Zenon DEF n
  <2> QED BY <1>1, <1>4, <2>1, <2>2, GeometryAssumption
<1> QED BY <1>2, <1>3, <1>5, <1>6 DEF cur_group_block_offset, M

\* A group begins where the one before it ends.
LEMMA NextOffset ==
  ASSUME NEW g \in Nat
  PROVE  /\ cur_group_block_offset(g) \in Nat
         /\ cur_group_block_offset(g + 1) =
              cur_group_block_offset(g) + s_blocks_per_group
<1>1. (g + 1) * s_blocks_per_group = g * s_blocks_per_group + s_blocks_per_group
  BY GeometryAssumption
<1>2. g * s_blocks_per_group \in Nat
  BY GeometryAssumption
<1> QED BY <1>1, <1>2, GeometryAssumption DEF cur_group_block_offset

\* A group adds its blocks, and no others, to those before it.
LEMMA NextGroup ==
  ASSUME NEW g \in Nat
  PROVE  /\ Before(g + 1) = Before(g) \union (Group(g) \cap Blocks)
         /\ Before(g) \cap Group(g) = {}
<1>1. \A b \in Blocks : b \in Int
  BY GeometryAssumption DEF Blocks
<1> QED BY <1>1, NextOffset, GeometryAssumption DEF Before, Group

\* No group comes before the first, and all come before the end.
LEMMA AllGroups == Before(0) = {} /\ Before(group_desc_count) = Blocks
<1>1. Before(0) = {}
  <2>1. cur_group_block_offset(0) = s_first_data_block
    BY GeometryAssumption DEF cur_group_block_offset
  <2> QED BY <2>1, GeometryAssumption DEF Before, Blocks
<1>2. Before(group_desc_count) = Blocks
  <2>1. cur_group_block_offset(group_desc_count) \in Nat
    BY GroupsReachEnd, NextOffset, Zenon
  <2> QED BY <2>1, GroupsReachEnd, GeometryAssumption DEF Before, Blocks
<1> QED BY <1>1, <1>2, Zenon

\* The sectors of more blocks.
LEMMA SectorsOfUnion ==
  ASSUME NEW A, NEW B
  PROVE  SectorsOf(A \union B) = SectorsOf(A) \union SectorsOf(B)
  BY Zenon DEF SectorsOf

-----------------------------------------------------------------------------
(* The steps, those apart that only the helper takes                        *)

Quiet ==
  /\ \/ SetDidFreeze \/ SetIsFrozen \/ NotifyOne("notify", "sleep") \/ Sleep
     \/ SetError \/ NotifyOne("notify_error", "done")
     \/ position \in {"open", "super", "groups", "sync"} /\ Call
     \/ Attempt \/ BeginRequiredFreezeBlock \/ Join \/ Spawn \/ TestCondition
     \/ Wait \/ SpuriousWakeup
     \/ ~was_error_ /\ CheckError
     \/ Destroy
     \/ UNCHANGED vars
  /\ UNCHANGED <<device, table, ext>>

\* Every step, by what it does to the device, the mount table and the scan.
LEMMA StepCases ==
  ASSUME [ExtNext]_extVars
  PROVE  \/ Quiet
         \/ ExtFreeze \/ ExtFreezeThrows \/ ExtThaw \/ ExtThawThrows
         \/ EnterBody \/ ReadBitmap \/ LeaveBody \/ RunWhileFrozenThrows
         \/ EndOfScope \/ StartSync \/ DestroyDevice \/ NewDevice
         \/ ChangeAllocation
         \/ CacheExpires /\ UNCHANGED <<vars, ext>>
         \/ ChangeMount /\ UNCHANGED <<vars, ext>>
<1>1. CASE UnfreezeThread
  BY <1>1, Zenon DEF UnfreezeThread, Quiet
<1>2. CASE RunWhileFrozen \/ WithinRunWhileFrozen \/ DestroyHelper
  BY <1>2, Zenon DEF RunWhileFrozen, WithinRunWhileFrozen, DestroyHelper, Quiet
<1>3. CASE Environment
  BY <1>3, Zenon DEF Environment
<1>4. CASE UNCHANGED extVars
  BY <1>4, Zenon DEF extVars, Quiet
<1> QED BY <1>1, <1>2, <1>3, <1>4, Zenon DEF ExtNext

(* Where the caller is in the helper, for each use of the device, and that  *)
(* the loop over the groups stays within them.                              *)
Stages ==
  /\ position = "closed" => caller = "gone"
  /\ position \in {"scanned", "over"} => caller \in {"idle", "destroy", "gone"}
  /\ caller \in {"destroy", "gone"} => position \in {"scanned", "over", "closed"}
  /\ position = "groups" => i < group_desc_count
  /\ position = "scanned" => i = group_desc_count

\* The bits GetInUseSectors looks at are those of blocks of the file system.
LEMMA BitsAreBlocks ==
  ASSUME ExtTypeOK
  PROVE  {b \in block_map \cap Group(i) : b < s_blocks_count} =
           block_map \cap Group(i) \cap Blocks
<1>1. i \in Nat
  BY GroupsReachEnd DEF ExtTypeOK
<1>2. \A b \in Group(i) : b \in Int /\ b >= s_first_data_block
  <2>1. i * s_blocks_per_group \in Nat
    BY <1>1, GeometryAssumption
  <2> QED BY <2>1, GeometryAssumption DEF Group, cur_group_block_offset
<1> QED BY <1>2, GeometryAssumption DEF Blocks

\* The types, and the stages, are those of the initial state.
LEMMA InitTypes == ExtInit => ExtTypeOK /\ Stages
<1> SUFFICES ASSUME ExtInit PROVE ExtTypeOK /\ Stages
  BY Zenon
<1>1. 0 \in 0 .. MaxMounts /\ MaxMounts \in 0 .. MaxMounts
      /\ MaxChanges \in 0 .. MaxChanges /\ 0 \in 0 .. group_desc_count
  BY MountsAssumption, GeometryAssumption, GroupsReachEnd
<1>2. s_first_data_block \in Blocks
  BY GeometryAssumption DEF Blocks
<1>3. MountableTypeOK
  BY <1>1, Zenon DEF ExtInit, MountableInit, MountableTypeOK
<1> QED BY <1>1, <1>2, <1>3, Zenon
           DEF ExtInit, Init, ExtTypeOK, Stages, Positions

\* The device's own variables keep their types.
LEMMA NextMountable == ExtTypeOK /\ [ExtNext]_extVars => MountableTypeOK'
<1> SUFFICES ASSUME ExtTypeOK, [ExtNext]_extVars PROVE MountableTypeOK'
  BY Zenon
<1> USE DEF ExtTypeOK, MountableTypeOK, device, cache, table, IsMounted,
           IsMountedThrows
<1>1. CASE Quiet \/ EnterBody \/ ReadBitmap \/ LeaveBody \/ RunWhileFrozenThrows
           \/ EndOfScope \/ StartSync \/ ChangeAllocation
  BY <1>1
     DEF Quiet, EnterBody, ReadBitmap, LeaveBody, RunWhileFrozenThrows,
         EndOfScope, StartSync, ChangeAllocation
<1>2. CASE ExtFreeze \/ ExtFreezeThrows
  BY <1>2, Zenon
     DEF ExtFreeze, ExtFreezeThrows, FreezeDevice, FreezeDeviceThrows
<1>3. CASE ExtThaw \/ ExtThawThrows
  BY <1>3, Zenon DEF ExtThaw, ExtThawThrows, ThawDevice, ThawDeviceThrows
<1>4. CASE DestroyDevice
  BY <1>4, Zenon DEF DestroyDevice, DestructDevice, ThawDevice
<1>5. CASE NewDevice
  BY <1>5, Zenon DEF NewDevice, ConstructDevice
<1>6. CASE CacheExpires /\ UNCHANGED <<vars, ext>>
  BY <1>6, Zenon DEF CacheExpires
<1>7. CASE ChangeMount /\ UNCHANGED <<vars, ext>>
  BY <1>7, MountsAssumption DEF ChangeMount
<1> QED BY <1>1, <1>2, <1>3, <1>4, <1>5, <1>6, <1>7, StepCases, Zenon

\* So do those of the scan and the disk.
LEMMA NextTypes ==
  ExtTypeOK /\ Stages /\ [ExtNext]_extVars => ExtTypeOK'
<1> SUFFICES ASSUME ExtTypeOK, Stages, [ExtNext]_extVars PROVE ExtTypeOK'
  BY Zenon
<1>0. MountableTypeOK'
  BY NextMountable, Zenon
<1> USE <1>0 DEF ExtTypeOK, Positions, ext, scan, disk
<1>1. CASE \/ Quiet \/ RunWhileFrozenThrows \/ EndOfScope \/ StartSync
           \/ DestroyDevice
  BY <1>1, Zenon
     DEF Quiet, RunWhileFrozenThrows, EndOfScope, StartSync, DestroyDevice
<1>2. CASE ExtFreeze \/ ExtFreezeThrows \/ ExtThaw \/ ExtThawThrows
  BY <1>2, Zenon DEF ExtFreeze, ExtFreezeThrows, ExtThaw, ExtThawThrows
<1>3. CASE EnterBody
  BY <1>3, GroupsReachEnd DEF EnterBody
<1>4. CASE ReadBitmap
  <2>1. bitmaps_read' \in 0 .. group_desc_count
    BY <1>4, GroupsReachEnd DEF ReadBitmap
  <2>2. block_map' \subseteq Blocks \union Padding
    BY <1>4, Zenon DEF ReadBitmap
  <2> QED BY <1>4, <2>1, <2>2, Zenon DEF ReadBitmap
<1>5. CASE LeaveBody
  <2>1. CASE UNCHANGED <<position, i, sectors, as_of, unsure>>
    BY <1>5, <2>1, Zenon DEF LeaveBody
  <2>2. CASE Advance /\ position = "open"
    BY <1>5, <2>2, Zenon DEF LeaveBody, Advance, MountableTypeOK
  <2>3. CASE Advance /\ position = "super"
    BY <1>5, <2>3, GroupsReachEnd DEF LeaveBody, Advance
  <2>4. CASE Advance /\ position = "groups"
    <3>1. i' \in 0 .. group_desc_count
      BY <2>4, GroupsReachEnd DEF Advance, Stages
    <3>2. sectors' \subseteq {0, 1} \union SectorsOf(Blocks)
      <4>1. InsertGroup
        BY <2>4, Zenon DEF Advance
      <4>2. sectors' = sectors \union SectorsOf(block_map \cap Group(i) \cap Blocks)
        BY <4>1, BitsAreBlocks, Zenon DEF InsertGroup
      <4>3. SectorsOf(block_map \cap Group(i) \cap Blocks) \subseteq SectorsOf(Blocks)
        BY Zenon DEF SectorsOf
      <4> QED BY <4>2, <4>3, Zenon
    <3> QED BY <1>5, <2>4, <3>1, <3>2, Zenon DEF LeaveBody, Advance
  <2> QED BY <1>5, <2>1, <2>2, <2>3, <2>4, Zenon DEF LeaveBody, Advance
<1>6. CASE NewDevice
  <2>1. position' \in Positions /\ unsure' \in BOOLEAN /\ is_ext2_' \in BOOLEAN
    BY <1>6, Zenon DEF NewDevice
  <2>2. i' \in 0 .. group_desc_count /\ bitmaps_read' \in 0 .. group_desc_count
    BY <1>6, GroupsReachEnd DEF NewDevice
  <2> QED BY <1>6, <2>1, <2>2, Zenon DEF NewDevice
<1>7. CASE ChangeAllocation
  BY <1>7, GeometryAssumption DEF ChangeAllocation
<1>8. CASE (CacheExpires \/ ChangeMount) /\ UNCHANGED <<vars, ext>>
  BY <1>8, Zenon
<1> QED BY <1>1, <1>2, <1>3, <1>4, <1>5, <1>6, <1>7, <1>8, StepCases, Zenon

\* The stages follow from the caller's thread alone.
LEMMA NextStages ==
  ExtTypeOK /\ Stages /\ HelperInv /\ [ExtNext]_extVars => Stages'
<1> SUFFICES ASSUME ExtTypeOK, Stages, HelperInv, [ExtNext]_extVars PROVE Stages'
  BY Zenon
<1> USE DEF Stages, CallerStep, ThreadStep, ext, scan
<1>1. CASE Quiet
  BY <1>1, Zenon
     DEF Quiet, SetDidFreeze, SetIsFrozen, NotifyOne, Sleep, SetError, Call,
         Attempt, BeginRequiredFreezeBlock, Join, Spawn, TestCondition, Wait,
         SpuriousWakeup, CheckError, Destroy, vars
<1>2. CASE ExtFreeze \/ ExtFreezeThrows \/ ExtThaw \/ ExtThawThrows
  BY <1>2, Zenon
     DEF ExtFreeze, ExtFreezeThrows, ExtThaw, ExtThawThrows, Freeze,
         FreezeThrows, Thaw, ThawThrows
<1>3. CASE EnterBody \/ ReadBitmap
  BY <1>3, Zenon DEF EnterBody, StartRun, ReadBitmap, vars
<1>4. CASE LeaveBody
  <2>1. CASE UNCHANGED <<position, i, sectors, as_of, unsure>>
    BY <1>4, <2>1, Zenon DEF LeaveBody, EndRequiredFreezeBlock
  <2>2. CASE Advance /\ accepted'
    <3>1. caller = "body" /\ caller' = "idle"
      BY <1>4, <2>2, Zenon DEF LeaveBody, EndRequiredFreezeBlock
    <3> QED BY <2>2, <3>1, GroupsReachEnd DEF Advance, ExtTypeOK
  <2> QED BY <1>4, <2>1, <2>2, Zenon DEF LeaveBody
<1>5. CASE RunWhileFrozenThrows
  BY <1>5, Zenon DEF RunWhileFrozenThrows, GiveUp, RunThrows, CheckError
<1>6. CASE EndOfScope \/ StartSync
  BY <1>6, Zenon DEF EndOfScope, BeginDestroy, StartSync, Construct
<1>7. CASE DestroyDevice
  BY <1>7, Zenon DEF DestroyDevice, vars
<1>8. CASE NewDevice
  BY <1>8, Zenon DEF NewDevice, Construct
<1>9. CASE ChangeAllocation
  BY <1>9, Zenon DEF ChangeAllocation, vars
<1>10. CASE (CacheExpires \/ ChangeMount) /\ UNCHANGED <<vars, ext>>
  BY <1>10, Zenon DEF vars
<1> QED BY <1>1, <1>2, <1>3, <1>4, <1>5, <1>6, <1>7, <1>8, <1>9, <1>10,
           StepCases, Zenon

-----------------------------------------------------------------------------
(* The freeze is real, and is undone                                        *)

Vouching == {"set_did_freeze", "set_is_frozen", "notify", "sleep"}

(* A look-up that threw on the way to a freeze: nothing has been learnt of  *)
(* the mount, but the exception ends the use of this device.                *)
Failing ==
  \/ /\ thread = "set_error" /\ ~did_freeze_ /\ ~was_error_
     /\ caller \in {"test", "before_wait", "waiting"}
  \/ /\ thread \in {"notify_error", "done"} /\ was_error_
     /\ caller \in {"test", "before_wait", "waiting", "check_error"}
  \/ thread \in {"none", "notify_error", "done"} /\ position \in {"over", "closed"}

(* last_mounted_result_ is right until the next mount or unmount, except    *)
(* before the first look-up, and after a first one that threw.              *)
CacheTrue ==
  \/ is_ext2_ \/ moved \/ last_mounted_result_ = mounted
  \/ ~recent /\ thread \in {"none", "freeze"}
  \/ Failing

(* While the thread vouches for a freeze there is one, unless the cache was *)
(* overtaken.                                                               *)
FreezeReal == thread \in Vouching /\ mounted /\ ~is_ext2_ => sb_frozen \/ moved

(* A file system that is frozen and that no unmount excuses is one that the *)
(* device knows to be mounted and knows it has to thaw.                     *)
FreezeOwned ==
  sb_frozen /\ ~excused =>
    device_is_frozen_ /\ mounted /\ last_mounted_result_ /\ position # "closed"

\* A look-up that returns finds out whether the device is mounted.
LEMMA LookUp ==
  ASSUME ExtTypeOK, NEW answer \in BOOLEAN, IsMounted(answer),
         recent /\ ~moved => last_mounted_result_ = mounted
  PROVE  moved' \/ (last_mounted_result_' = mounted /\ answer = mounted)
  BY Zenon DEF IsMounted, ExtTypeOK, MountableTypeOK

\* The cache is true again after each step.
LEMMA NextCacheTrue ==
  ASSUME ExtTypeOK, Stages, HelperInv, CacheTrue, [ExtNext]_extVars
  PROVE  CacheTrue'
<1> USE DEF CacheTrue, Failing, CallerStep, ThreadStep, flags, device, cache,
           table, ext, HelperInv, TypeOK
<1>1. CASE Quiet
  <2>1. CASE SetDidFreeze \/ SetIsFrozen \/ Sleep \/ SetError
             \/ NotifyOne("notify", "sleep") \/ NotifyOne("notify_error", "done")
    BY <1>1, <2>1, Zenon
       DEF Quiet, SetDidFreeze, SetIsFrozen, NotifyOne, Sleep, SetError
  <2>2. CASE (position \in {"open", "super", "groups", "sync"} /\ Call)
             \/ Attempt \/ BeginRequiredFreezeBlock \/ Join \/ Spawn
    BY <1>1, <2>2, Zenon
       DEF Quiet, Call, Attempt, BeginRequiredFreezeBlock, Join, Spawn, Stages
  <2>3. CASE TestCondition \/ Wait \/ SpuriousWakeup
             \/ (~was_error_ /\ CheckError)
    BY <1>1, <2>3, Zenon
       DEF Quiet, TestCondition, Wait, SpuriousWakeup, CheckError
  <2>4. CASE Destroy \/ UNCHANGED vars
    BY <1>1, <2>4, Zenon DEF Quiet, Destroy, vars
  <2> QED BY <1>1, <2>1, <2>2, <2>3, <2>4, Zenon DEF Quiet
<1>2. CASE ExtFreeze
  <2>1. CASE is_ext2_
    BY <1>2, <2>1, Zenon DEF ExtFreeze
  <2>2. CASE ~is_ext2_
    <3>1. recent /\ ~moved => last_mounted_result_ = mounted
      BY <1>2, <2>2, Zenon DEF ExtFreeze, Freeze
    <3>2. PICK answer \in BOOLEAN : IsMounted(answer)
      BY <1>2, <2>2, Zenon DEF ExtFreeze, FreezeDevice
    <3> QED BY <1>2, <3>1, <3>2, LookUp, Zenon DEF ExtFreeze
  <2> QED BY <2>1, <2>2, Zenon
<1>3. CASE ExtFreezeThrows
  BY <1>3, LookUp, Zenon
     DEF ExtFreezeThrows, FreezeThrows, FreezeDeviceThrows, IsMountedThrows
<1>4. CASE ExtThaw
  <2>1. CASE is_ext2_
    BY <1>4, <2>1, Zenon DEF ExtThaw
  <2>2. CASE ~is_ext2_
    <3>1. recent /\ ~moved => last_mounted_result_ = mounted
      BY <1>4, <2>2, Zenon DEF ExtThaw, Thaw
    <3>2. PICK answer \in BOOLEAN : IsMounted(answer)
      BY <1>4, <2>2, Zenon DEF ExtThaw, ThawDevice
    <3> QED BY <1>4, <3>1, <3>2, LookUp, Zenon DEF ExtThaw
  <2> QED BY <2>1, <2>2, Zenon
<1>5. CASE ExtThawThrows
  <2>1. moved \/ last_mounted_result_ = mounted
    BY <1>5, Zenon DEF ExtThawThrows, ThawThrows
  <2>2. CASE IsMountedThrows
    BY <1>5, <2>1, <2>2, Zenon DEF ExtThawThrows, IsMountedThrows
  <2>3. CASE IsMounted(TRUE)
    BY <1>5, <2>1, <2>3, LookUp, Zenon DEF ExtThawThrows
  <2> QED BY <1>5, <2>2, <2>3, Zenon DEF ExtThawThrows, ThawDeviceThrows
<1>6. CASE EnterBody \/ ReadBitmap \/ LeaveBody
  BY <1>6, Zenon
     DEF EnterBody, StartRun, ReadBitmap, LeaveBody, EndRequiredFreezeBlock,
         Stages, vars
<1>7. CASE RunWhileFrozenThrows
  BY <1>7, Zenon DEF RunWhileFrozenThrows, GiveUp, RunThrows, CheckError
<1>8. CASE EndOfScope \/ StartSync
  BY <1>8, Zenon DEF EndOfScope, BeginDestroy, StartSync, Construct
<1>9. CASE DestroyDevice
  BY <1>9, Zenon DEF DestroyDevice, vars
<1>10. CASE NewDevice
  BY <1>10, Zenon DEF NewDevice, Construct, ConstructDevice
<1>11. CASE ChangeAllocation
  BY <1>11, Zenon DEF ChangeAllocation, vars
<1>12. CASE CacheExpires /\ UNCHANGED <<vars, ext>>
  BY <1>12, Zenon DEF CacheExpires, vars
<1>13. CASE ChangeMount /\ UNCHANGED <<vars, ext>>
  BY <1>13, Zenon DEF ChangeMount
<1> QED BY <1>1, <1>2, <1>3, <1>4, <1>5, <1>6, <1>7, <1>8, <1>9, <1>10, <1>11,
           <1>12, <1>13, StepCases, Zenon

\* The thread vouches for a freeze only once it has been made.
LEMMA NextFreezeReal ==
  ASSUME ExtTypeOK, HelperInv, CacheTrue, FreezeReal, [ExtNext]_extVars
  PROVE  FreezeReal'
<1> USE DEF FreezeReal, Vouching, ThreadStep, flags, device, cache, table, ext
<1>1. CASE Quiet
  BY <1>1, Zenon
     DEF Quiet, SetDidFreeze, SetIsFrozen, NotifyOne, Sleep, SetError, Call,
         Attempt, BeginRequiredFreezeBlock, Join, Spawn, TestCondition, Wait,
         SpuriousWakeup, CheckError, Destroy, vars
<1>2. CASE ExtFreeze
  <2>1. CASE is_ext2_
    BY <1>2, <2>1, Zenon DEF ExtFreeze
  <2>2. CASE ~is_ext2_
    <3>1. recent /\ ~moved => last_mounted_result_ = mounted
      BY <1>2, <2>2, Zenon DEF ExtFreeze, Freeze, CacheTrue, Failing
    <3>2. CASE IsMounted(TRUE) /\ sb_frozen' = TRUE
      BY <1>2, <3>2, Zenon DEF ExtFreeze
    <3>3. CASE IsMounted(FALSE)
      BY <1>2, <3>1, <3>3, LookUp, Zenon DEF ExtFreeze
    <3> QED BY <1>2, <2>2, <3>2, <3>3, Zenon DEF ExtFreeze, FreezeDevice
  <2> QED BY <2>1, <2>2, Zenon
<1>3. CASE ExtFreezeThrows \/ ExtThaw \/ ExtThawThrows
  BY <1>3, Zenon
     DEF ExtFreezeThrows, FreezeThrows, ExtThaw, Thaw, ExtThawThrows,
         ThawThrows
<1>4. CASE \/ EnterBody \/ ReadBitmap \/ LeaveBody \/ RunWhileFrozenThrows
           \/ EndOfScope
  BY <1>4, Zenon
     DEF EnterBody, StartRun, ReadBitmap, LeaveBody, EndRequiredFreezeBlock,
         RunWhileFrozenThrows, GiveUp, RunThrows, CheckError, EndOfScope,
         BeginDestroy, vars
<1>5. CASE StartSync \/ DestroyDevice \/ NewDevice
  BY <1>5, Zenon
     DEF StartSync, DestroyDevice, NewDevice, Construct, HelperInv, vars,
         CallerStep
<1>6. CASE ChangeAllocation
  BY <1>6, Zenon DEF ChangeAllocation, vars
<1>7. CASE CacheExpires /\ UNCHANGED <<vars, ext>>
  BY <1>7, Zenon DEF CacheExpires, vars
<1>8. CASE ChangeMount /\ UNCHANGED <<vars, ext>>
  BY <1>8, Zenon DEF ChangeMount
<1> QED BY <1>1, <1>2, <1>3, <1>4, <1>5, <1>6, <1>7, <1>8, StepCases, Zenon

\* A freeze is remembered until it is undone or excused.
LEMMA NextFreezeOwned ==
  ASSUME ExtTypeOK, Stages, HelperInv, FreezeOwned, [ExtNext]_extVars
  PROVE  FreezeOwned'
<1> USE DEF FreezeOwned, device, cache, table, ext, ExtTypeOK, MountableTypeOK,
           IsMounted, IsMountedThrows
<1>1. CASE Quiet
  BY <1>1, Zenon DEF Quiet
<1>2. CASE ExtFreeze \/ ExtFreezeThrows
  BY <1>2, Zenon
     DEF ExtFreeze, FreezeDevice, ExtFreezeThrows, FreezeDeviceThrows, Freeze,
         ThreadStep, Stages, HelperInv
<1>3. CASE ExtThaw \/ ExtThawThrows
  BY <1>3, Zenon DEF ExtThaw, ThawDevice, ExtThawThrows, ThawDeviceThrows
<1>4. CASE \/ EnterBody \/ ReadBitmap \/ LeaveBody \/ RunWhileFrozenThrows
           \/ EndOfScope \/ StartSync
  BY <1>4, Zenon
     DEF EnterBody, ReadBitmap, LeaveBody, Advance, RunWhileFrozenThrows,
         EndOfScope, StartSync
<1>5. CASE DestroyDevice
  BY <1>5, Zenon DEF DestroyDevice, DestructDevice, ThawDevice
<1>6. CASE NewDevice
  BY <1>6, Zenon DEF NewDevice, ConstructDevice
<1>7. CASE ChangeAllocation
  BY <1>7, Zenon DEF ChangeAllocation
<1>8. CASE CacheExpires /\ UNCHANGED <<vars, ext>>
  BY <1>8, Zenon DEF CacheExpires
<1>9. CASE ChangeMount /\ UNCHANGED <<vars, ext>>
  BY <1>9, Zenon DEF ChangeMount
<1> QED BY <1>1, <1>2, <1>3, <1>4, <1>5, <1>6, <1>7, <1>8, <1>9, StepCases,
           Zenon

-----------------------------------------------------------------------------
(* The scan                                                                 *)

(* The bitmaps read so far in a body that may still be accepted are those   *)
(* of the disk as it is.                                                    *)
MapRead ==
  (/\ caller = "body" /\ position = "open"
   /\ thread \in {"set_is_frozen", "notify", "sleep"}
   /\ ~is_ext2_ /\ ~moved)
  => block_map \cap Before(bitmaps_read) = allocated \cap Before(bitmaps_read)

(* Once they are accepted they stay those of that moment,                   *)
MapKept ==
  position \in {"super", "groups", "scanned"} /\ ~unsure =>
    block_map \cap Blocks = as_of

(* and the sectors found are those of the groups that have been done.       *)
SectorsFound ==
  position \in {"groups", "scanned"} /\ ~unsure =>
    sectors = {0, 1} \union SectorsOf(as_of \cap Before(i))

\* No block changes under a body that may still be accepted.
LEMMA NextMapRead ==
  ASSUME ExtTypeOK, Stages, HelperInv, FreezeReal, MapRead, [ExtNext]_extVars
  PROVE  MapRead'
<1> USE DEF MapRead, CallerStep, ThreadStep, device, cache, ext, scan, disk
<1>1. CASE Quiet
  BY <1>1, Zenon
     DEF Quiet, SetDidFreeze, SetIsFrozen, NotifyOne, Sleep, SetError, Call,
         Attempt, BeginRequiredFreezeBlock, Join, Spawn, TestCondition, Wait,
         SpuriousWakeup, CheckError, Destroy, vars, HelperInv
<1>2. CASE ExtFreeze \/ ExtFreezeThrows \/ ExtThaw \/ ExtThawThrows
  BY <1>2, Zenon
     DEF ExtFreeze, Freeze, ExtFreezeThrows, FreezeThrows, ExtThaw, Thaw,
         ExtThawThrows, ThawThrows
<1>3. CASE EnterBody
  BY <1>3, AllGroups, Zenon DEF EnterBody
<1>4. CASE ReadBitmap
  <2> DEFINE r == bitmaps_read
             P == Before(r)
             G == Group(r)
  <2>1. r \in Nat
    BY GroupsReachEnd DEF ExtTypeOK
  <2>2. Before(r + 1) = P \union (G \cap Blocks) /\ P \cap G = {}
    BY <2>1, NextGroup, Zenon
  <2>3. bitmaps_read' = r + 1 /\ UNCHANGED <<allocated, position, is_ext2_>>
    BY <1>4, Zenon DEF ReadBitmap
  <2>4. block_map' = (block_map \ G) \union ((allocated \union Padding) \cap G)
    BY <1>4, Zenon DEF ReadBitmap
  <2>5. allocated \subseteq Blocks /\ Padding \cap Blocks = {} /\ P \subseteq Blocks
    BY Zenon DEF ExtTypeOK, Padding, Before
  <2> HIDE DEF r, P, G
  <2>6. block_map \cap P = allocated \cap P =>
          block_map' \cap (P \union (G \cap Blocks)) =
            allocated \cap (P \union (G \cap Blocks))
    BY <2>2, <2>4, <2>5, Zenon
  <2> QED BY <1>4, <2>2, <2>3, <2>6 DEF ReadBitmap, vars, r, P
<1>5. CASE LeaveBody
  BY <1>5, Zenon DEF LeaveBody, EndRequiredFreezeBlock
<1>6. CASE RunWhileFrozenThrows
  BY <1>6, Zenon DEF RunWhileFrozenThrows
<1>7. CASE EndOfScope \/ StartSync \/ NewDevice
  BY <1>7, Zenon DEF EndOfScope, BeginDestroy, StartSync, Construct, NewDevice
<1>8. CASE DestroyDevice
  BY <1>8, Zenon DEF DestroyDevice
<1>9. CASE ChangeAllocation
  BY <1>9, Zenon DEF ChangeAllocation, vars, FreezeReal, Vouching
<1>10. CASE CacheExpires /\ UNCHANGED <<vars, ext>>
  BY <1>10, Zenon DEF CacheExpires, vars
<1>11. CASE ChangeMount /\ UNCHANGED <<vars, ext>>
  BY <1>11, Zenon DEF ChangeMount
<1> QED BY <1>1, <1>2, <1>3, <1>4, <1>5, <1>6, <1>7, <1>8, <1>9, <1>10, <1>11,
           StepCases, Zenon

\* A step that moves neither the position nor the results, or that ends them.
LEMMA ScanSteps ==
  ASSUME [ExtNext]_extVars
  PROVE  \/ UNCHANGED <<position, block_map, i, sectors, as_of, unsure>>
         \/ ReadBitmap
         \/ LeaveBody /\ Advance /\ accepted'
         \/ position' \in {"over", "sync", "closed", "open"}
<1> USE DEF ext, scan
<1>1. CASE Quiet \/ ExtFreeze \/ ExtFreezeThrows \/ ExtThaw \/ ExtThawThrows
  BY <1>1, Zenon DEF Quiet, ExtFreeze, ExtFreezeThrows, ExtThaw, ExtThawThrows
<1>2. CASE EnterBody \/ LeaveBody \/ RunWhileFrozenThrows
  BY <1>2, Zenon DEF EnterBody, LeaveBody, RunWhileFrozenThrows
<1>3. CASE EndOfScope \/ StartSync \/ DestroyDevice \/ NewDevice
  BY <1>3, Zenon DEF EndOfScope, StartSync, DestroyDevice, NewDevice
<1>4. CASE ChangeAllocation
  BY <1>4, Zenon DEF ChangeAllocation
<1>5. CASE (CacheExpires \/ ChangeMount) /\ UNCHANGED <<vars, ext>>
  BY <1>5, Zenon
<1> QED BY <1>1, <1>2, <1>3, <1>4, <1>5, StepCases, Zenon

\* The accepted bitmaps are those of the moment of their acceptance.
LEMMA NextMapKept ==
  ASSUME ExtTypeOK, Stages, HelperInv, MapRead, MapKept, [ExtNext]_extVars
  PROVE  MapKept'
<1>1. CASE UNCHANGED <<position, block_map, i, sectors, as_of, unsure>>
  BY <1>1, Zenon DEF MapKept
<1>2. CASE ReadBitmap
  BY <1>2, Zenon DEF ReadBitmap, MapKept
<1>3. CASE LeaveBody /\ Advance /\ accepted'
  <2>1. caller = "body" /\ thread \in {"notify", "sleep"} /\ UNCHANGED block_map
    BY <1>3, Zenon DEF LeaveBody, EndRequiredFreezeBlock, CallerStep, HelperInv
  <2>2. CASE position = "open"
    <3>1. bitmaps_read = group_desc_count
      BY <1>3, <2>2, Zenon DEF LeaveBody, BodyDone
    <3>2. as_of' = allocated /\ unsure' = (is_ext2_ \/ moved)
      BY <1>3, <2>2, Zenon DEF Advance
    <3> QED BY <2>1, <2>2, <3>1, <3>2, AllGroups, Zenon
               DEF MapRead, MapKept, ExtTypeOK
  <2>3. CASE position # "open"
    BY <1>3, <2>1, <2>3 DEF Advance, MapKept
  <2> QED BY <2>2, <2>3, Zenon
<1>4. CASE position' \in {"over", "sync", "closed", "open"}
  BY <1>4, Zenon DEF MapKept
<1> QED BY <1>1, <1>2, <1>3, <1>4, ScanSteps, Zenon

\* Each group adds the sectors of its blocks.
LEMMA NextSectorsFound ==
  ASSUME ExtTypeOK, Stages, MapKept, SectorsFound, [ExtNext]_extVars
  PROVE  SectorsFound'
<1>1. CASE UNCHANGED <<position, block_map, i, sectors, as_of, unsure>>
  BY <1>1, Zenon DEF SectorsFound
<1>2. CASE ReadBitmap
  BY <1>2, Zenon DEF ReadBitmap, SectorsFound
<1>3. CASE LeaveBody /\ Advance /\ accepted'
  <2>1. CASE position = "super"
    <3>1. SectorsOf({}) = {}
      BY Zenon DEF SectorsOf
    <3> QED BY <1>3, <2>1, <3>1, AllGroups, Zenon DEF Advance, SectorsFound
  <2>2. CASE position = "groups"
    <3>1. i \in Nat /\ i' = i + 1 /\ UNCHANGED <<as_of, unsure>>
      BY <1>3, <2>2, GroupsReachEnd DEF Advance, ExtTypeOK
    <3>2. sectors' = sectors \union SectorsOf(block_map \cap Group(i) \cap Blocks)
      BY <1>3, <2>2, BitsAreBlocks, Zenon DEF Advance, InsertGroup
    <3> SUFFICES ASSUME ~unsure
                 PROVE  sectors' = {0, 1} \union SectorsOf(as_of \cap Before(i + 1))
      BY <3>1, Zenon DEF SectorsFound
    <3>3. as_of \cap Before(i + 1) =
            (as_of \cap Before(i)) \union (block_map \cap Group(i) \cap Blocks)
      BY <2>2, <3>1, NextGroup, Zenon DEF MapKept
    <3> QED BY <2>2, <3>2, <3>3, SectorsOfUnion DEF SectorsFound
  <2>3. CASE position \notin {"super", "groups"}
    BY <1>3, <2>3, Zenon DEF Advance, SectorsFound
  <2> QED BY <2>1, <2>2, <2>3, Zenon
<1>4. CASE position' \in {"over", "sync", "closed", "open"}
  BY <1>4, Zenon DEF SectorsFound
<1> QED BY <1>1, <1>2, <1>3, <1>4, ScanSteps, Zenon

-----------------------------------------------------------------------------
(* The theorems about the device                                            *)

ExtInv ==
  /\ HelperInv /\ ExtTypeOK /\ Stages
  /\ CacheTrue /\ FreezeReal /\ FreezeOwned
  /\ MapRead /\ MapKept /\ SectorsFound

\* The invariant holds of a device that has just been made.
LEMMA InitExtInv == ExtInit => ExtInv
<1> SUFFICES ASSUME ExtInit PROVE ExtInv
  BY Zenon
<1>1. HelperInv /\ ExtTypeOK /\ Stages
  BY InitHelperInv, InitTypes, Zenon DEF ExtInit
<1>2. CacheTrue /\ FreezeReal /\ FreezeOwned /\ MapRead /\ MapKept /\ SectorsFound
  BY Zenon
     DEF ExtInit, Init, MountableInit, CacheTrue, FreezeReal, Vouching,
         FreezeOwned, MapRead, MapKept, SectorsFound
<1> QED BY <1>1, <1>2, Zenon DEF ExtInv

\* Every step preserves it.
LEMMA NextExtInv == ExtInv /\ [ExtNext]_extVars => ExtInv'
  BY HelperStep, NextHelperInv, NextTypes, NextStages, NextCacheTrue,
     NextFreezeReal, NextFreezeOwned, NextMapRead, NextMapKept,
     NextSectorsFound, Zenon
     DEF ExtInv

\* It holds in every reachable state.
LEMMA ExtInvariance == ExtSpec => []ExtInv
  BY InitExtInv, NextExtInv, PTL DEF ExtSpec

(* Every reachable state of the device, the mount cache and the scan is     *)
(* well typed: the loop over the groups stays within them, and no sector is *)
(* returned that lies beyond the blocks, but for sectors 0 and 1.           *)
THEOREM DeviceTypeCorrect == ExtSpec => []ExtTypeOK
<1>1. ExtInv => ExtTypeOK BY Zenon DEF ExtInv
<1> QED BY <1>1, ExtInvariance, PTL

(* A freeze that FreezeHelper vouches for was really made, whatever         *)
(* look-ups, freezes and thaws failed, unless the device is ext2 or was     *)
(* mounted or unmounted since IsMounted looked.                             *)
THEOREM FreezesAreReal == ExtSpec => []TrulyFrozen
<1>1. ExtInv => TrulyFrozen
  BY Zenon DEF ExtInv, HelperInv, FreezeReal, Vouching, TrulyFrozen
<1> QED BY <1>1, ExtInvariance, PTL

(* ~MountableBlockDevice leaves no file system frozen that was not          *)
(* unmounted while frozen, unless its own Thaw() throws.                    *)
THEOREM DeviceLeavesThawed == ExtSpec => []LeftThawed
<1>1. ExtInv => LeftThawed
  BY Zenon DEF ExtInv, FreezeOwned, LeftThawed
<1> QED BY <1>1, ExtInvariance, PTL

(* GetInUseSectors returns the used sectors of one moment, for every        *)
(* geometry of the file system and however it changes between the freezes.  *)
THEOREM SnapshotOfOneMoment == ExtSpec => []SnapshotExact
<1>1. ExtInv => SnapshotExact
  <2> SUFFICES ASSUME ExtInv, position = "scanned", ~unsure
               PROVE  sectors = {0, 1} \union SectorsOf(as_of)
    BY Zenon DEF SnapshotExact
  <2>1. as_of \cap Before(i) = as_of
    BY AllGroups, Zenon DEF ExtInv, Stages, ExtTypeOK
  <2> QED BY <2>1, Zenon DEF ExtInv, SectorsFound
<1> QED BY <1>1, ExtInvariance, PTL

(* What FreezeHelper promises holds within the device as well: no double    *)
(* freeze, nothing left behind, and a body accepted only if it ran within   *)
(* one freeze.                                                              *)
THEOREM DeviceKeepsPromises ==
  ExtSpec => /\ []NeverFreezesTwice
             /\ []LeavesNothingBehind
             /\ KeepsItsWord
  BY DeviceRunsHelper, NoDoubleFreeze, NothingLeftBehind, WordKept

=============================================================================
