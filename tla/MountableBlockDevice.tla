------------------------ MODULE MountableBlockDevice ------------------------
(***************************************************************************)
(* block_device/mountable_block_device.{h,cc}: the Freeze and Thaw that    *)
(* the unfreeze thread of FreezeHelper calls.  Whether there is a file     *)
(* system to freeze is looked up in /proc/mounts at most every 10 seconds, *)
(* while the administrator may mount and unmount at any moment.            *)
(*                                                                         *)
(* IsMounted, OpenMount and the ioctl are one step: the descriptor keeps   *)
(* the file system mounted during the ioctl, and a change between the      *)
(* look-up and the open ends in an exception, as a failed open does.       *)
(***************************************************************************)
EXTENDS FreezeHelper

CONSTANT MaxMounts     \* bound: how often the device is mounted or unmounted

ASSUME MountsAssumption == MaxMounts \in Nat

VARIABLES
  device_is_frozen_,     \* MountableBlockDevice::is_frozen_
  last_mounted_result_,
  recent,       \* last_mount_check_time_ is at most 10 seconds ago
  mounted,      \* /proc/mounts lists the device
  sb_frozen,    \* the kernel has the file system frozen, mounted or not
  mounts,       \* mounts and unmounts to come
  moved,        \* history: (un)mounted since the device looked
  excused       \* history: left frozen by an unmount or the last Thaw()

cache == <<last_mounted_result_, recent, moved>>
device == <<device_is_frozen_, cache, sb_frozen, excused>>
table == <<mounted, mounts>>

MountableTypeOK ==
  /\ device_is_frozen_ \in BOOLEAN
  /\ last_mounted_result_ \in BOOLEAN /\ recent \in BOOLEAN
  /\ mounted \in BOOLEAN /\ sb_frozen \in BOOLEAN
  /\ mounts \in 0 .. MaxMounts
  /\ moved \in BOOLEAN /\ excused \in BOOLEAN

\* MountableBlockDevice(path), of a file system that may be in use
MountableInit ==
  /\ device_is_frozen_ = FALSE
  /\ last_mounted_result_ = FALSE
  /\ recent = FALSE      \* last_mount_check_time_ is 0
  /\ mounted \in BOOLEAN
  /\ sb_frozen = FALSE
  /\ mounts = MaxMounts
  /\ moved = FALSE
  /\ excused = FALSE

-----------------------------------------------------------------------------

\* IsMounted returns answer
IsMounted(answer) ==
  /\ answer = (IF recent THEN last_mounted_result_ ELSE mounted)
  /\ recent' = TRUE
  /\ last_mounted_result_' = answer
  /\ moved' = (recent /\ moved)

\* GetMountedDevices throws: the time of the check is set, its result is not.
IsMountedThrows ==
  /\ ~recent
  /\ recent' = TRUE
  /\ UNCHANGED <<last_mounted_result_, moved>>

\* Freeze() returns; FIFREEZE fails on a file system that is frozen.
FreezeDevice ==
  /\ \/ IsMounted(FALSE) /\ UNCHANGED <<sb_frozen, device_is_frozen_>>
     \/ /\ IsMounted(TRUE)
        /\ mounted /\ ~sb_frozen
        /\ sb_frozen' = TRUE
        /\ device_is_frozen_' = TRUE
  /\ UNCHANGED excused

\* The look-up fails, or GetMountPoint, the open or FIFREEZE after it.
FreezeDeviceThrows ==
  /\ IsMountedThrows \/ IsMounted(TRUE)
  /\ UNCHANGED <<device_is_frozen_, sb_frozen, excused>>

\* Thaw() returns; FITHAW fails on a file system that is not frozen.
ThawDevice ==
  /\ \/ IsMounted(FALSE) /\ UNCHANGED sb_frozen
     \/ IsMounted(TRUE) /\ mounted /\ sb_frozen /\ sb_frozen' = FALSE
  /\ device_is_frozen_' = FALSE
  /\ excused' = (excused /\ sb_frozen')

\* mutant: the flag is cleared before the ioctl
ThawDeviceThrowsCleared ==
  /\ IsMountedThrows \/ IsMounted(TRUE)
  /\ device_is_frozen_' = FALSE
  /\ UNCHANGED <<sb_frozen, excused>>

ThawDeviceThrows ==
  /\ IsMountedThrows \/ IsMounted(TRUE)
  /\ UNCHANGED <<device_is_frozen_, sb_frozen, excused>>

\* ~MountableBlockDevice; an exception of its Thaw() is only logged
DestructDevice ==
  \/ ~device_is_frozen_ /\ UNCHANGED device
  \/ device_is_frozen_ /\ ThawDevice
  \/ /\ device_is_frozen_
     /\ IsMountedThrows \/ IsMounted(TRUE)
     /\ excused' = sb_frozen
     /\ UNCHANGED <<device_is_frozen_, sb_frozen>>

ConstructDevice ==
  /\ device_is_frozen_' = FALSE
  /\ last_mounted_result_' = FALSE
  /\ recent' = FALSE
  /\ moved' = FALSE
  /\ UNCHANGED <<sb_frozen, excused>>

-----------------------------------------------------------------------------
(* The clock, and the administrator *)

CacheExpires ==
  /\ recent
  /\ recent' = FALSE
  /\ UNCHANGED <<device_is_frozen_, last_mounted_result_, moved, sb_frozen,
                 excused, table>>

\* A frozen file system that is unmounted stays frozen in the kernel.
ChangeMount ==
  /\ mounts > 0
  /\ mounts' = mounts - 1
  /\ mounted' = ~mounted
  /\ moved' = TRUE
  /\ excused' = (excused \/ (mounted /\ sb_frozen))
  /\ UNCHANGED <<device_is_frozen_, last_mounted_result_, recent, sb_frozen>>

=============================================================================
