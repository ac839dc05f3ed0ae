---------------------------- MODULE FreezeHelper ----------------------------
(***************************************************************************)
(* freeze_helper/freeze_helper.{h,cc}: the caller's thread, which runs a   *)
(* function while the file system is frozen, and the unfreeze thread,      *)
(* which freezes it, waits and thaws it.  Between them are three atomic    *)
(* flags and a condition variable; each access to one of them, and each    *)
(* call of Freeze and Thaw, is a step.                                     *)
(*                                                                         *)
(* One object lives at a time: DoSync makes one, GetInUseSectors another   *)
(* before it, and only one backup works on a device.                       *)
(***************************************************************************)
EXTENDS Naturals

CONSTANTS
  MaxAttempts,   \* 10 in the code
  FreezeFails,   \* may Freeze() throw?
  ThawFails      \* may Thaw() throw?

ASSUME FreezeAssumption ==
  /\ MaxAttempts \in Nat \ {0}
  /\ FreezeFails \in BOOLEAN
  /\ ThawFails \in BOOLEAN

VARIABLES
  is_frozen_, did_freeze_, was_error_,
  caller,            \* where the caller's thread is
  thread,            \* where unfreeze_thread_ is; "none" if not joinable
  freeze_attempts,
  fs_frozen,         \* Freeze() has returned, and no Thaw() since
  kept,              \* history: frozen since to_run was started
  accepted,          \* history: the last to_run was accepted
  thaw_failed        \* history: a Thaw() threw

flags == <<is_frozen_, did_freeze_, was_error_>>
record == <<kept, accepted, thaw_failed>>
vars == <<flags, caller, thread, freeze_attempts, fs_frozen, record>>

CallerStates == {"idle", "attempt", "begin", "join", "spawn", "test",
                 "before_wait", "waiting", "check_error", "run", "body",
                 "destroy", "gone"}
ThreadStates == {"none", "freeze", "set_did_freeze", "set_is_frozen",
                 "notify", "sleep", "thaw", "set_error", "notify_error",
                 "done"}

TypeOK ==
  /\ is_frozen_ \in BOOLEAN /\ did_freeze_ \in BOOLEAN /\ was_error_ \in BOOLEAN
  /\ caller \in CallerStates
  /\ thread \in ThreadStates
  /\ freeze_attempts \in 0 .. MaxAttempts
  /\ fs_frozen \in BOOLEAN
  /\ kept \in BOOLEAN /\ accepted \in BOOLEAN /\ thaw_failed \in BOOLEAN

Init ==
  /\ is_frozen_ = FALSE
  /\ did_freeze_ \in BOOLEAN      \* not initialized
  /\ was_error_ = FALSE
  /\ caller = "idle"
  /\ thread = "none"
  /\ freeze_attempts = 0
  /\ fs_frozen = FALSE
  /\ kept = FALSE /\ accepted = FALSE /\ thaw_failed = FALSE

-----------------------------------------------------------------------------
(* RunWhileFrozen *)

CallerStep(from, to) == caller = from /\ caller' = to

Call ==
  /\ CallerStep("idle", "attempt")
  /\ freeze_attempts' = 0
  /\ UNCHANGED <<flags, thread, fs_frozen, record>>

Attempt ==
  /\ freeze_attempts < MaxAttempts
  /\ CallerStep("attempt", "begin")
  /\ freeze_attempts' = freeze_attempts + 1
  /\ UNCHANGED <<flags, thread, fs_frozen, record>>

GiveUp ==
  /\ freeze_attempts = MaxAttempts
  /\ CallerStep("attempt", "idle")
  /\ UNCHANGED <<flags, thread, freeze_attempts, fs_frozen, record>>

StartRun ==
  /\ CallerStep("run", "body")
  /\ kept' = fs_frozen
  /\ accepted' = FALSE
  /\ UNCHANGED <<flags, thread, freeze_attempts, fs_frozen, thaw_failed>>

\* mutant: any body that ends is taken to have been frozen
EndRequiredFreezeBlockBlind ==
  /\ CallerStep("body", "idle")
  /\ accepted' = TRUE
  /\ kept' = FALSE
  /\ UNCHANGED <<flags, thread, freeze_attempts, fs_frozen, thaw_failed>>

EndRequiredFreezeBlock ==
  /\ CallerStep("body", IF is_frozen_ THEN "idle" ELSE "attempt")
  /\ accepted' = is_frozen_
  /\ kept' = FALSE
  /\ UNCHANGED <<flags, thread, freeze_attempts, fs_frozen, thaw_failed>>

RunThrows ==
  /\ CallerStep("body", "idle")
  /\ kept' = FALSE
  /\ UNCHANGED <<flags, thread, freeze_attempts, fs_frozen, accepted,
                 thaw_failed>>

-----------------------------------------------------------------------------
(* BeginRequiredFreezeBlock *)

BeginRequiredFreezeBlock ==
  /\ CallerStep("begin", IF is_frozen_ THEN "run" ELSE "join")
  /\ UNCHANGED <<flags, thread, freeze_attempts, fs_frozen, record>>

\* mutant: the last thread is left to itself
JoinNoOne ==
  /\ CallerStep("join", "spawn")
  /\ UNCHANGED <<flags, thread, freeze_attempts, fs_frozen, record>>

Join ==
  /\ CallerStep("join", "spawn")
  /\ thread \in {"none", "done"}
  /\ thread' = "none"
  /\ UNCHANGED <<flags, freeze_attempts, fs_frozen, record>>

Spawn ==
  /\ CallerStep("spawn", "test")
  /\ did_freeze_' = FALSE
  /\ was_error_' = FALSE
  /\ thread' = "freeze"
  /\ UNCHANGED <<is_frozen_, freeze_attempts, fs_frozen, record>>

TestCondition ==
  /\ CallerStep("test", IF did_freeze_ \/ was_error_ THEN "check_error"
                                                    ELSE "before_wait")
  /\ UNCHANGED <<flags, thread, freeze_attempts, fs_frozen, record>>

\* continue_var_.wait; the notifier does not take continue_mutex_
Wait ==
  /\ CallerStep("before_wait", "waiting")
  /\ UNCHANGED <<flags, thread, freeze_attempts, fs_frozen, record>>

SpuriousWakeup ==
  /\ CallerStep("waiting", "test")
  /\ UNCHANGED <<flags, thread, freeze_attempts, fs_frozen, record>>

CheckError ==
  /\ CallerStep("check_error", IF was_error_ THEN "idle" ELSE "run")
  /\ UNCHANGED <<flags, thread, freeze_attempts, fs_frozen, record>>

-----------------------------------------------------------------------------
(* The unfreeze thread *)

ThreadStep(from, to) == thread = from /\ thread' = to

\* A second Freeze() without a Thaw() throws, unless the device has been
\* unmounted meanwhile; see MountableBlockDevice.
Freeze ==
  /\ ThreadStep("freeze", "set_did_freeze")
  /\ fs_frozen' = TRUE
  /\ UNCHANGED <<flags, caller, freeze_attempts, record>>

FreezeThrows ==
  /\ FreezeFails \/ fs_frozen
  /\ ThreadStep("freeze", "set_error")
  /\ UNCHANGED <<flags, caller, freeze_attempts, fs_frozen, record>>

SetDidFreeze ==
  /\ ThreadStep("set_did_freeze", "set_is_frozen")
  /\ did_freeze_' = TRUE
  /\ UNCHANGED <<is_frozen_, was_error_, caller, freeze_attempts, fs_frozen,
                 record>>

SetIsFrozen ==
  /\ ThreadStep("set_is_frozen", "notify")
  /\ is_frozen_' = TRUE
  /\ UNCHANGED <<did_freeze_, was_error_, caller, freeze_attempts, fs_frozen,
                 record>>

\* notify_one wakes the caller only if it waits
NotifyOne(from, to) ==
  /\ ThreadStep(from, to)
  /\ caller' = IF caller = "waiting" THEN "test" ELSE caller
  /\ UNCHANGED <<flags, freeze_attempts, fs_frozen, record>>

\* the sleep, and is_frozen_ = false after it
Sleep ==
  /\ ThreadStep("sleep", "thaw")
  /\ is_frozen_' = FALSE
  /\ UNCHANGED <<did_freeze_, was_error_, caller, freeze_attempts, fs_frozen,
                 record>>

\* mutant: the thread ends without thawing
ThawForgotten ==
  /\ ThreadStep("thaw", "done")
  /\ UNCHANGED <<flags, caller, freeze_attempts, fs_frozen, record>>

Thaw ==
  /\ ThreadStep("thaw", "done")
  /\ fs_frozen' = FALSE
  /\ kept' = FALSE
  /\ UNCHANGED <<flags, caller, freeze_attempts, accepted, thaw_failed>>

ThawThrows ==
  /\ ThawFails
  /\ ThreadStep("thaw", "set_error")
  /\ thaw_failed' = TRUE
  /\ UNCHANGED <<flags, caller, freeze_attempts, fs_frozen, kept, accepted>>

SetError ==
  /\ ThreadStep("set_error", "notify_error")
  /\ was_error_' = TRUE
  /\ UNCHANGED <<is_frozen_, did_freeze_, caller, freeze_attempts, fs_frozen,
                 record>>

-----------------------------------------------------------------------------
(* ~FreezeHelper, and the constructor of the next one *)

BeginDestroy ==
  /\ CallerStep("idle", "destroy")
  /\ UNCHANGED <<flags, thread, freeze_attempts, fs_frozen, record>>

\* mutant: the thread is detached
DestroyDetaching ==
  /\ CallerStep("destroy", "gone")
  /\ UNCHANGED <<flags, thread, freeze_attempts, fs_frozen, record>>

Destroy ==
  /\ CallerStep("destroy", "gone")
  /\ thread \in {"none", "done"}
  /\ thread' = "none"
  /\ UNCHANGED <<flags, freeze_attempts, fs_frozen, record>>

Construct ==
  /\ CallerStep("gone", "idle")
  /\ is_frozen_' = FALSE
  /\ was_error_' = FALSE
  /\ did_freeze_' \in BOOLEAN
  /\ UNCHANGED <<thread, freeze_attempts, fs_frozen, record>>

-----------------------------------------------------------------------------

CallerNext ==
  \/ Attempt \/ GiveUp \/ StartRun \/ EndRequiredFreezeBlock \/ RunThrows
  \/ BeginRequiredFreezeBlock \/ Join \/ Spawn \/ TestCondition \/ Wait
  \/ CheckError \/ Destroy

ThreadNext ==
  \/ Freeze \/ FreezeThrows \/ SetDidFreeze \/ SetIsFrozen
  \/ NotifyOne("notify", "sleep")
  \/ Sleep \/ Thaw \/ ThawThrows \/ SetError
  \/ NotifyOne("notify_error", "done")

Next ==
  \/ CallerNext
  \/ ThreadNext
  \/ Call \/ BeginDestroy \/ Construct
  \/ SpuriousWakeup

Spec == Init /\ [][Next]_vars

\* Both threads run on; a spurious wakeup may never come.
FairSpec == Spec /\ WF_vars(CallerNext) /\ WF_vars(ThreadNext)

-----------------------------------------------------------------------------
(* Properties *)

(* A function RunWhileFrozen accepts ran from start to end within one       *)
(* freeze: is_frozen_ at its end vouches for the time since                 *)
(* BeginRequiredFreezeBlock.                                                *)
Window == INSTANCE FreezeWindow WITH in_body <- (caller = "body")
KeepsItsWord == Window!WindowSpec

(* The object never asks for a freeze of the file system while it holds it  *)
(* frozen itself: only a Thaw that failed leaves one behind.                *)
NeverFreezesTwice == thread = "freeze" /\ fs_frozen => thaw_failed

(* When the object is gone no thread of its is left to touch it, and the    *)
(* file system is thawed unless a Thaw failed.                              *)
LeavesNothingBehind ==
  caller = "gone" => thread = "none" /\ (fs_frozen => thaw_failed)

(* The file system does not stay frozen, whatever the caller does, unless   *)
(* a Thaw fails: the unfreeze thread needs nothing from the caller.         *)
AlwaysThaws == fs_frozen ~> (~fs_frozen \/ thaw_failed)

(* RunWhileFrozen comes back: once the freeze has been made or has failed,  *)
(* the caller is woken up.                                                  *)
RunReturns == caller = "attempt" ~> caller = "idle"

=============================================================================
