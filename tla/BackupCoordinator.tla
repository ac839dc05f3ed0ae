------------------------- MODULE BackupCoordinator -------------------------
(***************************************************************************)
(* backup/backup_coordinator.{h,cc}: the counter that lets the             *)
(* synchronizers of one backup finish together, with cancellation and a    *)
(* list of fatal errors.  Every method runs under mutex_, so each is one   *)
(* step.  The module declares the object's state and its methods; Backup   *)
(* composes it with the threads that call it.                              *)
(*                                                                         *)
(* cond_variable_ carries no state of its own: every write that can make   *)
(* the predicate of WaitUntilFinished true is made under mutex_ and        *)
(* notifies, so a waiter behaves as one that sees the predicate at some    *)
(* moment before its timeout, or sees it false at the timeout.             *)
(***************************************************************************)
EXTENDS Integers, Sequences, FiniteSets

CONSTANTS
  Workers,      \* the syncs of the backup, one thread each
  UIntModulus   \* 2^32 in the code: count_ is an unsigned int

ASSUME CoordinatorAssumption ==
  /\ IsFiniteSet(Workers)
  /\ Workers # {}
  /\ UIntModulus \in Nat
  /\ Cardinality(Workers) < UIntModulus

VARIABLES
  count_,         \* workers that are not done, as the coordinator counts them
  cancelled_,
  fatal_errors_   \* an error is known by the worker it came from

coordinator == <<count_, cancelled_, fatal_errors_>>

CoordinatorTypeOK ==
  /\ count_ \in 0 .. UIntModulus - 1
  /\ cancelled_ \in BOOLEAN
  /\ fatal_errors_ \in Seq(Workers)

CoordinatorInit ==
  /\ count_ = Cardinality(Workers)
  /\ cancelled_ = FALSE
  /\ fatal_errors_ = <<>>

Decrement(n) == IF n = 0 THEN UIntModulus - 1 ELSE n - 1
Increment(n) == IF n = UIntModulus - 1 THEN 0 ELSE n + 1

SignalFinished ==
  /\ count_' = Decrement(count_)
  /\ UNCHANGED <<cancelled_, fatal_errors_>>

\* what SignalMoreWorkToDo returns
MoreWorkPermitted == ~cancelled_ /\ count_ # 0

SignalMoreWorkToDo ==
  /\ count_' = IF MoreWorkPermitted THEN Increment(count_) ELSE count_
  /\ UNCHANGED <<cancelled_, fatal_errors_>>

AddFatalErrorQuietly(w) ==    \* mutant: cancelled_ is not set
  /\ fatal_errors_' = Append(fatal_errors_, w)
  /\ UNCHANGED <<count_, cancelled_>>

AddFatalError(w) ==
  /\ fatal_errors_' = Append(fatal_errors_, w)
  /\ cancelled_' = TRUE
  /\ UNCHANGED count_

Cancel ==
  /\ cancelled_' = TRUE
  /\ UNCHANGED <<count_, fatal_errors_>>

IsCancelled == cancelled_

FinishedIgnoringCancel == count_ = 0   \* mutant: the predicate forgets cancelled_

\* the predicate WaitUntilFinished waits for, and then returns
Finished == count_ = 0 \/ cancelled_

=============================================================================
