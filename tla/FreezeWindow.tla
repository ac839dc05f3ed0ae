---------------------------- MODULE FreezeWindow ----------------------------
(***************************************************************************)
(* What FreezeHelper promises its caller: a body is accepted as run while  *)
(* frozen only if the file system was frozen all the way from its start    *)
(* to its end; whoever runs no body is told nothing.                       *)
(***************************************************************************)

VARIABLES
  fs_frozen,   \* the file system is frozen
  in_body,     \* the caller's function is running
  kept,        \* it has been frozen since the function was started
  accepted     \* the last body was accepted

window == <<fs_frozen, in_body, kept, accepted>>

WindowInit == ~fs_frozen /\ ~in_body /\ ~kept /\ ~accepted

FreezeFs ==
  /\ ~fs_frozen /\ fs_frozen'
  /\ UNCHANGED <<in_body, kept, accepted>>

ThawFs ==
  /\ fs_frozen /\ ~fs_frozen'
  /\ kept' = FALSE
  /\ UNCHANGED <<in_body, accepted>>

StartBody ==
  /\ ~in_body /\ in_body'
  /\ kept' = fs_frozen
  /\ accepted' = FALSE
  /\ UNCHANGED fs_frozen

AcceptBody ==
  /\ in_body /\ ~in_body'
  /\ kept
  /\ accepted' = TRUE
  /\ kept' = FALSE
  /\ UNCHANGED fs_frozen

RejectBody ==
  /\ in_body /\ ~in_body'
  /\ kept' = FALSE
  /\ UNCHANGED <<fs_frozen, accepted>>

WindowNext == FreezeFs \/ ThawFs \/ StartBody \/ AcceptBody \/ RejectBody

WindowSpec == WindowInit /\ [][WindowNext]_window

=============================================================================
