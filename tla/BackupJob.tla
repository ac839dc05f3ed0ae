------------------------------ MODULE BackupJob ------------------------------
(***************************************************************************)
(* What a backup promises to whoever started it, without threads or        *)
(* counters: every sync ends, having reached an empty store, failed or     *)
(* given up because the job was stopped, and only then is one verdict      *)
(* published that agrees with how the syncs ended.  Backup implements it.  *)
(***************************************************************************)
CONSTANT Workers

VARIABLES
  status,    \* the published status
  outcome,   \* how each sync ended
  stopped    \* cancelled by a caller or by a failed sync

jobVars == <<status, outcome, stopped>>

Outcome == {"running", "synced", "error", "gave_up"}

JobInit ==
  /\ status = "NOT_STARTED"
  /\ outcome = [w \in Workers |-> "running"]
  /\ stopped = FALSE

Begin ==
  /\ status = "NOT_STARTED"
  /\ status' = "IN_PROGRESS"
  /\ UNCHANGED <<outcome, stopped>>

EndSync(w, o) ==
  /\ status = "IN_PROGRESS"
  /\ outcome[w] = "running"
  /\ o # "running"
  /\ o = "gave_up" => stopped
  /\ outcome' = [outcome EXCEPT ![w] = o]
  /\ stopped' = (stopped \/ o = "error")
  /\ UNCHANGED status

Stop ==
  /\ stopped' = TRUE
  /\ UNCHANGED <<status, outcome>>

Some(o) == \E w \in Workers : outcome[w] = o

Conclude ==
  /\ status = "IN_PROGRESS"
  /\ ~Some("running")
  /\ \/ Some("error") /\ status' = "FAILED"
     \/ ~Some("error") /\ stopped /\ status' = "CANCELLED"
     \/ ~Some("error") /\ ~Some("gave_up") /\ status' = "SUCCEEDED"
  /\ UNCHANGED <<outcome, stopped>>

JobNext ==
  \/ Begin
  \/ \E w \in Workers, o \in Outcome : EndSync(w, o)
  \/ Stop
  \/ Conclude

JobSpec == JobInit /\ [][JobNext]_jobVars

=============================================================================
