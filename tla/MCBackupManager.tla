-------------------------- MODULE MCBackupManager --------------------------
(* A small instance of BackupManager for TLC.                               *)
EXTENDS BackupManager

CONSTANTS h1, h2, j1, j2, d1, d2

TwoHandlers == {h1, h2}
TwoJobs == {j1, j2}
TwoDevices == {d1, d2}

SmallRequests == {<<d1>>, <<d2>>, <<d1, d2>>, <<d1, d1>>}

=============================================================================
