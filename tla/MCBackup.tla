------------------------------ MODULE MCBackup ------------------------------
(* Small instances of Backup for TLC: the bounds are in the .cfg files.     *)
EXTENDS Backup

CONSTANTS a, b, x, y,
          MaxWork    \* bound: intervals, in the stores at first or traced later

TwoWorkers == {a, b}
NoWorker == {}

\* Two devices, or one that is named twice (and nothing is in the other store).
MCInit == /\ Init
          /\ source[a] = x
          /\ source[b] = x => unsynced[y] = {}
          /\ Cardinality(unsynced[x]) + Cardinality(unsynced[y]) + traces <= MaxWork

MCSpec == MCInit /\ [][Next]_vars /\ Fairness

=============================================================================
