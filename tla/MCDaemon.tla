------------------------------ MODULE MCDaemon ------------------------------
(***************************************************************************)
(* A small instance of Daemon for TLC.                                     *)
(***************************************************************************)
EXTENDS Daemon

CONSTANTS SecondDaemon,    \* one of Instances
          SecondClient     \* one of Clients

\* Bound: the second dattod is never started or the second client never connects.
MCInit == /\ Init
          /\ pc[SecondDaemon] = "gone" \/ client[SecondClient] = "done"
          /\ \A i \in Instances : pc[i] = "gone" => i = SecondDaemon
          /\ \A c \in Clients : client[c] = "done" => c = SecondClient

MCSpec == MCInit /\ [][Next]_vars /\ Fairness
=============================================================================
