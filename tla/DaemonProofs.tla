---------------------------- MODULE DaemonProofs ----------------------------
(***************************************************************************)
(* One dattod at a time, whose manager outlives its listener, and one      *)
(* reply to every request it accepts, for any number of processes and      *)
(* clients.                                                                *)
(***************************************************************************)
EXTENDS Daemon, SequenceTheorems, TLAPS

Managing == {"unlinked", "spinning", "pause", "awake",
             "stopping", "joining", "joined"}
Starting == {"start", "opened", "locked", "named", "handling", "unlinked"}
Bound == {"spinning", "pause", "awake", "stopping"}
Listening == {"poll", "accept", "read", "handle", "reply"}

(* A file is created once and locked by one process.  As long as a process   *)
(* has not been crossed, everyone who runs has the file at the path open.    *)
Locks ==
  \A i \in Instances :
    /\ pc[i] = "start" => named # i /\ \A j \in Instances : file[j] # i
    /\ file[i] # Nobody <=> Running(i)
    /\ Running(i) /\ pc[i] # "opened" => lock[file[i]] = i
    /\ Running(i) /\ pc[i] \notin {"opened", "locked"} => pid[file[i]] = i
    /\ Running(i) /\ i \notin crossed =>
         \A j \in Instances : file[j] \in {Nobody, named}
    /\ pc[i] \in Bound /\ i \notin crossed => path = i

(* What a process has, by where its main is.                                *)
Stages ==
  \A i \in Instances :
    /\ pc[i] \in Starting => sock[i] = "none"
    /\ sock[i] = "listening" => pc[i] \in Bound
    /\ manager[i] <=> pc[i] \in Managing
    /\ thread[i] \in Listening => pc[i] \in Bound \cup {"joining"}

(* A connection is in the backlog of one process, or behind connection_fd   *)
(* of one, and has not been answered as long as it is.                      *)
Sessions ==
  /\ \A i \in Instances :
       /\ thread[i] \in {"read", "handle", "reply"} =>
            /\ connection[i] \in Clients
            /\ to[connection[i]] = i /\ link[connection[i]] = "open"
       /\ thread[i] \in {"handle", "reply"} => said[connection[i]] = "request"
       /\ \A m \in 1 .. Len(backlog[i]) :
            to[backlog[i][m]] = i /\ link[backlog[i][m]] = "backlog"
       /\ \A m, n \in 1 .. Len(backlog[i]) :
            backlog[i][m] = backlog[i][n] => m = n
  /\ \A c \in Clients :
       /\ link[c] # "none" => to[c] \in Instances /\ sock[to[c]] # "none"
       /\ client[c] = "idle" => link[c] = "none"
       /\ link[c] = "none" => said[c] = "nothing"
       /\ link[c] \in {"none", "backlog", "open", "reset"} => replies[c] = 0
       /\ link[c] = "closed" /\ said[c] = "request" => replies[c] = 1
       /\ link[c] = "closed" /\ said[c] # "request" => replies[c] = 0
       /\ link[c] = "closed" /\ said[c] = "nothing" => client[c] = "gone"
       /\ link[c] = "reset" => sock[to[c]] = "closed"

\* Before the first start there is nothing to tell.
LEMMA InitInv == Init => TypeOK /\ Locks /\ Stages /\ Sessions
<1> SUFFICES ASSUME Init PROVE TypeOK /\ Locks /\ Stages /\ Sessions
  BY Zenon
<1>1. TypeOK
  BY EmptySeq DEF Init, TypeOK
<1>2. Locks
  BY NobodyIsNoOne DEF Init, Locks, Running, Bound
<1>3. Stages
  BY DEF Init, Stages, Starting, Bound, Managing, Listening
<1>4. Sessions
  BY EmptySeq DEF Init, Sessions
<1> QED BY <1>1, <1>2, <1>3, <1>4, Zenon

\* The end of a process keeps the types.
LEMMA DiesTypes ==
  ASSUME TypeOK, NEW i \in Instances, Dies(i)
  PROVE  TypeOK'
<1>1. <<>> \in Seq(Clients)
  BY EmptySeq, Zenon
<1> QED BY <1>1, ZenonT(30) DEF TypeOK, Dies

\* So does every step.
LEMMA NextTypes == TypeOK /\ Sessions /\ [Next]_vars => TypeOK'
<1> SUFFICES ASSUME TypeOK, Sessions, [Next]_vars PROVE TypeOK'
  BY Zenon
<1> USE DEF TypeOK, Goes, locking, main, loop, peers
<1>1. ASSUME NEW i \in Instances, Dies(i) PROVE TypeOK'
  BY <1>1, DiesTypes, Zenon
<1>2. ASSUME NEW i \in Instances,
             OpenPidFile(i) \/ TakeLock(i) \/ WritePid(i) \/ BlockSignals(i)
               \/ UnlinkSocket(i) \/ OpenSocket(i)
      PROVE  TypeOK'
  <2>1. CASE TakeLock(i) BY <2>1, Zenon DEF TakeLock
  <2>2. CASE WritePid(i) BY <2>2, Zenon DEF WritePid
  <2>3. CASE BlockSignals(i) BY <2>3, Zenon DEF BlockSignals
  <2>4. CASE UnlinkSocket(i) BY <2>4, Zenon DEF UnlinkSocket
  <2>5. CASE OpenSocket(i) BY <2>5, Zenon DEF OpenSocket
  <2>6. CASE OpenPidFile(i) BY <2>6, Zenon DEF OpenPidFile
  <2> QED BY <1>2, <2>1, <2>2, <2>3, <2>4, <2>5, <2>6, Zenon
<1>3. ASSUME NEW i \in Instances,
             ListenerStarted(i) \/ WaitForSignal(i) \/ StopFlag(i)
               \/ JoinListener(i) \/ DestroyManager(i)
      PROVE  TypeOK'
  <2>1. CASE ListenerStarted(i) BY <2>1, Zenon DEF ListenerStarted
  <2>2. CASE WaitForSignal(i) BY <2>2, Zenon DEF WaitForSignal
  <2>3. CASE StopFlag(i) BY <2>3, Zenon DEF StopFlag
  <2>4. CASE JoinListener(i) BY <2>4, Zenon DEF JoinListener
  <2>5. CASE DestroyManager(i) BY <2>5, Zenon DEF DestroyManager
  <2> QED BY <1>3, <2>1, <2>2, <2>3, <2>4, <2>5, Zenon
<1>4. ASSUME NEW i \in Instances, StopClose(i) PROVE TypeOK'
  <2>1. <<>> \in Seq(Clients)
    BY EmptySeq, Zenon
  <2> QED BY <1>4, <2>1, Zenon DEF StopClose
<1>5. ASSUME NEW i \in Instances,
             PollTimeout(i) \/ PollReady(i) \/ AcceptThrows(i)
               \/ ReadProtobufRequest(i) \/ Handle(i)
      PROVE  TypeOK'
  <2>1. CASE PollTimeout(i) BY <2>1, Zenon DEF PollTimeout, NextRound
  <2>2. CASE PollReady(i) BY <2>2, Zenon DEF PollReady
  <2>3. CASE AcceptThrows(i) BY <2>3, Zenon DEF AcceptThrows, NextRound
  <2>4. CASE ReadProtobufRequest(i) BY <2>4, Zenon DEF ReadProtobufRequest
  <2>5. CASE Handle(i) BY <2>5, Zenon DEF Handle
  <2> QED BY <1>5, <2>1, <2>2, <2>3, <2>4, <2>5, Zenon
<1>6. ASSUME NEW i \in Instances, GetNewConnection(i) PROVE TypeOK'
  <2>1. Head(backlog[i]) \in Clients /\ Tail(backlog[i]) \in Seq(Clients)
    BY <1>6, HeadTailProperties, Zenon DEF GetNewConnection
  <2> QED BY <1>6, <2>1, Zenon DEF GetNewConnection
<1>7. ASSUME NEW i \in Instances, ReadThrows(i) PROVE TypeOK'
  BY <1>7, Zenon DEF ReadThrows, CloseConnection, NextRound, Sessions
<1>8. ASSUME NEW i \in Instances, SendReply(i) PROVE TypeOK'
  <2>1. connection[i] \in Clients /\ replies[connection[i]] = 0
    BY <1>8, Zenon DEF SendReply, Sessions
  <2> QED BY <1>8, <2>1 DEF SendReply, CloseConnection, NextRound
<1>9. CASE StopDaemon \/ RemovePidFile
  <2>1. CASE StopDaemon BY <2>1, Zenon DEF StopDaemon
  <2>2. CASE RemovePidFile
    <3>1. crossed' \subseteq Instances
      BY <2>2, Zenon DEF RemovePidFile
    <3> QED BY <2>2, <3>1, Zenon DEF RemovePidFile
  <2> QED BY <1>9, <2>1, <2>2, Zenon
<1>10. ASSUME NEW c \in Clients, Connect(c) PROVE TypeOK'
  <2>1. path \in Instances /\ Append(backlog[path], c) \in Seq(Clients)
    BY <1>10, AppendProperties, ZenonT(30) DEF Connect
  <2> QED BY <1>10, <2>1, ZenonT(30) DEF Connect
<1>11. ASSUME NEW c \in Clients,
             Send(c) \/ HangUp(c) \/ Receive(c)
      PROVE  TypeOK'
  <2>1. CASE Send(c) BY <2>1 DEF Send
  <2>2. CASE HangUp(c) BY <2>2, Zenon DEF HangUp
  <2>3. CASE Receive(c) BY <2>3, Zenon DEF Receive
  <2> QED BY <1>11, <2>1, <2>2, <2>3, Zenon
<1>12. CASE UNCHANGED vars
  BY <1>12, Zenon DEF vars
<1> QED
  BY <1>1, <1>2, <1>3, <1>4, <1>5, <1>6, <1>7, <1>8, <1>9, <1>10, <1>11, <1>12,
     Zenon
     DEF Next, Start, Main, Listen, Killed, Over, LockRefused, StartFails,
         Unlock, SendReplyKills

\* A step of main changes no one's hold on a file but its own.
LEMMA NextLocks == TypeOK /\ Locks /\ [Next]_vars => Locks'
<1> SUFFICES ASSUME TypeOK, Locks, [Next]_vars PROVE Locks'
  BY Zenon
<1> USE NobodyIsNoOne
       DEF TypeOK, Locks, Running, Bound, Goes, locking, main
<1>1. ASSUME NEW i \in Instances, Dies(i) PROVE Locks'
  BY <1>1 DEF Dies
<1>2. ASSUME NEW i \in Instances, OpenPidFile(i) PROVE Locks'
  BY <1>2 DEF OpenPidFile, Orphan
<1>3. ASSUME NEW i \in Instances, TakeLock(i) PROVE Locks'
  BY <1>3 DEF TakeLock
<1>4. ASSUME NEW i \in Instances, WritePid(i) PROVE Locks'
  BY <1>4 DEF WritePid
<1>5. ASSUME NEW i \in Instances, UnlinkSocket(i) PROVE Locks'
  BY <1>5 DEF UnlinkSocket
<1>6. ASSUME NEW i \in Instances, OpenSocket(i) PROVE Locks'
  BY <1>6 DEF OpenSocket
<1>7. ASSUME NEW i \in Instances,
             BlockSignals(i) \/ ListenerStarted(i) \/ WaitForSignal(i)
               \/ StopFlag(i) \/ StopClose(i) \/ JoinListener(i)
               \/ DestroyManager(i)
      PROVE  Locks'
  <2>1. CASE BlockSignals(i) BY <2>1 DEF BlockSignals
  <2>2. CASE ListenerStarted(i) BY <2>2 DEF ListenerStarted
  <2>3. CASE WaitForSignal(i) BY <2>3 DEF WaitForSignal
  <2>4. CASE StopFlag(i) BY <2>4 DEF StopFlag
  <2>5. CASE StopClose(i) BY <2>5 DEF StopClose
  <2>6. CASE JoinListener(i) BY <2>6 DEF JoinListener
  <2>7. CASE DestroyManager(i) BY <2>7 DEF DestroyManager
  <2> QED BY <1>7, <2>1, <2>2, <2>3, <2>4, <2>5, <2>6, <2>7, Zenon
<1>8. CASE StopDaemon
  BY <1>8 DEF StopDaemon
<1>9. CASE RemovePidFile
  BY <1>9 DEF RemovePidFile
<1>10. CASE UNCHANGED main
  BY <1>10
<1>11. ASSUME NEW i \in Instances, Listen(i), ~SendReplyKills(i)
       PROVE  UNCHANGED main
  BY <1>11, Zenon
     DEF Listen, PollTimeout, PollReady, GetNewConnection, AcceptThrows,
         ReadProtobufRequest, ReadThrows, Handle, SendReply
<1>12. ASSUME NEW c \in Clients, Connect(c) \/ Send(c) \/ HangUp(c) \/ Receive(c)
       PROVE  UNCHANGED main
  BY <1>12, Zenon DEF Connect, Send, HangUp, Receive
<1>13. UNCHANGED vars => UNCHANGED main
  BY Zenon DEF vars
<1> QED
  BY <1>1, <1>2, <1>3, <1>4, <1>5, <1>6, <1>7, <1>8, <1>9, <1>10, <1>11, <1>12,
     <1>13, Zenon
     DEF Next, Start, Main, Killed, Over, LockRefused, StartFails, Unlock,
         SendReplyKills

\* Main takes its parts up and down in order.
LEMMA NextStages == TypeOK /\ Stages /\ [Next]_vars => Stages'
<1> SUFFICES ASSUME TypeOK, Stages, [Next]_vars PROVE Stages'
  BY Zenon
<1> USE DEF TypeOK, Stages, Starting, Bound, Managing, Listening, Goes, main,
           loop, peers
<1>1. ASSUME NEW i \in Instances, Dies(i) PROVE Stages'
  BY <1>1 DEF Dies
<1>2. ASSUME NEW i \in Instances, TakeLock(i) PROVE Stages'
  BY <1>2 DEF TakeLock
<1>3. ASSUME NEW i \in Instances, WritePid(i) PROVE Stages'
  BY <1>3 DEF WritePid
<1>4. ASSUME NEW i \in Instances, BlockSignals(i) PROVE Stages'
  BY <1>4 DEF BlockSignals
<1>5. ASSUME NEW i \in Instances, UnlinkSocket(i) PROVE Stages'
  BY <1>5 DEF UnlinkSocket
<1>6. ASSUME NEW i \in Instances, OpenSocket(i) PROVE Stages'
  BY <1>6 DEF OpenSocket
<1>7. ASSUME NEW i \in Instances, ListenerStarted(i) PROVE Stages'
  BY <1>7 DEF ListenerStarted
<1>8. ASSUME NEW i \in Instances, WaitForSignal(i) PROVE Stages'
  BY <1>8 DEF WaitForSignal
<1>9. ASSUME NEW i \in Instances, StopFlag(i) PROVE Stages'
  BY <1>9 DEF StopFlag
<1>10. ASSUME NEW i \in Instances, StopClose(i) PROVE Stages'
  BY <1>10 DEF StopClose
<1>11. ASSUME NEW i \in Instances, JoinListener(i) PROVE Stages'
  BY <1>11 DEF JoinListener
<1>12. ASSUME NEW i \in Instances, DestroyManager(i) PROVE Stages'
  BY <1>12 DEF DestroyManager
<1>13. ASSUME NEW i \in Instances, OpenPidFile(i) PROVE Stages'
  BY <1>13 DEF OpenPidFile
<1>14. CASE StopDaemon
  BY <1>14 DEF StopDaemon
<1>15. ASSUME NEW i \in Instances, PollTimeout(i) PROVE Stages'
  BY <1>15 DEF PollTimeout, NextRound
<1>16. ASSUME NEW i \in Instances, PollReady(i) PROVE Stages'
  BY <1>16 DEF PollReady
<1>17. ASSUME NEW i \in Instances, GetNewConnection(i) PROVE Stages'
  BY <1>17 DEF GetNewConnection
<1>18. ASSUME NEW i \in Instances, AcceptThrows(i) PROVE Stages'
  BY <1>18 DEF AcceptThrows, NextRound
<1>19. ASSUME NEW i \in Instances, ReadProtobufRequest(i) PROVE Stages'
  BY <1>19 DEF ReadProtobufRequest
<1>20. ASSUME NEW i \in Instances, ReadThrows(i) PROVE Stages'
  BY <1>20 DEF ReadThrows, NextRound, CloseConnection
<1>21. ASSUME NEW i \in Instances, Handle(i) PROVE Stages'
  BY <1>21 DEF Handle
<1>22. ASSUME NEW i \in Instances, SendReply(i) PROVE Stages'
  BY <1>22 DEF SendReply, NextRound, CloseConnection
<1>23. CASE RemovePidFile
  BY <1>23 DEF RemovePidFile
<1>24. ASSUME NEW c \in Clients, Connect(c) PROVE Stages'
  BY <1>24, Zenon DEF Connect
<1>25. ASSUME NEW c \in Clients, Send(c) PROVE Stages'
  BY <1>25, Zenon DEF Send
<1>26. ASSUME NEW c \in Clients, HangUp(c) PROVE Stages'
  BY <1>26, Zenon DEF HangUp
<1>27. ASSUME NEW c \in Clients, Receive(c) PROVE Stages'
  BY <1>27, Zenon DEF Receive
<1>28. CASE UNCHANGED vars
  BY <1>28, Zenon DEF vars
<1> QED
  BY <1>1, <1>2, <1>3, <1>4, <1>5, <1>6, <1>7, <1>8, <1>9, <1>10, <1>11, <1>12,
     <1>13, <1>14, <1>15, <1>16, <1>17, <1>18, <1>19, <1>20, <1>21, <1>22,
     <1>23, <1>24, <1>25, <1>26, <1>27, <1>28, ZenonT(30)
     DEF Next, Start, Main, Listen, Killed, Over, LockRefused, StartFails,
         Unlock, SendReplyKills

\* A connection moves from the backlog to the listener to its one reply.
LEMMA NextSessions == TypeOK /\ Stages /\ Sessions /\ [Next]_vars => Sessions'
<1> SUFFICES ASSUME TypeOK, Stages, Sessions, [Next]_vars PROVE Sessions'
  BY Zenon
<1> USE NobodyIsNoOne DEF TypeOK, Sessions, Goes, main, loop, peers
<1>1. ASSUME NEW i \in Instances, Dies(i) PROVE Sessions'
  BY <1>1, EmptySeq DEF Dies, Pending
<1>2. ASSUME NEW i \in Instances, TakeLock(i) PROVE Sessions'
  BY <1>2 DEF TakeLock
<1>3. ASSUME NEW i \in Instances, WritePid(i) PROVE Sessions'
  BY <1>3 DEF WritePid
<1>4. ASSUME NEW i \in Instances, BlockSignals(i) PROVE Sessions'
  BY <1>4 DEF BlockSignals
<1>5. ASSUME NEW i \in Instances, UnlinkSocket(i) PROVE Sessions'
  BY <1>5 DEF UnlinkSocket
<1>6. ASSUME NEW i \in Instances, OpenSocket(i) PROVE Sessions'
  BY <1>6 DEF OpenSocket, Stages, Starting
<1>7. ASSUME NEW i \in Instances, ListenerStarted(i) PROVE Sessions'
  BY <1>7 DEF ListenerStarted
<1>8. ASSUME NEW i \in Instances, WaitForSignal(i) PROVE Sessions'
  BY <1>8 DEF WaitForSignal
<1>9. ASSUME NEW i \in Instances, StopFlag(i) PROVE Sessions'
  BY <1>9 DEF StopFlag
<1>10. ASSUME NEW i \in Instances, StopClose(i) PROVE Sessions'
  BY <1>10, EmptySeq DEF StopClose
<1>11. ASSUME NEW i \in Instances, JoinListener(i) PROVE Sessions'
  BY <1>11 DEF JoinListener
<1>12. ASSUME NEW i \in Instances, DestroyManager(i) PROVE Sessions'
  BY <1>12 DEF DestroyManager
<1>13. ASSUME NEW i \in Instances, OpenPidFile(i) PROVE Sessions'
  BY <1>13 DEF OpenPidFile
<1>14. CASE StopDaemon
  BY <1>14 DEF StopDaemon
<1>15. ASSUME NEW i \in Instances, PollTimeout(i) PROVE Sessions'
  BY <1>15 DEF PollTimeout, NextRound
<1>16. ASSUME NEW i \in Instances, PollReady(i) PROVE Sessions'
  BY <1>16 DEF PollReady
<1>17. ASSUME NEW i \in Instances, GetNewConnection(i) PROVE Sessions'
  BY <1>17 DEF GetNewConnection
<1>18. ASSUME NEW i \in Instances, AcceptThrows(i) PROVE Sessions'
  BY <1>18 DEF AcceptThrows, NextRound
<1>19. ASSUME NEW i \in Instances, ReadProtobufRequest(i) PROVE Sessions'
  BY <1>19 DEF ReadProtobufRequest
<1>20. ASSUME NEW i \in Instances, ReadThrows(i) PROVE Sessions'
  BY <1>20 DEF ReadThrows, NextRound, CloseConnection
<1>21. ASSUME NEW i \in Instances, Handle(i) PROVE Sessions'
  BY <1>21 DEF Handle
<1>22. ASSUME NEW i \in Instances, SendReply(i) PROVE Sessions'
  BY <1>22, SMTT(20) DEF SendReply, NextRound, CloseConnection
<1>23. CASE RemovePidFile
  BY <1>23 DEF RemovePidFile
<1>24. ASSUME NEW c \in Clients, Connect(c) PROVE Sessions'
  BY <1>24, SMTT(20) DEF Connect
<1>25. ASSUME NEW c \in Clients, Send(c) PROVE Sessions'
  BY <1>25 DEF Send
<1>26. ASSUME NEW c \in Clients, HangUp(c) PROVE Sessions'
  BY <1>26 DEF HangUp
<1>27. ASSUME NEW c \in Clients, Receive(c) PROVE Sessions'
  BY <1>27 DEF Receive
<1>28. CASE UNCHANGED vars
  BY <1>28 DEF vars
<1> QED
  BY <1>1, <1>2, <1>3, <1>4, <1>5, <1>6, <1>7, <1>8, <1>9, <1>10, <1>11, <1>12,
     <1>13, <1>14, <1>15, <1>16, <1>17, <1>18, <1>19, <1>20, <1>21, <1>22,
     <1>23, <1>24, <1>25, <1>26, <1>27, <1>28, ZenonT(30)
     DEF Next, Start, Main, Listen, Killed, Over, LockRefused, StartFails,
         Unlock, SendReplyKills

\* The four hold in every reachable state.
LEMMA Invariance == Spec => [](TypeOK /\ Locks /\ Stages /\ Sessions)
<1> QED BY InitInv, NextTypes, NextLocks, NextStages, NextSessions, PTL DEF Spec

(* Every reachable state of the processes and their clients is well typed.  *)
THEOREM DaemonTypeCorrect == Spec => []TypeOK
<1> QED BY Invariance, PTL

(* The pid file and the socket path belong to the dattod that listens, and  *)
(* no other has a manager, unless the init script has removed the pid file  *)
(* of a dattod that ran at the same time and had it open.                   *)
THEOREM OnlyOneDaemon == Spec => []OneDaemon
<1> USE DEF TypeOK, Locks, Stages, Running, Bound, Managing
<1>1. ASSUME TypeOK, Locks, Stages, NEW i \in Instances,
             sock[i] = "listening", i \notin crossed
      PROVE  /\ named # Nobody /\ pid[named] = i
             /\ path = i
             /\ \A j \in Instances \ {i} : ~manager[j]
  <2>1. file[i] = named /\ named # Nobody
    <3>1. Running(i)
      BY <1>1, Zenon
    <3> QED BY <1>1, <3>1, Zenon
  <2>2. ASSUME NEW j \in Instances, manager[j] PROVE j = i
    <3>1. pc[j] \in Managing
      BY <1>1, <2>2, Zenon
    <3>2. Running(j) /\ pc[j] # "opened"
      BY <3>1
    <3>3. file[j] = named /\ lock[file[j]] = j
      BY <1>1, <2>1, <3>2, Zenon
    <3>4. lock[file[i]] = i
      BY <1>1, Zenon
    <3> QED BY <2>1, <3>3, <3>4, Zenon
  <2>3. pid[named] = i /\ path = i
    BY <1>1, <2>1, Zenon
  <2> QED BY <2>1, <2>2, <2>3, Zenon
<1>2. TypeOK /\ Locks /\ Stages => OneDaemon
  BY <1>1, Zenon DEF OneDaemon
<1> QED BY <1>2, Invariance, PTL

(* A listener that is in its loop has a manager to hand requests to.        *)
THEOREM ManagerOutlives == Spec => []ManagerOutlivesListener
<1>1. TypeOK /\ Stages => ManagerOutlivesListener
  BY Zenon
     DEF TypeOK, Stages, ManagerOutlivesListener, Bound, Managing, Listening
<1> QED BY <1>1, Invariance, PTL

(* A request that is accepted is answered once, unless the process dies.    *)
THEOREM OneAnswer == Spec => []AnsweredOnce
<1>1. TypeOK /\ Sessions => AnsweredOnce
  BY DEF TypeOK, Sessions, AnsweredOnce
<1> QED BY <1>1, Invariance, PTL

=============================================================================
