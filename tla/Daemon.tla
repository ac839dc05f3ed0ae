------------------------------- MODULE Daemon -------------------------------
(***************************************************************************)
(* The life of dattod (dattod/dattod.cc): the lock on the pid file, the    *)
(* signal handler, the IPC listener with its thread, the reply channel and *)
(* the request handler, and the order in which they are taken down.        *)
(* Several dattod processes may be started over time; clients connect to   *)
(* whichever one the socket path leads to.  The stop action of the init    *)
(* script runs at any moment, also while a dattod starts: daemon() lets    *)
(* the start action return before the pid file is opened.                  *)
(*                                                                         *)
(* A pid file that was removed lives on for who has it open, so files are  *)
(* told apart: a file is known by the process that created it.             *)
(*                                                                         *)
(* The backup manager is only seen here as alive or destroyed: what its    *)
(* methods do is module BackupManager, and that its destructor returns is  *)
(* checked there (TeardownEnds).  A process that dies takes its lock, its  *)
(* socket and its connections with it, and leaves the pid file and the     *)
(* socket file behind.                                                     *)
(***************************************************************************)
EXTENDS Naturals, Sequences, FiniteSets

CONSTANTS Instances,   \* dattod processes that may be started
          Clients,     \* programs that connect once (dattolib)
          Nobody       \* no process, no client

ASSUME NobodyIsNoOne == Nobody \notin Instances \cup Clients

VARIABLES pc,          \* where main() of each process is
          named,       \* the file at the path of the pid file
          file,        \* path_fd_: the file each process has open
          lock,        \* the process that holds the flock of a file
          pid,         \* the process whose pid a file holds
          script,      \* the init script: "idle", or "stopped" (before rm)
          crossed,     \* history: see RemovePidFile
          path,        \* the process whose socket the path was bound to
          thread,      \* where the listener thread of each process is
          do_stop,     \* do_stop_
          started,     \* the constructor's local
          sock,        \* socket_fd_: "none", "listening", "closed"
          backlog,     \* connections not accepted yet, oldest first
          connection,  \* the client behind connection_fd
          manager,     \* the backup manager exists
          client,      \* "idle", "waiting", "done", or "gone" (it hung up)
          to,          \* the process a client is connected to
          link,        \* a client's connection, seen from the daemon
          said,        \* what a client has sent
          replies      \* how many replies it was sent

locking == <<named, file, lock, pid, script, crossed>>
main == <<pc, locking, path, manager>>
loop == <<thread, started, backlog, connection>>
peers == <<client, to, link, said, replies>>
vars == <<main, loop, do_stop, sock, peers>>

\* Some processes are never started, and some clients never connect.
Init == /\ pc \in [Instances -> {"start", "gone"}]
        /\ named = Nobody
        /\ file = [i \in Instances |-> Nobody]
        /\ lock = [f \in Instances |-> Nobody]
        /\ pid = [f \in Instances |-> Nobody]
        /\ script = "idle"
        /\ crossed = {}
        /\ path = Nobody
        /\ thread = [i \in Instances |-> "none"]
        /\ do_stop = [i \in Instances |-> FALSE]
        /\ started = [i \in Instances |-> FALSE]
        /\ sock = [i \in Instances |-> "none"]
        /\ backlog = [i \in Instances |-> <<>>]
        /\ connection = [i \in Instances |-> Nobody]
        /\ manager = [i \in Instances |-> FALSE]
        /\ client \in [Clients -> {"idle", "done"}]
        /\ to = [c \in Clients |-> Nobody]
        /\ link = [c \in Clients |-> "none"]
        /\ said = [c \in Clients |-> "nothing"]
        /\ replies = [c \in Clients |-> 0]

Goes(i, from, next) == pc[i] = from /\ pc' = [pc EXCEPT ![i] = next]

\* The connections of process i that have not ended.
Pending(i) == {c \in Clients : to[c] = i /\ link[c] \in {"backlog", "open"}}

\* The process ends without running another destructor: the kernel closes
\* its descriptors, and its memory is gone.
Dies(i) ==
    /\ pc' = [pc EXCEPT ![i] = "gone"]
    /\ file' = [file EXCEPT ![i] = Nobody]
    /\ lock' = [f \in Instances |-> IF lock[f] = i THEN Nobody ELSE lock[f]]
    /\ thread' = [thread EXCEPT ![i] = "none"]
    /\ sock' = [sock EXCEPT ![i] = IF @ = "none" THEN @ ELSE "closed"]
    /\ backlog' = [backlog EXCEPT ![i] = <<>>]
    /\ connection' = [connection EXCEPT ![i] = Nobody]
    /\ manager' = [manager EXCEPT ![i] = FALSE]
    /\ do_stop' = [do_stop EXCEPT ![i] = FALSE]
    /\ started' = [started EXCEPT ![i] = FALSE]
    /\ link' = [c \in Clients |-> IF c \in Pending(i) THEN "reset" ELSE link[c]]
    /\ UNCHANGED <<named, pid, script, crossed, path, client, to, said, replies>>

-----------------------------------------------------------------------------
(* main() *)

\* A process that has a pid file open which is no longer at the path.
Orphan(i) == file[i] \notin {Nobody, named}

\* After daemon() and the log sink, Flock::Flock: open with O_CREAT ...
OpenPidFile(i) ==
    /\ Goes(i, "start", "opened")
    /\ named' = IF named = Nobody THEN i ELSE named
    /\ file' = [file EXCEPT ![i] = named']
    /\ crossed' = IF \E j \in Instances : Orphan(j) THEN crossed \cup {i}
                  ELSE crossed
    /\ UNCHANGED <<lock, pid, script, path, manager, loop, do_stop, sock, peers>>

\* mutant: the result of flock is not looked at.
TakeLockAnyway(i) ==
    /\ Goes(i, "opened", "locked")
    /\ lock' = [lock EXCEPT ![file[i]] = IF @ = Nobody THEN i ELSE @]
    /\ UNCHANGED <<named, file, pid, script, crossed, path, manager, loop,
                   do_stop, sock, peers>>

\* ... then LOCK_EX | LOCK_NB on the file that was opened.
TakeLock(i) ==
    /\ Goes(i, "opened", "locked")
    /\ lock[file[i]] = Nobody
    /\ lock' = [lock EXCEPT ![file[i]] = i]
    /\ UNCHANGED <<named, file, pid, script, crossed, path, manager, loop,
                   do_stop, sock, peers>>

\* The file cannot be opened, or is locked: main returns 1.
LockRefused(i) == pc[i] \in {"start", "opened"} /\ Dies(i)

\* Flock::WritePid, then SignalHandler::BlockSignals.
WritePid(i) ==
    /\ Goes(i, "locked", "named")
    /\ pid' = [pid EXCEPT ![file[i]] = i]
    /\ UNCHANGED <<named, file, lock, script, crossed, path, manager, loop,
                   do_stop, sock, peers>>

BlockSignals(i) ==
    /\ Goes(i, "named", "handling")
    /\ UNCHANGED <<locking, path, manager, loop, do_stop,
                   sock, peers>>

\* The scope of main: the manager and the handler are built, then OpenSocket
\* removes what is left at the path ...
UnlinkSocket(i) ==
    /\ Goes(i, "handling", "unlinked")
    /\ manager' = [manager EXCEPT ![i] = TRUE]
    /\ path' = Nobody
    /\ UNCHANGED <<locking, loop, do_stop, sock, peers>>

\* ... and binds and listens, and the constructor starts the thread, which
\* finds do_stop_ still false.
OpenSocket(i) ==
    /\ Goes(i, "unlinked", "spinning")
    /\ path = Nobody
    /\ path' = i
    /\ sock' = [sock EXCEPT ![i] = "listening"]
    /\ thread' = [thread EXCEPT ![i] = "poll"]
    /\ UNCHANGED <<locking, manager, started, backlog,
                   connection, do_stop, peers>>

\* WritePid throws and main returns 1, or OpenSocket throws and nothing
\* catches it.
StartFails(i) == pc[i] \in {"locked", "unlinked"} /\ Dies(i)

\* The constructor yields until the thread has been round its loop once, and
\* main goes on to pause() in WaitForSignal.
ListenerStarted(i) ==
    /\ started[i]
    /\ Goes(i, "spinning", "pause")
    /\ UNCHANGED <<locking, path, manager, loop, do_stop, sock, peers>>

\* mutant: Stop() only closes the socket.
StopFlagForgotten(i) ==
    /\ Goes(i, "awake", "stopping")
    /\ UNCHANGED <<locking, path, manager, loop, do_stop, sock, peers>>

\* WaitForSignal returns, and the scope ends with ~IpcRequestListener.
\* Stop() raises the flag ...
StopFlag(i) ==
    /\ Goes(i, "awake", "stopping")
    /\ do_stop' = [do_stop EXCEPT ![i] = TRUE]
    /\ UNCHANGED <<locking, path, manager, loop, sock, peers>>

\* ... then shuts the socket down and closes it, which resets the backlog.
StopClose(i) ==
    /\ Goes(i, "stopping", "joining")
    /\ sock' = [sock EXCEPT ![i] = "closed"]
    /\ backlog' = [backlog EXCEPT ![i] = <<>>]
    /\ link' = [c \in Clients |->
                   IF to[c] = i /\ link[c] = "backlog" THEN "reset" ELSE link[c]]
    /\ UNCHANGED <<locking, path, manager, thread, started,
                   connection, do_stop, client, to, said, replies>>

\* mutant: the thread is detached instead.
DetachListener(i) ==
    /\ Goes(i, "joining", "joined")
    /\ UNCHANGED <<locking, path, manager, loop, do_stop,
                   sock, peers>>

\* listen_thread_.join()
JoinListener(i) ==
    /\ thread[i] = "end"
    /\ Goes(i, "joining", "joined")
    /\ UNCHANGED <<locking, path, manager, loop, do_stop,
                   sock, peers>>

\* The handler, then the last reference to the manager: ~BackupManager.  At
\* the end of main ~SignalHandler puts the default actions back.
DestroyManager(i) ==
    /\ Goes(i, "joined", "unhandled")
    /\ manager' = [manager EXCEPT ![i] = FALSE]
    /\ UNCHANGED <<locking, path, loop, do_stop, sock, peers>>

\* ~Flock closes the file, which releases the lock.
Unlock(i) == pc[i] = "unhandled" /\ Dies(i)

\* Somebody starts dattod, or that fails.
Start(i) == pc[i] = "start" /\ (OpenPidFile(i) \/ LockRefused(i))

Main(i) == \/ pc[i] = "opened" /\ (TakeLock(i) \/ LockRefused(i))
           \/ WritePid(i) \/ BlockSignals(i) \/ UnlinkSocket(i)
           \/ OpenSocket(i) \/ StartFails(i) \/ ListenerStarted(i)
           \/ StopFlag(i) \/ StopClose(i) \/ JoinListener(i)
           \/ DestroyManager(i) \/ Unlock(i)

-----------------------------------------------------------------------------
(* SIGTERM or SIGINT *)

\* The default action, while no handler is installed.
Killed(i) == pc[i] \in {"opened", "locked", "named", "unhandled"} /\ Dies(i)

\* sig_handler while main() is in pause(), which returns with the signal in
\* signal_caught.  At any other moment the handler only sets that static, which
\* is not looked at before the next pause() returns: the signal has no effect.
WaitForSignal(i) ==
    /\ Goes(i, "pause", "awake")
    /\ UNCHANGED <<locking, path, manager, loop, do_stop, sock, peers>>

-----------------------------------------------------------------------------
(* The stop of the init script, whose SIGTERM is one of those above *)

Running(i) == pc[i] \notin {"start", "gone"}

\* start-stop-daemon finds no pid file, no pid in it, or no process of that
\* pid, at once or after its SIGTERM (after 20 seconds it fails, and set -e
\* ends the script).
StopDaemon ==
    /\ script = "idle"
    /\ named # Nobody /\ pid[named] # Nobody => ~Running(pid[named])
    /\ script' = "stopped"
    /\ UNCHANGED <<pc, named, file, lock, pid, crossed, path, manager, loop,
                   do_stop, sock, peers>>

\* rm -f.  A dattod that has the file open, because it had not written its pid
\* or was started since, goes on with a file that nobody else can open: crossed
\* collects the processes that run at the same time as such a one.
RemovePidFile ==
    /\ script = "stopped"
    /\ script' = "idle"
    /\ named' = Nobody
    /\ crossed' = IF \E j \in Instances : file[j] # Nobody /\ file[j] = named
                  THEN crossed \cup {j \in Instances : file[j] # Nobody}
                  ELSE crossed
    /\ UNCHANGED <<pc, file, lock, pid, path, manager, loop, do_stop, sock, peers>>

-----------------------------------------------------------------------------
(* The listener thread *)

\* The end of the loop's body: started is set, whatever happened, and then
\* while (!do_stop_) is tested.
NextRound(i) ==
    /\ started' = [started EXCEPT ![i] = TRUE]
    /\ thread' = [thread EXCEPT ![i] = IF do_stop[i] THEN "end" ELSE "poll"]

\* ConnectionIsReady: 500 ms pass and nobody has connected.
PollTimeout(i) ==
    /\ thread[i] = "poll"
    /\ backlog[i] = <<>>
    /\ sock[i] # "closed"
    /\ NextRound(i)
    /\ UNCHANGED <<main, backlog, connection, do_stop, sock, peers>>

\* A connection, or the end of the socket; do_stop_ is tested once more.
PollReady(i) ==
    /\ thread[i] = "poll"
    /\ backlog[i] # <<>> \/ sock[i] = "closed"
    /\ thread' = [thread EXCEPT ![i] = IF do_stop[i] THEN "end" ELSE "accept"]
    /\ UNCHANGED <<main, started, backlog, connection, do_stop,
                   sock, peers>>

\* GetNewConnection, whose descriptor the SocketReplyChannel takes over.
GetNewConnection(i) ==
    /\ thread[i] = "accept"
    /\ backlog[i] # <<>>
    /\ thread' = [thread EXCEPT ![i] = "read"]
    /\ connection' = [connection EXCEPT ![i] = Head(backlog[i])]
    /\ backlog' = [backlog EXCEPT ![i] = Tail(@)]
    /\ link' = [link EXCEPT ![Head(backlog[i])] = "open"]
    /\ UNCHANGED <<main, started, do_stop, sock, client, to, said,
                   replies>>

\* accept on the socket that Stop() has closed.
AcceptThrows(i) ==
    /\ thread[i] = "accept"
    /\ sock[i] = "closed"
    /\ NextRound(i)
    /\ UNCHANGED <<main, backlog, connection, do_stop, sock, peers>>

\* mutant: the descriptor is leaked.
LeakConnection(i) ==
    /\ link' = link
    /\ connection' = [connection EXCEPT ![i] = Nobody]

\* ~SocketReplyChannel
CloseConnection(i) ==
    /\ link' = [link EXCEPT ![connection[i]] = "closed"]
    /\ connection' = [connection EXCEPT ![i] = Nobody]

\* ReadProtobufRequest: there is no timeout, a silent client is waited for.
ReadProtobufRequest(i) ==
    /\ thread[i] = "read"
    /\ said[connection[i]] = "request"
    /\ thread' = [thread EXCEPT ![i] = "handle"]
    /\ UNCHANGED <<main, started, backlog, connection, do_stop,
                   sock, peers>>

\* A short read, a message that is too long, or the end of the stream: the
\* exception closes the connection and the loop goes on.
ReadThrows(i) ==
    /\ thread[i] = "read"
    /\ \/ said[connection[i]] = "nonsense"
       \/ said[connection[i]] = "nothing" /\ client[connection[i]] = "gone"
    /\ CloseConnection(i)
    /\ NextRound(i)
    /\ UNCHANGED <<main, backlog, do_stop, sock, client, to, said,
                   replies>>

\* mutant: an exception leaves Handle and the loop's catch takes it.
HandleMayThrow(i) ==
    /\ thread[i] = "handle"
    /\ \/ /\ thread' = [thread EXCEPT ![i] = "reply"]
          /\ UNCHANGED <<started, connection, link>>
       \/ CloseConnection(i) /\ NextRound(i)
    /\ UNCHANGED <<main, backlog, do_stop, sock, client, to, said,
                   replies>>

\* RequestHandler::Handle up to the reply: every exception of the manager, of
\* the tracker or for an unknown type becomes an error reply.
Handle(i) ==
    /\ thread[i] = "handle"
    /\ thread' = [thread EXCEPT ![i] = "reply"]
    /\ UNCHANGED <<main, started, backlog, connection, do_stop,
                   sock, peers>>

\* SocketReplyChannel::SendReply, and the channel's end.
SendReply(i) ==
    /\ thread[i] = "reply"
    /\ client[connection[i]] # "gone"
    /\ replies' = [replies EXCEPT ![connection[i]] = @ + 1]
    /\ CloseConnection(i)
    /\ NextRound(i)
    /\ UNCHANGED <<main, backlog, do_stop, sock, client, to, said>>

\* The client has hung up: write raises SIGPIPE, for which the process has no
\* handler.
SendReplyKills(i) ==
    /\ thread[i] = "reply"
    /\ client[connection[i]] = "gone"
    /\ Dies(i)

Listen(i) == \/ PollTimeout(i) \/ PollReady(i)
             \/ GetNewConnection(i) \/ AcceptThrows(i)
             \/ ReadProtobufRequest(i) \/ ReadThrows(i) \/ Handle(i)
             \/ SendReply(i) \/ SendReplyKills(i)

-----------------------------------------------------------------------------
(* Clients: make_request_to_dattod connects, sends one request, reads one   *)
(* reply.  A client may be killed, or not be dattolib.                       *)

Connect(c) ==
    /\ client[c] = "idle"
    /\ path # Nobody
    /\ sock[path] = "listening"
    /\ client' = [client EXCEPT ![c] = "waiting"]
    /\ to' = [to EXCEPT ![c] = path]
    /\ link' = [link EXCEPT ![c] = "backlog"]
    /\ backlog' = [backlog EXCEPT ![path] = Append(@, c)]
    /\ UNCHANGED <<main, thread, started, connection, do_stop,
                   sock, said, replies>>

Send(c) ==
    /\ client[c] = "waiting"
    /\ link[c] \in {"backlog", "open"}
    /\ said[c] = "nothing"
    /\ \E m \in {"request", "nonsense"} : said' = [said EXCEPT ![c] = m]
    /\ UNCHANGED <<main, loop, do_stop, sock, client, to, link,
                   replies>>

HangUp(c) ==
    /\ client[c] = "waiting"
    /\ client' = [client EXCEPT ![c] = "gone"]
    /\ UNCHANGED <<main, loop, do_stop, sock, to, link, said, replies>>

\* The reply, or the end of the stream.
Receive(c) ==
    /\ client[c] = "waiting"
    /\ link[c] \in {"closed", "reset"}
    /\ client' = [client EXCEPT ![c] = "done"]
    /\ UNCHANGED <<main, loop, do_stop, sock, to, link, said, replies>>

\* Every process has ended and no client waits.
Over == /\ \A i \in Instances : pc[i] = "gone"
        /\ \A c \in Clients : client[c] # "waiting"
        /\ UNCHANGED vars

Next == \/ \E i \in Instances : Start(i) \/ Main(i) \/ Listen(i)
        \/ \E i \in Instances : Killed(i) \/ WaitForSignal(i)
        \/ \E c \in Clients : Connect(c) \/ Send(c) \/ HangUp(c) \/ Receive(c)
        \/ StopDaemon \/ RemovePidFile
        \/ Over

Spec == Init /\ [][Next]_vars

\* What a client does for certain: once connected it sends something or ends
\* (dattolib sends at once), and it reads what comes back.
Proceeds(c) == \/ said[c] = "nothing" /\ (Send(c) \/ HangUp(c))
               \/ Receive(c)

\* The threads of a process are scheduled, and clients proceed.
Fairness == /\ \A i \in Instances : WF_vars(Main(i)) /\ WF_vars(Listen(i))
            /\ \A c \in Clients : WF_vars(Proceeds(c))

-----------------------------------------------------------------------------
(* Properties *)

\* Types of the state of main(), the listener and the clients.
TypeOK ==
    /\ pc \in [Instances -> {"start", "opened", "locked", "named", "handling",
                             "unlinked", "spinning", "pause", "awake",
                             "stopping", "joining", "joined", "unhandled",
                             "gone"}]
    /\ named \in Instances \cup {Nobody}
    /\ file \in [Instances -> Instances \cup {Nobody}]
    /\ lock \in [Instances -> Instances \cup {Nobody}]
    /\ pid \in [Instances -> Instances \cup {Nobody}]
    /\ script \in {"idle", "stopped"}
    /\ crossed \subseteq Instances
    /\ path \in Instances \cup {Nobody}
    /\ thread \in [Instances -> {"none", "poll", "accept", "read", "handle",
                                 "reply", "end"}]
    /\ do_stop \in [Instances -> BOOLEAN]
    /\ started \in [Instances -> BOOLEAN]
    /\ sock \in [Instances -> {"none", "listening", "closed"}]
    /\ backlog \in [Instances -> Seq(Clients)]
    /\ connection \in [Instances -> Clients \cup {Nobody}]
    /\ manager \in [Instances -> BOOLEAN]
    /\ client \in [Clients -> {"idle", "waiting", "done", "gone"}]
    /\ to \in [Clients -> Instances \cup {Nobody}]
    /\ link \in [Clients -> {"none", "backlog", "open", "closed", "reset"}]
    /\ said \in [Clients -> {"nothing", "request", "nonsense"}]
    /\ replies \in [Clients -> 0..1]

\* From its bind to the end of its listener a dattod is the one the rest of
\* the system finds: the pid file holds its pid, the socket path leads to it
\* and no other process has a manager (Flock, WritePid and OpenSocket, against
\* a second dattod that is started, refused or killed at any moment, and the
\* init script, which removes the pid file).  The exception: dattods that ran at
\* the same time as one whose pid file the script removed while it had it open,
\* which is what start, stop, start comes to when the stop falls before WritePid.
OneDaemon ==
    \A i \in Instances :
        sock[i] = "listening" /\ i \notin crossed =>
            /\ named # Nobody /\ pid[named] = i
            /\ path = i
            /\ \A j \in Instances \ {i} : ~manager[j]

\* A request that has been accepted is answered exactly once, also when its
\* handler throws and when dattod is being stopped; a client that is still
\* there is only cut off unanswered from the backlog of a daemon that stops
\* or has died (IpcRequestListener's loop, Handle, SendReply, Stop).
AnsweredOnce ==
    \A c \in Clients :
        /\ replies[c] > 0 => said[c] = "request" /\ replies[c] = 1
        /\ (link[c] = "closed" /\ said[c] = "request" /\ client[c] # "gone")
              => replies[c] = 1
        /\ (link[c] = "reset" /\ client[c] # "gone")
              => sock[to[c]] = "closed" /\ replies[c] = 0

\* No request is handled with a manager that has been destroyed: the listener
\* is joined before main's scope gives the manager up.
ManagerOutlivesListener ==
    \A i \in Instances :
        thread[i] \in {"poll", "accept", "read", "handle", "reply"} => manager[i]

\* main() hangs nowhere but in pause: a dattod that has been started ends or
\* comes to WaitForSignal, although IpcRequestListener's constructor waits for
\* its thread and nobody may connect; after the signal it ends, by way of Stop,
\* the join and the destructors.  Clients that neither speak nor hang up are
\* excluded by the fairness.
StartsAndEnds == \A i \in Instances : []<>(pc[i] \in {"start", "pause", "gone"})

\* A client that waits for its reply does not wait for ever: it is answered,
\* or its connection is closed.
ClientReturns == \A c \in Clients : []<>(client[c] # "waiting")
=============================================================================
