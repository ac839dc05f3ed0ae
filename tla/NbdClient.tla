----------------------------- MODULE NbdClient -----------------------------
(***************************************************************************)
(* block_device/nbd_client.cc and nbd_block_device.cc: clients that look   *)
(* for a free /dev/nbdN, hand it their socket and have a thread in the     *)
(* NBD_DO_IT ioctl for as long as they are connected.                      *)
(*                                                                         *)
(* A device is free when it has no pid, which the kernel gives it on the   *)
(* entry of NBD_DO_IT.  BackupBuilder runs the constructors one after      *)
(* another, under start_backup_mutex_; destructors run in the threads of   *)
(* the jobs.                                                               *)
(***************************************************************************)
EXTENDS Naturals, FiniteSets, FiniteSetsExt

CONSTANTS
  Clients,      \* NbdClient objects; one that is gone may be made anew
  NumDevices,   \* /dev/nbd1 .. /dev/nbdN, in the order of readdir
  NoClient

ASSUME NbdAssumption ==
  /\ NoClient \notin Clients
  /\ NumDevices \in Nat

VARIABLES
  pc,           \* where the owner of each client is
  dev,          \* nbd_device_path_, 0 when there is none
  connection,   \* of sock_ with the server: "none", "up", "closing" or "lost"
  do_it,        \* where nbd_do_it_thread_ is
  sock,         \* per device, the client whose socket it was given
  pid,          \* per device, the client whose thread is in NBD_DO_IT
  serving,      \* per device, the client whose socket that thread reads
  shared        \* history: clients that took a device another one had, and
                \* the clients they took it from

kernel == <<sock, pid, serving>>
vars == <<pc, dev, connection, do_it, kernel, shared>>

Devices == 1 .. NumDevices
MaybeClient == Clients \cup {NoClient}

Constructing == {"find", "open", "clear", "set", "spawn", "yield"}
Held == {"open", "clear", "set", "spawn", "yield", "up", "clear_sock", "join"}

TypeOK ==
  /\ pc \in [Clients -> {"none"} \cup Constructing \cup Held]
  /\ dev \in [Clients -> 0 .. NumDevices]
  /\ connection \in [Clients -> {"none", "up", "closing", "lost"}]
  /\ do_it \in [Clients -> {"none", "ready", "inside", "done"}]
  /\ sock \in [Devices -> MaybeClient]
  /\ pid \in [Devices -> MaybeClient]
  /\ serving \in [Devices -> MaybeClient]
  /\ shared \subseteq Clients

Init ==
  /\ pc = [c \in Clients |-> "none"]
  /\ dev = [c \in Clients |-> 0]
  /\ connection = [c \in Clients |-> "none"]
  /\ do_it = [c \in Clients |-> "none"]
  /\ sock = [d \in Devices |-> NoClient]
  /\ pid = [d \in Devices |-> NoClient]
  /\ serving = [d \in Devices |-> NoClient]
  /\ shared = {}

Goto(c, from, to) == pc[c] = from /\ pc' = [pc EXCEPT ![c] = to]

-----------------------------------------------------------------------------
(* The constructor *)

\* LoadNBDModule, OpenNbdSocket and NegotiateNbdCommunication
OpenNbdSocket(c) ==
  /\ Goto(c, "none", "find")
  /\ \A b \in Clients : pc[b] \notin Constructing
  /\ connection' = [connection EXCEPT ![c] = "up"]
  /\ shared' = shared \ {c}
  /\ UNCHANGED <<dev, do_it, kernel>>

Free == {d \in Devices : pid[d] = NoClient}

\* c and the clients it finds on d, if there are any
Meets(c, d) ==
  LET others == {b \in Clients \ {c} : pc[b] \in Held /\ dev[b] = d}
  IN  IF others = {} THEN {} ELSE others \cup {c}

\* mutant: the pid file is not looked for
FindAnyNbdDevice(c) ==
  /\ Goto(c, "find", "open")
  /\ Devices # {}
  /\ dev' = [dev EXCEPT ![c] = Min(Devices)]
  /\ shared' = shared \cup Meets(c, Min(Devices))
  /\ UNCHANGED <<connection, do_it, kernel>>

FindOpenNbdDevice(c) ==
  /\ Goto(c, "find", "open")
  /\ Free # {}
  /\ dev' = [dev EXCEPT ![c] = Min(Free)]
  /\ shared' = shared \cup Meets(c, Min(Free))
  /\ UNCHANGED <<connection, do_it, kernel>>

(* The negotiation fails, there is no device, it cannot be opened, or an    *)
(* ioctl of ConfigureNbdDevice fails.  The object is gone, and no destructor *)
(* closes its descriptors: the connection leaks, but no device has it.      *)
ConstructorThrows(c) ==
  /\ pc[c] \in {"find", "open", "clear", "set"}
  /\ pc' = [pc EXCEPT ![c] = "none"]
  /\ dev' = [dev EXCEPT ![c] = 0]
  /\ connection' = [connection EXCEPT ![c] = "none"]
  /\ shared' = shared \ {c}
  /\ UNCHANGED <<do_it, kernel>>

OpenDevice(c) ==
  /\ Goto(c, "open", "clear")
  /\ UNCHANGED <<dev, connection, do_it, kernel, shared>>

ClearOldSock(c) ==
  /\ Goto(c, "clear", "set")
  /\ sock' = [sock EXCEPT ![dev[c]] = NoClient]
  /\ UNCHANGED <<dev, connection, do_it, pid, serving, shared>>

\* mutant: the clearing of an old socket comes after it
SetSockThenClear(c) ==
  /\ Goto(c, "set", "spawn")
  /\ sock[dev[c]] = NoClient
  /\ UNCHANGED <<dev, connection, do_it, kernel, shared>>

SetSock(c) ==
  /\ Goto(c, "set", "spawn")
  /\ sock[dev[c]] = NoClient
  /\ sock' = [sock EXCEPT ![dev[c]] = c]
  /\ UNCHANGED <<dev, connection, do_it, pid, serving, shared>>

SpawnDoIt(c) ==
  /\ Goto(c, "spawn", "yield")
  /\ do_it' = [do_it EXCEPT ![c] = "ready"]
  /\ UNCHANGED <<dev, connection, kernel, shared>>

\* The constructor yields once, whether or not the thread has entered the ioctl.
Constructed(c) ==
  /\ Goto(c, "yield", "up")
  /\ UNCHANGED <<dev, connection, do_it, kernel, shared>>

-----------------------------------------------------------------------------
(* nbd_do_it_thread_, the kernel and the server *)

DoIt(c) ==
  /\ do_it[c] = "ready"
  /\ LET d == dev[c] IN
       IF pid[d] # NoClient \/ sock[d] = NoClient      \* EBUSY, EINVAL
         THEN do_it' = [do_it EXCEPT ![c] = "done"] /\ UNCHANGED kernel
         ELSE /\ do_it' = [do_it EXCEPT ![c] = "inside"]
              /\ pid' = [pid EXCEPT ![d] = c]
              /\ serving' = [serving EXCEPT ![d] = sock[d]]
              /\ UNCHANGED sock
  /\ UNCHANGED <<pc, dev, connection, shared>>

\* The ioctl returns when the connection it reads has ended.
DoItReturns(c) ==
  /\ do_it[c] = "inside"
  /\ connection[serving[dev[c]]] \in {"none", "lost"}
  /\ do_it' = [do_it EXCEPT ![c] = "done"]
  /\ pid' = [pid EXCEPT ![dev[c]] = NoClient]
  /\ sock' = [sock EXCEPT ![dev[c]] = NoClient]
  /\ serving' = [serving EXCEPT ![dev[c]] = NoClient]
  /\ UNCHANGED <<pc, dev, connection, shared>>

\* The server closes the connection, asked to or not.
ServerCloses(c) ==
  /\ connection[c] \in {"up", "closing"}
  /\ connection' = [connection EXCEPT ![c] = "lost"]
  /\ UNCHANGED <<pc, dev, do_it, kernel, shared>>

-----------------------------------------------------------------------------
(* Disconnect and the destructor *)

\* mutant: NBD_DISCONNECT is left out
DisconnectSilently(c) ==
  /\ Goto(c, "up", "clear_sock")
  /\ UNCHANGED <<dev, connection, do_it, kernel, shared>>

\* NBD_DISCONNECT asks the server of whatever socket the device has now.
Disconnect(c) ==
  /\ Goto(c, "up", "clear_sock")
  /\ LET b == sock[dev[c]] IN
       connection' = IF b # NoClient /\ connection[b] = "up"
                     THEN [connection EXCEPT ![b] = "closing"] ELSE connection
  /\ UNCHANGED <<dev, do_it, kernel, shared>>

ClearSock(c) ==
  /\ Goto(c, "clear_sock", "join")
  /\ sock' = [sock EXCEPT ![dev[c]] = NoClient]
  /\ UNCHANGED <<dev, connection, do_it, pid, serving, shared>>

\* the join, and the destructor's close of nbd_fd_ and sock_
Join(c) ==
  /\ Goto(c, "join", "none")
  /\ do_it[c] = "done"
  /\ do_it' = [do_it EXCEPT ![c] = "none"]
  /\ dev' = [dev EXCEPT ![c] = 0]
  /\ connection' = [connection EXCEPT ![c] = "none"]
  /\ shared' = shared \ {c}
  /\ UNCHANGED kernel

-----------------------------------------------------------------------------

Construct(c) ==
  \/ OpenNbdSocket(c) \/ FindOpenNbdDevice(c) \/ OpenDevice(c)
  \/ ClearOldSock(c) \/ SetSock(c) \/ SpawnDoIt(c) \/ Constructed(c)
  \/ ConstructorThrows(c)

Destruct(c) == ClearSock(c) \/ Join(c)

Next ==
  \E c \in Clients : \/ Construct(c)
                     \/ DoIt(c) \/ DoItReturns(c)
                     \/ ServerCloses(c)
                     \/ Disconnect(c) \/ Destruct(c)

Spec == Init /\ [][Next]_vars

(* Threads run on, a server that is asked to disconnect does, and the       *)
(* ioctl returns once its connection has ended.                             *)
FairSpec ==
  /\ Spec
  /\ \A c \in Clients :
       /\ WF_vars(Destruct(c))
       /\ WF_vars(DoIt(c) \/ DoItReturns(c))
       /\ WF_vars(connection[c] = "closing" /\ ServerCloses(c))

-----------------------------------------------------------------------------
(* Properties *)

(* "If the pid file exists, the nbd device is in use", and one without can  *)
(* be used: FindOpenNbdDevice takes no device from a client in use whose    *)
(* connection has not ended.                                                *)
OneOwner ==
  [][\A b \in shared' \ shared : pc[b] = "up" => connection[b] = "lost"]_vars

(* What the code does keep: a client loses its device to another only once  *)
(* its connection has ended or while its thread has still to enter          *)
(* NBD_DO_IT, never while it is served (FindOpenNbdDevice).                 *)
KeptWhileServed ==
  [][\A b \in shared' \ shared :
       pc[b] = "up" => connection[b] = "lost" \/ do_it[b] = "ready"]_vars

(* The device of a client that never met another on it has that client's    *)
(* socket for as long as it is connected, and its thread serves that socket *)
(* or is about to (ConfigureNbdDevice, the order of the ioctls, the thread  *)
(* that starts late).                                                       *)
Undisturbed ==
  \A c \in Clients \ shared :
    pc[c] = "up" /\ connection[c] = "up" =>
      /\ sock[dev[c]] = c
      /\ \/ do_it[c] = "ready" /\ pid[dev[c]] = NoClient
         \/ do_it[c] = "inside" /\ pid[dev[c]] = c /\ serving[dev[c]] = c

(* Disconnect returns: its join waits for an ioctl that NBD_DISCONNECT and  *)
(* NBD_CLEAR_SOCK end, unless another client took the device over.          *)
DisconnectEnds ==
  \A c \in Clients : pc[c] = "clear_sock" ~> pc[c] = "none" \/ c \in shared

=============================================================================
