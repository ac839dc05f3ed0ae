--------------------------- MODULE NbdClientProofs ---------------------------
(***************************************************************************)
(* A client of an nbd device keeps it for as long as it is served, for any *)
(* number of clients and devices, and however late the threads it starts   *)
(* enter NBD_DO_IT.                                                        *)
(***************************************************************************)
EXTENDS NbdClient, WellFoundedInduction, TLAPS

Threaded == {"yield", "up", "clear_sock", "join"}

(* What a client's position says of its device and its thread.              *)
Placed ==
  /\ TypeOK
  /\ \A c \in Clients :
       /\ pc[c] \in Held <=> dev[c] # 0
       /\ pc[c] \in Threaded <=> do_it[c] # "none"

(* A client that has met no other on its device is the only one there, and  *)
(* the device has no pid, then its pid, and its socket, until the           *)
(* connection is lost or the client has given the socket up.                *)
Undivided(b) ==
  /\ \A c \in Clients \ {b} : dev[c] # dev[b]
  /\ do_it[b] \in {"none", "ready"} => pid[dev[b]] = NoClient
  /\ pc[b] \in {"spawn", "yield", "up", "clear_sock"} /\ do_it[b] # "done" =>
       sock[dev[b]] = b
  /\ pc[b] = "join" => sock[dev[b]] = NoClient
  /\ do_it[b] = "inside" => pid[dev[b]] = b /\ serving[dev[b]] = b
  /\ do_it[b] = "done" /\ pc[b] # "join" => connection[b] = "lost"

(* The strengthening: constructors run one at a time, and a device has the  *)
(* pid of the thread that is in NBD_DO_IT.                                  *)
IInv ==
  /\ Placed
  /\ \A b, c \in Clients :
       pc[b] \in Constructing /\ pc[c] \in Constructing => b = c
  /\ \A c \in Clients : pc[c] = "none" <=> connection[c] = "none"
  /\ \A b \in Clients \ shared : pc[b] \in Held => Undivided(b)

\* The search of FindOpenNbdDevice stops at a free device.
LEMMA FirstFree ==
  ASSUME NEW S, S \subseteq Devices, S # {}
  PROVE  Min(S) \in S
<1>1. S \subseteq Nat
  BY NbdAssumption DEF Devices
<1>2. \E x \in S : \A y \in S : ~(<<y, x>> \in OpToRel(<, Nat))
  BY <1>1, WFMin, NatLessThanWellFounded, Zenon
<1>3. \E x \in S : \A y \in S : x <= y
  <2>1. PICK x \in S : \A y \in S : ~(<<y, x>> \in OpToRel(<, Nat))
    BY <1>2, Zenon
  <2>2. ASSUME NEW y \in S PROVE x <= y
    <3>1. <<y, x>> \in Nat \X Nat
      BY <1>1, Zenon
    <3>2. ~(y < x)
      BY <2>1, <3>1, Zenon DEF OpToRel
    <3> QED BY <1>1, <3>2
  <2> QED BY <2>2, Zenon
<1> QED BY <1>3, Zenon DEF Min

\* Before the first client there is nothing to share.
LEMMA InitIInv == Init => IInv
<1> SUFFICES ASSUME Init PROVE IInv
  BY Zenon
<1>1. 0 \in 0 .. NumDevices
  BY NbdAssumption
<1> QED
  BY <1>1, Zenon
     DEF Init, IInv, Placed, TypeOK, Constructing, Held, Threaded, MaybeClient

\* A client that has a thread or is past its search holds an existing device.
LEMMA NextPlaced == Placed /\ [Next]_vars => Placed'
<1> SUFFICES ASSUME Placed, [Next]_vars PROVE Placed'
  BY Zenon
<1> USE NbdAssumption
       DEF Placed, TypeOK, Constructing, Held, Threaded, Goto, kernel, Devices,
           MaybeClient
<1>1. ASSUME NEW c \in Clients, OpenNbdSocket(c) PROVE Placed'
  BY <1>1, Zenon DEF OpenNbdSocket
<1>2. ASSUME NEW c \in Clients, FindOpenNbdDevice(c) PROVE Placed'
  <2>1. Free \subseteq Devices /\ Free # {}
    BY <1>2, Zenon DEF FindOpenNbdDevice, Free
  <2>2. Min(Free) \in Devices
    BY <2>1, FirstFree, Zenon
  <2> QED BY <1>2, <2>2 DEF FindOpenNbdDevice, Meets
<1>3. ASSUME NEW c \in Clients, ConstructorThrows(c) PROVE Placed'
  BY <1>3 DEF ConstructorThrows
<1>4. ASSUME NEW c \in Clients, OpenDevice(c) PROVE Placed'
  BY <1>4, Zenon DEF OpenDevice
<1>5. ASSUME NEW c \in Clients, ClearOldSock(c) PROVE Placed'
  BY <1>5, Zenon DEF ClearOldSock
<1>6. ASSUME NEW c \in Clients, SetSock(c) PROVE Placed'
  BY <1>6, Zenon DEF SetSock
<1>7. ASSUME NEW c \in Clients, SpawnDoIt(c) PROVE Placed'
  BY <1>7, Zenon DEF SpawnDoIt
<1>8. ASSUME NEW c \in Clients, Constructed(c) PROVE Placed'
  BY <1>8, Zenon DEF Constructed
<1>9. ASSUME NEW c \in Clients, DoIt(c) PROVE Placed'
  <2>1. dev[c] \in Devices /\ sock[dev[c]] \in MaybeClient
    BY <1>9 DEF DoIt
  <2>2. CASE pid[dev[c]] # NoClient \/ sock[dev[c]] = NoClient
    BY <1>9, <2>2, ZenonT(30) DEF DoIt
  <2>3. CASE ~(pid[dev[c]] # NoClient \/ sock[dev[c]] = NoClient)
    <3>1. /\ do_it[c] = "ready"
          /\ do_it' = [do_it EXCEPT ![c] = "inside"]
          /\ pid' = [pid EXCEPT ![dev[c]] = c]
          /\ serving' = [serving EXCEPT ![dev[c]] = sock[dev[c]]]
          /\ UNCHANGED <<pc, dev, connection, shared, sock>>
      BY <1>9, <2>3, Zenon DEF DoIt
    <3> QED BY <2>1, <3>1, Zenon
  <2> QED BY <2>2, <2>3, Zenon
<1>10. ASSUME NEW c \in Clients, DoItReturns(c) PROVE Placed'
  BY <1>10, Zenon DEF DoItReturns
<1>11. ASSUME NEW c \in Clients, ServerCloses(c) PROVE Placed'
  BY <1>11, Zenon DEF ServerCloses
<1>12. ASSUME NEW c \in Clients, Disconnect(c) PROVE Placed'
  BY <1>12, Zenon DEF Disconnect
<1>13. ASSUME NEW c \in Clients, ClearSock(c) PROVE Placed'
  BY <1>13, Zenon DEF ClearSock
<1>14. ASSUME NEW c \in Clients, Join(c) PROVE Placed'
  BY <1>14 DEF Join
<1>15. CASE UNCHANGED vars
  BY <1>15, Zenon DEF vars
<1> QED
  BY <1>1, <1>2, <1>3, <1>4, <1>5, <1>6, <1>7, <1>8, <1>9, <1>10, <1>11, <1>12,
     <1>13, <1>14, <1>15, Zenon
     DEF Next, Construct, Destruct

\* Every step of a client, its thread or the server preserves it.
LEMMA NextIInv ==
  ASSUME IInv, [Next]_vars
  PROVE  IInv'
<1>0. Placed'
  BY NextPlaced, Zenon DEF IInv
<1> USE <1>0, NbdAssumption
       DEF IInv, Placed, TypeOK, Undivided, Constructing, Held, Threaded, Goto,
           kernel, Devices, MaybeClient
<1>1. ASSUME NEW c \in Clients, OpenNbdSocket(c) PROVE IInv'
  BY <1>1 DEF OpenNbdSocket
<1>2. ASSUME NEW c \in Clients, FindOpenNbdDevice(c) PROVE IInv'
  <2> DEFINE d == Min(Free)
  <2>1. d \in Devices /\ pid[d] = NoClient
    <3>1. Free \subseteq Devices /\ Free # {}
      BY <1>2, Zenon DEF FindOpenNbdDevice, Free
    <3>2. Min(Free) \in Free
      BY <3>1, FirstFree, Zenon
    <3> QED BY <3>2, Zenon DEF Free
  <2>2. dev' = [dev EXCEPT ![c] = d] /\ shared' = shared \cup Meets(c, d)
    BY <1>2, Zenon DEF FindOpenNbdDevice
  <2> HIDE DEF d
  <2>3. ASSUME NEW b \in Clients \ shared', pc'[b] \in Held PROVE Undivided(b)'
    <3>1. CASE b = c
      <4>1. \A a \in Clients \ {c} : dev[a] # d
        BY <2>1, <2>2, <2>3, <3>1 DEF Meets
      <4> QED BY <1>2, <2>1, <2>2, <3>1, <4>1 DEF FindOpenNbdDevice
    <3>2. CASE b # c
      <4>1. dev[b] # d
        BY <1>2, <2>1, <2>2, <2>3, <3>2 DEF FindOpenNbdDevice, Meets
      <4> QED BY <1>2, <2>2, <2>3, <3>2, <4>1 DEF FindOpenNbdDevice
    <3> QED BY <3>1, <3>2, Zenon
  <2> QED BY <1>2, <2>1, <2>2, <2>3 DEF FindOpenNbdDevice
<1>3. ASSUME NEW c \in Clients, ConstructorThrows(c) PROVE IInv'
  BY <1>3 DEF ConstructorThrows
<1>4. ASSUME NEW c \in Clients, OpenDevice(c) PROVE IInv'
  BY <1>4 DEF OpenDevice
<1>5. ASSUME NEW c \in Clients, ClearOldSock(c) PROVE IInv'
  <2>1. dev[c] \in Devices
    BY <1>5 DEF ClearOldSock
  <2>2. ASSUME NEW b \in Clients \ shared', pc'[b] \in Held PROVE Undivided(b)'
    <3>1. CASE b = c
      BY <1>5, <2>1, <2>2, <3>1 DEF ClearOldSock
    <3>2. CASE b # c
      BY <1>5, <2>1, <2>2, <3>2 DEF ClearOldSock
    <3> QED BY <3>1, <3>2, Zenon
  <2> QED BY <1>5, <2>2 DEF ClearOldSock
<1>6. ASSUME NEW c \in Clients, SetSock(c) PROVE IInv'
  BY <1>6 DEF SetSock
<1>7. ASSUME NEW c \in Clients, SpawnDoIt(c) PROVE IInv'
  BY <1>7 DEF SpawnDoIt
<1>8. ASSUME NEW c \in Clients, Constructed(c) PROVE IInv'
  BY <1>8 DEF Constructed
<1>9. ASSUME NEW c \in Clients, DoIt(c) PROVE IInv'
  <2>1. dev[c] \in Devices
    BY <1>9 DEF DoIt
  <2>2. ASSUME NEW b \in Clients \ shared', pc'[b] \in Held PROVE Undivided(b)'
    <3>1. CASE b = c
      BY <1>9, <2>1, <2>2, <3>1 DEF DoIt
    <3>2. CASE b # c
      BY <1>9, <2>1, <2>2, <3>2 DEF DoIt
    <3> QED BY <3>1, <3>2, Zenon
  <2> QED BY <1>9, <2>2 DEF DoIt
<1>10. ASSUME NEW c \in Clients, DoItReturns(c) PROVE IInv'
  BY <1>10 DEF DoItReturns
<1>11. ASSUME NEW c \in Clients, ServerCloses(c) PROVE IInv'
  BY <1>11 DEF ServerCloses
<1>12. ASSUME NEW c \in Clients, Disconnect(c) PROVE IInv'
  BY <1>12 DEF Disconnect
<1>13. ASSUME NEW c \in Clients, ClearSock(c) PROVE IInv'
  BY <1>13 DEF ClearSock
<1>14. ASSUME NEW c \in Clients, Join(c) PROVE IInv'
  BY <1>14 DEF Join
<1>15. CASE UNCHANGED vars
  BY <1>15 DEF vars
<1> QED
  BY <1>1, <1>2, <1>3, <1>4, <1>5, <1>6, <1>7, <1>8, <1>9, <1>10, <1>11, <1>12,
     <1>13, <1>14, <1>15, Zenon
     DEF Next, Construct, Destruct

\* The strengthening holds throughout.
LEMMA Invariance == Spec => []IInv
<1>1. IInv /\ [Next]_vars => IInv'
  BY NextIInv, Zenon
<1> QED BY <1>1, InitIInv, PTL DEF Spec

(* Every reachable state of the clients and devices is well typed; in       *)
(* particular a client that holds a device holds an existing one.           *)
THEOREM NbdTypeCorrect == Spec => []TypeOK
<1>1. Init => Placed BY InitIInv, Zenon DEF IInv
<1>2. Placed => TypeOK BY Zenon DEF Placed
<1> QED BY <1>1, <1>2, NextPlaced, PTL DEF Spec

(* A connected client that has met no other is served through its own       *)
(* socket, or will be once its thread runs, for any number of clients and   *)
(* devices.                                                                 *)
THEOREM ServedBySelf == Spec => []Undisturbed
<1>1. IInv => Undisturbed
  BY ZenonT(30) DEF IInv, Placed, TypeOK, Undivided, Undisturbed, Held, Threaded
<1> QED BY <1>1, Invariance, PTL

(* FindOpenNbdDevice gives no client the device of another that is          *)
(* connected and whose thread is in NBD_DO_IT.                              *)
THEOREM DeviceKept == Spec => KeptWhileServed
<1> DEFINE Kept == \A b \in shared' \ shared :
                     pc[b] = "up" => connection[b] = "lost" \/ do_it[b] = "ready"
<1>1. IInv /\ [Next]_vars => [Kept]_vars
  <2> SUFFICES ASSUME IInv, [Next]_vars PROVE [Kept]_vars
    BY Zenon
  <2>1. ASSUME NEW c \in Clients, FindOpenNbdDevice(c) PROVE Kept
    <3> DEFINE d == Min(Free)
    <3>1. d \in Devices /\ pid[d] = NoClient
      BY <2>1, FirstFree, Zenon DEF FindOpenNbdDevice, Free
    <3>2. ASSUME NEW b \in shared' \ shared, pc[b] = "up"
          PROVE  b \in Clients \ {c} /\ dev[b] = d
      BY <2>1, <3>2, Zenon DEF FindOpenNbdDevice, Meets, Goto, Held
    <3>3. ASSUME NEW b \in shared' \ shared, pc[b] = "up"
          PROVE  connection[b] = "lost" \/ do_it[b] = "ready"
      BY <2>1, <3>1, <3>2, <3>3, NbdAssumption
         DEF FindOpenNbdDevice, Goto, IInv, Placed, TypeOK, Undivided,
             Constructing, Held, Threaded
    <3> QED BY <3>3, Zenon
  <2>2. CASE ~(\E c \in Clients : FindOpenNbdDevice(c))
    <3>1. shared' \subseteq shared
      BY <2>2, Zenon
         DEF Next, Construct, Destruct, OpenNbdSocket, OpenDevice,
             ClearOldSock, SetSock, SpawnDoIt, Constructed, ConstructorThrows,
             DoIt, DoItReturns, ServerCloses, Disconnect, ClearSock, Join, vars
    <3> QED BY <3>1, Zenon
  <2> QED BY <2>1, <2>2, Zenon
<1> QED BY <1>1, Invariance, PTL DEF Spec, KeptWhileServed

=============================================================================
