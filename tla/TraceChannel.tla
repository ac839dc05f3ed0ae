---------------------------- MODULE TraceChannel ----------------------------
(***************************************************************************)
(* What a DeviceTracer promises the store it feeds: per CPU a queue of     *)
(* traces, handed over in order and once each.  A reader that ends loses   *)
(* the trace it holds and nothing more; what is still queued then goes     *)
(* when the channel is closed, and only then.                              *)
(*                                                                         *)
(* Traces are numbered in the order in which they are made, so that a      *)
(* queue is a set of which the least is next.                              *)
(***************************************************************************)
EXTENDS Naturals

CONSTANTS Cpus, Ids

VARIABLES
  open,       \* the device is being traced
  queue,      \* per CPU, the traces not handed over
  reading,    \* the CPUs whose reader is alive
  handled     \* the traces handed over

channel == <<open, queue, reading, handled>>

ChannelInit ==
  /\ open = FALSE
  /\ queue = [c \in Cpus |-> {}]
  /\ reading = {}
  /\ handled = {}

Open ==
  /\ ~open
  /\ open' = TRUE
  /\ UNCHANGED <<queue, reading, handled>>

StartReader(c) ==
  /\ open
  /\ reading' = reading \cup {c}
  /\ UNCHANGED <<open, queue, handled>>

Accept(c, id) ==
  /\ open
  /\ \A made \in handled \cup UNION {queue[d] : d \in Cpus} : made < id
  /\ queue' = [queue EXCEPT ![c] = @ \cup {id}]
  /\ UNCHANGED <<open, reading, handled>>

IsNext(c, id) == id \in queue[c] /\ \A other \in queue[c] : id <= other

HandOver(c, id) ==
  /\ c \in reading
  /\ IsNext(c, id)
  /\ handled' = handled \cup {id}
  /\ queue' = [queue EXCEPT ![c] = @ \ {id}]
  /\ UNCHANGED <<open, reading>>

EndReader(c) ==
  /\ c \in reading
  /\ reading' = reading \ {c}
  /\ UNCHANGED <<open, queue, handled>>

EndReaderHolding(c, id) ==
  /\ c \in reading
  /\ IsNext(c, id)
  /\ reading' = reading \ {c}
  /\ queue' = [queue EXCEPT ![c] = @ \ {id}]
  /\ UNCHANGED <<open, handled>>

Close ==
  /\ open
  /\ reading = {}
  /\ open' = FALSE
  /\ queue' = [c \in Cpus |-> {}]
  /\ UNCHANGED <<reading, handled>>

ChannelNext ==
  \/ Open
  \/ \E c \in Cpus :
       \/ StartReader(c) \/ EndReader(c)
       \/ \E id \in Ids : Accept(c, id) \/ HandOver(c, id) \/ EndReaderHolding(c, id)
  \/ Close

ChannelSpec == ChannelInit /\ [][ChannelNext]_channel

=============================================================================
