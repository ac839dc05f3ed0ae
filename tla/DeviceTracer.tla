---------------------------- MODULE DeviceTracer ----------------------------
(***************************************************************************)
(* tracing/: a DeviceTracer, the threads of its CpuTracers and the relay   *)
(* buffers of the kernel they read, with the calls UnsyncedSectorManager   *)
(* makes of it.  DeviceSynchronizer has one buffer and one atomic hand     *)
(* over in the place of all this.                                          *)
(*                                                                         *)
(* A buffer holds records; one with a payload is followed by it, and the   *)
(* reader has to step over it.  poll reports a buffer only when a          *)
(* sub-buffer of it is full, so it may stay silent about records, and it   *)
(* may report one in which nothing but padding is left.                    *)
(***************************************************************************)
EXTENDS Naturals, Sequences

CONSTANTS
  NumCpus,      \* num_cpus_
  Capacity,     \* units a relay buffer holds
  MaxTraces,    \* bound: requests the kernel traces
  Faults        \* may ioctl, open, poll, read and AddTrace fail?

ASSUME TracerAssumption ==
  /\ NumCpus \in Nat \ {0}
  /\ Capacity \in Nat
  /\ MaxTraces \in Nat
  /\ Faults \in BOOLEAN

VARIABLES
  tracer_map_,      \* the device's entry: "absent", "null" or "tracer"
  op,               \* what the thread that uses the manager is doing
  cpu,              \* i of the loops over cpu_tracers_
  tracing,          \* blktrace is set up and started
  left_on,          \* history: CleanupBlockTrace threw and the trace goes on
  buffer,           \* per CPU, the units of the relay buffer not yet read
  thread,           \* where DoTrace of each CPU is
  hand,             \* the record each DoTrace holds
  stop_trace_,
  flush_buffers_,
  flush_thread,     \* where the thread FlushBuffers has for each CPU is
  handled,          \* the traces given to the TraceHandler
  next_id,
  awaited,          \* history: traces not handed over as FlushBuffers began
  overtaken         \* history: CPUs whose request an older empty read ended

kernel == <<tracing, left_on, buffer, next_id>>
manager == <<tracer_map_, op, cpu>>
flushing == <<flush_thread, awaited, overtaken>>
vars == <<kernel, manager, thread, hand, stop_trace_, flush_buffers_, handled,
          flushing>>

Cpus == 1 .. NumCpus
Ids == 1 .. MaxTraces
Unit == [id : Ids, kind : {"trace", "traced_with_payload", "payload"}]
NoRecord == [id |-> 0, kind |-> "none"]

TypeOK ==
  /\ tracer_map_ \in {"absent", "null", "tracer"}
  /\ op \in {"idle", "setup", "open", "cleanup", "stop", "join", "flush",
             "flushed"}
  /\ cpu \in 1 .. NumCpus + 1
  /\ tracing \in BOOLEAN
  /\ left_on \in BOOLEAN
  /\ buffer \in [Cpus -> Seq(Unit)]
  /\ \A c \in Cpus : Len(buffer[c]) <= Capacity
  /\ thread \in [Cpus -> {"none", "loop", "poll", "read", "clear", "add",
                          "skip", "done"}]
  /\ hand \in [Cpus -> Unit \cup {NoRecord}]
  /\ stop_trace_ \in [Cpus -> BOOLEAN]
  /\ flush_buffers_ \in [Cpus -> BOOLEAN]
  /\ flush_thread \in [Cpus -> {"none", "set", "wait"}]
  /\ handled \subseteq Ids
  /\ next_id \in 1 .. MaxTraces + 1
  /\ awaited \in [Cpus -> SUBSET Ids]
  /\ overtaken \subseteq Cpus

Init ==
  /\ tracer_map_ = "absent"
  /\ op = "idle"
  /\ cpu = 1
  /\ tracing = FALSE
  /\ left_on = FALSE
  /\ buffer = [c \in Cpus |-> <<>>]
  /\ thread = [c \in Cpus |-> "none"]
  /\ hand = [c \in Cpus |-> NoRecord]
  /\ stop_trace_ = [c \in Cpus |-> FALSE]
  /\ flush_buffers_ = [c \in Cpus |-> FALSE]
  /\ flush_thread = [c \in Cpus |-> "none"]
  /\ handled = {}
  /\ next_id = 1
  /\ awaited = [c \in Cpus |-> {}]
  /\ overtaken = {}

-----------------------------------------------------------------------------
(* The kernel: a request on CPU c is recorded whole, or dropped when there  *)
(* is no room for it.  Nobody looks at the count of dropped records.        *)

Trace(c, units) ==
  /\ tracing
  /\ next_id <= MaxTraces
  /\ buffer' = IF Len(buffer[c]) + Len(units) <= Capacity
               THEN [buffer EXCEPT ![c] = @ \o units] ELSE buffer
  /\ next_id' = next_id + 1
  /\ UNCHANGED <<tracing, left_on, manager, thread, hand, stop_trace_,
                 flush_buffers_, handled, flushing>>

Plain(n) == <<[id |-> n, kind |-> "trace"]>>
WithPayload(n) == <<[id |-> n, kind |-> "traced_with_payload"],
                    [id |-> n, kind |-> "payload"]>>

-----------------------------------------------------------------------------
(* CpuTracer::DoTrace *)

ThreadStep(c, from, to) ==
  /\ thread[c] = from
  /\ thread' = [thread EXCEPT ![c] = to]

TestStop(c) ==
  /\ ThreadStep(c, "loop", IF stop_trace_[c] THEN "done" ELSE "poll")
  /\ UNCHANGED <<kernel, manager, hand, stop_trace_, flush_buffers_, handled,
                 flushing>>

\* mutant: a timeout is taken to mean that the buffer is empty
PollAnswersFlush(c, ready) ==
  /\ ThreadStep(c, "poll", IF ready THEN "read"
                           ELSE IF flush_buffers_[c] THEN "clear" ELSE "loop")
  /\ UNCHANGED <<kernel, manager, hand, stop_trace_, flush_buffers_, handled,
                 flushing>>

\* poll times out, or reports the buffer
Poll(c, ready) ==
  /\ ThreadStep(c, "poll", IF ready \/ flush_buffers_[c] THEN "read" ELSE "loop")
  /\ UNCHANGED <<kernel, manager, hand, stop_trace_, flush_buffers_, handled,
                 flushing>>

\* mutant: an empty read is not an answer to the flush
ReadEmptyIgnored(c) ==
  /\ thread[c] = "read"
  /\ IF buffer[c] = <<>>
       THEN /\ ThreadStep(c, "read", "loop")
            /\ UNCHANGED <<buffer, hand>>
       ELSE /\ ThreadStep(c, "read", "add")
            /\ hand' = [hand EXCEPT ![c] = Head(buffer[c])]
            /\ buffer' = [buffer EXCEPT ![c] = Tail(@)]
  /\ UNCHANGED <<tracing, left_on, next_id, manager, stop_trace_,
                 flush_buffers_, handled, flushing>>

Read(c) ==
  /\ thread[c] = "read"
  /\ IF buffer[c] = <<>>
       THEN /\ ThreadStep(c, "read", "clear")
            /\ UNCHANGED <<buffer, hand>>
       ELSE /\ ThreadStep(c, "read", IF Head(buffer[c]).kind = "payload"
                                     THEN "done"      \* bad magic number
                                     ELSE "add")
            /\ hand' = [hand EXCEPT ![c] = IF Head(buffer[c]).kind = "payload"
                                           THEN NoRecord ELSE Head(buffer[c])]
            /\ buffer' = [buffer EXCEPT ![c] = Tail(@)]
  /\ UNCHANGED <<tracing, left_on, next_id, manager, stop_trace_,
                 flush_buffers_, handled, flushing>>

ClearFlush(c) ==
  /\ ThreadStep(c, "clear", "loop")
  /\ flush_buffers_' = [flush_buffers_ EXCEPT ![c] = FALSE]
  /\ UNCHANGED <<kernel, manager, hand, stop_trace_, handled, flushing>>

AddTrace(c) ==
  /\ ThreadStep(c, "add", IF hand[c].kind = "trace" THEN "loop" ELSE "skip")
  /\ handled' = handled \cup {hand[c].id}
  /\ hand' = [hand EXCEPT ![c] = NoRecord]
  /\ UNCHANGED <<kernel, manager, stop_trace_, flush_buffers_, flushing>>

\* mutant: the next record is skipped with the payload
SkipTooMuch(c) ==
  /\ ThreadStep(c, "skip", "loop")
  /\ buffer' = [buffer EXCEPT ![c] = SubSeq(@, 3, Len(@))]
  /\ UNCHANGED <<tracing, left_on, next_id, manager, hand, stop_trace_,
                 flush_buffers_, handled, flushing>>

SkipNonseekableFD(c) ==
  /\ ThreadStep(c, "skip", "loop")
  /\ buffer' = [buffer EXCEPT ![c] = Tail(@)]
  /\ UNCHANGED <<tracing, left_on, next_id, manager, hand, stop_trace_,
                 flush_buffers_, handled, flushing>>

\* poll, read or AddTrace fails: the thread ends, and nobody is told
BreakOnError(c) ==
  /\ Faults
  /\ \E from \in {"poll", "read", "add", "skip"} : ThreadStep(c, from, "done")
  /\ hand' = [hand EXCEPT ![c] = NoRecord]
  /\ UNCHANGED <<kernel, manager, stop_trace_, flush_buffers_, handled,
                 flushing>>

DoTrace(c) ==
  \/ TestStop(c) \/ \E ready \in BOOLEAN : Poll(c, ready)
  \/ Read(c) \/ ClearFlush(c) \/ AddTrace(c) \/ SkipNonseekableFD(c)

-----------------------------------------------------------------------------
(* UnsyncedSectorManager::StartTracer and the constructors *)

OpStep(from, to) == op = from /\ op' = to

IsTracing == tracer_map_ = "tracer"

StartTracer ==
  /\ OpStep("idle", "setup")
  /\ ~IsTracing
  /\ tracer_map_' = "null"
  /\ UNCHANGED <<kernel, cpu, thread, hand, stop_trace_, flush_buffers_,
                 handled, flushing>>

\* BLKTRACESETUP refuses a device that is being traced
BeginBlockTrace ==
  /\ OpStep("setup", "open")
  /\ ~tracing
  /\ tracing' = TRUE
  /\ cpu' = 1
  /\ UNCHANGED <<left_on, buffer, next_id, tracer_map_, thread, hand,
                 stop_trace_, flush_buffers_, handled, flushing>>

\* the entry stays null
BeginBlockTraceFails ==
  /\ Faults \/ tracing
  /\ OpStep("setup", "cleanup")
  /\ cpu' = 1
  /\ UNCHANGED <<kernel, tracer_map_, thread, hand, stop_trace_,
                 flush_buffers_, handled, flushing>>

OpenCpuTracer ==
  /\ OpStep("open", "open")
  /\ cpu \in Cpus
  /\ cpu' = cpu + 1
  /\ thread' = [thread EXCEPT ![cpu] = "loop"]
  /\ stop_trace_' = [stop_trace_ EXCEPT ![cpu] = FALSE]
  /\ flush_buffers_' = [flush_buffers_ EXCEPT ![cpu] = FALSE]
  /\ UNCHANGED <<kernel, tracer_map_, hand, handled, flushing>>

OpenCpuTracerFails ==
  /\ Faults
  /\ OpStep("open", "cleanup")
  /\ cpu \in Cpus
  /\ UNCHANGED <<kernel, tracer_map_, cpu, thread, hand, stop_trace_,
                 flush_buffers_, handled, flushing>>

\* mutant: the constructor fails with its block trace running
CleanupNothing ==
  /\ OpStep("cleanup", "idle")
  /\ cpu' = 1
  /\ UNCHANGED <<kernel, tracer_map_, thread, hand, stop_trace_,
                 flush_buffers_, handled, flushing>>

\* in the constructor's catch: the CpuTracers are destroyed after it
CleanupBlockTrace ==
  /\ OpStep("cleanup", "stop")
  /\ tracing' = FALSE
  /\ left_on' = FALSE
  /\ cpu' = 1
  /\ UNCHANGED <<buffer, next_id, tracer_map_, thread, hand, stop_trace_,
                 flush_buffers_, handled, flushing>>

\* BLKTRACESTOP fails, and BLKTRACETEARDOWN is not tried
CleanupBlockTraceFails ==
  /\ Faults
  /\ OpStep("cleanup", "stop")
  /\ left_on' = tracing
  /\ cpu' = 1
  /\ UNCHANGED <<tracing, buffer, next_id, tracer_map_, thread, hand,
                 stop_trace_, flush_buffers_, handled, flushing>>

TracerStarted ==
  /\ OpStep("open", "idle")
  /\ cpu = NumCpus + 1
  /\ tracer_map_' = "tracer"
  /\ cpu' = 1
  /\ UNCHANGED <<kernel, thread, hand, stop_trace_, flush_buffers_, handled,
                 flushing>>

-----------------------------------------------------------------------------
(* UnsyncedSectorManager::StopTracer and the destructors *)

StopTracer ==
  /\ OpStep("idle", "stop")
  /\ IsTracing
  /\ tracer_map_' = "null"
  /\ cpu' = 1
  /\ UNCHANGED <<kernel, thread, hand, stop_trace_, flush_buffers_, handled,
                 flushing>>

StopTrace ==
  /\ OpStep("stop", "join")
  /\ cpu \in Cpus
  /\ stop_trace_' = [stop_trace_ EXCEPT ![cpu] = TRUE]
  /\ UNCHANGED <<kernel, tracer_map_, cpu, thread, hand, flush_buffers_,
                 handled, flushing>>

Join ==
  /\ OpStep("join", "stop")
  /\ thread[cpu] \in {"none", "done"}
  /\ thread' = [thread EXCEPT ![cpu] = "none"]
  /\ cpu' = cpu + 1
  /\ UNCHANGED <<kernel, tracer_map_, hand, stop_trace_, flush_buffers_,
                 handled, flushing>>

\* what the buffers still hold is lost with them
Teardown ==
  /\ OpStep("stop", "idle")
  /\ cpu = NumCpus + 1
  /\ ~left_on
  /\ tracing' = FALSE
  /\ buffer' = [c \in Cpus |-> <<>>]
  /\ cpu' = 1
  /\ UNCHANGED <<left_on, next_id, tracer_map_, thread, hand, stop_trace_,
                 flush_buffers_, handled, flushing>>

\* CleanupBlockTrace threw in the constructor's catch, or does so here
TeardownFails ==
  /\ OpStep("stop", "idle")
  /\ cpu = NumCpus + 1
  /\ left_on \/ (Faults /\ tracing)
  /\ left_on' = TRUE
  /\ cpu' = 1
  /\ UNCHANGED <<tracing, buffer, next_id, tracer_map_, thread, hand,
                 stop_trace_, flush_buffers_, handled, flushing>>

-----------------------------------------------------------------------------
(* DeviceTracer::FlushBuffers, called for a device with a tracer, and the   *)
(* CpuTracer::FlushBuffer of each of its threads.                           *)

Unhandled(c) ==
  {buffer[c][i].id : i \in DOMAIN buffer[c]} \cup ({hand[c].id} \ {0})

FlushBuffers ==
  /\ OpStep("idle", "flush")
  /\ IsTracing
  /\ flush_thread' = [c \in Cpus |-> "set"]
  /\ awaited' = [c \in Cpus |-> Unhandled(c) \ handled]
  /\ overtaken' = {}
  /\ UNCHANGED <<kernel, tracer_map_, cpu, thread, hand, stop_trace_,
                 flush_buffers_, handled>>

RequestFlush(c) ==
  /\ flush_thread[c] = "set"
  /\ flush_thread' = [flush_thread EXCEPT ![c] = "wait"]
  /\ flush_buffers_' = [flush_buffers_ EXCEPT ![c] = TRUE]
  /\ overtaken' = IF thread[c] = "clear" THEN overtaken \cup {c} ELSE overtaken
  /\ UNCHANGED <<kernel, manager, thread, hand, stop_trace_, handled, awaited>>

SeeFlushed(c) ==
  /\ flush_thread[c] = "wait"
  /\ ~flush_buffers_[c]
  /\ flush_thread' = [flush_thread EXCEPT ![c] = "none"]
  /\ UNCHANGED <<kernel, manager, thread, hand, stop_trace_, flush_buffers_,
                 handled, awaited, overtaken>>

\* the loop is a busy one
Yield(c) ==
  /\ flush_thread[c] = "wait"
  /\ flush_buffers_[c]
  /\ UNCHANGED vars

JoinFlushThreads ==
  /\ OpStep("flush", "flushed")
  /\ \A c \in Cpus : flush_thread[c] = "none"
  /\ UNCHANGED <<kernel, tracer_map_, cpu, thread, hand, stop_trace_,
                 flush_buffers_, handled, flushing>>

FlushBuffersReturns ==
  /\ OpStep("flushed", "idle")
  /\ awaited' = [c \in Cpus |-> {}]
  /\ overtaken' = {}
  /\ UNCHANGED <<kernel, tracer_map_, cpu, thread, hand, stop_trace_,
                 flush_buffers_, handled, flush_thread>>

-----------------------------------------------------------------------------

Kernel ==
  \E c \in Cpus : Trace(c, Plain(next_id)) \/ Trace(c, WithPayload(next_id))

Call == StartTracer \/ StopTracer \/ FlushBuffers

Construct ==
  \/ BeginBlockTrace \/ BeginBlockTraceFails
  \/ OpenCpuTracer \/ OpenCpuTracerFails \/ TracerStarted
  \/ CleanupBlockTrace \/ CleanupBlockTraceFails

Destruct == StopTrace \/ Join \/ Teardown \/ TeardownFails

Flush ==
  \/ \E c \in Cpus : RequestFlush(c) \/ SeeFlushed(c) \/ Yield(c)
  \/ JoinFlushThreads \/ FlushBuffersReturns

Next ==
  \/ Kernel
  \/ \E c \in Cpus : DoTrace(c) \/ BreakOnError(c)
  \/ Call \/ Construct \/ Destruct \/ Flush

Spec == Init /\ [][Next]_vars

(* Every thread runs on: poll has a timeout and the other system calls      *)
(* return.  A call of the manager, or an error, need not come.              *)
FairSpec ==
  /\ Spec
  /\ \A c \in Cpus : WF_vars(DoTrace(c))
  /\ WF_vars(Construct) /\ WF_vars(Destruct)
  /\ \A c \in Cpus : WF_vars(RequestFlush(c) \/ SeeFlushed(c))
  /\ WF_vars(JoinFlushThreads \/ FlushBuffersReturns)

-----------------------------------------------------------------------------
(* Properties *)

(* When FlushBuffers returns, every trace that was in a buffer, or in the   *)
(* hand of a thread, as it was called has been given to the TraceHandler;   *)
(* but for a CPU whose thread had just read an empty buffer and took the    *)
(* request for the one it was answering (FlushBuffer, DoTrace).             *)
FlushDelivers ==
  op = "flushed" => \A c \in Cpus \ overtaken : awaited[c] \subseteq handled

(* A device without a tracer has no thread that reads its buffers, and its  *)
(* requests are not being traced unless CleanupBlockTrace threw; also when  *)
(* a constructor threw half way (DeviceTracer, ~DeviceTracer, StopTrace).   *)
NoTracerNoTrace ==
  op = "idle" /\ ~IsTracing =>
    (tracing => left_on) /\ \A c \in Cpus : thread[c] = "none"

IsRecord(unit) == unit.kind # "payload"

\* the traces of CPU c that the TraceHandler has not been given
NotHandedOver(c) ==
  {buffer[c][k].id : k \in {j \in DOMAIN buffer[c] : IsRecord(buffer[c][j])}}
    \cup ({hand[c].id} \ {0})

Channel == INSTANCE TraceChannel WITH
  open <- tracing \/ op \in {"cleanup", "stop", "join"},
  queue <- [c \in Cpus |-> NotHandedOver(c)],
  reading <- {c \in Cpus : thread[c] \notin {"none", "done"}}

(* The threads and buffers of the tracer implement the queues of            *)
(* TraceChannel, on which DeviceSynchronizer relies: a record is handed     *)
(* over once, in the order of its CPU, and is lost only with a thread that  *)
(* ends on an error or with the tracer (DoTrace, ~DeviceTracer).            *)
ImplementsChannel == Channel!ChannelSpec

(* FlushBuffers returns, unless the thread of some CPU has ended on an      *)
(* error: no other thread would clear its flush_buffers_.  StopTracer       *)
(* returns, with every thread joined, whatever the buffers hold.            *)
FlushAndStopReturn ==
  /\ op = "flush" ~> op = "flushed" \/ \E c \in Cpus : thread[c] = "done"
  /\ op = "stop" ~> op = "idle"

=============================================================================
