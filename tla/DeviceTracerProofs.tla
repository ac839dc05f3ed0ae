------------------------- MODULE DeviceTracerProofs -------------------------
(***************************************************************************)
(* Proofs about DeviceTracer, for every number of CPUs, size of the relay  *)
(* buffers and number of traces: the records of a CPU are read whole and   *)
(* handed over in order, FlushBuffers returns with nothing left behind, a  *)
(* tracer that is gone has left nothing running, and the whole implements  *)
(* TraceChannel.                                                           *)
(*                                                                         *)
(* The invariant has five parts.  Ordered and Aligned are about a buffer   *)
(* and the thread that reads it, Lifecycle about the manager, Flushing     *)
(* about a request to flush; TypeOK needs Aligned, since a thread that had *)
(* no record in its hand would hand over a trace that is none.             *)
(***************************************************************************)
EXTENDS DeviceTracer, Integers, TLAPS

-----------------------------------------------------------------------------
(* Relay buffers: a record with a payload is followed by it, and records    *)
(* are in the order in which they were made.                                *)

WellFormed(s) ==
  /\ \A k \in DOMAIN s : s[k].kind = "payload" =>
       k = 1 \/ s[k - 1].kind = "traced_with_payload"
  /\ \A k \in DOMAIN s : s[k].kind = "traced_with_payload" =>
       /\ k + 1 \in DOMAIN s
       /\ s[k + 1].kind = "payload" /\ s[k + 1].id = s[k].id
  /\ \A j, k \in DOMAIN s :
       j < k /\ IsRecord(s[j]) /\ IsRecord(s[k]) => s[j].id < s[k].id

AtRecord(s) == s # <<>> => IsRecord(s[1])
AllBelow(s, n) == \A k \in DOMAIN s : s[k].id < n
RecordIds(s) == {s[k].id : k \in {j \in DOMAIN s : IsRecord(s[j])}}
AllIds(s) == {s[k].id : k \in DOMAIN s}

\* What is left of a buffer when its first unit has been read.
LEMMA TailUnits ==
  ASSUME NEW s \in Seq(Unit), s # <<>>
  PROVE  /\ Len(s) \in Nat /\ Len(s) >= 1 /\ DOMAIN s = 1 .. Len(s)
         /\ Head(s) = s[1] /\ s[1] \in Unit
         /\ Tail(s) \in Seq(Unit) /\ Len(Tail(s)) = Len(s) - 1
         /\ DOMAIN Tail(s) = 1 .. Len(s) - 1
         /\ \A k \in 1 .. Len(s) - 1 : Tail(s)[k] = s[k + 1]
<1>1. Len(s) \in Nat /\ Len(s) >= 1 /\ DOMAIN s = 1 .. Len(s)
  OBVIOUS
<1>2. s[1] \in Unit
  BY <1>1
<1>3. Head(s) = s[1] /\ Tail(s) \in Seq(Unit) /\ Len(Tail(s)) = Len(s) - 1
      /\ \A k \in 1 .. Len(s) - 1 : Tail(s)[k] = s[k + 1]
  BY <1>1
<1>4. DOMAIN Tail(s) = 1 .. Len(s) - 1
  BY <1>3
<1> QED BY <1>1, <1>2, <1>3, <1>4, Zenon

\* The units of a buffer are what they should be.
LEMMA UnitsOf ==
  ASSUME NEW s \in Seq(Unit)
  PROVE  \A k \in DOMAIN s : s[k] \in Unit
  OBVIOUS

\* Reading a unit leaves a buffer in order,
LEMMA WellFormedTail ==
  ASSUME NEW s \in Seq(Unit), s # <<>>, WellFormed(s)
  PROVE  WellFormed(Tail(s))
<1> DEFINE t == Tail(s)
<1>1. \A k \in DOMAIN t : k \in DOMAIN s /\ k + 1 \in DOMAIN s /\ t[k] = s[k + 1]
  BY TailUnits
<1>2. \A k \in DOMAIN t : k \in Int
  BY TailUnits
<1>3. \A k \in Int : k + 1 \in DOMAIN s /\ k >= 1 => k \in DOMAIN t
  BY TailUnits
<1>4. \A k \in DOMAIN t : k >= 1
  BY TailUnits
<1> HIDE DEF t
<1>5. ASSUME NEW k \in DOMAIN t, t[k].kind = "payload", k # 1
      PROVE  t[k - 1].kind = "traced_with_payload"
  <2>1. k \in Int /\ (k + 1) - 1 = k /\ (k - 1) + 1 = k /\ k + 1 # 1
    BY <1>2, <1>4
  <2>2. s[k].kind = "traced_with_payload"
    BY <1>1, <1>5, <2>1, ZenonT(30) DEF WellFormed
  <2>3. k - 1 \in DOMAIN t
    BY <1>1, <1>3, <1>4, <1>5, <2>1
  <2> QED BY <1>1, <2>1, <2>2, <2>3, Zenon
<1>6. ASSUME NEW k \in DOMAIN t, t[k].kind = "traced_with_payload"
      PROVE  k + 1 \in DOMAIN t /\ t[k + 1].kind = "payload" /\ t[k + 1].id = t[k].id
  <2>1. /\ (k + 1) + 1 \in DOMAIN s
        /\ s[(k + 1) + 1].kind = "payload" /\ s[(k + 1) + 1].id = s[k + 1].id
    BY <1>1, <1>6, Zenon DEF WellFormed
  <2>2. k + 1 \in DOMAIN t
    BY <1>2, <1>3, <1>4, <2>1
  <2> QED BY <1>1, <2>1, <2>2, Zenon
<1>7. \A j, k \in DOMAIN t :
        j < k /\ IsRecord(t[j]) /\ IsRecord(t[k]) => t[j].id < t[k].id
  BY <1>1, <1>2 DEF WellFormed
<1> QED BY <1>5, <1>6, <1>7, Zenon DEF WellFormed, t

\* and takes away the trace of the unit, if it was a record.
LEMMA IdsTail ==
  ASSUME NEW s \in Seq(Unit), s # <<>>
  PROVE  /\ AllIds(s) = AllIds(Tail(s)) \cup {s[1].id}
         /\ RecordIds(s) = RecordIds(Tail(s)) \cup
                             (IF IsRecord(s[1]) THEN {s[1].id} ELSE {})
<1>1. \A k \in DOMAIN s : k = 1 \/ (k - 1 \in DOMAIN Tail(s) /\ (k - 1) + 1 = k)
  BY TailUnits
<1>2. \A k \in DOMAIN Tail(s) : Tail(s)[k] = s[k + 1] /\ k + 1 \in DOMAIN s
  BY TailUnits
<1>3. \A k \in DOMAIN s : k = 1 \/ \E j \in DOMAIN Tail(s) : s[k] = Tail(s)[j]
  BY <1>1, <1>2, Zenon
<1>4. 1 \in DOMAIN s
  BY TailUnits
<1>5. AllIds(s) = AllIds(Tail(s)) \cup {s[1].id}
  BY <1>2, <1>3, <1>4 DEF AllIds
<1>6. RecordIds(s) = RecordIds(Tail(s)) \cup
                       (IF IsRecord(s[1]) THEN {s[1].id} ELSE {})
  BY <1>2, <1>3, <1>4 DEF RecordIds
<1> QED BY <1>5, <1>6, Zenon

\* A request that is recorded comes after all others, with its payload.
LEMMA Recorded ==
  ASSUME NEW s \in Seq(Unit), NEW n \in Ids, NEW units \in {Plain(n), WithPayload(n)}
  PROVE  /\ s \o units \in Seq(Unit) /\ Len(s \o units) = Len(s) + Len(units)
         /\ AllIds(s \o units) = AllIds(s) \cup {n}
         /\ RecordIds(s \o units) = RecordIds(s) \cup {n}
         /\ s # <<>> => s \o units # <<>> /\ (s \o units)[1] = s[1]
         /\ s = <<>> => IsRecord((s \o units)[1])
         /\ WellFormed(s) /\ AllBelow(s, n) => WellFormed(s \o units)
<1> DEFINE t == s \o units
           L == Len(s)
           m == Len(units)
<1>1. /\ units \in Seq(Unit) /\ m \in {1, 2} /\ units[1].id = n /\ IsRecord(units[1])
      /\ m = 1 => units[1].kind = "trace"
      /\ m = 2 => /\ units[1].kind = "traced_with_payload"
                  /\ units[2].kind = "payload" /\ units[2].id = n
  <2>1. CASE units = Plain(n)
    BY <2>1 DEF Plain, Unit, IsRecord
  <2>2. CASE units = WithPayload(n)
    BY <2>2 DEF WithPayload, Unit, IsRecord
  <2> QED BY <2>1, <2>2, Zenon
<1>2. L \in Nat /\ DOMAIN s = 1 .. L
  OBVIOUS
<1>3. /\ t \in Seq(Unit) /\ Len(t) = L + m /\ DOMAIN t = 1 .. L + m
      /\ \A k \in 1 .. L : t[k] = s[k]
      /\ \A k \in L + 1 .. L + m : t[k] = units[k - L]
  BY <1>1, <1>2
<1> HIDE DEF t, L, m
<1>4. /\ t[L + 1].id = n /\ IsRecord(t[L + 1])
      /\ m = 1 => t[L + 1].kind = "trace"
      /\ m = 2 => /\ t[L + 1].kind = "traced_with_payload"
                  /\ t[L + 2].kind = "payload" /\ t[L + 2].id = n
  BY <1>1, <1>2, <1>3
<1>5. \A k \in DOMAIN t : (k \in DOMAIN s /\ t[k] = s[k]) \/ k = L + 1
                          \/ (m = 2 /\ k = L + 2)
  BY <1>1, <1>2, <1>3
<1>6. L + 1 \in DOMAIN t /\ (m = 2 => L + 2 \in DOMAIN t)
      /\ \A k \in DOMAIN s : k \in DOMAIN t /\ t[k] = s[k]
  BY <1>1, <1>2, <1>3
<1>7. AllIds(t) = AllIds(s) \cup {n}
  BY <1>4, <1>5, <1>6 DEF AllIds
<1>8. RecordIds(t) = RecordIds(s) \cup {n}
  BY <1>4, <1>5, <1>6 DEF RecordIds, IsRecord
<1>9. ASSUME WellFormed(s), AllBelow(s, n) PROVE WellFormed(t)
  <2>1. \A k \in DOMAIN t : t[k].kind = "payload" =>
          k = 1 \/ t[k - 1].kind = "traced_with_payload"
    BY <1>1, <1>2, <1>4, <1>5, <1>6, <1>9 DEF WellFormed, IsRecord
  <2>2. \A k \in DOMAIN t : t[k].kind = "traced_with_payload" =>
          /\ k + 1 \in DOMAIN t
          /\ t[k + 1].kind = "payload" /\ t[k + 1].id = t[k].id
    BY <1>1, <1>2, <1>4, <1>5, <1>6, <1>9 DEF WellFormed, IsRecord
  <2>3. \A j, k \in DOMAIN t :
          j < k /\ IsRecord(t[j]) /\ IsRecord(t[k]) => t[j].id < t[k].id
    BY <1>1, <1>2, <1>4, <1>5, <1>6, <1>9 DEF WellFormed, IsRecord, AllBelow
  <2> QED BY <2>1, <2>2, <2>3, Zenon DEF WellFormed
<1>10. s # <<>> => t # <<>> /\ t[1] = s[1]
  BY <1>1, <1>2, <1>3 DEF L, m
<1>11. s = <<>> => IsRecord(t[1])
  BY <1>4 DEF L
<1> QED BY <1>3, <1>7, <1>8, <1>9, <1>10, <1>11, Zenon DEF t, L, m

-----------------------------------------------------------------------------
(* The inductive invariant                                                  *)

(* A trace has a number that no later one gets; what a CPU has not handed   *)
(* over is in order, and the record in the hand of its thread comes first.  *)
Ordered ==
  /\ \A id \in handled : id < next_id
  /\ \A c \in Cpus :
       /\ WellFormed(buffer[c])
       /\ AllBelow(buffer[c], next_id)
       /\ hand[c].id < next_id
       /\ hand[c] # NoRecord => \A id \in RecordIds(buffer[c]) : hand[c].id < id

(* A thread that is to skip a payload has it before it, one that is to read *)
(* a record does not.                                                       *)
AtPayload(s, ids) == s # <<>> /\ s[1].kind = "payload" /\ s[1].id \in ids

Reading(c) ==
  \/ thread[c] \in {"loop", "poll", "read", "clear"}
  \/ hand[c].kind = "trace"
  \/ op = "open" /\ c >= cpu

AlignedAt(c) ==
  /\ thread[c] = "add" <=> hand[c] # NoRecord
  /\ IsRecord(hand[c])
  /\ hand[c].kind = "traced_with_payload" => AtPayload(buffer[c], {hand[c].id})
  /\ thread[c] = "skip" => AtPayload(buffer[c], handled)
  /\ Reading(c) => AtRecord(buffer[c])

Aligned == \A c \in Cpus : AlignedAt(c)

(* Where the constructor, the destructor and the manager are, and which     *)
(* threads and buffers there are then.                                      *)
Lifecycle ==
  /\ IsTracing => tracing /\ op \in {"idle", "flush", "flushed"}
  /\ op \in {"flush", "flushed"} => IsTracing
  /\ left_on => tracing
  /\ op = "open" => tracing
  /\ op \in {"open", "cleanup"} => \A c \in Cpus : c >= cpu => thread[c] = "none"
  /\ op \in {"stop", "join"} => \A c \in Cpus : c < cpu => thread[c] = "none"
  /\ op \in {"cleanup", "join"} => cpu \in Cpus
  /\ op \in {"idle", "setup"} /\ ~IsTracing =>
       /\ tracing => left_on
       /\ \A c \in Cpus : thread[c] = "none" /\ (tracing \/ buffer[c] = <<>>)

(* A request to flush is open while its thread waits; until an empty read   *)
(* answers it, what is awaited is still on its way, or the thread of the    *)
(* CPU has ended.                                                           *)
OnItsWay(c) ==
  \/ awaited[c] \subseteq handled
  \/ /\ thread[c] = "done"
     /\ flush_thread[c] = "set" \/ flush_buffers_[c]
  \/ /\ awaited[c] \subseteq handled \cup Unhandled(c)
     /\ flush_thread[c] = "set" \/ (flush_buffers_[c] /\ thread[c] # "clear")

FlushingAt(c) ==
  /\ op # "flush" => flush_thread[c] = "none"
  /\ flush_buffers_[c] => flush_thread[c] = "wait"
  /\ op \in {"flush", "flushed"} /\ c \notin overtaken => OnItsWay(c)

Flushing == \A c \in Cpus : FlushingAt(c)

\* Every step, by the thread that takes it.
LEMMA StepCases ==
  ASSUME [Next]_vars
  PROVE  \/ \E c \in Cpus : \E units \in {Plain(next_id), WithPayload(next_id)} :
              Trace(c, units)
         \/ \E c \in Cpus :
              \/ TestStop(c) \/ (\E ready \in BOOLEAN : Poll(c, ready))
              \/ Read(c) \/ ClearFlush(c) \/ AddTrace(c) \/ SkipNonseekableFD(c)
              \/ BreakOnError(c)
              \/ RequestFlush(c) \/ SeeFlushed(c)
         \/ StartTracer \/ StopTracer \/ FlushBuffers
         \/ BeginBlockTrace \/ BeginBlockTraceFails
         \/ OpenCpuTracer \/ OpenCpuTracerFails \/ TracerStarted
         \/ CleanupBlockTrace \/ CleanupBlockTraceFails
         \/ StopTrace \/ Join \/ Teardown \/ TeardownFails
         \/ JoinFlushThreads \/ FlushBuffersReturns
         \/ UNCHANGED vars
  BY Zenon DEF Next, Kernel, DoTrace, Call, Construct, Destruct, Flush, Yield

-----------------------------------------------------------------------------
(* Types                                                                    *)

\* Nothing is traced, handled or awaited at first.
LEMMA InitTypes == Init => TypeOK
<1> SUFFICES ASSUME Init PROVE TypeOK
  BY Zenon
<1>1. 1 \in 1 .. NumCpus + 1 /\ 1 \in 1 .. MaxTraces + 1 /\ Capacity >= 0
  BY TracerAssumption
<1>2. buffer \in [Cpus -> Seq(Unit)] /\ \A c \in Cpus : Len(buffer[c]) <= Capacity
  BY <1>1 DEF Init
<1> QED BY <1>1, <1>2, Zenon DEF Init, TypeOK

\* Every step keeps the types.
LEMMA NextTypes ==
  ASSUME TypeOK, Aligned, Lifecycle, [Next]_vars
  PROVE  TypeOK'
<1> USE DEF TypeOK, kernel, manager, flushing, ThreadStep, OpStep
<1>1. ASSUME NEW c \in Cpus, NEW units \in {Plain(next_id), WithPayload(next_id)},
             Trace(c, units)
      PROVE  TypeOK'
  <2>1. next_id \in Ids /\ next_id' \in 1 .. MaxTraces + 1
    BY <1>1, TracerAssumption DEF Trace, Ids
  <2>2. buffer[c] \o units \in Seq(Unit)
    BY <2>1, Recorded, Zenon
  <2>3. CASE Len(buffer[c]) + Len(units) <= Capacity
    <3>1. Len(buffer[c] \o units) = Len(buffer[c]) + Len(units)
      BY <2>1, Recorded, Zenon
    <3>2. buffer' = [buffer EXCEPT ![c] = buffer[c] \o units]
      BY <1>1, <2>3, Zenon DEF Trace
    <3>3. \A d \in Cpus : Len(buffer'[d]) <= Capacity
      BY <2>3, <3>1, <3>2, Zenon
    <3> QED BY <1>1, <2>1, <2>2, <3>2, <3>3, ZenonT(30) DEF Trace
  <2>4. CASE ~(Len(buffer[c]) + Len(units) <= Capacity)
    BY <1>1, <2>1, <2>4, Zenon DEF Trace
  <2> QED BY <2>3, <2>4, Zenon
<1>2. ASSUME NEW c \in Cpus, TestStop(c) PROVE TypeOK'
  BY <1>2, Zenon DEF TestStop
<1>3. ASSUME NEW c \in Cpus, NEW ready \in BOOLEAN, Poll(c, ready) PROVE TypeOK'
  BY <1>3, Zenon DEF Poll
<1>4. ASSUME NEW c \in Cpus, Read(c) PROVE TypeOK'
  <2>1. CASE buffer[c] = <<>>
    BY <1>4, <2>1, Zenon DEF Read
  <2>2. CASE buffer[c] # <<>>
    <3>1. /\ Head(buffer[c]) \in Unit /\ Tail(buffer[c]) \in Seq(Unit)
          /\ Len(Tail(buffer[c])) <= Capacity
      BY <2>2, TailUnits, TracerAssumption
    <3>2. buffer' = [buffer EXCEPT ![c] = Tail(buffer[c])]
      BY <1>4, <2>2, Zenon DEF Read
    <3>3. /\ buffer' \in [Cpus -> Seq(Unit)]
          /\ \A d \in Cpus : Len(buffer'[d]) <= Capacity
      BY <3>1, <3>2, Zenon
    <3>4. hand' \in [Cpus -> Unit \cup {NoRecord}]
      BY <1>4, <2>2, <3>1, ZenonT(60) DEF Read
    <3> QED BY <1>4, <2>2, <3>3, <3>4, Zenon DEF Read
  <2> QED BY <2>1, <2>2, Zenon
<1>5. ASSUME NEW c \in Cpus, ClearFlush(c) PROVE TypeOK'
  BY <1>5, Zenon DEF ClearFlush
<1>6. ASSUME NEW c \in Cpus, AddTrace(c) PROVE TypeOK'
  <2>1. hand[c].id \in Ids
    BY <1>6, Zenon DEF AddTrace, Aligned, AlignedAt, Unit
  <2> QED BY <1>6, <2>1, Zenon DEF AddTrace
<1>7. ASSUME NEW c \in Cpus, SkipNonseekableFD(c) PROVE TypeOK'
  <2>1. buffer[c] # <<>>
    BY <1>7, Zenon DEF SkipNonseekableFD, Aligned, AlignedAt, AtPayload
  <2>2. Tail(buffer[c]) \in Seq(Unit) /\ Len(Tail(buffer[c])) <= Capacity
    BY <2>1, TailUnits, TracerAssumption
  <2>3. buffer' = [buffer EXCEPT ![c] = Tail(buffer[c])]
    BY <1>7, Zenon DEF SkipNonseekableFD
  <2>4. /\ buffer' \in [Cpus -> Seq(Unit)]
        /\ \A d \in Cpus : Len(buffer'[d]) <= Capacity
    BY <2>2, <2>3, Zenon
  <2> QED BY <1>7, <2>4, Zenon DEF SkipNonseekableFD
<1>8. ASSUME NEW c \in Cpus, BreakOnError(c) PROVE TypeOK'
  BY <1>8, Zenon DEF BreakOnError
<1>9. ASSUME NEW c \in Cpus, RequestFlush(c) PROVE TypeOK'
  BY <1>9, Zenon DEF RequestFlush
<1>10. ASSUME NEW c \in Cpus, SeeFlushed(c) PROVE TypeOK'
  BY <1>10, Zenon DEF SeeFlushed
<1>11. CASE StartTracer \/ StopTracer
  BY <1>11, TracerAssumption DEF StartTracer, StopTracer
<1>12. CASE FlushBuffers
  <2>1. ASSUME NEW c \in Cpus PROVE Unhandled(c) \subseteq Ids
    <3>1. \A i \in DOMAIN buffer[c] : buffer[c][i].id \in Ids
      BY UnitsOf, Zenon DEF Unit
    <3>2. hand[c].id \in Ids \cup {0}
      BY DEF Unit, NoRecord
    <3> QED BY <3>1, <3>2, Zenon DEF Unhandled
  <2> QED BY <1>12, <2>1, Zenon DEF FlushBuffers
<1>13. CASE BeginBlockTrace \/ BeginBlockTraceFails \/ OpenCpuTracerFails
            \/ CleanupBlockTrace \/ CleanupBlockTraceFails \/ TracerStarted
            \/ TeardownFails
  <2>1. 1 \in 1 .. NumCpus + 1
    BY TracerAssumption
  <2>2. CASE BeginBlockTrace
    BY <2>1, <2>2, Zenon DEF BeginBlockTrace
  <2>3. CASE BeginBlockTraceFails \/ OpenCpuTracerFails
    BY <2>1, <2>3, Zenon DEF BeginBlockTraceFails, OpenCpuTracerFails
  <2>4. CASE CleanupBlockTrace
    BY <2>1, <2>4, Zenon DEF CleanupBlockTrace
  <2>5. CASE TracerStarted
    BY <2>1, <2>5, Zenon DEF TracerStarted
  <2>6. CASE CleanupBlockTraceFails \/ TeardownFails
    BY <2>1, <2>6, Zenon DEF CleanupBlockTraceFails, TeardownFails
  <2> QED BY <1>13, <2>2, <2>3, <2>4, <2>5, <2>6, Zenon
<1>14. CASE OpenCpuTracer
  BY <1>14, TracerAssumption DEF OpenCpuTracer, Cpus
<1>15. CASE StopTrace
  BY <1>15, Zenon DEF StopTrace
<1>16. CASE Join
  BY <1>16, TracerAssumption DEF Join, Lifecycle, Cpus
<1>17. CASE Teardown
  <2>1. buffer' = [c \in Cpus |-> <<>>] /\ 1 \in 1 .. NumCpus + 1 /\ 0 <= Capacity
    BY <1>17, TracerAssumption DEF Teardown
  <2>2. /\ buffer' \in [Cpus -> Seq(Unit)]
        /\ \A c \in Cpus : Len(buffer'[c]) <= Capacity
    BY <2>1
  <2> QED BY <1>17, <2>1, <2>2, Zenon DEF Teardown
<1>18. CASE JoinFlushThreads \/ FlushBuffersReturns
  BY <1>18, Zenon DEF JoinFlushThreads, FlushBuffersReturns
<1>19. CASE UNCHANGED vars
  BY <1>19, Zenon DEF vars
<1> QED
  BY <1>1, <1>2, <1>3, <1>4, <1>5, <1>6, <1>7, <1>8, <1>9, <1>10, <1>11, <1>12,
     <1>13, <1>14, <1>15, <1>16, <1>17, <1>18, <1>19, StepCases, Zenon

-----------------------------------------------------------------------------
(* Order                                                                    *)

\* The kinds and numbers of the units that a state can hold.
LEMMA HandTypes ==
  ASSUME TypeOK, NEW c \in Cpus
  PROVE  /\ hand[c] # NoRecord => hand[c] \in Unit /\ hand[c].id \in Ids
         /\ hand[c] = NoRecord => hand[c].id = 0 /\ hand[c].kind = "none"
         /\ hand[c].id = 0 <=> hand[c] = NoRecord
<1>1. hand[c] \in Unit \cup {NoRecord}
  BY Zenon DEF TypeOK
<1>2. hand[c] \in Unit => hand[c].id \in Ids /\ hand[c].id # 0
  BY TracerAssumption DEF Unit, Ids
<1> QED BY <1>1, <1>2 DEF NoRecord

\* The first record of a buffer is the least.
LEMMA FirstIsLeast ==
  ASSUME NEW s \in Seq(Unit), s # <<>>, WellFormed(s), IsRecord(s[1])
  PROVE  \A id \in RecordIds(Tail(s)) : s[1].id < id
<1>1. \A k \in DOMAIN Tail(s) : /\ Tail(s)[k] = s[k + 1] /\ k + 1 \in DOMAIN s
                                /\ 1 < k + 1
  BY TailUnits
<1>2. 1 \in DOMAIN s
  BY TailUnits
<1> QED BY <1>1, <1>2 DEF WellFormed, RecordIds

\* What is below a number stays below it.
LEMMA BelowTail ==
  ASSUME NEW s \in Seq(Unit), s # <<>>, NEW n, AllBelow(s, n)
  PROVE  AllBelow(Tail(s), n) /\ s[1].id < n
  BY TailUnits DEF AllBelow

\* Numbers of traces stay in order.
LEMMA NextOrdered ==
  ASSUME TypeOK, Ordered, Aligned, [Next]_vars
  PROVE  Ordered'
<1> USE DEF ThreadStep, OpStep, kernel, manager, flushing
<1> DEFINE Same == UNCHANGED <<handled, next_id, buffer, hand>>
<1>0. ASSUME Same PROVE Ordered'
  BY <1>0, Zenon DEF Ordered
<1>1. ASSUME NEW c \in Cpus, NEW units \in {Plain(next_id), WithPayload(next_id)},
             Trace(c, units)
      PROVE  Ordered'
  <2>1. next_id \in Ids /\ next_id' = next_id + 1 /\ UNCHANGED <<handled, hand>>
    BY <1>1, TracerAssumption DEF Trace, Ids, TypeOK
  <2>2. \A id \in handled : id \in Int
    BY DEF TypeOK, Ids
  <2>3. \A id \in handled' : id < next_id'
    BY <2>1, <2>2 DEF Ordered, Ids
  <2>4. ASSUME NEW d \in Cpus
        PROVE  /\ WellFormed(buffer[d])' /\ AllBelow(buffer[d], next_id)'
               /\ (hand[d].id < next_id)'
               /\ (hand[d] # NoRecord => \A id \in RecordIds(buffer[d]) : hand[d].id < id)'
    <3>1. /\ WellFormed(buffer[d]) /\ AllBelow(buffer[d], next_id) /\ hand[d].id < next_id
          /\ hand[d] # NoRecord => \A id \in RecordIds(buffer[d]) : hand[d].id < id
      BY Zenon DEF Ordered
    <3>2. hand[d].id \in Int /\ next_id \in Int /\ (hand[d].id < next_id)'
      BY <2>1, <3>1, HandTypes DEF Ids
    <3>3. buffer[d] \in Seq(Unit)
      BY Zenon DEF TypeOK
    <3>4. \A k \in DOMAIN buffer[d] : buffer[d][k].id \in Int
      <4>1. \A unit \in Unit : unit.id \in Int
        BY DEF Unit, Ids
      <4> QED BY <3>3, <4>1, UnitsOf, Zenon
    <3>5. CASE buffer'[d] = buffer[d]
      <4>1. AllBelow(buffer[d], next_id)'
        BY <2>1, <3>1, <3>2, <3>4, <3>5 DEF AllBelow
      <4> QED BY <2>1, <3>1, <3>2, <3>5, <4>1, Zenon
    <3>6. CASE buffer'[d] = buffer[d] \o units
      <4>1. /\ AllIds(buffer'[d]) = AllIds(buffer[d]) \cup {next_id}
            /\ RecordIds(buffer'[d]) = RecordIds(buffer[d]) \cup {next_id}
            /\ WellFormed(buffer'[d])
        BY <2>1, <3>1, <3>3, <3>6, Recorded
      <4>2. \A id \in AllIds(buffer'[d]) : id < next_id'
        BY <2>1, <3>1, <3>2, <3>4, <4>1 DEF AllBelow, AllIds
      <4>3. AllBelow(buffer'[d], next_id')
        BY <4>2, Zenon DEF AllBelow, AllIds
      <4> QED BY <2>1, <3>1, <3>2, <4>1, <4>3, Zenon
    <3>7. buffer'[d] \in {buffer[d], buffer[d] \o units}
      BY <1>1, Zenon DEF Trace, TypeOK
    <3> QED BY <3>5, <3>6, <3>7, Zenon
  <2> QED BY <2>3, <2>4, Zenon DEF Ordered
<1>2. ASSUME NEW c \in Cpus, Read(c) PROVE Ordered'
  <2>1. CASE buffer[c] = <<>>
    BY <1>0, <1>2, <2>1, Zenon DEF Read
  <2>2. CASE buffer[c] # <<>>
    <3> DEFINE s == buffer[c]
    <3>1. /\ s \in Seq(Unit) /\ WellFormed(s) /\ AllBelow(s, next_id)
          /\ Head(s) = s[1]
      BY <2>2, TailUnits, Zenon DEF TypeOK, Ordered
    <3>2. UNCHANGED <<handled, next_id>> /\ buffer' = [buffer EXCEPT ![c] = Tail(s)]
          /\ hand' = [hand EXCEPT ![c] = IF IsRecord(s[1]) THEN s[1] ELSE NoRecord]
      BY <1>2, <2>2, <3>1, Zenon DEF Read, IsRecord
    <3>3. buffer'[c] = Tail(s) /\ hand'[c] = (IF IsRecord(s[1]) THEN s[1] ELSE NoRecord)
          /\ \A d \in Cpus : d # c => buffer'[d] = buffer[d] /\ hand'[d] = hand[d]
      BY <3>2, Zenon DEF TypeOK
    <3>4. WellFormed(Tail(s)) /\ AllBelow(Tail(s), next_id) /\ s[1].id < next_id
      BY <2>2, <3>1, WellFormedTail, BelowTail, Zenon
    <3>5. NoRecord.id < next_id
      BY DEF NoRecord, TypeOK
    <3>6. IsRecord(s[1]) => \A id \in RecordIds(Tail(s)) : s[1].id < id
      BY <2>2, <3>1, FirstIsLeast, Zenon
    <3> HIDE DEF s
    <3>7. /\ WellFormed(buffer[c])' /\ AllBelow(buffer[c], next_id)'
          /\ (hand[c].id < next_id)'
          /\ (hand[c] # NoRecord => \A id \in RecordIds(buffer[c]) : hand[c].id < id)'
      BY <3>2, <3>3, <3>4, <3>5, <3>6, Zenon
    <3> QED BY <3>2, <3>3, <3>7, Zenon DEF Ordered
  <2> QED BY <2>1, <2>2, Zenon
<1>3. ASSUME NEW c \in Cpus, AddTrace(c) PROVE Ordered'
  <2>1. /\ UNCHANGED <<next_id, buffer>> /\ handled' = handled \cup {hand[c].id}
        /\ hand' = [hand EXCEPT ![c] = NoRecord]
    BY <1>3, Zenon DEF AddTrace
  <2>2. \A d \in Cpus : hand'[d] = NoRecord \/ hand'[d] = hand[d]
    BY <2>1, Zenon DEF TypeOK
  <2>3. NoRecord.id < next_id
    BY DEF NoRecord, TypeOK
  <2> QED BY <2>1, <2>2, <2>3, Zenon DEF Ordered
<1>4. ASSUME NEW c \in Cpus, BreakOnError(c) PROVE Ordered'
  <2>1. /\ UNCHANGED <<next_id, buffer, handled>>
        /\ hand' = [hand EXCEPT ![c] = NoRecord]
    BY <1>4, Zenon DEF BreakOnError
  <2>2. \A d \in Cpus : hand'[d] = NoRecord \/ hand'[d] = hand[d]
    BY <2>1, Zenon DEF TypeOK
  <2>3. NoRecord.id < next_id
    BY DEF NoRecord, TypeOK
  <2> QED BY <2>1, <2>2, <2>3, Zenon DEF Ordered
<1>5. ASSUME NEW c \in Cpus, SkipNonseekableFD(c) PROVE Ordered'
  <2> DEFINE s == buffer[c]
  <2>1. s # <<>> /\ s[1].kind = "payload" /\ s \in Seq(Unit)
    BY <1>5, Zenon DEF SkipNonseekableFD, Aligned, AlignedAt, AtPayload, TypeOK
  <2>2. UNCHANGED <<handled, next_id, hand>> /\ buffer' = [buffer EXCEPT ![c] = Tail(s)]
    BY <1>5, Zenon DEF SkipNonseekableFD
  <2>3. buffer'[c] = Tail(s) /\ \A d \in Cpus : d # c => buffer'[d] = buffer[d]
    BY <2>2, Zenon DEF TypeOK
  <2>4. /\ WellFormed(Tail(s)) /\ AllBelow(Tail(s), next_id)
        /\ RecordIds(Tail(s)) = RecordIds(s)
    BY <2>1, WellFormedTail, BelowTail, IdsTail, ZenonT(30) DEF Ordered, IsRecord
  <2> HIDE DEF s
  <2>5. /\ WellFormed(buffer[c])' /\ AllBelow(buffer[c], next_id)'
        /\ (hand[c].id < next_id)'
        /\ (hand[c] # NoRecord => \A id \in RecordIds(buffer[c]) : hand[c].id < id)'
    BY <2>2, <2>3, <2>4, Zenon DEF Ordered, s
  <2> QED BY <2>2, <2>3, <2>5, Zenon DEF Ordered
<1>6. CASE Teardown
  <2>1. UNCHANGED <<handled, next_id, hand>> /\ \A c \in Cpus : buffer'[c] = <<>>
    BY <1>6, Zenon DEF Teardown
  <2>2. WellFormed(<<>>) /\ AllBelow(<<>>, next_id) /\ RecordIds(<<>>) = {}
    BY DEF WellFormed, AllBelow, RecordIds
  <2> QED BY <2>1, <2>2, Zenon DEF Ordered
<1>7. ASSUME NEW c \in Cpus,
             \/ TestStop(c) \/ (\E ready \in BOOLEAN : Poll(c, ready))
             \/ ClearFlush(c) \/ RequestFlush(c) \/ SeeFlushed(c)
      PROVE  Ordered'
  BY <1>0, <1>7, Zenon DEF TestStop, Poll, ClearFlush, RequestFlush, SeeFlushed
<1>8. CASE \/ StartTracer \/ StopTracer \/ FlushBuffers
           \/ BeginBlockTrace \/ BeginBlockTraceFails
           \/ OpenCpuTracer \/ OpenCpuTracerFails \/ TracerStarted
           \/ CleanupBlockTrace \/ CleanupBlockTraceFails
           \/ StopTrace \/ Join \/ TeardownFails
           \/ JoinFlushThreads \/ FlushBuffersReturns \/ UNCHANGED vars
  BY <1>0, <1>8, Zenon
     DEF StartTracer, StopTracer, FlushBuffers, BeginBlockTrace,
         BeginBlockTraceFails, OpenCpuTracer, OpenCpuTracerFails,
         CleanupBlockTrace, CleanupBlockTraceFails, TracerStarted, StopTrace,
         Join, TeardownFails, JoinFlushThreads, FlushBuffersReturns, vars
<1> QED
  BY <1>1, <1>2, <1>3, <1>4, <1>5, <1>6, <1>7, <1>8, StepCases, Zenon

-----------------------------------------------------------------------------
(* Records and payloads                                                     *)

\* The unit after the first one is what the first says it is.
LEMMA SecondUnit ==
  ASSUME NEW s \in Seq(Unit), s # <<>>, WellFormed(s)
  PROVE  /\ s[1].kind # "traced_with_payload" => AtRecord(Tail(s))
         /\ s[1].kind = "traced_with_payload" => AtPayload(Tail(s), {s[1].id})
<1>1. /\ DOMAIN s = 1 .. Len(s) /\ Len(s) \in Nat /\ 1 \in DOMAIN s
      /\ Tail(s) \in Seq(Unit)
      /\ Tail(s) # <<>> <=> 2 \in DOMAIN s
      /\ Tail(s) # <<>> => Tail(s)[1] = s[2]
  <2>1. Tail(s) # <<>> <=> Len(Tail(s)) >= 1
    <3>1. Tail(s) \in Seq(Unit)
      BY TailUnits, Zenon
    <3> QED BY <3>1, SMTT(20)
  <2>2. Tail(s) # <<>> => 1 \in 1 .. Len(s) - 1
    BY <2>1, TailUnits
  <2>3. Tail(s) # <<>> => Tail(s)[1] = s[1 + 1]
    BY <2>2, TailUnits, Zenon
  <2> QED BY <2>1, <2>2, <2>3, TailUnits
<1>2. CASE s[1].kind = "traced_with_payload"
  <2>1. 1 + 1 \in DOMAIN s /\ s[1 + 1].kind = "payload" /\ s[1 + 1].id = s[1].id
    BY <1>1, <1>2, Zenon DEF WellFormed
  <2> QED BY <1>1, <1>2, <2>1 DEF AtPayload
<1>3. CASE s[1].kind # "traced_with_payload"
  <2>1. ASSUME 2 \in DOMAIN s, s[2].kind = "payload" PROVE FALSE
    <3>1. 2 = 1 \/ s[2 - 1].kind = "traced_with_payload"
      BY <2>1, Zenon DEF WellFormed
    <3> QED BY <1>3, <3>1
  <2> QED BY <1>1, <1>3, <2>1, Zenon DEF AtRecord, IsRecord
<1> QED BY <1>2, <1>3, Zenon

\* A CPU of which a step leaves the thread and the buffer alone stays aligned.
LEMMA AlignedKept ==
  ASSUME NEW c \in Cpus, AlignedAt(c), handled \subseteq handled',
         thread'[c] = thread[c], hand'[c] = hand[c], buffer'[c] = buffer[c],
         op' = "open" /\ c >= cpu' => Reading(c)
  PROVE  AlignedAt(c)'
<1>1. Reading(c)' => Reading(c)
  BY Zenon DEF Reading
<1> QED BY <1>1, Zenon DEF AlignedAt, AtPayload

\* A thread that runs is not one that is still to be started.
LEMMA Running ==
  ASSUME TypeOK, Lifecycle, NEW c \in Cpus, thread[c] # "none"
  PROVE  ~(op = "open" /\ c >= cpu)
  BY Zenon DEF Lifecycle

\* Every step leaves the threads aligned with their buffers.
LEMMA NextAligned ==
  ASSUME TypeOK, Ordered, Aligned, Lifecycle, [Next]_vars
  PROVE  Aligned'
<1> USE DEF ThreadStep, OpStep, kernel, manager, flushing
<1>1. ASSUME NEW c \in Cpus, NEW units \in {Plain(next_id), WithPayload(next_id)},
             Trace(c, units), NEW d \in Cpus
      PROVE  AlignedAt(d)'
  <2>1. UNCHANGED <<thread, hand, handled, op, cpu>> /\ next_id \in Ids
    BY <1>1, TracerAssumption DEF Trace, Ids, TypeOK
  <2>2. AlignedAt(d) /\ buffer[d] \in Seq(Unit)
    BY Zenon DEF Aligned, TypeOK
  <2>3. CASE buffer'[d] = buffer[d]
    BY <2>1, <2>2, <2>3, AlignedKept, Zenon DEF Reading
  <2>4. CASE buffer'[d] = buffer[d] \o units
    <3>1. /\ buffer[d] # <<>> => buffer'[d] # <<>> /\ buffer'[d][1] = buffer[d][1]
          /\ buffer[d] = <<>> => IsRecord(buffer'[d][1])
      <4> DEFINE t == buffer[d] \o units
      <4>1. /\ buffer[d] # <<>> => t # <<>> /\ t[1] = buffer[d][1]
            /\ buffer[d] = <<>> => IsRecord(t[1])
        BY <2>1, <2>2, Recorded, Zenon
      <4> QED BY <2>4, <4>1, Zenon
    <3>2. AtRecord(buffer[d]) => AtRecord(buffer'[d])
      BY <3>1, Zenon DEF AtRecord
    <3>3. \A ids : AtPayload(buffer[d], ids) => AtPayload(buffer'[d], ids)
      BY <3>1, Zenon DEF AtPayload
    <3>4. Reading(d)' <=> Reading(d)
      BY <2>1, Zenon DEF Reading
    <3> QED BY <2>1, <2>2, <3>2, <3>3, <3>4, Zenon DEF AlignedAt
  <2>5. buffer'[d] \in {buffer[d], buffer[d] \o units}
    BY <1>1, Zenon DEF Trace, TypeOK
  <2> QED BY <2>3, <2>4, <2>5, Zenon
<1>2. ASSUME NEW c \in Cpus,
             \/ TestStop(c) \/ (\E ready \in BOOLEAN : Poll(c, ready))
             \/ Read(c) \/ ClearFlush(c) \/ AddTrace(c) \/ SkipNonseekableFD(c)
             \/ BreakOnError(c),
             NEW d \in Cpus
      PROVE  AlignedAt(d)'
  <2>1. UNCHANGED <<op, cpu>> /\ handled \subseteq handled' /\ thread[c] # "none"
    BY <1>2, Zenon
       DEF TestStop, Poll, Read, ClearFlush, AddTrace, SkipNonseekableFD,
           BreakOnError
  <2>2. CASE d # c
    <3>1. thread'[d] = thread[d] /\ hand'[d] = hand[d] /\ buffer'[d] = buffer[d]
      BY <1>2, <2>2, Zenon
         DEF TestStop, Poll, Read, ClearFlush, AddTrace, SkipNonseekableFD,
             BreakOnError, TypeOK
    <3> QED BY <2>1, <3>1, AlignedKept, Zenon DEF Aligned, Reading
  <2>3. AlignedAt(c)'
    <3> DEFINE s == buffer[c]
    <3>1. ~(op' = "open" /\ c >= cpu')
      BY <2>1, Running, Zenon
    <3>2. AlignedAt(c) /\ s \in Seq(Unit) /\ WellFormed(s)
      BY Zenon DEF Aligned, TypeOK, Ordered
    <3>3. Reading(c)' <=> \/ thread'[c] \in {"loop", "poll", "read", "clear"}
                          \/ hand'[c].kind = "trace"
      BY <3>1, Zenon DEF Reading
    <3>4. IsRecord(NoRecord) /\ NoRecord.kind = "none"
      BY Zenon DEF IsRecord, NoRecord
    <3>5. CASE TestStop(c) \/ (\E ready \in BOOLEAN : Poll(c, ready)) \/ ClearFlush(c)
      <4>1. /\ thread[c] \in {"loop", "poll", "clear"}
            /\ thread'[c] \in {"loop", "poll", "read", "done"}
            /\ hand'[c] = hand[c] /\ buffer'[c] = buffer[c]
        BY <3>5, Zenon DEF TestStop, Poll, ClearFlush, TypeOK
      <4>2. hand[c] = NoRecord /\ AtRecord(s)
        BY <3>2, <4>1, Zenon DEF AlignedAt, Reading
      <4> QED BY <3>4, <4>1, <4>2, Zenon DEF AlignedAt
    <3>6. CASE Read(c)
      <4>1. AtRecord(s) /\ hand[c] = NoRecord
        BY <3>2, <3>6, Zenon DEF AlignedAt, Reading, Read
      <4>2. CASE s = <<>>
        <5>1. thread'[c] = "clear" /\ hand'[c] = hand[c] /\ buffer'[c] = s
          BY <3>6, <4>2, Zenon DEF Read, TypeOK
        <5> QED BY <3>4, <4>1, <5>1, Zenon DEF AlignedAt
      <4>3. CASE s # <<>>
        <5>1. IsRecord(s[1]) /\ Head(s) = s[1] /\ s[1] \in Unit
          BY <3>2, <4>1, <4>3, TailUnits, Zenon DEF AtRecord
        <5>2. thread'[c] = "add" /\ hand'[c] = s[1] /\ buffer'[c] = Tail(s)
          BY <3>6, <4>3, <5>1, Zenon DEF Read, TypeOK, IsRecord
        <5>3. s[1] # NoRecord
          BY <5>1, TracerAssumption DEF Unit, NoRecord, Ids
        <5> HIDE DEF s
        <5>4. (hand[c].kind = "traced_with_payload" => AtPayload(buffer[c], {hand[c].id}))'
          BY <3>2, <4>3, <5>2, SecondUnit, Zenon
        <5>5. (Reading(c) => AtRecord(buffer[c]))'
          BY <3>2, <3>3, <4>3, <5>2, SecondUnit, Zenon
        <5> QED BY <5>1, <5>2, <5>3, <5>4, <5>5, Zenon DEF AlignedAt
      <4> QED BY <4>2, <4>3, Zenon
    <3>7. CASE AddTrace(c)
      <4>1. /\ thread'[c] = (IF hand[c].kind = "trace" THEN "loop" ELSE "skip")
            /\ hand'[c] = NoRecord /\ buffer'[c] = s /\ hand[c].id \in handled'
            /\ thread[c] = "add"
        BY <3>7, Zenon DEF AddTrace, TypeOK
      <4>2. hand[c].kind \in {"trace", "traced_with_payload"}
        BY <3>2, <4>1, HandTypes, Zenon DEF AlignedAt, IsRecord, Unit
      <4>3. hand[c].kind = "trace" => AtRecord(s)
        BY <3>2, Zenon DEF AlignedAt, Reading
      <4>4. hand[c].kind = "traced_with_payload" => AtPayload(s, handled')
        BY <3>2, <4>1, Zenon DEF AlignedAt, AtPayload
      <4>5. thread'[c] = "skip" => AtPayload(s, handled')
        BY <4>1, <4>2, <4>4, Zenon
      <4>6. Reading(c)' => AtRecord(s)
        BY <3>3, <3>4, <4>1, <4>2, <4>3, Zenon
      <4> HIDE DEF s
      <4> QED BY <3>4, <4>1, <4>5, <4>6, Zenon DEF AlignedAt
    <3>8. CASE SkipNonseekableFD(c)
      <4>1. thread[c] = "skip" /\ thread'[c] = "loop" /\ hand'[c] = hand[c]
            /\ buffer'[c] = Tail(s)
        BY <3>8, Zenon DEF SkipNonseekableFD, TypeOK
      <4>2. s # <<>> /\ s[1].kind = "payload" /\ hand[c] = NoRecord
        BY <3>2, <4>1, Zenon DEF AlignedAt, AtPayload
      <4>3. AtRecord(Tail(s))
        BY <3>2, <4>2, SecondUnit, Zenon
      <4> QED BY <3>4, <4>1, <4>2, <4>3, Zenon DEF AlignedAt
    <3>9. CASE BreakOnError(c)
      <4>1. thread'[c] = "done" /\ hand'[c] = NoRecord
        BY <3>9, Zenon DEF BreakOnError, TypeOK
      <4> QED BY <3>3, <3>4, <4>1, Zenon DEF AlignedAt
    <3> QED BY <1>2, <3>5, <3>6, <3>7, <3>8, <3>9, Zenon
  <2> QED BY <2>2, <2>3, Zenon
<1>3. CASE BeginBlockTrace
  <2>1. UNCHANGED <<buffer, thread, hand, handled>>
    BY <1>3, Zenon DEF BeginBlockTrace
  <2>2. \A c \in Cpus : buffer[c] = <<>>
    BY <1>3, Zenon DEF BeginBlockTrace, Lifecycle
  <2>3. \A c \in Cpus : AtRecord(buffer'[c])
    BY <2>1, <2>2, Zenon DEF AtRecord
  <2> QED BY <2>1, <2>3, Zenon DEF Aligned, AlignedAt
<1>4. ASSUME OpenCpuTracer, NEW d \in Cpus PROVE AlignedAt(d)'
  <2>1. op = "open" /\ op' = "open" /\ cpu \in Cpus /\ cpu' = cpu + 1 /\ cpu \in Int
        /\ UNCHANGED <<buffer, hand, handled>> /\ d \in Int
    BY <1>4, TracerAssumption DEF OpenCpuTracer, Cpus
  <2>2. AlignedAt(d)
    BY Zenon DEF Aligned
  <2>3. CASE d # cpu
    <3>1. thread'[d] = thread[d]
      BY <1>4, <2>3, Zenon DEF OpenCpuTracer, TypeOK
    <3>2. d >= cpu' => d >= cpu
      BY <2>1
    <3> QED BY <2>1, <2>2, <3>1, <3>2, AlignedKept, Zenon DEF Reading
  <2>4. CASE d = cpu
    <3>1. thread[d] = "none" /\ thread'[d] = "loop"
      BY <1>4, <2>1, <2>4 DEF OpenCpuTracer, TypeOK, Lifecycle
    <3>2. AtRecord(buffer[d]) /\ hand[d] = NoRecord
      BY <2>1, <2>2, <2>4, <3>1 DEF AlignedAt, Reading
    <3> QED BY <2>1, <2>2, <3>1, <3>2, Zenon DEF AlignedAt, NoRecord
  <2> QED BY <2>3, <2>4, Zenon
<1>5. ASSUME Join, NEW d \in Cpus PROVE AlignedAt(d)'
  <2>1. UNCHANGED <<buffer, hand, handled>> /\ op' = "stop" /\ op = "join"
    BY <1>5, Zenon DEF Join
  <2>2. AlignedAt(d)
    BY Zenon DEF Aligned
  <2>3. CASE d # cpu
    <3>1. thread'[d] = thread[d]
      BY <1>5, <2>3, Zenon DEF Join, TypeOK
    <3> QED BY <2>1, <2>2, <3>1, AlignedKept, Zenon
  <2>4. CASE d = cpu
    <3>1. thread[d] \in {"none", "done"} /\ thread'[d] = "none"
      BY <1>5, <2>4, Zenon DEF Join, TypeOK
    <3>2. hand[d] = NoRecord
      BY <2>2, <3>1, Zenon DEF AlignedAt
    <3>3. ~Reading(d)'
      BY <2>1, <3>1, <3>2 DEF Reading, NoRecord
    <3> QED BY <2>1, <2>2, <3>1, <3>2, <3>3, Zenon DEF AlignedAt, NoRecord
  <2> QED BY <2>3, <2>4, Zenon
<1>6. ASSUME Teardown, NEW d \in Cpus PROVE AlignedAt(d)'
  <2>1. UNCHANGED <<hand, thread, handled>> /\ buffer'[d] = <<>>
    BY <1>6, Zenon DEF Teardown
  <2>2. thread[d] = "none"
    BY <1>6, TracerAssumption DEF Teardown, Lifecycle, Cpus
  <2>3. hand[d] = NoRecord
    BY <2>2, Zenon DEF Aligned, AlignedAt
  <2>4. AtRecord(buffer'[d]) /\ IsRecord(NoRecord) /\ NoRecord.kind = "none"
    BY <2>1, Zenon DEF AtRecord, IsRecord, NoRecord
  <2> QED BY <2>1, <2>2, <2>3, <2>4, Zenon DEF AlignedAt
<1>7. ASSUME NEW c \in Cpus, RequestFlush(c) \/ SeeFlushed(c) PROVE Aligned'
  <2>1. UNCHANGED <<buffer, thread, hand, handled, op, cpu>>
    BY <1>7, Zenon DEF RequestFlush, SeeFlushed
  <2> QED BY <2>1, Zenon DEF Aligned, AlignedAt, Reading
<1>8. CASE \/ StartTracer \/ StopTracer \/ FlushBuffers
           \/ BeginBlockTraceFails \/ OpenCpuTracerFails \/ TracerStarted
           \/ CleanupBlockTrace \/ CleanupBlockTraceFails \/ TeardownFails
           \/ StopTrace \/ JoinFlushThreads \/ FlushBuffersReturns
  <2>1. UNCHANGED <<buffer, thread, hand, handled>> /\ op' # "open"
    BY <1>8, Zenon
       DEF StartTracer, StopTracer, FlushBuffers, BeginBlockTraceFails,
           OpenCpuTracerFails, CleanupBlockTrace, CleanupBlockTraceFails,
           TeardownFails, TracerStarted, StopTrace, JoinFlushThreads,
           FlushBuffersReturns
  <2> QED BY <2>1, Zenon DEF Aligned, AlignedAt, Reading
<1>9. CASE UNCHANGED vars
  BY <1>9, Zenon DEF Aligned, AlignedAt, Reading, vars
<1>10. (\E c \in Cpus : \E units \in {Plain(next_id), WithPayload(next_id)} :
          Trace(c, units)) => Aligned'
  BY <1>1, Zenon DEF Aligned
<1>11. ASSUME NEW c \in Cpus,
              \/ TestStop(c) \/ (\E ready \in BOOLEAN : Poll(c, ready))
              \/ Read(c) \/ ClearFlush(c) \/ AddTrace(c) \/ SkipNonseekableFD(c)
              \/ BreakOnError(c)
       PROVE  Aligned'
  BY <1>2, <1>11, Zenon DEF Aligned
<1>12. OpenCpuTracer \/ Join \/ Teardown => Aligned'
  BY <1>4, <1>5, <1>6, Zenon DEF Aligned
<1> QED
  BY <1>3, <1>7, <1>8, <1>9, <1>10, <1>11, <1>12, StepCases, Zenon

-----------------------------------------------------------------------------
(* Construction and destruction                                             *)

\* Every step of the manager, a thread or the kernel fits the life of a tracer.
LEMMA NextLifecycle ==
  ASSUME TypeOK, Lifecycle, [Next]_vars
  PROVE  Lifecycle'
<1> USE DEF ThreadStep, OpStep, kernel, manager, flushing, IsTracing
<1>0. \A c \in Cpus : c \in Int /\ 1 <= c /\ c <= NumCpus
  BY TracerAssumption DEF Cpus
<1>1. ASSUME NEW c \in Cpus, NEW units \in {Plain(next_id), WithPayload(next_id)},
             Trace(c, units)
      PROVE  Lifecycle'
  <2>1. UNCHANGED <<tracer_map_, op, cpu, tracing, left_on, thread>> /\ tracing
    BY <1>1, Zenon DEF Trace
  <2> QED BY <2>1, Zenon DEF Lifecycle
<1>2. ASSUME NEW c \in Cpus,
             \/ TestStop(c) \/ (\E ready \in BOOLEAN : Poll(c, ready))
             \/ Read(c) \/ ClearFlush(c) \/ AddTrace(c) \/ SkipNonseekableFD(c)
             \/ BreakOnError(c)
      PROVE  Lifecycle'
  <2>1. UNCHANGED <<tracer_map_, op, cpu, tracing, left_on>> /\ thread[c] # "none"
        /\ \A d \in Cpus : thread[d] = "none" => thread'[d] = "none"
    BY <1>2, Zenon
       DEF TestStop, Poll, Read, ClearFlush, AddTrace, SkipNonseekableFD,
           BreakOnError, TypeOK
  <2> QED BY <2>1, Zenon DEF Lifecycle
<1>3. ASSUME NEW c \in Cpus, RequestFlush(c) \/ SeeFlushed(c) PROVE Lifecycle'
  <2>1. UNCHANGED <<tracer_map_, op, cpu, tracing, left_on, thread, buffer>>
    BY <1>3, Zenon DEF RequestFlush, SeeFlushed
  <2> QED BY <2>1, Zenon DEF Lifecycle
<1>4. CASE StartTracer \/ BeginBlockTraceFails
  <2>1. 1 \in Cpus
    BY TracerAssumption DEF Cpus
  <2> QED BY <1>4, <2>1 DEF StartTracer, BeginBlockTraceFails, Lifecycle
<1>5. CASE BeginBlockTrace
  BY <1>5, Zenon DEF BeginBlockTrace, Lifecycle
<1>6. CASE OpenCpuTracer
  <2>1. /\ UNCHANGED <<tracer_map_, tracing, left_on, buffer>>
        /\ op = "open" /\ op' = "open"
        /\ cpu' = cpu + 1 /\ cpu \in Int
        /\ \A c \in Cpus : c # cpu => thread'[c] = thread[c]
    BY <1>6, <1>0, Zenon DEF OpenCpuTracer, TypeOK
  <2>2. \A c \in Cpus : c >= cpu' => c >= cpu /\ c # cpu
    BY <1>0, <2>1
  <2> QED BY <2>1, <2>2, Zenon DEF Lifecycle
<1>7. CASE OpenCpuTracerFails
  BY <1>7, Zenon DEF OpenCpuTracerFails, Lifecycle
<1>8. CASE CleanupBlockTrace \/ CleanupBlockTraceFails \/ StopTracer
  BY <1>0, <1>8
     DEF CleanupBlockTrace, CleanupBlockTraceFails, StopTracer, Lifecycle
<1>9. CASE TracerStarted
  BY <1>9, Zenon DEF TracerStarted, Lifecycle
<1>10. CASE StopTrace
  BY <1>10, Zenon DEF StopTrace, Lifecycle
<1>11. CASE Join
  <2>1. /\ UNCHANGED <<tracer_map_, tracing, left_on, buffer>>
        /\ op = "join" /\ op' = "stop"
        /\ cpu \in Cpus /\ cpu' = cpu + 1 /\ thread'[cpu] = "none"
        /\ \A c \in Cpus : c # cpu => thread'[c] = thread[c]
    BY <1>11, Zenon DEF Join, TypeOK, Lifecycle
  <2>2. \A c \in Cpus : c < cpu' => c < cpu \/ c = cpu
    BY <1>0, <2>1
  <2> QED BY <2>1, <2>2, Zenon DEF Lifecycle
<1>12. CASE Teardown
  <2>1. \A c \in Cpus : c < cpu
    BY <1>0, <1>12, TracerAssumption DEF Teardown
  <2>2. /\ UNCHANGED <<tracer_map_, thread>> /\ op = "stop" /\ op' = "idle"
        /\ ~tracing' /\ ~left_on'
        /\ \A c \in Cpus : buffer'[c] = <<>>
    BY <1>12, Zenon DEF Teardown
  <2> QED BY <2>1, <2>2, Zenon DEF Lifecycle
<1>13. CASE FlushBuffers \/ JoinFlushThreads \/ FlushBuffersReturns
  BY <1>13, Zenon
     DEF FlushBuffers, JoinFlushThreads, FlushBuffersReturns, Lifecycle
<1>14. CASE TeardownFails
  <2>1. \A c \in Cpus : c < cpu
    BY <1>0, <1>14, TracerAssumption DEF TeardownFails
  <2>2. /\ UNCHANGED <<tracer_map_, thread, tracing>> /\ op = "stop"
        /\ op' = "idle" /\ left_on' /\ tracing
    BY <1>14, Zenon DEF TeardownFails, Lifecycle
  <2> QED BY <2>1, <2>2, Zenon DEF Lifecycle
<1>15. CASE UNCHANGED vars
  BY <1>15, Zenon DEF vars, Lifecycle
<1> QED
  BY <1>1, <1>2, <1>3, <1>4, <1>5, <1>6, <1>7, <1>8, <1>9, <1>10, <1>11, <1>12,
     <1>13, <1>14, <1>15, StepCases, Zenon

-----------------------------------------------------------------------------
(* Flushing                                                                 *)

\* What a step leaves on its way, or hands over, is still on its way.
LEMMA StillOnItsWay ==
  ASSUME NEW c \in Cpus, FlushingAt(c), UNCHANGED <<op, flushing>>,
         flush_buffers_'[c] = flush_buffers_[c],
         handled \subseteq handled',
         handled \cup Unhandled(c) \subseteq handled' \cup Unhandled(c)',
         thread[c] = "done" => thread'[c] = "done",
         thread'[c] # "clear" \/ thread[c] = "clear"
  PROVE  FlushingAt(c)'
<1>1. OnItsWay(c) => OnItsWay(c)'
  BY Zenon DEF OnItsWay, flushing
<1> QED BY <1>1, Zenon DEF FlushingAt, flushing

\* Every step keeps what a flush awaits on its way.
LEMMA NextFlushing ==
  ASSUME TypeOK, Ordered, Aligned, Flushing, [Next]_vars
  PROVE  Flushing'
<1> USE DEF ThreadStep, OpStep, kernel, manager
<1>0. \A c \in Cpus : /\ FlushingAt(c) /\ AlignedAt(c) /\ buffer[c] \in Seq(Unit)
                      /\ Unhandled(c) = AllIds(buffer[c]) \cup ({hand[c].id} \ {0})
                      /\ Unhandled(c)' = AllIds(buffer[c])' \cup ({hand'[c].id} \ {0})
  BY Zenon DEF Flushing, Aligned, TypeOK, Unhandled, AllIds
<1>1. ASSUME NEW c \in Cpus, NEW units \in {Plain(next_id), WithPayload(next_id)},
             Trace(c, units), NEW d \in Cpus
      PROVE  FlushingAt(d)'
  <2>1. UNCHANGED <<thread, hand, handled, op, flushing, flush_buffers_>>
        /\ next_id \in Ids
    BY <1>1, TracerAssumption DEF Trace, Ids, TypeOK
  <2>2. AllIds(buffer[d] \o units) = AllIds(buffer[d]) \cup {next_id}
    BY <1>0, <2>1, Recorded
  <2>3. buffer'[d] \in {buffer[d], buffer[d] \o units}
    BY <1>1, Zenon DEF Trace, TypeOK
  <2>4. AllIds(buffer[d]) \subseteq AllIds(buffer'[d])
    BY <2>2, <2>3, Zenon
  <2>5. Unhandled(d) \subseteq Unhandled(d)'
    BY <1>0, <2>1, <2>4, Zenon
  <2> QED BY <1>0, <2>1, <2>5, StillOnItsWay, Zenon
<1>2. ASSUME NEW c \in Cpus, ClearFlush(c) PROVE Flushing'
  <2>1. /\ UNCHANGED <<op, flushing, handled, hand, buffer>>
        /\ thread[c] = "clear" /\ thread'[c] = "loop" /\ ~flush_buffers_'[c]
    BY <1>2, Zenon DEF ClearFlush, TypeOK
  <2>2. \A d \in Cpus : d # c => /\ thread'[d] = thread[d]
                                 /\ flush_buffers_'[d] = flush_buffers_[d]
    BY <1>2, Zenon DEF ClearFlush, TypeOK
  <2>3. \A d \in Cpus : Unhandled(d)' = Unhandled(d)
    BY <2>1, Zenon DEF Unhandled
  <2>4. OnItsWay(c) => OnItsWay(c)'
    BY <2>1, <2>3, Zenon DEF OnItsWay, flushing
  <2>5. FlushingAt(c)'
    BY <1>0, <2>1, <2>4, Zenon DEF FlushingAt, flushing
  <2>6. ASSUME NEW d \in Cpus, d # c PROVE FlushingAt(d)'
    BY <1>0, <2>1, <2>2, <2>3, <2>6, StillOnItsWay, Zenon
  <2> QED BY <2>5, <2>6, Zenon DEF Flushing
<1>3. ASSUME NEW c \in Cpus,
             \/ TestStop(c) \/ (\E ready \in BOOLEAN : Poll(c, ready))
             \/ Read(c) \/ AddTrace(c) \/ SkipNonseekableFD(c) \/ BreakOnError(c)
      PROVE  Flushing'
  <2>1. UNCHANGED <<op, flushing, flush_buffers_>> /\ handled \subseteq handled'
        /\ thread[c] \notin {"clear", "done"}
    BY <1>3, Zenon
       DEF TestStop, Poll, Read, AddTrace, SkipNonseekableFD, BreakOnError
  <2>2. ASSUME NEW d \in Cpus, d # c PROVE FlushingAt(d)'
    <3>1. thread'[d] = thread[d] /\ hand'[d] = hand[d] /\ buffer'[d] = buffer[d]
      BY <1>3, <2>2, Zenon
         DEF TestStop, Poll, Read, AddTrace, SkipNonseekableFD, BreakOnError,
             TypeOK
    <3>2. Unhandled(d)' = Unhandled(d)
      BY <3>1, Zenon DEF Unhandled
    <3> QED BY <1>0, <2>1, <3>1, <3>2, StillOnItsWay, Zenon
  <2>3. FlushingAt(c)'
    <3> DEFINE s == buffer[c]
    <3>1. CASE TestStop(c) \/ (\E ready \in BOOLEAN : Poll(c, ready)) \/ BreakOnError(c)
      <4>1. CASE thread'[c] # "done"
        <5>1. UNCHANGED <<hand, buffer>> /\ thread'[c] # "clear"
          BY <3>1, <4>1, Zenon DEF TestStop, Poll, BreakOnError, TypeOK
        <5>2. Unhandled(c)' = Unhandled(c)
          BY <5>1, Zenon DEF Unhandled
        <5> QED BY <1>0, <2>1, <5>1, <5>2, StillOnItsWay, Zenon
      <4>2. CASE thread'[c] = "done"
        <5>1. UNCHANGED handled
          BY <3>1, Zenon DEF TestStop, Poll, BreakOnError
        <5>2. OnItsWay(c) => OnItsWay(c)'
          BY <2>1, <4>2, <5>1, Zenon DEF OnItsWay, flushing
        <5> QED BY <1>0, <2>1, <5>2, Zenon DEF FlushingAt, flushing
      <4> QED BY <4>1, <4>2, Zenon
    <3>2. CASE Read(c)
      <4>1. hand[c].id = 0 /\ AtRecord(s)
        BY <1>0, <3>2, HandTypes, Zenon DEF AlignedAt, Read, Reading
      <4>2. CASE s = <<>>
        <5>1. Unhandled(c) = {} /\ UNCHANGED handled
          BY <3>2, <4>1, <4>2 DEF Unhandled, Read
        <5>2. OnItsWay(c) => OnItsWay(c)'
          BY <2>1, <5>1, Zenon DEF OnItsWay, flushing
        <5> QED BY <1>0, <2>1, <5>2, Zenon DEF FlushingAt, flushing
      <4>3. CASE s # <<>>
        <5>1. IsRecord(s[1]) /\ Head(s) = s[1] /\ s[1] \in Unit
          BY <1>0, <4>1, <4>3, TailUnits, Zenon DEF AtRecord
        <5>2. thread'[c] = "add" /\ hand'[c] = s[1] /\ buffer'[c] = Tail(s)
          BY <3>2, <4>3, <5>1, Zenon DEF Read, TypeOK, IsRecord
        <5>3. AllIds(s) = AllIds(Tail(s)) \cup {s[1].id}
          BY <1>0, <4>3, IdsTail, Zenon
        <5>4. s[1].id # 0
          BY <5>1, TracerAssumption DEF Unit, Ids
        <5> HIDE DEF s
        <5>5. Unhandled(c)' = AllIds(s)
          BY <1>0, <5>2, <5>3, <5>4, Zenon
        <5>6. Unhandled(c) = AllIds(s)
          BY <1>0, <4>1, Zenon DEF s
        <5> QED BY <1>0, <2>1, <5>2, <5>5, <5>6, StillOnItsWay, Zenon
      <4> QED BY <4>2, <4>3, Zenon
    <3>3. CASE AddTrace(c)
      <4>1. /\ handled' = handled \cup {hand[c].id} /\ UNCHANGED buffer
            /\ thread'[c] \in {"loop", "skip"}
        BY <3>3, Zenon DEF AddTrace, TypeOK
      <4>2. handled \cup Unhandled(c) \subseteq handled' \cup Unhandled(c)'
        BY <4>1, Zenon DEF Unhandled
      <4> QED BY <1>0, <2>1, <4>1, <4>2, StillOnItsWay, Zenon
    <3>4. CASE SkipNonseekableFD(c)
      <4>1. /\ UNCHANGED <<handled, hand>> /\ buffer'[c] = Tail(s)
            /\ thread[c] = "skip" /\ thread'[c] = "loop"
        BY <3>4, Zenon DEF SkipNonseekableFD, TypeOK
      <4>2. s # <<>> /\ s[1].id \in handled
        BY <1>0, <4>1, Zenon DEF AlignedAt, AtPayload
      <4>3. AllIds(s) = AllIds(Tail(s)) \cup {s[1].id}
        BY <1>0, <4>2, IdsTail, Zenon
      <4>4. handled \cup Unhandled(c) \subseteq handled' \cup Unhandled(c)'
        BY <1>0, <4>1, <4>2, <4>3
      <4> QED BY <1>0, <2>1, <4>1, <4>4, StillOnItsWay, Zenon
    <3> QED BY <1>3, <3>1, <3>2, <3>3, <3>4, Zenon
  <2> QED BY <2>2, <2>3, Zenon DEF Flushing
<1>4. ASSUME NEW c \in Cpus, RequestFlush(c) PROVE Flushing'
  <2>1. /\ UNCHANGED <<op, handled, hand, buffer, thread, awaited>>
        /\ flush_thread[c] = "set" /\ flush_thread'[c] = "wait" /\ flush_buffers_'[c]
        /\ overtaken \subseteq overtaken'
        /\ c \notin overtaken' => thread[c] # "clear"
    BY <1>4, Zenon DEF RequestFlush, TypeOK
  <2>2. \A d \in Cpus : d # c => /\ flush_thread'[d] = flush_thread[d]
                                 /\ flush_buffers_'[d] = flush_buffers_[d]
    BY <1>4, Zenon DEF RequestFlush, TypeOK
  <2>3. \A d \in Cpus : Unhandled(d)' = Unhandled(d)
    BY <2>1, Zenon DEF Unhandled
  <2>4. c \notin overtaken' /\ OnItsWay(c) => OnItsWay(c)'
    BY <2>1, <2>3, Zenon DEF OnItsWay
  <2>5. \A d \in Cpus : d # c /\ OnItsWay(d) => OnItsWay(d)'
    BY <2>1, <2>2, <2>3, Zenon DEF OnItsWay
  <2>6. FlushingAt(c)'
    BY <1>0, <2>1, <2>4, Zenon DEF FlushingAt
  <2>7. \A d \in Cpus : d # c => FlushingAt(d)'
    BY <1>0, <2>1, <2>2, <2>5, Zenon DEF FlushingAt
  <2> QED BY <2>6, <2>7, Zenon DEF Flushing
<1>5. ASSUME NEW c \in Cpus, SeeFlushed(c) PROVE Flushing'
  <2>1. /\ UNCHANGED <<op, handled, hand, buffer, thread, awaited, overtaken,
                       flush_buffers_>>
        /\ flush_thread[c] = "wait" /\ flush_thread'[c] = "none" /\ ~flush_buffers_[c]
    BY <1>5, Zenon DEF SeeFlushed, TypeOK
  <2>2. \A d \in Cpus : d # c => flush_thread'[d] = flush_thread[d]
    BY <1>5, Zenon DEF SeeFlushed, TypeOK
  <2>3. \A d \in Cpus : Unhandled(d)' = Unhandled(d)
    BY <2>1, Zenon DEF Unhandled
  <2>4. \A d \in Cpus : OnItsWay(d) => OnItsWay(d)'
    BY <2>1, <2>2, <2>3, Zenon DEF OnItsWay
  <2> QED BY <1>0, <2>1, <2>2, <2>4, Zenon DEF FlushingAt, Flushing
<1>6. ASSUME FlushBuffers, NEW c \in Cpus PROVE FlushingAt(c)'
  <2>1. /\ UNCHANGED <<handled, hand, buffer, thread, flush_buffers_>>
        /\ op = "idle" /\ op' = "flush" /\ flush_thread'[c] = "set"
        /\ awaited'[c] \subseteq Unhandled(c)
    BY <1>6, Zenon DEF FlushBuffers
  <2>2. ~flush_buffers_[c]
    BY <1>0, <2>1, Zenon DEF FlushingAt
  <2>3. Unhandled(c)' = Unhandled(c)
    BY <2>1, Zenon DEF Unhandled
  <2>4. OnItsWay(c)'
    BY <2>1, <2>3, Zenon DEF OnItsWay
  <2> QED BY <2>1, <2>2, <2>4, Zenon DEF FlushingAt
<1>7. CASE JoinFlushThreads
  <2>1. /\ UNCHANGED <<handled, hand, buffer, thread, flush_buffers_, flushing>>
        /\ op = "flush" /\ op' = "flushed" /\ \A c \in Cpus : flush_thread[c] = "none"
    BY <1>7, Zenon DEF JoinFlushThreads
  <2>2. \A c \in Cpus : OnItsWay(c) => OnItsWay(c)'
    BY <2>1 DEF OnItsWay, Unhandled, flushing
  <2> QED BY <1>0, <2>1, <2>2, Zenon DEF FlushingAt, Flushing, flushing
<1>8. CASE OpenCpuTracer
  <2>1. /\ UNCHANGED flush_thread /\ op = "open" /\ op' = "open"
        /\ \A c \in Cpus : flush_buffers_'[c] => flush_buffers_[c]
    BY <1>8, Zenon DEF OpenCpuTracer, TypeOK, flushing
  <2> QED BY <1>0, <2>1, Zenon DEF FlushingAt, Flushing
<1>9. CASE \/ StartTracer \/ StopTracer
           \/ BeginBlockTrace \/ BeginBlockTraceFails
           \/ OpenCpuTracerFails \/ TracerStarted
           \/ CleanupBlockTrace \/ CleanupBlockTraceFails
           \/ StopTrace \/ Join \/ Teardown \/ TeardownFails \/ FlushBuffersReturns
  <2>1. /\ UNCHANGED <<flush_thread, flush_buffers_>> /\ op # "flush"
        /\ op' \notin {"flush", "flushed"}
    BY <1>9, Zenon
       DEF StartTracer, StopTracer, BeginBlockTrace, BeginBlockTraceFails,
           OpenCpuTracerFails, CleanupBlockTrace, CleanupBlockTraceFails,
           TracerStarted, StopTrace, Join, Teardown, TeardownFails,
           FlushBuffersReturns, flushing
  <2> QED BY <1>0, <2>1, Zenon DEF FlushingAt, Flushing
<1>10. CASE UNCHANGED vars
  <2>1. UNCHANGED <<op, flushing, flush_buffers_, handled, thread, buffer, hand>>
    BY <1>10, Zenon DEF vars, kernel, manager
  <2>2. \A c \in Cpus : Unhandled(c)' = Unhandled(c)
    BY <2>1, Zenon DEF Unhandled
  <2> QED BY <1>0, <2>1, <2>2, StillOnItsWay, Zenon DEF Flushing
<1>11. (\E c \in Cpus : \E units \in {Plain(next_id), WithPayload(next_id)} :
          Trace(c, units)) => Flushing'
  BY <1>1, Zenon DEF Flushing
<1>12. FlushBuffers => Flushing'
  BY <1>6, Zenon DEF Flushing
<1> QED
  BY <1>2, <1>3, <1>4, <1>5, <1>7, <1>8, <1>9, <1>10, <1>11, <1>12, StepCases,
     Zenon

-----------------------------------------------------------------------------
(* What holds in every state                                                *)

IInv == TypeOK /\ Ordered /\ Aligned /\ Lifecycle /\ Flushing

\* The inductive invariant holds at first.
LEMMA InitIInv == Init => IInv
<1> SUFFICES ASSUME Init PROVE IInv
  BY Zenon
<1>1. TypeOK
  BY InitTypes, Zenon
<1>2. \A c \in Cpus : /\ buffer[c] = <<>> /\ hand[c] = NoRecord /\ thread[c] = "none"
                      /\ flush_thread[c] = "none" /\ ~flush_buffers_[c]
  BY Zenon DEF Init
<1>3. /\ handled = {} /\ next_id = 1 /\ op = "idle" /\ tracer_map_ = "absent"
      /\ ~tracing /\ ~left_on
  BY Zenon DEF Init
<1>4. /\ WellFormed(<<>>) /\ AllBelow(<<>>, 1) /\ RecordIds(<<>>) = {}
      /\ AtRecord(<<>>)
  BY DEF WellFormed, AllBelow, RecordIds, AtRecord
<1>5. IsRecord(NoRecord) /\ NoRecord.kind = "none" /\ NoRecord.id < 1
  BY DEF IsRecord, NoRecord
<1>6. Ordered
  BY <1>2, <1>3, <1>4, <1>5, Zenon DEF Ordered
<1>7. Aligned
  BY <1>2, <1>3, <1>4, <1>5, Zenon DEF Aligned, AlignedAt
<1>8. Lifecycle
  BY <1>2, <1>3, Zenon DEF Lifecycle, IsTracing
<1>9. Flushing
  BY <1>2, <1>3, Zenon DEF Flushing, FlushingAt
<1> QED BY <1>1, <1>6, <1>7, <1>8, <1>9, Zenon DEF IInv

\* It holds in every state of every behaviour.
LEMMA Invariance == Spec => []IInv
<1>1. IInv /\ [Next]_vars => IInv'
  BY NextTypes, NextOrdered, NextAligned, NextLifecycle, NextFlushing, Zenon
     DEF IInv
<1> QED BY InitIInv, <1>1, PTL DEF Spec

\* The variables of the tracer keep their types, for any number of CPUs and
\* any size of the relay buffers (DeviceTracer, CpuTracer).
THEOREM TracerTypeCorrect == Spec => []TypeOK
<1>1. IInv => TypeOK
  BY Zenon DEF IInv
<1> QED BY <1>1, Invariance, PTL

\* FlushBuffers returns only when what was there as it was called has been
\* handed over, but for the CPUs whose request an older empty read ended
\* (CpuTracer::FlushBuffer, DoTrace).
THEOREM FlushIsComplete == Spec => []FlushDelivers
<1>1. IInv => FlushDelivers
  <2> SUFFICES ASSUME IInv, op = "flushed", NEW c \in Cpus \ overtaken
               PROVE  awaited[c] \subseteq handled
    BY Zenon DEF FlushDelivers
  <2>1. OnItsWay(c) /\ flush_thread[c] = "none" /\ ~flush_buffers_[c]
    BY Zenon DEF IInv, Flushing, FlushingAt
  <2> QED BY <2>1, Zenon DEF OnItsWay
<1> QED BY <1>1, Invariance, PTL

\* A device without a tracer has no thread, and no block trace but one that
\* CleanupBlockTrace could not stop, whichever step of a constructor failed
\* (DeviceTracer::DeviceTracer, ~DeviceTracer).
THEOREM NothingLeftRunning == Spec => []NoTracerNoTrace
<1>1. IInv => NoTracerNoTrace
  BY Zenon DEF IInv, Lifecycle, NoTracerNoTrace
<1> QED BY <1>1, Invariance, PTL

(* A thread that is about to read a record has one before it, or nothing:   *)
(* the payloads are stepped over whole, and the check of the magic number   *)
(* never ends a thread (DoTrace, SkipNonseekableFD).                        *)
MagicIsGood ==
  \A c \in Cpus : thread[c] = "read" => AtRecord(buffer[c])

\* The check of the magic number in DoTrace never fails.
THEOREM NeverBadMagic == Spec => []MagicIsGood
<1>1. IInv => MagicIsGood
  BY Zenon DEF IInv, Aligned, AlignedAt, Reading, MagicIsGood
<1> QED BY <1>1, Invariance, PTL

-----------------------------------------------------------------------------
(* The tracer implements TraceChannel                                       *)

IsOpen == tracing \/ op \in {"cleanup", "stop", "join"}
Queue == [c \in Cpus |-> NotHandedOver(c)]
Readers == {c \in Cpus : thread[c] \notin {"none", "done"}}

\* The traces of a CPU are those of its records and of the one in its hand.
LEMMA QueueIds ==
  /\ \A c \in Cpus : Queue[c] = RecordIds(buffer[c]) \cup ({hand[c].id} \ {0})
  /\ \A c \in Cpus : Queue'[c] = RecordIds(buffer[c])' \cup ({hand'[c].id} \ {0})
  BY Zenon DEF Queue, NotHandedOver, RecordIds

\* A step that keeps the units, the readers and the device open is no step.
LEMMA ChannelKept ==
  ASSUME IsOpen' <=> IsOpen, UNCHANGED <<handled, Queue, Readers>>
  PROVE  UNCHANGED Channel!channel
<1>1. (tracing \/ op \in {"cleanup", "stop", "join"})' =
        (tracing \/ op \in {"cleanup", "stop", "join"})
  BY Zenon DEF IsOpen
<1> QED BY <1>1, Zenon DEF Channel!channel, Queue, Readers

\* The reader of a CPU goes on, ends or begins with its thread only.
LEMMA ReadersStep ==
  ASSUME TypeOK, NEW c \in Cpus, NEW to,
         thread' = [thread EXCEPT ![c] = to]
  PROVE  Readers' = IF to \in {"none", "done"} THEN Readers \ {c} ELSE Readers \cup {c}
  BY Zenon DEF Readers, TypeOK

\* Initially nothing is traced.
LEMMA InitChannel == Init => Channel!ChannelInit
<1> SUFFICES ASSUME Init PROVE Channel!ChannelInit
  BY Zenon
<1>1. \A c \in Cpus : buffer[c] = <<>> /\ hand[c].id = 0 /\ thread[c] = "none"
  BY Zenon DEF Init, NoRecord
<1>2. \A c \in Cpus : NotHandedOver(c) = {}
  BY <1>1 DEF NotHandedOver
<1> QED BY <1>1, <1>2, Zenon DEF Init, Channel!ChannelInit

\* A step of the kernel accepts a trace, or drops it.
LEMMA TraceStep ==
  ASSUME IInv, NEW c \in Cpus, NEW units \in {Plain(next_id), WithPayload(next_id)},
         Trace(c, units)
  PROVE  [Channel!ChannelNext]_(Channel!channel)
<1> USE DEF IInv
<1>1. UNCHANGED <<thread, hand, handled, op, tracing>> /\ next_id \in Ids /\ tracing
  BY TracerAssumption DEF Trace, Ids, TypeOK, kernel, manager
<1>2. IsOpen /\ IsOpen' /\ Readers' = Readers
  BY <1>1, Zenon DEF IsOpen, Readers
<1>3. CASE buffer' = buffer
  <2>1. Queue' = Queue
    BY <1>1, <1>3, Zenon DEF Queue, NotHandedOver
  <2> QED BY <1>1, <1>2, <2>1, ChannelKept, Zenon
<1>4. CASE buffer' = [buffer EXCEPT ![c] = buffer[c] \o units]
  <2>1. RecordIds(buffer[c] \o units) = RecordIds(buffer[c]) \cup {next_id}
    BY <1>1, Recorded DEF TypeOK
  <2>2. buffer'[c] = buffer[c] \o units /\ \A d \in Cpus : d # c => buffer'[d] = buffer[d]
    BY <1>4, Zenon DEF TypeOK
  <2>3. Queue'[c] = Queue[c] \cup {next_id}
    BY <1>1, <2>1, <2>2, QueueIds, ZenonT(30)
  <2>4. \A d \in Cpus : d # c => Queue'[d] = Queue[d]
    BY <1>1, <2>2, QueueIds, ZenonT(60)
  <2>5. Queue' = [Queue EXCEPT ![c] = Queue[c] \cup {next_id}]
    BY <2>3, <2>4, Zenon DEF Queue
  <2>6. ASSUME NEW d \in Cpus, NEW id \in Queue[d] PROVE id < next_id
    <3>1. \A k \in RecordIds(buffer[d]) : k < next_id
      BY Zenon DEF Ordered, AllBelow, RecordIds
    <3> QED BY <3>1, QueueIds DEF Ordered
  <2>7. \A made \in handled \cup UNION {Queue[d] : d \in Cpus} : made < next_id
    BY <2>6, Zenon DEF Ordered
  <2>8. Channel!Accept(c, next_id)
    BY <1>1, <1>2, <2>5, <2>7, Zenon DEF Channel!Accept, IsOpen, Queue, Readers
  <2> QED BY <1>1, <2>8, Zenon DEF Channel!ChannelNext
<1> QED BY <1>3, <1>4, Zenon DEF Trace

\* A step of a thread hands a trace over, ends the reader, or is no step.
LEMMA ThreadSteps ==
  ASSUME IInv, NEW c \in Cpus,
         \/ TestStop(c) \/ (\E ready \in BOOLEAN : Poll(c, ready))
         \/ Read(c) \/ ClearFlush(c) \/ AddTrace(c) \/ SkipNonseekableFD(c)
         \/ BreakOnError(c)
  PROVE  [Channel!ChannelNext]_(Channel!channel)
<1> USE DEF IInv, ThreadStep, kernel, manager
<1> DEFINE s == buffer[c]
<1>1. /\ IsOpen' <=> IsOpen
      /\ c \in Readers /\ s \in Seq(Unit) /\ AlignedAt(c)
      /\ \A d \in Cpus : d # c => buffer'[d] = buffer[d] /\ hand'[d] = hand[d]
  BY DEF TestStop, Poll, Read, ClearFlush, AddTrace, SkipNonseekableFD,
         BreakOnError, TypeOK, IsOpen, Readers, Aligned
<1>2. \A d \in Cpus : d # c => Queue'[d] = Queue[d]
  BY <1>1, QueueIds, ZenonT(60)
<1>3. Queue'[c] = Queue[c] => Queue' = Queue
  BY <1>2, Zenon DEF Queue
<1>4. ASSUME NEW id, Queue'[c] = Queue[c] \ {id}
      PROVE  Queue' = [Queue EXCEPT ![c] = Queue[c] \ {id}]
  BY <1>2, <1>4, Zenon DEF Queue
<1>5. ASSUME Readers' = Readers \ {c}, Queue' = Queue, UNCHANGED handled
      PROVE  Channel!EndReader(c)
  BY <1>1, <1>5, Zenon DEF Channel!EndReader, IsOpen, Queue, Readers
<1>6. Readers \cup {c} = Readers
  BY <1>1, Zenon
<1>7. hand[c].id # 0 => /\ hand[c].id \in Queue[c]
                        /\ \A id \in Queue[c] : hand[c].id <= id
                        /\ hand[c].id \notin RecordIds(s)
  <2> SUFFICES ASSUME hand[c].id # 0
               PROVE  /\ hand[c].id \in Queue[c]
                      /\ \A id \in Queue[c] : hand[c].id <= id
                      /\ hand[c].id \notin RecordIds(s)
    BY Zenon
  <2>1. hand[c].id \in Int /\ hand[c] # NoRecord
    BY HandTypes DEF Ids
  <2>2. \A id \in RecordIds(s) : id \in Int /\ hand[c].id < id
    <3>1. \A unit \in Unit : unit.id \in Int
      BY DEF Unit, Ids
    <3>2. \A id \in RecordIds(s) : id \in Int
      BY <1>1, <3>1, UnitsOf, Zenon DEF RecordIds
    <3> QED BY <2>1, <3>2, Zenon DEF Ordered
  <2> QED BY <2>1, <2>2, QueueIds
<1>8. CASE TestStop(c) \/ (\E ready \in BOOLEAN : Poll(c, ready)) \/ ClearFlush(c)
  <2>1. UNCHANGED <<handled, hand, buffer>>
    BY <1>8, Zenon DEF TestStop, Poll, ClearFlush
  <2>2. Queue' = Queue
    BY <2>1, Zenon DEF Queue, NotHandedOver
  <2>3. PICK to : thread' = [thread EXCEPT ![c] = to]
    BY <1>8, Zenon DEF TestStop, Poll, ClearFlush
  <2>4. CASE to \in {"none", "done"}
    BY <1>5, <2>1, <2>2, <2>3, <2>4, ReadersStep, Zenon DEF Channel!ChannelNext
  <2>5. CASE to \notin {"none", "done"}
    BY <1>1, <1>6, <2>1, <2>2, <2>3, <2>5, ReadersStep, ChannelKept, Zenon
  <2> QED BY <2>4, <2>5, Zenon
<1>9. CASE Read(c)
  <2>1. hand[c].id = 0 /\ AtRecord(s) /\ UNCHANGED handled
    BY <1>1, <1>9, HandTypes, Zenon DEF AlignedAt, Read, Reading
  <2>2. CASE s = <<>>
    <3>1. UNCHANGED <<hand, buffer>> /\ thread' = [thread EXCEPT ![c] = "clear"]
      BY <1>9, <2>2, Zenon DEF Read
    <3>2. Queue' = Queue
      BY <3>1, Zenon DEF Queue, NotHandedOver
    <3> QED BY <1>1, <1>6, <2>1, <3>1, <3>2, ReadersStep, ChannelKept, Zenon
  <2>3. CASE s # <<>>
    <3>1. IsRecord(s[1]) /\ Head(s) = s[1] /\ s[1] \in Unit
      BY <1>1, <2>1, <2>3, TailUnits, Zenon DEF AtRecord
    <3>2. thread' = [thread EXCEPT ![c] = "add"] /\ hand'[c] = s[1]
          /\ buffer'[c] = Tail(s)
      BY <1>9, <2>3, <3>1, Zenon DEF Read, TypeOK, IsRecord
    <3>3. RecordIds(s) = RecordIds(Tail(s)) \cup {s[1].id}
      BY <1>1, <2>3, <3>1, IdsTail, Zenon
    <3>4. s[1].id # 0
      BY <3>1, TracerAssumption DEF Unit, Ids
    <3>5. Queue[c] = RecordIds(s)
      <4>1. {hand[c].id} \ {0} = {}
        BY <2>1, Zenon
      <4>2. Queue[c] = RecordIds(s) \cup ({hand[c].id} \ {0})
        BY QueueIds, Zenon
      <4> QED BY <4>1, <4>2, Zenon
    <3> HIDE DEF s
    <3>6. Queue'[c] = RecordIds(s)
      BY <3>2, <3>3, <3>4, QueueIds, Zenon
    <3> QED BY <1>1, <1>3, <1>6, <2>1, <3>2, <3>5, <3>6, ReadersStep,
               ChannelKept, Zenon
  <2> QED BY <2>2, <2>3, Zenon
<1>10. CASE AddTrace(c)
  <2> DEFINE id == hand[c].id
  <2>1. /\ handled' = handled \cup {id} /\ buffer'[c] = s /\ hand'[c] = NoRecord
        /\ thread[c] = "add"
    BY <1>10, Zenon DEF AddTrace, TypeOK
  <2>2. PICK to \in {"loop", "skip"} : thread' = [thread EXCEPT ![c] = to]
    BY <1>10, Zenon DEF AddTrace
  <2>3. id # 0 /\ id \in Ids
    BY <1>1, <2>1, HandTypes, Zenon DEF AlignedAt
  <2>4. Queue'[c] = RecordIds(s)
    <3>1. {hand'[c].id} \ {0} = {}
      BY <2>1 DEF NoRecord
    <3> QED BY <2>1, <3>1, QueueIds, Zenon
  <2>5. Queue[c] = RecordIds(s) \cup {id}
    BY <2>3, QueueIds, Zenon
  <2>6. Queue'[c] = Queue[c] \ {id}
    BY <1>7, <2>3, <2>4, <2>5, Zenon
  <2>7. Queue' = [Queue EXCEPT ![c] = Queue[c] \ {id}]
    BY <1>4, <2>6, Zenon
  <2>8. Readers' = Readers
    BY <1>6, <2>2, ReadersStep, ZenonT(30)
  <2>9. Channel!IsNext(c, id)
    BY <1>7, <2>3, Zenon DEF Channel!IsNext, Queue
  <2>10. Channel!HandOver(c, id)
    BY <1>1, <2>1, <2>7, <2>8, <2>9, Zenon
       DEF Channel!HandOver, IsOpen, Queue, Readers
  <2> QED BY <2>3, <2>10, Zenon DEF Channel!ChannelNext
<1>11. CASE SkipNonseekableFD(c)
  <2>1. /\ UNCHANGED <<handled, hand>> /\ buffer'[c] = Tail(s) /\ thread[c] = "skip"
        /\ thread' = [thread EXCEPT ![c] = "loop"]
    BY <1>11, Zenon DEF SkipNonseekableFD, TypeOK
  <2>2. s # <<>> /\ ~IsRecord(s[1])
    BY <1>1, <2>1, Zenon DEF AlignedAt, AtPayload, IsRecord
  <2>3. RecordIds(s) = RecordIds(Tail(s))
    BY <1>1, <2>2, IdsTail, ZenonT(30)
  <2>4. Queue'[c] = Queue[c]
    BY <2>1, <2>3, QueueIds, ZenonT(30)
  <2> QED BY <1>1, <1>3, <1>6, <2>1, <2>4, ReadersStep, ChannelKept, ZenonT(30)
<1>12. CASE BreakOnError(c)
  <2> DEFINE id == hand[c].id
  <2>1. /\ UNCHANGED handled /\ buffer'[c] = s /\ hand'[c] = NoRecord
        /\ thread' = [thread EXCEPT ![c] = "done"]
    BY <1>12, Zenon DEF BreakOnError, TypeOK
  <2>2. Readers' = Readers \ {c}
    BY <2>1, ReadersStep, Zenon
  <2>3. Queue'[c] = RecordIds(s)
    <3>1. {hand'[c].id} \ {0} = {}
      BY <2>1 DEF NoRecord
    <3> QED BY <2>1, <3>1, QueueIds, Zenon
  <2>4. CASE id = 0
    <3>1. Queue' = Queue
      <4>1. {hand[c].id} \ {0} = {}
        BY <2>4, Zenon
      <4> QED BY <1>3, <2>3, <4>1, QueueIds, ZenonT(30)
    <3> QED BY <1>5, <2>1, <2>2, <3>1, Zenon DEF Channel!ChannelNext
  <2>5. CASE id # 0
    <3>1. Queue[c] = RecordIds(s) \cup {id}
      BY <2>5, QueueIds, ZenonT(30)
    <3>2. Queue' = [Queue EXCEPT ![c] = Queue[c] \ {id}]
      BY <1>4, <1>7, <2>3, <2>5, <3>1
    <3>3. PICK held \in Ids : held = id
      BY <2>5, HandTypes, Zenon
    <3>4. Channel!IsNext(c, held)
      BY <1>7, <2>5, <3>3, Zenon DEF Channel!IsNext, Queue
    <3>5. Channel!EndReaderHolding(c, held)
      BY <1>1, <2>1, <2>2, <3>2, <3>3, <3>4, Zenon
         DEF Channel!EndReaderHolding, IsOpen, Queue, Readers
    <3> QED BY <3>5, Zenon DEF Channel!ChannelNext
  <2> QED BY <2>4, <2>5, Zenon
<1> QED BY <1>8, <1>9, <1>10, <1>11, <1>12, Zenon

\* A step of the manager opens the channel, starts a reader, closes the channel,
\* or is no step of it.
LEMMA ManagerSteps ==
  ASSUME IInv,
         \/ StartTracer \/ StopTracer \/ FlushBuffers
         \/ BeginBlockTrace \/ BeginBlockTraceFails
         \/ OpenCpuTracer \/ OpenCpuTracerFails \/ TracerStarted
         \/ CleanupBlockTrace \/ CleanupBlockTraceFails
         \/ StopTrace \/ Join \/ Teardown \/ TeardownFails
         \/ JoinFlushThreads \/ FlushBuffersReturns
  PROVE  [Channel!ChannelNext]_(Channel!channel)
<1> USE DEF IInv, OpStep, kernel, manager, IsTracing
<1>1. UNCHANGED <<hand, handled>>
  BY Zenon
     DEF StartTracer, StopTracer, FlushBuffers, BeginBlockTrace,
         BeginBlockTraceFails, OpenCpuTracer, OpenCpuTracerFails,
         CleanupBlockTrace, CleanupBlockTraceFails, TracerStarted, StopTrace,
         Join, Teardown, TeardownFails, JoinFlushThreads, FlushBuffersReturns
<1>2. ~Teardown => UNCHANGED buffer /\ Queue' = Queue
  <2>1. ~Teardown => UNCHANGED buffer
    BY Zenon
       DEF StartTracer, StopTracer, FlushBuffers, BeginBlockTrace,
           BeginBlockTraceFails, OpenCpuTracer, OpenCpuTracerFails,
           CleanupBlockTrace, CleanupBlockTraceFails, TracerStarted, StopTrace,
           Join, TeardownFails, JoinFlushThreads, FlushBuffersReturns
  <2> QED BY <1>1, <2>1, Zenon DEF Queue, NotHandedOver
<1>3. UNCHANGED thread => Readers' = Readers
  BY Zenon DEF Readers
<1>4. CASE BeginBlockTrace \/ (BeginBlockTraceFails /\ ~tracing)
  <2>1. ~IsOpen /\ IsOpen' /\ UNCHANGED thread
    BY <1>4 DEF BeginBlockTrace, BeginBlockTraceFails, IsOpen
  <2>2. Queue' = Queue
    BY <1>2, <1>4, Zenon DEF BeginBlockTrace, BeginBlockTraceFails, Teardown
  <2>3. Channel!Open
    BY <1>1, <1>3, <2>1, <2>2, Zenon DEF Channel!Open, IsOpen, Queue, Readers
  <2> QED BY <2>3, Zenon DEF Channel!ChannelNext
<1>5. CASE OpenCpuTracer
  <2>1. /\ IsOpen /\ IsOpen' /\ cpu \in Cpus /\ op' = "open"
        /\ thread' = [thread EXCEPT ![cpu] = "loop"]
    BY <1>5, Zenon DEF OpenCpuTracer, IsOpen, Lifecycle
  <2>2. Queue' = Queue
    BY <1>2, <2>1, Zenon DEF Teardown
  <2>3. Readers' = Readers \cup {cpu}
    BY <2>1, ReadersStep, ZenonT(60)
  <2>4. PICK c \in Cpus : c = cpu
    BY <2>1, Zenon
  <2>5. Channel!StartReader(c)
    BY <1>1, <2>1, <2>2, <2>3, <2>4, Zenon
       DEF Channel!StartReader, IsOpen, Queue, Readers
  <2> QED BY <2>5, Zenon DEF Channel!ChannelNext
<1>6. CASE Teardown
  <2>1. /\ op = "stop" /\ op' = "idle" /\ ~tracing' /\ UNCHANGED thread
        /\ \A c \in Cpus : buffer'[c] = <<>>
    BY <1>6, Zenon DEF Teardown
  <2>2. \A c \in Cpus : thread[c] = "none"
    BY <1>6, TracerAssumption DEF Teardown, Lifecycle, Cpus
  <2>3. \A c \in Cpus : hand'[c].id = 0
    BY <1>1, <2>2, HandTypes, Zenon DEF Aligned, AlignedAt
  <2>4. Queue' = [c \in Cpus |-> {}]
    <3>1. \A c \in Cpus : NotHandedOver(c)' = {}
      BY <2>1, <2>3 DEF NotHandedOver
    <3> QED BY <3>1, Zenon DEF Queue
  <2>5. IsOpen /\ ~IsOpen' /\ Readers = {} /\ Readers' = {}
    BY <2>1, <2>2, Zenon DEF IsOpen, Readers
  <2>6. Channel!Close
    BY <1>1, <2>4, <2>5, Zenon DEF Channel!Close, IsOpen, Queue, Readers
  <2> QED BY <2>6, Zenon DEF Channel!ChannelNext
<1>7. CASE Join
  <2>1. /\ op = "join" /\ op' = "stop" /\ cpu \in Cpus
        /\ thread[cpu] \in {"none", "done"} /\ thread' = [thread EXCEPT ![cpu] = "none"]
    BY <1>7, Zenon DEF Join, Lifecycle
  <2>2. IsOpen /\ IsOpen'
    BY <2>1, Zenon DEF IsOpen
  <2>3. Readers' = Readers \ {cpu} /\ cpu \notin Readers
    BY <2>1, ReadersStep, Zenon DEF Readers
  <2>4. Queue' = Queue
    BY <1>2, <2>1, Zenon DEF Teardown
  <2>5. Readers' = Readers
    BY <2>3, Zenon
  <2> QED BY <1>1, <2>2, <2>4, <2>5, ChannelKept, Zenon
<1>8. CASE \/ StartTracer \/ StopTracer \/ FlushBuffers
           \/ (BeginBlockTraceFails /\ tracing) \/ OpenCpuTracerFails
           \/ CleanupBlockTrace \/ CleanupBlockTraceFails
           \/ TracerStarted \/ StopTrace \/ JoinFlushThreads \/ FlushBuffersReturns
  <2>1. UNCHANGED thread /\ ~Teardown
    BY <1>8, Zenon
       DEF StartTracer, StopTracer, FlushBuffers, BeginBlockTraceFails,
           OpenCpuTracerFails, CleanupBlockTrace, CleanupBlockTraceFails,
           TracerStarted, StopTrace, JoinFlushThreads, FlushBuffersReturns,
           Teardown
  <2>2. CASE \/ StartTracer \/ FlushBuffers \/ TracerStarted
             \/ JoinFlushThreads \/ FlushBuffersReturns
    <3>1. /\ UNCHANGED tracing /\ op \notin {"cleanup", "stop", "join"}
          /\ op' \notin {"cleanup", "stop", "join"}
      BY <2>2, Zenon
         DEF StartTracer, FlushBuffers, TracerStarted, JoinFlushThreads,
             FlushBuffersReturns
    <3> QED BY <1>1, <1>2, <1>3, <2>1, <3>1, ChannelKept, Zenon DEF IsOpen
  <2>3. CASE StopTracer \/ (BeginBlockTraceFails /\ tracing) \/ OpenCpuTracerFails
    <3>1. tracing /\ op' \in {"cleanup", "stop"}
      BY <2>3, Zenon
         DEF StopTracer, BeginBlockTraceFails, OpenCpuTracerFails, Lifecycle
    <3> QED BY <1>1, <1>2, <1>3, <2>1, <3>1, ChannelKept, Zenon DEF IsOpen
  <2>4. CASE CleanupBlockTrace \/ CleanupBlockTraceFails \/ StopTrace
    <3>1. op \in {"cleanup", "stop"} /\ op' \in {"stop", "join"}
      BY <2>4, Zenon DEF CleanupBlockTrace, CleanupBlockTraceFails, StopTrace
    <3> QED BY <1>1, <1>2, <1>3, <2>1, <3>1, ChannelKept, Zenon DEF IsOpen
  <2> QED BY <1>8, <2>2, <2>3, <2>4, Zenon
<1>9. CASE TeardownFails
  <2>1. op = "stop" /\ tracing /\ tracing' /\ UNCHANGED <<thread, buffer>>
    BY <1>9, Zenon DEF TeardownFails, Lifecycle
  <2>2. IsOpen /\ IsOpen' /\ Queue' = Queue
    BY <1>1, <2>1, Zenon DEF IsOpen, Queue, NotHandedOver
  <2> QED BY <1>1, <1>3, <2>1, <2>2, ChannelKept, Zenon
<1> QED BY <1>4, <1>5, <1>6, <1>7, <1>8, <1>9, Zenon

\* The threads, buffers and flags of a tracer implement, for any number of
\* CPUs, the queues that its user relies on (DeviceTracer, CpuTracer).
THEOREM TracerIsChannel == Spec => ImplementsChannel
<1>1. IInv /\ [Next]_vars => [Channel!ChannelNext]_(Channel!channel)
  <2> SUFFICES ASSUME IInv, [Next]_vars
               PROVE  [Channel!ChannelNext]_(Channel!channel)
    BY Zenon
  <2>1. ASSUME NEW c \in Cpus, RequestFlush(c) \/ SeeFlushed(c)
        PROVE  UNCHANGED Channel!channel
    <3>1. UNCHANGED <<tracing, op, buffer, hand, thread, handled>>
      BY <2>1, Zenon DEF RequestFlush, SeeFlushed, kernel, manager
    <3> QED BY <3>1, ChannelKept, Zenon
               DEF IsOpen, Queue, Readers, NotHandedOver
  <2>2. CASE UNCHANGED vars
    BY <2>2, ChannelKept, Zenon
       DEF vars, kernel, manager, IsOpen, Queue, Readers, NotHandedOver
  <2> QED BY <2>1, <2>2, TraceStep, ThreadSteps, ManagerSteps, StepCases, Zenon
<1>2. Spec => Channel!ChannelInit /\ [][Channel!ChannelNext]_(Channel!channel)
  BY <1>1, InitChannel, Invariance, PTL DEF Spec
<1> QED BY <1>2, Zenon DEF ImplementsChannel, Channel!ChannelSpec

=============================================================================
