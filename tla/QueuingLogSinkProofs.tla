------------------------ MODULE QueuingLogSinkProofs ------------------------
(***************************************************************************)
(* No line is lost, doubled or reordered between send() and the log file,  *)
(* and the destructor leaves none behind, for any number of threads, lines *)
(* and freezes.                                                            *)
(***************************************************************************)
EXTENDS QueuingLogSink, FiniteSetTheorems, SequenceTheorems, TLAPS

Line == 1 .. MaxMessages

(* Types, and the bound on the calls of send() that are under way.          *)
Bounded ==
  /\ TypeOK
  /\ pushed + Cardinality(Pushing) <= MaxMessages

(* What makes NothingLost and LastWordsWritten inductive: the writer holds  *)
(* a line only while it writes, nobody logs once the destructor has begun,  *)
(* and a writer about to test should_die_ has drained the queue since.      *)
Order ==
  /\ message # <<>> => writer = "write"
  /\ should_die_ => main # "running" /\ \A l \in Loggers : logger[l] = "idle"
  /\ writer = "ended" => should_die_
  /\ should_die_ /\ writer \in {"test", "ended"} =>
       overtaken \/ to_write_queue_ = <<>>
  /\ NothingLost

\* A queue that holds the first n numbers does so for n + 1 after an Append.
LEMMA NextNumber ==
  ASSUME NEW n \in Nat
  PROVE  Append([k \in 1 .. n |-> k], n + 1) = [k \in 1 .. n + 1 |-> k]
<1>1. [k \in 1 .. n |-> k] \in Seq(Nat) /\ Len([k \in 1 .. n |-> k]) = n
  BY IsASeq
<1>2. [k \in 1 .. n + 1 |-> k] \in Seq(Nat)
      /\ Len([k \in 1 .. n + 1 |-> k]) = n + 1
  BY IsASeq
<1>3. /\ Append([k \in 1 .. n |-> k], n + 1) \in Seq(Nat)
      /\ Len(Append([k \in 1 .. n |-> k], n + 1)) = n + 1
      /\ \A i \in 1 .. n + 1 : Append([k \in 1 .. n |-> k], n + 1)[i] = i
  BY <1>1, AppendProperties
<1> QED BY <1>2, <1>3, SeqEqual, Zenon

\* The invariant holds when the sink has been built.
LEMMA InitInv == Init => Bounded /\ Order
<1> SUFFICES ASSUME Init PROVE Bounded /\ Order
  BY Zenon
<1>1. Pushing = {}
  BY Zenon DEF Init, Pushing
<1>2. TypeOK
  <2>1. 0 \in 0 .. MaxMessages /\ MaxFreezes \in 0 .. MaxFreezes
    BY LogAssumption
  <2>2. <<>> \in Seq(1 .. MaxMessages)
    BY EmptySeq, Zenon
  <2> QED BY <2>1, <2>2, Zenon DEF Init, TypeOK
<1>3. <<>> \o <<>> \o <<>> = <<>>
  BY ConcatEmptySeq, EmptySeq, Zenon
<1>4. [n \in 1 .. 0 |-> n] = <<>>
  BY IsASeq, EmptySeq
<1> QED
  BY <1>1, <1>2, <1>3, <1>4, FS_EmptySet, LogAssumption
     DEF Init, Bounded, Order, NothingLost

\* Every step keeps the types and the bound.
LEMMA NextBounded == Bounded /\ [Next]_vars => Bounded'
<1> SUFFICES ASSUME Bounded, [Next]_vars PROVE Bounded'
  BY Zenon
<1> USE LogAssumption DEF Bounded
<1>1. IsFiniteSet(Pushing)
  BY FS_Subset, Zenon DEF Pushing
<1>2. ASSUME NEW l \in Loggers, CallSend(l) PROVE Bounded'
  <2>1. Pushing' = Pushing \cup {l}
    BY <1>2, Zenon DEF CallSend, Goes, Pushing, TypeOK
  <2>2. Cardinality(Pushing) \in Nat
    BY <1>1, FS_CardinalityType, Zenon
  <2>3. Cardinality(Pushing') \in {Cardinality(Pushing), Cardinality(Pushing) + 1}
    BY <1>1, <2>1, FS_AddElement, Zenon
  <2>4. TypeOK'
    BY <1>2, Zenon DEF CallSend, Goes, TypeOK, sink, writing, freezing, ending
  <2> QED BY <1>2, <2>2, <2>3, <2>4 DEF CallSend, TypeOK
<1>3. ASSUME NEW l \in Loggers, Push(l) PROVE Bounded'
  <2>1. Pushing' = Pushing \ {l} /\ l \in Pushing
    BY <1>3, Zenon DEF Push, Goes, Pushing, TypeOK
  <2>2. Cardinality(Pushing') = Cardinality(Pushing) - 1
        /\ Cardinality(Pushing) \in Nat /\ Cardinality(Pushing') \in Nat
    BY <1>1, <2>1, FS_RemoveElement, FS_CardinalityType, Zenon
  <2>3. pushed' \in Line /\ pushed' + Cardinality(Pushing') <= MaxMessages
    BY <1>3, <2>2 DEF Push, TypeOK, Line
  <2>4. to_write_queue_' \in Seq(Line)
    BY <1>3, <2>3, AppendProperties, Zenon DEF Push, TypeOK, Line
  <2> QED
    BY <1>3, <2>3, <2>4 DEF Push, Goes, TypeOK, Line, writing, freezing, ending
<1>4. ASSUME NEW l \in Loggers, Notify(l) PROVE Bounded'
  <2>1. Pushing' = Pushing
    BY <1>4, Zenon DEF Notify, Goes, Pushing, TypeOK
  <2> QED
    BY <1>4, <2>1 DEF Notify, Goes, Woken, TypeOK, sink, freezing, ending
<1>5. ASSUME logger' = logger, pushed' = pushed, TypeOK' PROVE Bounded'
  BY <1>5, Zenon DEF Pushing
<1>6. CASE Pop
  <2>1. message' \in Seq(Line) /\ to_write_queue_' \in Seq(Line)
    BY <1>6, HeadTailProperties DEF Pop, TypeOK, Line
  <2> QED
    BY <1>5, <1>6, <2>1, Zenon
       DEF Pop, WriterStep, TypeOK, Line, sending, freezing, ending
<1>7. CASE Fputs
  BY <1>5, <1>7, ConcatProperties, EmptySeq, Zenon
     DEF Fputs, WriterStep, TypeOK, sink, sending, freezing, ending
<1>8. CASE TestShouldDie \/ WaitFor \/ Timeout \/ LockAfterWait \/ QueueEmpty
             \/ Relock
  BY <1>5, <1>8, ZenonT(30)
     DEF TestShouldDie, WaitFor, Timeout, LockAfterWait, QueueEmpty, Relock,
         WriterStep, TypeOK, sink, sending, freezing, ending
<1>9. CASE FsFreeze \/ BeginThaw \/ FsThaw
  BY <1>5, <1>9
     DEF FsFreeze, BeginThaw, FsThaw, TypeOK, sink, writing, sending, ending
<1>10. CASE SetShouldDie \/ NotifyWriter \/ JoinWriter
  BY <1>5, <1>10, ZenonT(30)
     DEF SetShouldDie, NotifyWriter, JoinWriter, Woken, TypeOK, sink, writing,
         sending, freezing
<1>11. CASE UNCHANGED vars
  BY <1>5, <1>11 DEF TypeOK, vars, sink, writing, sending, freezing, ending
<1> QED
  BY <1>2, <1>3, <1>4, <1>6, <1>7, <1>8, <1>9, <1>10, <1>11, Zenon
     DEF Next, Writer

\* Every step keeps the lines in order and the destructor's promise.
LEMMA NextOrder == Bounded /\ Order /\ [Next]_vars => Order'
<1> SUFFICES ASSUME Bounded, Order, [Next]_vars PROVE Order'
  BY Zenon
<1>0. /\ to_write_queue_ \in Seq(Line) /\ message \in Seq(Line)
      /\ output_file \in Seq(Line)
      /\ pushed \in Nat
      /\ logger \in [Loggers -> {"idle", "push", "notify"}]
  BY LogAssumption DEF Bounded, TypeOK, Line
<1>1. ASSUME NEW l \in Loggers, CallSend(l) PROVE Order'
  BY <1>1, Zenon DEF CallSend, Order, NothingLost, Goes, sink, writing, ending
<1>2. ASSUME NEW l \in Loggers, Push(l) PROVE Order'
  <2>1. ~should_die_
    BY <1>2, Zenon DEF Order, Push, Goes
  <2>2. output_file \o message \in Seq(Nat) /\ to_write_queue_ \in Seq(Nat)
    BY <1>0, ConcatProperties, SeqMonotonic, LogAssumption DEF Line
  <2>3. pushed + 1 \in Nat /\ <<pushed + 1>> \in Seq(Nat)
    BY <1>0
  <2>4. to_write_queue_' = to_write_queue_ \o <<pushed + 1>>
    BY <1>2, <2>2, <2>3, AppendIsConcat, Zenon DEF Push
  <2>5. output_file \o message \o to_write_queue_'
          = Append(output_file \o message \o to_write_queue_, pushed + 1)
    <3> DEFINE before == output_file \o message
    <3> HIDE DEF before
    <3>1. before \in Seq(Nat)
      BY <2>2, Zenon DEF before
    <3>2. before \o (to_write_queue_ \o <<pushed + 1>>)
            = (before \o to_write_queue_) \o <<pushed + 1>>
      BY <2>2, <2>3, <3>1, ConcatAssociative, SMTT(20)
    <3>3. before \o to_write_queue_ \in Seq(Nat)
      BY <2>2, <3>1, ConcatProperties, Zenon
    <3>4. Append(before \o to_write_queue_, pushed + 1)
            = (before \o to_write_queue_) \o <<pushed + 1>>
      BY <2>3, <3>3, AppendIsConcat, Zenon
    <3> QED BY <2>4, <3>2, <3>4, Zenon DEF before
  <2>6. NothingLost'
    BY <1>0, <1>2, <2>5, NextNumber, Zenon
       DEF Order, NothingLost, Push, writing
  <2> QED BY <1>2, <2>1, <2>6, Zenon DEF Order, Push, writing, ending
<1>3. ASSUME NEW l \in Loggers, Notify(l) PROVE Order'
  BY <1>0, <1>3, Zenon
     DEF Notify, Order, NothingLost, Goes, Woken, sink, ending
<1>4. CASE Pop
  <2>1. message = <<>>
    BY <1>4, Zenon DEF Pop, WriterStep, Order
  <2>2. /\ Head(to_write_queue_) \in Line /\ Tail(to_write_queue_) \in Seq(Line)
        /\ to_write_queue_ = <<Head(to_write_queue_)>> \o Tail(to_write_queue_)
    BY <1>0, <1>4 DEF Pop
  <2>3. output_file \o message = output_file
    BY <1>0, <2>1, ConcatEmptySeq, Zenon
  <2>4. output_file \o to_write_queue_ = output_file \o message' \o to_write_queue_'
    BY <1>0, <1>4, <2>2, ConcatAssociative, SMTT(20) DEF Pop
  <2> QED
    BY <1>4, <2>3, <2>4, Zenon
       DEF Pop, WriterStep, Order, NothingLost, sending, ending
<1>5. CASE Fputs
  <2>1. output_file' \o message' = output_file \o message
    BY <1>0, <1>5, ConcatProperties, ConcatEmptySeq, Zenon DEF Fputs
  <2> QED
    BY <1>5, <2>1, Zenon
       DEF Fputs, WriterStep, Order, NothingLost, sink, sending, ending
<1>6. CASE TestShouldDie \/ WaitFor \/ Timeout \/ LockAfterWait \/ QueueEmpty
             \/ Relock
  BY <1>6
     DEF TestShouldDie, WaitFor, Timeout, LockAfterWait, QueueEmpty, Relock,
         WriterStep, Order, NothingLost, sink, sending, ending
<1>7. CASE FsFreeze \/ BeginThaw \/ FsThaw
  BY <1>7
     DEF FsFreeze, BeginThaw, FsThaw, Order, NothingLost, sink, writing,
         sending, ending
<1>8. CASE SetShouldDie
  BY <1>8, Zenon DEF SetShouldDie, Order, NothingLost, writing, sending
<1>9. CASE NotifyWriter \/ JoinWriter
  BY <1>9
     DEF NotifyWriter, JoinWriter, Woken, Order, NothingLost, sink, writing,
         sending
<1>10. CASE UNCHANGED vars
  BY <1>10, Zenon DEF vars, Order, NothingLost, sink, writing, sending, ending
<1> QED
  BY <1>1, <1>2, <1>3, <1>4, <1>5, <1>6, <1>7, <1>8, <1>9, <1>10, Zenon
     DEF Next, Writer

\* The two together, in every reachable state.
LEMMA Invariance == Spec => [](Bounded /\ Order)
<1> QED BY InitInv, NextBounded, NextOrder, PTL DEF Spec

(* Every reachable state is well typed; in particular no more lines are     *)
(* queued than MaxMessages allows to be logged.                             *)
THEOREM SinkTypeCorrect == Spec => []TypeOK
<1>1. Bounded => TypeOK BY Zenon DEF Bounded
<1> QED BY <1>1, Invariance, PTL

(* What is in the file, in the writer's hand and in the queue are the lines *)
(* in the order in which send() pushed them, each once.                     *)
THEOREM EveryLineOnce == Spec => []NothingLost
<1>1. Order => NothingLost BY Zenon DEF Order
<1> QED BY <1>1, Invariance, PTL

(* A writer that has ended leaves a line behind only if should_die_ was set *)
(* between its last drain and its test.                                     *)
THEOREM LastWords == Spec => []LastWordsWritten
<1>1. Order => LastWordsWritten BY Zenon DEF Order, LastWordsWritten
<1> QED BY <1>1, Invariance, PTL

=============================================================================
