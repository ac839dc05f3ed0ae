---------------------------- MODULE BackupProofs ----------------------------
(***************************************************************************)
(* The invariants of Backup for any finite set of syncs, any width of      *)
(* count_ that holds their number, any devices, stores and traces.         *)
(*                                                                         *)
(* The inductive invariants: Ending follows the control of the threads and *)
(* of DoBackup up to the verdict; Copying says where an interval is that   *)
(* is in no image yet; Counting relates count_ to the workers              *)
(* that are not done, as long as no increment was refused, and Accounting  *)
(* afterwards too; Publishing relates DoBackup to what has been published. *)
(***************************************************************************)
EXTENDS Backup, FiniteSetTheorems, TLAPS

Ended == {"gather", "poll", "fail", "cancel", "succeed", "done"}

(* What the control of a thread at each place implies, and what DoBackup    *)
(* knows after the joins.                                                   *)
Ending ==
  /\ TypeOK
  /\ \A w \in Workers :
       /\ pc[w] = "wait" => was_done[w]
       /\ was_done[w] => bytes_unsynced[w] = 0
       /\ Left(w) => was_done[w] \/ cancelled_
  /\ status = "SUCCEEDED" => main = "done"
  /\ fatal_errors_ # <<>> => cancelled_
  /\ main \in Ended => \A w \in Workers : pc[w] = "exited"
  /\ main = "fail" => fatal_errors_ # <<>>
  /\ main \in {"poll", "cancel", "succeed"} => fatal_errors_ = <<>>
  /\ main = "cancel" => cancelled_
  /\ main = "succeed" => \A w \in Workers : was_done[w]
  /\ main = "done" =>
       /\ status = "FAILED" <=> fatal_errors_ # <<>>
       /\ status = "CANCELLED" => cancelled_
       /\ status = "SUCCEEDED" => \A w \in Workers : was_done[w]

\* The number of syncs is a natural number.
LEMMA WorkersCardinality == Cardinality(Workers) \in Nat
  BY CoordinatorAssumption, FS_CardinalityType, Zenon

(* The unsigned counter stays in its width.                                 *)
LEMMA CounterRange ==
  ASSUME NEW n \in 0 .. UIntModulus - 1
  PROVE  /\ Decrement(n) \in 0 .. UIntModulus - 1
         /\ Increment(n) \in 0 .. UIntModulus - 1
  BY CoordinatorAssumption, WorkersCardinality DEF Decrement, Increment

\* An error that has been recorded leaves a list of errors, not empty.
LEMMA ErrorRecorded ==
  ASSUME NEW w \in Workers, fatal_errors_ \in Seq(Workers), AddFatalError(w)
  PROVE  fatal_errors_' \in Seq(Workers) /\ fatal_errors_' # <<>>
  BY DEF AddFatalError

\* What a store holds can be counted.
LEMMA StoreSize ==
  ASSUME TypeOK, NEW w \in Workers
  PROVE  /\ IsFiniteSet(unsynced[source[w]])
         /\ Cardinality(unsynced[source[w]]) \in Nat
<1>1. unsynced[source[w]] \in SUBSET Sectors
  BY Zenon DEF TypeOK
<1> QED BY <1>1, BackupAssumption, FS_Subset, FS_CardinalityType, Zenon

\* Ending holds before DoBackup runs.
LEMMA EndingInit == Init => Ending
<1> SUFFICES ASSUME Init PROVE Ending
  BY Zenon
<1>1. Cardinality(Workers) \in 0 .. UIntModulus - 1
  BY CoordinatorAssumption, WorkersCardinality
<1>2. traces \in Nat
  BY BackupAssumption DEF Init
<1>3. CoordinatorTypeOK
  <2>1. <<>> \in Seq(Workers)
    OBVIOUS
  <2> QED BY <1>1, <2>1, Zenon DEF Init, CoordinatorInit, CoordinatorTypeOK
<1>4. TypeOK
  <2>1. /\ pc \in [Workers -> WorkerState] /\ was_done \in [Workers -> BOOLEAN]
        /\ to_sync \in [Workers -> Sectors \cup {None}]
    BY Zenon DEF Init, WorkerState
  <2> QED
    BY <1>2, <1>3, <2>1, BackupAssumption, Zenon
       DEF Init, TypeOK, MainState, Status
<1> QED
  BY <1>4, Zenon DEF Init, Ending, CoordinatorInit, Left, Ended

\* Every step of DoBackup, a sync or a client preserves Ending.
LEMMA EndingNext == Ending /\ [Next]_vars => Ending'
<1> SUFFICES ASSUME Ending, [Next]_vars PROVE Ending'
  BY Zenon
<1> USE DEF Ending, Left, Ended, TypeOK, CoordinatorTypeOK, coordinator,
           MainState, WorkerState, Status, stores
<1>1. ASSUME NEW w \in Workers, Throw(w) PROVE Ending'
  BY <1>1, ZenonT(30) DEF Throw, Goto, Alive
<1>2. ASSUME NEW w \in Workers, OpenDevices(w) PROVE Ending'
  BY <1>2, Zenon DEF OpenDevices, Goto, Alive
<1>3. ASSUME NEW w \in Workers, CheckCancelled(w) PROVE Ending'
  BY <1>3, Zenon DEF CheckCancelled, Goto, Alive, IsCancelled
<1>4. ASSUME NEW w \in Workers, CountUnsynced(w) PROVE Ending'
  <2>1. Cardinality(unsynced[source[w]]) \in Nat
    BY StoreSize, Zenon
  <2> QED BY <1>4, <2>1, Zenon DEF CountUnsynced, Goto, Alive
<1>5. ASSUME NEW w \in Workers, SyncComplete(w) PROVE Ending'
  BY <1>5, CounterRange, Zenon
     DEF SyncComplete, UpdateUnsyncedCount, Goto, Alive, SignalFinished
<1>6. ASSUME NEW w \in Workers, WaitUntilFinished(w) PROVE Ending'
  BY <1>6, Zenon DEF WaitUntilFinished, Goto, Alive, Finished
<1>7. ASSUME NEW w \in Workers, MoreWork(w) PROVE Ending'
  <2>1. count_' \in 0 .. UIntModulus - 1
    BY <1>7, CounterRange, ZenonT(30) DEF MoreWork, SignalMoreWorkToDo
  <2>2. refusals' \in Nat
    BY <1>7 DEF MoreWork
  <2>3. /\ UNCHANGED <<cancelled_, fatal_errors_, main, status, stores, traces>>
        /\ seen' = [seen EXCEPT ![w] = 0]
    BY <1>7, Zenon DEF MoreWork, SignalMoreWorkToDo
  <2>4. /\ was_done' = [was_done EXCEPT ![w] = FALSE]
        /\ bytes_unsynced' = [bytes_unsynced EXCEPT ![w] = seen[w]]
    BY <1>7, Zenon DEF MoreWork, UpdateUnsyncedCount
  <2>5. pc[w] = "decide" /\ seen[w] > 0 /\ pc' = [pc EXCEPT ![w] = "take"]
    BY <1>7, Zenon DEF MoreWork, Goto
  <2> QED BY <2>1, <2>2, <2>3, <2>4, <2>5, Zenon
<1>8. ASSUME NEW w \in Workers, GetInterval(w) \/ RemoveInterval(w)
      PROVE  Ending'
  <2>1. CASE GetInterval(w)
    <3>1. to_sync' \in [Workers -> Sectors \cup {None}]
      BY <2>1, Zenon DEF GetInterval
    <3> QED BY <2>1, <3>1, Zenon DEF GetInterval, Goto, Alive
  <2>2. CASE RemoveInterval(w) BY <2>2, Zenon DEF RemoveInterval, Goto, Alive
  <2> QED BY <1>8, <2>1, <2>2, Zenon
<1>9. ASSUME NEW w \in Workers, CopyInterval(w) PROVE Ending'
  BY <1>9, Zenon DEF CopyInterval, Goto, Alive
<1>10. ASSUME NEW w \in Workers, CloseDevices(w) PROVE Ending'
  BY <1>10, Zenon DEF CloseDevices, Goto, Alive
<1>11. ASSUME NEW w \in Workers, CatchException(w) PROVE Ending'
  <2>1. fatal_errors_' \in Seq(Workers) /\ fatal_errors_' # <<>>
    BY <1>11, ErrorRecorded, Zenon DEF CatchException
  <2> QED BY <1>11, <2>1, Zenon DEF CatchException, AddFatalError, Goto, Alive
<1>12. CASE BackupInProgress BY <1>12, Zenon DEF BackupInProgress, locals
<1>13. ASSUME NEW w \in Workers, StartSyncThread(w) PROVE Ending'
  BY <1>13, Zenon DEF StartSyncThread, Goto, Alive
<1>14. CASE SyncCountHandlerThrows
  BY <1>14, Zenon DEF SyncCountHandlerThrows, locals
<1>15. CASE AllStarted BY <1>15, Zenon DEF AllStarted, locals
<1>16. CASE AwaitFinished BY <1>16, Zenon DEF AwaitFinished, locals
<1>17. CASE JoinThreads BY <1>17, Zenon DEF JoinThreads, locals
<1>18. CASE GatherErrors BY <1>18, Zenon DEF GatherErrors, locals
<1>19. CASE PollCancelled BY <1>19, Zenon
                             DEF PollCancelled, IsCancelled, locals
<1>20. CASE PublishVerdict BY <1>20 DEF PublishVerdict, Verdict, locals
<1>21. ASSUME NEW d \in Devices, TraceArrives(d) PROVE Ending'
  <2>1. traces' \in Nat
    BY <1>21 DEF TraceArrives
  <2>2. unsynced' \in [Devices -> SUBSET Sectors]
    BY <1>21 DEF TraceArrives
  <2> QED BY <1>21, <2>1, <2>2, ZenonT(30) DEF TraceArrives, Alive
<1>22. CASE StopBackup BY <1>22, ZenonT(30) DEF StopBackup, Cancel, Alive, locals
<1>23. CASE UNCHANGED vars BY <1>23 DEF vars, locals
<1> QED
  BY <1>1, <1>2, <1>3, <1>4, <1>5, <1>6, <1>7, <1>8, <1>9, <1>10, <1>11, <1>12,
     <1>13, <1>14, <1>15, <1>16, <1>17, <1>18, <1>19, <1>20, <1>21, <1>22,
     <1>23, ZenonT(30)
     DEF Next, DoBackup, Synchronizer, Over

\* Ending holds in every reachable state.
LEMMA EndingInvariant == Spec => []Ending
  BY EndingInit, EndingNext, PTL DEF Spec

(* The type invariant of Backup: in particular the counter never leaves its *)
(* width.                                                                   *)
THEOREM BackupTypeCorrect == Spec => []TypeOK
<1>1. Ending => TypeOK BY Zenon DEF Ending
<1> QED BY <1>1, EndingInvariant, PTL

(* The verdict DoBackup publishes agrees with how every thread ended, for   *)
(* any number of syncs.                                                     *)
THEOREM VerdictIsSound == Spec => []VerdictSound
<1>1. Ending => VerdictSound
  BY Zenon DEF Ending, VerdictSound, Working, Ended
<1> QED BY <1>1, EndingInvariant, PTL

(* A backup that has succeeded shows no bytes left for any device, for any  *)
(* number of syncs.                                                         *)
THEOREM SuccessLeavesNothing == Spec => []SucceededReportsNothingLeft
<1>1. Ending => SucceededReportsNothingLeft
  BY Zenon DEF Ending, SucceededReportsNothingLeft
<1> QED BY <1>1, EndingInvariant, PTL

-----------------------------------------------------------------------------
(* What has been copied *)

Threw == fatal_errors_ # <<>> \/ \E w \in Workers : pc[w] = "catch"

Taken(d, s) ==
  \E v \in Workers :
    source[v] = d /\ pc[v] \in {"remove", "copy"} /\ to_sync[v] = s

(* As long as no thread threw, what is in no image yet is in the store or   *)
(* in the hands of a sync of its device: only the latter once a sync has    *)
(* found the store empty, whoever emptied it.                               *)
Copying ==
  Threw \/
  \A w \in Workers : \A s \in uncopied[source[w]] :
    /\ s \in unsynced[source[w]] \/ Taken(source[w], s)
    /\ was_done[w] \/ (pc[w] = "decide" /\ seen[w] = 0) => Taken(source[w], s)

\* A thread that threw, or its error, stays.
LEMMA ThrewStays ==
  ASSUME Ending, [Next]_vars, Threw
  PROVE  Threw'
<1> USE DEF Ending, TypeOK, CoordinatorTypeOK, Threw, coordinator, locals
<1>1. ASSUME NEW w \in Workers, CatchException(w) PROVE Threw'
  BY <1>1, ErrorRecorded, Zenon DEF CatchException
<1>2. ASSUME NEW w \in Workers,
             \/ Throw(w) \/ OpenDevices(w) \/ CheckCancelled(w)
             \/ CountUnsynced(w) \/ SyncComplete(w) \/ WaitUntilFinished(w)
             \/ MoreWork(w) \/ GetInterval(w) \/ RemoveInterval(w)
             \/ CopyInterval(w) \/ CloseDevices(w) \/ StartSyncThread(w)
      PROVE  Threw'
  <2>1. fatal_errors_' = fatal_errors_
    BY <1>2, Zenon
       DEF Throw, OpenDevices, CheckCancelled, CountUnsynced, SyncComplete,
           WaitUntilFinished, MoreWork, GetInterval, RemoveInterval,
           CopyInterval, CloseDevices, StartSyncThread, SignalFinished,
           SignalMoreWorkToDo
  <2>2. pc[w] # "catch" /\ \E to \in WorkerState : pc' = [pc EXCEPT ![w] = to]
    BY <1>2, Zenon
       DEF Throw, OpenDevices, CheckCancelled, CountUnsynced, SyncComplete,
           WaitUntilFinished, MoreWork, GetInterval, RemoveInterval,
           CopyInterval, CloseDevices, StartSyncThread, Goto, WorkerState
  <2> QED BY <2>1, <2>2, Zenon
<1>3. CASE \/ BackupInProgress \/ SyncCountHandlerThrows \/ AllStarted
           \/ AwaitFinished \/ JoinThreads \/ GatherErrors \/ PollCancelled
           \/ PublishVerdict \/ StopBackup \/ UNCHANGED vars
           \/ (\E d \in Devices : TraceArrives(d))
  BY <1>3, Zenon
     DEF BackupInProgress, SyncCountHandlerThrows, AllStarted, AwaitFinished,
         JoinThreads, GatherErrors, PollCancelled, PublishVerdict, StopBackup,
         Cancel, TraceArrives, vars
<1> QED
  BY <1>1, <1>2, <1>3, Zenon DEF Next, DoBackup, Synchronizer, Over

\* Every step preserves Copying.
LEMMA CopyingNext == Ending /\ Copying /\ [Next]_vars => Copying'
<1> SUFFICES ASSUME Ending, Copying, [Next]_vars, ~Threw' PROVE Copying'
  BY Zenon DEF Copying
<1>0. /\ ~Threw
      /\ \A w \in Workers : \A s \in uncopied[source[w]] :
           /\ s \in unsynced[source[w]] \/ Taken(source[w], s)
           /\ was_done[w] \/ (pc[w] = "decide" /\ seen[w] = 0) =>
                Taken(source[w], s)
  BY ThrewStays, Zenon DEF Copying
<1> USE DEF Ending, TypeOK, Goto, stores
<1>1. ASSUME NEW u \in Workers, Throw(u) PROVE Copying'
  BY <1>1, Zenon DEF Throw, Threw
<1>2. ASSUME NEW u \in Workers, CatchException(u) PROVE Copying'
  BY <1>0, <1>2, Zenon DEF CatchException, Threw
<1>3. ASSUME NEW u \in Workers, CountUnsynced(u) PROVE Copying'
  <2>1. Cardinality(unsynced[source[u]]) = 0 => unsynced[source[u]] = {}
    BY StoreSize, FS_EmptySet, Zenon
  <2>2. \A d, s : Taken(d, s) => Taken(d, s)'
    BY <1>3, Zenon DEF CountUnsynced, Taken
  <2> QED BY <1>0, <1>3, <2>1, <2>2, Zenon DEF CountUnsynced, Copying
<1>4. ASSUME NEW u \in Workers, GetInterval(u) PROVE Copying'
  <2>1. \A d, s : Taken(d, s) => Taken(d, s)'
    BY <1>4, Zenon DEF GetInterval, Taken
  <2> QED BY <1>0, <1>4, <2>1, Zenon DEF GetInterval, Copying
<1>5. ASSUME NEW u \in Workers, RemoveInterval(u) PROVE Copying'
  <2>1. \A d, s : Taken(d, s) => Taken(d, s)'
    BY <1>5, Zenon DEF RemoveInterval, Taken
  <2>2. Taken(source[u], to_sync[u])'
    BY <1>5, Zenon DEF RemoveInterval, Taken
  <2> QED BY <1>0, <1>5, <2>1, <2>2, Zenon DEF RemoveInterval, Copying
<1>6. ASSUME NEW u \in Workers, CopyInterval(u) PROVE Copying'
  <2>1. \A d, s : Taken(d, s) => Taken(d, s)' \/ (d = source[u] /\ s = to_sync[u])
    BY <1>6, Zenon DEF CopyInterval, Taken
  <2>2. \A w \in Workers : \A s \in uncopied'[source'[w]] :
          s \in uncopied[source[w]] /\ ~(source[w] = source[u] /\ s = to_sync[u])
    BY <1>6, Zenon DEF CopyInterval
  <2> QED BY <1>0, <1>6, <2>1, <2>2, ZenonT(60) DEF CopyInterval, Copying
<1>7. ASSUME NEW u \in Workers, SyncComplete(u) PROVE Copying'
  <2>1. \A d, s : Taken(d, s) => Taken(d, s)'
    BY <1>7, Zenon DEF SyncComplete, Taken
  <2> QED BY <1>0, <1>7, <2>1, Zenon DEF SyncComplete, Copying
<1>8. ASSUME NEW u \in Workers, MoreWork(u) PROVE Copying'
  <2>1. \A d, s : Taken(d, s) => Taken(d, s)'
    BY <1>8, Zenon DEF MoreWork, Taken
  <2> QED BY <1>0, <1>8, <2>1, Zenon DEF MoreWork, Copying
<1>9. ASSUME NEW u \in Workers,
             \/ OpenDevices(u) \/ CheckCancelled(u) \/ WaitUntilFinished(u)
             \/ CloseDevices(u) \/ StartSyncThread(u)
      PROVE  Copying'
  <2>1. \A d, s : Taken(d, s) => Taken(d, s)'
    BY <1>9, Zenon
       DEF OpenDevices, CheckCancelled, WaitUntilFinished, CloseDevices,
           StartSyncThread, Taken
  <2>2. /\ UNCHANGED <<stores, was_done, seen>>
        /\ \A w \in Workers : pc'[w] = "decide" => pc[w] = "decide"
    BY <1>9, ZenonT(30)
       DEF OpenDevices, CheckCancelled, WaitUntilFinished, CloseDevices,
           StartSyncThread
  <2> QED BY <1>0, <2>1, <2>2, Zenon DEF Copying
<1>10. ASSUME NEW d \in Devices, TraceArrives(d) PROVE Copying'
  <2>1. \A e, s : Taken(e, s) => Taken(e, s)'
    BY <1>10, Zenon DEF TraceArrives, Taken
  <2>2. \A e \in Devices : unsynced[e] \subseteq unsynced'[e]
    <3>1. PICK s \in Sectors : unsynced' = [unsynced EXCEPT ![d] = @ \cup {s}]
      BY <1>10, Zenon DEF TraceArrives
    <3> QED BY <3>1
  <2> QED BY <1>0, <1>10, <2>1, <2>2, Zenon DEF TraceArrives, Copying
<1>11. CASE \/ BackupInProgress \/ SyncCountHandlerThrows \/ AllStarted
            \/ AwaitFinished \/ JoinThreads \/ GatherErrors \/ PollCancelled
            \/ PublishVerdict \/ StopBackup \/ UNCHANGED vars
  <2>1. UNCHANGED locals
    BY <1>11, Zenon
       DEF BackupInProgress, SyncCountHandlerThrows, AllStarted, AwaitFinished,
           JoinThreads, GatherErrors, PollCancelled, PublishVerdict,
           StopBackup, vars
  <2>2. \A d, s : Taken(d, s) => Taken(d, s)'
    BY <2>1, Zenon DEF Taken, locals
  <2> QED BY <1>0, <2>1, <2>2, Zenon DEF Copying, locals
<1> QED
  BY <1>1, <1>2, <1>3, <1>4, <1>5, <1>6, <1>7, <1>8, <1>9, <1>10, <1>11, Zenon
     DEF Next, DoBackup, Synchronizer, Over

(* A backup that has succeeded has copied what was unsynced at its start,   *)
(* for any number of syncs, of one device or of several, and any traces.    *)
THEOREM SuccessCopiesAll == Spec => []SucceededCopiedAll
<1>1. Init => Copying
  BY Zenon DEF Init, Copying
<1>2. Ending /\ Copying => SucceededCopiedAll
  <2> SUFFICES ASSUME Ending, Copying, status = "SUCCEEDED", NEW w \in Workers
               PROVE  uncopied[source[w]] = {}
    BY Zenon DEF SucceededCopiedAll
  <2>1. /\ fatal_errors_ = <<>>
        /\ \A v \in Workers : pc[v] = "exited" /\ was_done[v]
    BY Zenon DEF Ending, Ended
  <2> QED BY <2>1, Zenon DEF Copying, Threw, Taken
<1> QED
  BY <1>1, <1>2, CopyingNext, EndingInvariant, PTL DEF Spec

-----------------------------------------------------------------------------
(* The counter *)

(* As long as no increment was refused count_ is the number of workers that *)
(* are not done, and whoever left an uncancelled backup left all done.      *)
Counting ==
  refusals = 0 =>
    /\ count_ = Cardinality(Working)
    /\ ~cancelled_ /\ (\E w \in Workers : Left(w)) => Working = {}

\* The set of syncs that are not done is finite.
LEMMA WorkingFinite ==
  /\ IsFiniteSet(Working)
  /\ Cardinality(Working) \in Nat
  /\ Cardinality(Working) <= Cardinality(Workers)
<1>1. Working \in SUBSET Workers
  BY Zenon DEF Working
<1> QED BY <1>1, CoordinatorAssumption, FS_Subset, FS_CardinalityType, Zenon

\* Counting holds before DoBackup runs.
LEMMA CountingInit == Init => Counting
<1> SUFFICES ASSUME Init PROVE Counting
  BY Zenon
<1>1. Working = Workers
  BY Zenon DEF Init, Working
<1>2. \A w \in Workers : ~Left(w)
  BY Zenon DEF Init, Left
<1> QED BY <1>1, <1>2, Zenon DEF Init, CoordinatorInit, Counting

\* Every step preserves Counting.
LEMMA CountingNext == Ending /\ Counting /\ [Next]_vars => Counting'
<1> SUFFICES ASSUME Ending, Counting, [Next]_vars PROVE Counting'
  BY Zenon
<1> USE DEF Ending, TypeOK, CoordinatorTypeOK
<1>1. ASSUME NEW w \in Workers, SyncComplete(w) PROVE Counting'
  <2>1. pc' = [pc EXCEPT ![w] = "wait"] /\ UNCHANGED <<refusals, cancelled_>>
    BY <1>1, Zenon DEF SyncComplete, Goto, SignalFinished, coordinator
  <2>2. (\E v \in Workers : Left(v))' => \E v \in Workers : Left(v)
    BY <2>1, Zenon DEF Left
  <2>3. CASE was_done[w]
    <3>1. Working' = Working
      BY <1>1, <2>3, Zenon DEF SyncComplete, Working
    <3> QED BY <1>1, <2>1, <2>2, <2>3, <3>1, Zenon
               DEF SyncComplete, coordinator, Counting
  <2>4. CASE ~was_done[w]
    <3>1. Working' = Working \ {w} /\ w \in Working
      BY <1>1, <2>4, Zenon DEF SyncComplete, Working
    <3>2. Cardinality(Working') = Cardinality(Working) - 1
      BY <3>1, WorkingFinite, FS_RemoveElement, Zenon
    <3>3. Cardinality(Working) # 0
      BY <3>1, WorkingFinite, FS_EmptySet, Zenon
    <3>4. count_' = Decrement(count_)
      BY <1>1, <2>4, Zenon DEF SyncComplete, SignalFinished
    <3>5. refusals = 0 => count_' = Cardinality(Working')
      BY <3>2, <3>3, <3>4, WorkingFinite, Zenon DEF Counting, Decrement
    <3> QED BY <2>1, <2>2, <3>1, <3>5, Zenon DEF Counting
  <2> QED BY <2>3, <2>4, Zenon
<1>2. ASSUME NEW w \in Workers, MoreWork(w) PROVE Counting'
  <2>1. pc' = [pc EXCEPT ![w] = "take"] /\ UNCHANGED cancelled_
    BY <1>2, Zenon DEF MoreWork, Goto, SignalMoreWorkToDo, coordinator
  <2>2. (\E v \in Workers : Left(v))' => \E v \in Workers : Left(v)
    BY <2>1, Zenon DEF Left
  <2>3. CASE ~was_done[w]
    <3>1. Working' = Working
      BY <1>2, <2>3, Zenon DEF MoreWork, Working
    <3> QED BY <1>2, <2>1, <2>2, <2>3, <3>1, Zenon
               DEF MoreWork, coordinator, Counting
  <2>4. CASE was_done[w] /\ MoreWorkPermitted
    <3>1. Working' = Working \cup {w} /\ w \notin Working
      BY <1>2, <2>4, ZenonT(30) DEF MoreWork, Working
    <3>2. Cardinality(Working') = Cardinality(Working) + 1
      BY <3>1, WorkingFinite, FS_AddElement, Zenon
    <3>3. Working' \in SUBSET Workers
      BY Zenon DEF Working
    <3>4. Cardinality(Working') <= Cardinality(Workers)
      BY <3>3, CoordinatorAssumption, FS_Subset, Zenon
    <3>5. count_' = Increment(count_) /\ refusals' = refusals /\ count_ # 0
      BY <1>2, <2>4, Zenon DEF MoreWork, SignalMoreWorkToDo, MoreWorkPermitted
    <3>6. refusals = 0 => count_' = Cardinality(Working')
      BY <3>2, <3>4, <3>5, WorkingFinite, WorkersCardinality,
         CoordinatorAssumption
         DEF Counting, Increment
    <3>7. refusals = 0 => Working # {}
      BY <3>5, FS_EmptySet, Zenon DEF Counting
    <3> QED BY <2>1, <2>2, <3>5, <3>6, <3>7, Zenon DEF Counting
  <2>5. CASE was_done[w] /\ ~MoreWorkPermitted
    <3>1. refusals' # 0
      BY <1>2, <2>5 DEF MoreWork
    <3> QED BY <3>1, Zenon DEF Counting
  <2> QED BY <2>3, <2>4, <2>5, Zenon
<1>3. ASSUME NEW w \in Workers, WaitUntilFinished(w) PROVE Counting'
  <2>1. UNCHANGED <<count_, cancelled_, refusals, was_done>> /\ Working' = Working
    BY <1>3, Zenon DEF WaitUntilFinished, coordinator, Working
  <2>2. CASE Finished
    <3>1. refusals = 0 /\ ~cancelled_ => Working = {}
      BY <2>2, WorkingFinite, FS_EmptySet, Zenon DEF Finished, Counting
    <3> QED BY <2>1, <3>1, Zenon DEF Counting
  <2>3. CASE ~Finished
    <3>1. (\E v \in Workers : Left(v))' => \E v \in Workers : Left(v)
      BY <1>3, <2>3, Zenon DEF WaitUntilFinished, Goto, Left
    <3> QED BY <2>1, <3>1, Zenon DEF Counting
  <2> QED BY <2>2, <2>3, Zenon
<1>4. ASSUME NEW w \in Workers, CheckCancelled(w) PROVE Counting'
  <2>1. UNCHANGED <<count_, cancelled_, refusals, was_done>> /\ Working' = Working
    BY <1>4, Zenon DEF CheckCancelled, coordinator, Working
  <2>2. ~cancelled_ /\ (\E v \in Workers : Left(v))' =>
          \E v \in Workers : Left(v)
    BY <1>4, Zenon DEF CheckCancelled, Goto, Left, IsCancelled
  <2> QED BY <2>1, <2>2, Zenon DEF Counting
<1>5. ASSUME NEW w \in Workers, CatchException(w) PROVE Counting'
  <2>1. UNCHANGED <<count_, refusals>> /\ Working' = Working /\ cancelled_'
    BY <1>5, Zenon DEF CatchException, AddFatalError, Working
  <2> QED BY <2>1, Zenon DEF Counting
<1>6. CASE StopBackup
  <2>1. UNCHANGED <<count_, refusals>> /\ Working' = Working /\ cancelled_'
    BY <1>6, Zenon DEF StopBackup, Cancel, Working, locals
  <2> QED BY <2>1, Zenon DEF Counting
<1>7. ASSUME NEW w \in Workers,
             \/ OpenDevices(w) \/ CountUnsynced(w) \/ GetInterval(w)
             \/ RemoveInterval(w) \/ CopyInterval(w) \/ CloseDevices(w)
             \/ Throw(w) \/ StartSyncThread(w)
      PROVE  Counting'
  <2>1. UNCHANGED <<count_, cancelled_, refusals>> /\ Working' = Working
    BY <1>7, Zenon
       DEF OpenDevices, CountUnsynced, GetInterval, RemoveInterval,
           CopyInterval, CloseDevices, Throw, StartSyncThread, coordinator,
           Working
  <2>2. (\E v \in Workers : Left(v))' => \E v \in Workers : Left(v)
    BY <1>7, ZenonT(30)
       DEF OpenDevices, CountUnsynced, GetInterval, RemoveInterval,
           CopyInterval, CloseDevices, Throw, StartSyncThread, Goto, Left
  <2> QED BY <2>1, <2>2, Zenon DEF Counting
<1>8. CASE \/ BackupInProgress \/ SyncCountHandlerThrows \/ AllStarted
           \/ AwaitFinished \/ JoinThreads \/ GatherErrors \/ PollCancelled
           \/ PublishVerdict \/ (\E d \in Devices : TraceArrives(d))
           \/ UNCHANGED vars
  <2>1. UNCHANGED <<count_, cancelled_, refusals, was_done, pc>>
    BY <1>8, Zenon
       DEF BackupInProgress, SyncCountHandlerThrows, AllStarted, AwaitFinished,
           JoinThreads, GatherErrors, PollCancelled, PublishVerdict,
           TraceArrives, vars, coordinator, locals
  <2> QED BY <2>1, Zenon DEF Counting, Working, Left
<1> QED
  BY <1>1, <1>2, <1>3, <1>4, <1>5, <1>6, <1>7, <1>8, Zenon
     DEF Next, DoBackup, Synchronizer, Over

(* No synchronizer leaves an uncancelled backup while another still works,  *)
(* as long as SignalMoreWorkToDo was never refused: for any number of syncs *)
(* and any interleaving with the tracers.                                   *)
THEOREM SyncsFinishTogether == Spec => []FinishTogetherUnlessRefused
<1>1. Counting => FinishTogetherUnlessRefused
  BY Zenon DEF Counting, FinishTogetherUnlessRefused
<1> QED
  BY <1>1, CountingInit, CountingNext, EndingInvariant, PTL DEF Spec

(* With refusals, or cancelled, the counter is still right modulo its width *)
(* once they are counted in.                                                *)
Accounting ==
  \E k \in Int :
    count_ + refusals = Cardinality(Working) + UIntModulus * k

\* What a number leaves when divided by the width of the counter.
LEMMA Remainder ==
  ASSUME NEW M \in Int, M > 0, NEW x \in Int
  PROVE  /\ x = M * (x \div M) + (x % M)
         /\ x % M \in Int /\ x % M >= 0 /\ x % M < M /\ x \div M \in Int
<1>1. x = M * (x \div M) + (x % M)
  BY SMTT(30)
<1>2. x % M \in Int /\ x % M >= 0 /\ x % M < M /\ x \div M \in Int
  OBVIOUS
<1> QED BY <1>1, <1>2, Zenon

\* Two remainders are not a multiple of the divisor apart.
LEMMA Apart ==
  ASSUME NEW M \in Int, M > 0, NEW t \in Int,
         NEW m \in 0 .. M - 1, NEW n \in 0 .. M - 1, m - n = M * t
  PROVE  m = n
<1>1. -M < M * t /\ M * t < M
  OBVIOUS
<1>2. CASE t >= 1
  <2>1. M * t >= M
    BY <1>2
  <2> QED BY <1>1, <2>1
<1>3. CASE t <= -1
  <2>1. M * t <= -M
    BY <1>3
  <2> QED BY <1>1, <2>1
<1>4. CASE t = 0
  BY <1>4
<1> QED BY <1>2, <1>3, <1>4

\* Numbers that are a multiple of the width apart leave the same.
LEMMA SameRemainder ==
  ASSUME NEW M \in Int, M > 0, NEW x \in Int, NEW y \in Int, NEW k \in Int,
         x = y + M * k
  PROVE  x % M = y % M
<1>1. PICK p \in Int : x = M * p + (x % M)
  BY Remainder, Zenon
<1>2. PICK q \in Int : y = M * q + (y % M)
  BY Remainder, Zenon
<1>3. x % M \in 0 .. M - 1 /\ y % M \in 0 .. M - 1
  BY Remainder
<1>4. PICK m \in 0 .. M - 1 : m = x % M
  BY <1>3, Zenon
<1>5. PICK n \in 0 .. M - 1 : n = y % M
  BY <1>3, Zenon
<1>6. M * (k + q - p) = M * k + M * q - M * p
  BY ONLY M \in Int, k \in Int, p \in Int, q \in Int
<1>7. M * p + m = M * q + n + M * k
  BY <1>1, <1>2, <1>4, <1>5, Zenon
<1>8. m - n = M * (k + q - p) /\ k + q - p \in Int
  <2>1. M * p \in Int /\ M * q \in Int /\ M * k \in Int
    OBVIOUS
  <2> QED BY <1>6, <1>7, <2>1
<1>9. m = n
  BY <1>8, Apart, Zenon
<1> QED BY <1>4, <1>5, <1>9, Zenon

\* Only a sync that changes its mind about being done moves the counter.
LEMMA CounterSteps ==
  ASSUME Ending, [Next]_vars
  PROVE  \/ UNCHANGED <<count_, refusals, was_done>>
         \/ \E w \in Workers : (SyncComplete(w) /\ ~was_done[w])
                               \/ (MoreWork(w) /\ was_done[w])
<1>1. ASSUME NEW w \in Workers, SyncComplete(w), was_done[w]
      PROVE  UNCHANGED <<count_, refusals, was_done>>
  BY <1>1, Zenon DEF SyncComplete, coordinator, Ending, TypeOK
<1>2. ASSUME NEW w \in Workers, MoreWork(w), ~was_done[w]
      PROVE  UNCHANGED <<count_, refusals, was_done>>
  BY <1>2, Zenon DEF MoreWork, coordinator, Ending, TypeOK
<1>3. ASSUME NEW w \in Workers,
             \/ OpenDevices(w) \/ CheckCancelled(w) \/ CountUnsynced(w)
             \/ WaitUntilFinished(w) \/ GetInterval(w) \/ RemoveInterval(w)
             \/ CopyInterval(w) \/ CloseDevices(w) \/ Throw(w)
             \/ CatchException(w) \/ StartSyncThread(w)
      PROVE  UNCHANGED <<count_, refusals, was_done>>
  BY <1>3, Zenon
     DEF OpenDevices, CheckCancelled, CountUnsynced, WaitUntilFinished,
         GetInterval, RemoveInterval, CopyInterval, CloseDevices, Throw,
         CatchException, AddFatalError, StartSyncThread, coordinator
<1>4. CASE \/ BackupInProgress \/ SyncCountHandlerThrows \/ AllStarted
           \/ AwaitFinished \/ JoinThreads \/ GatherErrors \/ PollCancelled
           \/ PublishVerdict \/ StopBackup \/ UNCHANGED vars
           \/ (\E d \in Devices : TraceArrives(d))
  BY <1>4, Zenon
     DEF BackupInProgress, SyncCountHandlerThrows, AllStarted, AwaitFinished,
         JoinThreads, GatherErrors, PollCancelled, PublishVerdict, StopBackup,
         Cancel, TraceArrives, vars, coordinator, locals
<1> QED
  BY <1>1, <1>2, <1>3, <1>4, Zenon DEF Next, DoBackup, Synchronizer, Over

\* Every step preserves Accounting.
LEMMA AccountingNext == Ending /\ Accounting /\ [Next]_vars => Accounting'
<1> SUFFICES ASSUME Ending, Accounting, [Next]_vars PROVE Accounting'
  BY Zenon
<1>1. PICK k \in Int :
        count_ + refusals = Cardinality(Working) + UIntModulus * k
  BY Zenon DEF Accounting
<1>2. /\ count_ \in 0 .. UIntModulus - 1 /\ refusals \in Nat
      /\ UIntModulus \in Nat /\ Cardinality(Working) \in Nat
      /\ was_done \in [Workers -> BOOLEAN]
  BY CoordinatorAssumption, WorkingFinite, Zenon
     DEF Ending, TypeOK, CoordinatorTypeOK
<1>3. /\ UIntModulus * (k + 1) = UIntModulus * k + UIntModulus
      /\ UIntModulus * (k - 1) = UIntModulus * k - UIntModulus
      /\ UIntModulus * k \in Int /\ k + 1 \in Int /\ k - 1 \in Int
  BY <1>2
<1>4. CASE UNCHANGED <<count_, refusals, was_done>>
  BY <1>1, <1>4, Zenon DEF Accounting, Working
<1>5. ASSUME NEW w \in Workers, SyncComplete(w), ~was_done[w]
      PROVE  Accounting'
  <2>1. Working' = Working \ {w} /\ w \in Working
    BY <1>2, <1>5, Zenon DEF SyncComplete, Working
  <2>2. Cardinality(Working') = Cardinality(Working) - 1
    BY <2>1, WorkingFinite, FS_RemoveElement, Zenon
  <2>3. count_' = Decrement(count_) /\ refusals' = refusals
    BY <1>5, Zenon DEF SyncComplete, SignalFinished
  <2>4. CASE count_ = 0
    <3>1. count_' + refusals' = Cardinality(Working') + UIntModulus * (k + 1)
      BY <1>1, <1>2, <1>3, <2>2, <2>3, <2>4 DEF Decrement
    <3> QED BY <1>3, <3>1, Zenon DEF Accounting
  <2>5. CASE count_ # 0
    <3>1. count_' + refusals' = Cardinality(Working') + UIntModulus * k
      BY <1>1, <1>2, <1>3, <2>2, <2>3, <2>5 DEF Decrement
    <3> QED BY <3>1, Zenon DEF Accounting
  <2> QED BY <2>4, <2>5, Zenon
<1>6. ASSUME NEW w \in Workers, MoreWork(w), was_done[w]
      PROVE  Accounting'
  <2>1. Working' = Working \cup {w} /\ w \notin Working
    BY <1>2, <1>6, Zenon DEF MoreWork, Working
  <2>2. Cardinality(Working') = Cardinality(Working) + 1
    BY <2>1, WorkingFinite, FS_AddElement, Zenon
  <2>3. /\ count_' = IF MoreWorkPermitted THEN Increment(count_) ELSE count_
        /\ refusals' = IF MoreWorkPermitted THEN refusals ELSE refusals + 1
    BY <1>6, Zenon DEF MoreWork, SignalMoreWorkToDo
  <2>4. CASE MoreWorkPermitted /\ count_ = UIntModulus - 1
    <3>1. count_' + refusals' = Cardinality(Working') + UIntModulus * (k - 1)
      BY <1>1, <1>2, <1>3, <2>2, <2>3, <2>4 DEF Increment
    <3> QED BY <1>3, <3>1, Zenon DEF Accounting
  <2>5. CASE ~(MoreWorkPermitted /\ count_ = UIntModulus - 1)
    <3>1. count_' + refusals' = Cardinality(Working') + UIntModulus * k
      BY <1>1, <1>2, <1>3, <2>2, <2>3, <2>5 DEF Increment
    <3> QED BY <3>1, Zenon DEF Accounting
  <2> QED BY <2>4, <2>5, Zenon
<1> QED BY <1>4, <1>5, <1>6, CounterSteps, Zenon

(* The counter is exact up to the increments it refused, for any number of  *)
(* syncs and any width of unsigned int (SignalFinished,                     *)
(* SignalMoreWorkToDo, was_done in DoSync).                                 *)
THEOREM CountIsAccounted == Spec => []CountAccounting
<1>1. Init => Accounting
  <2> SUFFICES ASSUME Init PROVE Accounting
    BY Zenon
  <2>1. Working = Workers
    BY Zenon DEF Init, Working
  <2>2. count_ + refusals = Cardinality(Working) + UIntModulus * 0
    BY <2>1, WorkersCardinality, CoordinatorAssumption
       DEF Init, CoordinatorInit
  <2> QED BY <2>2 DEF Accounting
<1>2. Ending /\ Accounting => CountAccounting
  <2> SUFFICES ASSUME Ending, Accounting PROVE CountAccounting
    BY Zenon
  <2>1. PICK k \in Int :
          count_ + refusals = Cardinality(Working) + UIntModulus * k
    BY Zenon DEF Accounting
  <2>2. /\ count_ + refusals \in Int /\ Cardinality(Working) \in Int
        /\ UIntModulus \in Int /\ UIntModulus > 0
    BY CoordinatorAssumption, WorkersCardinality, WorkingFinite
       DEF Ending, TypeOK, CoordinatorTypeOK
  <2> QED BY <2>1, <2>2, SameRemainder, Zenon DEF CountAccounting
<1> QED
  BY <1>1, <1>2, AccountingNext, EndingInvariant, PTL DEF Spec

-----------------------------------------------------------------------------
(* The contract *)

Erred(w) == \E i \in DOMAIN fatal_errors_ : fatal_errors_[i] = w

(* How far DoBackup is and what has been published go together, no thread   *)
(* runs before it is started, and only a thread that has ended has left an  *)
(* error behind.                                                            *)
Publishing ==
  /\ main = "start" <=> status = "NOT_STARTED"
  /\ main \notin {"start", "done"} => status = "IN_PROGRESS"
  /\ main = "start" => \A w \in Workers : pc[w] = "unborn"
  /\ \A w \in Workers : Erred(w) => pc[w] = "exited"

\* Publishing holds before DoBackup runs.
LEMMA PublishingInit == Init => Publishing
<1> SUFFICES ASSUME Init PROVE Publishing
  BY Zenon
<1>1. \A w \in Workers : ~Erred(w)
  BY DEF Init, CoordinatorInit, Erred
<1> QED BY <1>1, Zenon DEF Init, Publishing

\* What AddFatalError does to the set of the threads that have failed.
LEMMA ErredAfter ==
  ASSUME fatal_errors_ \in Seq(Workers), NEW w \in Workers, AddFatalError(w),
         NEW v \in Workers
  PROVE  Erred(v)' <=> Erred(v) \/ v = w
<1>1. fatal_errors_' = Append(fatal_errors_, w)
  BY Zenon DEF AddFatalError
<1>2. /\ Len(fatal_errors_) \in Nat
      /\ DOMAIN fatal_errors_ = 1 .. Len(fatal_errors_)
      /\ DOMAIN fatal_errors_' = 1 .. Len(fatal_errors_) + 1
      /\ \A i \in 1 .. Len(fatal_errors_) :
           fatal_errors_'[i] = fatal_errors_[i]
      /\ fatal_errors_'[Len(fatal_errors_) + 1] = w
  BY <1>1
<1>3. Erred(v) => Erred(v)'
  BY <1>2 DEF Erred
<1>4. v = w => Erred(v)'
  BY <1>2 DEF Erred
<1>5. Erred(v)' => Erred(v) \/ v = w
  BY <1>2 DEF Erred
<1> QED BY <1>3, <1>4, <1>5, Zenon

(* Where a step leaves the threads, as far as BackupJob sees them: what it  *)
(* does to DoBackup, or which thread it ends.                               *)
Silent ==
  /\ UNCHANGED <<status, fatal_errors_>>
  /\ cancelled_' = cancelled_ \/ cancelled_' = TRUE
  /\ \A w \in Workers : /\ pc'[w] = "exited" <=> pc[w] = "exited"
                        /\ pc[w] = "exited" => was_done'[w] = was_done[w]
                        /\ main = "start" /\ pc[w] = "unborn" =>
                             pc'[w] = "unborn"
  /\ \/ main' = main
     \/ {main, main'} \cap {"start", "done"} = {}

\* Every other step is silent.
LEMMA StepsOfTheJob ==
  ASSUME Ending, [Next]_vars
  PROVE  \/ Silent \/ BackupInProgress \/ PublishVerdict
         \/ \E w \in Workers : CloseDevices(w) \/ CatchException(w)
<1> USE DEF Ending, TypeOK, CoordinatorTypeOK, Silent, coordinator, locals
<1>1. ASSUME NEW w \in Workers, Throw(w) PROVE Silent
  BY <1>1, Zenon DEF Throw, Goto, Alive
<1>2. ASSUME NEW w \in Workers, OpenDevices(w) PROVE Silent
  BY <1>2, Zenon DEF OpenDevices, Goto, Alive
<1>3. ASSUME NEW w \in Workers, CheckCancelled(w) PROVE Silent
  BY <1>3, Zenon DEF CheckCancelled, Goto, Alive
<1>4. ASSUME NEW w \in Workers, CountUnsynced(w) PROVE Silent
  BY <1>4, Zenon DEF CountUnsynced, Goto, Alive
<1>5. ASSUME NEW w \in Workers, SyncComplete(w) PROVE Silent
  BY <1>5, Zenon DEF SyncComplete, SignalFinished, Goto, Alive
<1>6. ASSUME NEW w \in Workers, WaitUntilFinished(w) PROVE Silent
  BY <1>6, Zenon DEF WaitUntilFinished, Goto, Alive
<1>7. ASSUME NEW w \in Workers, MoreWork(w) PROVE Silent
  BY <1>7, Zenon DEF MoreWork, SignalMoreWorkToDo, Goto, Alive
<1>8. ASSUME NEW w \in Workers, GetInterval(w) \/ RemoveInterval(w)
      PROVE  Silent
  BY <1>8, Zenon DEF GetInterval, RemoveInterval, Goto, Alive
<1>9. ASSUME NEW w \in Workers, CopyInterval(w) PROVE Silent
  BY <1>9, Zenon DEF CopyInterval, Goto, Alive
<1>10. ASSUME NEW w \in Workers, StartSyncThread(w) PROVE Silent
  BY <1>10, Zenon DEF StartSyncThread, Goto, Alive
<1>11. ASSUME NEW d \in Devices, TraceArrives(d) PROVE Silent
  BY <1>11, Zenon DEF TraceArrives
<1>12. CASE SyncCountHandlerThrows
  BY <1>12, Zenon DEF SyncCountHandlerThrows
<1>13. CASE AllStarted
  BY <1>13, Zenon DEF AllStarted
<1>14. CASE AwaitFinished
  BY <1>14, Zenon DEF AwaitFinished
<1>15. CASE JoinThreads
  BY <1>15, Zenon DEF JoinThreads
<1>16. CASE GatherErrors
  BY <1>16, Zenon DEF GatherErrors
<1>17. CASE PollCancelled
  BY <1>17, Zenon DEF PollCancelled
<1>18. CASE StopBackup
  BY <1>18, Zenon DEF StopBackup, Cancel
<1>19. CASE UNCHANGED vars
  BY <1>19, Zenon DEF vars
<1> QED
  BY <1>1, <1>2, <1>3, <1>4, <1>5, <1>6, <1>7, <1>8, <1>9, <1>10, <1>11, <1>12,
     <1>13, <1>14, <1>15, <1>16, <1>17, <1>18, <1>19, ZenonT(30)
     DEF Next, DoBackup, Synchronizer, Over

\* Every step preserves Publishing.
LEMMA PublishingNext == Ending /\ Publishing /\ [Next]_vars => Publishing'
<1> SUFFICES ASSUME Ending, Publishing, [Next]_vars PROVE Publishing'
  BY Zenon
<1> USE DEF Publishing
<1>1. CASE Silent
  BY <1>1, Zenon DEF Silent, Erred
<1>2. CASE BackupInProgress
  BY <1>2, Zenon DEF BackupInProgress, coordinator, locals, Erred
<1>3. CASE PublishVerdict
  BY <1>3 DEF PublishVerdict, Verdict, coordinator, locals, Erred
<1>4. ASSUME NEW w \in Workers, CloseDevices(w) PROVE Publishing'
  BY <1>4, Zenon DEF CloseDevices, Goto, coordinator, Erred, Ending, TypeOK
<1>5. ASSUME NEW w \in Workers, CatchException(w) PROVE Publishing'
  <2>1. \A v \in Workers : Erred(v)' <=> Erred(v) \/ v = w
    BY <1>5, ErredAfter, Zenon
       DEF CatchException, Ending, TypeOK, CoordinatorTypeOK
  <2>2. /\ pc' = [pc EXCEPT ![w] = "exited"] /\ pc[w] = "catch"
        /\ UNCHANGED <<main, status>>
    BY <1>5, Zenon DEF CatchException, Goto
  <2> QED BY <2>1, <2>2, Zenon DEF Ending, TypeOK
<1> QED BY <1>1, <1>2, <1>3, <1>4, <1>5, StepsOfTheJob, Zenon

(* Every step is one of BackupJob's, or one it does not see.                *)
LEMMA StepImplements ==
  ASSUME Ending, Publishing, Publishing', [Next]_vars
  PROVE  [Job!JobNext]_(Job!jobVars)
<1> USE DEF Job!JobNext, Job!jobVars
<1>0. /\ \A w \in Workers :
           SyncOutcome[w] = IF pc[w] # "exited" THEN "running"
                            ELSE IF Erred(w) THEN "error"
                            ELSE IF was_done[w] THEN "synced" ELSE "gave_up"
      /\ \A w \in Workers :
           SyncOutcome'[w] = IF pc'[w] # "exited" THEN "running"
                             ELSE IF Erred(w)' THEN "error"
                             ELSE IF was_done'[w] THEN "synced" ELSE "gave_up"
  BY Zenon DEF SyncOutcome, Erred
<1>f. /\ SyncOutcome = [w \in Workers |-> SyncOutcome[w]]
      /\ SyncOutcome' = [w \in Workers |-> SyncOutcome'[w]]
  BY Zenon DEF SyncOutcome
<1>1. CASE Silent
  <2>1. \A w \in Workers : SyncOutcome'[w] = SyncOutcome[w]
    BY <1>1, <1>0 DEF Silent, Erred
  <2>2. SyncOutcome' = SyncOutcome
    BY <2>1, <1>f, Zenon
  <2>3. UNCHANGED cancelled_ \/ cancelled_' = TRUE
    BY <1>1, Zenon DEF Silent
  <2> QED BY <1>1, <2>2, <2>3, Zenon
             DEF Silent, Job!Stop, Ending, TypeOK, CoordinatorTypeOK
<1>2. CASE BackupInProgress
  <2>1. SyncOutcome' = SyncOutcome
    BY <1>2, Zenon DEF BackupInProgress, coordinator, locals, SyncOutcome
  <2> QED BY <1>2, <2>1, Zenon
             DEF BackupInProgress, coordinator, Publishing, Job!Begin
<1>3. CASE PublishVerdict
  <2>1. SyncOutcome' = SyncOutcome
    BY <1>3, Zenon DEF PublishVerdict, coordinator, locals, SyncOutcome
  <2>2. \A w \in Workers : pc[w] = "exited"
    BY <1>3, Zenon DEF PublishVerdict, Verdict, Ending, Ended
  <2>3. status = "IN_PROGRESS" /\ cancelled_' = cancelled_
    BY <1>3, Zenon DEF PublishVerdict, Verdict, Publishing, coordinator
  <2>4. ~Job!Some("running")
    BY <2>2, <1>0, Zenon DEF Job!Some
  <2>5. Job!Some("error") <=> fatal_errors_ # <<>>
    <3>1. Job!Some("error") <=> \E w \in Workers : Erred(w)
      BY <2>2, <1>0, Zenon DEF Job!Some
    <3>2. fatal_errors_ \in Seq(Workers)
      BY Zenon DEF Ending, TypeOK, CoordinatorTypeOK
    <3>3. fatal_errors_ # <<>> => 1 \in DOMAIN fatal_errors_
                                  /\ fatal_errors_[1] \in Workers
      BY <3>2
    <3>4. fatal_errors_ = <<>> => DOMAIN fatal_errors_ = {}
      OBVIOUS
    <3> QED BY <3>1, <3>3, <3>4, Zenon DEF Erred
  <2>6. CASE main = "fail"
    BY <1>3, <2>1, <2>3, <2>4, <2>5, <2>6, Zenon
       DEF PublishVerdict, Verdict, Ending, Job!Conclude
  <2>7. CASE main = "cancel"
    BY <1>3, <2>1, <2>3, <2>4, <2>5, <2>7, Zenon
       DEF PublishVerdict, Verdict, Ending, Job!Conclude
  <2>8. CASE main = "succeed"
    <3>1. ~Job!Some("gave_up")
      BY <2>2, <2>8, <1>0, Zenon DEF Ending, Job!Some
    <3> QED BY <1>3, <2>1, <2>3, <2>4, <2>5, <2>8, <3>1, Zenon
               DEF PublishVerdict, Verdict, Ending, Job!Conclude
  <2> QED BY <1>3, <2>6, <2>7, <2>8, Zenon DEF PublishVerdict, Verdict
<1>4. ASSUME NEW w \in Workers, CloseDevices(w) PROVE Job!JobNext
  <2>1. /\ pc[w] = "close" /\ pc' = [pc EXCEPT ![w] = "exited"] /\ Alive
        /\ UNCHANGED <<coordinator, status, was_done>>
    BY <1>4, Zenon DEF CloseDevices, Goto
  <2>2. \A v \in Workers : Erred(v)' = Erred(v)
    BY <2>1, Zenon DEF Erred, coordinator
  <2>3. ~Erred(w) /\ (was_done[w] \/ cancelled_)
    BY <2>1, Zenon DEF Publishing, Ending, Left
  <2>4. status = "IN_PROGRESS"
    BY <2>1, Zenon DEF Publishing, Ending, Ended, Alive
  <2>5. PICK o \in {"synced", "gave_up"} :
          o = IF was_done[w] THEN "synced" ELSE "gave_up"
    BY Zenon
  <2>6. pc'[w] = "exited" /\ \A v \in Workers \ {w} : pc'[v] = pc[v]
    BY <2>1, Zenon DEF Ending, TypeOK
  <2>7. SyncOutcome[w] = "running" /\ SyncOutcome'[w] = o
    BY <1>0, <2>1, <2>2, <2>3, <2>5, <2>6, Zenon
  <2>8. \A v \in Workers \ {w} : SyncOutcome'[v] = SyncOutcome[v]
    BY <1>0, <2>1, <2>2, <2>6
  <2>9. SyncOutcome' = [SyncOutcome EXCEPT ![w] = o]
    BY <1>f, <2>7, <2>8, Zenon
  <2>10. o = "gave_up" => cancelled_
    BY <2>3, <2>5, Zenon
  <2>11. cancelled_' = (cancelled_ \/ o = "error")
    BY <2>1, <2>5, Zenon DEF coordinator, Ending, TypeOK, CoordinatorTypeOK
  <2>12. Job!EndSync(w, o)
    BY <2>1, <2>4, <2>5, <2>7, <2>9, <2>10, <2>11, Zenon DEF Job!EndSync
  <2> QED BY <2>5, <2>12, Zenon DEF Job!Outcome
<1>5. ASSUME NEW w \in Workers, CatchException(w) PROVE Job!JobNext
  <2>1. /\ pc[w] = "catch" /\ pc' = [pc EXCEPT ![w] = "exited"] /\ Alive
        /\ UNCHANGED <<status, was_done>> /\ cancelled_' = TRUE
    BY <1>5, Zenon DEF CatchException, AddFatalError, Goto
  <2>2. \A v \in Workers : Erred(v)' <=> Erred(v) \/ v = w
    BY <1>5, ErredAfter, Zenon
       DEF CatchException, Ending, TypeOK, CoordinatorTypeOK
  <2>3. status = "IN_PROGRESS"
    BY <2>1, Zenon DEF Publishing, Ending, Ended, Alive
  <2>4. pc'[w] = "exited" /\ \A v \in Workers \ {w} : pc'[v] = pc[v]
    BY <2>1, Zenon DEF Ending, TypeOK
  <2>5. SyncOutcome[w] = "running" /\ SyncOutcome'[w] = "error"
    BY <1>0, <2>1, <2>2, <2>4, Zenon
  <2>6. \A v \in Workers \ {w} : SyncOutcome'[v] = SyncOutcome[v]
    BY <1>0, <2>1, <2>2, <2>4
  <2>7. SyncOutcome' = [SyncOutcome EXCEPT ![w] = "error"]
    BY <1>f, <2>5, <2>6, Zenon
  <2>8. Job!EndSync(w, "error")
    BY <2>1, <2>3, <2>5, <2>7, Zenon DEF Job!EndSync
  <2> QED BY <2>8, Zenon DEF Job!Outcome
<1> QED BY <1>1, <1>2, <1>3, <1>4, <1>5, StepsOfTheJob, Zenon

(* A backup keeps the contract BackupJob for any number of syncs: each sync *)
(* ends once, and one verdict that agrees with all of them is published     *)
(* after the last (Backup::DoBackup, DeviceSynchronizer::DoSync).           *)
THEOREM BackupKeepsContract == Spec => ImplementsJob
<1>1. Init => Job!JobInit
  <2> SUFFICES ASSUME Init PROVE Job!JobInit
    BY Zenon
  <2>1. SyncOutcome = [w \in Workers |-> "running"]
    BY Zenon DEF Init, SyncOutcome
  <2> QED BY <2>1, Zenon DEF Init, CoordinatorInit, Job!JobInit
<1>2. Ending /\ Publishing /\ Publishing' /\ [Next]_vars
        => [Job!JobNext]_(Job!jobVars)
  BY StepImplements, Zenon
<1> QED
  BY <1>1, <1>2, PublishingInit, PublishingNext, EndingInvariant, PTL
     DEF Spec, ImplementsJob, Job!JobSpec

=============================================================================
