--------------------------- MODULE QueuingLogSink ---------------------------
(***************************************************************************)
(* logging/queuing_log_sink.{h,cc}: threads that log, the writer thread    *)
(* behind the queue, and the destructor at the end of main().  The log may *)
(* be on the file system a backup freezes: a write to it then blocks until *)
(* the thaw, and the thread that thaws looks the mount up first, which     *)
(* logs (VLOG in GetMountedDevices).                                       *)
(***************************************************************************)
EXTENDS Naturals, Sequences, FiniteSets

CONSTANTS
  Loggers,           \* the threads that log
  Unfreezer,         \* the one of them that freezes and thaws
  LINES_TO_BUFFER,   \* 20 or 50 in the code
  MaxMessages,       \* bound: messages logged
  MaxFreezes         \* bound: freezes

ASSUME LogAssumption ==
  /\ IsFiniteSet(Loggers) /\ Unfreezer \in Loggers
  /\ LINES_TO_BUFFER \in Nat /\ MaxMessages \in Nat /\ MaxFreezes \in Nat

VARIABLES
  to_write_queue_, should_die_,
  locked,        \* the writer holds mutex_
  writer,        \* where the writer thread is
  message,       \* the writer's local: nothing, or the line it writes
  output_file,
  logger,        \* where each thread is in send()
  notify_owed,   \* should_notify of the calls of send() under way
  pushed,        \* messages pushed so far; a message is its number
  fs,            \* "thawed", "frozen", or "thawing": Thaw() is called
  freezes,       \* freezes to come
  main,          \* where ~QueuingLogSink is
  overtaken      \* history: should_die_ set between a drain and its test

sink == <<to_write_queue_, should_die_, locked>>
writing == <<writer, message, output_file>>
sending == <<logger, notify_owed, pushed>>
freezing == <<fs, freezes>>
ending == <<main, overtaken>>
vars == <<sink, writing, sending, freezing, ending>>

TypeOK ==
  /\ to_write_queue_ \in Seq(1 .. MaxMessages)
  /\ should_die_ \in BOOLEAN /\ locked \in BOOLEAN
  /\ writer \in {"test", "lock", "waiting", "woken", "drain", "write",
                 "relock", "ended"}
  /\ message \in Seq(1 .. MaxMessages)
  /\ output_file \in Seq(1 .. MaxMessages)
  /\ logger \in [Loggers -> {"idle", "push", "notify"}]
  /\ notify_owed \in [Loggers -> BOOLEAN]
  /\ pushed \in 0 .. MaxMessages
  /\ fs \in {"thawed", "frozen", "thawing"}
  /\ freezes \in 0 .. MaxFreezes
  /\ main \in {"running", "notify", "join", "gone"}
  /\ overtaken \in BOOLEAN

Init ==
  /\ to_write_queue_ = <<>> /\ should_die_ = FALSE /\ locked = FALSE
  /\ writer = "test" /\ message = <<>> /\ output_file = <<>>
  /\ logger = [l \in Loggers |-> "idle"]
  /\ notify_owed = [l \in Loggers |-> FALSE]
  /\ pushed = 0
  /\ fs = "thawed" /\ freezes = MaxFreezes
  /\ main = "running" /\ overtaken = FALSE

-----------------------------------------------------------------------------
(* send() *)

Goes(l, from, to) == logger[l] = from /\ logger' = [logger EXCEPT ![l] = to]

Pushing == {l \in Loggers : logger[l] = "push"}

\* A thread calls send(), the unfreeze thread only on its way to the thaw.
CallSend(l) ==
  /\ main = "running"
  /\ pushed + Cardinality(Pushing) < MaxMessages
  /\ l = Unfreezer => fs = "thawing"
  /\ Goes(l, "idle", "push")
  /\ UNCHANGED <<sink, writing, notify_owed, pushed, freezing, ending>>

\* The scope of the lock_guard
Push(l) ==
  /\ ~locked
  /\ Goes(l, "push", "notify")
  /\ pushed' = pushed + 1
  /\ to_write_queue_' = Append(to_write_queue_, pushed')
  /\ notify_owed' = [notify_owed EXCEPT
                       ![l] = Len(to_write_queue_') > LINES_TO_BUFFER]
  /\ UNCHANGED <<should_die_, locked, writing, freezing, ending>>

Woken == IF writer = "waiting" THEN "woken" ELSE writer

Notify(l) ==
  /\ Goes(l, "notify", "idle")
  /\ notify_owed' = [notify_owed EXCEPT ![l] = FALSE]
  /\ writer' = IF notify_owed[l] THEN Woken ELSE writer
  /\ UNCHANGED <<sink, message, output_file, pushed, freezing, ending>>

-----------------------------------------------------------------------------
(* The writer thread *)

WriterStep(from, to) == writer = from /\ writer' = to

\* while (!should_die_); fclose when it ends
TestShouldDie ==
  /\ WriterStep("test", IF should_die_ THEN "ended" ELSE "lock")
  /\ UNCHANGED <<sink, message, output_file, sending, freezing, ending>>

\* The lock is taken and given up to wait.
WaitFor ==
  /\ ~locked
  /\ WriterStep("lock", "waiting")
  /\ UNCHANGED <<sink, message, output_file, sending, freezing, ending>>

\* mutant: wait() in place of wait_for()
NoTimeout ==
  /\ FALSE
  /\ UNCHANGED vars

\* BUFFER_TIME_MILLIS have passed
Timeout ==
  /\ WriterStep("waiting", "woken")
  /\ UNCHANGED <<sink, message, output_file, sending, freezing, ending>>

\* mutant: a writer told to die leaves at once
LockAfterWaitAndDie ==
  /\ ~locked
  /\ WriterStep("woken", IF should_die_ THEN "ended" ELSE "drain")
  /\ locked' = ~should_die_
  /\ UNCHANGED <<to_write_queue_, should_die_, message, output_file, sending,
                 freezing, ending>>

LockAfterWait ==
  /\ ~locked
  /\ WriterStep("woken", "drain")
  /\ locked' = TRUE
  /\ UNCHANGED <<to_write_queue_, should_die_, message, output_file, sending,
                 freezing, ending>>

QueueEmpty ==
  /\ to_write_queue_ = <<>>
  /\ WriterStep("drain", "test")
  /\ locked' = FALSE
  /\ UNCHANGED <<to_write_queue_, should_die_, message, output_file, sending,
                 freezing, ending>>

\* mutant: the lock is kept while the line is written
PopKeepingLock ==
  /\ to_write_queue_ # <<>>
  /\ WriterStep("drain", "write")
  /\ message' = <<Head(to_write_queue_)>>
  /\ to_write_queue_' = Tail(to_write_queue_)
  /\ UNCHANGED <<locked, should_die_, output_file, sending, freezing, ending>>

\* front, pop and unlock
Pop ==
  /\ to_write_queue_ # <<>>
  /\ WriterStep("drain", "write")
  /\ message' = <<Head(to_write_queue_)>>
  /\ to_write_queue_' = Tail(to_write_queue_)
  /\ locked' = FALSE
  /\ UNCHANGED <<should_die_, output_file, sending, freezing, ending>>

\* fputs to an unbuffered file, which a frozen file system holds up
Fputs ==
  /\ fs = "thawed"
  /\ WriterStep("write", "relock")
  /\ output_file' = output_file \o message
  /\ message' = <<>>
  /\ UNCHANGED <<sink, sending, freezing, ending>>

\* mutant: what was queued is taken to have been written with the line
RelockAndClear ==
  /\ ~locked
  /\ WriterStep("relock", "drain")
  /\ locked' = TRUE
  /\ to_write_queue_' = <<>>
  /\ UNCHANGED <<should_die_, message, output_file, sending, freezing, ending>>

Relock ==
  /\ ~locked
  /\ WriterStep("relock", "drain")
  /\ locked' = TRUE
  /\ UNCHANGED <<to_write_queue_, should_die_, message, output_file, sending,
                 freezing, ending>>

Writer ==
  \/ TestShouldDie \/ WaitFor \/ Timeout \/ LockAfterWait \/ QueueEmpty
  \/ Pop \/ Fputs \/ Relock

-----------------------------------------------------------------------------
(* The unfreeze thread of a FreezeHelper on the file system of the log *)

FsFreeze ==
  /\ main = "running"
  /\ fs = "thawed" /\ freezes > 0
  /\ fs' = "frozen"
  /\ freezes' = freezes - 1
  /\ UNCHANGED <<sink, writing, sending, ending>>

BeginThaw ==
  /\ fs = "frozen"
  /\ fs' = "thawing"
  /\ UNCHANGED <<sink, writing, sending, freezes, ending>>

\* FITHAW, once what was logged on the way has been queued
FsThaw ==
  /\ fs = "thawing"
  /\ logger[Unfreezer] = "idle"
  /\ fs' = "thawed"
  /\ UNCHANGED <<sink, writing, sending, freezes, ending>>

-----------------------------------------------------------------------------
(* ~QueuingLogSink, when main() has ended the threads that log *)

SetShouldDie ==
  /\ main = "running"
  /\ fs = "thawed" /\ \A l \in Loggers : logger[l] = "idle"
  /\ main' = "notify"
  /\ should_die_' = TRUE
  /\ overtaken' = (writer = "test")
  /\ UNCHANGED <<to_write_queue_, locked, writing, sending, freezing>>

NotifyWriter ==
  /\ main = "notify"
  /\ main' = "join"
  /\ writer' = Woken
  /\ UNCHANGED <<sink, message, output_file, sending, freezing, overtaken>>

JoinWriter ==
  /\ main = "join" /\ writer = "ended"
  /\ main' = "gone"
  /\ UNCHANGED <<sink, writing, sending, freezing, overtaken>>

Next ==
  \/ \E l \in Loggers : CallSend(l) \/ Push(l) \/ Notify(l)
  \/ Writer
  \/ FsFreeze \/ BeginThaw \/ FsThaw
  \/ SetShouldDie \/ NotifyWriter \/ JoinWriter

Spec == Init /\ [][Next]_vars

(* Every thread runs on when it can, the sleep of the unfreeze thread ends, *)
(* and a mutex a thread asks for again and again is not denied for ever.    *)
(* Nobody has to log, to freeze or to end the program.                      *)
FairSpec ==
  /\ Spec
  /\ \A l \in Loggers : SF_vars(Push(l)) /\ WF_vars(Notify(l))
  /\ WF_vars(Writer)
  /\ WF_vars(BeginThaw \/ FsThaw)
  /\ WF_vars(NotifyWriter \/ JoinWriter)

-----------------------------------------------------------------------------
(* Properties *)

(* No line is lost, doubled or out of order between send() and the file,    *)
(* although the queue is unlocked while each line is written.               *)
NothingLost ==
  output_file \o message \o to_write_queue_ = [n \in 1 .. pushed |-> n]

(* What is queued when the sink is destroyed is written before the file is  *)
(* closed, unless should_die_ was set after the writer had drained the      *)
(* queue and before it tested should_die_.                                  *)
LastWordsWritten ==
  writer = "ended" /\ to_write_queue_ # <<>> => overtaken

(* What the class is for: a file system that is frozen is thawed again,     *)
(* although the thread that thaws it logs first and the writer may be       *)
(* blocked on it.                                                           *)
FreezeEnds == fs = "frozen" ~> fs = "thawed"

(* A line that is queued gets to the file, however few are queued, unless   *)
(* the sink is destroyed; and the destructor returns, also when its         *)
(* notification is sent while the writer is not waiting.                    *)
WriterServes ==
  /\ \A n \in 1 .. MaxMessages :
       pushed >= n ~> (Len(output_file) >= n \/ should_die_)
  /\ should_die_ ~> main = "gone"

=============================================================================
