------------------------------ MODULE LogQueue ------------------------------
(***************************************************************************)
(* Logger (libhesai/Logger): threads append messages to queue_ under       *)
(* mutex_ and notify cv_; threadfunc writes them to the file; ~Lidar stops *)
(* it through exit_, which no lock protects.                               *)
(*                                                                         *)
(* A message is a number.  Those of the callers that the level, the target *)
(* or a callback keeps out of the file touch nothing and are left out.     *)
(***************************************************************************)
EXTENDS Integers, Sequences

CONSTANTS Callers,     \* threads that log
          MaxMessages, \* bound: messages logged
          MaxStarts    \* bound: Start and Stop, by one Lidar after another

ASSUME LogQueueAssumption == MaxMessages \in Nat /\ MaxStarts \in Nat /\ "app" \notin Callers

VARIABLES queue_, exit_, running_, mutex_,
          caller,   \* of every caller: "idle" or "notify"
          app,      \* who calls Start and Stop: "off", "on" or a point inside
          writer,   \* where threadfunc is
          messages, \* how many have been logged
          written,  \* the file
          starts

logVars == <<queue_, exit_, running_, mutex_, caller, app, writer, messages, written, starts>>

Free == mutex_ = "free"
Wakes == writer' = IF writer = "asleep" THEN "awake" ELSE writer

-----------------------------------------------------------------------------
(* AddToQueue *)

\* Mutant: emplace_back without the lock.
MayPushAlways == TRUE
MayPush == Free

Push == MayPush /\ messages < MaxMessages
        /\ queue_' = Append(queue_, messages + 1) /\ messages' = messages + 1

AddToQueue(c) ==
  /\ caller[c] = "idle" /\ Push
  /\ caller' = [caller EXCEPT ![c] = "notify"]
  /\ UNCHANGED <<exit_, running_, mutex_, app, writer, written, starts>>

\* Mutant: nobody is told.
NotifySilent(c) ==
  /\ caller[c] = "notify" /\ caller' = [caller EXCEPT ![c] = "idle"]
  /\ UNCHANGED <<queue_, exit_, running_, mutex_, app, writer, messages, written, starts>>

Notify(c) ==
  /\ caller[c] = "notify" /\ caller' = [caller EXCEPT ![c] = "idle"]
  /\ Wakes
  /\ UNCHANGED <<queue_, exit_, running_, mutex_, app, messages, written, starts>>

-----------------------------------------------------------------------------
(* threadfunc *)

Thread(from, to) == writer = from /\ writer' = to

TestExit ==
  /\ Thread("loop", IF exit_ THEN "gone" ELSE "lock")
  /\ UNCHANGED <<queue_, exit_, running_, mutex_, caller, app, messages, written, starts>>

\* Also the end of cv_.wait.
TakeLock ==
  /\ \/ Thread("lock", "head")
     \/ Thread("awake", "head")
  /\ Free /\ mutex_' = "writer"
  /\ UNCHANGED <<queue_, exit_, running_, caller, app, messages, written, starts>>

\* With the lock held: an empty queue means to return or, exit_ tested, to
\* wait; the wait itself, which releases the lock, is a step of its own.
QueueEmpty ==
  /\ queue_ = <<>>
  /\ IF exit_ THEN Thread("head", "gone") /\ mutex_' = "free"
              ELSE Thread("head", "tested") /\ UNCHANGED mutex_
  /\ UNCHANGED <<queue_, exit_, running_, caller, app, messages, written, starts>>

Sleep ==
  /\ Thread("tested", "asleep") /\ mutex_' = "free"
  /\ UNCHANGED <<queue_, exit_, running_, caller, app, messages, written, starts>>

Spurious ==
  /\ Thread("asleep", "awake")
  /\ UNCHANGED <<queue_, exit_, running_, mutex_, caller, app, messages, written, starts>>

Write ==
  /\ queue_ # <<>> /\ Thread("head", "loop")
  /\ written' = Append(written, Head(queue_)) /\ queue_' = Tail(queue_)
  /\ mutex_' = "free"
  /\ UNCHANGED <<exit_, running_, caller, app, messages, starts>>

-----------------------------------------------------------------------------
(* Start and Stop; exit_ stays set, so a second Start starts a thread that  *)
(* ends at once.                                                           *)

Start ==
  /\ app = "off" /\ starts < MaxStarts
  /\ starts' = starts + 1
  /\ \/ app' = "off" /\ UNCHANGED <<writer, written>>          \* fopen fails
     \/ app' = "starting" /\ writer' = "loop" /\ written' = <<>>
  /\ UNCHANGED <<queue_, exit_, running_, mutex_, caller, messages>>

\* LogInfo("logger start to run") by the thread that calls Start, which the
\* level, the target or a callback may keep out of the queue.
StartLogs ==
  /\ app = "starting"
  /\ \/ Push /\ app' = "started" /\ UNCHANGED running_
     \/ running_' = TRUE /\ app' = "on" /\ UNCHANGED <<queue_, messages>>
  /\ UNCHANGED <<exit_, mutex_, caller, writer, written, starts>>

StartReturns ==
  /\ app = "started" /\ Wakes /\ running_' = TRUE /\ app' = "on"
  /\ UNCHANGED <<queue_, exit_, mutex_, caller, messages, written, starts>>

Stop ==
  /\ app = "on" /\ running_ /\ exit_' = TRUE /\ app' = "stopping"
  /\ UNCHANGED <<queue_, running_, mutex_, caller, writer, messages, written, starts>>

StopNotify ==
  /\ app = "stopping" /\ Wakes /\ app' = "joining"
  /\ UNCHANGED <<queue_, exit_, running_, mutex_, caller, messages, written, starts>>

StopJoin ==
  /\ app = "joining" /\ writer = "gone" /\ running_' = FALSE /\ app' = "off"
  /\ UNCHANGED <<queue_, exit_, mutex_, caller, writer, messages, written, starts>>

-----------------------------------------------------------------------------

LogInit ==
  /\ queue_ = <<>> /\ written = <<>> /\ messages = 0 /\ starts = 0
  /\ exit_ = FALSE /\ running_ = FALSE /\ mutex_ = "free"
  /\ caller = [c \in Callers |-> "idle"] /\ app = "off" /\ writer = "gone"

Threadfunc == TestExit \/ TakeLock \/ QueueEmpty \/ Sleep \/ Write

LogNext ==
  \/ \E c \in Callers : AddToQueue(c) \/ Notify(c)
  \/ Threadfunc \/ Spurious
  \/ Start \/ StartLogs \/ StartReturns \/ Stop \/ StopNotify \/ StopJoin

\* Threads run; nobody has to log, start or stop, and no wake-up is spurious
\* for certain.
LogFairness ==
  /\ \A c \in Callers : WF_logVars(Notify(c))
  /\ WF_logVars(Threadfunc)
  /\ WF_logVars(StartReturns) /\ WF_logVars(StopNotify) /\ WF_logVars(StopJoin)

-----------------------------------------------------------------------------
(* Properties *)

\* cv_ is notified while threadfunc has made up its mind to wait and does
\* not wait yet, and it will sleep although it should not.
Missed == writer = "tested" /\ writer' = "tested"
          /\ (exit_ \/ queue_ # <<>>)
          /\ (app # app' \/ caller # caller')

\* Only the notification of Stop, which sets exit_ without the lock, can be
\* missed; one for a message cannot.
OnlyStopMisses == [][Missed => exit_ /\ queue_ = <<>>]_logVars

\* While the logger runs every message gets into the file.
MessagesWritten ==
  \A m \in 1..MaxMessages :
    (\E i \in DOMAIN queue_ : queue_[i] = m) /\ app = "on"
      ~> (\E i \in DOMAIN written : written[i] = m) \/ exit_
=============================================================================
