------------------------------- MODULE AsyncLog -------------------------------
(***************************************************************************)
(* Asynchronous logging in rtsystem: the ALOG macro of async_log_helper.h  *)
(* in any thread, the log task of log_task.c that prints what they sent,   *)
(* and the owner that stops the log task the way log_task.h asks: once     *)
(* every other task has stopped.  (RtSystem has main.c as it is written.)  *)
(*                                                                         *)
(* A message is its sender and its timestamp; every reading of the clock   *)
(* is later than the one before.  Messages go through the detailed queue.  *)
(***************************************************************************)
EXTENDS FifoQueue, FiniteSets

CONSTANTS
  Logger,       (* the thread of log_task.c                              *)
  MaxMessages,  (* bound on ALOG calls                                   *)
  PollFails     (* poll may return -1                                    *)

ASSUME LogAssumption ==
  /\ Logger \in Threads
  /\ MaxMessages \in Nat
  /\ [from : Threads, timestamp : 1 .. MaxMessages] \subseteq Items
  /\ PollFails \in BOOLEAN

VARIABLES
  g_log_running,  (* the flag of log_task.h                              *)
  lpc,            (* where log_task() is                                 *)
  owner,          (* where the owner of the log task is                  *)
  g_log_done_fd,  (* counter of the eventfd                              *)
  clock,          (* CLOCK_REALTIME                                      *)
  printed,        (* messages on stderr, first to last                   *)
  dropped,        (* messages reported as "log queue full"               *)
  warned          (* threads told that the log task is not running       *)

lvars == <<g_log_running, lpc, owner, g_log_done_fd, clock, printed, dropped, warned>>
avars == <<qvars, lvars>>

Clients == Threads \ {Logger}

AInit ==
  /\ QInit
  /\ g_log_running = TRUE
  /\ lpc = "hello"
  /\ owner = "running"
  /\ g_log_done_fd = 0
  /\ clock = 0
  /\ printed = << >>
  /\ dropped = {}
  /\ warned = {}

-----------------------------------------------------------------------------
(* ALOG: test the flag, read the clock, send.  The message is stamped      *)
(* before the queue's mutex is taken.                                      *)
ALOG(t) ==
  /\ clock < MaxMessages
  /\ clock' = clock + 1
  /\ warned' = IF g_log_running THEN warned ELSE warned \cup {t}
  /\ SendCall(t, [from |-> t, timestamp |-> clock'])

(* A call in the queue goes on.  The send that finds it full is answered   *)
(* by the line "ERR: log queue full" on stderr.                            *)
Rejected(t) == op[t] = "send_locked" /\ count >= Capacity

QueueLock(t) == Acquire(t) /\ UNCHANGED lvars

(* Faulty variant: ALOG ignores what fifo_queue_send returns. *)
QueueProceedSilent(t) == Proceed(t) /\ UNCHANGED lvars

QueueProceed(t) ==
  /\ Proceed(t)
  /\ dropped' = IF Rejected(t) THEN dropped \cup {item[t]} ELSE dropped
  /\ UNCHANGED <<g_log_running, lpc, owner, g_log_done_fd, clock, printed, warned>>

ClientLogs(t) ==
  /\ t # Logger
  /\ owner = "running"
  /\ ALOG(t)
  /\ UNCHANGED <<g_log_running, lpc, owner, g_log_done_fd, printed, dropped>>

-----------------------------------------------------------------------------
(* log_task().  A step of its own starts when its last queue call returned. *)

LoggerAt(from, to) ==
  /\ op[Logger] = "idle"
  /\ lpc = from /\ lpc' = to
  /\ UNCHANGED owner

(* A step outside the queue; what it may change is in outputs. *)
outputs == <<g_log_running, g_log_done_fd, printed>>

LoggerMoves(from, to) ==
  LoggerAt(from, to) /\ UNCHANGED <<qvars, clock, dropped, warned>>

(* LOGD.  With no timestamp left, the bound MaxMessages leaves it out. *)
LoggerLogs(from, to) ==
  /\ \/ LoggerAt(from, to) /\ ALOG(Logger) /\ UNCHANGED dropped
     \/ clock = MaxMessages /\ LoggerMoves(from, to)
  /\ UNCHANGED outputs

Hello    == LoggerLogs("hello", "loop")
Farewell == LoggerLogs("farewell", "lower")

LoopTest ==
  /\ g_log_running
  /\ LoggerMoves("loop", "poll")
  /\ UNCHANGED outputs

(* Faulty variants: leave without draining; leave the flag down. *)
LoopExitUndrained ==
  ~ g_log_running /\ LoggerMoves("loop", "finish") /\ UNCHANGED outputs
LoopExitFlagDown ==
  ~ g_log_running /\ LoggerMoves("loop", "farewell") /\ UNCHANGED outputs

(* The loop is left; the flag goes back up for the log task's own LOGD. *)
LoopExit ==
  /\ ~ g_log_running
  /\ LoggerMoves("loop", "farewell")
  /\ g_log_running' = TRUE
  /\ UNCHANGED <<g_log_done_fd, printed>>

(* poll(event_fd, POLLIN, 100): readable, timed out, or failed. *)
PollReady ==
  /\ Readable
  /\ LoggerMoves("poll", "receive")
  /\ UNCHANGED outputs

PollNothing ==
  /\ ~ Readable \/ PollFails
  /\ LoggerMoves("poll", "loop")
  /\ UNCHANGED outputs

LowerFlag ==
  /\ LoggerMoves("lower", "drain")
  /\ g_log_running' = FALSE
  /\ UNCHANGED <<g_log_done_fd, printed>>

(* fifo_queue_receive, in the loop and in the drain; then print, or stop. *)
Receive(from, to) ==
  /\ LoggerAt(from, to)
  /\ RecvCall(Logger)
  /\ UNCHANGED <<outputs, clock, dropped, warned>>

PrintMessage(from, to) ==
  /\ ret[Logger] = 0
  /\ LoggerMoves(from, to)
  /\ printed' = Append(printed, item[Logger])
  /\ UNCHANGED <<g_log_running, g_log_done_fd>>

Emptied(from, to) ==
  /\ ret[Logger] # 0
  /\ LoggerMoves(from, to)
  /\ UNCHANGED outputs

(* Faulty variant: the log task returns without a word. *)
SignalDoneForgotten == LoggerMoves("finish", "done") /\ UNCHANGED outputs

SignalDone ==
  /\ LoggerMoves("finish", "done")
  /\ g_log_done_fd' = g_log_done_fd + 1
  /\ UNCHANGED <<g_log_running, printed>>

LoggerStep ==
  \/ Hello \/ LoopTest \/ LoopExit \/ PollReady \/ PollNothing
  \/ Receive("receive", "received") \/ PrintMessage("received", "receive")
  \/ Emptied("received", "loop")
  \/ Farewell \/ LowerFlag
  \/ Receive("drain", "drained") \/ PrintMessage("drained", "drain")
  \/ Emptied("drained", "finish")
  \/ SignalDone

-----------------------------------------------------------------------------
(* The owner: log_task_stop when the clients are done, then wait and join. *)

LogTaskStop ==
  /\ owner = "running"
  /\ \A t \in Clients : op[t] = "idle"
  /\ owner' = "stopped"
  /\ g_log_running' = FALSE
  /\ UNCHANGED <<qvars, lpc, g_log_done_fd, clock, printed, dropped, warned>>

LogTaskJoin ==
  /\ owner = "stopped"
  /\ g_log_done_fd > 0
  /\ lpc = "done"
  /\ owner' = "joined"
  /\ UNCHANGED <<qvars, g_log_running, lpc, g_log_done_fd, clock, printed, dropped, warned>>

Joined == owner = "joined" /\ UNCHANGED avars

ANext ==
  \/ \E t \in Threads : ClientLogs(t) \/ QueueLock(t) \/ QueueProceed(t)
  \/ LoggerStep
  \/ LogTaskStop \/ LogTaskJoin \/ Joined

ASpec == AInit /\ [][ANext]_avars

(* Runnable threads run; poll does not fail for ever.  Nothing obliges a   *)
(* client to log, or the owner to stop.                                    *)
AFairness ==
  /\ \A t \in Threads : WF_avars(QueueProceed(t) \/ QueueLock(t))
  /\ WF_avars(LoggerStep) /\ SF_avars(PollReady)
  /\ WF_avars(LogTaskJoin)

AFairSpec == ASpec /\ AFairness

-----------------------------------------------------------------------------
Messages == [from : Threads, timestamp : 1 .. MaxMessages]

(* Values of the logging variables. *)
ATypeOK ==
  /\ QTypeOK
  /\ g_log_running \in BOOLEAN
  /\ lpc \in {"hello", "loop", "poll", "receive", "received", "farewell",
              "lower", "drain", "drained", "finish", "done"}
  /\ owner \in {"running", "stopped", "joined"}
  /\ g_log_done_fd \in {0, 1}
  /\ clock \in 0 .. MaxMessages
  /\ printed \in Seq(Messages)
  /\ dropped \subseteq Messages
  /\ warned \subseteq Threads

(* Where a message can be: with its sender until it is stored, in the      *)
(* ring, with the log task once it is taken, or on stderr.                 *)
WithSender(s) ==
  {t \in Threads : op[t] \in {"send_lock", "send_locked"} /\ item[t].timestamp = s}

InRing(s) == {i \in 1 .. count : Contents[i].timestamp = s}

InPrinter(s) ==
  {t \in {Logger} :
     /\ \/ op[t] \in {"recv_signal", "recv_unlock"}
        \/ op[t] = "idle" /\ lpc \in {"received", "drained"} /\ ret[t] = 0
     /\ item[t].timestamp = s}

Printed(s) == {i \in DOMAIN printed : printed[i].timestamp = s}
Dropped(s) == {m \in dropped : m.timestamp = s}

(* No message is lost on the way and none is printed twice: each one that  *)
(* ALOG stamped is in one of these places, and in one only.                *)
EveryMessageInOnePlace ==
  \A s \in 1 .. clock :
    Cardinality(WithSender(s)) + Cardinality(InRing(s)) + Cardinality(InPrinter(s))
      + Cardinality(Printed(s)) + Cardinality(Dropped(s)) = 1

(* The final drain is complete: once the log task has signalled that it is *)
(* done, everything that was sent has been printed or reported as dropped. *)
DrainComplete ==
  lpc = "done" =>
    \A s \in 1 .. clock : Printed(s) \cup Dropped(s) # {}

(* The lines of one thread come out in the order it wrote them. *)
SenderOrder ==
  \A i, j \in DOMAIN printed :
    i < j /\ printed[i].from = printed[j].from
      => printed[i].timestamp < printed[j].timestamp

(* Once the log task is told to stop, it stays told: the flag is down only *)
(* after the owner's store, and while the log task has it up for its own   *)
(* last line there is no other store to come.                              *)
FlagsAgree ==
  /\ ~ g_log_running => owner # "running"
  /\ lpc \in {"farewell", "lower"} => g_log_running /\ owner # "running"

(* The log task's own last line is never answered by the warning           *)
(* "attempting to log while log_task not running": it raises the flag      *)
(* around that line, and the owner's store of 0 cannot fall in between.    *)
FarewellNotWarned ==
  [][lpc = "farewell" /\ lpc' = "lower" => warned' = warned]_avars

(* The log of async_log_helper.h line 3: "timestamped logs that gets       *)
(* printed in chronological order".                                        *)
Chronological ==
  \A i, j \in DOMAIN printed : i < j => printed[i].timestamp < printed[j].timestamp

(* log_task_stop is never missed, whatever the log task is doing and       *)
(* although it raises the flag again: the owner's wait ends.               *)
StopIsAnswered == owner = "stopped" ~> owner = "joined"

(* Every message is printed or reported in the end, whether or not the     *)
(* log task is ever stopped: no wakeup of its poll is lost.                *)
EventuallyOut ==
  \A s \in 1 .. MaxMessages :
    clock >= s ~> Printed(s) \cup Dropped(s) # {}

==============================================================================
