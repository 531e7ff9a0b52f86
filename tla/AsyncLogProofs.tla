---------------------------- MODULE AsyncLogProofs ----------------------------
(***************************************************************************)
(* ALOG and log_task() use the log queue as FifoQueue describes; the flag  *)
(* that log_task() takes down and up again is never seen in between by the *)
(* line it is meant for; and of the messages: none is lost or doubled, a   *)
(* thread's lines come out in the order of its calls, and those that were  *)
(* in the ring are printed before log_task() ends.                         *)
(***************************************************************************)
EXTENDS AsyncLog, FifoQueueProofs, FiniteSetTheorems

(* The clock is read at most MaxMessages times. *)
ClockInv == clock \in 0 .. MaxMessages

(* An ALOG is the call of a send, of a message the queue can hold. *)
LEMMA ALOGStep ==
  ASSUME ClockInv, NEW t \in Threads, ALOG(t)
  PROVE  QNext /\ ClockInv'
<1>1. clock' = clock + 1 /\ clock' \in 1 .. MaxMessages
  BY LogAssumption DEF ALOG, ClockInv
<1>2. [from |-> t, timestamp |-> clock'] \in Items
  BY <1>1, LogAssumption
<1>3. QNext
  BY <1>2 DEF ALOG, QNext, Call
<1> QED BY <1>1, <1>3, LogAssumption DEF ClockInv

(* A step of log_task() is a step of the queue, or none. *)
LEMMA LoggerKeepsQueue ==
  ASSUME ClockInv, LoggerStep
  PROVE  [QNext]_qvars /\ ClockInv'
<1> Logger \in Threads
  BY LogAssumption
<1>1. CASE Hello \/ Farewell
  BY <1>1, ALOGStep DEF Hello, Farewell, LoggerLogs, LoggerMoves, ClockInv
<1>2. CASE Receive("receive", "received") \/ Receive("drain", "drained")
  BY <1>2 DEF Receive, QNext, Call, ClockInv
<1>3. CASE LoggerStep /\ ~ Hello /\ ~ Farewell
           /\ ~ Receive("receive", "received") /\ ~ Receive("drain", "drained")
  BY <1>3
  DEF LoggerStep, LoopTest, LoopExit, PollReady, PollNothing, PrintMessage, Emptied,
      LowerFlag, SignalDone, LoggerMoves, ClockInv
<1> QED BY <1>1, <1>2, <1>3

(* A step of the logging is a step of the queue, or none. *)
LEMMA QueueStep ==
  ASSUME ClockInv, [ANext]_avars
  PROVE  [QNext]_qvars /\ ClockInv'
<1>1. CASE \E t \in Threads : ClientLogs(t)
  BY <1>1, ALOGStep DEF ClientLogs
<1>2. CASE \E t \in Threads : QueueLock(t) \/ QueueProceed(t)
  BY <1>2 DEF QueueLock, QueueProceed, QNext, QStep, lvars, ClockInv
<1>3. CASE LogTaskStop \/ LogTaskJoin \/ Joined \/ UNCHANGED avars
  BY <1>3 DEF LogTaskStop, LogTaskJoin, Joined, avars, lvars, ClockInv
<1> QED BY <1>1, <1>2, <1>3, LoggerKeepsQueue DEF ANext

(* Every run of the logging is one of fifo_queue.c: what is proved of the  *)
(* queue holds under ALOG and log_task().                                  *)
THEOREM UsesQueue == ASpec => QSpec
<1>1. AInit => QInit /\ ClockInv
  BY LogAssumption DEF AInit, ClockInv
<1>2. ClockInv /\ [ANext]_avars => [QNext]_qvars /\ ClockInv'
  BY QueueStep
<1> QED BY <1>1, <1>2, PTL DEF ASpec, QSpec

-----------------------------------------------------------------------------
(* Every step keeps the flag, the owner and the log task in agreement. *)
LEMMA FlagsStep ==
  ASSUME FlagsAgree, [ANext]_avars
  PROVE  FlagsAgree'
<1> USE DEF FlagsAgree
<1>1. CASE \E t \in Threads : ClientLogs(t) \/ QueueLock(t) \/ QueueProceed(t)
  BY <1>1 DEF ClientLogs, QueueLock, QueueProceed, lvars
<1>2. CASE LoggerStep
  <2> USE DEF LoggerMoves, LoggerAt, outputs
  <2>1. CASE Hello \/ Farewell
    BY <2>1 DEF Hello, Farewell, LoggerLogs
  <2>2. CASE LoopTest \/ PollReady \/ PollNothing \/ SignalDone
    BY <2>2 DEF LoopTest, PollReady, PollNothing, SignalDone
  <2>3. CASE LoopExit
    BY <2>3 DEF LoopExit
  <2>4. CASE LowerFlag
    BY <2>4 DEF LowerFlag
  <2>5. CASE Receive("receive", "received") \/ Receive("drain", "drained")
    BY <2>5 DEF Receive
  <2>6. CASE PrintMessage("received", "receive") \/ PrintMessage("drained", "drain")
    BY <2>6 DEF PrintMessage
  <2>7. CASE Emptied("received", "loop") \/ Emptied("drained", "finish")
    BY <2>7 DEF Emptied
  <2> QED BY <1>2, <2>1, <2>2, <2>3, <2>4, <2>5, <2>6, <2>7 DEF LoggerStep
<1>3. CASE LogTaskStop
  BY <1>3 DEF LogTaskStop
<1>4. CASE LogTaskJoin
  BY <1>4 DEF LogTaskJoin
<1>5. CASE Joined \/ UNCHANGED avars
  BY <1>5 DEF Joined, avars, lvars
<1> QED BY <1>1, <1>2, <1>3, <1>4, <1>5 DEF ANext

THEOREM FlagsInvariance == ASpec => []FlagsAgree
<1>1. AInit => FlagsAgree
  BY DEF AInit, FlagsAgree
<1>2. FlagsAgree /\ [ANext]_avars => FlagsAgree'
  BY FlagsStep
<1> QED BY <1>1, <1>2, PTL DEF ASpec

(* The log task's own last line is never answered by the warning that the  *)
(* log task is not running, whenever it is stopped.                        *)
THEOREM FarewellUnwarned == ASpec => FarewellNotWarned
<1>1. FlagsAgree /\ [ANext]_avars =>
        [lpc = "farewell" /\ lpc' = "lower" => warned' = warned]_avars
  <2> SUFFICES ASSUME FlagsAgree, ANext, lpc = "farewell", lpc' = "lower"
               PROVE  warned' = warned
    OBVIOUS
  <2>1. g_log_running
    BY DEF FlagsAgree
  <2>2. CASE \E t \in Threads : ClientLogs(t) \/ QueueLock(t) \/ QueueProceed(t)
    BY <2>2 DEF ClientLogs, QueueLock, QueueProceed, lvars, ALOG
  <2>3. CASE LoggerStep
    BY <2>1, <2>3
    DEF LoggerStep, Hello, Farewell, LoggerLogs, ALOG, LoopTest, LoopExit, PollReady,
        PollNothing, Receive, PrintMessage, Emptied, LowerFlag, SignalDone, LoggerMoves, LoggerAt
  <2>4. CASE LogTaskStop \/ LogTaskJoin \/ Joined
    BY <2>4 DEF LogTaskStop, LogTaskJoin, Joined, avars, lvars
  <2> QED BY <2>2, <2>3, <2>4 DEF ANext
<1> QED BY <1>1, FlagsInvariance, PTL DEF ASpec, FarewellNotWarned

-----------------------------------------------------------------------------
(* Types, and where the log task is while it is inside the queue. *)

ControlTyped ==
  /\ g_log_running \in BOOLEAN
  /\ lpc \in {"hello", "loop", "poll", "receive", "received", "farewell",
              "lower", "drain", "drained", "finish", "done"}
  /\ owner \in {"running", "stopped", "joined"}
  /\ g_log_done_fd = IF lpc = "done" THEN 1 ELSE 0
  /\ clock \in 0 .. MaxMessages
  /\ warned \subseteq Threads

LoggerInQueue ==
  /\ \A t \in Threads \ {Logger} : op[t] \notin RecvOps
  /\ op[Logger] \in SendOps => lpc \in {"loop", "lower"}
  /\ op[Logger] \in RecvOps => lpc \in {"received", "drained"}

(* Calls that the clients and the owner have still to make. *)
Stopping ==
  /\ lpc \in {"farewell", "lower", "drain", "drained", "finish", "done"} => owner # "running"
  /\ owner # "running" => \A t \in Threads \ {Logger} : op[t] = "idle"

Control == ControlTyped /\ LoggerInQueue /\ Stopping

LEMMA ControlStep ==
  ASSUME QTypeOK, FlagsAgree, Control, [ANext]_avars
  PROVE  Control'
<1>. USE LogAssumption
     DEF Control, ControlTyped, LoggerInQueue, Stopping, SendOps, RecvOps, Goto, QTypeOK
<1>1. CASE \E t \in Threads : ClientLogs(t)
  BY <1>1 DEF ClientLogs, ALOG, SendCall
<1>2. CASE \E t \in Threads : QueueLock(t)
  BY <1>2 DEF QueueLock, Acquire, SendLock, RecvLock, lvars
<1>3. CASE \E t \in Threads : QueueProceed(t)
  BY <1>3
  DEF QueueProceed, Proceed, SendFull, SendStore, SendSignal, SendUnlock, RecvEmpty, RecvTake,
      RecvSignal, RecvUnlock
<1>4. CASE Hello \/ Farewell
  BY <1>4 DEF Hello, Farewell, LoggerLogs, LoggerMoves, LoggerAt, ALOG, SendCall, outputs, qvars
<1>5. CASE Receive("receive", "received") \/ Receive("drain", "drained")
  BY <1>5 DEF Receive, LoggerAt, RecvCall, outputs
<1>6. CASE LoopTest \/ LoopExit \/ PollReady \/ PollNothing
  BY <1>6, FlagsStep
  DEF LoopTest, LoopExit, PollReady, PollNothing, LoggerMoves, LoggerAt, outputs, qvars, FlagsAgree
<1>7. CASE \/ PrintMessage("received", "receive") \/ PrintMessage("drained", "drain")
           \/ Emptied("received", "loop") \/ Emptied("drained", "finish")
  BY <1>7 DEF PrintMessage, Emptied, LoggerMoves, LoggerAt, outputs, qvars
<1>8. CASE LowerFlag
  BY <1>8 DEF LowerFlag, LoggerMoves, LoggerAt, qvars
<1>9. CASE SignalDone
  <2>1. g_log_done_fd' = 1 /\ lpc' = "done"
    BY <1>9 DEF SignalDone, LoggerMoves, LoggerAt
  <2>. QED
    BY <1>9, <2>1 DEF SignalDone, LoggerMoves, LoggerAt, qvars
<1>10. CASE LogTaskStop \/ LogTaskJoin \/ Joined \/ UNCHANGED avars
  BY <1>10 DEF LogTaskStop, LogTaskJoin, Joined, avars, lvars, qvars, Clients
<1>. QED
  BY <1>1, <1>2, <1>3, <1>4, <1>5, <1>6, <1>7, <1>8, <1>9, <1>10
  DEF ANext, LoggerStep

-----------------------------------------------------------------------------
(* The messages on their way to stderr, one behind the other: printed, in  *)
(* the log task's hand, in the ring.                                       *)

InHand ==
  \/ op[Logger] \in {"recv_signal", "recv_unlock"}
  \/ op[Logger] = "idle" /\ lpc \in {"received", "drained"} /\ ret[Logger] = 0

Hand == IF InHand THEN << item[Logger] >> ELSE << >>

Stream == printed \o (Hand \o Contents)

(* Senders that have not stored their message. *)
Sending == {t \in Threads : op[t] \in {"send_lock", "send_locked"}}

(* What can be on its way: messages that were stamped, and by their senders. *)
Stamped == [from : Threads, timestamp : 1 .. clock]

MessagesOnly ==
  /\ printed \in Seq(Stamped)
  /\ InHand => item[Logger] \in Stamped
  /\ Contents \in Seq(Stamped)
  /\ \A t \in Sending : item[t] \in Stamped /\ item[t].from = t
  /\ dropped \subseteq Stamped

Queued == QTypeOK /\ QInv /\ Control

(* The kinds of step, as far as messages are concerned. *)
Same == UNCHANGED <<printed, Contents, Hand, dropped, clock>>

Moves == Same /\ Sending' = Sending /\ (\A t \in Sending : item'[t] = item[t])

Stamps(t) ==
  /\ UNCHANGED <<printed, Contents, Hand, dropped>>
  /\ clock < MaxMessages /\ clock' = clock + 1
  /\ t \notin Sending /\ Sending' = Sending \cup {t}
  /\ item' = [item EXCEPT ![t] = [from |-> t, timestamp |-> clock + 1]]

Stores(t) ==
  /\ UNCHANGED <<printed, Hand, dropped, clock, item>>
  /\ t \in Sending /\ Sending' = Sending \ {t}
  /\ Contents' = Append(Contents, item[t])

Drops(t) ==
  /\ UNCHANGED <<printed, Contents, Hand, clock, item>>
  /\ t \in Sending /\ Sending' = Sending \ {t}
  /\ dropped' = dropped \cup {item[t]}

Takes ==
  /\ UNCHANGED <<printed, dropped, clock, Sending>>
  /\ \A t \in Sending : item'[t] = item[t]
  /\ Contents # << >>
  /\ Hand = << >> /\ Hand' = << Head(Contents) >>
  /\ Contents' = Tail(Contents)

Prints ==
  /\ UNCHANGED <<Contents, dropped, clock, Sending, item>>
  /\ InHand /\ Hand' = << >>
  /\ printed' = Append(printed, item[Logger])

LEMMA ALOGKind ==
  ASSUME Queued, NEW t \in Threads, ALOG(t), UNCHANGED <<printed, dropped>>,
         t = Logger => lpc \notin {"received", "drained"} /\ lpc' \notin {"received", "drained"},
         t # Logger => lpc' = lpc
  PROVE  Stamps(t)
<1>. USE DEF ALOG, SendCall, Goto, Queued, QTypeOK
<1>1. Contents' = Contents
  BY RingKept
<1>2. InHand' <=> InHand
  BY LogAssumption DEF InHand
<1>3. Hand' = Hand
  BY <1>2, LogAssumption DEF Hand, InHand
<1>4. t \notin Sending /\ Sending' = Sending \cup {t}
  BY DEF Sending
<1>. QED
  BY <1>1, <1>3, <1>4 DEF Stamps

LEMMA QueueKind ==
  ASSUME Queued, NEW t \in Threads, QueueLock(t) \/ QueueProceed(t)
  PROVE  Moves \/ Stores(t) \/ Drops(t) \/ Takes
<1>. USE LogAssumption
     DEF Queued, QTypeOK, Control, ControlTyped, LoggerInQueue, Goto, SendOps, RecvOps
<1>1. CASE QueueLock(t)
  BY <1>1, RingKept
  DEF QueueLock, Acquire, SendLock, RecvLock, lvars, Moves, Same, Sending, Hand, InHand
<1>2. CASE QueueProceed(t) /\ SendFull(t)
  BY <1>2, RingKept DEF QueueProceed, SendFull, Rejected, Drops, Sending, Hand, InHand, ReturnValue
<1>3. CASE QueueProceed(t) /\ SendStore(t)
  <2>1. Contents' = Append(Contents, item[t])
    BY <1>3, StoreAppends
  <2>2. Hand' = Hand
    BY <1>3 DEF QueueProceed, SendStore, Hand, InHand
  <2>3. t \in Sending /\ Sending' = Sending \ {t}
    BY <1>3 DEF SendStore, Sending
  <2>4. ~ Rejected(t)
    BY <1>3, FifoAssumption DEF SendStore, Rejected
  <2>5. UNCHANGED <<printed, dropped, clock, item>>
    BY <1>3, <2>4 DEF QueueProceed, SendStore
  <2>. QED
    BY <2>1, <2>2, <2>3, <2>5 DEF Stores
<1>4. CASE QueueProceed(t) /\ RecvTake(t)
  <2>1. t = Logger
    BY <1>4 DEF RecvTake
  <2>2. Contents # << >> /\ buffer[tail] = Head(Contents) /\ Contents' = Tail(Contents)
    BY <1>4, TakeDelivers
  <2>3. Hand = << >> /\ Hand' = << buffer[tail] >>
    BY <1>4, <2>1 DEF RecvTake, Hand, InHand
  <2>4. Sending' = Sending /\ \A u \in Sending : item'[u] = item[u]
    BY <1>4 DEF RecvTake, Sending
  <2>. QED
    BY <1>4, <2>2, <2>3, <2>4 DEF QueueProceed, Rejected, RecvTake, Takes
<1>5. CASE QueueProceed(t) /\ (SendSignal(t) \/ SendUnlock(t))
  BY <1>5, RingKept
  DEF QueueProceed, Rejected, SendSignal, SendUnlock, Moves, Same, Sending, Hand, InHand, ReturnValue
<1>6. CASE QueueProceed(t) /\ (RecvEmpty(t) \/ RecvSignal(t) \/ RecvUnlock(t))
  BY <1>6, RingKept
  DEF QueueProceed, Rejected, RecvEmpty, RecvSignal, RecvUnlock, Moves, Same, Sending, Hand,
      InHand, ReturnValue
<1>. QED
  BY <1>1, <1>2, <1>3, <1>4, <1>5, <1>6 DEF QueueProceed, Proceed

(* Outside the queue, the log task has a message in hand or not. *)
LEMMA LoggerKind ==
  ASSUME Queued, LoggerStep
  PROVE  Moves \/ Stamps(Logger) \/ Prints
<1>. USE LogAssumption DEF Queued, QTypeOK, Control, ControlTyped, SendOps, RecvOps
<1>1. CASE Hello \/ Farewell
  BY <1>1, ALOGKind, RingKept
  DEF Hello, Farewell, LoggerLogs, LoggerMoves, LoggerAt, outputs, qvars, ring, Moves, Same, Sending, Hand, InHand
<1>2. CASE Receive("receive", "received") \/ Receive("drain", "drained")
  BY <1>2, RingKept
  DEF Receive, LoggerAt, RecvCall, Goto, outputs, Moves, Same, Sending, Hand, InHand
<1>3. CASE LoopTest \/ LoopExit \/ PollReady \/ PollNothing \/ LowerFlag \/ SignalDone
  BY <1>3, RingKept
  DEF LoopTest, LoopExit, PollReady, PollNothing, LowerFlag, SignalDone, LoggerMoves, LoggerAt,
      outputs, qvars, ring, Moves, Same, Sending, Hand, InHand
<1>4. CASE PrintMessage("received", "receive") \/ PrintMessage("drained", "drain")
  BY <1>4, RingKept DEF PrintMessage, LoggerMoves, LoggerAt, qvars, ring, Prints, Sending, Hand, InHand
<1>5. CASE Emptied("received", "loop") \/ Emptied("drained", "finish")
  BY <1>5, RingKept
  DEF Emptied, LoggerMoves, LoggerAt, outputs, qvars, ring, Moves, Same, Sending, Hand, InHand
<1>. QED
  BY <1>1, <1>2, <1>3, <1>4, <1>5 DEF LoggerStep

(* Every step is of one of these kinds. *)
LEMMA MessageKind ==
  ASSUME Queued, [ANext]_avars
  PROVE  Moves \/ Takes \/ Prints \/ \E t \in Threads : Stamps(t) \/ Stores(t) \/ Drops(t)
<1>1. CASE \E t \in Threads : ClientLogs(t)
  BY <1>1, ALOGKind DEF ClientLogs
<1>2. CASE \E t \in Threads : QueueLock(t) \/ QueueProceed(t)
  BY <1>2, QueueKind
<1>3. CASE LoggerStep
  BY <1>3, LoggerKind, LogAssumption
<1>4. CASE LogTaskStop \/ LogTaskJoin \/ Joined \/ UNCHANGED avars
  BY <1>4, RingKept
  DEF LogTaskStop, LogTaskJoin, Joined, avars, lvars, qvars, ring, Moves, Same, Sending, Hand, InHand
<1>. QED
  BY <1>1, <1>2, <1>3, <1>4 DEF ANext

-----------------------------------------------------------------------------
(* A stored message comes to the end of the stream, and is behind it once  *)
(* it is printed: taking and printing leave the stream as it is.           *)

LEMMA MessagesStep ==
  ASSUME Queued, MessagesOnly, [ANext]_avars
  PROVE  MessagesOnly'
<1>1. Hand = << >> <=> ~ InHand
  BY DEF Hand
<1>2. InHand => Hand = << item[Logger] >>
  BY DEF Hand
<1>3. ASSUME InHand' => \E m \in Stamped' : Hand' = << m >> PROVE InHand' => item'[Logger] \in Stamped'
  BY <1>3 DEF Hand
<1>4. ASSUME Hand' = Hand, Stamped \subseteq Stamped' PROVE InHand' => item'[Logger] \in Stamped'
  BY <1>1, <1>2, <1>3, <1>4 DEF MessagesOnly, Hand
<1>5. CASE Moves
  <2>1. Stamped' = Stamped
    BY <1>5 DEF Moves, Same, Stamped
  <2>. QED
    BY <1>4, <1>5, <2>1 DEF Moves, Same, MessagesOnly
<1>6. ASSUME NEW t \in Threads, Stamps(t) PROVE MessagesOnly'
  <2>1. Stamped \subseteq Stamped' /\ [from |-> t, timestamp |-> clock + 1] \in Stamped'
    BY <1>6 DEF Stamps, Stamped, Queued, Control, ControlTyped
  <2>2. printed \in Seq(Stamped') /\ Contents \in Seq(Stamped')
    BY <2>1, SeqMonotonic DEF MessagesOnly
  <2>3. \A u \in Sending' : item'[u] \in Stamped' /\ item'[u].from = u
    BY <1>6, <2>1 DEF Stamps, MessagesOnly, Queued, QTypeOK, Sending
  <2>. QED
    BY <1>4, <1>6, <2>1, <2>2, <2>3 DEF Stamps, MessagesOnly
<1>7. ASSUME NEW t \in Threads, Stores(t) \/ Drops(t) PROVE MessagesOnly'
  <2>1. Stamped' = Stamped /\ item[t] \in Stamped
    BY <1>7 DEF Stores, Drops, Stamped, MessagesOnly
  <2>2. \A u \in Sending' : item'[u] \in Stamped' /\ item'[u].from = u
    BY <1>7, <2>1 DEF Stores, Drops, MessagesOnly
  <2>3. Contents' \in Seq(Stamped') /\ dropped' \subseteq Stamped'
    <3>1. CASE Stores(t)
      BY <2>1, <3>1, AppendProperties DEF Stores, MessagesOnly
    <3>2. CASE Drops(t)
      BY <2>1, <3>2 DEF Drops, MessagesOnly
    <3>. QED
      BY <1>7, <3>1, <3>2
  <2>4. printed' \in Seq(Stamped') /\ Hand' = Hand
    BY <1>7, <2>1 DEF Stores, Drops, MessagesOnly
  <2>. QED
    BY <1>4, <2>1, <2>2, <2>3, <2>4 DEF MessagesOnly
<1>8. CASE Takes
  <2>1. Stamped' = Stamped /\ Head(Contents) \in Stamped /\ Tail(Contents) \in Seq(Stamped)
    BY <1>8, HeadTailProperties DEF Takes, Stamped, MessagesOnly
  <2>. QED
    BY <1>3, <1>8, <2>1 DEF Takes, MessagesOnly
<1>9. CASE Prints
  <2>1. Stamped' = Stamped /\ ~ InHand'
    BY <1>9 DEF Prints, Stamped, Hand
  <2>. QED
    BY <1>9, <2>1, AppendProperties DEF Prints, MessagesOnly
<1>. QED
  BY <1>5, <1>6, <1>7, <1>8, <1>9, MessageKind

LEMMA StreamSeq == MessagesOnly => Hand \in Seq(Stamped) /\ Stream \in Seq(Stamped)
  BY ConcatProperties DEF MessagesOnly, Hand, Stream

LEMMA StreamStamped ==
  ASSUME MessagesOnly, NEW i \in DOMAIN Stream
  PROVE  Stream[i] \in Stamped
<1>1. Stream \in Seq(Stamped)
  BY StreamSeq
<1>. QED
  BY <1>1, ElementOfSeq

LEMMA StreamKept ==
  ASSUME Queued, MessagesOnly, Moves \/ Takes \/ Prints
  PROVE  Stream' = Stream
<1>. USE DEF MessagesOnly
<1>1. CASE Moves
  BY <1>1 DEF Moves, Same, Stream
<1>2. CASE Takes
  <2>1. Contents = << Head(Contents) >> \o Tail(Contents)
    BY <1>2, HeadTailProperties DEF Takes
  <2>2. << >> \o Contents = Contents
    BY ConcatEmptySeq
  <2>. QED
    BY <1>2, <2>1, <2>2 DEF Takes, Stream
<1>3. CASE Prints
  <2>1. Hand = << item[Logger] >> /\ item[Logger] \in Stamped
    BY <1>3 DEF Prints, Hand
  <2>2. Append(printed, item[Logger]) = printed \o << item[Logger] >>
    BY <2>1
  <2>3. (printed \o << item[Logger] >>) \o Contents = printed \o (<< item[Logger] >> \o Contents)
    BY <2>1, ConcatAssociative
  <2>4. << >> \o Contents = Contents
    BY ConcatEmptySeq
  <2>. QED
    BY <1>3, <2>1, <2>2, <2>3, <2>4 DEF Prints, Stream
<1>. QED
  BY <1>1, <1>2, <1>3

LEMMA StreamGrows ==
  ASSUME Queued, MessagesOnly, NEW t \in Threads, Stores(t)
  PROVE  Stream' = Append(Stream, item[t])
<1>. DEFINE m == item[t]
<1>1. m \in Stamped /\ Hand \in Seq(Stamped)
  BY StreamSeq DEF Stores, MessagesOnly
<1>. HIDE DEF m
<1>2. << m >> \in Seq(Stamped)
  BY <1>1
<1>3. Append(Contents, m) = Contents \o << m >> /\ Contents \in Seq(Stamped)
  BY <1>1 DEF MessagesOnly
<1>4. Hand \o (Contents \o << m >>) = (Hand \o Contents) \o << m >> /\ Hand \o Contents \in Seq(Stamped)
  BY <1>1, <1>2, <1>3, ConcatAssociative, ConcatProperties
<1>5. printed \o ((Hand \o Contents) \o << m >>) = Stream \o << m >>
  BY <1>1, <1>2, <1>4, ConcatAssociative DEF Stream, MessagesOnly
<1>6. Stream \o << m >> = Append(Stream, m)
  BY <1>1, StreamSeq DEF MessagesOnly
<1>. QED
  BY <1>3, <1>4, <1>5, <1>6 DEF Stores, Stream, m

-----------------------------------------------------------------------------
(* Order, per sender: in the stream, and of what is still to be stored     *)
(* behind all of it.                                                       *)
InOrder ==
  /\ \A i, j \in DOMAIN Stream :
       i < j /\ Stream[i].from = Stream[j].from => Stream[i].timestamp < Stream[j].timestamp
  /\ \A t \in Sending : \A i \in DOMAIN Stream :
       Stream[i].from = t => Stream[i].timestamp < item[t].timestamp

LEMMA OrderStep ==
  ASSUME Queued, MessagesOnly, InOrder, [ANext]_avars
  PROVE  InOrder'
<1>. Stream \in Seq(Stamped) /\ DOMAIN Stream = 1 .. Len(Stream)
  BY StreamSeq
<1>1. CASE Moves \/ Takes \/ Prints
  BY <1>1, StreamKept DEF Moves, Takes, Prints, InOrder
<1>2. ASSUME NEW t \in Threads, Stamps(t) PROVE InOrder'
  <2>1. Stream' = Stream
    BY <1>2 DEF Stamps, Stream
  <2>2. \A i \in DOMAIN Stream : Stream[i].timestamp < clock + 1
    BY StreamStamped DEF Stamped, Queued, Control, ControlTyped
  <2>. QED
    BY <1>2, <2>1, <2>2 DEF Stamps, InOrder, Queued, QTypeOK, Sending
<1>3. ASSUME NEW t \in Threads, Stores(t) PROVE InOrder'
  <2>1. Stream' = Append(Stream, item[t]) /\ item[t] \in Stamped /\ item[t].from = t
    BY <1>3, StreamGrows DEF Stores, MessagesOnly
  <2>2. /\ Len(Stream') = Len(Stream) + 1 /\ DOMAIN Stream' = 1 .. Len(Stream) + 1
        /\ \A i \in 1 .. Len(Stream) : Stream'[i] = Stream[i]
        /\ Stream'[Len(Stream) + 1] = item[t]
    BY <2>1, AppendProperties
  <2>3. \A u \in Sending' : u \in Sending /\ u # t /\ item'[u] = item[u]
    BY <1>3 DEF Stores
  <2>. HIDE <2>1
  <2>4. \A i, j \in DOMAIN Stream' :
          i < j /\ Stream'[i].from = Stream'[j].from => Stream'[i].timestamp < Stream'[j].timestamp
    <3>. SUFFICES ASSUME NEW i \in 1 .. Len(Stream) + 1, NEW j \in 1 .. Len(Stream) + 1, i < j,
                         Stream'[i].from = Stream'[j].from
                  PROVE  Stream'[i].timestamp < Stream'[j].timestamp
      BY <2>2
    <3>1. CASE j \in 1 .. Len(Stream)
      BY <2>2, <3>1 DEF InOrder
    <3>2. CASE j = Len(Stream) + 1
      <4>1. i \in DOMAIN Stream /\ Stream'[i] = Stream[i] /\ Stream'[j] = item[t]
        BY <2>2, <3>2
      <4>. QED
        BY <1>3, <2>1, <4>1 DEF InOrder, Stores
    <3>. QED
      BY <3>1, <3>2
  <2>5. ASSUME NEW u \in Sending', NEW i \in DOMAIN Stream', Stream'[i].from = u
        PROVE  Stream'[i].timestamp < item'[u].timestamp
    <3>1. i # Len(Stream) + 1
      BY <2>1, <2>2, <2>3, <2>5
    <3>2. i \in DOMAIN Stream /\ Stream'[i] = Stream[i]
      BY <2>2, <3>1
    <3>. QED
      BY <2>3, <2>5, <3>2 DEF InOrder
  <2>. QED
    BY <2>4, <2>5 DEF InOrder
<1>4. ASSUME NEW t \in Threads, Drops(t) PROVE InOrder'
  <2>1. Stream' = Stream
    BY <1>4 DEF Drops, Stream
  <2>2. Sending' \subseteq Sending /\ item' = item
    BY <1>4 DEF Drops
  <2>. QED
    BY <2>1, <2>2 DEF InOrder
<1>. QED
  BY <1>1, <1>2, <1>3, <1>4, MessageKind

(* Each stamped message is with its sender, in the stream, or reported, in *)
(* one of them, and there once.                                            *)
InStream(s) == {i \in DOMAIN Stream : Stream[i].timestamp = s}

Once(s) ==
  \/ (\E t : WithSender(s) = {t}) /\ InStream(s) = {} /\ Dropped(s) = {}
  \/ WithSender(s) = {} /\ (\E i : InStream(s) = {i}) /\ Dropped(s) = {}
  \/ WithSender(s) = {} /\ InStream(s) = {} /\ (\E m : Dropped(s) = {m})

AllOnce == \A s \in 1 .. clock : Once(s)

LEMMA WithSenderIs ==
  ASSUME NEW s
  PROVE  /\ \A t : t \in WithSender(s) <=> t \in Sending /\ item[t].timestamp = s
         /\ \A t : t \in WithSender(s)' <=> t \in Sending' /\ item'[t].timestamp = s
  BY DEF WithSender, Sending

LEMMA OnceKept ==
  ASSUME NEW s, Once(s), UNCHANGED <<InStream(s), Dropped(s)>>,
         \A t : t \in Sending' /\ item'[t].timestamp = s <=> t \in Sending /\ item[t].timestamp = s
  PROVE  Once(s)'
<1>1. WithSender(s)' = WithSender(s)
  BY DEF WithSender, Sending
<1>. QED
  BY <1>1 DEF Once

LEMMA OnceStep ==
  ASSUME Queued, MessagesOnly, AllOnce, [ANext]_avars
  PROVE  AllOnce'
<1>. Stream \in Seq(Stamped) /\ DOMAIN Stream = 1 .. Len(Stream) /\ clock \in Nat
  BY StreamSeq DEF Queued, Control, ControlTyped
<1>1. CASE Moves \/ Takes \/ Prints
  <2>1. clock' = clock /\ Stream' = Stream /\ dropped' = dropped
    BY <1>1, StreamKept DEF Moves, Same, Takes, Prints
  <2>2. Sending' = Sending /\ \A t \in Sending : item'[t] = item[t]
    BY <1>1 DEF Moves, Takes, Prints
  <2>3. ASSUME NEW s \in 1 .. clock PROVE Once(s)'
    <3>1. UNCHANGED <<InStream(s), Dropped(s)>>
      BY <2>1 DEF InStream, Dropped
    <3>. QED
      BY <2>2, <3>1, OnceKept DEF AllOnce
  <2>. QED
    BY <2>1, <2>3 DEF AllOnce
<1>2. ASSUME NEW t \in Threads, Stamps(t) PROVE AllOnce'
  <2>1. Stream' = Stream /\ dropped' = dropped /\ clock' = clock + 1
    BY <1>2 DEF Stamps, Stream
  <2>2. /\ t \notin Sending /\ Sending' = Sending \cup {t}
        /\ item'[t].timestamp = clock + 1
        /\ \A u \in Sending : item'[u] = item[u] /\ item[u].timestamp \in 1 .. clock
    BY <1>2 DEF Stamps, Queued, QTypeOK, MessagesOnly, Stamped
  <2>3. ASSUME NEW s \in 1 .. clock PROVE Once(s)'
    <3>1. UNCHANGED <<InStream(s), Dropped(s)>>
      BY <2>1 DEF InStream, Dropped
    <3>. QED
      BY <2>2, <3>1, OnceKept DEF AllOnce
  <2>4. PICK k \in Nat : k = clock + 1
    OBVIOUS
  <2>5. Once(k)'
    <3>1. WithSender(k)' = {t}
      BY <2>2, <2>4, WithSenderIs
    <3>2. \A i \in DOMAIN Stream : Stream[i].timestamp # k
      BY <2>4, StreamStamped DEF Stamped
    <3>3. \A m \in dropped : m.timestamp # k
      BY <2>4 DEF MessagesOnly, Stamped
    <3>4. InStream(k)' = {} /\ Dropped(k)' = {}
      BY <2>1, <3>2, <3>3 DEF InStream, Dropped
    <3>. QED
      BY <3>1, <3>4 DEF Once
  <2>. QED
    BY <2>1, <2>3, <2>4, <2>5 DEF AllOnce
<1>3. ASSUME NEW t \in Threads, Stores(t) PROVE AllOnce'
  <2>1. Stream' = Append(Stream, item[t]) /\ item[t] \in Stamped
    BY <1>3, StreamGrows DEF Stores, MessagesOnly
  <2>2. /\ DOMAIN Stream' = 1 .. Len(Stream) + 1
        /\ \A i \in 1 .. Len(Stream) : Stream'[i] = Stream[i]
        /\ Stream'[Len(Stream) + 1] = item[t]
    BY <2>1, AppendProperties
  <2>3. clock' = clock /\ \A s : Dropped(s)' = Dropped(s)
    BY <1>3 DEF Stores, Dropped
  <2>4. ASSUME NEW s \in 1 .. clock PROVE Once(s)'
    <3>1. CASE item[t].timestamp = s
      <4>1. WithSender(s) = {t} /\ InStream(s) = {} /\ Dropped(s) = {}
        BY <1>3, <2>4, <3>1, WithSenderIs DEF Stores, AllOnce, Once
      <4>2. WithSender(s)' = {}
        BY <1>3, <4>1, WithSenderIs DEF Stores
      <4>3. InStream(s)' = {Len(Stream) + 1}
        BY <2>2, <3>1, <4>1 DEF InStream
      <4>. QED
        BY <2>3, <4>1, <4>2, <4>3 DEF Once
    <3>2. CASE item[t].timestamp # s
      <4>1. InStream(s)' = InStream(s)
        BY <2>2, <3>2 DEF InStream
      <4>. QED
        BY <1>3, <2>3, <2>4, <3>2, <4>1, OnceKept DEF Stores, AllOnce
    <3>. QED
      BY <3>1, <3>2
  <2>. QED
    BY <2>3, <2>4 DEF AllOnce
<1>4. ASSUME NEW t \in Threads, Drops(t) PROVE AllOnce'
  <2>1. Stream' = Stream /\ clock' = clock
    BY <1>4 DEF Drops, Stream
  <2>2. \A s : InStream(s)' = InStream(s)
    BY <2>1 DEF InStream
  <2>3. ASSUME NEW s \in 1 .. clock PROVE Once(s)'
    <3>1. CASE item[t].timestamp = s
      <4>1. WithSender(s) = {t} /\ InStream(s) = {} /\ Dropped(s) = {}
        BY <1>4, <2>3, <3>1, WithSenderIs DEF Drops, AllOnce, Once
      <4>2. WithSender(s)' = {}
        BY <1>4, <4>1, WithSenderIs DEF Drops
      <4>3. Dropped(s)' = {item[t]}
        BY <1>4, <3>1, <4>1 DEF Drops, Dropped
      <4>. QED
        BY <2>2, <4>1, <4>2, <4>3 DEF Once
    <3>2. CASE item[t].timestamp # s
      <4>1. Dropped(s)' = Dropped(s)
        BY <1>4, <3>2 DEF Drops, Dropped
      <4>. QED
        BY <1>4, <2>2, <2>3, <3>2, <4>1, OnceKept DEF Drops, AllOnce
    <3>. QED
      BY <3>1, <3>2
  <2>. QED
    BY <2>1, <2>3 DEF AllOnce
<1>. QED
  BY <1>1, <1>2, <1>3, <1>4, MessageKind

-----------------------------------------------------------------------------
(* The drain: when the log task finds the queue empty nobody is sending,   *)
(* and nobody will.                                                        *)
Drained ==
  /\ lpc = "drained" /\ op[Logger] = "idle" /\ ret[Logger] # 0 => count = 0
  /\ lpc \in {"finish", "done"} => count = 0

LEMMA DrainStep ==
  ASSUME Queued, Drained, [ANext]_avars
  PROVE  Drained'
<1>. USE LogAssumption
     DEF Queued, QTypeOK, Control, ControlTyped, LoggerInQueue, Stopping, Drained, SendOps,
         RecvOps, Goto
<1>1. CASE \E t \in Threads : ClientLogs(t)
  BY <1>1 DEF ClientLogs, ALOG, SendCall, ring
<1>2. CASE \E t \in Threads : QueueLock(t)
  BY <1>2 DEF QueueLock, Acquire, SendLock, RecvLock, lvars, ring
<1>3. ASSUME NEW t \in Threads, QueueProceed(t) PROVE Drained'
  <2>1. CASE t # Logger
    BY <1>3, <2>1
    DEF QueueProceed, Proceed, SendFull, SendStore, SendSignal, SendUnlock, RecvEmpty, RecvTake,
        RecvSignal, RecvUnlock
  <2>2. CASE t = Logger
    BY <1>3, <2>2
    DEF QueueProceed, Proceed, SendFull, SendStore, SendSignal, SendUnlock, RecvEmpty, RecvTake,
        RecvSignal, RecvUnlock, ReturnValue, ring
  <2>. QED
    BY <2>1, <2>2
<1>4. CASE LoggerStep
  BY <1>4
  DEF LoggerStep, Hello, Farewell, LoggerLogs, ALOG, SendCall, LoopTest, LoopExit, PollReady,
      PollNothing, Receive, RecvCall, PrintMessage, Emptied, LowerFlag, SignalDone, LoggerMoves,
      LoggerAt, qvars, ring
<1>5. CASE LogTaskStop \/ LogTaskJoin \/ Joined \/ UNCHANGED avars
  BY <1>5 DEF LogTaskStop, LogTaskJoin, Joined, avars, lvars, qvars
<1>. QED
  BY <1>1, <1>2, <1>3, <1>4, <1>5 DEF ANext

-----------------------------------------------------------------------------
(* All of it together. *)
LogInv == Queued /\ FlagsAgree /\ MessagesOnly /\ InOrder /\ AllOnce /\ Drained

LEMMA LogInvariance == ASpec => []LogInv
<1>1. AInit => Control /\ MessagesOnly /\ InOrder /\ AllOnce /\ Drained
  <2>. SUFFICES ASSUME AInit PROVE Control /\ MessagesOnly /\ InOrder /\ AllOnce /\ Drained
    OBVIOUS
  <2>1. Control /\ Drained
    BY LogAssumption
    DEF AInit, QInit, Control, ControlTyped, LoggerInQueue, Stopping, Drained, SendOps, RecvOps
  <2>2. printed = << >> /\ Hand = << >> /\ Contents = << >> /\ Sending = {} /\ dropped = {}
    BY LogAssumption DEF AInit, QInit, Hand, InHand, Contents, Sending
  <2>3. MessagesOnly
    BY <2>2 DEF MessagesOnly, Hand
  <2>4. Stream = << >>
    BY <2>2 DEF Stream
  <2>. QED
    BY <2>1, <2>2, <2>3, <2>4 DEF InOrder, AllOnce, AInit
<1>2. /\ QTypeOK /\ QInv /\ FlagsAgree
      /\ Control /\ MessagesOnly /\ InOrder /\ AllOnce /\ Drained
      /\ [ANext]_avars
      => (Control /\ MessagesOnly /\ InOrder /\ AllOnce /\ Drained)'
  BY ControlStep, MessagesStep, OrderStep, OnceStep, DrainStep DEF Queued
<1>. QED
  BY <1>1, <1>2, UsesQueue, Invariance, FlagsInvariance, PTL DEF ASpec, LogInv, Queued

(* The flag, the clock, the counter of g_log_done_fd and the messages      *)
(* everywhere are what they may be; only stamped messages are printed.     *)
THEOREM LogTypeCorrect == ASpec => []ATypeOK
<1>1. LogInv => ATypeOK
  <2>. SUFFICES ASSUME LogInv PROVE ATypeOK
    OBVIOUS
  <2>1. Stamped \subseteq Messages
    BY LogAssumption DEF LogInv, Queued, Control, ControlTyped, Stamped, Messages
  <2>2. printed \in Seq(Messages)
    BY <2>1, SeqMonotonic DEF LogInv, MessagesOnly
  <2>. QED
    BY <2>1, <2>2 DEF LogInv, Queued, Control, ControlTyped, MessagesOnly, ATypeOK
<1>. QED
  BY <1>1, LogInvariance, PTL

LEMMA ConcatParts ==
  ASSUME NEW S, NEW s1 \in Seq(S), NEW s2 \in Seq(S)
  PROVE  /\ s1 \o s2 \in Seq(S)
         /\ Len(s1 \o s2) = Len(s1) + Len(s2)
         /\ \A i \in 1 .. Len(s1) : (s1 \o s2)[i] = s1[i]
         /\ \A i \in 1 .. Len(s2) : (s1 \o s2)[Len(s1) + i] = s2[i]
<1>1. Len(s1) \in Nat /\ Len(s2) \in Nat
  OBVIOUS
<1>2. ASSUME NEW i \in 1 .. Len(s2) PROVE (s1 \o s2)[Len(s1) + i] = s2[i]
  <2>1. Len(s1) + i \in 1 .. Len(s1) + Len(s2) /\ ~ Len(s1) + i <= Len(s1) /\ Len(s1) + i - Len(s1) = i
    BY <1>1
  <2>. QED
    BY <2>1, ConcatProperties
<1>. QED
  BY <1>1, <1>2, ConcatProperties

LEMMA ThreeParts ==
  ASSUME NEW S, NEW a \in Seq(S), NEW b \in Seq(S), NEW c \in Seq(S)
  PROVE  /\ Len(a \o (b \o c)) = Len(a) + Len(b) + Len(c)
         /\ \A i \in 1 .. Len(a) : (a \o (b \o c))[i] = a[i]
         /\ \A i \in 1 .. Len(b) : (a \o (b \o c))[Len(a) + i] = b[i]
         /\ \A i \in 1 .. Len(c) : (a \o (b \o c))[Len(a) + Len(b) + i] = c[i]
<1>1. PICK d : d = b \o c
  OBVIOUS
<1>2. /\ d \in Seq(S) /\ Len(d) = Len(b) + Len(c)
      /\ \A i \in 1 .. Len(b) : d[i] = b[i]
      /\ \A i \in 1 .. Len(c) : d[Len(b) + i] = c[i]
  BY <1>1, ConcatParts
<1>3. /\ Len(a \o d) = Len(a) + Len(d)
      /\ \A i \in 1 .. Len(a) : (a \o d)[i] = a[i]
      /\ \A i \in 1 .. Len(d) : (a \o d)[Len(a) + i] = d[i]
  <2>1. d \in Seq(S)
    BY <1>2
  <2>2. Len(a \o d) = Len(a) + Len(d)
    BY <2>1, ConcatParts, Zenon
  <2>3. \A i \in 1 .. Len(a) : (a \o d)[i] = a[i]
    BY <2>1, ConcatParts, Zenon
  <2>4. ASSUME NEW i \in 1 .. Len(d) PROVE (a \o d)[Len(a) + i] = d[i]
    <3>1. Len(a) \in Nat /\ Len(d) \in Nat
      BY <2>1
    <3>2. Len(a) + i \in 1 .. Len(a) + Len(d) /\ ~ Len(a) + i <= Len(a) /\ Len(a) + i - Len(a) = i
      BY <3>1
    <3>. QED
      BY <2>1, <3>2, ConcatProperties
  <2>. QED
    BY <2>2, <2>3, <2>4
<1>4. Len(a) \in Nat /\ Len(b) \in Nat /\ Len(c) \in Nat
  OBVIOUS
<1>5. ASSUME NEW i \in 1 .. Len(c) PROVE (a \o d)[Len(a) + Len(b) + i] = c[i]
  <2>1. Len(b) + i \in 1 .. Len(d) /\ Len(a) + Len(b) + i = Len(a) + (Len(b) + i)
    BY <1>2, <1>4
  <2>. QED
    BY <1>2, <1>3, <2>1
<1>6. ASSUME NEW i \in 1 .. Len(b) PROVE (a \o d)[Len(a) + i] = b[i]
  BY <1>2, <1>3, <1>4
<1>. QED
  BY <1>1, <1>2, <1>3, <1>4, <1>5, <1>6

(* Where in the stream a message is says what holds it. *)
LEMMA StreamPlaces ==
  ASSUME LogInv, NEW s
  PROVE  /\ Len(Stream) = Len(printed) + Len(Hand) + count
         /\ Len(printed) \in Nat /\ count \in Nat /\ Len(Hand) = IF InHand THEN 1 ELSE 0
         /\ Printed(s) = {i \in 1 .. Len(printed) : Stream[i].timestamp = s}
         /\ InPrinter(s) = {t \in {Logger} : InHand /\ Stream[Len(printed) + 1].timestamp = s}
         /\ InRing(s) = {i \in 1 .. count : Stream[Len(printed) + Len(Hand) + i].timestamp = s}
<1>1. printed \in Seq(Stamped) /\ Hand \in Seq(Stamped) /\ Contents \in Seq(Stamped)
  BY StreamSeq DEF LogInv, MessagesOnly
<1>2. Len(Contents) = count /\ count \in Nat
  BY ContentsSeq DEF LogInv, Queued, QTypeOK, QInv
<1>3. Len(Hand) = (IF InHand THEN 1 ELSE 0) /\ (InHand => Hand[1] = item[Logger])
  BY DEF Hand
<1>4. /\ Len(Stream) = Len(printed) + Len(Hand) + Len(Contents)
      /\ \A i \in 1 .. Len(printed) : Stream[i] = printed[i]
      /\ \A i \in 1 .. Len(Hand) : Stream[Len(printed) + i] = Hand[i]
      /\ \A i \in 1 .. Len(Contents) : Stream[Len(printed) + Len(Hand) + i] = Contents[i]
  <2>. DEFINE all == printed \o (Hand \o Contents)
  <2>1. Len(all) = Len(printed) + Len(Hand) + Len(Contents)
    BY <1>1, ThreeParts
  <2>2. \A i \in 1 .. Len(printed) : all[i] = printed[i]
    BY <1>1, ThreeParts
  <2>3. \A i \in 1 .. Len(Hand) : all[Len(printed) + i] = Hand[i]
    BY <1>1, ThreeParts
  <2>4. \A i \in 1 .. Len(Contents) : all[Len(printed) + Len(Hand) + i] = Contents[i]
    BY <1>1, ThreeParts
  <2>5. Stream = all
    BY DEF Stream
  <2>. HIDE DEF all
  <2>. QED
    BY <2>1, <2>2, <2>3, <2>4, <2>5
<1>5. \A i \in 1 .. Len(printed) : Stream[i] = printed[i]
  BY <1>4
<1>6. DOMAIN printed = 1 .. Len(printed) /\ Len(printed) \in Nat
  BY <1>1
<1>7. Printed(s) = {i \in 1 .. Len(printed) : Stream[i].timestamp = s}
  BY <1>5, <1>6 DEF Printed
<1>8. InHand => Stream[Len(printed) + 1] = item[Logger]
  BY <1>3, <1>4
<1>9. InPrinter(s) = {t \in {Logger} : InHand /\ Stream[Len(printed) + 1].timestamp = s}
  BY <1>8 DEF InPrinter, InHand
<1>10. \A i \in 1 .. count : Stream[Len(printed) + Len(Hand) + i] = Contents[i]
  BY <1>2, <1>4
<1>11. InRing(s) = {i \in 1 .. count : Stream[Len(printed) + Len(Hand) + i].timestamp = s}
  BY <1>10 DEF InRing
<1>. QED
  BY <1>2, <1>3, <1>4, <1>6, <1>7, <1>9, <1>11

LEMMA NoneCounted == Cardinality({}) = 0
  BY FS_EmptySet

LEMMA OneCounted == \A x : Cardinality({x}) = 1
  BY FS_Singleton

(* Each message that ALOG stamped is in one place and once: none is lost   *)
(* between the threads, the ring and stderr, and none is printed twice,    *)
(* for any number of threads, messages and slots.                          *)
THEOREM NoMessageLost == ASpec => []EveryMessageInOnePlace
<1>1. ASSUME LogInv, NEW s \in 1 .. clock
      PROVE  Cardinality(WithSender(s)) + Cardinality(InRing(s)) + Cardinality(InPrinter(s))
               + Cardinality(Printed(s)) + Cardinality(Dropped(s)) = 1
  <2>1. /\ Len(Stream) = Len(printed) + Len(Hand) + count
        /\ Len(printed) \in Nat /\ count \in Nat /\ Len(Hand) = IF InHand THEN 1 ELSE 0
        /\ DOMAIN Stream = 1 .. Len(Stream) /\ Len(Hand) \in Nat
    BY <1>1, StreamPlaces, StreamSeq DEF LogInv
  <2>2. /\ \A k : k \in Printed(s) <=> k \in 1 .. Len(printed) /\ Stream[k].timestamp = s
        /\ \A t : t \in InPrinter(s) <=> t = Logger /\ InHand /\ Stream[Len(printed) + 1].timestamp = s
        /\ \A k : k \in InRing(s) <=>
                    k \in 1 .. count /\ Stream[Len(printed) + Len(Hand) + k].timestamp = s
    BY <1>1, StreamPlaces
  <2>3. \A k : k \in InStream(s) <=> k \in 1 .. Len(Stream) /\ Stream[k].timestamp = s
    BY <2>1 DEF InStream
  <2>4. CASE InStream(s) = {}
    <3>1. Printed(s) = {} /\ InPrinter(s) = {} /\ InRing(s) = {}
      BY <2>1, <2>2, <2>3, <2>4
    <3>2. /\ Cardinality(Printed(s)) = 0 /\ Cardinality(InPrinter(s)) = 0
          /\ Cardinality(InRing(s)) = 0
      BY <3>1, NoneCounted, Zenon
    <3>3. \/ Cardinality(WithSender(s)) = 1 /\ Cardinality(Dropped(s)) = 0
          \/ Cardinality(WithSender(s)) = 0 /\ Cardinality(Dropped(s)) = 1
      BY <1>1, <2>4, NoneCounted, OneCounted, Zenon DEF LogInv, AllOnce, Once
    <3>. QED
      BY <3>2, <3>3
  <2>5. ASSUME NEW i, InStream(s) = {i}
        PROVE  \/ /\ Cardinality(Printed(s)) = 1 /\ Cardinality(InPrinter(s)) = 0
                  /\ Cardinality(InRing(s)) = 0
               \/ /\ Cardinality(Printed(s)) = 0 /\ Cardinality(InPrinter(s)) = 1
                  /\ Cardinality(InRing(s)) = 0
               \/ /\ Cardinality(Printed(s)) = 0 /\ Cardinality(InPrinter(s)) = 0
                  /\ Cardinality(InRing(s)) = 1
    <3>1. i \in 1 .. Len(Stream) /\ \A k \in 1 .. Len(Stream) : Stream[k].timestamp = s <=> k = i
      BY <2>3, <2>5
    <3>2. \/ (\E x : Printed(s) = {x}) /\ InPrinter(s) = {} /\ InRing(s) = {}
          \/ Printed(s) = {} /\ (\E x : InPrinter(s) = {x}) /\ InRing(s) = {}
          \/ Printed(s) = {} /\ InPrinter(s) = {} /\ (\E x : InRing(s) = {x})
      <4>1. CASE i <= Len(printed)
        <5>1. Printed(s) = {i} /\ InPrinter(s) = {} /\ InRing(s) = {}
          BY <2>1, <2>2, <3>1, <4>1
        <5>. QED
          BY <5>1
      <4>2. CASE i > Len(printed) /\ i <= Len(printed) + Len(Hand)
        <5>1. Printed(s) = {} /\ InPrinter(s) = {Logger} /\ InRing(s) = {}
          BY <2>1, <2>2, <3>1, <4>2
        <5>. QED
          BY <5>1
      <4>3. CASE i > Len(printed) + Len(Hand)
        <5>. DEFINE j == i - (Len(printed) + Len(Hand))
        <5>1. j \in 1 .. count /\ i = Len(printed) + Len(Hand) + j
          BY <2>1, <3>1, <4>3
        <5>. HIDE DEF j
        <5>2. Printed(s) = {} /\ InPrinter(s) = {}
          BY <2>1, <2>2, <3>1, <4>3
        <5>3. \A k \in 1 .. count : Len(printed) + Len(Hand) + k \in 1 .. Len(Stream)
          BY <2>1
        <5>4. \A k \in 1 .. count : Len(printed) + Len(Hand) + k = i <=> k = j
          BY <2>1, <5>1
        <5>5. InRing(s) = {j}
          BY <2>2, <3>1, <5>1, <5>3, <5>4
        <5>. QED
          BY <5>2, <5>5
      <4>4. \/ i <= Len(printed) \/ i > Len(printed) + Len(Hand)
            \/ i > Len(printed) /\ i <= Len(printed) + Len(Hand)
        BY <2>1, <3>1
      <4>. QED
        BY <4>1, <4>2, <4>3, <4>4
    <3>. QED
      BY <3>2, NoneCounted, OneCounted, Zenon
  <2>6. CASE \E i : InStream(s) = {i}
    <3>1. Cardinality(WithSender(s)) = 0 /\ Cardinality(Dropped(s)) = 0
      <4>1. WithSender(s) = {} /\ Dropped(s) = {}
        BY <1>1, <2>6 DEF LogInv, AllOnce, Once
      <4>. QED
        BY <4>1, NoneCounted, Zenon
    <3>. QED
      BY <2>5, <2>6, <3>1
  <2>. QED
    BY <1>1, <2>4, <2>6 DEF LogInv, AllOnce, Once
<1>2. LogInv => EveryMessageInOnePlace
  BY <1>1 DEF EveryMessageInOnePlace
<1>. QED
  BY <1>2, LogInvariance, PTL

(* When the log task has announced its end, all that anybody logged has    *)
(* been printed, or reported as refused by the full queue.                 *)
THEOREM DrainIsComplete == ASpec => []DrainComplete
<1>1. LogInv => DrainComplete
  <2>. SUFFICES ASSUME LogInv, lpc = "done", NEW s \in 1 .. clock PROVE Printed(s) \cup Dropped(s) # {}
    BY DEF DrainComplete
  <2>1. \A t \in Threads : op[t] = "idle"
    BY LogAssumption DEF LogInv, Queued, Control, LoggerInQueue, Stopping, QTypeOK
  <2>2. WithSender(s) = {} /\ ~ InHand
    BY <2>1, LogAssumption DEF WithSender, InHand
  <2>3. count = 0
    BY DEF LogInv, Drained
  <2>4. CASE \E i : InStream(s) = {i}
    <3>1. PICK i : i \in 1 .. Len(Stream) /\ Stream[i].timestamp = s
      BY <2>4, StreamSeq DEF InStream, LogInv
    <3>2. i \in Printed(s)
      BY <2>2, <2>3, <3>1, StreamPlaces
    <3>. QED
      BY <3>2
  <2>5. CASE \E m : Dropped(s) = {m}
    BY <2>5
  <2>. QED
    BY <2>2, <2>4, <2>5 DEF LogInv, AllOnce, Once
<1>. QED
  BY <1>1, LogInvariance, PTL

(* The lines of one thread are printed in the order it wrote them, though  *)
(* ALOG stamps them before it takes the mutex.                             *)
THEOREM LinesInOrder == ASpec => []SenderOrder
<1>1. LogInv => SenderOrder
  <2>. SUFFICES ASSUME LogInv, NEW i \in DOMAIN printed, NEW j \in DOMAIN printed, i < j,
                       printed[i].from = printed[j].from
                PROVE  printed[i].timestamp < printed[j].timestamp
    BY DEF SenderOrder
  <2>1. /\ printed \in Seq(Stamped) /\ Hand \o Contents \in Seq(Stamped)
        /\ Stream \in Seq(Stamped)
    BY StreamSeq, ConcatProperties DEF LogInv, MessagesOnly
  <2>2. /\ i \in DOMAIN Stream /\ j \in DOMAIN Stream
        /\ Stream[i] = printed[i] /\ Stream[j] = printed[j]
    BY <2>1, ConcatProperties DEF Stream
  <2>. QED
    BY <2>2 DEF LogInv, InOrder
<1>. QED
  BY <1>1, LogInvariance, PTL

===============================================================================
