---------------------------- MODULE RtSystemProofs ----------------------------
(***************************************************************************)
(* The whole program uses the log queue as FifoQueue describes: whatever   *)
(* main.c, the tasks and their cancellation do, a step of the program is a *)
(* step of the queue, or none.  So what is proved of the queue holds in    *)
(* the program.  Then: the order in which the shutdown frees what threads  *)
(* may still use, that nothing is left in the queue, and the values of the *)
(* program's variables.                                                    *)
(***************************************************************************)
EXTENDS RtSystem, FifoQueueProofs

(* The steps of main.c outside the queue. *)
LEMMA MainKeepsQueue ==
  ASSUME MainNext
  PROVE  UNCHANGED qvars
<1>1. CASE MainRuns
  BY <1>1
  DEF MainRuns, StdinTaskInit, PthreadCreate, WaitForSigint, StopAll, PollAll, CancelAll,
      JoinAll, TaskJoin, StdinCleanup, DestroyAll, LogTaskStop, LogWait, LogTaskCancel,
      LogTaskJoin, LogTaskCleanup, MainReturns
<1>2. CASE StdinTaskInitFails \/ WaitFails \/ PollAllFails \/ LogWaitFails
  BY <1>2 DEF StdinTaskInitFails, WaitFails, PollAllFails, LogWaitFails
<1> QED BY <1>1, <1>2 DEF MainNext

(* The steps of stdin_task.c outside the queue. *)
LEMMA StdinKeepsQueue ==
  ASSUME StdinRuns \/ StdinFlush
  PROVE  UNCHANGED qvars
BY DEF StdinRuns, StdinFlush, StdinEntry, StdinLoop, StdinPoll, StdinRead, StdinParse,
       StdinStrip, StdinCrash, MarkDone, MarkDoneWrite, StdinReturns

(* A step of the program is a step of the queue, or none. *)
LEMMA QueueStep ==
  ASSUME [RNext]_rtvars
  PROVE  [QNext]_qvars
<1>1. CASE Interrupt
  BY <1>1 DEF Interrupt
<1>2. ASSUME NEW t \in Threads,
             LogLine(t) \/ QueueLock(t) \/ QueueProceed(t) \/ UseDestroyedQueue(t) \/ Die(t)
      PROVE  [QNext]_qvars
  <2>1. CASE LogLine(t)
    BY <2>1 DEF LogLine, QNext, Call
  <2>2. CASE QueueLock(t) \/ QueueProceed(t)
    BY <2>2 DEF QueueLock, QueueProceed, QNext, QStep
  <2>3. CASE UseDestroyedQueue(t) \/ Die(t)
    BY <2>3 DEF UseDestroyedQueue, Die
  <2> QED BY <1>2, <2>1, <2>2, <2>3
<1>3. CASE MainNext \/ StdinRuns \/ StdinFlush
  BY <1>3, MainKeepsQueue, StdinKeepsQueue
<1>4. CASE LogRuns
  <2>1. Log \in Threads
    BY RtAssumption
  <2>2. CASE LogReceive
    BY <2>1, <2>2 DEF LogReceive, QNext, Call
  <2>3. CASE LogRuns /\ ~ LogReceive
    BY <2>3 DEF LogRuns, LogLoop, LogPoll, LogReceived, LogLower, LogFinish, LogReturns
  <2> QED BY <1>4, <2>2, <2>3
<1>5. CASE UNCHANGED rtvars
  BY <1>5 DEF rtvars
<1> QED BY <1>1, <1>2, <1>3, <1>4, <1>5 DEF RNext

(* Every run of the program is one of fifo_queue.c, for every capacity of  *)
(* the log queue, cancelled threads and failing calls included.            *)
THEOREM UsesQueue == RSpec => QSpec
<1>1. RInit => QInit
  BY DEF RInit
<1>2. [RNext]_rtvars => [QNext]_qvars
  BY QueueStep
<1> QED BY <1>1, <1>2, PTL DEF RSpec, QSpec

(* Ring, count, eventfd and mutex agree in the whole program, but for the  *)
(* unit of the eventfd that the holder of the mutex owes: cancelled, it    *)
(* owes it for ever, and nobody else gets in to miss it.                   *)
THEOREM QueueStaysConsistent == RSpec => []QInv
BY UsesQueue, Invariance, PTL

(* Log lines go through a bounded FIFO, in the whole program. *)
THEOREM ProgramLinearisable == RSpec => ImplementsFifo
BY UsesQueue, Linearisable, PTL

-----------------------------------------------------------------------------
(* The order of the shutdown. *)

(* main gave up on the stdin task, or could not wait for it. *)
StdinForced == Stdin \in cancelled \/ unwaited

Released == Gone(Stdin) \/ StdinForced

Domains ==
  /\ DOMAIN pc = Threads /\ DOMAIN todo = Threads /\ DOMAIN life = Threads
  /\ DOMAIN op = Threads
  /\ handle \in [state : {"init", "running", "stopping", "stopped"}, done_fd : Int, slot : BOOLEAN]

(* A task in the array has a thread and a buffer; no thread without both. *)
Started ==
  /\ pc[Main] \in {"init", "create"} => life[Stdin] = "none"
  /\ pc[Main] = "create" => line = "allocated" /\ handle.slot
  /\ pc[Main] \in {"wait", "stop", "poll_all", "cancel_all", "join_all"} /\ ~ handle.slot
       => life[Stdin] = "none"

(* What done_fd tells main, and what main takes from it. *)
Answer ==
  /\ handle.done_fd > 0 => pc[Stdin] = "return"
  /\ pc[Main] = "join" => handle.done_fd > 0
  /\ pc[Main] = "join_all" /\ handle.slot => handle.done_fd > 0 \/ StdinForced

(* What is freed, and of whom. *)
Freed ==
  /\ pc[Main] \in {"cleanup", "destroy"} \/ TasksReleased => Released
  /\ line = "null" => Released
  /\ pc[Main] = "log_cleanup" => life[Log] \in {"ended", "cancelled"}
  /\ queue = "destroyed" =>
       /\ pc[Main] \in {"return", "exited", "crashed"}
       /\ op[Main] = "idle" /\ todo[Main] = 0
       /\ life[Log] \in {"ended", "cancelled"}
       /\ Released

Shutdown == Domains /\ Started /\ Answer /\ Freed /\ CrashOnlyWhenForced

(* Steps in the queue, and of the user. *)
LEMMA QueueShutdown ==
  ASSUME Shutdown, NEW t \in Threads,
         LogLine(t) \/ QueueLock(t) \/ QueueProceed(t) \/ Die(t) \/ UseDestroyedQueue(t)
  PROVE  Shutdown'
<1>. USE RtAssumption
     DEF Shutdown, Domains, Started, Answer, Freed, CrashOnlyWhenForced, Released, StdinForced,
         Gone, TasksReleased, world, flags, rvars, qvars
<1>1. CASE LogLine(t)
  BY <1>1 DEF LogLine, SendCall, Goto
<1>2. CASE QueueLock(t)
  BY <1>2 DEF QueueLock, Acquire, SendLock, RecvLock, Goto
<1>3. CASE QueueProceed(t)
  <2>1. op[t] # "idle" /\ \A u \in Threads \ {t} : op'[u] = op[u]
    BY <1>3
    DEF QueueProceed, Proceed, SendFull, SendStore, SendSignal, SendUnlock, RecvEmpty,
        RecvTake, RecvSignal, RecvUnlock, Goto
  <2>2. DOMAIN op' = Threads
    BY <1>3
    DEF QueueProceed, Proceed, SendFull, SendStore, SendSignal, SendUnlock, RecvEmpty,
        RecvTake, RecvSignal, RecvUnlock, Goto
  <2>. QED
    BY <1>3, <2>1, <2>2 DEF QueueProceed
<1>4. CASE Die(t)
  BY <1>4 DEF Die
<1>5. CASE UseDestroyedQueue(t)
  BY <1>5 DEF UseDestroyedQueue, CopiesThroughNull
<1>. QED
  BY <1>1, <1>2, <1>3, <1>4, <1>5

LEMMA StdinShutdown ==
  ASSUME Shutdown, StdinRuns \/ StdinFlush
  PROVE  Shutdown'
<1>. USE RtAssumption
     DEF Shutdown, Domains, Started, Answer, Freed, CrashOnlyWhenForced, Released, StdinForced,
         Gone, TasksReleased, world, flags, qvars, StdinStep, Step, Ready
<1>1. CASE StdinEntry
  BY <1>1 DEF StdinEntry
<1>2. CASE StdinLoop \/ StdinPoll \/ StdinRead
  BY <1>2 DEF StdinLoop, StdinPoll, StdinRead
<1>3. CASE StdinParse \/ StdinStrip \/ StdinFlush
  BY <1>3 DEF StdinParse, StdinStrip, StdinFlush
<1>4. CASE StdinCrash
  BY <1>4 DEF StdinCrash
<1>5. CASE MarkDone
  BY <1>5 DEF MarkDone
<1>6. CASE MarkDoneWrite
  BY <1>6 DEF MarkDoneWrite
<1>7. CASE StdinReturns
  BY <1>7 DEF StdinReturns
<1>. QED
  BY <1>1, <1>2, <1>3, <1>4, <1>5, <1>6, <1>7 DEF StdinRuns

LEMMA LogShutdown ==
  ASSUME Shutdown, LogRuns
  PROVE  Shutdown'
<1>. USE RtAssumption
     DEF Shutdown, Domains, Started, Answer, Freed, CrashOnlyWhenForced, Released, StdinForced,
         Gone, TasksReleased, world, flags, qvars, LogStep, Step, Ready
<1>1. CASE LogLoop \/ LogPoll
  BY <1>1 DEF LogLoop, LogPoll
<1>2. CASE LogReceive
  BY <1>2 DEF LogReceive, RecvCall, Goto
<1>3. CASE LogReceived
  BY <1>3 DEF LogReceived
<1>4. CASE LogLower \/ LogFinish
  BY <1>4 DEF LogLower, LogFinish
<1>5. CASE LogReturns
  BY <1>5 DEF LogReturns
<1>. QED
  BY <1>1, <1>2, <1>3, <1>4, <1>5 DEF LogRuns

LEMMA MainShutdown ==
  ASSUME Shutdown, MainNext
  PROVE  Shutdown'
<1>. USE RtAssumption
     DEF Shutdown, Domains, Started, Answer, Freed, CrashOnlyWhenForced, Released, StdinForced,
         Gone, TasksReleased, world, flags, qvars, MainStep, Step, Ready
<1>1. CASE StdinTaskInit
  BY <1>1 DEF StdinTaskInit
<1>2. CASE PthreadCreate
  BY <1>2 DEF PthreadCreate
<1>3. CASE StdinTaskInitFails
  BY <1>3 DEF StdinTaskInitFails
<1>4. CASE WaitForSigint \/ WaitFails
  BY <1>4 DEF WaitForSigint, WaitFails
<1>5. CASE StopAll
  BY <1>5 DEF StopAll
<1>6. CASE PollAll
  BY <1>6 DEF PollAll
<1>7. CASE PollAllFails
  BY <1>7 DEF PollAllFails
<1>8. CASE CancelAll
  BY <1>8 DEF CancelAll
<1>9. CASE JoinAll
  BY <1>9 DEF JoinAll
<1>10. CASE TaskJoin
  BY <1>10 DEF TaskJoin
<1>11. CASE StdinCleanup
  BY <1>11 DEF StdinCleanup
<1>12. CASE DestroyAll
  BY <1>12 DEF DestroyAll
<1>13. CASE LogTaskStop
  BY <1>13 DEF LogTaskStop
<1>14. CASE LogWait \/ LogWaitFails
  BY <1>14 DEF LogWait, LogWaitFails
<1>15. CASE LogTaskCancel
  BY <1>15 DEF LogTaskCancel
<1>16. CASE LogTaskJoin
  BY <1>16 DEF LogTaskJoin
<1>17. CASE LogTaskCleanup
  BY <1>17 DEF LogTaskCleanup
<1>18. CASE MainReturns
  BY <1>18 DEF MainReturns
<1>. QED
  BY <1>1, <1>2, <1>3, <1>4, <1>5, <1>6, <1>7, <1>8, <1>9, <1>10, <1>11, <1>12, <1>13, <1>14,
     <1>15, <1>16, <1>17, <1>18
  DEF MainNext, MainRuns

LEMMA ShutdownInv == RSpec => []Shutdown
<1>1. RInit => Shutdown
  BY RtAssumption
  DEF RInit, QInit, Shutdown, Domains, Started, Answer, Freed, CrashOnlyWhenForced, Released,
      Gone, TasksReleased
<1>2. Shutdown /\ [RNext]_rtvars => Shutdown'
  <2>. SUFFICES ASSUME Shutdown, [RNext]_rtvars PROVE Shutdown'
    OBVIOUS
  <2>1. CASE Interrupt \/ UNCHANGED rtvars
    BY <2>1
    DEF Interrupt, rtvars, rvars, world, flags, qvars, Shutdown, Domains, Started, Answer,
        Freed, CrashOnlyWhenForced, Released, StdinForced, Gone, TasksReleased
  <2>. QED
    BY <2>1, QueueShutdown, MainShutdown, StdinShutdown, LogShutdown DEF RNext
<1>. QED
  BY <1>1, <1>2, PTL DEF RSpec

(* task_array_join_all waits, with the array's mutex, only for a thread    *)
(* that has returned but for its last log line.                            *)
THEOREM JoinShort == RSpec => []JoinIsShort
<1>1. Shutdown => JoinIsShort
  BY DEF Shutdown, Answer, JoinIsShort
<1>. QED
  BY <1>1, ShutdownInv, PTL

(* The stdin task's buffer is freed after its thread has ended, unless the *)
(* task was cancelled or poll failed.                                      *)
THEOREM ReleaseOrdered == RSpec => []ReleasedAfterEnd
<1>1. Shutdown => ReleasedAfterEnd
  BY DEF Shutdown, Freed, Released, StdinForced, ReleasedAfterEnd, Forced
<1>. QED
  BY <1>1, ShutdownInv, PTL

(* Nobody touches the freed buffer or the destroyed queue, unless the      *)
(* stdin task was cancelled or poll failed: with any timing, any failing   *)
(* calls, and a cancelled log task.                                        *)
THEOREM CrashesForced == RSpec => []CrashOnlyWhenForced
<1>1. Shutdown => CrashOnlyWhenForced
  BY DEF Shutdown
<1>. QED
  BY <1>1, ShutdownInv, PTL

-----------------------------------------------------------------------------
(* The end of the log task.  Once it is told to stop, nobody else has a    *)
(* line left to log, unless a thread was cancelled or not waited for; so   *)
(* what its drain leaves empty stays empty.                                *)

Stopped ==
  \/ ~ g_log_running
  \/ pc[Log] \in {"lower", "drain", "drained", "finish", "return"}

Silent(t) == op[t] = "idle" /\ todo[t] = 0

Silence ==
  /\ life[Stdin] \in {"none", "ended"} => Silent(Stdin)
  /\ \A t \in Threads : life[t] = "cancelled" => t \in cancelled
  /\ life[Log] = "ended" => pc[Log] = "return"
  /\ Stopped =>
       /\ pc[Main] \in {"log_wait", "log_cancel", "log_join", "log_cleanup", "return",
                        "exited", "crashed"}
       /\ Silent(Main)
       /\ ~ Forced => life[Stdin] # "live" /\ Silent(Stdin)

Drained ==
  /\ pc[Log] \in {"drain", "finish", "return"} => Silent(Log)
  /\ pc[Log] = "drained" => todo[Log] = 0 /\ op[Log] \in {"idle"} \cup RecvOps
  /\ /\ ~ Forced
     /\ \/ pc[Log] \in {"finish", "return"}
        \/ pc[Log] = "drained" /\ op[Log] = "idle" /\ ret[Log] # 0
     => count = 0

Quiet == Silence /\ Drained

LEMMA QueueQuiet ==
  ASSUME QTypeOK, Shutdown, Quiet, NEW t \in Threads,
         LogLine(t) \/ QueueLock(t) \/ QueueProceed(t) \/ Die(t) \/ UseDestroyedQueue(t)
  PROVE  Quiet'
<1>. USE RtAssumption
     DEF Shutdown, Domains, Quiet, Silence, Silent, Drained, Stopped, Forced, RecvOps,
         world, flags, rvars, qvars, ring
<1>1. CASE LogLine(t)
  BY <1>1 DEF LogLine, SendCall, Goto
<1>2. CASE QueueLock(t)
  BY <1>2 DEF QueueLock, Acquire, SendLock, RecvLock, Goto
<1>3. CASE QueueProceed(t)
  <2>. USE DEF QueueProceed, QTypeOK, Goto, ReturnValue
  <2>1. CASE SendFull(t) \/ SendUnlock(t)
    BY <1>3, <2>1 DEF SendFull, SendUnlock
  <2>2. CASE SendStore(t)
    BY <1>3, <2>2 DEF SendStore
  <2>3. CASE SendSignal(t) \/ RecvSignal(t)
    BY <1>3, <2>3 DEF SendSignal, RecvSignal
  <2>4. CASE RecvEmpty(t)
    BY <1>3, <2>4 DEF RecvEmpty
  <2>5. CASE RecvTake(t)
    BY <1>3, <2>5 DEF RecvTake
  <2>6. CASE RecvUnlock(t)
    BY <1>3, <2>6 DEF RecvUnlock
  <2>. QED
    BY <1>3, <2>1, <2>2, <2>3, <2>4, <2>5, <2>6 DEF Proceed
<1>4. CASE Die(t)
  BY <1>4 DEF Die
<1>5. CASE UseDestroyedQueue(t)
  BY <1>5 DEF UseDestroyedQueue, CopiesThroughNull
<1>. QED
  BY <1>1, <1>2, <1>3, <1>4, <1>5

LEMMA TasksQuiet ==
  ASSUME QTypeOK, Shutdown, Quiet, StdinRuns \/ StdinFlush \/ LogRuns
  PROVE  Quiet'
<1>. USE RtAssumption
     DEF Shutdown, Domains, Quiet, Silence, Silent, Drained, Stopped, Forced, RecvOps,
         world, flags, qvars, ring, StdinStep, LogStep, Step, Ready
<1>1. CASE StdinRuns \/ StdinFlush
  BY <1>1
  DEF StdinRuns, StdinFlush, StdinEntry, StdinLoop, StdinPoll, StdinRead, StdinParse,
      StdinStrip, StdinCrash, MarkDone, MarkDoneWrite, StdinReturns
<1>2. CASE LogLoop \/ LogPoll
  BY <1>2 DEF LogLoop, LogPoll
<1>3. CASE LogReceive
  BY <1>3 DEF LogReceive, RecvCall, Goto
<1>4. CASE LogReceived
  BY <1>4 DEF LogReceived
<1>5. CASE LogLower \/ LogFinish
  BY <1>5 DEF LogLower, LogFinish
<1>6. CASE LogReturns
  BY <1>6 DEF LogReturns
<1>. QED
  BY <1>1, <1>2, <1>3, <1>4, <1>5, <1>6 DEF LogRuns

LEMMA MainQuiet ==
  ASSUME Shutdown, Quiet, MainNext
  PROVE  Quiet'
<1>. USE RtAssumption
     DEF Shutdown, Domains, Quiet, Silence, Silent, Drained, Stopped, Forced, RecvOps,
         world, flags, qvars, ring, MainStep, Step, Ready
<1>1. CASE StdinTaskInit \/ PthreadCreate \/ StdinTaskInitFails
  BY <1>1 DEF StdinTaskInit, PthreadCreate, StdinTaskInitFails
<1>2. CASE WaitForSigint \/ WaitFails \/ StopAll
  BY <1>2 DEF WaitForSigint, WaitFails, StopAll
<1>3. CASE PollAll \/ PollAllFails \/ CancelAll
  BY <1>3 DEF PollAll, PollAllFails, CancelAll
<1>4. CASE JoinAll \/ TaskJoin \/ StdinCleanup \/ DestroyAll
  BY <1>4 DEF JoinAll, TaskJoin, StdinCleanup, DestroyAll
<1>5. CASE LogTaskStop
  BY <1>5 DEF LogTaskStop, Freed, Released, StdinForced, Gone, TasksReleased
<1>6. CASE LogWait \/ LogWaitFails \/ LogTaskCancel
  BY <1>6 DEF LogWait, LogWaitFails, LogTaskCancel
<1>7. CASE LogTaskJoin \/ LogTaskCleanup \/ MainReturns
  BY <1>7 DEF LogTaskJoin, LogTaskCleanup, MainReturns
<1>. QED
  BY <1>1, <1>2, <1>3, <1>4, <1>5, <1>6, <1>7 DEF MainNext, MainRuns

LEMMA QuietInv == RSpec => [](QTypeOK /\ QInv /\ Shutdown /\ Quiet)
<1>1. RInit => Quiet
  BY RtAssumption
  DEF RInit, QInit, Quiet, Silence, Silent, Drained, Stopped, Forced
<1>2. QTypeOK /\ Shutdown /\ Quiet /\ [RNext]_rtvars => Quiet'
  <2>. SUFFICES ASSUME QTypeOK, Shutdown, Quiet, [RNext]_rtvars PROVE Quiet'
    OBVIOUS
  <2>1. CASE Interrupt \/ UNCHANGED rtvars
    BY <2>1
    DEF Interrupt, rtvars, rvars, world, flags, qvars, ring, Quiet, Silence, Silent, Drained,
        Stopped, Forced
  <2>. QED
    BY <2>1, QueueQuiet, TasksQuiet, MainQuiet DEF RNext
<1>. QED
  BY <1>1, <1>2, ShutdownInv, UsesQueue, TypeCorrect, Invariance, PTL DEF RSpec

(* log_task_cleanup destroys a queue that is empty and unlocked, unless a  *)
(* thread was cancelled or not waited for: no line is lost in it.          *)
THEOREM DestroysEmpty == RSpec => []DestroyedEmpty
<1>1. QTypeOK /\ QInv /\ Shutdown /\ Quiet => DestroyedEmpty
  <2>. SUFFICES ASSUME QTypeOK, QInv, Shutdown, Quiet, pc[Main] = "log_cleanup", ~ Forced
                PROVE  count = 0 /\ lock = NoThread
    BY DEF DestroyedEmpty
  <2>1. pc[Log] = "return"
    BY RtAssumption DEF Shutdown, Freed, Quiet, Silence, Forced
  <2>2. count = 0 /\ \A t \in Threads : op[t] = "idle"
    BY <2>1, RtAssumption DEF Quiet, Silence, Silent, Drained, Stopped
  <2>. QED
    BY <2>2 DEF QTypeOK, QInv, MutexHeld, Critical
<1>. QED
  BY <1>1, QuietInv, PTL

-----------------------------------------------------------------------------
(* The values of the program's variables.  Two of them only stay small     *)
(* because main reads SIGINT once and log_task writes g_log_done_fd once;  *)
(* that done_fd is written once is a part of Answer.                       *)

Once ==
  /\ pc[Main] \in {"init", "create", "wait"} => g_sigint_count = 0
  /\ pc[Log] # "return" => g_log_done_fd <= 0

Typed == RTypeOK /\ Once

LEMMA QueueTypes ==
  ASSUME Typed, Shutdown, QTypeOK', NEW t \in Threads,
         LogLine(t) \/ QueueLock(t) \/ QueueProceed(t) \/ Die(t) \/ UseDestroyedQueue(t)
  PROVE  Typed'
<1>. USE RtAssumption DEF Typed, RTypeOK, Once, Shutdown, Domains, world, flags, rvars, qvars
<1>1. CASE LogLine(t)
  <2>1. todo'[t] \in 0 .. 8 /\ todo' \in [Threads -> 0 .. 8]
    BY <1>1 DEF LogLine
  <2>. QED
    BY <1>1, <2>1 DEF LogLine
<1>2. CASE QueueLock(t)
  BY <1>2 DEF QueueLock
<1>3. CASE QueueProceed(t)
  BY <1>3 DEF QueueProceed
<1>4. CASE Die(t)
  BY <1>4 DEF Die
<1>5. CASE UseDestroyedQueue(t)
  BY <1>5 DEF UseDestroyedQueue, CopiesThroughNull
<1>. QED
  BY <1>1, <1>2, <1>3, <1>4, <1>5

LEMMA TaskTypes ==
  ASSUME Typed, Shutdown, QTypeOK', StdinRuns \/ StdinFlush \/ LogRuns
  PROVE  Typed'
<1>. USE RtAssumption
     DEF Typed, RTypeOK, Once, Shutdown, Domains, world, flags, qvars, StdinStep, LogStep, Step, Ready
<1>1. CASE StdinEntry
  BY <1>1 DEF StdinEntry
<1>2. CASE StdinLoop
  BY <1>2 DEF StdinLoop
<1>3. CASE StdinPoll
  BY <1>3 DEF StdinPoll
<1>4. CASE StdinRead
  BY <1>4 DEF StdinRead
<1>5. CASE StdinParse
  BY <1>5 DEF StdinParse
<1>6. CASE StdinStrip
  BY <1>6 DEF StdinStrip
<1>7. CASE StdinFlush
  BY <1>7 DEF StdinFlush
<1>8. CASE StdinCrash
  BY <1>8 DEF StdinCrash
<1>9. CASE MarkDone
  BY <1>9 DEF MarkDone
<1>10. CASE StdinReturns
  BY <1>10 DEF StdinReturns
<1>11. CASE MarkDoneWrite
  <2>1. handle.done_fd \in {-1, 0}
    BY <1>11 DEF MarkDoneWrite, Answer
  <2>2. handle' \in [state : {"init", "running", "stopping", "stopped"},
                     done_fd : -1 .. 1, slot : BOOLEAN]
    BY <1>11, <2>1 DEF MarkDoneWrite
  <2>. QED
    BY <1>11, <2>2 DEF MarkDoneWrite
<1>12. CASE LogLoop
  <2>1. CASE g_log_running /\ g_log_running' = g_log_running
    BY <1>12, <2>1 DEF LogLoop
  <2>2. CASE ~ g_log_running /\ g_log_running' = TRUE
    <3>1. LogStep("loop", "lower", 1) /\ UNCHANGED <<qvars, life, g_log_done_fd>>
      BY <1>12, <2>2 DEF LogLoop
    <3>2. todo' \in [Threads -> 0 .. 8]
      BY <3>1
    <3>3. pc'[Log] = "lower" /\ pc'[Main] = pc[Main] /\ pc'[Stdin] = pc[Stdin] /\ pc[Log] = "loop"
      BY <3>1
    <3>. QED
      BY <2>2, <3>1, <3>2, <3>3
  <2>. QED
    BY <1>12, <2>1, <2>2 DEF LogLoop
<1>13. CASE LogPoll
  BY <1>13 DEF LogPoll
<1>14. CASE LogReceived
  BY <1>14 DEF LogReceived
<1>15. CASE LogReceive
  BY <1>15 DEF LogReceive
<1>16. CASE LogLower
  BY <1>16 DEF LogLower
<1>17. CASE LogFinish
  BY <1>17 DEF LogFinish
<1>18. CASE LogReturns
  BY <1>18 DEF LogReturns
<1>. QED
  BY <1>1, <1>2, <1>3, <1>4, <1>5, <1>6, <1>7, <1>8, <1>9, <1>10, <1>11, <1>12,
     <1>13, <1>14, <1>15, <1>16, <1>17, <1>18
  DEF StdinRuns, LogRuns

LEMMA MainTypes ==
  ASSUME Typed, Shutdown, QTypeOK', MainNext
  PROVE  Typed'
<1>. USE RtAssumption
     DEF Typed, RTypeOK, Once, Shutdown, Domains, world, flags, qvars, MainStep, Step, Ready
<1>. DEFINE Handles == [state : {"init", "running", "stopping", "stopped"},
                        done_fd : -1 .. 1, slot : BOOLEAN]
<1>1. CASE StdinTaskInit
  <2>1. handle' \in Handles
    BY <1>1 DEF StdinTaskInit
  <2>. QED
    BY <1>1, <2>1 DEF StdinTaskInit
<1>2. CASE PthreadCreate
  BY <1>2 DEF PthreadCreate
<1>3. CASE StdinTaskInitFails
  <2>1. handle' \in Handles
    BY <1>3 DEF StdinTaskInitFails
  <2>2. PICK n \in {3, 5, 8} : MainStep("init", "wait", n) \/ MainStep("create", "wait", n)
    BY <1>3 DEF StdinTaskInitFails
  <2>3. todo' \in [Threads -> 0 .. 8]
    BY <2>2
  <2>4. /\ pc'[Main] = "wait" /\ pc[Main] \in {"init", "create"}
        /\ \A t \in {Stdin, Log} : pc'[t] = pc[t]
    BY <2>2
  <2>. QED
    BY <1>3, <2>1, <2>2, <2>3, <2>4 DEF StdinTaskInitFails
<1>4. CASE WaitForSigint
  <2>1. g_sigint_count' = 1
    BY <1>4 DEF WaitForSigint
  <2>2. todo' \in [Threads -> 0 .. 8]
    BY <1>4 DEF WaitForSigint
  <2>3. /\ pc'[Main] = "stop" /\ pc[Main] = "wait"
        /\ \A t \in {Stdin, Log} : pc'[t] = pc[t]
    BY <1>4 DEF WaitForSigint
  <2>. QED
    BY <1>4, <2>1, <2>2, <2>3 DEF WaitForSigint
<1>5. CASE WaitFails
  BY <1>5 DEF WaitFails
<1>6. CASE StopAll
  BY <1>6 DEF StopAll
<1>7. CASE PollAll
  BY <1>7 DEF PollAll
<1>8. CASE PollAllFails
  <2>1. CASE MainStep("poll_all", "join_all", 0) /\ unwaited' = TRUE
    BY <1>8, <2>1 DEF PollAllFails
  <2>2. CASE MainStep("poll_all", "cancel_all", 2) /\ UNCHANGED unwaited
    BY <1>8, <2>2 DEF PollAllFails
  <2>. QED
    BY <1>8, <2>1, <2>2 DEF PollAllFails
<1>9. CASE CancelAll
  BY <1>9 DEF CancelAll
<1>10. CASE JoinAll
  BY <1>10 DEF JoinAll
<1>11. CASE TaskJoin
  BY <1>11 DEF TaskJoin
<1>12. CASE StdinCleanup
  BY <1>12 DEF StdinCleanup
<1>13. CASE DestroyAll
  BY <1>13 DEF DestroyAll
<1>14. CASE LogTaskStop
  BY <1>14 DEF LogTaskStop
<1>15. CASE LogWait
  BY <1>15 DEF LogWait
<1>16. CASE LogWaitFails
  BY <1>16 DEF LogWaitFails
<1>17. CASE LogTaskCancel
  BY <1>17 DEF LogTaskCancel
<1>18. CASE LogTaskJoin
  BY <1>18 DEF LogTaskJoin
<1>19. CASE LogTaskCleanup
  BY <1>19 DEF LogTaskCleanup
<1>20. CASE MainReturns
  BY <1>20 DEF MainReturns
<1>. QED
  BY <1>1, <1>2, <1>3, <1>4, <1>5, <1>6, <1>7, <1>8, <1>9, <1>10, <1>11, <1>12,
     <1>13, <1>14, <1>15, <1>16, <1>17, <1>18, <1>19, <1>20
  DEF MainNext, MainRuns

(* Every variable of the program is what it may be: one answer of each     *)
(* task, one SIGINT that main takes, eight lines to log at most.           *)
THEOREM ProgramTypeCorrect == RSpec => []RTypeOK
<1>1. RInit => Typed
  <2>. SUFFICES ASSUME RInit PROVE Typed
    OBVIOUS
  <2>1. QTypeOK
    <3>1. QInit
      BY DEF RInit
    <3>. QED
      BY <3>1, FifoAssumption DEF QInit, QTypeOK, Slots
  <2>2. Once
    BY RtAssumption DEF RInit, Once
  <2>3. todo \in [Threads -> 0 .. 8] /\ life \in [Threads -> {"none", "live", "ended", "cancelled"}]
    BY DEF RInit
  <2>4. pc[Main] = "init" /\ pc[Stdin] = "entry" /\ pc[Log] = "loop"
    BY RtAssumption DEF RInit
  <2>5. handle \in [state : {"init", "running", "stopping", "stopped"},
                    done_fd : -1 .. 1, slot : BOOLEAN]
    BY DEF RInit
  <2>6. RTypeOK
    BY <2>1, <2>3, <2>4, <2>5 DEF RInit, RTypeOK
  <2>. QED
    BY <2>2, <2>6 DEF Typed
<1>2. QTypeOK /\ QTypeOK' /\ Shutdown /\ Typed /\ [RNext]_rtvars => Typed'
  <2>. SUFFICES ASSUME QTypeOK', Shutdown, Typed, [RNext]_rtvars PROVE Typed'
    OBVIOUS
  <2>1. CASE Interrupt
    BY <2>1 DEF Interrupt, flags, Typed, RTypeOK, Once
  <2>2. CASE UNCHANGED rtvars
    BY <2>2 DEF rtvars, rvars, world, flags, Typed, RTypeOK, Once
  <2>. QED
    BY <2>1, <2>2, QueueTypes, TaskTypes, MainTypes DEF RNext
<1>3. Typed => RTypeOK
  BY DEF Typed
<1>. QED
  BY <1>1, <1>2, <1>3, ShutdownInv, UsesQueue, TypeCorrect, PTL DEF RSpec

===============================================================================
