------------------------------- MODULE RtSystem -------------------------------
(***************************************************************************)
(* The rtsystem program as main.c runs it: the main thread, the stdin task *)
(* and the log task over one log queue, SIGINT through a signalfd, the     *)
(* shutdown sequence, and deferred cancellation (pthread_cancel).          *)
(*                                                                         *)
(* Log lines have no content here (AsyncLog follows them), only their      *)
(* calls: a step that ends in n LOG lines leaves todo = n, and the thread  *)
(* sends them one by one before its next step.  Every send takes the       *)
(* queue's mutex and writes its eventfd, as FifoQueue has it.              *)
(*                                                                         *)
(* g_stdin_tasks has one slot and is used by the main thread only, so the  *)
(* array's mutex is never contended and is left out.                       *)
(***************************************************************************)
EXTENDS FifoQueue

CONSTANTS
  Main, Stdin, Log,
  Impatient,  (* the user may press Ctrl-C again after the first time      *)
  Faults,     (* poll, read and allocations may fail                       *)
  Timely      (* a timeout only expires on a thread that cannot go on      *)

ASSUME RtAssumption ==
  /\ Threads = {Main, Stdin, Log}
  /\ Main # Stdin /\ Main # Log /\ Stdin # Log
  /\ {Impatient, Faults, Timely} \subseteq BOOLEAN

VARIABLES
  pc,             (* where each thread is between its queue calls          *)
  todo,           (* LOG lines each thread sends before its next step      *)
  life,           (* "none", "live", "ended" or "cancelled"                *)
  cancelled,      (* threads pthread_cancel was called on                  *)
  sigint,         (* SIGINT pending on sig_fd                              *)
  g_running, g_sigint_count, g_log_running,
  unwaited,       (* main went on without an answer of its poll            *)
  g_log_done_fd,  (* counter of the eventfd                                *)
  handle,         (* the stdin task's handle: its state, done_fd, and      *)
                  (* whether it is in its slot of g_stdin_tasks            *)
  line,           (* "null" or "allocated": the stdin task's input buffer  *)
  queue           (* "ready" or "destroyed": the log queue                 *)

flags == <<g_running, g_sigint_count, g_log_running, unwaited>>
world == <<life, cancelled, sigint, flags, g_log_done_fd, handle, line>>
rvars == <<pc, todo, queue, world>>
rtvars == <<qvars, rvars>>

Running == pc[Main] \notin {"exited", "crashed"}

(* t is live and between two queue calls, with no LOG line left to send. *)
Ready(t) ==
  /\ Running
  /\ life[t] = "live"
  /\ op[t] = "idle"
  /\ todo[t] = 0

(* A step of t that ends in n LOG lines. *)
Step(t, from, to, n) ==
  /\ pc[t] = from
  /\ Ready(t)
  /\ pc' = [pc EXCEPT ![t] = to]
  /\ todo' = [todo EXCEPT ![t] = n]
  /\ UNCHANGED queue

MainStep(from, to, n)  == Step(Main, from, to, n)
StdinStep(from, to, n) == Step(Stdin, from, to, n) /\ UNCHANGED <<life, cancelled, sigint, flags, g_log_done_fd, line>>
LogStep(from, to, n)   == Step(Log, from, to, n) /\ UNCHANGED <<cancelled, sigint, g_running, g_sigint_count, unwaited, handle, line>>

(* A step that begins at a cancellation point (poll, read, write): a       *)
(* thread with a cancellation pending does not get past it.                *)
NotCancelled(t) == t \notin cancelled

(* main() once log_task_init has succeeded. *)
RInit ==
  /\ QInit
  /\ pc = [t \in Threads |-> IF t = Main THEN "init" ELSE IF t = Log THEN "loop" ELSE "entry"]
  /\ todo = [t \in Threads |-> IF t = Stdin THEN 0 ELSE 1]
  /\ life = [t \in Threads |-> IF t = Stdin THEN "none" ELSE "live"]
  /\ cancelled = {}
  /\ sigint = FALSE
  /\ g_running = TRUE /\ g_sigint_count = 0 /\ g_log_running = TRUE
  /\ unwaited = FALSE
  /\ g_log_done_fd = 0
  /\ handle = [state |-> "init", done_fd |-> 0, slot |-> FALSE]
  /\ line = "null"
  /\ queue = "ready"

-----------------------------------------------------------------------------
(* The log queue, as the threads use it. *)

LogLine(t) ==
  /\ Running
  /\ life[t] = "live"
  /\ todo[t] > 0
  /\ todo' = [todo EXCEPT ![t] = @ - 1]
  /\ \E m \in Items : SendCall(t, m)
  /\ UNCHANGED <<pc, queue, world>>

(* write(event_fd) and read(event_fd), with the mutex held. *)
AtEventFd(t) == op[t] \in {"send_signal", "recv_signal"}

(* fifo_queue_destroy asks for no mutex: a call in the queue goes on       *)
(* behind it, its write to the closed event_fd fails unnoticed, and nobody *)
(* reads that counter again.  But a message that fits is copied to buffer, *)
(* which is null.                                                          *)
CopiesThroughNull(t) ==
  queue = "destroyed" /\ op[t] = "send_locked" /\ count < Capacity

QueueLock(t) ==
  /\ Running
  /\ Acquire(t)
  /\ UNCHANGED rvars

QueueProceed(t) ==
  /\ Running
  /\ life[t] = "live"
  /\ AtEventFd(t) => NotCancelled(t)
  /\ ~ CopiesThroughNull(t)
  /\ Proceed(t)
  /\ UNCHANGED rvars

(* The memcpy of a thread that was neither joined nor stopped. *)
UseDestroyedQueue(t) ==
  /\ Running
  /\ life[t] = "live"
  /\ CopiesThroughNull(t)
  /\ pc' = [pc EXCEPT ![Main] = "crashed"]
  /\ UNCHANGED <<qvars, todo, queue, world>>

(* Where a pending cancellation takes effect: the thread is gone, and what *)
(* it held stays held.  The two fprintf of ALOG count too: that the log    *)
(* task is not running, before a line, and that the queue was full, after  *)
(* it.                                                                     *)
AtCancellationPoint(t) ==
  \/ AtEventFd(t)
  \/ op[t] = "idle" /\ todo[t] > 0 /\ ~ g_log_running
  \/ /\ op[t] = "idle" /\ todo[t] = 0
     /\ \/ pc[t] \in {"poll", "read", "flush", "mark_write"}
        \/ pc[t] \in {"received", "drained"} /\ ret[t] = 0
        \/ pc[t] = "finish"
        \/ t = Stdin /\ pc[t] \in {"loop", "mark", "return"} /\ ret[t] = -1

Die(t) ==
  /\ Running
  /\ life[t] = "live"
  /\ t \in cancelled
  /\ AtCancellationPoint(t)
  /\ life' = [life EXCEPT ![t] = "cancelled"]
  /\ UNCHANGED <<qvars, pc, todo, cancelled, sigint, flags, g_log_done_fd, handle, line, queue>>

(* The mutex of the log queue is held by a thread that is gone. *)
Orphaned == \E t \in Threads : lock = t /\ life[t] = "cancelled"

(* Nothing but input, or a mutex nobody will release, lets t go on. *)
Blocked(t) ==
  \/ t = Stdin /\ pc[t] = "flush" /\ Ready(t)
  \/ op[t] \in {"send_lock", "recv_lock"} /\ Orphaned

MayTimeOut(t) == ~ Timely \/ Blocked(t)

-----------------------------------------------------------------------------
(* The user and the terminal. *)

(* SIGINT is blocked and read from sig_fd, where it does not queue. *)
Interrupt ==
  /\ Running
  /\ g_sigint_count = 0 \/ Impatient
  /\ sigint' = TRUE
  /\ UNCHANGED <<qvars, pc, todo, life, cancelled, flags, g_log_done_fd, handle, line, queue>>

-----------------------------------------------------------------------------
(* main.c, and the functions of task_helper.c and stdin_task.c it calls.   *)

(* stdin_task_init: array, handle and input buffer, then the thread. *)
StdinTaskInit ==
  /\ MainStep("init", "create", 3)
  /\ handle' = [handle EXCEPT !.slot = TRUE]
  /\ line' = "allocated"
  /\ UNCHANGED <<qvars, life, cancelled, sigint, flags, g_log_done_fd>>

PthreadCreate ==
  /\ MainStep("create", "wait", 0)
  /\ life' = [life EXCEPT ![Stdin] = "live"]
  /\ UNCHANGED <<qvars, cancelled, sigint, flags, g_log_done_fd, handle, line>>

(* Any of its steps fails: what was built is undone, and main goes on      *)
(* without the task.  The array is destroyed with its capacity at 0.       *)
StdinTaskInitFails ==
  /\ Faults
  /\ \/ \E n \in {3, 5, 8} : MainStep("init", "wait", n)
     \/ MainStep("create", "wait", 5)
  /\ handle' = [handle EXCEPT !.slot = FALSE, !.state = "stopped"]
  /\ line' = "null"
  /\ UNCHANGED <<qvars, life, cancelled, sigint, flags, g_log_done_fd>>

WaitForSigint ==
  /\ sigint
  /\ MainStep("wait", "stop", 1)
  /\ sigint' = FALSE
  /\ g_sigint_count' = g_sigint_count + 1
  /\ g_running' = FALSE
  /\ UNCHANGED <<qvars, life, cancelled, g_log_running, unwaited, g_log_done_fd, handle, line>>

(* poll on sig_fd fails: log it and return EXIT_FAILURE. *)
WaitFails ==
  /\ Faults
  /\ MainStep("wait", "return", 1)
  /\ UNCHANGED <<qvars, world>>

StopAll ==
  /\ MainStep("stop", "poll_all", IF handle.slot THEN 2 ELSE 1)
  /\ handle' = IF handle.slot THEN [handle EXCEPT !.state = "stopping"] ELSE handle
  /\ UNCHANGED <<qvars, life, cancelled, sigint, flags, g_log_done_fd, line>>

(* task_array_poll_all, by what it returns. *)
PollAll ==
  /\ \/ /\ ~ handle.slot \/ (handle.done_fd > 0 /\ ~ sigint)
        /\ MainStep("poll_all", "join_all", 0)
     \/ /\ handle.slot
        /\ sigint \/ (handle.done_fd = 0 /\ MayTimeOut(Stdin))
        /\ MainStep("poll_all", "cancel_all", 1)
  /\ UNCHANGED <<qvars, world>>

(* A poll that fails is counted as no task completed, and nobody looks at  *)
(* that count; without memory for the poll the tasks are cancelled.        *)
PollAllFails ==
  /\ Faults
  /\ handle.slot
  /\ \/ MainStep("poll_all", "join_all", 0) /\ unwaited' = TRUE
     \/ MainStep("poll_all", "cancel_all", 2) /\ UNCHANGED unwaited
  /\ UNCHANGED <<qvars, life, cancelled, sigint, g_running, g_sigint_count, g_log_running,
                 g_log_done_fd, handle, line>>

CancelAll ==
  /\ MainStep("cancel_all", "join_all", 2)
  /\ cancelled' = cancelled \cup {Stdin}
  /\ UNCHANGED <<qvars, life, sigint, flags, g_log_done_fd, handle, line>>

(* A task whose done_fd is not readable is taken to be stuck and skipped. *)
JoinAll ==
  /\ \/ MainStep("join_all", "join", 0) /\ handle.slot /\ handle.done_fd > 0
     \/ MainStep("join_all", "cleanup", 2) /\ handle.slot /\ handle.done_fd = 0
     \/ MainStep("join_all", "cleanup", 1) /\ ~ handle.slot
  /\ UNCHANGED <<qvars, world>>

(* Faulty variant: pthread_join does not wait. *)
TaskJoinAtOnce ==
  /\ MainStep("join", "cleanup", 2)
  /\ UNCHANGED <<qvars, world>>

TaskJoin ==
  /\ life[Stdin] \in {"ended", "cancelled"}
  /\ MainStep("join", "cleanup", 2)
  /\ UNCHANGED <<qvars, world>>

(* task_array_handles_destroy_all: on_cleanup frees the input buffer ... *)
StdinCleanup ==
  /\ MainStep("cleanup", "destroy", IF handle.slot THEN 1 ELSE 0)
  /\ line' = "null"
  /\ UNCHANGED <<qvars, life, cancelled, sigint, flags, g_log_done_fd, handle>>

(* ... the handle is closed; then task_array_destroy. *)
DestroyAll ==
  /\ MainStep("destroy", "log_stop", IF handle.slot THEN 3 ELSE 2)
  /\ handle' = [state |-> "stopped", done_fd |-> -1, slot |-> FALSE]
  /\ UNCHANGED <<qvars, life, cancelled, sigint, flags, g_log_done_fd, line>>

LogTaskStop ==
  /\ MainStep("log_stop", "log_wait", 0)
  /\ g_log_running' = FALSE
  /\ UNCHANGED <<qvars, life, cancelled, sigint, g_running, g_sigint_count, unwaited, g_log_done_fd, handle, line>>

(* poll on g_log_done_fd and sig_fd, 3000 ms; done is looked at first. *)
LogWait ==
  /\ \/ MainStep("log_wait", "log_join", 0) /\ g_log_done_fd > 0
     \/ MainStep("log_wait", "log_cancel", 0) /\ g_log_done_fd = 0 /\ (sigint \/ MayTimeOut(Log))
  /\ UNCHANGED <<qvars, world>>

LogWaitFails ==
  /\ Faults
  /\ MainStep("log_wait", "return", 0)
  /\ UNCHANGED <<qvars, world>>

LogTaskCancel ==
  /\ MainStep("log_cancel", "log_join", 0)
  /\ cancelled' = cancelled \cup {Log}
  /\ UNCHANGED <<qvars, life, sigint, flags, g_log_done_fd, handle, line>>

(* Faulty variant: one line more, now that the log task is joined. *)
LogTaskJoinLogs ==
  /\ life[Log] \in {"ended", "cancelled"}
  /\ MainStep("log_join", "log_cleanup", 1)
  /\ UNCHANGED <<qvars, world>>

LogTaskJoin ==
  /\ life[Log] \in {"ended", "cancelled"}
  /\ MainStep("log_join", "log_cleanup", 0)
  /\ UNCHANGED <<qvars, world>>

LogTaskCleanup ==
  /\ Ready(Main)
  /\ pc[Main] = "log_cleanup"
  /\ pc' = [pc EXCEPT ![Main] = "return"]
  /\ queue' = "destroyed"
  /\ g_log_done_fd' = -1
  /\ UNCHANGED <<qvars, todo, life, cancelled, sigint, flags, handle, line>>

(* Returning from main ends the process, and every thread with it. *)
MainReturns ==
  /\ MainStep("return", "exited", 0)
  /\ UNCHANGED <<qvars, world>>

MainRuns ==
  /\ Ready(Main)
  /\ \/ StdinTaskInit \/ PthreadCreate \/ WaitForSigint
     \/ StopAll \/ PollAll \/ CancelAll \/ JoinAll \/ TaskJoin
     \/ StdinCleanup \/ DestroyAll
     \/ LogTaskStop \/ LogWait \/ LogTaskCancel \/ LogTaskJoin \/ LogTaskCleanup
     \/ MainReturns

MainNext == MainRuns \/ StdinTaskInitFails \/ WaitFails \/ PollAllFails \/ LogWaitFails

-----------------------------------------------------------------------------
(* stdin_task.c: stdin_task() and task_handle_mark_done.  How input is cut *)
(* into lines does not matter here, only where the thread can be.          *)

StdinEntry ==
  /\ StdinStep("entry", "loop", 1)
  /\ handle' = [handle EXCEPT !.state = "running"]
  /\ UNCHANGED qvars

StdinLoop ==
  /\ \/ StdinStep("loop", "poll", 0) /\ g_running /\ handle.state = "running"
     \/ StdinStep("loop", "mark", 1) /\ ~ (g_running /\ handle.state = "running")
  /\ UNCHANGED <<qvars, handle>>

(* Input, none within 100 ms, or a failure that is logged. *)
StdinPoll ==
  /\ NotCancelled(Stdin)
  /\ \/ StdinStep("poll", "read", 0)
     \/ StdinStep("poll", "loop", 0)
     \/ StdinStep("poll", "loop", 1) /\ Faults
  /\ UNCHANGED <<qvars, handle>>

(* Bytes, end of file, or a failure: EFAULT once the buffer is freed. *)
StdinRead ==
  /\ NotCancelled(Stdin)
  /\ \/ StdinStep("read", "parse", 0) /\ line = "allocated"
     \/ StdinStep("read", "loop", 0)
     \/ StdinStep("read", "loop", 1) /\ (Faults \/ line = "null")
  /\ UNCHANGED <<qvars, handle>>

(* A line to log, an empty one, or one that fills the buffer. *)
StdinParse ==
  /\ line = "allocated"
  /\ \/ StdinStep("parse", "loop", 1)
     \/ StdinStep("parse", "loop", 0)
     \/ StdinStep("parse", "flush", 1)
  /\ UNCHANGED <<qvars, handle>>

(* read without poll, until there is a newline: it waits for the user. *)
StdinFlush ==
  /\ NotCancelled(Stdin)
  /\ StdinStep("flush", "strip", 0)
  /\ UNCHANGED <<qvars, handle>>

StdinStrip ==
  /\ line = "allocated"
  /\ StdinStep("strip", "loop", 1)
  /\ UNCHANGED <<qvars, handle>>

(* line[...] after the main thread has freed it and set it to NULL. *)
StdinCrash ==
  /\ line = "null"
  /\ Ready(Stdin)
  /\ pc[Stdin] \in {"parse", "strip"}
  /\ pc' = [pc EXCEPT ![Main] = "crashed"]
  /\ UNCHANGED <<qvars, todo, queue, world>>

(* Faulty variant: done_fd is readable before the task is done. *)
MarkDoneEarly ==
  /\ StdinStep("mark", "mark_write", 0)
  /\ handle' = [handle EXCEPT !.state = "stopped", !.done_fd = 1]
  /\ UNCHANGED qvars

MarkDone ==
  /\ StdinStep("mark", "mark_write", 0)
  /\ handle' = [handle EXCEPT !.state = "stopped"]
  /\ UNCHANGED qvars

(* The write to a done_fd that is closed fails, unnoticed. *)
MarkDoneWrite ==
  /\ NotCancelled(Stdin)
  /\ StdinStep("mark_write", "return", 1)
  /\ handle' = IF handle.done_fd = -1 THEN handle ELSE [handle EXCEPT !.done_fd = @ + 1]
  /\ UNCHANGED qvars

StdinReturns ==
  /\ Ready(Stdin)
  /\ pc[Stdin] = "return"
  /\ life' = [life EXCEPT ![Stdin] = "ended"]
  /\ UNCHANGED <<qvars, pc, todo, cancelled, sigint, flags, g_log_done_fd, handle, line, queue>>

StdinRuns ==
  /\ Ready(Stdin)
  /\ \/ StdinEntry \/ StdinLoop \/ StdinPoll \/ StdinRead \/ StdinParse \/ StdinStrip
     \/ StdinCrash \/ MarkDone \/ MarkDoneWrite \/ StdinReturns

-----------------------------------------------------------------------------
(* log_task.c: log_task(), as in AsyncLog, under cancellation. *)

LogLoop ==
  /\ \/ LogStep("loop", "poll", 0) /\ g_log_running /\ UNCHANGED g_log_running
     \/ LogStep("loop", "lower", 1) /\ ~ g_log_running /\ g_log_running' = TRUE
  /\ UNCHANGED <<qvars, life, g_log_done_fd>>

LogPoll ==
  /\ NotCancelled(Log)
  /\ \/ LogStep("poll", "receive", 0) /\ Readable
     \/ LogStep("poll", "loop", 0) /\ (~ Readable \/ Faults)
  /\ UNCHANGED <<qvars, life, g_log_running, g_log_done_fd>>

LogReceive ==
  /\ LogStep("receive", "received", 0) \/ LogStep("drain", "drained", 0)
  /\ RecvCall(Log)
  /\ UNCHANGED <<life, g_log_running, g_log_done_fd>>

LogReceived ==
  /\ \/ /\ ret[Log] = 0 /\ NotCancelled(Log)
        /\ LogStep("received", "receive", 0) \/ LogStep("drained", "drain", 0)
     \/ /\ ret[Log] # 0
        /\ LogStep("received", "loop", 0) \/ LogStep("drained", "finish", 0)
  /\ UNCHANGED <<qvars, life, g_log_running, g_log_done_fd>>

(* Faulty variant: the final drain is left out. *)
LogLowerUndrained ==
  /\ LogStep("lower", "finish", 0)
  /\ g_log_running' = FALSE
  /\ UNCHANGED <<qvars, life, g_log_done_fd>>

LogLower ==
  /\ LogStep("lower", "drain", 0)
  /\ g_log_running' = FALSE
  /\ UNCHANGED <<qvars, life, g_log_done_fd>>

(* Faulty variant: g_log_done_fd is not written. *)
LogFinishSilent ==
  /\ NotCancelled(Log)
  /\ LogStep("finish", "return", 0)
  /\ UNCHANGED <<qvars, life, g_log_running, g_log_done_fd>>

LogFinish ==
  /\ NotCancelled(Log)
  /\ LogStep("finish", "return", 0)
  /\ g_log_done_fd' = g_log_done_fd + 1
  /\ UNCHANGED <<qvars, life, g_log_running>>

LogReturns ==
  /\ Ready(Log)
  /\ pc[Log] = "return"
  /\ life' = [life EXCEPT ![Log] = "ended"]
  /\ UNCHANGED <<qvars, pc, todo, cancelled, sigint, flags, g_log_done_fd, handle, line, queue>>

LogRuns ==
  /\ Ready(Log)
  /\ \/ LogLoop \/ LogPoll \/ LogReceive \/ LogReceived \/ LogLower \/ LogFinish
     \/ LogReturns

-----------------------------------------------------------------------------
RNext ==
  \/ Interrupt
  \/ \E t \in Threads :
       LogLine(t) \/ QueueLock(t) \/ QueueProceed(t) \/ UseDestroyedQueue(t) \/ Die(t)
  \/ MainNext
  \/ StdinRuns \/ StdinFlush
  \/ LogRuns

RSpec == RInit /\ [][RNext]_rtvars

(* Threads that can run do, and a pending cancellation is acted on where   *)
(* it can be.  Nothing obliges a call of main to fail, or the user to      *)
(* press a key.                                                            *)
InQueue(t) == LogLine(t) \/ QueueLock(t) \/ QueueProceed(t) \/ Die(t)

RFairness ==
  /\ WF_rtvars(MainRuns \/ InQueue(Main))
  /\ WF_rtvars(StdinRuns \/ InQueue(Stdin))
  /\ WF_rtvars(LogRuns \/ InQueue(Log))

RFairSpec == RSpec /\ RFairness

-----------------------------------------------------------------------------
(* Values of the program's variables. *)
RTypeOK ==
  /\ QTypeOK
  /\ pc[Main] \in {"init", "create", "wait", "stop", "poll_all", "cancel_all", "join_all",
                   "join", "cleanup", "destroy", "log_stop", "log_wait", "log_cancel",
                   "log_join", "log_cleanup", "return", "exited", "crashed"}
  /\ pc[Stdin] \in {"entry", "loop", "poll", "read", "parse", "flush", "strip", "mark",
                    "mark_write", "return"}
  /\ pc[Log] \in {"loop", "poll", "receive", "received", "lower", "drain", "drained",
                  "finish", "return"}
  /\ todo \in [Threads -> 0 .. 8]
  /\ life \in [Threads -> {"none", "live", "ended", "cancelled"}]
  /\ cancelled \subseteq {Stdin, Log}
  /\ sigint \in BOOLEAN
  /\ g_running \in BOOLEAN /\ g_sigint_count \in {0, 1} /\ g_log_running \in BOOLEAN
  /\ unwaited \in BOOLEAN
  /\ g_log_done_fd \in -1 .. 1
  /\ handle \in [state : {"init", "running", "stopping", "stopped"},
                 done_fd : -1 .. 1, slot : BOOLEAN]
  /\ line \in {"null", "allocated"}
  /\ queue \in {"ready", "destroyed"}

Gone(t) == life[t] \in {"none", "ended", "cancelled"}

(* main is past task_array_destroy. *)
TasksReleased ==
  pc[Main] \in {"log_stop", "log_wait", "log_cancel", "log_join", "log_cleanup"}

(* task_array_join_all holds the array's mutex while it waits for a thread *)
(* whose done_fd is readable: by then the thread has nothing left to do    *)
(* but its last log line, so the wait cannot be for input.                 *)
JoinIsShort ==
  pc[Main] = "join" => pc[Stdin] = "return"

(* An ordered shutdown: unless a task was cancelled, or main could not     *)
(* wait for it, its buffer is freed and its handle closed only after its   *)
(* thread has ended.                                                       *)
Forced == cancelled # {} \/ unwaited

ReleasedAfterEnd ==
  (pc[Main] = "destroy" \/ TasksReleased) /\ ~ Forced => Gone(Stdin)

(* An ordered shutdown: unless a thread was cancelled or not waited for,   *)
(* the log queue is destroyed empty, with its mutex free.                  *)
DestroyedEmpty ==
  pc[Main] = "log_cleanup" /\ ~ Forced => count = 0 /\ lock = NoThread

(* A crash takes a task that main gave up on: nobody touches the buffer or *)
(* the queue after they are freed, unless it was cancelled, or the poll    *)
(* that main should wait in failed.                                        *)
CrashOnlyWhenForced == pc[Main] = "crashed" => Stdin \in cancelled \/ unwaited

(* Ctrl-C ends the program, or a thread was cancelled inside the queue.    *)
(* (Each disjunct holds for ever once it does, as does the condition.)     *)
EndsUnlessOrphaned ==
  []<>(g_sigint_count > 0 => pc[Main] \in {"exited", "crashed"} \/ Orphaned)

(* What such a thread does to main.  If it is the log task, nothing: main  *)
(* logs no line after it has joined it.  If it is the stdin task, main may *)
(* wait for the mutex, or for the log task that waits for it; but never    *)
(* for anything else.                                                      *)
HungAtMutex ==
  \/ op[Main] = "send_lock"
  \/ pc[Main] = "log_join" /\ op[Log] \in {"send_lock", "recv_lock"}

HangIsTheMutex ==
  []<>(g_sigint_count > 0 /\ Orphaned =>
         \/ pc[Main] \in {"exited", "crashed"}
         \/ lock = Stdin /\ HungAtMutex)

(* Ctrl-C ends the program: main.c, line 93, "Poll for task completion or  *)
(* force cancel on second SIGINT", and line 122, "Poll for log_task        *)
(* completion or force kill on second SIGINT".                             *)
Ends == g_sigint_count > 0 ~> pc[Main] \in {"exited", "crashed"}

===============================================================================
