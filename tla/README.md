# A TLA+ model of TTK4145_gruppe_41

The repository is the work of a course group in real-time programming. Its core
is **rtsystem**, a small C runtime with asynchronous logging, task handles, and a
shutdown that Ctrl-C begins and a second Ctrl-C forces. Around it are the course
exercises: a bounded buffer and a shared variable (exercise 1, in C and in Go),
and network programs (exercise 2, in C and in D). This directory models all of
them, checks the models with TLC, and proves part of what is checked with TLAPS.

Paths below are relative to the repository. `PROJECT.json` maps every definition
of the models to the lines it stands for.

## 1. Inventory

### rtsystem

| Part | State | Operations | Uses |
|---|---|---|---|
| **FIFO queue** `core/fifo_queue.c` | ring buffer, `head`, `tail`, `count`, a priority-inheritance mutex, a semaphore-mode eventfd | `init`, `destroy`, `send`, `receive`, `count` | – |
| **Asynchronous logging** `async_log_helper.h` | none of its own | `LOGE` … `LOGD`, all through `ALOG`: test `g_log_running`, stamp, send, complain on stderr when the queue is full | queue, flag |
| **Log task** `tasks/log_task.c` | `g_log_queue`, `g_log_running`, `g_log_done_fd`, its thread | `init`, the thread, `stop`, `join`, `cancel`, `cleanup` | queue |
| **Task handles and arrays** `core/task_helper.c` | per task: state, `done_fd`, array it is in; per array: slots, mutex | `init`, `destroy`, `mark_done`, `stop`, `join`, `cancel` of a handle; `add`, `remove`, `stop_all`, `poll_all`, `cancel_all`, `join_all`, `handles_destroy_all`, `destroy` of an array | logging |
| **Stdin task** `tasks/stdin_task.c` | its handle, its one-slot array `g_stdin_tasks`, the input buffer `line` | `init`, the thread, `on_cleanup` | handles, logging |
| **Main program** `main/main.c` | `g_running`, `g_sigint_count`, `sig_fd`, `force_cancel` | start, wait for SIGINT, the three shutdown loops over the task arrays, the shutdown of the log task | all of the above |

There are three threads: main, the stdin task and the log task. They meet at the
mutex of the log queue (every log line takes it), at three eventfds
(`log_queue.event_fd`, `done_fd`, `g_log_done_fd`), at the flags `g_running`,
`g_log_running` and `handle.state` (written by one thread and read by others
without a lock), and at `pthread_cancel` and `pthread_join`. The array's mutex is
taken by the main thread only.

What is hard here, and what makes each part correct:

- **Queue.** Items come out once, in order; a full or empty queue is reported.
  The eventfd is written inside the mutex but polled outside it, so it must count
  the items exactly, or the log task misses a wakeup. `write` and `read` of it are
  cancellation points, with the mutex held.
- **Logging.** A stamped message is printed or reported, never lost in silence
  and never printed twice, also while the log task stops: it drains the queue,
  raises the flag again for its own last line, and ends at the first empty receive.
- **Handles and arrays.** The handle and the slot name each other; the mutex that
  `handles_destroy_all` holds is not asked for again by `task_handle_destroy`;
  `join_all` joins, under the mutex, only who has nothing left to do; a second
  Ctrl-C reaches the arrays that follow.
- **Shutdown.** The program ends although the stdin task may wait for input,
  timeouts race with late answers, tasks are cancelled at cancellation points, and
  initialisation may have failed half way; buffers are freed after their users.

### Exercise 1

- **Bounded buffer.** C (`main.c`, `ringbuf.c`): one producer, one consumer, two
  semaphores, a mutex and a ring; main joins the producer, cancels the consumer
  and frees the buffer. Go (`main.go`): a buffered channel.
- **Shared variable.** C (`foo.c`): two threads add and subtract under a mutex. Go
  (`foo.go`): a goroutine that owns the number, two that send it messages, and a
  drain after both have said that they are done.

### Exercise 2

| Part | State | Operations | Talks to |
|---|---|---|---|
| **Sender** `udp_tcp_sender.c` | `running`, `repetitions`, the message, its socket | options, `connect` (TCP), then send, count down, sleep | a receiver |
| **UDP receiver** `udp_receiver.c` | `running`, `repetitions`, `rx_buf` and its size | options, `bind`, then receive, terminate, strip newlines, log, count down | any senders |
| **TCP receiver** `tcp_receiver.c` | the same, and the connection `client_fd` | options, `listen`, then accept; receive until the client is through; accept the next | one client at a time, the others in the backlog |
| **Echo server** `server_wfh.d` | a buffer per receiver thread; the spawned threads | accept, receive and answer on each connection, connect to who it is told to, echo datagrams, announce itself | TCP and UDP peers, itself in symmetric mode |

The three C programs share their options, their signal handler and how they count
repetitions, almost word for word. A signal clears `running` and interrupts the call
that the program waits in; `running` is looked at between calls only.

What is hard here, and what makes each part correct:

- **Signals.** One that arrives between the test of `running` and the blocking call
  interrupts nothing, and is not seen before that call returns.
- **Repetitions.** -1 is endless and 0 sends one message; the counter of the TCP
  receiver goes over all its clients and has to leave two loops.
- **The network.** Datagrams are lost, late or duplicated, and `recvfrom` with
  `MSG_TRUNC` returns a size that may be beyond the buffer. A stream is cut and joined
  without regard to messages, and a signal makes a send stop half way: every byte a
  client wrote must still be logged, once and in order, when its end is seen.
- **Clients in turn.** Who has connected is served in the end, unless somebody before
  him never ends.
- **Echo server.** The buffer of a receiver is used again for each message, so what is
  left of an earlier one must not be answered, nor hide that the `'\0'` is missing. The end
  of a message is looked for in characters and cut in bytes. Exceptions that nobody catches
  end a thread: of a character cut in two, of a missing `'\0'`, of the address of a
  connection that is reset. In symmetric mode the server receives its own answers and
  must not answer them.

Left out for good: the synchronous log macros (no state, formatting only), build
files and course texts.

## 2. Modules

| Module | Models | Lines of the argument |
|---|---|---|
| `BoundedFifo` | what `fifo_queue.h` promises: an atomic bounded FIFO whose calls take effect between call and return | abstract specification |
| `FifoQueue` | `fifo_queue.c`, step by step | implements `BoundedFifo` |
| `FifoQueueProofs` | – | proofs about `FifoQueue` |
| `AsyncLog` | `ALOG`, `log_task()` and the owner that stops it as `log_task.h` asks | extends `FifoQueue`: every send and receive is the detailed one |
| `AsyncLogProofs` | – | proofs about `AsyncLog` |
| `TaskHelper` | `task_helper.c` and the loops of `main.c` over the arrays, for any number of arrays, each of any size | – |
| `TaskHelperProofs` | – | proofs about `TaskHelper` |
| `RtSystem` | `main.c` from `log_task_init` to `exit`, with the stdin task, the log task, SIGINT and cancellation | extends `FifoQueue` |
| `RtSystemProofs` | – | proofs about `RtSystem` |
| `GoBuffer` | `main.go` of the bounded buffer | abstract specification |
| `BoundedBuffer` | `main.c` and `ringbuf.c` of the bounded buffer | implements `GoBuffer` until the buffer is freed |
| `BoundedBufferProofs` | – | proofs about `BoundedBuffer` |
| `NumberServer` | `foo.go` | – |
| `SharedVariable` | `foo.c`; no TLC run | – |
| `ExerciseProofs` | – | proofs about `SharedVariable` (as instance `C`), `NumberServer` and `EchoServer` |
| `StdinTask` | `stdin_task.c`: input cut into lines | – |
| `StdinTaskProofs` | – | proofs about `StdinTask` |
| `NetProgram` | what the three C programs of exercise 2 share: options, countdown, signal handler | – |
| `Sender` | `udp_tcp_sender.c`, with the network it writes to | extends `NetProgram` |
| `UdpReceiver` | `udp_receiver.c`; start, buffer and log also of `tcp_receiver.c` | extends `Sender` |
| `TcpReceiver` | `tcp_receiver.c` | extends `UdpReceiver` |
| `Exchange` | senders and the receiver of their protocol, with signals | composes the four |
| `ExchangeProofs` | – | proofs about `Exchange` |
| `EchoServer` | `server_wfh.d` | – |
| `MCAsyncLog`, `MCTaskHelper`, `MCExchange` | – | values for TLC |

Definitions named "Faulty variant" are in no specification. They are plausible
mistakes in the code: put in the place of the definition that follows them, each
makes the run that names it fail (`mutants` in `PROJECT.json`), which shows that
the properties can fail.

### Grain and correspondence

**Queue.** A call is cut at the mutex and at the eventfd. The code between lock and
eventfd is one step, because only the holder of the mutex can be there.
`item[t]` is the object a thread's argument points to, `ret[t]` what its last call
returned. `fifo_queue_init` is the initial state and `fifo_queue_destroy` is part of
`RtSystem`; `fifo_queue_count` has no caller.

**Logging.** A message is its sender and its timestamp, and the clock moves at
every reading. `ALOG` is one step (test the flag, stamp, call send); the send goes
on in the queue. `dropped` are the messages answered by "log queue full", `warned`
the threads answered by the warning that the log task is not running. Once
`MaxMessages` messages have been stamped, the log task's own lines are left out
and everything else goes on.

**Tasks.** `mpc` is the place of the main thread, `arr` and `slot` its loop indices,
`cur` the handle it works on; one step is one loop body. `Held` says which array
mutex it holds at that place. A task's thread is the loop of the stdin task: it may
be stuck in its work until input comes. Tasks are added, or fail to be, in any
order before the first Ctrl-C. `task_stop` on a single task has no caller in the
program and is modelled because the header offers it.

**The whole program.** A step that ends in *n* log lines leaves `todo = n`, and the
thread sends these lines one by one, each through the detailed queue, before its next
step. So every log line can be the one during which a thread is cancelled, or wait
for the mutex. Lines have no content here. Deferred cancellation takes effect at
the cancellation points of the code: `poll`, `read`, `write` of the eventfds, and
the two `fprintf` of `ALOG` (the log task is not running, the message is refused);
`pthread_mutex_lock` is none. A thread that is in the queue when main destroys it goes on:
the mutex still works, the write to the closed eventfd fails unnoticed, and only the copy to
the buffer, which is null, is a crash. A cancelled thread
keeps what it holds: the mutex has priority inheritance but is not robust, so a
waiter on a dead owner waits for ever. SIGINT does not queue in `sig_fd`, and the
second one is looked at but not read, as in the code. A `poll` that fails counts as
"no task completed", as in the code. After `stdin_task_init` failed, the array is
destroyed and its capacity is 0, so main's loops over it do nothing but lock and
unlock the destroyed mutex, which glibc answers with an error or a success, and
neither matters.

**Bounded buffer.** One step per semaphore or mutex operation, `rb_push` and `rb_pop`
with their asserts. How long threads sleep is left out. Using the buffer after
`free` is a choice of what a build can do: the value is not one that was pushed, or
the program is killed.

**History variables.** `skipped`, `asked` and `unanswered` in `TaskHelper`, `unwaited` in
`RtSystem`, `answers`, `dropped` and `warned` elsewhere record what happened and steer
nothing. `unanswered` and `unwaited` say that a poll of the array failed and main went on as if
it had been answered: only after that, or after a cancel, may a task be left running.

**Stdin task.** A byte is its position in the input, and all that is known of it is
whether it is a newline. A terminal hands out a line when it is complete and never
more than that line; a pipe or file hands out any part of what is there. One step is
one `read` with what is done with its bytes. `line` and `logged` are intervals of positions.
A line is logged through `message[256]` of `log_message_t`, behind the 16 bytes "input
received: ", so that `snprintf` leaves room for `MessageRoom` = 239 bytes of it and drops the
rest; with `main.c`'s buffer of 256 bytes that happens to lines of 240 bytes and more. `logged` has
what is kept of a line, and the `piece` of input that it is the beginning of.

**Exercise 2, the C programs.** `pc` is the place of each program. "send", "accept" and
"recv" are the window between the test of `running` and the call; "sending",
"accepting" and "receiving" are inside the call, where a signal makes it return
`EINTR`. `signalled` says whether the first signal fell into the window ("missed") or not. A
datagram is its sender and its number, and `inflight` says how many copies of it may
still come, in any order; a stream is how many bytes were `written` and `taken`, and byte
*b* is a newline or not by its place in the message that is sent again and again.
`SockBuf` bytes fit into a connection, so a send may have to wait, or be cut short.
`heap` is "overrun" after a write behind `rx_buf`; then the program may be killed at any step,
or go on. Command lines are records of what follows `-s`, `-r` and `-m`.

**Echo server.** What a peer sends is known by positions too, and each byte is text of ASCII, the
`'\0'`, the first or the second byte of a character of two, or stands for a whole command to
connect. `buf` holds positions, so what is answered can be compared with what was said. `Text` is
what the slice `buf[0..n]` holds when `n` is a number of characters: too few bytes if one of them is
longer than a byte. A thread that an exception or a `RangeError` ends is "dead", and its socket is
open: of a buffer without `'\0'`, of half a character, of a reset (`remoteAddress` throws); the
accepter dies of a connection that is reset in the backlog, the UDP echoer of a broken
character. The accepter, the receivers and the UDP echoer are threads of their own, and peers
connect, talk, close and reset at any time. The prefix of an echo is looked for in the bytes received, so it
is never found when there is room for less than `PrefixSize` = 8 of them.

## 3. Runs

All "pass" runs end with every reachable state visited.

| Run | Instance | Shows |
|---|---|---|
| `fifo` | 2 threads, 2 items, capacity 3 | `QInv` (the inductive invariant), no lost wakeup, every call returns, `BoundedFifo` is implemented |
| `alog` | log task and 2 clients, 4 messages, capacity 2, polls may fail | each message is in exactly one place, the drain is complete, order per sender, the flag and the stop agree, a stop is answered, every message comes out |
| `alog_order` | the same, 3 messages | **violated**: stderr is chronological |
| `tasks` | 2 tasks, arrays of 2 and 1 slots, failures, repeated Ctrl-C, any timing | slots and handles agree, no self-deadlock, force reaches the last array, a task is only left running behind one that is done or after a failed poll, `task_stop` is heeded by who has begun, the loops end |
| `rt_live` | the program, queue of 1, calls may fail, Ctrl-C again at any time | joins are short, ordered release of buffer and queue, crashes only after a cancel or a failed poll, and the program ends unless a cancelled thread holds the queue's mutex; also then, if that is the log task, and otherwise main waits for this mutex or for the log task that does |
| `rt_hang` | the same, without failing calls | **violated**: Ctrl-C ends the program |
| `bounded` | 6 values, buffer of 3 | semaphores, mutex and ring agree, asserts hold, the program ends, the Go channel is implemented |
| `bounded_freed` | 3 values, buffer of 2 | **violated**: a pop returns what was pushed |
| `numbers` | 4 messages each, channels of 3 | -1 is printed, and printed in the end |
| `exchange` | 2 senders and the receiver, UDP or TCP, signals, failing calls of one sender and the receiver | `-r` is exact, what a client wrote is logged once it has disconnected, datagrams are logged whole until one is too long for the buffer, signals are heeded but in the window, clients are served in turn |
| `stdin` | 8 bytes, a buffer of 4, messages with room for 2, flushes of 3, terminal or pipe | lines of a terminal are logged one by one as far as buffer and message go, from a pipe only the end of a long message is cut off and a flush takes less than a chunk past the newline, input is read to its end and the task stops |
| `echo` | a client, a peer to connect to, 4 bytes, a buffer of 3, a prefix of 2, a datagram, symmetric mode | what is answered was said by this peer, in one piece, in order and once; a receiver dies of a reset or of what it just received only; leaving peers are noticed, echoing ends |

**Why these bounds are enough.** The queue of three slots wraps around, and is full
and empty with both threads inside a call; the proofs cover other sizes. A log queue
of two slots is full before the log task has run, so refusals, waits for the mutex and
empty receives all occur, and order can be wrong; four messages are the log task's two lines and one for each client, or
several of one client. Two tasks and two arrays give a full array, a failed add, one
task done and the other not, an empty array before or after a used one, and a
force at the first or second array. Six values go twice around a ring of three.
Channels of three are shorter than the four messages sent. `RtSystem` has exactly the
threads and the slot of the program; a queue of one makes the full queue as
frequent as it can be.

In `exchange` one sender is endless with a message of three bytes that ends in a newline, and the
other sends once, truncated to the two bytes before it, or has its options refused. The
receiver's buffer has room for either message, and it receives without end; or for the shorter
only, and it receives twice; or it holds nothing but the `'\0'` (so every datagram is overlong); or it is
refused. So a stream of two messages is read in as many as six parts before its client is seen
to be through; a datagram has two bytes to be torn between; and one of three bytes is too long for the
second buffer. `-r` is -1, 0, 1 and 2, so each case of the countdown occurs. Two messages of a sender
and two copies of a datagram give loss, duplication and reordering; a connection of three bytes
has room for one message and not for the next, so that sends wait and are cut short; two clients
make one wait in the backlog. `MaxSends` holds back a sender that is left running, not one that was
told to stop. Eight bytes of input in `stdin` are lines that are empty, fit the message, fit the buffer
and not the message, just fill the buffer, or go on over several flushes, with the next line behind
them. In `echo` four bytes are a message and what is left of it under the next, a full buffer without
`'\0'`, text behind a `'\0'`, a character whole or cut in two, and a command; the prefix of an echo
fits into the buffer, as in the server's default.

`Timely = TRUE` (in `rt_*`) says that the timeouts of
1 s and 3 s only expire on a thread that cannot go on; with `FALSE` (`tasks`) they
expire at any time. The violation of `rt_hang` is thus not an artefact of slow threads.
`CHECK_DEADLOCK FALSE` is set where the program ends, or hangs for good, in a state
without successor (`RtSystem`, `TaskHelper`, `Exchange`, `StdinTask`, `EchoServer`).

**Fairness.** Weak fairness for each running thread: the scheduler lets a thread that
can run do so. No step that is a failure of a call (`PollAllFails`, `LogWaitFails`,
`StdinTaskInitFails`, `WaitFails`, `PollFails`, `PthreadCreateFails`, `SendFails`, `ReceiverFails`,
`UdpRecvFails`, `TcpRecvFails`, `AcceptFails`) is obliged to
happen, so liveness never rests on one. Strong fairness is assumed in two places.
In `FifoQueue`, where callers come back for ever, for taking the mutex: it has priority
inheritance, so the kernel hands it to a waiter and nobody is overtaken for ever.
In `AsyncLog`, for a poll that finds the queue readable: a poll may fail, but not
every time. Where calls are finitely many (`AsyncLog`, and `RtSystem` after Ctrl-C), weak
fairness is enough for the mutex. A timeout that is the only way on expires. Nothing
obliges the user to type or to press Ctrl-C, a client to log, a datagram to arrive, a signal to
come, a send to be cut short, or a peer of the echo server to do anything. The bytes of a
connection do arrive: TCP sends them again.

## 4. What the violations show

1. **`Chronological`.** `ALOG` reads the clock before it takes the mutex; another thread
   can stamp later and be queued earlier. The header promises chronological order.
2. **`Ends`.** A thread cancelled at the eventfd of the log queue dies with its mutex,
   and main waits for it for ever at its next log line, with SIGINT blocked.
   `EndsUnlessOrphaned` shows that this is the only way not to end, and `HangIsTheMutex` that
   it takes the stdin task: main logs nothing after it has joined the log task, so it ends
   although that one died with the mutex.
3. **`PopReturnsItem`.** The consumer of the bounded buffer is cancelled but not joined
   before the buffer is freed.

Also visible in `RtSystem`, but promised by nobody strongly enough to be a run: after a
forced cancel, main calls `log_task_stop` and goes on to free the buffer and the queue
while the cancelled thread may be running towards its next cancellation point
(`CrashOnlyWhenForced` says that nothing less than a cancel or a failed poll leads there).

Where the code does less than one might read into it, the property says exactly what it does:

- `SkippedBehindDone`: `task_array_poll_all` is content with the first task that is done; the others of
  its array are neither waited for nor cancelled, and `task_array_join_all` then skips them "as
  stuck" (`task_helper.h`). Cannot happen with the one-slot array of today's `main.c`.
- `StopHeeded`: a `task_stop` before the thread's first statement is overwritten by it. Today's
  `main.c` clears `g_running` first, which hides it.
- `SignalHeeded`: a signal in the window before a blocking call is not seen before that call returns.
- `DatagramsWhole`: a datagram as long as the buffer of `udp_receiver`, or longer, makes it write its
  `'\0'` behind the buffer; the warning in front of that calls the message truncated. Nothing is said
  of what is logged after it. (Theorem `OverrunByDatagram` says when it happens.)
- `TerminalLines`, `FlushBounded`: a line is logged as far as the message of the log has room.
- `EchoIsSpoken`: what follows a character that is not ASCII may not be said back, as much as
  what follows a `'\0'` in the same buffer.
- `DiesOnlyOverlong`: the Readme of exercise 2 says that messages should end in `'\0'`; a receiver of the
  echo server that gets a whole buffer without one is gone and leaves the connection open, and so is one that
  gets half a character, or a reset.
- `EchoingEnds`: the server knows its own answers by a prefix of 8 bytes; with a smaller `bufferSize` it
  would answer them for ever.

## 5. Proofs

All theorems are for every value of the constants that their assumptions allow.

**`FifoQueueProofs`** (any capacity from 1, any threads and items). `QInv` is the
inductive invariant: mutual exclusion, `head` = `tail` + `count` modulo capacity, filled
slots, `event_fd` against `count` at each place inside a call, and senders that
have an item. None of the five is inductive alone: `SignalsOwed` needs mutual
exclusion (only the holder owes a signal), `SlotsFilled` needs `RingAgrees` (a send
fills the slot after the last) and `SendersHaveItems`. From it follow
`TypeCorrect`, `Invariance`, `NoLostWakeup`, `ReadFindsSignal`. `Linearisable` is the
refinement of `BoundedFifo`: the store appends to the contents, the take removes their
head, and the other steps stutter; lemmas about indices modulo the capacity carry it.

**`RtSystemProofs`** and **`AsyncLogProofs`** (any capacity; any threads and messages in
`AsyncLog`). Every step of the program, or of the logging, is a step of the queue or leaves
it alone, so `RSpec => QSpec` and `ASpec => QSpec` (`UsesQueue` in each), and all that is proved of
the queue holds there: `QueueStaysConsistent` and `ProgramLinearisable`. A thread that dies between
the ring and the eventfd leaves the eventfd one unit off for ever, as `QInv` allows the holder of the
mutex; it dies as the holder, so nobody else comes to see it. In `AsyncLog` this needs that the clock stays within its bound, so
that messages are items. `FlagsInvariance`: the flag is down only after the owner's
stop, and when the log task has it up again for its last line no stop is still to come;
`FarewellUnwarned` follows, as an action property.

Where the messages of `AsyncLog` are is one sequence, the stream: what is printed, then what the
log task has in its hand, then the ring. Every step is of one of six kinds (`MessageKind`): it stamps a
message, stores it at the end of the stream, drops it, takes the head of the ring into the hand,
prints what is in the hand, or moves no message; a take and a print leave the stream as it is.
`LogInv` is inductive over these kinds. `AllOnce`: each stamped message is with its sender, in
the stream, or dropped, in one of them and once; this gives `NoMessageLost`. `InOrder`: the
messages of a thread are in the stream in the order of their stamps, and the one that it is
sending is younger than all of them; `LinesInOrder` is the printed part. `Drained`, with
`Stopping`: the owner stops the log task when the other tasks are done, as `log_task.h` asks, so
nobody sends any more, and the ring that the final drain finds empty stays empty; with `AllOnce`
this gives `DrainIsComplete`. `LogTypeCorrect` has the types.

`RtSystemProofs` also proves the order of the shutdown, for any timing (`Timely` may be
`FALSE`) and any failing calls. `Shutdown` is the inductive invariant of `JoinShort`,
`ReleaseOrdered` and `CrashesForced`. None of these is inductive alone: that a join is short
rests on what `done_fd` says of the thread (`Answer`); that the buffer is freed after its
user rests on the slot being empty only when no thread was started (`Started`); and that
nobody touches the destroyed queue rests on who has ended before main comes to
`log_cleanup` (`Freed`). `DestroysEmpty` needs more: `Quiet` says that nobody else has a
line left to log once the log task is told to stop, so that its drain leaves the queue empty
for good. With the mutual exclusion of `QInv` the mutex is then free, too.

`ProgramTypeCorrect` has `RTypeOK`. It is not inductive: that the counter of signals stays at 1
and the two eventfds at 1 needs that SIGINT is taken once, that the log task writes
`g_log_done_fd` once (`Once`), and what `Shutdown` says of `done_fd` (`Answer`).

**`TaskHelperProofs`** (any tasks, any number of arrays, each of any size). Three invariants, one
on top of the other. `Typed` has the types, and that a task raises `done_fd` once. `Placed`
has `SlotsAgree`, which is inductive only with what main holds in its hands: the task being started
has no thread, and the one being destroyed is in no array; `SelfDeadlockFree` follows from
the latter. `Ordered` says what the loops know of an array that is behind them: one of its
tasks was done, or its poll failed, or all of it was cancelled. `ForceCorrect` and
`SkipsJustified` follow.

**`ExchangeProofs`** (any senders and command lines, any bounds of the network). Every step of a
program is one of four kinds as far as messages are counted: it moves to another place, starts,
handles a message, or heeds a signal. `Counts` is inductive over these kinds. The countdown alone does
not tell how many messages there were, because -1 and 0 stay what they are, and the receiver has
two loops to leave; so `Counts` ties it to the messages, to the place, and to `running`.
`Repetitions` follows. `OverrunByDatagram`: only a datagram as long as the buffer, or longer,
makes a receiver write behind it, and the TCP receiver never does.

`NetInv` is the invariant of what was written, read and logged. Of a stream (`Streamed`): the log has
all bytes read but newlines, in order and once (`Heard`), and a client that the receiver saw
disconnect is finished and was read to the end. The lemmas about `LogBytes` show that, wherever the stream is cut,
a read adds the next bytes in order (`LogAfter`, `HeardMore`); that the bytes logged of one read are a
prefix of it, and not just as many of them, is a counting argument (`Prefix`). `Serving`, that the inner
loop reads a connection that has not ended, is needed for the step that says so. `ClientsAreHeard`
follows. Of datagrams (`Datagrams`): only whole texts are logged while nothing was written behind the
buffer. The first and the last byte of a text are known by remainders modulo its length
(`TextPositions`); a text put behind whole texts leaves them whole (`EntireMore`). Nothing may be
logged of a sender before it starts, because only then is its text known. `DatagramsAreWhole`
follows. `ExchangeTypeCorrect` has the types.

**`StdinTaskProofs`** (any size of `line`, of the message and of `flush_buf`, any input). `TerminalLines`
and `FlushBounded` speak of the states between two lines. `SInv` must also speak of the states in which
an overlong line is flushed, when its beginning is read but not logged: it states them of the
bytes before the line in the buffer (`Behind`), and of that line that it fills the buffer and that no newline
was read after it. A step that logs a line, with or without a flush, is one lemma (`LogStep`); what
of it the message has room for is another (`Message`, `Fit`). `TerminalLinesLogged` and `FlushIsBounded` follow.

**`BoundedBufferProofs`** (any number of values, any size from 1). `BInv` is inductive:
what the semaphores count against the ring, place by place; who holds the mutex;
the asserts; the ring indices; and that the producer has returned once main
goes on. `Implements`: until it is freed, each step is a step of the Go channel or a
stutter. `Ordered` uses that refinement: order is an invariant of the channel's steps,
so it is one of the C program's.

**`ExerciseProofs`**. `NumberServer` (any number of messages, any channel size from 1): `NInv`, every
message is in its channel or counted in `i`, and main's count of done goroutines is of ones that
have sent everything; `MagicNumberCorrect`, -1 is printed. `SharedVariable` (any number of
iterations): mutual exclusion, the loaded value being still current, and `i` counting the
iterations give `CMagicNumber`. `EchoServer` (any peers, any buffer size from 1): the two
properties need to know what an earlier message left in `buf`: nothing (`Clean`), or what it was
made with, and then no message has been received. With that a first `'\0'` in `buf` comes from
the bytes just received or lies behind them (`FirstEnd`; that there is a first is
`LeastNatural`, from the library's theorem that `<` is well-founded on the naturals), and a buffer of
ASCII up to its `'\0'` decodes (`AsciiDecodes`) and is answered whole up to it (`AsciiMessage`,
`AnswerValue`). So what was not said back came close behind something that is not text
(`SaidBack`), and `EchoesWhatWasSpoken` and `DiesOfOneMessage` are inductive, receiver by receiver.

**Only model-checked:** every liveness property (fairness and `ENABLED` are out of
reach of the prover). Every invariant of a passing run, and both refinements, have theorems.

**Assumptions of the proofs:** those named in the modules (`FifoAssumption`, `LogAssumption`,
`RtAssumption`, `TaskAssumption`, `NetAssumption`, `SenderAssumption`, `BufferAssumption`,
`ServerAssumption`, `StdinAssumption`, `EchoAssumption`), and `N \in Nat` for `SharedVariable`.
TLC evaluates the named ones in the runs. The type invariants `QTypeOK`, `TTypeOK`, `XTypeOK`,
`STypeOK` and `ETypeOK` are proved and in no run of their own.

## 6. Not modelled

- In `StdinTask`: a NUL byte in the input (the line would be cut there), Ctrl-D in the middle of a
  terminal's line, and failing calls, whose control is in `RtSystem`.
- Reset and scheduling attributes of threads; `mlockall`; priorities: every
  interleaving is allowed, so a priority only removes behaviours.
- What a line looks like on stderr, and the synchronous log macros.
- The end of the Go bounded buffer, by the runtime, when every goroutine waits.
- In the C programs of exercise 2: ports, addresses and broadcast; how long the sender sleeps
  (its period is a `long` that `sleep` takes as an `unsigned`, so the time can differ but not the steps);
  two receivers for one port; usage texts.
- In the echo server: the announcer, which has no state; the second of the two ports, which has
  threads of the same kind; wording and padding of the answers, and that a send may block; characters
  of three and four bytes, which are cut and counted like those of two; that the garbage collector may
  close the socket of a dead thread; a server that is told to connect to itself (how long its two
  receivers then talk depends on the wording); a "Connect to" command cut in two by the stream.

## 7. Plan

In this order; done so far: 1 to 8, and 9 for every invariant.

1. `FifoQueue` against `BoundedFifo`, with proofs.
2. `AsyncLog` over the queue; 3. `TaskHelper`; 4. `RtSystem`, which composes them.
5. Exercise 1: `BoundedBuffer` against `GoBuffer`, `NumberServer`, `SharedVariable`, with proofs.
6. `StdinTask`: input as positions of bytes and newlines, from a terminal or a pipe.
7. `NetProgram`, `Sender`, `UdpReceiver`, `TcpReceiver`, and `Exchange`, which composes them.
8. `EchoServer`.
9. Proofs, in the order of section 5.

Left to prove: the safety part of properties stated with liveness (that a heeded stop stays heeded, that
clients are served in the order of their connections); and that `AsyncLog`, seen from outside, is
a log: a refinement whose abstract specification has the stream as its only variable.
