------------------------------ MODULE FifoQueue ------------------------------
(***************************************************************************)
(* rtsystem/src/core/fifo_queue.c: a ring of fixed-size items behind one   *)
(* mutex, with a semaphore-mode eventfd that pollers wait on outside it.   *)
(*                                                                         *)
(* A call is cut where another thread can see the difference: at the       *)
(* mutex, and at the write to or read from the eventfd, which the log task *)
(* polls without the mutex and which is a cancellation point.  What lies   *)
(* between the lock and the eventfd (test, copy, index and count) is       *)
(* reached by the holder of the mutex only, and is one step.               *)
(***************************************************************************)
EXTENDS Integers, Sequences

CONSTANTS
  Threads,    (* threads that use the queue                            *)
  Items,      (* what can be sent                                      *)
  Capacity,   (* queue->capacity                                       *)
  NoThread,   (* the mutex is free                                     *)
  NoItem      (* uninitialised memory                                  *)

ASSUME FifoAssumption ==
  /\ Capacity \in Nat \ {0}
  /\ NoThread \notin Threads
  /\ NoItem \notin Items

VARIABLES
  buffer,     (* queue->buffer, by slot                                *)
  head,       (* slot the next send writes                             *)
  tail,       (* slot the next receive reads                           *)
  count,      (* queue->count                                          *)
  lock,       (* holder of queue->lock, or NoThread                    *)
  event_fd,   (* counter of the eventfd                                *)
  op,         (* where each thread is in its call                      *)
  item,       (* the object each thread's item argument points to      *)
  ret         (* what each thread's last call returned                 *)

ring  == <<buffer, head, tail, count>>
qvars == <<buffer, head, tail, count, lock, event_fd, op, item, ret>>

Slots == 0 .. Capacity - 1

SendOps == {"send_lock", "send_locked", "send_signal", "send_unlock"}
RecvOps == {"recv_lock", "recv_locked", "recv_signal", "recv_unlock"}

(* Between pthread_mutex_lock and pthread_mutex_unlock. *)
Critical == {"send_locked", "send_signal", "send_unlock",
             "recv_locked", "recv_signal", "recv_unlock"}

NextSlot(i) == (i + 1) % Capacity

(* fifo_queue_init that succeeds: empty ring, free mutex, eventfd at 0. *)
QInit ==
  /\ buffer = [i \in Slots |-> NoItem]
  /\ head = 0 /\ tail = 0 /\ count = 0
  /\ lock = NoThread
  /\ event_fd = 0
  /\ op   = [t \in Threads |-> "idle"]
  /\ item = [t \in Threads |-> NoItem]
  /\ ret  = [t \in Threads |-> 0]

Goto(t, from, to) ==
  /\ op[t] = from
  /\ op' = [op EXCEPT ![t] = to]

Lock(t) ==
  /\ lock = NoThread
  /\ lock' = t

Unlock == lock' = NoThread

ReturnValue(t, r) == ret' = [ret EXCEPT ![t] = r]

(* poll(event_fd, POLLIN) would report the queue ready. *)
Readable == event_fd > 0

-----------------------------------------------------------------------------
(* fifo_queue_send *)

SendCall(t, m) ==
  /\ Goto(t, "idle", "send_lock")
  /\ item' = [item EXCEPT ![t] = m]
  /\ UNCHANGED <<ring, lock, event_fd, ret>>

SendLock(t) ==
  /\ Goto(t, "send_lock", "send_locked")
  /\ Lock(t)
  /\ UNCHANGED <<ring, event_fd, item, ret>>

(* Faulty variant: the early return of a full queue keeps the mutex. *)
SendFullKeepsLock(t) ==
  /\ count >= Capacity
  /\ Goto(t, "send_locked", "idle")
  /\ ReturnValue(t, -1)
  /\ UNCHANGED <<ring, lock, event_fd, item>>

SendFull(t) ==
  /\ count >= Capacity
  /\ Goto(t, "send_locked", "idle")
  /\ Unlock
  /\ ReturnValue(t, -1)
  /\ UNCHANGED <<ring, event_fd, item>>

(* Faulty variant: the test for a full queue is off by one. *)
SendStoreOverfull(t) ==
  /\ count <= Capacity
  /\ Goto(t, "send_locked", "send_signal")
  /\ buffer' = [buffer EXCEPT ![head] = item[t]]
  /\ head' = NextSlot(head)
  /\ count' = count + 1
  /\ UNCHANGED <<tail, lock, event_fd, item, ret>>

SendStore(t) ==
  /\ count < Capacity
  /\ Goto(t, "send_locked", "send_signal")
  /\ buffer' = [buffer EXCEPT ![head] = item[t]]
  /\ head' = NextSlot(head)
  /\ count' = count + 1
  /\ UNCHANGED <<tail, lock, event_fd, item, ret>>

(* Faulty variant: the eventfd is not written. *)
SendSignalForgotten(t) ==
  /\ Goto(t, "send_signal", "send_unlock")
  /\ UNCHANGED <<ring, lock, event_fd, item, ret>>

SendSignal(t) ==
  /\ Goto(t, "send_signal", "send_unlock")
  /\ event_fd' = event_fd + 1
  /\ UNCHANGED <<ring, lock, item, ret>>

SendUnlock(t) ==
  /\ Goto(t, "send_unlock", "idle")
  /\ Unlock
  /\ ReturnValue(t, 0)
  /\ UNCHANGED <<ring, event_fd, item>>

-----------------------------------------------------------------------------
(* fifo_queue_receive *)

RecvCall(t) ==
  /\ Goto(t, "idle", "recv_lock")
  /\ UNCHANGED <<ring, lock, event_fd, item, ret>>

RecvLock(t) ==
  /\ Goto(t, "recv_lock", "recv_locked")
  /\ Lock(t)
  /\ UNCHANGED <<ring, event_fd, item, ret>>

RecvEmpty(t) ==
  /\ count = 0
  /\ Goto(t, "recv_locked", "idle")
  /\ Unlock
  /\ ReturnValue(t, -1)
  /\ UNCHANGED <<ring, event_fd, item>>

(* Faulty variants: the tail is not advanced; the newest item is taken. *)
RecvTakeStays(t) ==
  /\ count # 0
  /\ Goto(t, "recv_locked", "recv_signal")
  /\ item' = [item EXCEPT ![t] = buffer[tail]]
  /\ count' = count - 1
  /\ UNCHANGED <<buffer, head, tail, lock, event_fd, ret>>

RecvTakeNewest(t) ==
  /\ count # 0
  /\ Goto(t, "recv_locked", "recv_signal")
  /\ head' = (head + Capacity - 1) % Capacity
  /\ item' = [item EXCEPT ![t] = buffer[head']]
  /\ count' = count - 1
  /\ UNCHANGED <<buffer, tail, lock, event_fd, ret>>

RecvTake(t) ==
  /\ count # 0
  /\ Goto(t, "recv_locked", "recv_signal")
  /\ item' = [item EXCEPT ![t] = buffer[tail]]
  /\ tail' = NextSlot(tail)
  /\ count' = count - 1
  /\ UNCHANGED <<buffer, head, lock, event_fd, ret>>

(* EFD_NONBLOCK: a read that finds the counter at 0 fails, unnoticed. *)
RecvSignal(t) ==
  /\ Goto(t, "recv_signal", "recv_unlock")
  /\ event_fd' = IF Readable THEN event_fd - 1 ELSE event_fd
  /\ UNCHANGED <<ring, lock, item, ret>>

RecvUnlock(t) ==
  /\ Goto(t, "recv_unlock", "idle")
  /\ Unlock
  /\ ReturnValue(t, 0)
  /\ UNCHANGED <<ring, event_fd, item>>

-----------------------------------------------------------------------------
Acquire(t) == SendLock(t) \/ RecvLock(t)

(* What a thread that holds the mutex does before it gives it up. *)
Proceed(t) ==
  \/ SendFull(t) \/ SendStore(t) \/ SendSignal(t) \/ SendUnlock(t)
  \/ RecvEmpty(t) \/ RecvTake(t) \/ RecvSignal(t) \/ RecvUnlock(t)

(* A thread inside a call; the caller decides when one starts. *)
QStep(t) == Acquire(t) \/ Proceed(t)

Call(t) == RecvCall(t) \/ \E m \in Items : SendCall(t, m)

QNext == \E t \in Threads : Call(t) \/ QStep(t)

QSpec == QInit /\ [][QNext]_qvars

(* A thread that holds the mutex runs on, because nothing inside blocks;   *)
(* a priority-inheritance mutex is handed to a waiter when it is released, *)
(* so a waiter is not overtaken for ever.                                  *)
QFairness == \A t \in Threads : WF_qvars(Proceed(t)) /\ SF_qvars(Acquire(t))

QFairSpec == QSpec /\ QFairness

-----------------------------------------------------------------------------
(* Every variable of the queue holds a value of its type; indices stay     *)
(* inside the malloc'ed buffer and the count inside the capacity.          *)
QTypeOK ==
  /\ buffer \in [Slots -> Items \cup {NoItem}]
  /\ head \in Slots
  /\ tail \in Slots
  /\ count \in 0 .. Capacity
  /\ lock \in Threads \cup {NoThread}
  /\ event_fd \in Nat
  /\ op \in [Threads -> {"idle"} \cup SendOps \cup RecvOps]
  /\ item \in [Threads -> Items \cup {NoItem}]
  /\ ret \in [Threads -> {0, -1}]

(* The slot of the i-th oldest item, counting from 0. *)
SlotOf(i) == (tail + i) % Capacity

(* Mutual exclusion: a thread between lock and unlock in fifo_queue.c is   *)
(* the recorded holder, so no two threads are there at once.               *)
MutexHeld == \A t \in Threads : op[t] \in Critical <=> lock = t

(* head, tail and count agree: fifo_queue.c keeps all three, and send and  *)
(* receive each update two of them.                                        *)
RingAgrees == head = SlotOf(count)

(* Every slot between tail and head holds a sent item, so a receive never  *)
(* copies out uninitialised memory.                                        *)
SlotsFilled == \A i \in 0 .. count - 1 : buffer[SlotOf(i)] \in Items

(* The eventfd counts the items: exactly, while nobody is inside a call,   *)
(* and off by the one signal its holder still owes, while somebody is.     *)
SignalsOwed ==
  /\ lock = NoThread => event_fd = count
  /\ \A t \in Threads :
       op[t] \in Critical =>
         event_fd = CASE op[t] = "send_signal" -> count - 1
                      [] op[t] = "recv_signal" -> count + 1
                      [] OTHER -> count

(* A sender's argument points to an item until it has been copied.         *)
SendersHaveItems ==
  \A t \in Threads : op[t] \in {"send_lock", "send_locked"} => item[t] \in Items

(* The inductive invariant: the five above hold together or not at all.    *)
QInv == MutexHeld /\ RingAgrees /\ SlotsFilled /\ SignalsOwed /\ SendersHaveItems

(* No lost wakeup: once the mutex is free, a queue with items in it is     *)
(* readable for poll, and an empty one is not (log_task.c polls the        *)
(* eventfd and takes the mutex only when it is readable).                  *)
PollSeesItems == lock = NoThread => (Readable <=> count > 0)

(* The read of the eventfd in fifo_queue_receive, whose result is ignored, *)
(* always finds a unit to take.                                            *)
SignalNeverMissing == \A t \in Threads : op[t] = "recv_signal" => Readable

(* Every call returns: no path through send or receive keeps the mutex or  *)
(* leaves its thread waiting for ever.                                     *)
CallsReturn == \A t \in Threads : op[t] # "idle" ~> op[t] = "idle"

-----------------------------------------------------------------------------
(* The promise of fifo_queue.h.  A send takes effect where it stores, a    *)
(* receive where it takes, and a failing call where it gives up; from      *)
(* there on the call has returned, as far as the abstract queue can tell.  *)
Contents == [i \in 1 .. count |-> buffer[SlotOf(i - 1)]]

Pending(t) ==
  IF op[t] \in {"send_lock", "send_locked"} THEN "send"
  ELSE IF op[t] \in {"recv_lock", "recv_locked"} THEN "receive"
  ELSE "none"

Settled == {"send_signal", "send_unlock", "recv_signal", "recv_unlock"}

Fifo == INSTANCE BoundedFifo WITH
  q    <- Contents,
  call <- [t \in Threads |-> Pending(t)],
  ret  <- [t \in Threads |-> IF op[t] \in Settled THEN 0 ELSE ret[t]]

(* Linearisability: under every interleaving the ring buffer behaves as    *)
(* the bounded FIFO of fifo_queue.h, down to the values each call returns. *)
ImplementsFifo == Fifo!Spec

==============================================================================
