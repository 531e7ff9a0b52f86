----------------------------- MODULE BoundedBuffer -----------------------------
(***************************************************************************)
(* Exercise1/5 - bounded buffer/c: main.c and ringbuf.c.  One producer and *)
(* one consumer share a ring buffer through two counting semaphores and a  *)
(* mutex; main joins the producer, cancels the consumer and frees the      *)
(* buffer, without waiting for the consumer to be gone.                    *)
(*                                                                         *)
(* How long the threads sleep is left out: any interleaving may happen.    *)
(***************************************************************************)
EXTENDS Integers, Sequences

CONSTANTS
  N,      (* values the producer pushes: 10 *)
  Size    (* size of the buffer: 5          *)

ASSUME BufferAssumption == N \in Nat /\ Size \in Nat \ {0}

VARIABLES
  buffer, insertIdx, removeIdx, length,  (* struct RingBuffer                  *)
  mtx,          (* holder of buf->mtx, or "free"                               *)
  capacity,     (* semaphore: free slots                                       *)
  numElements,  (* semaphore: filled slots                                     *)
  i,            (* the producer's loop variable                                *)
  val,          (* what the consumer's last rb_pop returned, at first -1       *)
  ppc, cpc,     (* where the producer and the consumer are                     *)
  mpc           (* where main is, or how the program ended: "exited",          *)
                (* "aborted" by an assert, "killed" by a bad access            *)

ring == <<buffer, insertIdx, removeIdx, length>>
sync == <<mtx, capacity, numElements>>
bvars == <<ring, sync, i, val, ppc, cpc, mpc>>

Slots == 0 .. Size - 1
NextSlot(k) == (k + 1) % Size

NoValue == -1

BInit ==
  /\ buffer = [k \in Slots |-> NoValue]
  /\ insertIdx = 0 /\ removeIdx = 0 /\ length = 0
  /\ mtx = "free"
  /\ capacity = Size /\ numElements = 0
  /\ i = 0 /\ val = NoValue
  /\ ppc = "loop" /\ cpc = "sleep" /\ mpc = "join"

Running   == mpc \notin {"exited", "aborted", "killed"}
cancelled == mpc \in {"destroy", "return"}   \* pthread_cancel was called
freed     == mpc \in {"return", "exited", "killed"}   \* buf_destroy has run

Producer(from, to) ==
  /\ Running
  /\ ppc = from /\ ppc' = to
  /\ UNCHANGED <<val, cpc>>

Consumer(from, to) ==
  /\ Running
  /\ cpc = from /\ cpc' = to
  /\ UNCHANGED <<i, ppc>>

-----------------------------------------------------------------------------
(* producer and buf_push *)

ProducerLoop ==
  /\ \/ i < N /\ Producer("loop", "wait")
     \/ i = N /\ Producer("loop", "returned")
  /\ UNCHANGED <<ring, sync, i, mpc>>

PushWait ==
  /\ Producer("wait", "lock")
  /\ capacity > 0
  /\ capacity' = capacity - 1
  /\ UNCHANGED <<ring, mtx, numElements, i, mpc>>

PushLock ==
  /\ Producer("lock", "push")
  /\ mtx = "free"
  /\ mtx' = "producer"
  /\ UNCHANGED <<ring, capacity, numElements, i, mpc>>

(* rb_push, and the assert it begins with. *)
RbPush ==
  /\ Producer("push", "unlock")
  /\ IF length < Size
     THEN /\ buffer' = [buffer EXCEPT ![insertIdx] = i]
          /\ insertIdx' = NextSlot(insertIdx)
          /\ length' = length + 1
          /\ UNCHANGED <<removeIdx, mpc>>
     ELSE mpc' = "aborted" /\ UNCHANGED ring
  /\ UNCHANGED <<sync, i>>

PushUnlock ==
  /\ Producer("unlock", "post")
  /\ mtx' = "free"
  /\ UNCHANGED <<ring, capacity, numElements, i, mpc>>

(* Faulty variant: the consumer is not told. *)
PushPostForgotten ==
  /\ Producer("post", "loop")
  /\ i' = i + 1
  /\ UNCHANGED <<ring, sync, mpc>>

PushPost ==
  /\ Producer("post", "loop")
  /\ numElements' = numElements + 1
  /\ i' = i + 1
  /\ UNCHANGED <<ring, mtx, capacity, mpc>>

-----------------------------------------------------------------------------
(* consumer and buf_pop.  nanosleep, sem_wait and printf are cancellation  *)
(* points, locking a mutex is not.                                         *)

AtCancellationPoint == cpc \in {"sleep", "wait", "print"}

ConsumerDies ==
  /\ cancelled /\ AtCancellationPoint
  /\ Consumer(cpc, "cancelled")
  /\ UNCHANGED <<ring, sync, val, mpc>>

Wakes ==
  /\ ~ cancelled
  /\ Consumer("sleep", "wait")
  /\ UNCHANGED <<ring, sync, val, mpc>>

PopWait ==
  /\ ~ cancelled
  /\ Consumer("wait", "lock")
  /\ numElements > 0
  /\ numElements' = numElements - 1
  /\ UNCHANGED <<ring, mtx, capacity, val, mpc>>

(* From here to the post the consumer uses the buffer, freed or not.       *)
PopLock ==
  /\ Consumer("lock", "pop")
  /\ mtx = "free" \/ freed
  /\ mtx' = "consumer"
  /\ UNCHANGED <<ring, capacity, numElements, val, mpc>>

(* Faulty variants: the first value stays in the ring; the last is taken. *)
TakeStays ==
  /\ val' = buffer[removeIdx]
  /\ removeIdx' = removeIdx
  /\ length' = length - 1
  /\ UNCHANGED <<buffer, insertIdx, mpc>>

TakeNewest ==
  /\ insertIdx' = (insertIdx + Size - 1) % Size
  /\ val' = buffer[insertIdx']
  /\ length' = length - 1
  /\ UNCHANGED <<buffer, removeIdx, mpc>>

Take ==
  /\ val' = buffer[removeIdx]
  /\ removeIdx' = NextSlot(removeIdx)
  /\ length' = length - 1
  /\ UNCHANGED <<buffer, insertIdx, mpc>>

Ends(how) == mpc' = how /\ UNCHANGED <<ring, val>>

(* rb_pop, and the assert it begins with.  In freed memory it follows      *)
(* pointers that free has overwritten, or reads what free left in the      *)
(* slot: the program is killed, or the value is not one that was pushed.   *)
RbPop ==
  /\ Consumer("pop", "unlock")
  /\ \/ ~ freed /\ IF length > 0 THEN Take ELSE Ends("aborted")
     \/ freed /\ val' = NoValue /\ UNCHANGED <<ring, mpc>>
     \/ freed /\ Ends("killed")
  /\ UNCHANGED sync

PopUnlock ==
  /\ Consumer("unlock", "post")
  /\ mtx' = "free"
  /\ UNCHANGED <<ring, capacity, numElements, val, mpc>>

PopPost ==
  /\ Consumer("post", "print")
  /\ capacity' = capacity + 1
  /\ UNCHANGED <<ring, mtx, numElements, val, mpc>>

Prints ==
  /\ ~ cancelled
  /\ Consumer("print", "sleep")
  /\ UNCHANGED <<ring, sync, val, mpc>>

-----------------------------------------------------------------------------
(* main *)

MainStep(from, to) ==
  /\ Running
  /\ mpc = from /\ mpc' = to
  /\ UNCHANGED <<ring, sync, i, val, ppc, cpc>>

JoinProducer ==
  /\ MainStep("join", "cancel")
  /\ ppc = "returned"

CancelConsumer == MainStep("cancel", "destroy")
BufDestroy     == MainStep("destroy", "return")
MainReturns    == MainStep("return", "exited")

-----------------------------------------------------------------------------
ProducerNext == ProducerLoop \/ PushWait \/ PushLock \/ RbPush \/ PushUnlock \/ PushPost

ConsumerNext ==
  \/ ConsumerDies \/ Wakes
  \/ PopWait \/ PopLock \/ RbPop \/ PopUnlock \/ PopPost \/ Prints

MainNext == JoinProducer \/ CancelConsumer \/ BufDestroy \/ MainReturns

Ended == ~ Running /\ UNCHANGED bvars

BNext == ProducerNext \/ ConsumerNext \/ MainNext \/ Ended

BSpec == BInit /\ [][BNext]_bvars

BFairSpec == BSpec /\ WF_bvars(ProducerNext) /\ WF_bvars(ConsumerNext) /\ WF_bvars(MainNext)

-----------------------------------------------------------------------------
Pcs == {"wait", "lock", "unlock", "post"}

(* Values of the variables of main.c and ringbuf.c. *)
BTypeOK ==
  /\ buffer \in [Slots -> {NoValue} \cup 0 .. N - 1]
  /\ insertIdx \in Slots /\ removeIdx \in Slots
  /\ length \in 0 .. Size
  /\ mtx \in {"free", "producer", "consumer"}
  /\ capacity \in Nat /\ numElements \in Nat
  /\ i \in 0 .. N
  /\ val \in {NoValue} \cup 0 .. N - 1
  /\ ppc \in Pcs \cup {"loop", "push", "returned"}
  /\ cpc \in Pcs \cup {"sleep", "pop", "print", "cancelled"}
  /\ mpc \in {"join", "cancel", "destroy", "return", "exited", "aborted", "killed"}

One(b) == IF b THEN 1 ELSE 0

(* The two semaphores of main.c count the ring of ringbuf.c from outside   *)
(* the mutex: each slot is free, filled, or in the hands of one thread     *)
(* between its sem_wait and its sem_post.                                  *)
SemaphoresCount ==
  ~ freed =>
    /\ capacity + length + One(ppc \in {"lock", "push"}) + One(cpc \in {"unlock", "post"}) = Size
    /\ numElements + One(ppc \in {"unlock", "post"}) + One(cpc \in {"lock", "pop"}) = length

(* The mutex is held where main.c holds it and nowhere else; above all,    *)
(* the consumer does not take it to its grave when it is cancelled.        *)
MutexHeld ==
  ~ freed =>
    /\ mtx = "producer" <=> ppc \in {"push", "unlock"}
    /\ mtx = "consumer" <=> cpc \in {"pop", "unlock"}

(* While the buffer exists, the asserts of ringbuf.c never fail: nothing   *)
(* is pushed into a full ring or popped from an empty one.                 *)
BoundsHeld == mpc # "aborted"

(* The two indices and the length of struct RingBuffer say the same. *)
RingAgrees == insertIdx = (removeIdx + length) % Size

(* Who has got how far: the producer works on a value below N, main goes   *)
(* on once the producer has returned.                                      *)
Phases ==
  /\ ppc \notin {"loop", "returned"} => i < N
  /\ mpc # "join" => ppc = "returned"

(* The inductive invariant. *)
BInv == SemaphoresCount /\ MutexHeld /\ BoundsHeld /\ RingAgrees /\ Phases

(* Exercise1/README.md, line 84: "The `pop` functionality should return    *)
(* one data item".  (A value that is NoValue never was one.)               *)
PopReturnsItem == cpc = "unlock" => val # NoValue

(* The program ends: neither thread waits for the other for ever, and main *)
(* does not wait for the consumer.                                         *)
ProgramEnds == <>(~ Running)

(* What is in the ring, and how many values have been put into it. *)
Contents == [k \in 1 .. length |-> buffer[(removeIdx + k - 1) % Size]]
Pushed   == i + One(ppc \in {"unlock", "post"})

Channel == INSTANCE GoBuffer WITH
  ch <- Contents, sent <- Pushed, got <- val

(* Until it is freed, the buffer of semaphores, mutex and ring is the      *)
(* bounded channel of the Go solution: values come out once, in order, and *)
(* a push waits for room and a pop for a value.                            *)
ImplementsChannel ==
  Channel!GInit /\ [][freed \/ Channel!GNext \/ UNCHANGED Channel!gvars]_bvars

(* Until it is freed, every value that rb_pop returns is the one after the *)
(* value it returned before.                                               *)
ValuesInOrder == freed \/ Channel!InOrder

===============================================================================
