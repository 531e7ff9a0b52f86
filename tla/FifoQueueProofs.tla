--------------------------- MODULE FifoQueueProofs ---------------------------
(***************************************************************************)
(* What FifoQueue_safety.cfg checks for a ring of two slots and three      *)
(* threads, proved for every capacity and every set of threads and items.  *)
(***************************************************************************)
EXTENDS FifoQueue, SequenceTheorems, TLAPS

USE FifoAssumption

-----------------------------------------------------------------------------
(* Index arithmetic of the ring. *)

LEMMA ModSmall ==
  ASSUME NEW C \in Nat \ {0}, NEW n \in 0 .. C - 1
  PROVE  n % C = n
  OBVIOUS

LEMMA ModWrap ==
  ASSUME NEW C \in Nat \ {0}, NEW n \in C .. C + C - 1
  PROVE  n % C = n - C
  OBVIOUS

(* Slots wrap around at most once. *)
LEMMA SlotValue ==
  ASSUME tail \in Slots, NEW i \in 0 .. Capacity
  PROVE  SlotOf(i) = IF tail + i < Capacity THEN tail + i ELSE tail + i - Capacity
<1>1. CASE tail + i < Capacity
  BY <1>1, ModSmall DEF SlotOf, Slots
<1>2. CASE tail + i >= Capacity
  BY <1>2, ModWrap DEF SlotOf, Slots
<1>. QED
  BY <1>1, <1>2 DEF Slots

LEMMA NextSlotValue ==
  ASSUME NEW s \in Slots
  PROVE  NextSlot(s) = IF s + 1 = Capacity THEN 0 ELSE s + 1
<1>1. CASE s + 1 = Capacity
  BY <1>1, ModWrap DEF NextSlot, Slots
<1>2. CASE s + 1 # Capacity
  BY <1>2, ModSmall DEF NextSlot, Slots
<1>. QED
  BY <1>1, <1>2

LEMMA SlotInRange ==
  ASSUME tail \in Slots, NEW i \in 0 .. Capacity
  PROVE  SlotOf(i) \in Slots
  BY SlotValue DEF Slots

(* The slot after the i-th oldest item's is the next one's. *)
LEMMA SlotSuccessor ==
  ASSUME tail \in Slots, NEW i \in 0 .. Capacity - 1
  PROVE  NextSlot(SlotOf(i)) = SlotOf(i + 1)
<1>1. SlotOf(i) \in Slots
  BY SlotInRange
<1>. QED
  BY <1>1, SlotValue, NextSlotValue DEF Slots

(* Different positions are different slots. *)
LEMMA SlotsDistinct ==
  ASSUME tail \in Slots,
         NEW i \in 0 .. Capacity - 1, NEW j \in 0 .. Capacity - 1, i # j
  PROVE  SlotOf(i) # SlotOf(j)
  BY SlotValue DEF Slots

(* Advancing tail by one slot renumbers every position. *)
LEMMA SlotShift ==
  ASSUME tail \in Slots, tail' = NextSlot(tail), NEW i \in 0 .. Capacity - 1
  PROVE  SlotOf(i)' = SlotOf(i + 1)
<1>1. tail' \in Slots
  BY NextSlotValue DEF Slots
<1>2. SlotOf(i)' = IF tail' + i < Capacity THEN tail' + i ELSE tail' + i - Capacity
  <2>1. CASE tail' + i < Capacity
    BY <1>1, <2>1, ModSmall DEF SlotOf, Slots
  <2>2. CASE tail' + i >= Capacity
    BY <1>1, <2>2, ModWrap DEF SlotOf, Slots
  <2>. QED
    BY <1>1, <2>1, <2>2 DEF Slots
<1>. QED
  BY <1>1, <1>2, SlotValue, NextSlotValue DEF Slots

-----------------------------------------------------------------------------
(* Type correctness: QTypeOK is inductive by itself. *)

LEMMA TypeStep == QTypeOK /\ [QNext]_qvars => QTypeOK'
<1>. SUFFICES ASSUME QTypeOK, [QNext]_qvars PROVE QTypeOK'
  OBVIOUS
<1>. USE DEF QTypeOK, SendOps, RecvOps, ring, Goto, Lock, Unlock, ReturnValue
<1>1. ASSUME NEW t \in Threads, NEW m \in Items, SendCall(t, m) PROVE QTypeOK'
  BY <1>1 DEF SendCall
<1>2. ASSUME NEW t \in Threads, RecvCall(t) PROVE QTypeOK'
  BY <1>2 DEF RecvCall
<1>3. ASSUME NEW t \in Threads, Acquire(t) PROVE QTypeOK'
  BY <1>3 DEF Acquire, SendLock, RecvLock
<1>4. ASSUME NEW t \in Threads, SendFull(t) PROVE QTypeOK'
  BY <1>4 DEF SendFull
<1>5. ASSUME NEW t \in Threads, SendStore(t) PROVE QTypeOK'
  BY <1>5, NextSlotValue DEF SendStore, Slots
<1>6. ASSUME NEW t \in Threads, SendSignal(t) PROVE QTypeOK'
  BY <1>6 DEF SendSignal
<1>7. ASSUME NEW t \in Threads, SendUnlock(t) PROVE QTypeOK'
  BY <1>7 DEF SendUnlock
<1>8. ASSUME NEW t \in Threads, RecvEmpty(t) PROVE QTypeOK'
  BY <1>8 DEF RecvEmpty
<1>9. ASSUME NEW t \in Threads, RecvTake(t) PROVE QTypeOK'
  BY <1>9, NextSlotValue DEF RecvTake, Slots
<1>10. ASSUME NEW t \in Threads, RecvSignal(t) PROVE QTypeOK'
  BY <1>10 DEF RecvSignal, Readable
<1>11. ASSUME NEW t \in Threads, RecvUnlock(t) PROVE QTypeOK'
  BY <1>11 DEF RecvUnlock
<1>12. CASE UNCHANGED qvars
  BY <1>12 DEF qvars
<1>. QED
  BY <1>1, <1>2, <1>3, <1>4, <1>5, <1>6, <1>7, <1>8, <1>9, <1>10, <1>11, <1>12
  DEF QNext, Call, QStep, Proceed

(* fifo_queue.c never moves an index out of the buffer or the count past   *)
(* the capacity, however its callers interleave.                           *)
THEOREM TypeCorrect == QSpec => []QTypeOK
<1>1. QInit => QTypeOK
  BY DEF QInit, QTypeOK, Slots
<1>2. QTypeOK /\ [QNext]_qvars => QTypeOK'
  BY TypeStep
<1>. QED
  BY <1>1, <1>2, PTL DEF QSpec

-----------------------------------------------------------------------------
(* The invariant.  MutexHeld is inductive on its own and the other parts   *)
(* lean on it: what one thread does inside the mutex, another cannot see.  *)

LEMMA MutexStep == QTypeOK /\ MutexHeld /\ [QNext]_qvars => MutexHeld'
<1>. SUFFICES ASSUME QTypeOK, MutexHeld, [QNext]_qvars PROVE MutexHeld'
  OBVIOUS
<1>. USE DEF QTypeOK, MutexHeld, Critical, Goto, Lock, Unlock
<1>1. ASSUME NEW t \in Threads, Call(t) PROVE MutexHeld'
  BY <1>1 DEF Call, SendCall, RecvCall
<1>2. ASSUME NEW t \in Threads, Acquire(t) PROVE MutexHeld'
  BY <1>2 DEF Acquire, SendLock, RecvLock
<1>3. ASSUME NEW t \in Threads, SendFull(t) \/ SendUnlock(t) \/ RecvEmpty(t) \/ RecvUnlock(t)
      PROVE  MutexHeld'
  BY <1>3 DEF SendFull, SendUnlock, RecvEmpty, RecvUnlock
<1>4. ASSUME NEW t \in Threads, SendStore(t) \/ SendSignal(t) \/ RecvTake(t) \/ RecvSignal(t)
      PROVE  MutexHeld'
  BY <1>4 DEF SendStore, SendSignal, RecvTake, RecvSignal
<1>5. CASE UNCHANGED qvars
  BY <1>5 DEF qvars
<1>. QED
  BY <1>1, <1>2, <1>3, <1>4, <1>5 DEF QNext, QStep, Proceed

LEMMA SendersStep == QTypeOK /\ SendersHaveItems /\ [QNext]_qvars => SendersHaveItems'
<1>. SUFFICES ASSUME QTypeOK, SendersHaveItems, [QNext]_qvars PROVE SendersHaveItems'
  OBVIOUS
<1>. USE DEF QTypeOK, SendersHaveItems, Goto
<1>1. ASSUME NEW t \in Threads, NEW m \in Items, SendCall(t, m) PROVE SendersHaveItems'
  BY <1>1 DEF SendCall
<1>2. ASSUME NEW t \in Threads, RecvCall(t) \/ Acquire(t) PROVE SendersHaveItems'
  BY <1>2 DEF RecvCall, Acquire, SendLock, RecvLock
<1>3. ASSUME NEW t \in Threads, Proceed(t) PROVE SendersHaveItems'
  BY <1>3 DEF Proceed, SendFull, SendStore, SendSignal, SendUnlock,
              RecvEmpty, RecvTake, RecvSignal, RecvUnlock
<1>4. CASE UNCHANGED qvars
  BY <1>4 DEF qvars
<1>. QED
  BY <1>1, <1>2, <1>3, <1>4 DEF QNext, Call, QStep

(* What send and receive do to the ring between lock and unlock. *)
LEMMA StoreKeepsRing ==
  ASSUME QTypeOK, RingAgrees, SlotsFilled, SendersHaveItems,
         NEW t \in Threads, SendStore(t)
  PROVE  RingAgrees' /\ SlotsFilled'
<1>. USE DEF QTypeOK
<1>1. tail' = tail /\ count' = count + 1 /\ count \in 0 .. Capacity - 1
      /\ head' = NextSlot(head) /\ buffer' = [buffer EXCEPT ![head] = item[t]]
  BY DEF SendStore
<1>2. item[t] \in Items
  BY DEF SendersHaveItems, SendStore, Goto
<1>3. head = SlotOf(count)
  BY DEF RingAgrees
<1>4. RingAgrees'
  BY <1>1, <1>3, SlotSuccessor DEF RingAgrees, SlotOf
<1>5. ASSUME NEW i \in 0 .. count PROVE buffer'[SlotOf(i)] \in Items
  <2>1. CASE i = count
    BY <1>1, <1>2, <1>3, <2>1
  <2>2. CASE i # count
    <3>1. i \in 0 .. count - 1 /\ i \in 0 .. Capacity - 1
      BY <1>1, <2>2
    <3>2. SlotOf(i) # head
      BY <1>1, <1>3, <2>2, <3>1, SlotsDistinct
    <3>3. SlotOf(i) \in Slots
      BY <3>1, SlotInRange
    <3>. QED
      BY <1>1, <3>1, <3>2, <3>3 DEF SlotsFilled
  <2>. QED
    BY <2>1, <2>2
<1>6. SlotsFilled'
  BY <1>1, <1>5 DEF SlotsFilled, SlotOf
<1>. QED
  BY <1>4, <1>6

LEMMA TakeKeepsRing ==
  ASSUME QTypeOK, RingAgrees, SlotsFilled, NEW t \in Threads, RecvTake(t)
  PROVE  RingAgrees' /\ SlotsFilled'
<1>. USE DEF QTypeOK
<1>1. tail' = NextSlot(tail) /\ count' = count - 1 /\ count \in 1 .. Capacity
      /\ head' = head /\ buffer' = buffer
  BY DEF RecvTake
<1>2. ASSUME NEW i \in 0 .. Capacity - 1 PROVE SlotOf(i)' = SlotOf(i + 1)
  BY <1>1, SlotShift
<1>3. RingAgrees'
  <2>1. PICK k \in 0 .. Capacity - 1 : k = count - 1
    BY <1>1
  <2>2. SlotOf(k)' = SlotOf(count)
    BY <1>1, <1>2, <2>1
  <2>. QED
    BY <1>1, <2>1, <2>2 DEF RingAgrees, SlotOf
<1>4. SlotsFilled'
  <2>1. ASSUME NEW i \in 0 .. count - 2 PROVE buffer[SlotOf(i)'] \in Items
    BY <1>1, <1>2, <2>1 DEF SlotsFilled
  <2>. QED
    BY <1>1, <2>1 DEF SlotsFilled, SlotOf
<1>. QED
  BY <1>3, <1>4

LEMMA RingStep ==
  QTypeOK /\ QInv /\ [QNext]_qvars => RingAgrees' /\ SlotsFilled'
<1>. SUFFICES ASSUME QTypeOK, QInv, [QNext]_qvars PROVE RingAgrees' /\ SlotsFilled'
  OBVIOUS
<1>1. ASSUME NEW t \in Threads, SendStore(t) PROVE RingAgrees' /\ SlotsFilled'
  BY <1>1, StoreKeepsRing DEF QInv
<1>2. ASSUME NEW t \in Threads, RecvTake(t) PROVE RingAgrees' /\ SlotsFilled'
  BY <1>2, TakeKeepsRing DEF QInv
<1>3. CASE UNCHANGED ring
  BY <1>3 DEF QInv, ring, RingAgrees, SlotsFilled, SlotOf
<1>4. ASSUME NEW t \in Threads, Call(t) \/ Acquire(t) PROVE UNCHANGED ring
  BY <1>4 DEF Call, SendCall, RecvCall, Acquire, SendLock, RecvLock
<1>5. ASSUME NEW t \in Threads, Proceed(t), ~ SendStore(t), ~ RecvTake(t) PROVE UNCHANGED ring
  BY <1>5 DEF Proceed, SendFull, SendSignal, SendUnlock, RecvEmpty, RecvSignal, RecvUnlock
<1>6. CASE UNCHANGED qvars
  BY <1>3, <1>6 DEF qvars, ring
<1>. QED
  BY <1>1, <1>2, <1>3, <1>4, <1>5, <1>6 DEF QNext, QStep

LEMMA SignalsStep == QTypeOK /\ QInv /\ [QNext]_qvars => SignalsOwed'
<1>. SUFFICES ASSUME QTypeOK, QInv, MutexHeld', [QNext]_qvars PROVE SignalsOwed'
  BY MutexStep DEF QInv
<1>. USE DEF QTypeOK, QInv, MutexHeld, SignalsOwed, Critical, Goto, Lock, Unlock
<1>1. ASSUME NEW t \in Threads, Call(t) PROVE SignalsOwed'
  BY <1>1 DEF Call, SendCall, RecvCall, ring
<1>2. ASSUME NEW t \in Threads, Acquire(t) PROVE SignalsOwed'
  BY <1>2 DEF Acquire, SendLock, RecvLock, ring
<1>3. ASSUME NEW t \in Threads, SendFull(t) \/ SendUnlock(t) \/ RecvEmpty(t) \/ RecvUnlock(t)
      PROVE  SignalsOwed'
  BY <1>3 DEF SendFull, SendUnlock, RecvEmpty, RecvUnlock, ring
<1>4. ASSUME NEW t \in Threads, SendStore(t) \/ RecvTake(t) PROVE SignalsOwed'
  BY <1>4 DEF SendStore, RecvTake
<1>5. ASSUME NEW t \in Threads, SendSignal(t) \/ RecvSignal(t) PROVE SignalsOwed'
  BY <1>5 DEF SendSignal, RecvSignal, Readable, ring
<1>6. CASE UNCHANGED qvars
  BY <1>6 DEF qvars
<1>. QED
  BY <1>1, <1>2, <1>3, <1>4, <1>5, <1>6 DEF QNext, QStep, Proceed

(* The queue's invariant holds in every reachable state: the ring, the     *)
(* count, the eventfd and the mutex of fifo_queue.c never disagree.        *)
THEOREM Invariance == QSpec => [](QTypeOK /\ QInv)
<1>1. QInit => QTypeOK /\ QInv
  <2>1. SUFFICES ASSUME QInit PROVE QInv
    BY DEF QInit, QTypeOK, Slots
  <2>2. tail \in Slots /\ SlotOf(0) = 0
    BY <2>1, SlotValue DEF QInit, Slots
  <2>. QED
    BY <2>1, <2>2 DEF QInit, QInv, MutexHeld, RingAgrees, SlotsFilled, SignalsOwed,
                      SendersHaveItems, Critical
<1>2. QTypeOK /\ QInv /\ [QNext]_qvars => QTypeOK' /\ QInv'
  BY TypeStep, MutexStep, SendersStep, RingStep, SignalsStep DEF QInv
<1>. QED
  BY <1>1, <1>2, PTL DEF QSpec

(* fifo_queue.c has no lost wakeup: a poller never sleeps on a queue that  *)
(* holds an item, nor is woken for one that does not, but while a call is  *)
(* between the two halves of its critical section.                         *)
THEOREM NoLostWakeup == QSpec => []PollSeesItems
<1>1. QTypeOK /\ QInv => PollSeesItems
  BY DEF QTypeOK, QInv, SignalsOwed, PollSeesItems, Readable
<1>. QED
  BY <1>1, Invariance, PTL

(* The unchecked read(event_fd) of fifo_queue_receive never fails.         *)
THEOREM ReadFindsSignal == QSpec => []SignalNeverMissing
<1>1. QTypeOK /\ QInv => SignalNeverMissing
  BY DEF QTypeOK, QInv, SignalsOwed, SignalNeverMissing, Readable, Critical
<1>. QED
  BY <1>1, Invariance, PTL

-----------------------------------------------------------------------------
(* The ring implements the bounded FIFO. *)

LEMMA ContentsSeq ==
  ASSUME QTypeOK, SlotsFilled
  PROVE  /\ Contents \in Seq(Items)
         /\ Len(Contents) = count
         /\ \A i \in 1 .. count : Contents[i] = buffer[SlotOf(i - 1)]
  BY DEF QTypeOK, SlotsFilled, Contents

(* Storing at head appends. *)
LEMMA StoreAppends ==
  ASSUME QTypeOK, QInv, NEW t \in Threads, SendStore(t)
  PROVE  Contents' = Append(Contents, item[t])
<1>. USE DEF QTypeOK, QInv
<1>1. tail' = tail /\ count' = count + 1 /\ count \in 0 .. Capacity - 1
      /\ buffer' = [buffer EXCEPT ![head] = item[t]] /\ item[t] \in Items
  BY DEF SendStore, SendersHaveItems, Goto
<1>2. head = SlotOf(count) /\ head \in Slots
  BY DEF RingAgrees
<1>. DEFINE appended == Append(Contents, item[t])
<1>3. /\ appended \in Seq(Items)
      /\ Len(appended) = count + 1
      /\ \A i \in 1 .. count : appended[i] = buffer[SlotOf(i - 1)]
      /\ appended[count + 1] = item[t]
  BY <1>1, ContentsSeq, AppendProperties
<1>4. ASSUME NEW i \in 1 .. count PROVE buffer'[SlotOf(i - 1)] = buffer[SlotOf(i - 1)]
  <2>1. i - 1 \in 0 .. Capacity - 1 /\ count \in 0 .. Capacity - 1 /\ i - 1 # count
    BY <1>1
  <2>2. SlotOf(i - 1) # head /\ SlotOf(i - 1) \in Slots
    BY <1>2, <2>1, SlotsDistinct, SlotInRange
  <2>. QED
    BY <1>1, <2>2
<1>5. buffer'[SlotOf(count)] = item[t]
  BY <1>1, <1>2
<1>6. Contents' = [i \in 1 .. count + 1 |-> buffer'[SlotOf(i - 1)]]
  BY <1>1 DEF Contents, SlotOf
<1>7. \A i \in 1 .. count + 1 : buffer'[SlotOf(i - 1)] = appended[i]
  <2>1. ASSUME NEW i \in 1 .. count + 1 PROVE buffer'[SlotOf(i - 1)] = appended[i]
    <3>1. CASE i = count + 1
      BY <1>1, <1>3, <1>5, <3>1
    <3>2. CASE i # count + 1
      BY <1>1, <1>3, <1>4, <3>2
    <3>. QED
      BY <3>1, <3>2
  <2>. QED
    BY <2>1
<1>8. appended = [i \in 1 .. count + 1 |-> appended[i]]
  BY <1>1, <1>3
<1>. HIDE DEF appended
<1>9. Contents' = appended
  BY <1>6, <1>7, <1>8
<1>. QED
  BY <1>9 DEF appended

(* Taking at tail delivers the head. *)
LEMMA TakeDelivers ==
  ASSUME QTypeOK, QInv, NEW t \in Threads, RecvTake(t)
  PROVE  /\ Contents # << >>
         /\ buffer[tail] = Head(Contents)
         /\ Contents' = Tail(Contents)
<1>. USE DEF QTypeOK, QInv
<1>1. tail' = NextSlot(tail) /\ count' = count - 1 /\ count \in 1 .. Capacity
      /\ buffer' = buffer
  BY DEF RecvTake
<1>2. Contents # << >>
  BY <1>1, ContentsSeq
<1>3. buffer[tail] = Head(Contents)
  <2>1. SlotOf(0) = tail
    BY SlotValue DEF Slots
  <2>. QED
    BY <1>1, <1>2, <2>1, ContentsSeq
<1>. DEFINE rest == Tail(Contents)
<1>4. /\ rest \in Seq(Items)
      /\ Len(rest) = count - 1
      /\ \A i \in 1 .. count - 1 : rest[i] = buffer[SlotOf(i)]
  BY <1>1, <1>2, ContentsSeq, HeadTailProperties
<1>5. ASSUME NEW i \in 1 .. count - 1 PROVE (tail' + (i - 1)) % Capacity = SlotOf(i)
  <2>1. PICK k \in 0 .. Capacity - 1 : k = i - 1
    BY <1>1
  <2>2. SlotOf(k)' = SlotOf(k + 1)
    BY <1>1, SlotShift
  <2>. QED
    BY <2>1, <2>2 DEF SlotOf
<1>6. Contents' = [i \in 1 .. count - 1 |-> buffer[(tail' + (i - 1)) % Capacity]]
  BY <1>1 DEF Contents, SlotOf
<1>. HIDE DEF rest
<1>7. rest = [i \in 1 .. count - 1 |-> rest[i]]
  BY <1>1, <1>4
<1>8. Contents' = rest
  BY <1>4, <1>5, <1>6, <1>7
<1>. QED
  BY <1>2, <1>3, <1>8 DEF rest

LEMMA RingKept ==
  ASSUME UNCHANGED ring
  PROVE  Contents' = Contents
  BY DEF ring, Contents, SlotOf

LEMMA StepSimulation ==
  QTypeOK /\ QInv /\ [QNext]_qvars => [Fifo!Next]_Fifo!vars
<1>. SUFFICES ASSUME QTypeOK, QInv, [QNext]_qvars PROVE [Fifo!Next]_Fifo!vars
  OBVIOUS
<1>. USE DEF QTypeOK, Goto, ReturnValue, Pending, Settled
<1>1. ASSUME NEW t \in Threads, NEW m \in Items, SendCall(t, m) PROVE Fifo!InvokeSend(t, m)
  BY <1>1, RingKept DEF SendCall, Fifo!InvokeSend
<1>2. ASSUME NEW t \in Threads, RecvCall(t) PROVE Fifo!InvokeReceive(t)
  BY <1>2, RingKept DEF RecvCall, Fifo!InvokeReceive
<1>3. ASSUME NEW t \in Threads, SendFull(t) PROVE Fifo!Reject(t)
  <2>1. Len(Contents) = Capacity
    BY <1>3, ContentsSeq DEF SendFull, QInv
  <2>2. Contents' = Contents
    BY <1>3, RingKept DEF SendFull
  <2>. QED
    BY <1>3, <2>1, <2>2 DEF SendFull, Fifo!Reject, Fifo!Returns
<1>4. ASSUME NEW t \in Threads, SendStore(t) PROVE Fifo!Accept(t)
  BY <1>4, StoreAppends, ContentsSeq DEF SendStore, Fifo!Accept, Fifo!Returns, QInv
<1>5. ASSUME NEW t \in Threads, RecvEmpty(t) PROVE Fifo!FindEmpty(t)
  <2>1. Contents = << >>
    BY <1>5, ContentsSeq DEF RecvEmpty, QInv
  <2>2. Contents' = Contents
    BY <1>5, RingKept DEF RecvEmpty
  <2>. QED
    BY <1>5, <2>1, <2>2 DEF RecvEmpty, Fifo!FindEmpty, Fifo!Returns
<1>6. ASSUME NEW t \in Threads, RecvTake(t) PROVE Fifo!Deliver(t)
  BY <1>6, TakeDelivers DEF RecvTake, Fifo!Deliver, Fifo!Returns
<1>7. ASSUME NEW t \in Threads,
             Acquire(t) \/ SendSignal(t) \/ RecvSignal(t) \/ SendUnlock(t) \/ RecvUnlock(t)
      PROVE  UNCHANGED Fifo!vars
  BY <1>7, RingKept
  DEF Acquire, SendLock, RecvLock, SendSignal, RecvSignal, SendUnlock, RecvUnlock, Fifo!vars
<1>8. CASE UNCHANGED qvars
  BY <1>8, RingKept DEF qvars, ring, Fifo!vars
<1>. QED
  BY <1>1, <1>2, <1>3, <1>4, <1>5, <1>6, <1>7, <1>8
  DEF QNext, Call, QStep, Proceed, Fifo!Next, Fifo!Step

(* fifo_queue.c implements the bounded FIFO its header promises: every     *)
(* behaviour of its callers, under any interleaving, is one of calls that  *)
(* each take effect in a single step.                                      *)
THEOREM Linearisable == QSpec => ImplementsFifo
<1>1. QInit => Fifo!Init
  <2>1. SUFFICES ASSUME QInit PROVE Fifo!Init
    OBVIOUS
  <2>2. Contents = << >>
    BY <2>1 DEF QInit, Contents
  <2>. QED
    BY <2>1, <2>2 DEF QInit, Fifo!Init, Pending, Settled
<1>2. QTypeOK /\ QInv /\ [QNext]_qvars => [Fifo!Next]_Fifo!vars
  BY StepSimulation
<1>. QED
  BY <1>1, <1>2, Invariance, PTL DEF QSpec, ImplementsFifo, Fifo!Spec

==============================================================================
