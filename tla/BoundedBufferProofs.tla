------------------------- MODULE BoundedBufferProofs -------------------------
(***************************************************************************)
(* What BoundedBuffer.cfg checks for six values and a buffer of three,     *)
(* proved for every number of values and every size.                       *)
(***************************************************************************)
EXTENDS BoundedBuffer, SequenceTheorems, TLAPS

(* Index arithmetic of ringbuf.c. *)
LEMMA Wrap ==
  ASSUME NEW C \in Nat \ {0}, NEW s \in 0 .. C - 1, NEW k \in 0 .. C
  PROVE  (s + k) % C = IF s + k < C THEN s + k ELSE s + k - C
<1>1. CASE s + k < C
  BY <1>1
<1>2. CASE s + k >= C
  <2>1. s + k - C \in 0 .. C - 1
    BY <1>2
  <2> QED BY <1>2, <2>1
<1> QED BY <1>1, <1>2

(* The next slot, without the remainder. *)
LEMMA NextSlotValue ==
  ASSUME NEW s \in Slots
  PROVE  NextSlot(s) = IF s + 1 = Size THEN 0 ELSE s + 1
<1>1. Size \in Nat \ {0} /\ s \in 0 .. Size - 1 /\ 1 \in 0 .. Size
  BY BufferAssumption DEF Slots
<1>2. (s + 1) % Size = IF s + 1 < Size THEN s + 1 ELSE s + 1 - Size
  BY <1>1, Wrap
<1> QED BY <1>1, <1>2 DEF NextSlot

LEMMA NextSlotInRange ==
  ASSUME NEW s \in Slots
  PROVE  NextSlot(s) \in Slots
<1>1. Size \in Nat \ {0} /\ s \in 0 .. Size - 1
  BY BufferAssumption DEF Slots
<1> QED BY <1>1, NextSlotValue DEF Slots

-----------------------------------------------------------------------------
(* Every step keeps the variables of main.c and ringbuf.c in their types. *)
LEMMA TypeStep ==
  ASSUME BTypeOK, BInv, [BNext]_bvars
  PROVE  BTypeOK'
<1> USE BufferAssumption DEF BTypeOK, Pcs, ring, sync
<1>1. CASE ProducerNext
  <2>1. CASE ProducerLoop
    BY <2>1 DEF ProducerLoop, Producer
  <2>2. CASE PushWait \/ PushLock
    BY <2>2 DEF PushWait, PushLock, Producer
  <2>3. CASE RbPush
    <3>1. i \in 0 .. N - 1 /\ NextSlot(insertIdx) \in Slots
      BY <2>3, NextSlotInRange DEF RbPush, Producer, BInv, Phases
    <3> QED BY <2>3, <3>1 DEF RbPush, Producer
  <2>4. CASE PushUnlock \/ PushPost
    BY <2>4 DEF PushUnlock, PushPost, Producer, BInv, Phases
  <2> QED BY <1>1, <2>1, <2>2, <2>3, <2>4 DEF ProducerNext
<1>2. CASE ConsumerNext
  <2>1. CASE ConsumerDies \/ Wakes \/ Prints
    BY <2>1 DEF ConsumerDies, Wakes, Prints, Consumer
  <2>2. CASE PopWait \/ PopLock \/ PopUnlock \/ PopPost
    BY <2>2 DEF PopWait, PopLock, PopUnlock, PopPost, Consumer
  <2>3. CASE RbPop
    <3>1. NextSlot(removeIdx) \in Slots
      BY NextSlotInRange
    <3> QED BY <2>3, <3>1 DEF RbPop, Take, Ends, Consumer
  <2> QED BY <1>2, <2>1, <2>2, <2>3 DEF ConsumerNext
<1>3. CASE MainNext
  BY <1>3 DEF MainNext, JoinProducer, CancelConsumer, BufDestroy, MainReturns, MainStep
<1>4. CASE UNCHANGED bvars
  BY <1>4 DEF bvars
<1> QED BY <1>1, <1>2, <1>3, <1>4 DEF BNext, Ended

(* The semaphores and the mutex keep their account of who is where. *)
LEMMA SyncStep ==
  ASSUME BTypeOK, BInv, [BNext]_bvars
  PROVE  SemaphoresCount' /\ MutexHeld' /\ BoundsHeld' /\ Phases'
<1> USE BufferAssumption
    DEF BTypeOK, BInv, SemaphoresCount, MutexHeld, BoundsHeld, Phases, Pcs, One,
        ring, sync, freed, Running
<1>1. CASE ProducerNext
  <2>1. CASE ProducerLoop
    BY <2>1 DEF ProducerLoop, Producer
  <2>2. CASE PushWait
    BY <2>2 DEF PushWait, Producer
  <2>3. CASE PushLock
    BY <2>3 DEF PushLock, Producer
  <2>4. CASE RbPush
    BY <2>4 DEF RbPush, Producer
  <2>5. CASE PushUnlock
    BY <2>5 DEF PushUnlock, Producer
  <2>6. CASE PushPost
    BY <2>6 DEF PushPost, Producer
  <2> QED BY <1>1, <2>1, <2>2, <2>3, <2>4, <2>5, <2>6 DEF ProducerNext
<1>2. CASE ConsumerNext
  <2>1. CASE ConsumerDies
    BY <2>1 DEF ConsumerDies, Consumer, AtCancellationPoint
  <2>2. CASE Wakes \/ Prints
    BY <2>2 DEF Wakes, Prints, Consumer
  <2>3. CASE PopWait
    BY <2>3 DEF PopWait, Consumer
  <2>4. CASE PopLock
    BY <2>4 DEF PopLock, Consumer
  <2>5. CASE RbPop
    BY <2>5 DEF RbPop, Take, Ends, Consumer
  <2>6. CASE PopUnlock
    BY <2>6 DEF PopUnlock, Consumer
  <2>7. CASE PopPost
    BY <2>7 DEF PopPost, Consumer
  <2> QED BY <1>2, <2>1, <2>2, <2>3, <2>4, <2>5, <2>6, <2>7 DEF ConsumerNext
<1>3. CASE MainNext
  BY <1>3 DEF MainNext, JoinProducer, CancelConsumer, BufDestroy, MainReturns, MainStep
<1>4. CASE UNCHANGED bvars
  BY <1>4 DEF bvars
<1> QED BY <1>1, <1>2, <1>3, <1>4 DEF BNext, Ended

(* The indices of ringbuf.c stay as far apart as its length says. *)
LEMMA RingStep ==
  ASSUME BTypeOK, BInv, [BNext]_bvars
  PROVE  RingAgrees'
<1>1. CASE UNCHANGED ring
  BY <1>1 DEF BInv, RingAgrees, ring
<1>2. ASSUME insertIdx' = NextSlot(insertIdx), length < Size, length' = length + 1,
             UNCHANGED removeIdx
      PROVE  RingAgrees'
  <2>1. /\ Size \in Nat \ {0} /\ removeIdx \in 0 .. Size - 1 /\ insertIdx \in Slots
        /\ length \in 0 .. Size /\ length + 1 \in 0 .. Size
    BY <1>2, BufferAssumption DEF BTypeOK, Slots
  <2>2. insertIdx = IF removeIdx + length < Size THEN removeIdx + length
                                                 ELSE removeIdx + length - Size
    BY <2>1, Wrap DEF BInv, RingAgrees
  <2>3. (removeIdx + (length + 1)) % Size =
          IF removeIdx + (length + 1) < Size THEN removeIdx + (length + 1)
                                             ELSE removeIdx + (length + 1) - Size
    BY <2>1, Wrap
  <2>4. insertIdx' = (removeIdx + (length + 1)) % Size
    BY <1>2, <2>1, <2>2, <2>3, NextSlotValue
  <2> QED BY <1>2, <2>4 DEF RingAgrees
<1>3. ASSUME removeIdx' = NextSlot(removeIdx), length > 0, length' = length - 1,
             UNCHANGED insertIdx
      PROVE  RingAgrees'
  <2>1. /\ Size \in Nat \ {0} /\ removeIdx \in 0 .. Size - 1 /\ removeIdx \in Slots
        /\ length \in 0 .. Size /\ length - 1 \in 0 .. Size
    BY <1>3, BufferAssumption DEF BTypeOK, Slots
  <2>2. insertIdx = IF removeIdx + length < Size THEN removeIdx + length
                                                 ELSE removeIdx + length - Size
    BY <2>1, Wrap DEF BInv, RingAgrees
  <2>3. NextSlot(removeIdx) \in 0 .. Size - 1
    BY <2>1, NextSlotInRange DEF Slots
  <2>4. (NextSlot(removeIdx) + (length - 1)) % Size =
          IF NextSlot(removeIdx) + (length - 1) < Size
          THEN NextSlot(removeIdx) + (length - 1)
          ELSE NextSlot(removeIdx) + (length - 1) - Size
    BY <2>1, <2>3, Wrap
  <2>5. insertIdx = (NextSlot(removeIdx) + (length - 1)) % Size
    BY <2>1, <2>2, <2>4, NextSlotValue
  <2> QED BY <1>3, <2>5 DEF RingAgrees
<1>4. CASE RbPush
  BY <1>1, <1>2, <1>4 DEF RbPush, ring
<1>5. CASE RbPop
  <2>1. length \in Int
    BY DEF BTypeOK
  <2>2. length > 0 \/ length = 0
    BY BufferAssumption DEF BTypeOK
  <2> QED BY <1>1, <1>3, <1>5, <2>2 DEF RbPop, Take, Ends, ring
<1>6. ASSUME [BNext]_bvars, ~ RbPush, ~ RbPop PROVE UNCHANGED ring
  BY <1>6
  DEF BNext, ProducerNext, ConsumerNext, MainNext, Ended, bvars, ring,
      ProducerLoop, PushWait, PushLock, PushUnlock, PushPost,
      ConsumerDies, Wakes, PopWait, PopLock, PopUnlock, PopPost, Prints,
      JoinProducer, CancelConsumer, BufDestroy, MainReturns, MainStep
<1> QED BY <1>1, <1>4, <1>5, <1>6

(* For every N and every size, the invariant of the bounded buffer holds:  *)
(* in particular the asserts of ringbuf.c never fail.                      *)
THEOREM Invariance == BSpec => [](BTypeOK /\ BInv)
<1>1. BInit => BTypeOK /\ BInv
  <2> SUFFICES ASSUME BInit PROVE BTypeOK /\ BInv
    OBVIOUS
  <2>1. 0 \in Slots /\ Size \in Nat /\ N \in Nat
    BY BufferAssumption DEF Slots
  <2>2. BTypeOK
    BY <2>1 DEF BInit, BTypeOK, Pcs, NoValue
  <2>3. SemaphoresCount /\ MutexHeld /\ BoundsHeld /\ Phases
    BY <2>1 DEF BInit, SemaphoresCount, MutexHeld, BoundsHeld, Phases, One
  <2>4. (0 + 0) % Size = 0
    BY BufferAssumption, Wrap
  <2>5. RingAgrees
    BY <2>4 DEF BInit, RingAgrees
  <2> QED BY <2>2, <2>3, <2>5 DEF BInv
<1>2. BTypeOK /\ BInv /\ [BNext]_bvars => (BTypeOK /\ BInv)'
  BY TypeStep, SyncStep, RingStep DEF BInv
<1> QED BY <1>1, <1>2, PTL DEF BSpec

-----------------------------------------------------------------------------
(* The ring implements the channel. *)

Values == {NoValue} \cup 0 .. N - 1

LEMMA ContentsSeq ==
  ASSUME BTypeOK
  PROVE  /\ Contents \in Seq(Values)
         /\ Len(Contents) = length
         /\ \A k \in 1 .. length : Contents[k] = buffer[(removeIdx + (k - 1)) % Size]
<1>1. ASSUME NEW k \in 1 .. length
      PROVE  /\ (removeIdx + k - 1) = removeIdx + (k - 1)
             /\ (removeIdx + (k - 1)) % Size \in Slots
  <2>1. /\ Size \in Nat \ {0} /\ removeIdx \in 0 .. Size - 1
        /\ length \in 0 .. Size /\ k - 1 \in 0 .. Size
    BY BufferAssumption DEF BTypeOK, Slots
  <2> QED BY <2>1, Wrap DEF Slots
<1>2. \A k \in 1 .. length : Contents[k] = buffer[(removeIdx + (k - 1)) % Size]
  BY <1>1 DEF Contents
<1>3. \A k \in 1 .. length : buffer[(removeIdx + (k - 1)) % Size] \in Values
  BY <1>1 DEF BTypeOK, Values
<1>4. length \in Nat
  BY BufferAssumption DEF BTypeOK
<1> QED BY <1>1, <1>2, <1>3, <1>4 DEF Contents

(* rb_push appends. *)
LEMMA PushAppends ==
  ASSUME BTypeOK, BInv, RbPush, length < Size
  PROVE  Contents' = Append(Contents, i)
<1>1. /\ buffer' = [buffer EXCEPT ![insertIdx] = i] /\ length' = length + 1
      /\ removeIdx' = removeIdx
  BY DEF RbPush
<1>2. /\ Size \in Nat \ {0} /\ removeIdx \in 0 .. Size - 1 /\ length \in 0 .. Size - 1
      /\ insertIdx \in Slots /\ i \in Values
  BY BufferAssumption DEF BTypeOK, BInv, Phases, RbPush, Producer, Values, Slots
<1>3. insertIdx = (removeIdx + length) % Size
  BY DEF BInv, RingAgrees
<1> DEFINE appended == Append(Contents, i)
<1>4. /\ appended \in Seq(Values) /\ Len(appended) = length + 1
      /\ \A k \in 1 .. length : appended[k] = buffer[(removeIdx + (k - 1)) % Size]
      /\ appended[length + 1] = i
  BY <1>2, ContentsSeq, AppendProperties
<1>5. ASSUME NEW k \in 1 .. length
      PROVE  buffer'[(removeIdx + (k - 1)) % Size] = buffer[(removeIdx + (k - 1)) % Size]
  <2>1. k - 1 \in 0 .. Size /\ length \in 0 .. Size /\ k - 1 < length
    BY <1>2
  <2>2. insertIdx = IF removeIdx + length < Size THEN removeIdx + length
                                                 ELSE removeIdx + length - Size
    BY <1>2, <1>3, <2>1, Wrap
  <2>3. (removeIdx + (k - 1)) % Size =
          IF removeIdx + (k - 1) < Size THEN removeIdx + (k - 1) ELSE removeIdx + (k - 1) - Size
    BY <1>2, <2>1, Wrap
  <2>4. (removeIdx + (k - 1)) % Size # insertIdx /\ (removeIdx + (k - 1)) % Size \in Slots
    BY <1>2, <2>1, <2>2, <2>3 DEF Slots
  <2> QED BY <1>1, <2>4 DEF BTypeOK
<1>6. buffer'[(removeIdx + length) % Size] = i
  BY <1>1, <1>2, <1>3 DEF BTypeOK
<1>7. ASSUME NEW k \in 1 .. length + 1 PROVE buffer'[(removeIdx + k - 1) % Size] = appended[k]
  <2>1. removeIdx + k - 1 = removeIdx + (k - 1)
    BY <1>2
  <2>2. CASE k = length + 1
    <3>1. removeIdx + k - 1 = removeIdx + length
      BY <1>2, <2>2
    <3> QED BY <1>4, <1>6, <2>2, <3>1
  <2>3. CASE k # length + 1
    <3>1. k \in 1 .. length
      BY <1>2, <2>3
    <3> QED BY <1>4, <1>5, <2>1, <3>1
  <2> QED BY <2>2, <2>3
<1>8. Contents' = [k \in 1 .. length + 1 |-> buffer'[(removeIdx + k - 1) % Size]]
  BY <1>1 DEF Contents
<1> HIDE DEF appended
<1>9. appended = [k \in 1 .. length + 1 |-> appended[k]]
  BY <1>2, <1>4
<1>10. Contents' = appended
  BY <1>7, <1>8, <1>9
<1> QED BY <1>10 DEF appended

(* rb_pop takes the head. *)
LEMMA TakeDelivers ==
  ASSUME BTypeOK, BInv, Take, length > 0
  PROVE  /\ Contents # << >>
         /\ val' = Head(Contents)
         /\ Contents' = Tail(Contents)
<1>1. /\ val' = buffer[removeIdx] /\ removeIdx' = NextSlot(removeIdx)
      /\ length' = length - 1 /\ buffer' = buffer
  BY DEF Take
<1>2. /\ Size \in Nat \ {0} /\ removeIdx \in 0 .. Size - 1 /\ length \in 1 .. Size
      /\ removeIdx \in Slots
  BY BufferAssumption DEF BTypeOK, Slots
<1>3. Contents # << >>
  BY <1>2, ContentsSeq
<1>4. val' = Head(Contents)
  <2>1. 0 \in 0 .. Size /\ 1 \in 1 .. length /\ removeIdx + 0 = removeIdx /\ 1 - 1 = 0
    BY <1>2
  <2>2. (removeIdx + 0) % Size = removeIdx
    <3>1. removeIdx + 0 < Size
      BY <1>2
    <3>2. (removeIdx + 0) % Size = removeIdx + 0
      BY <1>2, <2>1, <3>1, Wrap
    <3> QED BY <1>2, <3>2
  <2>3. Contents[1] = buffer[(removeIdx + (1 - 1)) % Size]
    BY <2>1, ContentsSeq
  <2> QED BY <1>1, <1>3, <2>1, <2>2, <2>3, ContentsSeq
<1> DEFINE rest == Tail(Contents)
<1>5. /\ rest \in Seq(Values) /\ Len(rest) = length - 1
      /\ \A k \in 1 .. length - 1 : rest[k] = buffer[(removeIdx + k) % Size]
  <2>1. /\ rest \in Seq(Values) /\ Len(rest) = length - 1
        /\ \A k \in 1 .. length - 1 : rest[k] = Contents[k + 1]
    BY <1>2, <1>3, ContentsSeq, HeadTailProperties
  <2>2. ASSUME NEW k \in 1 .. length - 1 PROVE Contents[k + 1] = buffer[(removeIdx + k) % Size]
    <3>1. k + 1 \in 1 .. length /\ (k + 1) - 1 = k
      BY <1>2
    <3> QED BY <3>1, ContentsSeq
  <2> QED BY <2>1, <2>2
<1>6. ASSUME NEW k \in 1 .. length - 1
      PROVE  (removeIdx' + k - 1) % Size = (removeIdx + k) % Size
  <2>1. k \in 0 .. Size /\ k - 1 \in 0 .. Size
    BY <1>2
  <2>2. NextSlot(removeIdx) \in 0 .. Size - 1
    BY <1>2, NextSlotInRange DEF Slots
  <2>3. NextSlot(removeIdx) + k - 1 = NextSlot(removeIdx) + (k - 1)
    BY <2>1, <2>2, <1>2
  <2>4. (NextSlot(removeIdx) + (k - 1)) % Size =
          IF NextSlot(removeIdx) + (k - 1) < Size THEN NextSlot(removeIdx) + (k - 1)
                                                 ELSE NextSlot(removeIdx) + (k - 1) - Size
    BY <1>2, <2>1, <2>2, Wrap
  <2>5. (removeIdx + k) % Size =
          IF removeIdx + k < Size THEN removeIdx + k ELSE removeIdx + k - Size
    BY <1>2, <2>1, Wrap
  <2> QED BY <1>1, <1>2, <2>1, <2>3, <2>4, <2>5, NextSlotValue
<1>7. Contents' = [k \in 1 .. length - 1 |-> buffer[(removeIdx' + k - 1) % Size]]
  BY <1>1 DEF Contents
<1> HIDE DEF rest
<1>8. rest = [k \in 1 .. length - 1 |-> rest[k]]
  BY <1>2, <1>5
<1>9. Contents' = rest
  BY <1>5, <1>6, <1>7, <1>8
<1> QED BY <1>3, <1>4, <1>9 DEF rest

LEMMA ContentsKept ==
  ASSUME UNCHANGED ring
  PROVE  Contents' = Contents
BY DEF ring, Contents

(* Until the buffer is freed, a step of the C solution is a step of the    *)
(* channel, or none.                                                       *)
LEMMA StepSimulation ==
  ASSUME BTypeOK, BInv, [BNext]_bvars
  PROVE  freed \/ Channel!GNext \/ UNCHANGED Channel!gvars
<1> USE BufferAssumption DEF Channel!gvars, Pushed, One
<1>1. CASE RbPush
  <2>1. length < Size
    BY <1>1 DEF RbPush, Producer, BTypeOK, BInv, SemaphoresCount, Phases, freed, Running, One
  <2>2. Contents' = Append(Contents, i) /\ Len(Contents) = length
    BY <1>1, <2>1, PushAppends, ContentsSeq
  <2>3. ppc = "push" /\ ppc' = "unlock" /\ i' = i /\ val' = val /\ i < N
    BY <1>1 DEF RbPush, Producer, BInv, Phases
  <2>4. Pushed = i /\ Pushed' = i + 1
    BY <2>3 DEF BTypeOK
  <2>5. Channel!Push
    BY <2>1, <2>2, <2>3, <2>4 DEF Channel!Push
  <2> QED BY <2>5 DEF Channel!GNext
<1>2. CASE RbPop /\ ~ freed
  <2>1. length > 0
    BY <1>2 DEF RbPop, Consumer, BTypeOK, BInv, SemaphoresCount, freed, One
  <2>2. Take /\ i' = i /\ ppc' = ppc
    BY <1>2, <2>1 DEF RbPop, Consumer
  <2>3. Contents # << >> /\ val' = Head(Contents) /\ Contents' = Tail(Contents)
    BY <2>1, <2>2, TakeDelivers
  <2>4. Channel!Pop
    BY <2>2, <2>3 DEF Channel!Pop
  <2> QED BY <2>4 DEF Channel!GNext
<1>3. ASSUME ProducerNext, ~ RbPush PROVE UNCHANGED Channel!gvars
  <2>1. UNCHANGED ring /\ UNCHANGED val
    BY <1>3
    DEF ProducerNext, ProducerLoop, PushWait, PushLock, PushUnlock, PushPost, Producer
  <2>2. UNCHANGED Pushed
    BY <1>3
    DEF ProducerNext, ProducerLoop, PushWait, PushLock, PushUnlock, PushPost, Producer, BTypeOK
  <2> QED BY <2>1, <2>2, ContentsKept
<1>4. ASSUME ConsumerNext, ~ RbPop PROVE UNCHANGED Channel!gvars
  <2>1. UNCHANGED ring /\ UNCHANGED <<val, i, ppc>>
    BY <1>4
    DEF ConsumerNext, ConsumerDies, Wakes, Prints, PopWait, PopLock, PopUnlock, PopPost, Consumer
  <2> QED BY <2>1, ContentsKept
<1>5. CASE MainNext \/ UNCHANGED bvars
  <2>1. UNCHANGED ring /\ UNCHANGED <<val, i, ppc>>
    BY <1>5
    DEF MainNext, JoinProducer, CancelConsumer, BufDestroy, MainReturns, MainStep, bvars
  <2> QED BY <2>1, ContentsKept
<1> QED BY <1>1, <1>2, <1>3, <1>4, <1>5 DEF BNext, Ended

(* The semaphores, the mutex and the ring of the C solution implement the  *)
(* channel of the Go solution, for every size, as long as they exist.      *)
THEOREM Implements == BSpec => ImplementsChannel
<1>1. BInit => Channel!GInit
  <2> SUFFICES ASSUME BInit PROVE Channel!GInit
    OBVIOUS
  <2>1. Contents = << >>
    BY DEF BInit, Contents
  <2> QED BY <2>1 DEF BInit, Channel!GInit, Pushed, One, NoValue
<1>2. BTypeOK /\ BInv /\ [BNext]_bvars =>
        [freed \/ Channel!GNext \/ UNCHANGED Channel!gvars]_bvars
  BY StepSimulation
<1> QED BY <1>1, <1>2, Invariance, PTL DEF BSpec, ImplementsChannel

LEMMA FreedStays ==
  ASSUME BInv, [BNext]_bvars, freed
  PROVE  freed'
<1>1. mpc \in {"return", "exited", "killed"} /\ ppc = "returned"
  BY DEF freed, BInv, Phases
<1>2. CASE ProducerNext
  BY <1>1, <1>2
  DEF ProducerNext, ProducerLoop, PushWait, PushLock, RbPush, PushUnlock, PushPost, Producer
<1>3. CASE RbPop
  BY <1>3 DEF freed, RbPop, Ends
<1>4. CASE ConsumerNext /\ ~ RbPop
  BY <1>4
  DEF freed, ConsumerNext, ConsumerDies, Wakes, PopWait, PopLock, PopUnlock, PopPost, Prints
<1>5. CASE MainNext
  BY <1>1, <1>5
  DEF freed, MainNext, JoinProducer, CancelConsumer, BufDestroy, MainReturns, MainStep
<1>6. CASE UNCHANGED bvars
  BY <1>6 DEF freed, bvars
<1> QED BY <1>2, <1>3, <1>4, <1>5, <1>6 DEF BNext, Ended

(* A step of the channel keeps what it holds in order. *)
LEMMA OrderStep ==
  ASSUME BTypeOK, BInv, ValuesInOrder, [BNext]_bvars
  PROVE  ValuesInOrder'
<1>1. CASE freed
  BY <1>1, FreedStays DEF ValuesInOrder
<1>2. CASE ~ freed
  <2> DEFINE Order(seq, n, v) ==
        n = v + Len(seq) + 1 /\ \A k \in 1 .. Len(seq) : seq[k] = v + k
  <2>1. Order(Contents, Pushed, val) /\ Contents \in Seq(Values)
    BY <1>2, ContentsSeq DEF ValuesInOrder, Channel!InOrder
  <2>2. val \in Int /\ i \in Int /\ Pushed \in Int
    BY BufferAssumption DEF BTypeOK, NoValue, Pushed, One
  <2>3. CASE Channel!Push
    <3>1. /\ Contents' = Append(Contents, Pushed)
          /\ Pushed' = Pushed + 1 /\ val' = val
      BY <2>3 DEF Channel!Push
    <3>2. Order(Append(Contents, Pushed), Pushed + 1, val)
      BY <2>1, <2>2
    <3> QED BY <3>1, <3>2 DEF ValuesInOrder, Channel!InOrder
  <2>4. CASE Channel!Pop
    <3>1. /\ Contents # << >> /\ val' = Head(Contents)
          /\ Contents' = Tail(Contents) /\ Pushed' = Pushed
      BY <2>4 DEF Channel!Pop
    <3>2. ASSUME NEW seq \in Seq(Values), seq # << >>, Order(seq, Pushed, val)
          PROVE  Order(Tail(seq), Pushed, Head(seq))
      <4>1. Len(seq) \in Nat \ {0} /\ Head(seq) = val + 1
        BY <3>2
      <4>2. /\ Len(Tail(seq)) = Len(seq) - 1
            /\ \A k \in 1 .. Len(seq) - 1 : Tail(seq)[k] = seq[k + 1]
        BY <3>2, HeadTailProperties
      <4>3. \A k \in 1 .. Len(seq) - 1 : seq[k + 1] = val + (k + 1)
        BY <3>2, <4>1
      <4> QED BY <2>2, <3>2, <4>1, <4>2, <4>3
    <3> QED BY <2>1, <3>1, <3>2 DEF ValuesInOrder, Channel!InOrder
  <2>5. CASE UNCHANGED Channel!gvars
    BY <2>1, <2>5 DEF ValuesInOrder, Channel!InOrder, Channel!gvars
  <2> QED BY <1>2, <2>3, <2>4, <2>5, StepSimulation DEF Channel!GNext
<1> QED BY <1>1, <1>2

(* Until it is freed, the C buffer hands out 0, 1, 2, ... whatever its     *)
(* size and the schedule: the order is the channel's, by Implements.       *)
THEOREM Ordered == BSpec => []ValuesInOrder
<1>1. BInit => ValuesInOrder
  BY DEF BInit, ValuesInOrder, Channel!InOrder, Contents, Pushed, One, NoValue
<1>2. BTypeOK /\ BInv /\ ValuesInOrder /\ [BNext]_bvars => ValuesInOrder'
  BY OrderStep
<1> QED BY <1>1, <1>2, Invariance, PTL DEF BSpec

===============================================================================
