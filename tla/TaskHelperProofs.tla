--------------------------- MODULE TaskHelperProofs ---------------------------
(***************************************************************************)
(* What TaskHelper promises, for any tasks and any arrays of any size.     *)
(***************************************************************************)
EXTENDS TaskHelper, TLAPS

(* A task raises its done_fd once, and returns. *)
DoneOnce == \A t \in Tasks : handle[t].done_fd = 1 => tpc[t] = "return"

(* cur is the task at hand. *)
CurKnown == mpc \in {"create", "handle_destroy"} => cur \in Tasks

Typed == TTypeOK /\ DoneOnce /\ CurKnown

(* A task without a thread is in no array, but for the one being started. *)
Unstarted ==
  \A t \in Tasks :
    thread[t] = "none" => handle[t].array = 0 \/ (mpc = "create" /\ cur = t)

(* The task being started has no thread; the one being destroyed has left  *)
(* its array.                                                              *)
AtHand ==
  /\ mpc = "create" => thread[cur] = "none"
  /\ mpc = "handle_destroy" => handle[cur].array = 0

Placed == SlotsAgree /\ Unstarted /\ AtHand

-----------------------------------------------------------------------------
(* Types. *)

LEMMA HereKnown == TTypeOK => Here \in Tasks \cup {NoTask}
BY DEF TTypeOK, Here

(* The loops of main.c stay inside the arrays. *)
LEMMA NextArrayStays ==
  ASSUME TTypeOK, NEW CONSTANT loop, NEW CONSTANT after, NextArray(loop, after)
  PROVE  arr' \in Arrays /\ slot' \in 1 .. Capacity[arr'] /\ mpc' \in {loop, after}
<1>1. arr' \in Arrays /\ slot' = 1 /\ mpc' \in {loop, after}
  BY TaskAssumption DEF TTypeOK, NextArray, Goto, Arrays
<1>. QED
  BY <1>1, TaskAssumption DEF Arrays

LEMMA LoopStays ==
  ASSUME TTypeOK, NEW CONSTANT loop, NEW CONSTANT after,
         NextSlot(loop, NextArray(loop, after))
  PROVE  arr' \in Arrays /\ slot' \in 1 .. Capacity[arr'] /\ mpc' \in {loop, after}
<1>1. CASE slot < Capacity[arr]
  BY <1>1, TaskAssumption DEF TTypeOK, NextSlot, Arrays, Index
<1>2. CASE slot >= Capacity[arr]
  BY <1>2, NextArrayStays, TaskAssumption DEF TTypeOK, NextSlot, Arrays, Index
<1>. QED
  BY <1>1, <1>2, TaskAssumption DEF TTypeOK, Arrays, Index

(* An update of one field of a handle leaves the others alone. *)
Handles == [Tasks -> [state : TaskStates, done_fd : -1 .. 1, array : 0 .. NArrays]]

LEMMA StateUpdate ==
  ASSUME handle \in Handles, NEW t \in Tasks, NEW v \in TaskStates,
         handle' = [handle EXCEPT ![t].state = v]
  PROVE  /\ handle' \in Handles
         /\ \A u \in Tasks : handle'[u].done_fd = handle[u].done_fd
         /\ \A u \in Tasks : handle'[u].array = handle[u].array
BY DEF Handles

LEMMA ArrayUpdate ==
  ASSUME handle \in Handles, NEW t \in Tasks, NEW v \in 0 .. NArrays,
         handle' = [handle EXCEPT ![t].array = v]
  PROVE  /\ handle' \in Handles
         /\ \A u \in Tasks : handle'[u].done_fd = handle[u].done_fd
         /\ \A u \in Tasks : handle'[u].array = IF u = t THEN v ELSE handle[u].array
BY DEF Handles

LEMMA DoneUpdate ==
  ASSUME handle \in Handles, NEW t \in Tasks, NEW v \in -1 .. 1,
         handle' = [handle EXCEPT ![t].done_fd = v]
  PROVE  /\ handle' \in Handles
         /\ \A u \in Tasks : handle'[u].done_fd = IF u = t THEN v ELSE handle[u].done_fd
         /\ \A u \in Tasks : handle'[u].array = handle[u].array
BY DEF Handles

LEMMA MainTypes == Typed /\ MainNext => Typed'
<1>. SUFFICES ASSUME Typed, MainNext PROVE Typed'
  OBVIOUS
<1>. USE TaskAssumption DEF Typed, TTypeOK, DoneOnce, CurKnown, TaskStates, Arrays, Index,
       arrays, verdicts, world, mvars, Here, Goto, NextSlot, NextArray
<1>1. CASE WaitForSigint
  BY <1>1 DEF WaitForSigint
<1>2. CASE PthreadCreate
  BY <1>2 DEF PthreadCreate
<1>3. CASE PthreadCreateFails
  BY <1>3 DEF PthreadCreateFails, Destroy, TaskArrayRemove, Closed
<1>4. CASE StopSlot
  <2>1. arr' \in Arrays /\ slot' \in Index(arr)' /\ mpc' \in {"stop", "poll"}
    BY <1>4, LoopStays DEF StopSlot
  <2>2. handle' \in Handles
    BY <1>4, HereKnown, StateUpdate DEF StopSlot, Handles
  <2>3. \A t \in Tasks : handle'[t].done_fd = handle[t].done_fd
    BY <1>4, HereKnown, StateUpdate DEF StopSlot, Handles
  <2>. QED
    BY <1>4, <2>1, <2>2, <2>3 DEF StopSlot, Handles
<1>5. CASE PollDone
  BY <1>5 DEF PollDone
<1>6. CASE PollTimeout
  BY <1>6 DEF PollTimeout
<1>7. CASE PollForced
  BY <1>7 DEF PollForced
<1>8. CASE PollFails
  <2>1. CASE NextArray("poll", "join") /\ unanswered' = unanswered \cup {arr}
    <3>1. arr' \in Arrays /\ slot' \in Index(arr)' /\ mpc' \in {"poll", "join"}
      BY <2>1, NextArrayStays
    <3>. QED
      BY <1>8, <2>1, <3>1 DEF PollFails
  <2>2. CASE Goto("cancel", arr) /\ UNCHANGED unanswered
    BY <1>8, <2>2 DEF PollFails
  <2>. QED
    BY <1>8, <2>1, <2>2 DEF PollFails
<1>9. CASE CancelSlot
  <2>1. arr' \in Arrays /\ slot' \in Index(arr)' /\ mpc' \in {"cancel", "poll", "join"}
    BY <1>9 DEF CancelSlot
  <2>2. cancelled' \subseteq Tasks
    BY <1>9, HereKnown DEF CancelSlot
  <2>. QED
    BY <1>9, <2>1, <2>2 DEF CancelSlot
<1>10. CASE JoinSlot
  BY <1>10 DEF JoinSlot
<1>11. CASE PthreadJoin
  BY <1>11 DEF PthreadJoin
<1>12. CASE DestroySlot
  <2>1. Here \in Tasks
    BY <1>12, HereKnown DEF DestroySlot
  <2>2. handle \in Handles /\ 0 \in 0 .. NArrays
    BY DEF Handles
  <2>3. handle' = [handle EXCEPT ![Here].array = 0]
    BY <1>12 DEF DestroySlot
  <2>4. handle' \in Handles
    BY ONLY <2>1, <2>2, <2>3, ArrayUpdate
  <2>5. \A t \in Tasks : handle'[t].done_fd = handle[t].done_fd
    BY <1>12, <2>1, ArrayUpdate DEF DestroySlot, Handles
  <2>6. /\ DOMAIN slots' = Arrays
        /\ \A a \in Arrays : slots'[a] \in [Index(a) -> Tasks \cup {NoTask}]
    BY <1>12 DEF DestroySlot
  <2>. QED
    BY <1>12, <2>1, <2>4, <2>5, <2>6 DEF DestroySlot, Handles
<1>13. CASE DestroyHandle
  BY <1>13 DEF DestroyHandle, Destroy, TaskArrayRemove, Closed
<1>14. CASE DestroyNext
  BY <1>14 DEF DestroyNext
<1>. QED
  BY <1>1, <1>2, <1>3, <1>4, <1>5, <1>6, <1>7, <1>8, <1>9, <1>10, <1>11, <1>12, <1>13, <1>14
  DEF MainNext, MainRuns

LEMMA ThreadTypes ==
  ASSUME Typed, NEW t \in Tasks, TaskRuns(t) \/ Input(t)
  PROVE  Typed'
<1>. USE TaskAssumption DEF Typed, TTypeOK, DoneOnce, CurKnown, TaskStates,
       arrays, verdicts, mvars, ThreadStep, ThreadEnds
<1>1. CASE Entry(t)
  BY <1>1 DEF Entry
<1>2. CASE Loop(t) \/ Work(t) \/ Input(t)
  BY <1>2 DEF Loop, Work, Input
<1>3. CASE MarkDone(t)
  BY <1>3 DEF MarkDone
<1>4. CASE MarkDoneWrite(t)
  <2>1. handle[t].done_fd \in {-1, 0}
    BY <1>4 DEF MarkDoneWrite
  <2>2. handle' = [handle EXCEPT ![t].done_fd =
                     IF handle[t].done_fd = -1 THEN -1 ELSE handle[t].done_fd + 1]
    BY <1>4 DEF MarkDoneWrite
  <2>3. handle \in Handles
    BY DEF Handles
  <2>4. (IF handle[t].done_fd = -1 THEN -1 ELSE handle[t].done_fd + 1) \in -1 .. 1
    BY <2>1
  <2>5. handle' \in Handles
    BY ONLY <2>2, <2>3, <2>4, DoneUpdate
  <2>6. \A u \in Tasks \ {t} : handle'[u].done_fd = handle[u].done_fd
    BY <2>1, <2>2, DoneUpdate DEF Handles
  <2>. QED
    BY <1>4, <2>5, <2>6 DEF MarkDoneWrite, Handles
<1>5. CASE Return(t) \/ Die(t)
  BY <1>5 DEF Return, Die
<1>. QED
  BY <1>1, <1>2, <1>3, <1>4, <1>5 DEF TaskRuns

LEMMA TypedStep == Typed /\ [TNext]_tvars => Typed'
<1>. SUFFICES ASSUME Typed, [TNext]_tvars PROVE Typed'
  OBVIOUS
<1>. USE TaskAssumption DEF Typed, TTypeOK, DoneOnce, CurKnown, TaskStates, Arrays, Index,
       arrays, verdicts, world, mvars
<1>1. CASE Interrupt
  BY <1>1 DEF Interrupt
<1>2. ASSUME NEW t \in Tasks, NEW a \in Arrays, Add(t, a) PROVE Typed'
  BY <1>2 DEF Add, Opened
<1>3. ASSUME NEW t \in Tasks, NEW a \in Arrays, AddFails(t, a) PROVE Typed'
  BY <1>3 DEF AddFails, Closed
<1>4. ASSUME NEW t \in Tasks, TaskStop(t) PROVE Typed'
  BY <1>4 DEF TaskStop
<1>5. ASSUME NEW t \in Tasks, TaskRuns(t) \/ Input(t) PROVE Typed'
  BY <1>5, ThreadTypes
<1>6. CASE MainNext
  BY <1>6, MainTypes
<1>7. CASE UNCHANGED tvars
  BY <1>7 DEF tvars
<1>. QED
  BY <1>1, <1>2, <1>3, <1>4, <1>5, <1>6, <1>7 DEF TNext

LEMMA TypedInit == TInit => Typed
<1>1. TInit => \A a \in Arrays : slots[a] \in [Index(a) -> Tasks \cup {NoTask}]
  BY DEF TInit
<1>2. TInit => handle \in Handles
  BY TaskAssumption DEF TInit, Closed, TaskStates, Handles
<1>3. 1 \in Arrays /\ 1 \in Index(1)
  BY TaskAssumption DEF Arrays, Index
<1>4. TInit => DoneOnce
  BY DEF TInit, DoneOnce, Closed
<1>5. TInit => CurKnown
  BY DEF TInit, CurKnown
<1>. QED
  BY <1>1, <1>2, <1>3, <1>4, <1>5
  DEF TInit, Handles, Typed, TTypeOK

LEMMA TypedInv == TSpec => []Typed
BY TypedInit, TypedStep, PTL DEF TSpec

(* Every handle keeps to the states task_helper.h names, done_fd counts at *)
(* most one, and the loops of main.c stay inside the arrays.               *)
THEOREM TypeCorrect == TSpec => []TTypeOK
<1>1. Typed => TTypeOK
  BY DEF Typed
<1>. QED
  BY <1>1, TypedInv, PTL

-----------------------------------------------------------------------------
(* Handles and slots. *)

(* A task in no array is in no slot. *)
LEMMA NotPlaced ==
  ASSUME Typed, SlotsAgree, NEW t \in Tasks, handle[t].array = 0
  PROVE  \A a \in Arrays : \A i \in Index(a) : slots[a][i] # t
BY TaskAssumption DEF Typed, TTypeOK, SlotsAgree, Arrays

LEMMA SamePlaces ==
  ASSUME Typed, SlotsAgree, slots' = slots,
         \A t \in Tasks : handle'[t].array = handle[t].array
  PROVE  SlotsAgree'
<1>1. \A a \in Arrays : \A i \in Index(a) :
        slots[a][i] # NoTask => handle'[slots[a][i]].array = a
  BY DEF Typed, TTypeOK, SlotsAgree
<1>2. ASSUME NEW t \in Tasks, handle'[t].array # 0
      PROVE  \E i \in Index(handle'[t].array) :
               /\ slots[handle'[t].array][i] = t
               /\ \A j \in Index(handle'[t].array) : slots[handle'[t].array][j] = t => j = i
  BY <1>2 DEF SlotsAgree
<1>. QED
  BY <1>1, <1>2 DEF SlotsAgree, Index, Arrays

(* task_array_add of a task that is in no array yet. *)
LEMMA Enters ==
  ASSUME Typed, SlotsAgree, NEW t \in Tasks, NEW a \in Arrays, NEW i \in Index(a),
         handle[t].array = 0, slots[a][i] = NoTask,
         slots' = [slots EXCEPT ![a][i] = t],
         handle'[t].array = a,
         \A u \in Tasks \ {t} : handle'[u].array = handle[u].array
  PROVE  SlotsAgree'
<1>1. \A b \in Arrays : \A j \in Index(b) :
        slots'[b][j] = IF b = a /\ j = i THEN t ELSE slots[b][j]
  BY DEF Typed, TTypeOK
<1>2. \A b \in Arrays : \A j \in Index(b) : slots[b][j] # t
  BY NotPlaced
<1>3. \A b \in Arrays : \A j \in Index(b) :
        slots'[b][j] # NoTask => handle'[slots'[b][j]].array = b
  BY <1>1, <1>2 DEF Typed, TTypeOK, SlotsAgree
<1>4. ASSUME NEW u \in Tasks, handle'[u].array # 0
      PROVE  \E j \in Index(handle'[u].array) :
               /\ slots'[handle'[u].array][j] = u
               /\ \A k \in Index(handle'[u].array) : slots'[handle'[u].array][k] = u => k = j
  <2>1. CASE u = t
    BY <1>1, <1>2, <2>1
  <2>2. CASE u # t
    <3>1. /\ handle'[u].array = handle[u].array
          /\ handle[u].array \in Arrays
      BY <1>4, <2>2, TaskAssumption DEF Typed, TTypeOK, Arrays
    <3>2. PICK j \in Index(handle[u].array) :
            /\ slots[handle[u].array][j] = u
            /\ \A k \in Index(handle[u].array) : slots[handle[u].array][k] = u => k = j
      BY <1>4, <3>1 DEF SlotsAgree
    <3>3. \A k \in Index(handle[u].array) :
            slots'[handle[u].array][k] = u <=> slots[handle[u].array][k] = u
      BY <1>1, <2>2, <3>1, TaskAssumption
    <3>. QED
      BY <3>1, <3>2, <3>3
  <2>. QED
    BY <2>1, <2>2
<1>. QED
  BY <1>3, <1>4 DEF SlotsAgree, Index, Arrays

(* A task leaves the only slot that it is in. *)
LEMMA Leaves ==
  ASSUME Typed, SlotsAgree, NEW t \in Tasks,
         DOMAIN slots' = Arrays,
         \A b \in Arrays : \A j \in Index(b) :
           slots'[b][j] = IF slots[b][j] = t THEN NoTask ELSE slots[b][j],
         handle'[t].array = 0,
         \A u \in Tasks \ {t} : handle'[u].array = handle[u].array
  PROVE  SlotsAgree'
<1>1. \A b \in Arrays : \A j \in Index(b) :
        slots'[b][j] # NoTask => handle'[slots'[b][j]].array = b
  BY DEF Typed, TTypeOK, SlotsAgree
<1>2. ASSUME NEW u \in Tasks, handle'[u].array # 0
      PROVE  \E j \in Index(handle'[u].array) :
               /\ slots'[handle'[u].array][j] = u
               /\ \A k \in Index(handle'[u].array) : slots'[handle'[u].array][k] = u => k = j
  <2>1. /\ u # t /\ handle'[u].array = handle[u].array
        /\ handle[u].array \in Arrays
    BY <1>2, TaskAssumption DEF Typed, TTypeOK, Arrays
  <2>2. PICK j \in Index(handle[u].array) :
          /\ slots[handle[u].array][j] = u
          /\ \A k \in Index(handle[u].array) : slots[handle[u].array][k] = u => k = j
    BY <1>2, <2>1 DEF SlotsAgree
  <2>3. \A k \in Index(handle[u].array) :
          slots'[handle[u].array][k] = u <=> slots[handle[u].array][k] = u
    BY <2>1, TaskAssumption
  <2>. QED
    BY <2>1, <2>2, <2>3
<1>. QED
  BY <1>1, <1>2 DEF SlotsAgree, Index, Arrays

(* What no step but those of the arrays touches. *)
LEMMA SameTasks ==
  ASSUME Typed, Placed, slots' = slots, UNCHANGED <<thread, mpc, cur>>,
         \A t \in Tasks : handle'[t].array = handle[t].array
  PROVE  Placed'
<1>1. SlotsAgree'
  BY SamePlaces DEF Placed
<1>2. Unstarted'
  BY DEF Placed, Unstarted
<1>3. AtHand'
  BY DEF Placed, AtHand, Typed, CurKnown
<1>. QED
  BY <1>1, <1>2, <1>3 DEF Placed

(* task_handle_destroy *)
LEMMA DestroyPlaces ==
  ASSUME Typed, SlotsAgree, NEW t \in Tasks, Destroy(t)
  PROVE  /\ SlotsAgree'
         /\ handle'[t].array = 0
         /\ \A u \in Tasks \ {t} : handle'[u].array = handle[u].array
<1>1. /\ handle'[t].array = 0
      /\ \A u \in Tasks \ {t} : handle'[u].array = handle[u].array
  BY DEF Destroy, Closed, Typed, TTypeOK
<1>2. /\ DOMAIN slots' = Arrays
      /\ \A b \in Arrays : \A j \in Index(b) :
           slots'[b][j] = IF slots[b][j] = t THEN NoTask ELSE slots[b][j]
  <2>1. CASE handle[t].array = 0
    BY <2>1, NotPlaced DEF Destroy, Typed, TTypeOK
  <2>2. CASE handle[t].array # 0
    <3>1. slots' = TaskArrayRemove(handle[t].array, t)
      BY <2>2 DEF Destroy
    <3>2. \A b \in Arrays : \A j \in Index(b) :
            b # handle[t].array => slots[b][j] # t
      BY TaskAssumption DEF SlotsAgree
    <3>. QED
      BY <3>1, <3>2 DEF TaskArrayRemove, Typed, TTypeOK
  <2>. QED
    BY <2>1, <2>2
<1>. QED
  BY <1>1, <1>2, Leaves

(* A step of main that leaves handle->array and the slots alone, and does  *)
(* not begin to create or to destroy.                                      *)
LEMMA SameArrays ==
  ASSUME Typed, Placed, slots' = slots, mpc' \notin {"create", "handle_destroy"},
         mpc # "create", thread' = thread,
         \A t \in Tasks : handle'[t].array = handle[t].array
  PROVE  Placed'
<1>1. SlotsAgree'
  BY SamePlaces DEF Placed
<1>2. Unstarted' /\ AtHand'
  BY DEF Placed, Unstarted, AtHand
<1>. QED
  BY <1>1, <1>2 DEF Placed

LEMMA MainPlaces == Typed /\ Placed /\ MainNext => Placed'
<1>. SUFFICES ASSUME Typed, Placed, MainNext PROVE Placed'
  OBVIOUS
<1>. USE DEF arrays, verdicts, world
<1>1. CASE PthreadCreate
  <2>1. slots' = slots /\ handle' = handle /\ cur \in Tasks
    BY <1>1 DEF PthreadCreate, Typed, CurKnown
  <2>2. SlotsAgree'
    BY <2>1, SamePlaces DEF Placed
  <2>3. Unstarted' /\ AtHand'
    BY <1>1, <2>1 DEF PthreadCreate, Placed, Unstarted, AtHand, Typed, TTypeOK
  <2>. QED
    BY <2>2, <2>3 DEF Placed
<1>2. CASE PthreadCreateFails
  <2>1. cur \in Tasks /\ Destroy(cur)
    BY <1>2 DEF PthreadCreateFails, Typed, CurKnown
  <2>2. /\ SlotsAgree'
        /\ handle'[cur].array = 0
        /\ \A u \in Tasks \ {cur} : handle'[u].array = handle[u].array
    BY <2>1, DestroyPlaces DEF Placed
  <2>3. Unstarted' /\ AtHand'
    BY <1>2, <2>2 DEF PthreadCreateFails, Placed, Unstarted, AtHand
  <2>. QED
    BY <2>2, <2>3 DEF Placed
<1>3. CASE StopSlot
  <2>1. \A u \in Tasks : handle'[u].array = handle[u].array
    BY <1>3, HereKnown DEF StopSlot, Typed, TTypeOK
  <2>. QED
    BY <1>3, <2>1, SameArrays DEF StopSlot, NextSlot, NextArray, Goto
<1>4. CASE WaitForSigint \/ PollDone \/ PollTimeout \/ PollForced \/ PollFails
  BY <1>4, SameArrays
  DEF WaitForSigint, PollDone, PollTimeout, PollForced, PollFails, NextArray, Goto
<1>5. CASE CancelSlot \/ JoinSlot \/ PthreadJoin \/ DestroyNext
  BY <1>5, SameArrays
  DEF CancelSlot, JoinSlot, PthreadJoin, DestroyNext, NextSlot, NextArray, Goto
<1>6. CASE DestroySlot
  <2>1. Here \in Tasks /\ arr \in Arrays /\ slot \in Index(arr)
    BY <1>6, HereKnown DEF DestroySlot, Typed, TTypeOK
  <2>2. handle[Here].array = arr
    BY <1>6, <2>1 DEF DestroySlot, Here, Placed, SlotsAgree
  <2>3. /\ handle'[Here].array = 0
        /\ \A u \in Tasks \ {Here} : handle'[u].array = handle[u].array
    BY <1>6, <2>1 DEF DestroySlot, Typed, TTypeOK
  <2>4. \A b \in Arrays : \A j \in Index(b) :
          slots[b][j] = Here => b = arr /\ j = slot
    <3>1. PICK k \in Index(arr) : \A j \in Index(arr) : slots[arr][j] = Here => j = k
      <4>1. arr # 0
        BY <2>1, TaskAssumption DEF Arrays
      <4>2. \E i \in Index(handle[Here].array) :
              \A j \in Index(handle[Here].array) : slots[handle[Here].array][j] = Here => j = i
        BY <2>1, <2>2, <4>1 DEF Placed, SlotsAgree
      <4>. QED
        BY <2>2, <4>2
    <3>2. slot = k
      BY <2>1, <3>1 DEF Here
    <3>3. \A b \in Arrays : \A j \in Index(b) : slots[b][j] = Here => b = arr
      BY <2>1, <2>2, TaskAssumption DEF Placed, SlotsAgree
    <3>. QED
      BY <3>1, <3>2, <3>3
  <2>5. /\ DOMAIN slots' = Arrays
        /\ \A b \in Arrays : \A j \in Index(b) :
             slots'[b][j] = IF slots[b][j] = Here THEN NoTask ELSE slots[b][j]
    BY <1>6, <2>1, <2>4 DEF DestroySlot, Typed, TTypeOK, Here
  <2>6. SlotsAgree'
    BY <2>1, <2>3, <2>5, Leaves DEF Placed
  <2>7. Unstarted' /\ AtHand'
    BY <1>6, <2>3 DEF DestroySlot, Placed, Unstarted, AtHand
  <2>. QED
    BY <2>6, <2>7 DEF Placed
<1>7. CASE DestroyHandle
  <2>1. cur \in Tasks /\ Destroy(cur)
    BY <1>7 DEF DestroyHandle, Typed, CurKnown
  <2>2. /\ SlotsAgree'
        /\ handle'[cur].array = 0
        /\ \A u \in Tasks \ {cur} : handle'[u].array = handle[u].array
    BY <2>1, DestroyPlaces DEF Placed
  <2>3. Unstarted' /\ AtHand'
    BY <1>7, <2>2 DEF DestroyHandle, Placed, Unstarted, AtHand
  <2>. QED
    BY <2>2, <2>3 DEF Placed
<1>. QED
  BY <1>1, <1>2, <1>3, <1>4, <1>5, <1>6, <1>7 DEF MainNext, MainRuns

LEMMA PlacedStep == Typed /\ Placed /\ [TNext]_tvars => Placed'
<1>. SUFFICES ASSUME Typed, Placed, [TNext]_tvars PROVE Placed'
  OBVIOUS
<1>. USE DEF arrays, verdicts, world, mvars
<1>1. CASE Interrupt \/ UNCHANGED tvars
  BY <1>1, SameTasks DEF Interrupt, tvars
<1>2. ASSUME NEW t \in Tasks, NEW a \in Arrays, Add(t, a) PROVE Placed'
  <2>1. handle[t].array = 0
    BY <1>2 DEF Add, Placed, Unstarted
  <2>2. /\ handle'[t].array = a
        /\ \A u \in Tasks \ {t} : handle'[u].array = handle[u].array
    BY <1>2 DEF Add, Opened, Typed, TTypeOK
  <2>3. SlotsAgree'
    BY <1>2, <2>1, <2>2, Enters DEF Add, FirstFree, Placed
  <2>4. Unstarted' /\ AtHand'
    BY <1>2, <2>2 DEF Add, Placed, Unstarted, AtHand
  <2>. QED
    BY <2>3, <2>4 DEF Placed
<1>3. ASSUME NEW t \in Tasks, NEW a \in Arrays, AddFails(t, a) PROVE Placed'
  <2>1. handle[t].array = 0
    BY <1>3 DEF AddFails, Placed, Unstarted
  <2>2. \A u \in Tasks : handle'[u].array = handle[u].array
    BY <1>3, <2>1 DEF AddFails, Closed, Typed, TTypeOK
  <2>. QED
    BY <1>3, <2>2, SameTasks DEF AddFails
<1>4. ASSUME NEW t \in Tasks, TaskStop(t) PROVE Placed'
  <2>1. \A u \in Tasks : handle'[u].array = handle[u].array
    BY <1>4 DEF TaskStop, Typed, TTypeOK
  <2>. QED
    BY <1>4, <2>1, SameTasks DEF TaskStop
<1>5. ASSUME NEW t \in Tasks, TaskRuns(t) \/ Input(t) PROVE Placed'
  <2>1. /\ slots' = slots /\ UNCHANGED <<mpc, cur>>
        /\ \A u \in Tasks : handle'[u].array = handle[u].array
        /\ \A u \in Tasks : thread'[u] = "none" <=> thread[u] = "none"
    BY <1>5 DEF TaskRuns, Input, Entry, Loop, Work, MarkDone, MarkDoneWrite, Return, Die,
                ThreadStep, ThreadEnds, Typed, TTypeOK
  <2>2. SlotsAgree'
    BY <2>1, SamePlaces DEF Placed
  <2>3. Unstarted' /\ AtHand'
    BY <2>1 DEF Placed, Unstarted, AtHand, Typed, CurKnown
  <2>. QED
    BY <2>2, <2>3 DEF Placed
<1>6. CASE MainNext
  BY <1>6, MainPlaces
<1>. QED
  BY <1>1, <1>2, <1>3, <1>4, <1>5, <1>6 DEF TNext

LEMMA PlacedInv == TSpec => [](Typed /\ Placed)
<1>1. TInit => Placed
  BY DEF TInit, Placed, SlotsAgree, Unstarted, AtHand, Closed
<1>. QED
  BY <1>1, TypedInit, TypedStep, PlacedStep, PTL DEF TSpec

(* A handle and its array name each other, whatever is added, fails to     *)
(* start, is stopped or destroyed.                                         *)
THEOREM HandlesAgree == TSpec => []SlotsAgree
<1>1. Placed => SlotsAgree
  BY DEF Placed
<1>. QED
  BY <1>1, PlacedInv, PTL

(* task_handle_destroy never takes the mutex its caller holds: in          *)
(* handles_destroy_all handle->array was cleared before, and nobody holds  *)
(* one when pthread_create has failed.                                     *)
THEOREM SelfDeadlockFree == TSpec => []NoSelfDeadlock
<1>1. Typed /\ Placed => NoSelfDeadlock
  BY DEF Typed, TTypeOK, Placed, AtHand, NoSelfDeadlock, Held, Arrays
<1>. QED
  BY <1>1, PlacedInv, PTL

-----------------------------------------------------------------------------
(* The shutdown.  What the three loops know of an array that is behind     *)
(* them: one of its tasks was done, or poll failed, or all were cancelled. *)

CancelledTo(a, n) == \A i \in Index(a) : i < n => slots[a][i] \in cancelled \cup {NoTask}

AllCancelled(a) == \A i \in Index(a) : slots[a][i] \in cancelled \cup {NoTask}

Answered(a) ==
  \/ a \in unanswered \/ AllCancelled(a)
  \/ \E i \in Index(a) : slots[a][i] # NoTask /\ Done(slots[a][i])

(* The arrays that were polled and not joined yet. *)
Polled(a) ==
  \/ mpc \in {"poll", "cancel"} /\ a < arr
  \/ mpc \in {"join", "joining"} /\ arr <= a
  \/ mpc \in {"destroy", "handle_destroy"} /\ arr < a

Waited == \A a \in Arrays : Polled(a) => Answered(a)

Cancelling == mpc = "cancel" => CancelledTo(arr, slot)

Forced ==
  force_cancel =>
    /\ mpc \notin {"running", "create", "stop"}
    /\ mpc \in {"join", "joining"} /\ arr = 1 => AllCancelled(NArrays)

Ordered == Waited /\ Cancelling /\ Forced

(* Before the first poll there is nothing to show. *)
LEMMA NotYet ==
  ASSUME mpc' \in {"running", "create", "stop"}, ~ force_cancel'
  PROVE  Ordered'
BY DEF Ordered, Waited, Polled, Cancelling, Forced

LEMMA AnsweredStays ==
  ASSUME NEW a \in Arrays, Answered(a), slots'[a] = slots[a],
         unanswered \subseteq unanswered', cancelled \subseteq cancelled',
         \A i \in Index(a) :
           slots[a][i] # NoTask /\ Done(slots[a][i]) => handle'[slots[a][i]].done_fd > 0
  PROVE  Answered(a)'
<1>1. CASE a \in unanswered
  BY <1>1 DEF Answered
<1>2. CASE AllCancelled(a)
  BY <1>2 DEF Answered, AllCancelled, Index
<1>3. CASE \E i \in Index(a) : slots[a][i] # NoTask /\ Done(slots[a][i])
  BY <1>3 DEF Answered, Done, Index
<1>. QED
  BY <1>1, <1>2, <1>3 DEF Answered

(* Steps of others, and of main while it stays in its place. *)
LEMMA OthersOrder ==
  ASSUME Typed, Ordered, slots' = slots, UNCHANGED <<verdicts, mvars>>,
         \A t \in Tasks : Done(t) => handle'[t].done_fd > 0
  PROVE  Ordered'
<1>1. Waited'
  <2>. SUFFICES ASSUME NEW a \in Arrays, Polled(a) PROVE Answered(a)'
    BY DEF Waited, Polled, mvars, Arrays
  <2>1. Answered(a)
    BY DEF Ordered, Waited
  <2>. QED
    BY <2>1, AnsweredStays DEF verdicts, Typed, TTypeOK
<1>2. Cancelling' /\ Forced'
  BY DEF Ordered, Cancelling, CancelledTo, Forced, AllCancelled, verdicts, mvars, Index
<1>. QED
  BY <1>1, <1>2 DEF Ordered

LEMMA ThreadOrder ==
  ASSUME Typed, Ordered, NEW t \in Tasks, TaskRuns(t) \/ Input(t)
  PROVE  Ordered'
<1>1. slots' = slots /\ UNCHANGED <<verdicts, mvars>>
  BY DEF TaskRuns, Input, Entry, Loop, Work, MarkDone, MarkDoneWrite, Return, Die,
         ThreadStep, ThreadEnds, arrays, verdicts, mvars
<1>2. \A u \in Tasks : Done(u) => handle'[u].done_fd > 0
  <2>1. CASE MarkDoneWrite(t)
    BY <2>1 DEF MarkDoneWrite, Done, Typed, TTypeOK
  <2>2. CASE ~ MarkDoneWrite(t)
    BY <2>2 DEF TaskRuns, Input, Entry, Loop, Work, MarkDone, Return, Die,
           ThreadStep, ThreadEnds, arrays, Done, Typed, TTypeOK
  <2>. QED
    BY <2>1, <2>2
<1>. QED
  BY <1>1, <1>2, OthersOrder

(* The next array of the poll loop, once this one is answered for. *)
LEMMA PollGoesOn ==
  ASSUME Typed, Ordered, slots' = slots, handle' = handle,
         mpc \in {"poll", "cancel"}, NextArray("poll", "join"),
         unanswered \subseteq unanswered', cancelled \subseteq cancelled',
         NEW b \in Arrays, b = arr, Answered(b)', force_cancel' => AllCancelled(b)'
  PROVE  Ordered'
<1>. USE TaskAssumption DEF Typed, TTypeOK, Arrays
<1>1. arr' = IF arr < NArrays THEN arr + 1 ELSE 1
  BY DEF NextArray, Goto
<1>2. mpc' = IF arr < NArrays THEN "poll" ELSE "join"
  BY DEF NextArray, Goto
<1>3. \A a \in Arrays : a < arr => Answered(a)'
  <2>. SUFFICES ASSUME NEW a \in Arrays, a < arr PROVE Answered(a)'
    OBVIOUS
  <2>1. Answered(a)
    BY DEF Ordered, Waited, Polled
  <2>. QED
    BY <2>1, AnsweredStays DEF Done
<1>4. Waited'
  <2>. SUFFICES ASSUME NEW a \in Arrays, Polled(a)' PROVE Answered(a)'
    BY DEF Waited
  <2>1. a <= arr
    BY <1>1, <1>2 DEF Polled
  <2>. QED
    BY <1>3, <2>1
<1>5. Cancelling' /\ Forced'
  <2>1. mpc' = "join" => NArrays = b
    BY <1>2
  <2>. QED
    BY <1>2, <2>1 DEF Cancelling, Forced
<1>. QED
  BY <1>4, <1>5 DEF Ordered

LEMMA MainOrder == Typed /\ Placed /\ Ordered /\ MainNext => Ordered'
<1>. SUFFICES ASSUME Typed, Placed, Ordered, MainNext PROVE Ordered'
  OBVIOUS
<1>. USE DEF arrays, verdicts, world
<1>0. arr \in Arrays /\ arr \in 1 .. NArrays /\ slot \in 1 .. Capacity[arr] /\ Capacity[arr] \in Nat
  BY TaskAssumption DEF Typed, TTypeOK, Arrays, Index
<1>1. CASE WaitForSigint \/ PthreadCreate \/ PthreadCreateFails
  BY <1>1, NotYet DEF WaitForSigint, PthreadCreate, PthreadCreateFails, Ordered, Forced
<1>2. CASE StopSlot
  <2>1. ~ force_cancel' /\ (mpc' = "stop" \/ (mpc' = "poll" /\ arr' = 1))
    BY <1>0, <1>2 DEF StopSlot, NextSlot, NextArray, Goto, Ordered, Forced
  <2>2. CASE mpc' = "stop"
    BY <2>1, <2>2, NotYet
  <2>3. CASE mpc' = "poll" /\ arr' = 1
    BY <2>1, <2>3 DEF Ordered, Waited, Polled, Cancelling, Forced, Arrays
  <2>. QED
    BY <2>1, <2>2, <2>3
<1>3. CASE PollDone
  <2>1. PICK b \in Arrays : b = arr
    BY <1>0
  <2>2. Answered(b)'
    BY <1>3, <2>1 DEF PollDone, Answered, AllCancelled, Members, Done, Index
  <2>. QED
    BY <1>3, <2>1, <2>2, PollGoesOn DEF PollDone
<1>4. CASE PollTimeout \/ PollForced \/ (PollFails /\ Goto("cancel", arr) /\ UNCHANGED unanswered)
  <2>1. /\ slots' = slots /\ handle' = handle
        /\ unanswered' = unanswered /\ cancelled' = cancelled
        /\ mpc = "poll" /\ mpc' = "cancel" /\ arr' = arr /\ slot' = 1
    BY <1>4 DEF PollTimeout, PollForced, PollFails, Goto
  <2>2. ASSUME NEW a \in Arrays, Polled(a)' PROVE Answered(a)'
    <3>1. Answered(a)
      BY <2>1, <2>2 DEF Ordered, Waited, Polled
    <3>. QED
      BY <2>1, <3>1, AnsweredStays DEF Done
  <2>3. Cancelling' /\ Forced'
    BY <2>1 DEF Cancelling, CancelledTo, Forced, Index
  <2>. QED
    BY <2>2, <2>3 DEF Ordered, Waited
<1>5. CASE PollFails /\ NextArray("poll", "join") /\ unanswered' = unanswered \cup {arr}
  <2>1. PICK b \in Arrays : b = arr
    BY <1>0
  <2>2. Answered(b)'
    BY <1>5, <2>1 DEF Answered
  <2>3. ~ force_cancel'
    BY <1>5 DEF PollFails
  <2>. QED
    BY <1>5, <2>1, <2>2, <2>3, PollGoesOn DEF PollFails
<1>6. CASE CancelSlot
  <2>0. /\ slots' = slots /\ handle' = handle /\ unanswered' = unanswered
        /\ cancelled' = cancelled \cup ({Here} \ {NoTask}) /\ mpc = "cancel"
        /\ force_cancel' = force_cancel
    BY <1>6 DEF CancelSlot
  <2>1. PICK b \in Arrays : b = arr
    BY <1>0
  <2>2. \A i \in Index(b) : i < slot + 1 => slots'[b][i] \in cancelled' \cup {NoTask}
    BY <1>0, <2>0, <2>1 DEF Ordered, Cancelling, CancelledTo, Here, Index
  <2>3. CASE slot < Capacity[arr]
    <3>1. mpc' = "cancel" /\ slot' = slot + 1 /\ arr' = arr
      BY <1>6, <2>3 DEF CancelSlot, NextSlot
    <3>2. ASSUME NEW a \in Arrays, Polled(a)' PROVE Answered(a)'
      <4>1. Answered(a)
        BY <2>0, <3>1, <3>2 DEF Ordered, Waited, Polled
      <4>. QED
        BY <2>0, <4>1, AnsweredStays DEF Done
    <3>3. Cancelling' /\ Forced'
      BY <2>1, <2>2, <3>1 DEF Cancelling, CancelledTo, Forced, Index
    <3>. QED
      BY <3>2, <3>3 DEF Ordered, Waited
  <2>4. CASE slot >= Capacity[arr]
    <3>1. NextArray("poll", "join")
      BY <1>0, <1>6, <2>4 DEF CancelSlot, NextSlot
    <3>2. AllCancelled(b)'
      BY <1>0, <2>1, <2>2, <2>4 DEF AllCancelled, Index
    <3>3. Answered(b)'
      BY <3>2 DEF Answered
    <3>. QED
      BY <2>0, <2>1, <3>1, <3>2, <3>3, PollGoesOn
  <2>. QED
    BY <1>0, <2>3, <2>4
<1>7. CASE JoinSlot \/ PthreadJoin
  <2>1. /\ slots' = slots /\ handle' = handle
        /\ unanswered' = unanswered /\ cancelled' = cancelled
        /\ force_cancel' = force_cancel
        /\ mpc \in {"join", "joining"} /\ arr' = arr
        /\ mpc' \in {"join", "joining", "destroy"}
    BY <1>7 DEF JoinSlot, PthreadJoin, NextSlot, Goto
  <2>2. ASSUME NEW a \in Arrays, Polled(a)' PROVE Answered(a)'
    <3>1. Answered(a)
      BY <1>0, <2>1, <2>2 DEF Ordered, Waited, Polled, Arrays
    <3>. QED
      BY <2>1, <3>1, AnsweredStays DEF Done
  <2>3. Cancelling' /\ Forced'
    BY <2>1 DEF Ordered, Cancelling, Forced, AllCancelled, Index
  <2>. QED
    BY <2>2, <2>3 DEF Ordered, Waited
<1>8. CASE DestroySlot \/ DestroyHandle
  <2>1. /\ unanswered' = unanswered /\ cancelled' = cancelled
        /\ mpc \in {"destroy", "handle_destroy"} /\ arr' = arr
        /\ mpc' \in {"destroy", "handle_destroy"}
    BY <1>8 DEF DestroySlot, DestroyHandle
  <2>2. ASSUME NEW a \in Arrays, Polled(a)' PROVE Answered(a)'
    <3>1. Answered(a) /\ a # arr
      BY <1>0, <2>1, <2>2 DEF Ordered, Waited, Polled, Arrays
    <3>2. slots'[a] = slots[a]
      <4>1. CASE DestroySlot
        BY <3>1, <4>1 DEF DestroySlot, Typed, TTypeOK
      <4>2. CASE DestroyHandle
        BY <4>2 DEF DestroyHandle, Destroy, Placed, AtHand
      <4>. QED
        BY <1>8, <4>1, <4>2
    <3>3. \A i \in Index(a) :
            slots[a][i] # NoTask /\ Done(slots[a][i]) => handle'[slots[a][i]].done_fd > 0
      <4>1. CASE DestroySlot
        BY <4>1, HereKnown DEF DestroySlot, Done, Typed, TTypeOK
      <4>2. CASE DestroyHandle
        <5>1. cur \in Tasks /\ handle[cur].array = 0 /\ handle' = [handle EXCEPT ![cur] = Closed]
          BY <4>2 DEF DestroyHandle, Destroy, Typed, CurKnown, Placed, AtHand
        <5>2. \A i \in Index(a) : slots[a][i] # cur
          BY <5>1, NotPlaced DEF Placed
        <5>. QED
          BY <5>1, <5>2 DEF Done, Typed, TTypeOK
      <4>. QED
        BY <1>8, <4>1, <4>2
    <3>. QED
      BY <2>1, <3>1, <3>2, <3>3, AnsweredStays
  <2>3. Cancelling' /\ Forced'
    BY <2>1 DEF Cancelling, Forced
  <2>. QED
    BY <2>2, <2>3 DEF Ordered, Waited
<1>9. CASE DestroyNext
  <2>1. /\ slots' = slots /\ handle' = handle /\ mpc = "destroy"
        /\ unanswered' = unanswered /\ cancelled' = cancelled
    BY <1>9 DEF DestroyNext
  <2>2. \/ mpc' = "destroy" /\ arr' = arr
        \/ mpc' = "join" /\ arr' = arr + 1
        \/ mpc' = "finished"
    BY <1>9 DEF DestroyNext, NextSlot, NextArray, Goto
  <2>3. ASSUME NEW a \in Arrays, Polled(a)' PROVE Answered(a)'
    <3>1. Answered(a)
      BY <1>0, <2>1, <2>2, <2>3 DEF Ordered, Waited, Polled, Arrays
    <3>. QED
      BY <2>1, <3>1, AnsweredStays DEF Done
  <2>4. Cancelling' /\ Forced'
    BY <1>0, <2>1, <2>2 DEF Cancelling, Forced
  <2>. QED
    BY <2>3, <2>4 DEF Ordered, Waited
<1>. QED
  BY <1>1, <1>2, <1>3, <1>4, <1>5, <1>6, <1>7, <1>8, <1>9 DEF MainNext, MainRuns, PollFails

LEMMA OrderedStep == Typed /\ Placed /\ Ordered /\ [TNext]_tvars => Ordered'
<1>. SUFFICES ASSUME Typed, Placed, Ordered, [TNext]_tvars PROVE Ordered'
  OBVIOUS
<1>1. CASE Interrupt \/ UNCHANGED tvars
  BY <1>1, OthersOrder DEF Interrupt, tvars, arrays, Done
<1>2. ASSUME NEW t \in Tasks, NEW a \in Arrays, Add(t, a) \/ AddFails(t, a) PROVE Ordered'
  BY <1>2, NotYet DEF Add, AddFails, Ordered, Forced, verdicts, mvars
<1>3. ASSUME NEW t \in Tasks, TaskStop(t) PROVE Ordered'
  BY <1>3, NotYet DEF TaskStop, Ordered, Forced, verdicts, mvars
<1>4. ASSUME NEW t \in Tasks, TaskRuns(t) \/ Input(t) PROVE Ordered'
  BY <1>4, ThreadOrder
<1>5. CASE MainNext
  BY <1>5, MainOrder
<1>. QED
  BY <1>1, <1>2, <1>3, <1>4, <1>5 DEF TNext

LEMMA OrderedInv == TSpec => [](Typed /\ Placed /\ Ordered)
<1>1. TInit => Ordered
  BY DEF TInit, Ordered, Waited, Polled, Cancelling, Forced
<1>. QED
  BY <1>1, TypedInit, TypedStep, PlacedInv, OrderedStep, PTL DEF TSpec

(* A second Ctrl-C, at whatever array, has reached the tasks of the last   *)
(* one, and so of every one after it, when main.c begins to join.          *)
THEOREM ForceCorrect == TSpec => []ForceReachesAll
<1>1. Typed /\ Ordered => ForceReachesAll
  BY DEF Ordered, Forced, AllCancelled, ForceReachesAll, Members
<1>. QED
  BY <1>1, OrderedInv, PTL

(* task_array_join_all only skips a task that was cancelled, or that one   *)
(* poll for the whole array has left running: because the poll failed, or  *)
(* because of another task that was done.                                  *)
THEOREM SkipsJustified == TSpec => SkippedBehindDone
<1>. DEFINE Justified(t) ==
       \/ t \in cancelled \/ arr \in unanswered
       \/ \E u \in Members(arr) \ {t} : Done(u)
<1>1. Typed /\ Placed /\ Ordered /\ [TNext]_tvars => [\A t \in skipped' \ skipped : Justified(t)]_tvars
  <2>. SUFFICES ASSUME Typed, Ordered, TNext, NEW t \in skipped' \ skipped PROVE Justified(t)
    OBVIOUS
  <2>1. JoinSlot
    BY DEF TNext, MainNext, MainRuns, Interrupt, Add, AddFails, TaskStop, TaskRuns, Input,
           Entry, Loop, Work, MarkDone, MarkDoneWrite, Return, Die, ThreadStep, ThreadEnds,
           WaitForSigint, PthreadCreate, PthreadCreateFails, StopSlot, PollDone, PollTimeout,
           PollForced, PollFails, CancelSlot, PthreadJoin, DestroySlot, DestroyHandle,
           DestroyNext, verdicts
  <2>2. t = Here /\ Here # NoTask /\ ~ Done(Here)
    BY <2>1 DEF JoinSlot
  <2>3. arr \in Arrays /\ slot \in Index(arr) /\ Answered(arr)
    BY <2>1, TaskAssumption
    DEF JoinSlot, Typed, TTypeOK, Ordered, Waited, Polled, Arrays
  <2>4. CASE AllCancelled(arr)
    BY <2>2, <2>3, <2>4 DEF AllCancelled, Here
  <2>5. ASSUME NEW i \in Index(arr), slots[arr][i] # NoTask, Done(slots[arr][i])
        PROVE  Justified(t)
    BY <2>2, <2>5 DEF Members
  <2>. QED
    BY <2>3, <2>4, <2>5 DEF Answered
<1>. QED
  BY <1>1, OrderedInv, PTL DEF TSpec, SkippedBehindDone

===============================================================================
