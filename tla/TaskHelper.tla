------------------------------ MODULE TaskHelper ------------------------------
(***************************************************************************)
(* rtsystem/src/core/task_helper.c: task handles, arrays of them, and the  *)
(* bulk stop / wait / cancel / join / destroy that main.c runs over every  *)
(* array.  main.c has one array of one slot and says where to add more;    *)
(* here there are any number, of any size.                                 *)
(*                                                                         *)
(* A task's thread is the loop every task of the program has: run until    *)
(* g_running or its state says stop, then task_handle_mark_done.  Only the *)
(* main thread uses the arrays, so who holds an array's mutex follows from *)
(* where it is; log lines are left out (RtSystem has them).                *)
(***************************************************************************)
EXTENDS Integers

CONSTANTS
  Tasks,
  NArrays,    (* num_task_arrays                                           *)
  Capacity,   (* Capacity[a]: slots of array a                             *)
  NoTask,     (* an empty slot                                             *)
  Impatient,  (* the user may press Ctrl-C again after the first time      *)
  Faults,     (* poll, malloc and pthread_create may fail                  *)
  Timely      (* a timeout only expires on tasks that cannot go on         *)

ASSUME TaskAssumption ==
  /\ NArrays \in Nat \ {0}
  /\ Capacity \in [1 .. NArrays -> Nat \ {0}]
  /\ NoTask \notin Tasks
  /\ {Impatient, Faults, Timely} \subseteq BOOLEAN

VARIABLES
  slots,         (* slots[a][i]: the task in slot i of array a             *)
  handle,        (* each task's state, done_fd (-1 closed), array (0 NULL) *)
  thread,        (* "none", "live", "ended" or "cancelled"                 *)
  tpc,           (* where the task's thread is                             *)
  cancelled,     (* tasks pthread_cancel was called on                     *)
  g_running, sigint, force_cancel,
  mpc, arr, slot, cur,  (* the main thread: place, loop indices, task      *)
  asked,         (* tasks that task_stop was called on, and that had       *)
                 (* begun by then                                          *)
  unanswered,    (* arrays main.c went on from without an answer of poll   *)
  skipped        (* tasks task_array_join_all reported as stuck            *)

arrays   == <<slots, handle>>
verdicts == <<cancelled, force_cancel, unanswered, skipped>>
world    == <<thread, tpc, g_running, sigint, asked>>
mvars    == <<mpc, arr, slot, cur>>
tvars    == <<arrays, verdicts, world, mvars>>

Arrays   == 1 .. NArrays
Index(a) == 1 .. Capacity[a]

(* A handle after task_handle_init and task_array_add; after its end. *)
Opened(a) == [state |-> "init", done_fd |-> 0, array |-> a]
Closed    == [state |-> "stopped", done_fd |-> -1, array |-> 0]

TInit ==
  /\ slots = [a \in Arrays |-> [i \in Index(a) |-> NoTask]]
  /\ handle = [t \in Tasks |-> Closed]
  /\ thread = [t \in Tasks |-> "none"]
  /\ tpc = [t \in Tasks |-> "entry"]
  /\ cancelled = {} /\ asked = {} /\ skipped = {} /\ unanswered = {}
  /\ g_running = TRUE /\ sigint = FALSE /\ force_cancel = FALSE
  /\ mpc = "running" /\ arr = 1 /\ slot = 1 /\ cur = NoTask

Members(a) == {slots[a][i] : i \in Index(a)} \ {NoTask}
Done(t)    == handle[t].done_fd > 0
Blocked(t) == tpc[t] = "stuck" \/ thread[t] = "cancelled"

(* The mutexes the main thread holds. *)
Held ==
  IF mpc \in {"stop", "cancel", "join", "joining", "destroy", "handle_destroy"}
  THEN {arr} ELSE {}

-----------------------------------------------------------------------------
(* Building the arrays, before the first Ctrl-C. *)

FirstFree(a, i) == slots[a][i] = NoTask /\ \A j \in 1 .. i - 1 : slots[a][j] # NoTask

(* task_handle_init, then task_array_add. *)
Add(t, a) ==
  /\ mpc = "running"
  /\ thread[t] = "none"
  /\ \E i \in Index(a) : FirstFree(a, i) /\ slots' = [slots EXCEPT ![a][i] = t]
  /\ handle' = [handle EXCEPT ![t] = Opened(a)]
  /\ mpc' = "create" /\ cur' = t
  /\ UNCHANGED <<verdicts, world, arr, slot>>

(* The array is full: the handle is destroyed again. *)
AddFails(t, a) ==
  /\ mpc = "running"
  /\ thread[t] = "none"
  /\ \A i \in Index(a) : slots[a][i] # NoTask
  /\ handle' = [handle EXCEPT ![t] = Closed]
  /\ UNCHANGED <<verdicts, world, slots, mvars>>

PthreadCreate ==
  /\ mpc = "create"
  /\ thread' = [thread EXCEPT ![cur] = "live"]
  /\ mpc' = "running" /\ cur' = NoTask
  /\ UNCHANGED <<arrays, verdicts, tpc, g_running, sigint, arr, slot, asked>>

(* Faulty variant: nothing is removed. *)
TaskArrayRemoveNothing(a, t) == slots

(* task_array_remove: what the slots are without t in array a. *)
TaskArrayRemove(a, t) ==
  [slots EXCEPT ![a] = [i \in Index(a) |-> IF @[i] = t THEN NoTask ELSE @[i]]]

(* task_handle_destroy: leave the array, taking its mutex, if in one. *)
Destroy(t) ==
  LET a == handle[t].array IN
  /\ a \notin Held
  /\ slots' = IF a = 0 THEN slots ELSE TaskArrayRemove(a, t)
  /\ handle' = [handle EXCEPT ![t] = Closed]

PthreadCreateFails ==
  /\ Faults
  /\ mpc = "create"
  /\ Destroy(cur)
  /\ mpc' = "running" /\ cur' = NoTask
  /\ UNCHANGED <<verdicts, world, arr, slot>>

(* task_stop on a task of one's choice: no handle has an on_stop callback. *)
TaskStop(t) ==
  /\ mpc = "running"
  /\ thread[t] # "none"
  /\ handle' = [handle EXCEPT ![t].state = "stopping"]
  /\ asked' = IF tpc[t] = "entry" THEN asked ELSE asked \cup {t}
  /\ UNCHANGED <<verdicts, slots, thread, tpc, g_running, sigint, mvars>>

-----------------------------------------------------------------------------
(* main.c after the signal: three loops over the arrays.                   *)

Interrupt ==
  /\ g_running \/ Impatient
  /\ mpc # "finished"
  /\ sigint' = TRUE
  /\ UNCHANGED <<arrays, verdicts, thread, tpc, g_running, mvars, asked>>

WaitForSigint ==
  /\ mpc = "running" /\ sigint
  /\ sigint' = FALSE
  /\ g_running' = FALSE
  /\ mpc' = "stop"
  /\ UNCHANGED <<arrays, verdicts, thread, tpc, arr, slot, cur, asked>>

Goto(place, a) == mpc' = place /\ arr' = a /\ slot' = 1

(* The body of a for loop over arrays, or over slots, ends: the next       *)
(* array, or after the last one the next loop.                             *)
NextArray(loop, after) ==
  IF arr < NArrays THEN Goto(loop, arr + 1) ELSE Goto(after, 1)

NextSlot(loop, end) ==
  IF slot < Capacity[arr] THEN mpc' = loop /\ slot' = slot + 1 /\ UNCHANGED arr ELSE end

Here == slots[arr][slot]

StopSlot ==
  /\ mpc = "stop"
  /\ handle' = IF Here = NoTask THEN handle ELSE [handle EXCEPT ![Here].state = "stopping"]
  /\ NextSlot("stop", NextArray("stop", "poll"))
  /\ UNCHANGED <<verdicts, world, slots, cur>>

(* task_array_poll_all returns when the first task of the array is done,   *)
(* or none is there; main.c goes on to the next array.                     *)
PollDone ==
  /\ mpc = "poll" /\ ~ force_cancel
  /\ \/ Members(arr) = {}
     \/ ~ sigint /\ \E t \in Members(arr) : Done(t)
  /\ NextArray("poll", "join")
  /\ UNCHANGED <<arrays, verdicts, world, cur>>

(* Faulty variant: a timeout passes for an answer. *)
PollTimeoutIgnored ==
  /\ mpc = "poll" /\ ~ force_cancel
  /\ Members(arr) # {}
  /\ ~ sigint
  /\ \A t \in Members(arr) : ~ Done(t) /\ (~ Timely \/ Blocked(t))
  /\ NextArray("poll", "join")
  /\ UNCHANGED <<arrays, verdicts, world, cur>>

(* Nobody is done in time: cancel the tasks of this array. *)
PollTimeout ==
  /\ mpc = "poll" /\ ~ force_cancel
  /\ Members(arr) # {}
  /\ ~ sigint
  /\ \A t \in Members(arr) : ~ Done(t) /\ (~ Timely \/ Blocked(t))
  /\ Goto("cancel", arr)
  /\ UNCHANGED <<arrays, verdicts, world, cur>>

(* A poll that fails passes for one that was answered; without memory for  *)
(* it the tasks of the array are cancelled.                                *)
PollFails ==
  /\ Faults
  /\ mpc = "poll" /\ ~ force_cancel
  /\ Members(arr) # {}
  /\ \/ NextArray("poll", "join") /\ unanswered' = unanswered \cup {arr}
     \/ Goto("cancel", arr) /\ UNCHANGED unanswered
  /\ UNCHANGED <<arrays, world, cancelled, force_cancel, skipped, cur>>

(* Faulty variant: force_cancel skips the arrays that follow. *)
PollForcedOnce ==
  /\ mpc = "poll"
  /\ force_cancel \/ (sigint /\ Members(arr) # {})
  /\ force_cancel' = TRUE
  /\ IF force_cancel THEN NextArray("poll", "join") ELSE Goto("cancel", arr)
  /\ UNCHANGED <<arrays, world, cancelled, unanswered, cur, skipped>>

(* A second Ctrl-C, now or at an earlier array. *)
PollForced ==
  /\ mpc = "poll"
  /\ force_cancel \/ (sigint /\ Members(arr) # {})
  /\ force_cancel' = TRUE
  /\ Goto("cancel", arr)
  /\ UNCHANGED <<arrays, world, cancelled, unanswered, cur, skipped>>

CancelSlot ==
  /\ mpc = "cancel"
  /\ cancelled' = cancelled \cup ({Here} \ {NoTask})
  /\ NextSlot("cancel", NextArray("poll", "join"))
  /\ UNCHANGED <<arrays, world, force_cancel, unanswered, cur, skipped>>

(* Faulty variant: join whoever is there. *)
JoinSlotUnasked ==
  /\ mpc = "join"
  /\ IF Here # NoTask
     THEN mpc' = "joining" /\ UNCHANGED <<arr, slot>>
     ELSE NextSlot("join", Goto("destroy", arr))
  /\ UNCHANGED <<arrays, world, cancelled, force_cancel, unanswered, cur, skipped>>

(* task_array_join_all: join who is done, skip who is not. *)
JoinSlot ==
  /\ mpc = "join"
  /\ IF Here # NoTask /\ Done(Here)
     THEN mpc' = "joining" /\ UNCHANGED <<arr, slot, skipped>>
     ELSE /\ skipped' = skipped \cup ({Here} \ {NoTask})
          /\ NextSlot("join", Goto("destroy", arr))
  /\ UNCHANGED <<arrays, world, cancelled, force_cancel, unanswered, cur>>

PthreadJoin ==
  /\ mpc = "joining"
  /\ thread[Here] \in {"ended", "cancelled"}
  /\ NextSlot("join", Goto("destroy", arr))
  /\ UNCHANGED <<arrays, verdicts, world, cur>>

(* Faulty variant: handle->array is left for task_handle_destroy to see. *)
DestroySlotInArray ==
  /\ mpc = "destroy" /\ Here # NoTask
  /\ cur' = Here
  /\ slots' = [slots EXCEPT ![arr][slot] = NoTask]
  /\ mpc' = "handle_destroy"
  /\ UNCHANGED <<verdicts, world, handle, arr, slot>>

(* task_array_handles_destroy_all: on_cleanup; the handle is taken out of  *)
(* the array by hand, because the mutex is held; then it is destroyed.     *)
DestroySlot ==
  /\ mpc = "destroy" /\ Here # NoTask
  /\ cur' = Here
  /\ handle' = [handle EXCEPT ![Here].array = 0]
  /\ slots' = [slots EXCEPT ![arr][slot] = NoTask]
  /\ mpc' = "handle_destroy"
  /\ UNCHANGED <<verdicts, world, arr, slot>>

DestroyHandle ==
  /\ mpc = "handle_destroy"
  /\ Destroy(cur)
  /\ cur' = NoTask
  /\ mpc' = "destroy"
  /\ UNCHANGED <<verdicts, world, arr, slot>>

(* An empty slot; after the last one, task_array_destroy. *)
DestroyNext ==
  /\ mpc = "destroy" /\ Here = NoTask
  /\ NextSlot("destroy", NextArray("join", "finished"))
  /\ UNCHANGED <<arrays, verdicts, world, cur>>

MainRuns ==
  \/ WaitForSigint \/ PthreadCreate
  \/ StopSlot \/ PollDone \/ PollTimeout \/ PollForced \/ CancelSlot
  \/ JoinSlot \/ PthreadJoin \/ DestroySlot \/ DestroyHandle \/ DestroyNext

MainNext == MainRuns \/ PthreadCreateFails \/ PollFails

-----------------------------------------------------------------------------
(* A task's thread. *)

ThreadStep(t, from, to) ==
  /\ thread[t] = "live"
  /\ tpc[t] = from
  /\ tpc' = [tpc EXCEPT ![t] = to]
  /\ UNCHANGED <<verdicts, slots, thread, g_running, sigint, mvars, asked>>

(* The task declares itself running, whatever its state was. *)
Entry(t) ==
  /\ ThreadStep(t, "entry", "loop")
  /\ handle' = [handle EXCEPT ![t].state = "running"]

(* Faulty variant: only g_running is looked at. *)
GoesOnRegardless(t) == g_running

GoesOn(t) == g_running /\ handle[t].state = "running"

Loop(t) ==
  /\ \/ GoesOn(t) /\ ThreadStep(t, "loop", "work")
     \/ ~ GoesOn(t) /\ ThreadStep(t, "loop", "mark")
  /\ UNCHANGED handle

(* One round of work, which begins at a cancellation point; a read in it   *)
(* may wait for input.                                                     *)
Work(t) ==
  /\ t \notin cancelled
  /\ ThreadStep(t, "work", "loop") \/ ThreadStep(t, "work", "stuck")
  /\ UNCHANGED handle

Input(t) ==
  /\ t \notin cancelled
  /\ ThreadStep(t, "stuck", "loop")
  /\ UNCHANGED handle

(* task_handle_mark_done *)
MarkDone(t) ==
  /\ ThreadStep(t, "mark", "write")
  /\ handle' = [handle EXCEPT ![t].state = "stopped"]

MarkDoneWrite(t) ==
  /\ t \notin cancelled
  /\ ThreadStep(t, "write", "return")
  /\ handle' = [handle EXCEPT ![t].done_fd = IF @ = -1 THEN -1 ELSE @ + 1]

ThreadEnds(t, how) ==
  /\ thread[t] = "live"
  /\ thread' = [thread EXCEPT ![t] = how]
  /\ UNCHANGED <<arrays, verdicts, tpc, g_running, sigint, mvars, asked>>

Return(t) == tpc[t] = "return" /\ ThreadEnds(t, "ended")

Die(t) ==
  /\ t \in cancelled
  /\ tpc[t] \in {"work", "stuck", "write"}
  /\ ThreadEnds(t, "cancelled")

TaskRuns(t) ==
  Entry(t) \/ Loop(t) \/ Work(t) \/ MarkDone(t) \/ MarkDoneWrite(t) \/ Return(t) \/ Die(t)

-----------------------------------------------------------------------------
TNext ==
  \/ Interrupt
  \/ \E t \in Tasks, a \in Arrays : Add(t, a) \/ AddFails(t, a)
  \/ \E t \in Tasks : TaskStop(t) \/ TaskRuns(t) \/ Input(t)
  \/ MainNext

TSpec == TInit /\ [][TNext]_tvars

(* Threads that can run do; no call has to fail, nobody has to press a key. *)
TFairSpec == TSpec /\ WF_tvars(MainRuns) /\ \A t \in Tasks : WF_tvars(TaskRuns(t))

-----------------------------------------------------------------------------
TaskStates == {"init", "running", "stopping", "stopped"}

(* Values of the variables of task_helper.c and its users. *)
TTypeOK ==
  /\ DOMAIN slots = Arrays
  /\ \A a \in Arrays : slots[a] \in [Index(a) -> Tasks \cup {NoTask}]
  /\ handle \in [Tasks -> [state : TaskStates, done_fd : -1 .. 1, array : 0 .. NArrays]]
  /\ thread \in [Tasks -> {"none", "live", "ended", "cancelled"}]
  /\ tpc \in [Tasks -> {"entry", "loop", "work", "stuck", "mark", "write", "return"}]
  /\ cancelled \subseteq Tasks /\ asked \subseteq Tasks /\ skipped \subseteq Tasks
  /\ unanswered \subseteq Arrays
  /\ g_running \in BOOLEAN /\ sigint \in BOOLEAN /\ force_cancel \in BOOLEAN
  /\ mpc \in {"running", "create", "stop", "poll", "cancel", "join", "joining",
              "destroy", "handle_destroy", "finished"}
  /\ arr \in Arrays /\ slot \in Index(arr)
  /\ cur \in Tasks \cup {NoTask}

(* A handle and its array name each other: handle->array says where the    *)
(* task is, and it is in one slot there, so no bulk operation misses it or *)
(* reaches it twice.                                                       *)
SlotsAgree ==
  /\ \A a \in Arrays : \A i \in Index(a) :
       slots[a][i] # NoTask => handle[slots[a][i]].array = a
  /\ \A t \in Tasks :
       handle[t].array # 0 =>
         \E i \in Index(handle[t].array) :
           /\ slots[handle[t].array][i] = t
           /\ \A j \in Index(handle[t].array) : slots[handle[t].array][j] = t => j = i

(* "Clear array reference before destroy": the main thread never asks for  *)
(* a mutex that it holds.                                                  *)
NoSelfDeadlock == mpc \in {"create", "handle_destroy"} => handle[cur].array \notin Held

(* Once Ctrl-C was pressed again, no task of the arrays still to be waited *)
(* for is left running uncancelled when main.c begins to join.             *)
ForceReachesAll ==
  force_cancel /\ mpc \in {"join", "joining"} /\ arr = 1 =>
    \A t \in Members(NArrays) : t \in cancelled

(* task_array_join_all "Skips stuck tasks": one that it skips was          *)
(* cancelled, or poll failed, or another of its array was done in time:    *)
(* then one poll for all of them left it running, uncancelled.             *)
SkippedBehindDone ==
  [][\A t \in skipped' \ skipped :
       \/ t \in cancelled \/ arr \in unanswered
       \/ \E u \in Members(arr) \ {t} : Done(u)]_tvars

(* Ctrl-C ends the three loops, however many tasks are stuck.              *)
LoopsEnd == []<>(g_running \/ mpc = "finished")

(* A task that has begun heeds task_stop, at the latest after the input it *)
(* waits for.  (Before, its first statement overwrites the stop.)          *)
StopHeeded ==
  <>[](\A t \in asked :
         thread[t] = "cancelled" \/ tpc[t] \in {"mark", "write", "return", "stuck"})

===============================================================================
