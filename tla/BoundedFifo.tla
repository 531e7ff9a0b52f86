----------------------------- MODULE BoundedFifo -----------------------------
(***************************************************************************)
(* What fifo_queue.h promises its callers, and nothing about how.          *)
(*                                                                         *)
(* Each thread has at most one call outstanding.  A send either appends    *)
(* its item and returns 0, or finds the queue full and returns -1; a       *)
(* receive either takes the oldest item and returns 0, or finds the queue  *)
(* empty and returns -1.  A call takes effect in one step, somewhere       *)
(* between its invocation and its return.                                  *)
(***************************************************************************)
EXTENDS Integers, Sequences

CONSTANTS
  Threads,    (* the threads that call the queue                *)
  Items,      (* what can be sent                               *)
  Capacity,   (* most items held at once                        *)
  NoItem      (* content of a receive buffer nothing was put in *)

VARIABLES
  q,          (* items accepted and not yet delivered, oldest first          *)
  call,       (* the outstanding call of each thread                         *)
  item,       (* the object the thread's void* item argument points to       *)
  ret         (* what the thread's last completed call returned              *)

vars == <<q, call, item, ret>>

Init ==
  /\ q = << >>
  /\ call = [t \in Threads |-> "none"]
  /\ item = [t \in Threads |-> NoItem]
  /\ ret  = [t \in Threads |-> 0]

Returns(t, r) ==
  /\ call' = [call EXCEPT ![t] = "none"]
  /\ ret'  = [ret EXCEPT ![t] = r]

InvokeSend(t, m) ==
  /\ call[t] = "none"
  /\ call' = [call EXCEPT ![t] = "send"]
  /\ item' = [item EXCEPT ![t] = m]
  /\ UNCHANGED <<q, ret>>

InvokeReceive(t) ==
  /\ call[t] = "none"
  /\ call' = [call EXCEPT ![t] = "receive"]
  /\ UNCHANGED <<q, item, ret>>

(* Returns 0 on success, -1 if full. *)
Accept(t) ==
  /\ call[t] = "send"
  /\ Len(q) < Capacity
  /\ q' = Append(q, item[t])
  /\ Returns(t, 0)
  /\ UNCHANGED item

Reject(t) ==
  /\ call[t] = "send"
  /\ Len(q) = Capacity
  /\ Returns(t, -1)
  /\ UNCHANGED <<q, item>>

(* Returns 0 on success, -1 if empty. *)
Deliver(t) ==
  /\ call[t] = "receive"
  /\ q # << >>
  /\ item' = [item EXCEPT ![t] = Head(q)]
  /\ q' = Tail(q)
  /\ Returns(t, 0)

FindEmpty(t) ==
  /\ call[t] = "receive"
  /\ q = << >>
  /\ Returns(t, -1)
  /\ UNCHANGED <<q, item>>

Step(t) ==
  \/ \E m \in Items : InvokeSend(t, m)
  \/ InvokeReceive(t)
  \/ Accept(t) \/ Reject(t)
  \/ Deliver(t) \/ FindEmpty(t)

Next == \E t \in Threads : Step(t)

Spec == Init /\ [][Next]_vars

==============================================================================
