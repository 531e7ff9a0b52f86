---------------------------- MODULE SharedVariable ----------------------------
(***************************************************************************)
(* Exercise1/3 - shared variable/c/foo.c: one thread adds 1 and another    *)
(* subtracts 1, N times each, under one mutex; main joins both and prints. *)
(*                                                                         *)
(* i += 1 is a load and a store, so that the mutex has something to do.    *)
(* Nothing here is left to TLC: ExerciseProofs has it for every N.         *)
(***************************************************************************)
EXTENDS Integers

CONSTANT N    (* iterations of each thread: 1000000 *)

VARIABLES
  i,        (* the shared variable                           *)
  mutex,    (* its holder, or "free"                         *)
  j,        (* each thread's loop variable                   *)
  reg,      (* the value each thread has loaded              *)
  pc,       (* where each thread is                          *)
  printed   (* main has joined both and printed i            *)

svars == <<i, mutex, j, reg, pc, printed>>

Workers == {"inc", "dec"}

(* What one iteration of a thread adds. *)
Delta(t) == IF t = "inc" THEN 1 ELSE -1

SInit ==
  /\ i = -1
  /\ mutex = "free"
  /\ j = [t \in Workers |-> 0]
  /\ reg = [t \in Workers |-> 0]
  /\ pc = [t \in Workers |-> "loop"]
  /\ printed = FALSE

Goto(t, from, to) ==
  /\ pc[t] = from
  /\ pc' = [pc EXCEPT ![t] = to]

LockMutex(t) ==
  /\ j[t] < N
  /\ Goto(t, "loop", "load")
  /\ mutex = "free"
  /\ mutex' = t
  /\ UNCHANGED <<i, j, reg, printed>>

Load(t) ==
  /\ Goto(t, "load", "store")
  /\ reg' = [reg EXCEPT ![t] = i]
  /\ UNCHANGED <<i, mutex, j, printed>>

Store(t) ==
  /\ Goto(t, "store", "unlock")
  /\ i' = reg[t] + Delta(t)
  /\ UNCHANGED <<mutex, j, reg, printed>>

UnlockMutex(t) ==
  /\ Goto(t, "unlock", "loop")
  /\ mutex' = "free"
  /\ j' = [j EXCEPT ![t] = @ + 1]
  /\ UNCHANGED <<i, reg, printed>>

Return(t) ==
  /\ j[t] = N
  /\ Goto(t, "loop", "returned")
  /\ UNCHANGED <<i, mutex, j, reg, printed>>

(* pthread_join of both, then printf. *)
Main ==
  /\ \A t \in Workers : pc[t] = "returned"
  /\ printed' = TRUE
  /\ UNCHANGED <<i, mutex, j, reg, pc>>

Worker(t) == LockMutex(t) \/ Load(t) \/ Store(t) \/ UnlockMutex(t) \/ Return(t)

SNext == Main \/ \E t \in Workers : Worker(t)

SSpec == SInit /\ [][SNext]_svars

-----------------------------------------------------------------------------
Pcs == {"loop", "load", "store", "unlock", "returned"}

(* Values of the variables of foo.c. *)
STypeOK ==
  /\ i \in Int
  /\ mutex \in Workers \cup {"free"}
  /\ j \in [Workers -> 0 .. N]
  /\ reg \in [Workers -> Int]
  /\ pc \in [Workers -> Pcs]
  /\ printed \in BOOLEAN

(* Additions and subtractions that have reached i. *)
Done(t) == j[t] + (IF pc[t] = "unlock" THEN 1 ELSE 0)

(* The inductive invariant: the threads of foo.c are between lock and      *)
(* unlock one at a time, what the one inside has loaded is still i, and i  *)
(* counts the iterations of both.                                          *)
SInv ==
  /\ \A t \in Workers : pc[t] \in {"load", "store", "unlock"} <=> mutex = t
  /\ \A t \in Workers : pc[t] \in {"load", "store", "unlock"} => j[t] < N
  /\ \A t \in Workers : pc[t] = "store" => reg[t] = i
  /\ \A t \in Workers : pc[t] = "returned" => j[t] = N
  /\ i = Done("inc") - Done("dec") - 1
  /\ printed => \A t \in Workers : pc[t] = "returned"

(* "The magic number is: -1": what foo.c prints does not depend on the     *)
(* order in which its threads run.                                         *)
MagicNumber == printed => i = -1

===============================================================================
