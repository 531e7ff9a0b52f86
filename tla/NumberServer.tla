----------------------------- MODULE NumberServer -----------------------------
(***************************************************************************)
(* Exercise1/3 - shared variable/go/foo.go: two goroutines ask for N steps *)
(* up and N down over channels of their own and then say that they are     *)
(* done; main owns the number, and empties both channels before it prints. *)
(*                                                                         *)
(* A message has no content, so a channel is the number of messages in it. *)
(***************************************************************************)
EXTENDS Integers

CONSTANTS
  N,      (* messages of each goroutine: 1000000        *)
  Size    (* capacity of iChan and of dChan: 1000000    *)

ASSUME ServerAssumption == N \in Nat /\ Size \in Nat \ {0}

VARIABLES
  i,         (* the number                                        *)
  chan,      (* messages in iChan and in dChan                    *)
  doneChan,  (* messages in doneChan                              *)
  sent,      (* messages each goroutine has sent                  *)
  returned,  (* whether each goroutine has returned               *)
  done,      (* main's count of goroutines still to finish        *)
  mpc        (* where main is                                     *)

nvars == <<i, chan, doneChan, sent, returned, done, mpc>>

Workers == {"inc", "dec"}

(* What main does to i for a message of each goroutine. *)
Delta(w) == IF w = "inc" THEN 1 ELSE -1

NInit ==
  /\ i = -1
  /\ chan = [w \in Workers |-> 0]
  /\ doneChan = 0
  /\ sent = [w \in Workers |-> 0]
  /\ returned = [w \in Workers |-> "no"]
  /\ done = 2
  /\ mpc = "select"

(* ch <- true *)
Send(w) ==
  /\ sent[w] < N
  /\ chan[w] < Size
  /\ chan' = [chan EXCEPT ![w] = @ + 1]
  /\ sent' = [sent EXCEPT ![w] = @ + 1]
  /\ UNCHANGED <<i, doneChan, returned, done, mpc>>

(* doneChan <- true; doneChan has room for both. *)
SendDone(w) ==
  /\ sent[w] = N
  /\ returned[w] = "no"
  /\ doneChan' = doneChan + 1
  /\ returned' = [returned EXCEPT ![w] = "yes"]
  /\ UNCHANGED <<i, chan, sent, done, mpc>>

(* case <-iChan and case <-dChan, of the outer select and of the drain. *)
Receive(w) ==
  /\ mpc \in {"select", "drain"}
  /\ chan[w] > 0
  /\ chan' = [chan EXCEPT ![w] = @ - 1]
  /\ i' = i + Delta(w)
  /\ UNCHANGED <<doneChan, sent, returned, done, mpc>>

(* Faulty variant: main waits for one goroutine too many. *)
ReceiveDoneStays ==
  /\ mpc = "select"
  /\ doneChan > 0
  /\ doneChan' = doneChan - 1
  /\ done' = done - 1
  /\ UNCHANGED <<i, chan, sent, returned, mpc>>

(* case <-doneChan *)
ReceiveDone ==
  /\ mpc = "select"
  /\ doneChan > 0
  /\ doneChan' = doneChan - 1
  /\ done' = done - 1
  /\ mpc' = IF done' = 0 THEN "drain" ELSE "select"
  /\ UNCHANGED <<i, chan, sent, returned>>

(* Faulty variant: what is left in the channels is not drained. *)
PrintUndrained ==
  /\ mpc = "drain"
  /\ mpc' = "printed"
  /\ UNCHANGED <<i, chan, doneChan, sent, returned, done>>

(* The drain's default: nothing is ready. *)
PrintNumber ==
  /\ mpc = "drain"
  /\ \A w \in Workers : chan[w] = 0
  /\ mpc' = "printed"
  /\ UNCHANGED <<i, chan, doneChan, sent, returned, done>>

Goroutine(w) == Send(w) \/ SendDone(w)

Main == ReceiveDone \/ PrintNumber \/ \E w \in Workers : Receive(w)

Ended == mpc = "printed" /\ UNCHANGED nvars

NNext == Main \/ Ended \/ \E w \in Workers : Goroutine(w)

NSpec == NInit /\ [][NNext]_nvars

NFairSpec == NSpec /\ WF_nvars(Main) /\ \A w \in Workers : WF_nvars(Goroutine(w))

-----------------------------------------------------------------------------
(* Values of the variables of foo.go. *)
NTypeOK ==
  /\ i \in Int
  /\ chan \in [Workers -> 0 .. Size]
  /\ doneChan \in 0 .. 2
  /\ sent \in [Workers -> 0 .. N]
  /\ returned \in [Workers -> {"no", "yes"}]
  /\ done \in 0 .. 2
  /\ mpc \in {"select", "drain", "printed"}

Returned(w) == IF returned[w] = "yes" THEN 1 ELSE 0

(* The inductive invariant of foo.go: every message is in its channel or   *)
(* in i; main's count is of goroutines that have returned, and those have  *)
(* sent everything; what is printed follows an empty channel.              *)
NInv ==
  /\ i = (sent["inc"] - chan["inc"]) - (sent["dec"] - chan["dec"]) - 1
  /\ Returned("inc") + Returned("dec") = doneChan + (2 - done)
  /\ \A w \in Workers : returned[w] = "yes" => sent[w] = N
  /\ mpc = "select" <=> done > 0
  /\ mpc = "printed" => \A w \in Workers : chan[w] = 0

(* "The magic number is: -1": done messages may overtake the last numbers, *)
(* which travel over other channels, and yet none is missed.               *)
MagicNumber == mpc = "printed" => i = -1

(* main gets there: nobody waits for room in a channel for ever. *)
Prints == <>(mpc = "printed")

===============================================================================
