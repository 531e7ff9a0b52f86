------------------------------- MODULE GoBuffer -------------------------------
(***************************************************************************)
(* Exercise1/5 - bounded buffer/go/main.go: a producer and a consumer over *)
(* a buffered channel.  It is what a bounded buffer promises, and          *)
(* BoundedBuffer (the C solution) is shown to implement it.                *)
(*                                                                         *)
(* main waits for ever; that the Go runtime ends the program when producer *)
(* and consumer are through as well is left out.                           *)
(***************************************************************************)
EXTENDS Integers, Sequences

CONSTANTS
  N,      (* values the producer sends: 10 *)
  Size    (* capacity of the channel: 5    *)

VARIABLES
  ch,     (* values in the channel                               *)
  sent,   (* values sent so far: i of producer's loop            *)
  got     (* i of consumer: the value received last, at first -1 *)

gvars == <<ch, sent, got>>

GInit ==
  /\ ch = << >>
  /\ sent = 0
  /\ got = -1

(* ch <- i *)
Push ==
  /\ sent < N
  /\ Len(ch) < Size
  /\ ch' = Append(ch, sent)
  /\ sent' = sent + 1
  /\ UNCHANGED got

(* i := <-ch *)
Pop ==
  /\ ch # << >>
  /\ got' = Head(ch)
  /\ ch' = Tail(ch)
  /\ UNCHANGED sent

GNext == Push \/ Pop

GSpec == GInit /\ [][GNext]_gvars

-----------------------------------------------------------------------------
(* What the consumer has got is all that was sent before what is still in  *)
(* the channel, and that is in the order it was sent in.                   *)
InOrder ==
  /\ sent = got + Len(ch) + 1
  /\ \A k \in 1 .. Len(ch) : ch[k] = got + k

===============================================================================
