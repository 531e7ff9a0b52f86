----------------------------- MODULE UdpReceiver -----------------------------
(***************************************************************************)
(* Exercise2/udp_receiver: log one datagram after the other.  Start,       *)
(* buffer and log are those of tcp_receiver too.                           *)
(***************************************************************************)
EXTENDS Sender, FiniteSets

VARIABLES
  buffer_size,  (* its -s                                                  *)
  heap,         (* "intact", or "overrun" by a write behind rx_buf         *)
  received,     (* messages it has counted                                 *)
  logged        (* the bytes it logged, of each sender                     *)

rvars == <<buffer_size, heap, received, logged>>

UInit ==
  /\ buffer_size = 1024
  /\ heap = "intact"
  /\ received = 0
  /\ logged = [s \in Senders |-> << >>]

(* Options, socket, bind (and listen), sigaction, malloc. *)
ReceiverStart ==
  /\ \E line \in Lines[Receiver] :
       LET n == parse(line.s, 1, 65507, -1) IN
       /\ Options(Receiver, n, parse(line.r, -1, INT_MAX, -2), "loop")
       /\ buffer_size' = IF n < 0 THEN buffer_size ELSE n
  /\ UNCHANGED <<protocol, running, signalled, svars, heap, received, logged>>

ReceiverFails ==
  /\ Receiver \in Faults
  /\ Goto(Receiver, "start", "failed")
  /\ UNCHANGED <<flags, svars, rvars>>

Newline(s, b) == text[s].newline /\ b % text[s].len = 0

(* rx_buf[n] = '\0' *)
Terminate(n) == heap' = IF n < buffer_size THEN heap ELSE "overrun"

(* Faulty variant: strip the last byte, whatever it is. *)
LogBytesShort(s, lo, hi) ==
  logged' = [logged EXCEPT ![s] = @ \o [i \in 1 .. hi - lo |-> lo + i - 1]]

(* Strip the newlines at the end of bytes lo .. hi of s, and log the rest. *)
LogBytes(s, lo, hi) ==
  LET kept == {b \in lo .. hi : \E c \in b .. hi : ~ Newline(s, c)} IN
  logged' = [logged EXCEPT ![s] = @ \o [i \in 1 .. Cardinality(kept) |-> lo + i - 1]]

RecvCall ==
  /\ Goto(Receiver, "recv", "receiving")
  /\ UNCHANGED <<flags, svars, rvars>>

-----------------------------------------------------------------------------
(* while (running) *)
UdpLoop ==
  /\ protocol = "UDP"
  /\ Goto(Receiver, "loop", IF running[Receiver] THEN "recv" ELSE "ended")
  /\ UNCHANGED <<flags, svars, rvars>>

(* recvfrom: a copy of any datagram in the network.  MSG_TRUNC: the size   *)
(* is that of the datagram, also when the buffer got only a part of it.    *)
UdpRecv(s, k) ==
  /\ protocol = "UDP"
  /\ inflight[s][k] > 0
  /\ inflight' = [inflight EXCEPT ![s][k] = @ - 1]
  /\ LET len == text[s].len
         lo  == (k - 1) * len + 1
         n   == IF len < buffer_size THEN len ELSE buffer_size - 1 IN
     /\ Terminate(len)
     /\ LogBytes(s, lo, lo + n - 1)
  /\ received' = received + 1
  /\ repetitions' = [repetitions EXCEPT ![Receiver] = Countdown(@)]
  /\ Goto(Receiver, "receiving", IF repetitions'[Receiver] = 0 THEN "ended" ELSE "loop")
  /\ UNCHANGED <<protocol, running, wanted, signalled, text, sent, stream, buffer_size>>

UdpRecvFails ==
  /\ Receiver \in Faults /\ protocol = "UDP"
  /\ Goto(Receiver, "receiving", "failed")
  /\ UNCHANGED <<flags, svars, rvars>>

(* Undefined behaviour: after a write behind rx_buf the program may be     *)
(* killed, by the allocator at the latest, or not.                         *)
Corrupted ==
  /\ heap = "overrun"
  /\ pc[Receiver] \notin Over
  /\ pc' = [pc EXCEPT ![Receiver] = "failed"]
  /\ UNCHANGED <<flags, svars, rvars>>

UdpNext ==
  \/ UdpLoop \/ UdpRecvFails \/ Corrupted
  \/ \E s \in Senders : \E k \in DOMAIN inflight[s] : UdpRecv(s, k)

===============================================================================
