-------------------------------- MODULE Sender --------------------------------
(***************************************************************************)
(* Exercise2/udp_tcp_sender: the same message again and again, as          *)
(* datagrams or on a TCP connection, with the network it writes to.        *)
(*                                                                         *)
(* A datagram is its sender and its number.  Of a stream only positions    *)
(* are kept: byte b of sender s is byte ((b - 1) % len) + 1 of its text.   *)
(***************************************************************************)
EXTENDS NetProgram

CONSTANTS
  MaxSends,  (* bound: after so many messages a sender that runs sleeps on *)
  MaxCopies, (* bound: how often the network may deliver one datagram      *)
  SockBuf    (* bytes a TCP connection holds                               *)

ASSUME SenderAssumption ==
  /\ \A s \in Senders : \A line \in Lines[s] : line.m \in [len : Nat, newline : BOOLEAN]
  /\ MaxSends \in Nat \ {0}
  /\ MaxCopies \in Nat
  /\ SockBuf \in Nat

VARIABLES
  text,      (* what each sender sends: length, and if it ends in '\n'     *)
  sent,      (* messages each sender has sent                              *)
  inflight,  (* inflight[s][k]: how often its k-th datagram may still come *)
  conn,      (* its connection: "none", "queued", "served", "done" when    *)
             (* the receiver saw its end, "dropped" when it did not        *)
  backlog,   (* connections not accepted yet                               *)
  written,   (* bytes each sender wrote to its connection                  *)
  taken      (* bytes the receiver has read of them                        *)

stream == <<conn, backlog, written, taken>>
svars  == <<text, sent, inflight, stream>>

SInit ==
  /\ text = [s \in Senders |-> [len |-> 0, newline |-> FALSE]]
  /\ sent = [s \in Senders |-> 0]
  /\ inflight = [s \in Senders |-> << >>]
  /\ conn = [s \in Senders |-> "none"]
  /\ backlog = << >>
  /\ written = [s \in Senders |-> 0]
  /\ taken = [s \in Senders |-> 0]

(* The receiver's socket is bound (UDP), or listening (TCP). *)
Listening == pc[Receiver] \notin Over \cup {"start"}

(* "Message truncated from %d to %d bytes" *)
Truncated(m, max) == IF m.len > max THEN [len |-> max, newline |-> FALSE] ELSE m

SenderStart(s) ==
  /\ \E line \in Lines[s] :
       LET max_msg_size == parse(line.s, 0, 65507, -1) IN
       /\ Options(s, max_msg_size, parse(line.r, -1, INT_MAX, -2),
                  IF protocol = "TCP" THEN "connect" ELSE "loop")
       /\ text' = IF max_msg_size < 0 THEN text
                  ELSE [text EXCEPT ![s] = Truncated(line.m, max_msg_size)]
  /\ UNCHANGED <<protocol, running, signalled, sent, inflight, stream>>

Connect(s) ==
  /\ IF Listening
     THEN /\ Goto(s, "connect", "loop")
          /\ conn' = [conn EXCEPT ![s] = "queued"]
          /\ backlog' = Append(backlog, s)
     ELSE Goto(s, "connect", "failed") /\ UNCHANGED <<conn, backlog>>
  /\ UNCHANGED <<flags, text, sent, inflight, written, taken>>

(* while (running) *)
SenderLoop(s) ==
  /\ Goto(s, "loop", IF running[s] THEN "send" ELSE "ended")
  /\ UNCHANGED <<flags, svars>>

(* A message was sent from place: count, then sleep or leave. *)
Sent(s, place) ==
  /\ sent' = [sent EXCEPT ![s] = @ + 1]
  /\ repetitions' = [repetitions EXCEPT ![s] = Countdown(@)]
  /\ Goto(s, place, IF repetitions'[s] = 0 THEN "ended" ELSE "sleep")
  /\ UNCHANGED <<protocol, wanted, text>>

(* sendto: the network may deliver a datagram late, twice, or never; and   *)
(* nobody gets it if the receiver's socket is not there.                   *)
SendTo(s) ==
  /\ protocol = "UDP"
  /\ inflight' = [inflight EXCEPT ![s] = Append(@, IF Listening THEN MaxCopies ELSE 0)]
  /\ Sent(s, "send")
  /\ UNCHANGED <<running, signalled, stream>>

SendCall(s) ==
  /\ protocol = "TCP"
  /\ Goto(s, "send", "sending")
  /\ UNCHANGED <<flags, svars>>

Room(s)      == SockBuf - (written[s] - taken[s])
Connected(s) == conn[s] \in {"queued", "served"}

(* send: it waits until the connection holds all of the message. *)
Send(s) ==
  /\ Connected(s)
  /\ text[s].len <= Room(s)
  /\ written' = [written EXCEPT ![s] = @ + text[s].len]
  /\ Sent(s, "sending")
  /\ UNCHANGED <<running, signalled, inflight, conn, backlog, taken>>

(* A signal after a part was copied: send returns the size of that part,   *)
(* which passes for a message.                                             *)
SendPart(s) ==
  /\ Connected(s)
  /\ \E n \in 1 .. Room(s) :
       /\ n < text[s].len
       /\ written' = [written EXCEPT ![s] = @ + n]
  /\ Sent(s, "sending")
  /\ running' = [running EXCEPT ![s] = FALSE]
  /\ signalled' = [signalled EXCEPT ![s] = "yes"]
  /\ UNCHANGED <<inflight, conn, backlog, taken>>

(* The receiver has closed: the bytes vanish; or the error is reported; or *)
(* SIGPIPE, which the program leaves at its default, kills it.             *)
SendLate(s) ==
  /\ pc[s] = "sending" /\ ~ Connected(s)
  /\ \/ Sent(s, "sending")
     \/ /\ Goto(s, "sending", "failed")
        /\ UNCHANGED <<protocol, wanted, repetitions, text, sent>>
  /\ UNCHANGED <<running, signalled, inflight, stream>>

SendFails(s) ==
  /\ s \in Faults
  /\ \E place \in {"start", "connect", "sending"} \cup (IF protocol = "UDP" THEN {"send"} ELSE {}) :
       Goto(s, place, "failed")
  /\ UNCHANGED <<flags, svars>>

(* sleep(sleep_period_s) runs out. *)
Sleep(s) ==
  /\ sent[s] < MaxSends \/ ~ running[s]
  /\ Goto(s, "sleep", "loop")
  /\ UNCHANGED <<flags, svars>>

SenderRuns(s) ==
  \/ SenderStart(s) \/ Connect(s) \/ SenderLoop(s) \/ SendTo(s)
  \/ SendCall(s) \/ Send(s) \/ SendLate(s) \/ Sleep(s)

SenderNext(s) == SenderRuns(s) \/ SendPart(s) \/ SendFails(s)

===============================================================================
