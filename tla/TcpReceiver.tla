----------------------------- MODULE TcpReceiver -----------------------------
(***************************************************************************)
(* Exercise2/tcp_receiver: accept a client, log what it sends until it     *)
(* disconnects, and accept the next.                                       *)
(***************************************************************************)
EXTENDS UdpReceiver

CONSTANT NoClient

VARIABLE client   (* who is connected to client_fd, or NoClient *)

TInit == client = NoClient

(* while (running), outer: the end of the program drops who is waiting. *)
AcceptLoop ==
  /\ protocol = "TCP"
  /\ IF running[Receiver]
     THEN Goto(Receiver, "loop", "accept") /\ UNCHANGED <<conn, backlog>>
     ELSE /\ Goto(Receiver, "loop", "ended")
          /\ conn' = [s \in Senders |-> IF conn[s] = "queued" THEN "dropped" ELSE conn[s]]
          /\ backlog' = << >>
  /\ UNCHANGED <<flags, text, sent, inflight, written, taken, rvars, client>>

AcceptCall ==
  /\ Goto(Receiver, "accept", "accepting")
  /\ UNCHANGED <<flags, svars, rvars, client>>

Accept ==
  /\ Goto(Receiver, "accepting", "inner")
  /\ backlog # << >>
  /\ client' = Head(backlog)
  /\ backlog' = Tail(backlog)
  /\ conn' = [conn EXCEPT ![client'] = "served"]
  /\ UNCHANGED <<flags, text, sent, inflight, written, taken, rvars>>

(* Any other error than EINTR leaves the loop. *)
AcceptFails ==
  /\ Receiver \in Faults
  /\ Goto(Receiver, "accepting", "failed")
  /\ conn' = [s \in Senders |-> IF conn[s] = "queued" THEN "dropped" ELSE conn[s]]
  /\ backlog' = << >>
  /\ UNCHANGED <<flags, text, sent, inflight, written, taken, rvars, client>>

(* Faulty variant: wait for more of a client that is through. *)
CloseClientContinues(from, how) ==
  /\ Goto(Receiver, from, "inner")
  /\ UNCHANGED <<conn, client>>

(* close(client_fd), on the way back to accept. *)
CloseClient(from, how) ==
  /\ Goto(Receiver, from, "loop")
  /\ conn' = [conn EXCEPT ![client] = how]
  /\ client' = NoClient

(* while (running), inner. *)
ReceiveLoop ==
  /\ IF running[Receiver]
     THEN Goto(Receiver, "inner", "recv") /\ UNCHANGED <<conn, client>>
     ELSE CloseClient("inner", "dropped")
  /\ UNCHANGED <<flags, text, sent, inflight, backlog, written, taken, rvars>>

Available == written[client] - taken[client]
Finished(s) == pc[s] \in Over

RecvSize == buffer_size - 1

(* recv returns some of the bytes that are there, across the messages'     *)
(* boundaries; they are counted as one message.                            *)
TcpRecv ==
  /\ pc[Receiver] = "receiving" /\ protocol = "TCP"
  /\ \E n \in 1 .. RecvSize :
       /\ n <= Available
       /\ Terminate(n)
       /\ LogBytes(client, taken[client] + 1, taken[client] + n)
       /\ taken' = [taken EXCEPT ![client] = @ + n]
  /\ received' = received + 1
  /\ repetitions' = [repetitions EXCEPT ![Receiver] = Countdown(@)]
  /\ running' = [running EXCEPT ![Receiver] = @ /\ repetitions'[Receiver] # 0]
  /\ IF repetitions'[Receiver] = 0
     THEN CloseClient("receiving", "dropped")
     ELSE Goto(Receiver, "receiving", "inner") /\ UNCHANGED <<conn, client>>
  /\ UNCHANGED <<protocol, wanted, signalled, text, sent, inflight, backlog, written, buffer_size>>

(* recv returns 0: the client is through, or there is no room in rx_buf. *)
Disconnected ==
  /\ protocol = "TCP" /\ pc[Receiver] = "receiving"
  /\ \/ Available = 0 /\ Finished(client)
     \/ Available > 0 /\ RecvSize = 0
  /\ CloseClient("receiving", "done")
  /\ UNCHANGED <<flags, text, sent, inflight, backlog, written, taken, rvars>>

TcpRecvFails ==
  /\ Receiver \in Faults /\ protocol = "TCP"
  /\ CloseClient("receiving", "dropped")
  /\ UNCHANGED <<flags, text, sent, inflight, backlog, written, taken, rvars>>

TcpRuns ==
  AcceptLoop \/ AcceptCall \/ Accept \/ ReceiveLoop \/ TcpRecv \/ Disconnected

===============================================================================
