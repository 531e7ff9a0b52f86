------------------------------- MODULE Exchange -------------------------------
(***************************************************************************)
(* The network programs of Exercise2 together: senders, and the receiver   *)
(* of their protocol, while any of them may be signalled at any time.      *)
(***************************************************************************)
EXTENDS TcpReceiver

xvars == <<pvars, svars, rvars, client>>

XInit == PInit /\ SInit /\ UInit /\ TInit

Signal(p) == signal_handler(p) /\ UNCHANGED <<svars, rvars, client>>

ReceiverRuns ==
  \/ (ReceiverStart \/ RecvCall \/ UdpLoop) /\ UNCHANGED client
  \/ TcpRuns

ReceiverNext ==
  \/ ReceiverRuns
  \/ (ReceiverFails \/ UdpNext) /\ UNCHANGED client
  \/ AcceptFails \/ TcpRecvFails

XNext ==
  \/ ReceiverNext
  \/ \E s \in Senders : SenderNext(s) /\ UNCHANGED <<rvars, client>>
  \/ \E p \in Programs : Signal(p)

XSpec == XInit /\ [][XNext]_xvars

(* Programs that can run do, and bytes sent on a connection arrive.  No    *)
(* call has to fail, no datagram to arrive, and nobody to be signalled.    *)
XFairSpec ==
  /\ XSpec
  /\ WF_xvars(ReceiverRuns)
  /\ \A s \in Senders : WF_xvars(SenderRuns(s) /\ UNCHANGED <<rvars, client>>)

-----------------------------------------------------------------------------
Places ==
  {"start", "connect", "loop", "send", "sending", "sleep", "accept", "accepting",
   "inner", "recv", "receiving"} \cup Over

(* Values of the variables of the three programs. *)
XTypeOK ==
  /\ protocol \in {"UDP", "TCP"}
  /\ pc \in [Programs -> Places]
  /\ running \in [Programs -> BOOLEAN]
  /\ wanted \in [Programs -> Int] /\ repetitions \in [Programs -> Int]
  /\ signalled \in [Programs -> {"no", "yes", "missed"}]
  /\ text \in [Senders -> [len : Nat, newline : BOOLEAN]]
  /\ sent \in [Senders -> Nat]
  /\ inflight \in [Senders -> Seq(0 .. MaxCopies)]
  /\ conn \in [Senders -> {"none", "queued", "served", "done", "dropped"}]
  /\ backlog \in Seq(Senders)
  /\ written \in [Senders -> Nat] /\ taken \in [Senders -> Nat]
  /\ buffer_size \in Nat \ {0}
  /\ heap \in {"intact", "overrun"}
  /\ received \in Nat
  /\ logged \in [Senders -> Seq(Nat)]
  /\ client \in Senders \cup {NoClient}

(* Messages a program has handled, and how many -r asks for: one at least. *)
Handled(p) == IF p = Receiver THEN received ELSE sent[p]
Asked(p)   == IF wanted[p] > 1 THEN wanted[p] ELSE 1

(* -r is exact: no program goes on past it, over however many clients, and *)
(* one that ends before it was told to by a signal.                        *)
RepetitionsExact ==
  \A p \in Programs :
    /\ wanted[p] >= 0 => Handled(p) <= Asked(p)
    /\ pc[p] = "ended" /\ signalled[p] = "no" => wanted[p] >= 0 /\ Handled(p) = Asked(p)

(* What a client wrote and is not a newline was logged, in order and once, *)
(* when the receiver says that it disconnected; and it had.  However the   *)
(* stream was cut.  (With -s 1 no client is ever heard.)                   *)
DisconnectedHeard ==
  \A s \in Senders :
    conn[s] = "done" /\ buffer_size > 1 =>
      /\ Finished(s) /\ taken[s] = written[s]
      /\ \A b \in 1 .. written[s] :
           ~ Newline(s, b) => \E i \in DOMAIN logged[s] : logged[s][i] = b
      /\ \A i, j \in DOMAIN logged[s] : i < j => logged[s][i] < logged[s][j]

(* A datagram is logged whole, up to its newline, and nothing else is:     *)
(* late, repeated, or between those of another sender.  Nothing is said    *)
(* once the '\0' of one too long for rx_buf was written behind it.         *)
FirstByte(s, b) == b % text[s].len = 1 % text[s].len

Whole(s) ==
  \A i \in DOMAIN logged[s] :
    LET b == logged[s][i] IN
    /\ ~ Newline(s, b)
    /\ FirstByte(s, b) \/ (i > 1 /\ logged[s][i - 1] = b - 1)
    /\ \/ FirstByte(s, b + 1) \/ Newline(s, b + 1)
       \/ i < Len(logged[s]) /\ logged[s][i + 1] = b + 1

DatagramsWhole ==
  protocol = "UDP" /\ heap = "intact" => \A s \in Senders : Whole(s)

(* Signals end the programs; but after one that came in the window the     *)
(* program may wait on, for a client, a message or room.                   *)
SignalHeeded ==
  <>[](\A p \in Programs :
         \/ signalled[p] = "no" \/ pc[p] \in Over
         \/ signalled[p] = "missed" /\ pc[p] \in {"accepting", "receiving", "sending"})

(* Clients are served in turn: nobody who has connected waits for ever,    *)
(* unless the receiver is told to end, or is busy with a client that does  *)
(* not end.                                                                *)
ServedInTurn ==
  []<>( \/ backlog = << >> \/ ~ running[Receiver]
        \/ client # NoClient /\ ~ Finished(client) )

===============================================================================
