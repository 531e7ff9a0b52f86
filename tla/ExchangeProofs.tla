---------------------------- MODULE ExchangeProofs ----------------------------
(***************************************************************************)
(* What Exchange promises, for any senders, any command lines, and sizes   *)
(* of buffers and of the network.                                          *)
(***************************************************************************)
EXTENDS Exchange, FiniteSetTheorems, SequenceTheorems, TLAPS

(* The variables that the repetitions depend on. *)
CTypeOK ==
  /\ pc \in [Programs -> Places]
  /\ running \in [Programs -> BOOLEAN]
  /\ wanted \in [Programs -> Int]
  /\ repetitions \in [Programs -> Int]
  /\ signalled \in [Programs -> {"no", "yes", "missed"}]
  /\ sent \in [Senders -> Nat]
  /\ received \in Nat

Through(p) == wanted[p] >= 0 /\ Handled(p) = Asked(p)

(* Counting p's messages.  The countdown alone does not say how many there *)
(* were: -1 and 0 stay, and the receiver leaves two loops over running.    *)
Counts(p) ==
  /\ wanted[p] >= -1
  /\ wanted[p] = -1 => repetitions[p] = -1
  /\ wanted[p] = 0 => repetitions[p] = 0 /\ Handled(p) <= 1
  /\ wanted[p] > 0 => Handled(p) <= wanted[p] /\ repetitions[p] = wanted[p] - Handled(p)
  /\ pc[p] = "start" => Handled(p) = 0 /\ wanted[p] = -1
  /\ Through(p) => pc[p] \in Over \/ (p = Receiver /\ pc[p] = "loop" /\ ~ running[p])
  /\ ~ running[p] => signalled[p] # "no" \/ Through(p)
  /\ pc[p] = "ended" /\ signalled[p] = "no" => Through(p)

Counted == CTypeOK /\ \A p \in Programs : Counts(p)

-----------------------------------------------------------------------------
(* The kinds of step a program can take, as far as messages are counted.   *)

counts == <<running, wanted, repetitions, signalled, sent, received>>

(* From one place to another; past the loops only if running is false. *)
Moves(p) ==
  /\ UNCHANGED counts
  /\ \E q \in Places \ {"start"} :
       /\ pc' = [pc EXCEPT ![p] = q]
       /\ q = "ended" => ~ running[p]
       /\ pc[p] = "loop" /\ ~ running[p] => q \in Over
       /\ pc[p] \notin Over

Starts(p) ==
  /\ pc[p] = "start"
  /\ UNCHANGED <<running, signalled, sent, received>>
  /\ \E reps \in Int, q \in Places \ (Over \cup {"start"}) :
       /\ reps >= -1
       /\ wanted' = [wanted EXCEPT ![p] = reps]
       /\ repetitions' = [repetitions EXCEPT ![p] = reps]
       /\ pc' = [pc EXCEPT ![p] = q]

(* A message more. *)
Handles(p) ==
  /\ pc[p] \in {"send", "sending", "receiving"}
  /\ wanted' = wanted
  /\ repetitions' = [repetitions EXCEPT ![p] = Countdown(@)]
  /\ IF p = Receiver THEN received' = received + 1 /\ sent' = sent
                     ELSE sent' = [sent EXCEPT ![p] = @ + 1] /\ received' = received
  /\ \E q \in Places \ {"start"} :
       /\ pc' = [pc EXCEPT ![p] = q]
       /\ repetitions'[p] = 0 =>
            q = "ended" \/ (p = Receiver /\ q = "loop" /\ ~ running'[p])
       /\ repetitions'[p] # 0 => q \notin Over
  /\ \E r \in BOOLEAN, how \in {signalled[p], "yes"} :
       /\ running' = [running EXCEPT ![p] = r]
       /\ signalled' = [signalled EXCEPT ![p] = how]
       /\ ~ r => ~ running[p] \/ how = "yes" \/ repetitions'[p] = 0

(* A signal. *)
Heeds(p) ==
  /\ pc[p] \notin Over
  /\ UNCHANGED <<wanted, repetitions, sent, received>>
  /\ running' = [running EXCEPT ![p] = FALSE]
  /\ \E how \in {"yes", "missed"} : signalled' = [signalled EXCEPT ![p] = how]
  /\ \E q \in Places \ {"ended"} :
       /\ pc' = [pc EXCEPT ![p] = q]
       /\ q = "start" => pc[p] = "start"
       /\ pc[p] = "loop" => q = "loop"

LEMMA Others ==
  ASSUME NEW p \in Programs, Counted, CTypeOK', Counts(p)',
         \A q \in Programs \ {p} :
           /\ pc'[q] = pc[q] /\ running'[q] = running[q] /\ wanted'[q] = wanted[q]
           /\ repetitions'[q] = repetitions[q] /\ signalled'[q] = signalled[q]
           /\ Handled(q)' = Handled(q)
  PROVE  Counted'
BY DEF Counted, Counts, Through, Asked, Over

LEMMA KindsCount ==
  ASSUME NEW p \in Programs, Counted, Moves(p) \/ Starts(p) \/ Handles(p) \/ Heeds(p)
  PROVE  Counted'
<1>. USE NetAssumption DEF Counted, CTypeOK, Programs, Handled
<1>1. CASE Moves(p)
  <2>1. CTypeOK'
    BY <1>1 DEF Moves, counts
  <2>2. Counts(p)'
    BY <1>1 DEF Moves, counts, Counts, Through, Asked, Over
  <2>. QED
    BY <1>1, <2>1, <2>2, Others DEF Moves, counts
<1>2. CASE Starts(p)
  <2>1. CTypeOK'
    BY <1>2 DEF Starts
  <2>2. Counts(p)'
    BY <1>2 DEF Starts, Counts, Through, Asked, Over
  <2>. QED
    BY <1>2, <2>1, <2>2, Others DEF Starts
<1>3. CASE Handles(p)
  <2>1. CTypeOK'
    BY <1>3 DEF Handles, Countdown
  <2>2. Counts(p)'
    BY <1>3 DEF Handles, Countdown, Counts, Through, Asked, Over
  <2>. QED
    BY <1>3, <2>1, <2>2, Others DEF Handles
<1>4. CASE Heeds(p)
  <2>1. CTypeOK'
    BY <1>4 DEF Heeds
  <2>2. Counts(p)'
    BY <1>4 DEF Heeds, Counts, Through, Asked, Over
  <2>. QED
    BY <1>4, <2>1, <2>2, Others DEF Heeds
<1>. QED
  BY <1>1, <1>2, <1>3, <1>4

-----------------------------------------------------------------------------
(* Every step is of one of these kinds, or counts nothing. *)

LEMMA ParseValue ==
  ASSUME NEW str, NEW lo \in Int, NEW hi \in Int, NEW err \in Int
  PROVE  parse(str, lo, hi, err) \in (lo .. hi) \cup {err}
BY DEF parse

(* The options are read: a start, or a move to "failed". *)
LEMMA OptionsKind ==
  ASSUME CTypeOK, NEW p \in Programs, NEW size, NEW reps \in Int,
         NEW first \in {"connect", "loop"},
         Options(p, size, reps, first), UNCHANGED <<running, signalled, sent, received>>
  PROVE  Moves(p) \/ Starts(p)
BY DEF CTypeOK, Options, Goto, Moves, Starts, counts, Places, Over

(* What a step has to do to handle a message: q is where it goes. *)
LEMMA HandlesFrom ==
  ASSUME CTypeOK, NEW p \in Programs,
         pc[p] \in {"send", "sending", "receiving"},
         wanted' = wanted, repetitions' = [repetitions EXCEPT ![p] = Countdown(@)],
         IF p = Receiver THEN received' = received + 1 /\ sent' = sent
                         ELSE sent' = [sent EXCEPT ![p] = @ + 1] /\ received' = received,
         NEW q \in Places \ {"start"}, pc' = [pc EXCEPT ![p] = q],
         repetitions'[p] = 0 =>
           q = "ended" \/ (p = Receiver /\ q = "loop" /\ ~ running'[p]),
         repetitions'[p] # 0 => q \notin Over,
         NEW r \in BOOLEAN, running' = [running EXCEPT ![p] = r],
         \/ signalled' = signalled
         \/ signalled' = [signalled EXCEPT ![p] = "yes"],
         ~ r => ~ running[p] \/ signalled'[p] = "yes" \/ repetitions'[p] = 0
  PROVE  Handles(p)
<1>1. PICK how \in {signalled[p], "yes"} : signalled' = [signalled EXCEPT ![p] = how]
  BY DEF CTypeOK
<1>2. signalled'[p] = how
  BY <1>1 DEF CTypeOK
<1>3. \E b \in BOOLEAN, h \in {signalled[p], "yes"} :
        /\ running' = [running EXCEPT ![p] = b]
        /\ signalled' = [signalled EXCEPT ![p] = h]
        /\ ~ b => ~ running[p] \/ h = "yes" \/ repetitions'[p] = 0
  BY <1>1, <1>2
<1>. QED
  BY <1>3 DEF Handles

(* A message handled without a signal. *)
LEMMA HandlesQuietly ==
  ASSUME CTypeOK, NEW p \in Programs,
         pc[p] \in {"send", "sending", "receiving"},
         UNCHANGED <<wanted, running, signalled>>,
         repetitions' = [repetitions EXCEPT ![p] = Countdown(@)],
         IF p = Receiver THEN received' = received + 1 /\ sent' = sent
                         ELSE sent' = [sent EXCEPT ![p] = @ + 1] /\ received' = received,
         NEW on \in {"sleep", "loop"},
         pc' = [pc EXCEPT ![p] = IF repetitions'[p] = 0 THEN "ended" ELSE on]
  PROVE  Handles(p)
<1>1. PICK r \in BOOLEAN : r = running[p] /\ running' = [running EXCEPT ![p] = r]
  BY DEF CTypeOK
<1>2. PICK q \in {"ended", on} :
        q = (IF repetitions'[p] = 0 THEN "ended" ELSE on) /\ pc' = [pc EXCEPT ![p] = q]
  OBVIOUS
<1>. QED
  BY <1>1, <1>2, HandlesFrom DEF Places, Over

LEMMA SenderKinds ==
  ASSUME CTypeOK, NEW s \in Senders, SenderNext(s), received' = received
  PROVE  Moves(s) \/ Starts(s) \/ Handles(s)
<1>. USE NetAssumption DEF Programs, flags, svars, stream
<1>1. CASE SenderStart(s)
  <2>1. PICK line \in Lines[s] :
          Options(s, parse(line.s, 0, 65507, -1), parse(line.r, -1, INT_MAX, -2),
                  IF protocol = "TCP" THEN "connect" ELSE "loop")
    BY <1>1 DEF SenderStart
  <2>2. parse(line.r, -1, INT_MAX, -2) \in Int
    BY ParseValue
  <2>. QED
    BY <1>1, <2>1, <2>2, OptionsKind DEF SenderStart
<1>2. CASE Connect(s) \/ SenderLoop(s) \/ SendCall(s) \/ SendFails(s) \/ Sleep(s)
  BY <1>2
  DEF CTypeOK, Connect, SenderLoop, SendCall, SendFails, Sleep, Goto, Moves, counts, Places, Over
<1>3. ASSUME NEW place \in {"send", "sending"}, Sent(s, place), received' = received,
             UNCHANGED <<running, signalled>>
      PROVE  Handles(s)
  BY <1>3, HandlesQuietly DEF Sent, Goto
<1>4. CASE SendTo(s) \/ Send(s)
  BY <1>3, <1>4 DEF SendTo, Send
<1>5. CASE SendPart(s)
  <2>1. PICK q \in {"ended", "sleep"} :
          /\ q = (IF repetitions'[s] = 0 THEN "ended" ELSE "sleep")
          /\ pc' = [pc EXCEPT ![s] = q]
    BY <1>5 DEF SendPart, Sent, Goto
  <2>2. /\ signalled' = [signalled EXCEPT ![s] = "yes"] /\ signalled'[s] = "yes"
        /\ running' = [running EXCEPT ![s] = FALSE]
    BY <1>5 DEF SendPart, CTypeOK
  <2>. QED
    BY <1>5, <2>1, <2>2, HandlesFrom DEF SendPart, Sent, Goto, Places, Over
<1>6. CASE SendLate(s)
  <2>1. CASE Sent(s, "sending")
    BY <1>3, <1>6, <2>1 DEF SendLate
  <2>2. CASE Goto(s, "sending", "failed") /\ UNCHANGED <<protocol, wanted, repetitions, text, sent>>
    BY <1>6, <2>2 DEF CTypeOK, SendLate, Goto, Moves, counts, Places, Over
  <2>. QED
    BY <1>6, <2>1, <2>2 DEF SendLate
<1>. QED
  BY <1>1, <1>2, <1>4, <1>5, <1>6 DEF SenderNext, SenderRuns

LEMMA ReceiverKinds ==
  ASSUME CTypeOK, ReceiverNext
  PROVE  Moves(Receiver) \/ Starts(Receiver) \/ Handles(Receiver)
<1>. USE NetAssumption DEF Programs, flags, svars, rvars
<1>1. CASE ReceiverStart
  <2>1. PICK line \in Lines[Receiver] :
          Options(Receiver, parse(line.s, 1, 65507, -1), parse(line.r, -1, INT_MAX, -2), "loop")
    BY <1>1 DEF ReceiverStart
  <2>2. parse(line.r, -1, INT_MAX, -2) \in Int
    BY ParseValue
  <2>. QED
    BY <1>1, <2>1, <2>2, OptionsKind DEF ReceiverStart
<1>2. CASE RecvCall \/ UdpLoop \/ ReceiverFails \/ UdpRecvFails \/ Corrupted
  BY <1>2
  DEF CTypeOK, RecvCall, UdpLoop, ReceiverFails, UdpRecvFails, Corrupted, Goto, Moves, counts,
      Places, Over
<1>3. CASE AcceptLoop \/ AcceptCall \/ Accept \/ AcceptFails \/ ReceiveLoop \/ Disconnected \/ TcpRecvFails
  BY <1>3
  DEF CTypeOK, AcceptLoop, AcceptCall, Accept, AcceptFails, ReceiveLoop, Disconnected,
      TcpRecvFails, CloseClient, Goto, Moves, counts, Places, Over
<1>4. ASSUME NEW s \in Senders, NEW k \in DOMAIN inflight[s], UdpRecv(s, k)
      PROVE  Handles(Receiver)
  BY <1>4, HandlesQuietly DEF UdpRecv, Goto
<1>5. CASE TcpRecv
  <2>1. PICK r \in BOOLEAN :
          /\ r = (running[Receiver] /\ repetitions'[Receiver] # 0)
          /\ running' = [running EXCEPT ![Receiver] = r]
    BY <1>5 DEF TcpRecv
  <2>2. running'[Receiver] = r
    BY <2>1 DEF CTypeOK
  <2>3. PICK q \in {"loop", "inner"} :
          /\ q = (IF repetitions'[Receiver] = 0 THEN "loop" ELSE "inner")
          /\ pc' = [pc EXCEPT ![Receiver] = q]
    BY <1>5 DEF TcpRecv, CloseClient, Goto
  <2>. QED
    BY <1>5, <2>1, <2>2, <2>3, HandlesFrom DEF TcpRecv, Places, Over
<1>. QED
  BY <1>1, <1>2, <1>3, <1>4, <1>5 DEF ReceiverNext, ReceiverRuns, TcpRuns, UdpNext

LEMMA SignalKind ==
  ASSUME CTypeOK, NEW p \in Programs, Signal(p)
  PROVE  Heeds(p)
BY DEF CTypeOK, Signal, signal_handler, EINTR, Heeds, Window, Places, Over, svars, rvars

LEMMA CountedStep == Counted /\ [XNext]_xvars => Counted'
<1>. SUFFICES ASSUME Counted, [XNext]_xvars PROVE Counted'
  OBVIOUS
<1>1. CASE ReceiverNext
  BY <1>1, ReceiverKinds, KindsCount DEF Counted, Programs
<1>2. ASSUME NEW s \in Senders, SenderNext(s) /\ UNCHANGED <<rvars, client>> PROVE Counted'
  BY <1>2, SenderKinds, KindsCount DEF Counted, Programs, rvars
<1>3. ASSUME NEW p \in Programs, Signal(p) PROVE Counted'
  BY <1>3, SignalKind, KindsCount DEF Counted
<1>4. CASE UNCHANGED xvars
  BY <1>4
  DEF xvars, pvars, flags, svars, rvars, Counted, CTypeOK, Counts, Through, Handled, Asked, Over
<1>. QED
  BY <1>1, <1>2, <1>3, <1>4 DEF XNext

(* -r counts exactly, for any programs, command lines and network: over    *)
(* all clients of a receiver, after signals, short sends and failures.     *)
THEOREM Repetitions == XSpec => []RepetitionsExact
<1>1. XInit => Counted
  BY NetAssumption
  DEF XInit, PInit, SInit, UInit, Counted, CTypeOK, Counts, Through, Handled, Asked, Programs,
      Places, Over
<1>2. Counted => RepetitionsExact
  BY NetAssumption
  DEF Counted, CTypeOK, Counts, Through, RepetitionsExact, Handled, Asked, Programs
<1>. QED
  BY <1>1, <1>2, CountedStep, PTL DEF XSpec

-----------------------------------------------------------------------------
(* rx_buf.  Sizes are fixed before anything is received.                   *)

HTypeOK ==
  /\ text \in [Senders -> [len : Nat, newline : BOOLEAN]]
  /\ DOMAIN inflight = Senders
  /\ buffer_size \in Nat \ {0}

Overrun ==
  /\ \A s \in Senders : pc[s] = "start" => inflight[s] = << >>
  /\ heap = "overrun" =>
       /\ protocol = "UDP" /\ pc[Receiver] # "start"
       /\ \E s \in Senders : pc[s] # "start" /\ text[s].len >= buffer_size

HInv == HTypeOK /\ Overrun

LEMMA StaysStarted ==
  ASSUME Counted, [XNext]_xvars, NEW p \in Programs, pc[p] # "start"
  PROVE  pc'[p] # "start"
<1>1. ASSUME NEW q \in Programs, Moves(q) \/ Starts(q) \/ Handles(q) \/ Heeds(q)
      PROVE  pc'[p] # "start"
  BY <1>1 DEF Counted, CTypeOK, Moves, Starts, Handles, Heeds
<1>2. CASE ReceiverNext
  BY <1>1, <1>2, ReceiverKinds DEF Counted, Programs
<1>3. ASSUME NEW s \in Senders, SenderNext(s) /\ UNCHANGED <<rvars, client>>
      PROVE  pc'[p] # "start"
  BY <1>1, <1>3, SenderKinds DEF Counted, Programs, rvars
<1>4. ASSUME NEW q \in Programs, Signal(q) PROVE pc'[p] # "start"
  BY <1>1, <1>4, SignalKind DEF Counted
<1>5. CASE UNCHANGED xvars
  BY <1>5 DEF xvars, pvars
<1>. QED
  BY <1>2, <1>3, <1>4, <1>5 DEF XNext

(* Steps that leave the sizes, the buffer and the datagrams alone. *)
LEMMA SameBuffer ==
  ASSUME Counted, HInv, [XNext]_xvars, UNCHANGED <<protocol, text, inflight, buffer_size, heap>>
  PROVE  HInv'
<1>1. \A p \in Programs : pc[p] # "start" => pc'[p] # "start"
  BY StaysStarted
<1>. QED
  BY <1>1 DEF HInv, HTypeOK, Overrun, Programs

LEMMA SenderBuffer ==
  ASSUME Counted, HInv, [XNext]_xvars, NEW s \in Senders, SenderNext(s), UNCHANGED rvars
  PROVE  HInv'
<1>. USE NetAssumption, SenderAssumption DEF flags, svars, stream, rvars
<1>1. \A p \in Programs : pc[p] # "start" => pc'[p] # "start"
  BY StaysStarted
<1>2. CASE SenderStart(s)
  <2>1. /\ pc[s] = "start"
        /\ UNCHANGED <<protocol, inflight, buffer_size, heap>>
    BY <1>2 DEF SenderStart, Options, Goto
  <2>2. PICK line \in Lines[s] :
          text' = IF parse(line.s, 0, 65507, -1) < 0 THEN text
                  ELSE [text EXCEPT ![s] = Truncated(line.m, parse(line.s, 0, 65507, -1))]
    BY <1>2 DEF SenderStart
  <2>3. parse(line.s, 0, 65507, -1) >= 0 =>
          Truncated(line.m, parse(line.s, 0, 65507, -1)) \in [len : Nat, newline : BOOLEAN]
    BY ParseValue DEF Truncated
  <2>4. parse(line.s, 0, 65507, -1) \in Int
    BY ParseValue
  <2>5. /\ text' \in [Senders -> [len : Nat, newline : BOOLEAN]]
        /\ \A u \in Senders \ {s} : text'[u] = text[u]
    BY <2>2, <2>3, <2>4 DEF HInv, HTypeOK
  <2>. QED
    BY <1>1, <2>1, <2>5 DEF HInv, HTypeOK, Overrun, Programs
<1>3. CASE SendTo(s)
  <2>1. /\ pc[s] = "send"
        /\ UNCHANGED <<protocol, text, buffer_size, heap>>
        /\ \A u \in Senders \ {s} : inflight'[u] = inflight[u]
        /\ DOMAIN inflight' = Senders
    BY <1>3 DEF SendTo, Sent, Goto, HInv, HTypeOK
  <2>. QED
    BY <1>1, <2>1 DEF HInv, HTypeOK, Overrun, Programs
<1>4. CASE Connect(s) \/ SenderLoop(s) \/ SendCall(s) \/ Sleep(s) \/ SendFails(s)
  BY <1>4, SameBuffer DEF Connect, SenderLoop, SendCall, Sleep, SendFails
<1>5. CASE Send(s) \/ SendPart(s) \/ SendLate(s)
  BY <1>5, SameBuffer DEF Send, SendPart, SendLate, Sent
<1>. QED
  BY <1>2, <1>3, <1>4, <1>5 DEF SenderNext, SenderRuns

LEMMA ParseSize ==
  ASSUME NEW str, NEW lo \in Nat \ {0}, NEW hi \in Int
  PROVE  parse(str, lo, hi, -1) < 0 \/ parse(str, lo, hi, -1) \in Nat \ {0}
BY DEF parse

LEMMA BufferSize ==
  ASSUME buffer_size \in Nat \ {0}, ReceiverStart
  PROVE  buffer_size' \in Nat \ {0}
<1>1. PICK line \in Lines[Receiver] :
        buffer_size' = IF parse(line.s, 1, 65507, -1) < 0 THEN buffer_size
                       ELSE parse(line.s, 1, 65507, -1)
  BY DEF ReceiverStart
<1>2. parse(line.s, 1, 65507, -1) < 0 \/ parse(line.s, 1, 65507, -1) \in Nat \ {0}
  BY ParseSize
<1>. QED
  BY <1>1, <1>2

LEMMA ReceiverBuffer ==
  ASSUME Counted, HInv, [XNext]_xvars, ReceiverNext
  PROVE  HInv'
<1>. USE NetAssumption DEF flags, svars, stream, rvars
<1>1. \A p \in Programs : pc[p] # "start" => pc'[p] # "start"
  BY StaysStarted
<1>2. CASE ReceiverStart
  <2>1. /\ pc[Receiver] = "start"
        /\ UNCHANGED <<protocol, text, inflight, heap>>
    BY <1>2 DEF ReceiverStart, Options, Goto
  <2>2. buffer_size' \in Nat \ {0}
    BY <1>2, BufferSize DEF HInv, HTypeOK
  <2>. QED
    BY <1>1, <2>1, <2>2 DEF HInv, HTypeOK, Overrun, Programs
<1>3. CASE TcpRecv
  <2>1. heap' = heap
    BY <1>3 DEF TcpRecv, Terminate, RecvSize, HInv, HTypeOK
  <2>. QED
    BY <1>3, <2>1, SameBuffer DEF TcpRecv
<1>4. ASSUME NEW s \in Senders, NEW k \in DOMAIN inflight[s], UdpRecv(s, k)
      PROVE  HInv'
  <2>1. /\ pc[Receiver] = "receiving" /\ protocol = "UDP"
        /\ UNCHANGED <<protocol, text, buffer_size>>
        /\ heap' = IF text[s].len < buffer_size THEN heap ELSE "overrun"
        /\ \A u \in Senders \ {s} : inflight'[u] = inflight[u]
        /\ DOMAIN inflight' = Senders
    BY <1>4 DEF UdpRecv, Terminate, Goto, HInv, HTypeOK
  <2>2. pc[s] # "start"
    <3>1. inflight[s] # << >>
      BY <1>4
    <3>. QED
      BY <3>1 DEF HInv, Overrun
  <2>3. text[s].len \in Nat /\ buffer_size \in Nat
    BY DEF HInv, HTypeOK
  <2>. QED
    BY <1>1, <2>1, <2>2, <2>3 DEF HInv, HTypeOK, Overrun, Programs
<1>5. CASE RecvCall \/ UdpLoop \/ ReceiverFails \/ UdpRecvFails \/ Corrupted
  BY <1>5, SameBuffer DEF RecvCall, UdpLoop, ReceiverFails, UdpRecvFails, Corrupted
<1>6. CASE AcceptLoop \/ AcceptCall \/ Accept \/ AcceptFails
  BY <1>6, SameBuffer DEF AcceptLoop, AcceptCall, Accept, AcceptFails
<1>7. CASE ReceiveLoop \/ Disconnected \/ TcpRecvFails
  BY <1>7, SameBuffer DEF ReceiveLoop, Disconnected, TcpRecvFails
<1>. QED
  BY <1>2, <1>3, <1>4, <1>5, <1>6, <1>7 DEF ReceiverNext, ReceiverRuns, TcpRuns, UdpNext

LEMMA HInvStep == Counted /\ HInv /\ [XNext]_xvars => HInv'
<1>. SUFFICES ASSUME Counted, HInv, [XNext]_xvars PROVE HInv'
  OBVIOUS
<1>1. CASE ReceiverNext
  BY <1>1, ReceiverBuffer
<1>2. ASSUME NEW s \in Senders, SenderNext(s) /\ UNCHANGED <<rvars, client>> PROVE HInv'
  BY <1>2, SenderBuffer
<1>3. ASSUME NEW p \in Programs, Signal(p) PROVE HInv'
  BY <1>3, SameBuffer DEF Signal, signal_handler, svars, rvars
<1>4. CASE UNCHANGED xvars
  BY <1>4, SameBuffer DEF xvars, pvars, flags, svars, rvars
<1>. QED
  BY <1>1, <1>2, <1>3, <1>4 DEF XNext

(* The '\0' is only written behind rx_buf for a datagram as long as the    *)
(* buffer or longer: never by the TCP receiver, whatever the network does. *)
THEOREM OverrunByDatagram ==
  XSpec => [](heap = "overrun" =>
                protocol = "UDP" /\ \E s \in Senders : text[s].len >= buffer_size)
<1>1. XInit => Counted
  BY NetAssumption
  DEF XInit, PInit, SInit, UInit, Counted, CTypeOK, Counts, Through, Handled, Asked, Programs,
      Places, Over
<1>2. XInit => HInv
  BY DEF XInit, PInit, SInit, UInit, HInv, HTypeOK, Overrun
<1>3. HInv => (heap = "overrun" =>
                 protocol = "UDP" /\ \E s \in Senders : text[s].len >= buffer_size)
  BY DEF HInv, Overrun
<1>. QED
  BY <1>1, <1>2, <1>3, CountedStep, HInvStep, PTL DEF XSpec

-----------------------------------------------------------------------------
(* What the receiver has read of a stream, and what of it is in the log.   *)

(* The variables of the streams, the datagrams and the log. *)
NTypeOK ==
  /\ text \in [Senders -> [len : Nat, newline : BOOLEAN]]
  /\ inflight \in [Senders -> Seq(0 .. MaxCopies)]
  /\ conn \in [Senders -> {"none", "queued", "served", "done", "dropped"}]
  /\ backlog \in Seq(Senders)
  /\ written \in [Senders -> Nat] /\ taken \in [Senders -> Nat]
  /\ buffer_size \in Nat \ {0}
  /\ logged \in [Senders -> Seq(Nat)]

(* While the receiver is in the inner loop, client_fd is a connection that *)
(* it has not seen the end of.                                             *)
Inner == {"inner", "recv", "receiving"}

Serving ==
  protocol = "TCP" /\ pc[Receiver] \in Inner => client \in Senders /\ conn[client] # "done"

(* log has the bytes 1 .. t but for those in nl, in order and once; and    *)
(* perhaps some of nl.                                                     *)
Heard(log, t, nl) ==
  /\ \A i \in DOMAIN log : log[i] \in 1 .. t
  /\ \A i, j \in DOMAIN log : i < j => log[i] < log[j]
  /\ \A b \in 1 .. t : b \notin nl => \E i \in DOMAIN log : log[i] = b

Newlines(s) == {b \in Nat : Newline(s, b)}

(* A stream: what was read of it was written, and is in the log; a client  *)
(* the receiver saw disconnect will not write again.                       *)
Streamed(s) ==
  /\ taken[s] <= written[s]
  /\ pc[s] = "start" => written[s] = 0
  /\ protocol = "TCP" => Heard(logged[s], taken[s], Newlines(s))
  /\ conn[s] = "done" =>
       /\ protocol = "TCP" /\ pc[Receiver] # "start"
       /\ buffer_size > 1 => Finished(s) /\ taken[s] = written[s]

(* Datagrams: nothing is logged of a sender that has not started, and      *)
(* whole texts only while the heap is intact.                              *)
Datagrams(s) ==
  protocol = "UDP" =>
    /\ pc[s] = "start" => logged[s] = << >>
    /\ heap # "overrun" => Whole(s)

NetInv == NTypeOK /\ Serving /\ \A s \in Senders : Streamed(s) /\ Datagrams(s)

-----------------------------------------------------------------------------
(* n bytes of a stream, from lo on. *)
Bytes(lo, n) == [i \in 1 .. n |-> lo + i - 1]

(* A set of bytes with all that come before them is as long as its number. *)
LEMMA Prefix ==
  ASSUME NEW lo \in Nat, NEW hi \in Int, lo <= hi + 1,
         NEW kept \in SUBSET (lo .. hi), \A b \in kept : lo .. b \subseteq kept
  PROVE  /\ Cardinality(kept) \in 0 .. hi - lo + 1
         /\ kept = lo .. lo + Cardinality(kept) - 1
<1>. DEFINE n == Cardinality(kept)
<1>1. IsFiniteSet(lo .. hi) /\ Cardinality(lo .. hi) = hi - lo + 1
  BY FS_Interval
<1>2. IsFiniteSet(kept) /\ n <= hi - lo + 1
  BY <1>1, FS_Subset
<1>3. n \in Nat
  BY <1>2, FS_CardinalityType
<1>4. ASSUME NEW b \in kept PROVE b \in lo .. lo + n - 1
  <2>1. b \in lo .. hi /\ lo .. b \subseteq kept
    OBVIOUS
  <2>2. Cardinality(lo .. b) <= n
    BY <1>2, <2>1, FS_Subset
  <2>3. Cardinality(lo .. b) = b - lo + 1
    BY <2>1, FS_Interval
  <2>. QED
    BY <1>3, <2>1, <2>2, <2>3
<1>5. IsFiniteSet(lo .. lo + n - 1) /\ Cardinality(lo .. lo + n - 1) = n
  <2>1. lo + n - 1 \in Int
    BY <1>3
  <2>. QED
    BY <1>3, <2>1, FS_Interval
<1>6. kept = lo .. lo + n - 1
  BY <1>4, <1>5, FS_Subset
<1>. QED
  BY <1>2, <1>3, <1>6

(* LogBytes logs a prefix of the bytes it is given: all behind it are      *)
(* newlines, and it does not end in one.                                   *)
LEMMA LogBytesPrefix ==
  ASSUME NEW s, NEW lo \in Nat, NEW hi \in Int, lo <= hi + 1, LogBytes(s, lo, hi)
  PROVE  \E n \in 0 .. hi - lo + 1 :
           /\ \A c \in lo + n .. hi : Newline(s, c)
           /\ n > 0 => ~ Newline(s, lo + n - 1)
           /\ logged' = [logged EXCEPT ![s] = @ \o Bytes(lo, n)]
<1>. DEFINE nl == {c \in lo .. hi : Newline(s, c)}
            kept == {b \in lo .. hi : \E c \in b .. hi : c \notin nl}
<1>1. PICK n : n = Cardinality(kept)
  OBVIOUS
<1>2. n \in 0 .. hi - lo + 1 /\ kept = lo .. lo + n - 1
  <2>1. kept \subseteq lo .. hi /\ \A b \in kept : lo .. b \subseteq kept
    OBVIOUS
  <2>. HIDE DEF kept
  <2>. QED
    BY <1>1, <2>1, Prefix
<1>3. kept = {b \in lo .. hi : \E c \in b .. hi : ~ Newline(s, c)}
  OBVIOUS
<1>4. logged' = [logged EXCEPT ![s] = @ \o Bytes(lo, n)]
  BY <1>1, <1>3 DEF LogBytes, Bytes
<1>5. ASSUME NEW c \in lo + n .. hi PROVE Newline(s, c)
  <2>1. c \in lo .. hi /\ c \notin kept /\ c \in c .. hi
    BY <1>2
  <2>. QED
    BY <2>1
<1>6. ASSUME n > 0 PROVE ~ Newline(s, lo + n - 1)
  <2>1. lo + n - 1 \in kept
    BY <1>2, <1>6
  <2>2. PICK c \in lo + n - 1 .. hi : c \notin nl
    BY <2>1
  <2>3. c \in lo .. hi
    BY <1>2, <1>6
  <2>4. c \in kept
    BY <2>2, <2>3
  <2>5. c = lo + n - 1
    BY <1>2, <2>4
  <2>. QED
    BY <2>2, <2>3, <2>5
<1>. QED
  BY <1>2, <1>4, <1>5, <1>6

(* A log with n bytes from lo on behind it. *)
LEMMA LogAfter ==
  ASSUME NEW log \in Seq(Nat), NEW lo \in Nat, NEW n \in Nat, lo > 0
  PROVE  /\ log \o Bytes(lo, n) \in Seq(Nat)
         /\ Len(log \o Bytes(lo, n)) = Len(log) + n
         /\ DOMAIN (log \o Bytes(lo, n)) = 1 .. Len(log) + n
         /\ \A i \in 1 .. Len(log) : (log \o Bytes(lo, n))[i] = log[i]
         /\ \A i \in 1 .. n : (log \o Bytes(lo, n))[Len(log) + i] = lo + i - 1
<1>1. PICK chunk : chunk = Bytes(lo, n)
  OBVIOUS
<1>2. chunk \in Seq(Nat) /\ Len(chunk) = n /\ \A i \in 1 .. n : chunk[i] = lo + i - 1
  BY <1>1 DEF Bytes
<1>3. Len(log) \in Nat
  OBVIOUS
<1>4. /\ log \o chunk \in Seq(Nat) /\ Len(log \o chunk) = Len(log) + n
      /\ \A i \in 1 .. Len(log) + n :
           (log \o chunk)[i] = IF i <= Len(log) THEN log[i] ELSE chunk[i - Len(log)]
  BY <1>2, ConcatProperties
<1>5. ASSUME NEW i \in 1 .. n PROVE (log \o chunk)[Len(log) + i] = lo + i - 1
  <2>1. Len(log) + i \in 1 .. Len(log) + n /\ ~ Len(log) + i <= Len(log) /\ Len(log) + i - Len(log) = i
    BY <1>3
  <2>. QED
    BY <1>2, <1>4, <2>1
<1>6. \A i \in 1 .. Len(log) : (log \o chunk)[i] = log[i]
  BY <1>3, <1>4
<1>7. DOMAIN (log \o chunk) = 1 .. Len(log) + n
  BY <1>4
<1>. QED
  BY <1>1, <1>4, <1>5, <1>6, <1>7, Zenon

(* So a log that is new is log and n bytes from lo on. *)
Grown(log, lo, n, new) ==
  /\ Len(new) = Len(log) + n /\ DOMAIN new = 1 .. Len(log) + n
  /\ \A i \in 1 .. Len(log) : new[i] = log[i]
  /\ \A i \in 1 .. n : new[Len(log) + i] = lo + i - 1

LEMMA LogGrown ==
  ASSUME NEW log \in Seq(Nat), NEW lo \in Nat, NEW n \in Nat, lo > 0
  PROVE  Grown(log, lo, n, log \o Bytes(lo, n))
BY LogAfter DEF Grown

(* A part of the stream is logged: what was heard and the part. *)
LEMMA HeardMore ==
  ASSUME NEW log \in Seq(Nat), NEW t \in Nat, NEW nl, Heard(log, t, nl),
         NEW m \in Nat, NEW n \in 0 .. m, \A c \in t + n + 1 .. t + m : c \in nl,
         NEW new, new = log \o Bytes(t + 1, n)
  PROVE  Heard(new, t + m, nl)
<1>1. /\ DOMAIN new = 1 .. Len(log) + n
      /\ \A i \in 1 .. Len(log) : new[i] = log[i]
      /\ \A i \in 1 .. n : new[Len(log) + i] = t + i
  <2>1. t + 1 \in Nat /\ t + 1 > 0 /\ n \in Nat /\ \A i \in 1 .. n : (t + 1) + i - 1 = t + i
    OBVIOUS
  <2>2. /\ DOMAIN new = 1 .. Len(log) + n
        /\ \A i \in 1 .. Len(log) : new[i] = log[i]
        /\ \A i \in 1 .. n : new[Len(log) + i] = (t + 1) + i - 1
    <3>1. Grown(log, t + 1, n, new)
      BY <2>1, LogGrown
    <3>. QED
      BY <3>1 DEF Grown
  <2>. QED
    BY <2>1, <2>2
<1>2. Len(log) \in Nat /\ DOMAIN log = 1 .. Len(log)
  OBVIOUS
<1>3. \A i \in DOMAIN new : i \in 1 .. Len(log) \/ (i - Len(log) \in 1 .. n /\ new[i] = t + (i - Len(log)))
  <2>. SUFFICES ASSUME NEW i \in DOMAIN new, i \notin 1 .. Len(log)
                PROVE  i - Len(log) \in 1 .. n /\ new[i] = t + (i - Len(log))
    OBVIOUS
  <2>1. i - Len(log) \in 1 .. n /\ Len(log) + (i - Len(log)) = i
    BY <1>1, <1>2
  <2>. QED
    BY <1>1, <2>1
<1>4. ASSUME NEW i \in DOMAIN new PROVE new[i] \in 1 .. t + m
  <2>1. CASE i \in 1 .. Len(log)
    <3>1. log[i] \in 1 .. t
      BY <1>2, <2>1 DEF Heard
    <3>. QED
      BY <1>1, <2>1, <3>1
  <2>2. CASE i \notin 1 .. Len(log)
    <3>1. PICK d \in 1 .. n : new[i] = t + d
      BY <1>3, <2>2
    <3>. QED
      BY <3>1
  <2>. QED
    BY <2>1, <2>2
<1>5. ASSUME NEW i \in DOMAIN new, NEW j \in DOMAIN new, i < j PROVE new[i] < new[j]
  <2>1. CASE j \in 1 .. Len(log)
    BY <1>1, <1>2, <1>5, <2>1 DEF Heard
  <2>2. CASE j \notin 1 .. Len(log) /\ i \in 1 .. Len(log)
    <3>1. new[i] \in 1 .. t
      BY <1>1, <1>2, <2>2 DEF Heard
    <3>2. PICK d \in 1 .. n : new[j] = t + d
      BY <1>3, <2>2
    <3>3. PICK x \in 1 .. t : new[i] = x
      BY <3>1
    <3>4. x < t + d
      OBVIOUS
    <3>. QED
      BY <3>2, <3>3, <3>4
  <2>3. CASE j \notin 1 .. Len(log) /\ i \notin 1 .. Len(log)
    <3>1. i \in Int /\ j \in Int /\ n \in Int
      BY <1>1, <1>2
    <3>2. new[j] = t + (j - Len(log)) /\ new[i] = t + (i - Len(log))
      BY <1>3, <2>3
    <3>. QED
      BY <1>2, <1>5, <3>1, <3>2
  <2>. QED
    BY <2>1, <2>2, <2>3
<1>6. ASSUME NEW b \in 1 .. t + m, b \notin nl PROVE \E i \in DOMAIN new : new[i] = b
  <2>1. CASE b <= t
    <3>1. PICK i \in DOMAIN log : log[i] = b
      BY <1>6, <2>1 DEF Heard
    <3>2. i \in DOMAIN new /\ new[i] = b
      BY <1>1, <1>2, <3>1
    <3>. QED
      BY <3>2
  <2>2. CASE b > t
    <3>1. b - t \in 1 .. n
      BY <1>6, <2>2
    <3>2. PICK d \in 1 .. n : d = b - t /\ t + d = b
      BY <3>1
    <3>3. Len(log) + d \in DOMAIN new
      BY <1>1, <1>2
    <3>4. new[Len(log) + d] = b
      BY <1>1, <3>2
    <3>. QED
      BY <3>3, <3>4
  <2>3. b <= t \/ b > t
    OBVIOUS
  <2>. QED
    BY <2>1, <2>2, <2>3, Zenon
<1>. QED
  BY <1>4, <1>5, <1>6 DEF Heard

-----------------------------------------------------------------------------
(* Positions in a stream of texts of n bytes. *)

LEMMA DivMod ==
  ASSUME NEW a \in Int, NEW n \in Nat \ {0}
  PROVE  a \div n \in Int /\ a % n \in 0 .. n - 1 /\ a = n * (a \div n) + (a % n)
OBVIOUS

LEMMA SmallMultiple ==
  ASSUME NEW n \in Nat \ {0}, NEW k \in Int, -n < n * k, n * k < n
  PROVE  k = 0
<1>1. CASE k >= 1
  <2>1. n * k >= n
    BY <1>1
  <2>. QED
    BY <2>1
<1>2. CASE k <= -1
  <2>1. n * k <= -n
    BY <1>2
  <2>. QED
    BY <2>1
<1>. QED
  BY <1>1, <1>2

LEMMA Remainder ==
  ASSUME NEW n \in Nat \ {0}, NEW q \in Int, NEW r \in 0 .. n - 1, NEW a, a = n * q + r
  PROVE  a % n = r
<1>1. a \in Int
  OBVIOUS
<1>2. PICK d \in Int, e \in 0 .. n - 1 : e = a % n /\ a = n * d + e
  BY <1>1, DivMod
<1>3. n * (q - d) = e - r
  BY <1>2
<1>4. q - d = 0
  BY <1>2, <1>3, SmallMultiple
<1>. QED
  BY <1>2, <1>4

(* The bytes lo .. lo + n - 1 are a text: lo and the byte behind it are    *)
(* first bytes, and none but the last is a multiple of n.                  *)
TextAt(lo, n) ==
  /\ lo % n = 1 % n
  /\ (lo + n) % n = 1 % n
  /\ \A j \in 1 .. n - 1 : (lo + j - 1) % n # 0

LEMMA InText ==
  ASSUME NEW n \in Nat \ {0}, NEW k \in Nat \ {0}, NEW lo, lo = (k - 1) * n + 1,
         NEW j \in 1 .. n - 1
  PROVE  (lo + j - 1) % n # 0
<1>1. PICK q \in Int : q = k - 1
  OBVIOUS
<1>2. lo = n * q + 1
  BY <1>1
<1>3. lo + j - 1 = n * q + j /\ j \in 0 .. n - 1
  BY <1>2
<1>4. (lo + j - 1) % n = j
  BY <1>3, Remainder
<1>. QED
  BY <1>4

(* Where the k-th text is. *)
LEMMA TextPositions ==
  ASSUME NEW n \in Nat \ {0}, NEW k \in Nat \ {0}, NEW lo, lo = (k - 1) * n + 1
  PROVE  TextAt(lo, n)
<1>1. lo \in Nat \ {0} /\ lo = n * (k - 1) + 1 /\ lo + n = n * k + 1
  OBVIOUS
<1>2. lo % n = 1 % n /\ (lo + n) % n = 1 % n
  <2>1. CASE n = 1
    BY <1>1, <2>1
  <2>2. CASE n > 1
    <3>1. 1 \in 0 .. n - 1 /\ 0 \in Int /\ 1 = n * 0 + 1 /\ k - 1 \in Int /\ k \in Int
      BY <2>2
    <3>2. 1 % n = 1
      BY <3>1, Remainder
    <3>3. lo % n = 1
      <4>1. PICK q \in Int : q = k - 1
        BY <3>1
      <4>2. lo = n * q + 1
        BY <1>1, <4>1
      <4>. QED
        BY <3>1, <4>2, Remainder
    <3>4. (lo + n) % n = 1
      BY <1>1, <3>1, Remainder
    <3>. QED
      BY <3>2, <3>3, <3>4
  <2>. QED
    BY <2>1, <2>2
<1>3. ASSUME NEW j \in 1 .. n - 1 PROVE (lo + j - 1) % n # 0
  BY InText
<1>. QED
  BY <1>2, <1>3 DEF TextAt

(* Whole, of a log and a text. *)
Entire(log, x) ==
  \A i \in DOMAIN log :
    /\ ~ (x.newline /\ log[i] % x.len = 0)
    /\ log[i] % x.len = 1 % x.len \/ (i > 1 /\ log[i - 1] = log[i] - 1)
    /\ \/ (log[i] + 1) % x.len = 1 % x.len
       \/ x.newline /\ (log[i] + 1) % x.len = 0
       \/ i < Len(log) /\ log[i + 1] = log[i] + 1

(* A whole datagram is logged, but for its newline. *)
LEMMA EntireMore ==
  ASSUME NEW x \in [len : Nat, newline : BOOLEAN], NEW lo \in Nat \ {0},
         x.len > 0 => TextAt(lo, x.len), NEW n \in 0 .. x.len,
         \A c \in lo + n .. lo + x.len - 1 : x.newline /\ c % x.len = 0,
         n > 0 => ~ (x.newline /\ (lo + n - 1) % x.len = 0),
         NEW log \in Seq(Nat), Entire(log, x),
         NEW new, Grown(log, lo, n, new)
  PROVE  Entire(new, x)
<1>1. x.len \in Nat /\ lo \in Nat /\ lo > 0 /\ n \in Nat
  OBVIOUS
<1>2. /\ Len(new) = Len(log) + n /\ DOMAIN new = 1 .. Len(log) + n
      /\ \A i \in 1 .. Len(log) : new[i] = log[i]
      /\ \A i \in 1 .. n : new[Len(log) + i] = lo + i - 1
  BY DEF Grown
<1>3. Len(log) \in Nat /\ DOMAIN log = 1 .. Len(log)
  OBVIOUS
<1>4. ASSUME NEW i \in 1 .. Len(log)
      PROVE  /\ ~ (x.newline /\ new[i] % x.len = 0)
             /\ new[i] % x.len = 1 % x.len \/ (i > 1 /\ new[i - 1] = new[i] - 1)
             /\ \/ (new[i] + 1) % x.len = 1 % x.len
                \/ x.newline /\ (new[i] + 1) % x.len = 0
                \/ i < Len(new) /\ new[i + 1] = new[i] + 1
  <2>1. /\ ~ (x.newline /\ log[i] % x.len = 0)
        /\ log[i] % x.len = 1 % x.len \/ (i > 1 /\ log[i - 1] = log[i] - 1)
        /\ \/ (log[i] + 1) % x.len = 1 % x.len
           \/ x.newline /\ (log[i] + 1) % x.len = 0
           \/ i < Len(log) /\ log[i + 1] = log[i] + 1
    BY <1>3 DEF Entire
  <2>2. new[i] = log[i]
    BY <1>2
  <2>3. ASSUME i > 1 PROVE new[i - 1] = log[i - 1]
    <3>1. i - 1 \in 1 .. Len(log)
      BY <1>3, <2>3
    <3>. QED
      BY <1>2, <3>1
  <2>4. ASSUME i < Len(log) PROVE i < Len(new) /\ new[i + 1] = log[i + 1]
    <3>1. i + 1 \in 1 .. Len(log)
      BY <1>3, <2>4
    <3>2. i < Len(log) + n
      BY <1>1, <1>3, <2>4
    <3>. QED
      BY <1>2, <3>1, <3>2
  <2>. QED
    BY <2>1, <2>2, <2>3, <2>4
<1>5. ASSUME NEW j \in 1 .. n
      PROVE  LET i == Len(log) + j IN
             /\ ~ (x.newline /\ new[i] % x.len = 0)
             /\ new[i] % x.len = 1 % x.len \/ (i > 1 /\ new[i - 1] = new[i] - 1)
             /\ \/ (new[i] + 1) % x.len = 1 % x.len
                \/ x.newline /\ (new[i] + 1) % x.len = 0
                \/ i < Len(new) /\ new[i + 1] = new[i] + 1
  <2>. DEFINE i == Len(log) + j
  <2>1. x.len \in Nat \ {0} /\ n > 0
    BY <1>1
  <2>2. /\ lo % x.len = 1 % x.len
        /\ (lo + x.len) % x.len = 1 % x.len
        /\ \A m \in 1 .. x.len - 1 : (lo + m - 1) % x.len # 0
    BY <2>1 DEF TextAt
  <2>3. new[i] = lo + j - 1 /\ lo + j - 1 \in Nat
    <3>1. new[i] = lo + j - 1
      BY <1>2
    <3>2. lo + j - 1 \in Nat
      BY <1>1
    <3>. QED
      BY <3>1, <3>2
  <2>4. ~ (x.newline /\ new[i] % x.len = 0)
    <3>1. CASE j = n
      BY <2>1, <2>3, <3>1
    <3>2. CASE j # n
      <4>1. j \in 1 .. x.len - 1
        BY <1>1, <3>2
      <4>. QED
        BY <2>2, <2>3, <4>1
    <3>. QED
      BY <3>1, <3>2
  <2>5. new[i] % x.len = 1 % x.len \/ (i > 1 /\ new[i - 1] = new[i] - 1)
    <3>1. CASE j = 1
      <4>1. lo + j - 1 = lo
        BY <1>1, <3>1
      <4>. QED
        BY <2>2, <2>3, <4>1, Zenon
    <3>2. CASE j # 1
      <4>1. j - 1 \in 1 .. n /\ i - 1 = Len(log) + (j - 1)
        BY <1>3, <3>2
      <4>2. new[i - 1] = lo + (j - 1) - 1
        BY <1>2, <4>1
      <4>3. i > 1 /\ lo + (j - 1) - 1 = (lo + j - 1) - 1
        BY <1>1, <1>3, <3>2
      <4>. QED
        BY <2>3, <4>2, <4>3
    <3>. QED
      BY <3>1, <3>2
  <2>6. \/ (new[i] + 1) % x.len = 1 % x.len
        \/ x.newline /\ (new[i] + 1) % x.len = 0
        \/ i < Len(new) /\ new[i + 1] = new[i] + 1
    <3>1. CASE j = n /\ n = x.len
      <4>1. (lo + j - 1) + 1 = lo + x.len
        BY <1>1, <3>1
      <4>. QED
        BY <2>2, <2>3, <4>1
    <3>2. CASE j = n /\ n # x.len
      <4>1. (lo + j - 1) + 1 = lo + n
        BY <1>1, <3>2
      <4>2. lo + n \in lo + n .. lo + x.len - 1
        <5>1. PICK len \in Nat : len = x.len
          BY <1>1
        <5>2. n < len
          BY <1>1, <3>2, <5>1
        <5>3. \A l, m \in Nat : m < len => l + m \in l + m .. l + len - 1
          OBVIOUS
        <5>4. lo + n \in lo + n .. lo + len - 1
          BY <1>1, <5>2, <5>3, Zenon
        <5>. QED
          BY <5>1, <5>4, Zenon
      <4>. QED
        BY <2>3, <4>1, <4>2
    <3>3. CASE j # n
      <4>1. j + 1 \in 1 .. n /\ i + 1 = Len(log) + (j + 1) /\ i < Len(log) + n
        BY <1>1, <1>3, <3>3
      <4>2. new[i + 1] = lo + (j + 1) - 1
        BY <1>2, <4>1
      <4>3. lo + (j + 1) - 1 = (lo + j - 1) + 1
        BY <1>1
      <4>. QED
        BY <1>2, <2>3, <4>1, <4>2, <4>3
    <3>. QED
      BY <3>1, <3>2, <3>3
  <2>. QED
    BY <2>4, <2>5, <2>6
<1>6. \A i \in DOMAIN new : i \in 1 .. Len(log) \/ \E j \in 1 .. n : i = Len(log) + j
  <2>. SUFFICES ASSUME NEW i \in DOMAIN new, i \notin 1 .. Len(log)
                PROVE  \E j \in 1 .. n : i = Len(log) + j
    OBVIOUS
  <2>1. i - Len(log) \in 1 .. n /\ i = Len(log) + (i - Len(log))
    BY <1>1, <1>2, <1>3
  <2>. QED
    BY <2>1
<1>. SUFFICES ASSUME NEW i \in DOMAIN new
              PROVE  /\ ~ (x.newline /\ new[i] % x.len = 0)
                     /\ new[i] % x.len = 1 % x.len \/ (i > 1 /\ new[i - 1] = new[i] - 1)
                     /\ \/ (new[i] + 1) % x.len = 1 % x.len
                        \/ x.newline /\ (new[i] + 1) % x.len = 0
                        \/ i < Len(new) /\ new[i + 1] = new[i] + 1
  BY DEF Entire
<1>7. CASE i \in 1 .. Len(log)
  BY <1>4, <1>7, Zenon
<1>8. ASSUME NEW j \in 1 .. n, i = Len(log) + j
      PROVE  /\ ~ (x.newline /\ new[i] % x.len = 0)
             /\ new[i] % x.len = 1 % x.len \/ (i > 1 /\ new[i - 1] = new[i] - 1)
             /\ \/ (new[i] + 1) % x.len = 1 % x.len
                \/ x.newline /\ (new[i] + 1) % x.len = 0
                \/ i < Len(new) /\ new[i + 1] = new[i] + 1
  BY <1>5, <1>8, Zenon
<1>. QED
  BY <1>6, <1>7, <1>8, Zenon

-----------------------------------------------------------------------------
(* The variables of streams, datagrams and log keep their types. *)

LEMMA SenderTypes ==
  ASSUME NTypeOK, HTypeOK', NEW s \in Senders, SenderNext(s), UNCHANGED rvars
  PROVE  NTypeOK'
<1>. USE NetAssumption, SenderAssumption DEF flags, svars, stream, rvars
<1>1. CASE SenderStart(s)
  BY <1>1 DEF SenderStart, NTypeOK, HTypeOK
<1>2. CASE Connect(s)
  <2>1. Append(backlog, s) \in Seq(Senders)
    BY DEF NTypeOK
  <2>2. backlog' \in Seq(Senders)
    BY <1>2, <2>1 DEF Connect, NTypeOK
  <2>3. conn' \in [Senders -> {"none", "queued", "served", "done", "dropped"}]
    BY <1>2 DEF Connect, NTypeOK
  <2>. QED
    BY <1>2, <2>2, <2>3 DEF Connect, NTypeOK
<1>3. CASE SendTo(s)
  <2>1. PICK c \in 0 .. MaxCopies : inflight' = [inflight EXCEPT ![s] = Append(@, c)]
    <3>1. PICK c : c = (IF Listening THEN MaxCopies ELSE 0) /\ c \in 0 .. MaxCopies
      BY SenderAssumption
    <3>2. inflight' = [inflight EXCEPT ![s] = Append(@, c)]
      BY <1>3, <3>1 DEF SendTo
    <3>. QED
      BY <3>1, <3>2
  <2>2. Append(inflight[s], c) \in Seq(0 .. MaxCopies)
    BY DEF NTypeOK
  <2>. QED
    BY <1>3, <2>1, <2>2 DEF SendTo, Sent, NTypeOK
<1>4. CASE Send(s)
  BY <1>4 DEF Send, Sent, NTypeOK
<1>5. CASE SendPart(s)
  <2>1. PICK n \in 1 .. Room(s) : written' = [written EXCEPT ![s] = @ + n]
    BY <1>5 DEF SendPart
  <2>2. Room(s) \in Int
    BY DEF Room, NTypeOK
  <2>3. n \in Nat
    BY <2>2
  <2>. QED
    BY <1>5, <2>1, <2>3 DEF SendPart, Sent, NTypeOK
<1>6. CASE SenderLoop(s) \/ SendCall(s) \/ SendLate(s) \/ Sleep(s) \/ SendFails(s)
  BY <1>6 DEF SenderLoop, SendCall, SendLate, Sent, Sleep, SendFails, NTypeOK
<1>. QED
  BY <1>1, <1>2, <1>3, <1>4, <1>5, <1>6 DEF SenderNext, SenderRuns

LEMMA LoggedType ==
  ASSUME NTypeOK, NEW s \in Senders, NEW lo \in Nat \ {0}, NEW hi \in Int, lo <= hi + 1,
         LogBytes(s, lo, hi)
  PROVE  logged' \in [Senders -> Seq(Nat)]
<1>0. lo \in Nat
  OBVIOUS
<1>1. PICK n \in 0 .. hi - lo + 1 :
        /\ \A c \in lo + n .. hi : Newline(s, c)
        /\ n > 0 => ~ Newline(s, lo + n - 1)
        /\ logged' = [logged EXCEPT ![s] = @ \o Bytes(lo, n)]
  BY <1>0, LogBytesPrefix, Zenon
<1>2. logged[s] \in Seq(Nat) /\ n \in Nat /\ lo > 0
  BY DEF NTypeOK
<1>3. logged[s] \o Bytes(lo, n) \in Seq(Nat)
  BY <1>0, <1>2, LogAfter
<1>. QED
  BY <1>1, <1>3 DEF NTypeOK

(* The datagram that UdpRecv logs: its first byte, and how many of it. *)
LEMMA DatagramBytes ==
  ASSUME NTypeOK, NEW s \in Senders, NEW k \in DOMAIN inflight[s], UdpRecv(s, k)
  PROVE  \E lo \in Nat \ {0}, n \in Nat :
           /\ k \in Nat \ {0} /\ lo = (k - 1) * text[s].len + 1
           /\ n = IF text[s].len < buffer_size THEN text[s].len ELSE buffer_size - 1
           /\ LogBytes(s, lo, lo + n - 1)
<1>1. text[s].len \in Nat /\ buffer_size \in Nat \ {0} /\ k \in Nat \ {0}
  BY DEF NTypeOK
<1>2. (k - 1) * text[s].len \in Nat
  BY <1>1
<1>3. PICK lo \in Nat \ {0} : lo = (k - 1) * text[s].len + 1
  BY <1>2
<1>4. PICK n \in Nat : n = IF text[s].len < buffer_size THEN text[s].len ELSE buffer_size - 1
  BY <1>1
<1>5. LogBytes(s, lo, lo + n - 1)
  BY <1>3, <1>4 DEF UdpRecv
<1>. QED
  BY <1>1, <1>3, <1>4, <1>5

LEMMA ReceiverTypes ==
  ASSUME NTypeOK, HTypeOK', Serving, ReceiverNext
  PROVE  NTypeOK'
<1>. USE NetAssumption DEF flags, svars, stream, rvars
<1>1. CASE ReceiverStart
  BY <1>1 DEF ReceiverStart, NTypeOK, HTypeOK
<1>2. CASE AcceptLoop \/ AcceptFails
  <2>1. UNCHANGED <<text, inflight, written, taken, buffer_size, logged>>
    BY <1>2 DEF AcceptLoop, AcceptFails
  <2>2. conn' \in [Senders -> {"none", "queued", "served", "done", "dropped"}]
    BY <1>2 DEF AcceptLoop, AcceptFails, NTypeOK
  <2>3. backlog' = backlog \/ backlog' = << >>
    BY <1>2 DEF AcceptLoop, AcceptFails
  <2>4. backlog' \in Seq(Senders)
    <3>1. backlog \in Seq(Senders) /\ << >> \in Seq(Senders)
      BY DEF NTypeOK
    <3>. QED
      BY <2>3, <3>1, Zenon
  <2>. QED
    BY <2>1, <2>2, <2>4 DEF NTypeOK
<1>3. CASE Accept
  <2>1. Tail(backlog) \in Seq(Senders)
    BY <1>3 DEF Accept, NTypeOK
  <2>. QED
    BY <1>3, <2>1 DEF Accept, NTypeOK
<1>4. CASE ReceiveLoop \/ Disconnected \/ TcpRecvFails
  BY <1>4 DEF ReceiveLoop, Disconnected, TcpRecvFails, CloseClient, NTypeOK
<1>5. CASE TcpRecv
  <2>1. client \in Senders
    BY <1>5 DEF TcpRecv, Serving, Inner
  <2>2. PICK n \in 1 .. RecvSize :
          /\ LogBytes(client, taken[client] + 1, taken[client] + n)
          /\ taken' = [taken EXCEPT ![client] = @ + n]
    BY <1>5 DEF TcpRecv
  <2>3. n \in Nat /\ taken[client] \in Nat
    BY <2>1 DEF NTypeOK, RecvSize
  <2>4. logged' \in [Senders -> Seq(Nat)]
    <3>1. PICK lo \in Nat \ {0}, hi \in Int : lo = taken[client] + 1 /\ hi = taken[client] + n
      BY <2>3
    <3>2. lo <= hi + 1 /\ LogBytes(client, lo, hi)
      BY <2>2, <2>3, <3>1
    <3>. QED
      BY <2>1, <3>2, LoggedType
  <2>5. taken' \in [Senders -> Nat]
    BY <2>1, <2>2, <2>3 DEF NTypeOK
  <2>6. UNCHANGED <<text, inflight, backlog, written, buffer_size>>
    BY <1>5 DEF TcpRecv
  <2>7. conn' \in [Senders -> {"none", "queued", "served", "done", "dropped"}]
    BY <1>5 DEF TcpRecv, CloseClient, NTypeOK
  <2>. QED
    BY <2>4, <2>5, <2>6, <2>7 DEF NTypeOK
<1>6. ASSUME NEW s \in Senders, NEW k \in DOMAIN inflight[s], UdpRecv(s, k)
      PROVE  NTypeOK'
  <2>1. PICK lo \in Nat \ {0}, n \in Nat : LogBytes(s, lo, lo + n - 1)
    BY <1>6, DatagramBytes
  <2>2. logged' \in [Senders -> Seq(Nat)]
    BY <2>1, LoggedType
  <2>3. inflight' \in [Senders -> Seq(0 .. MaxCopies)]
    <3>0. inflight[s] \in Seq(0 .. MaxCopies)
      BY DEF NTypeOK
    <3>1. inflight[s][k] - 1 \in 0 .. MaxCopies
      <4>1. inflight[s][k] \in 0 .. MaxCopies
        <5>1. k \in 1 .. Len(inflight[s])
          BY <3>0
        <5>. QED
          BY <3>0, <5>1, ElementOfSeq
      <4>2. inflight[s][k] > 0
        BY <1>6 DEF UdpRecv
      <4>. QED
        BY <4>1, <4>2, SenderAssumption
    <3>2. [inflight[s] EXCEPT ![k] = @ - 1] \in Seq(0 .. MaxCopies)
      BY <3>1 DEF NTypeOK
    <3>. QED
      BY <1>6, <3>2 DEF UdpRecv, NTypeOK
  <2>. QED
    BY <1>6, <2>2, <2>3 DEF UdpRecv, NTypeOK
<1>7. CASE RecvCall \/ UdpLoop \/ ReceiverFails \/ UdpRecvFails \/ Corrupted \/ AcceptCall
  BY <1>7 DEF RecvCall, UdpLoop, ReceiverFails, UdpRecvFails, Corrupted, AcceptCall, NTypeOK
<1>. QED
  BY <1>1, <1>2, <1>3, <1>4, <1>5, <1>6, <1>7 DEF ReceiverNext, ReceiverRuns, TcpRuns, UdpNext

LEMMA TypesStep ==
  ASSUME Counted, HInv, NTypeOK, Serving, [XNext]_xvars
  PROVE  NTypeOK'
<1>1. HTypeOK'
  BY HInvStep DEF HInv
<1>2. CASE ReceiverNext
  BY <1>1, <1>2, ReceiverTypes
<1>3. ASSUME NEW s \in Senders, SenderNext(s) /\ UNCHANGED <<rvars, client>> PROVE NTypeOK'
  BY <1>1, <1>3, SenderTypes
<1>4. ASSUME NEW p \in Programs, Signal(p) PROVE NTypeOK'
  BY <1>4 DEF Signal, svars, stream, rvars, NTypeOK
<1>5. CASE UNCHANGED xvars
  BY <1>5 DEF xvars, svars, stream, rvars, NTypeOK
<1>. QED
  BY <1>2, <1>3, <1>4, <1>5 DEF XNext

-----------------------------------------------------------------------------
(* client_fd stays a connection while the receiver is in the inner loop. *)

LEMMA ServingKept ==
  ASSUME NTypeOK, Serving, UNCHANGED <<protocol, client>>,
         \A s \in Senders : conn'[s] = "done" => conn[s] = "done",
         pc'[Receiver] \in Inner => pc[Receiver] \in Inner
  PROVE  Serving'
BY DEF Serving

LEMMA SenderServing ==
  ASSUME Counted, NTypeOK, Serving, NEW s \in Senders, SenderNext(s), UNCHANGED <<rvars, client>>
  PROVE  Serving'
<1>. USE NetAssumption DEF flags, svars, stream
<1>1. UNCHANGED <<protocol, client>>
  BY DEF SenderNext, SenderRuns, SenderStart, Connect, SenderLoop, SendTo, SendCall, Send,
         SendPart, SendLate, SendFails, Sleep, Sent, Options, Goto
<1>2. pc'[Receiver] = pc[Receiver]
  <2>1. Moves(s) \/ Starts(s) \/ Handles(s)
    BY SenderKinds DEF Counted, rvars
  <2>. QED
    BY <2>1 DEF Counted, CTypeOK, Programs, Moves, Starts, Handles
<1>3. \A u \in Senders : conn'[u] = "done" => conn[u] = "done"
  <2>1. CASE Connect(s)
    BY <2>1 DEF Connect, NTypeOK
  <2>2. conn' = conn \/ Connect(s)
    BY DEF SenderNext, SenderRuns, SenderStart, SenderLoop, SendTo, SendCall, Send,
           SendPart, SendLate, SendFails, Sleep
  <2>. QED
    BY <2>1, <2>2
<1>. QED
  BY <1>1, <1>2, <1>3, ServingKept

LEMMA ReceiverServing ==
  ASSUME Counted, NTypeOK, Serving, ReceiverNext
  PROVE  Serving'
<1>. USE NetAssumption DEF flags, svars, stream, rvars, Goto, Inner
<1>0. pc \in [Programs -> Places] /\ Receiver \in Programs
  BY DEF Counted, CTypeOK, Programs
<1>1. CASE ReceiverStart /\ UNCHANGED client
  BY <1>0, <1>1, ServingKept DEF ReceiverStart, Options
<1>2. CASE (RecvCall \/ UdpLoop) /\ UNCHANGED client
  BY <1>0, <1>2, ServingKept DEF RecvCall, UdpLoop, Serving
<1>3. CASE (ReceiverFails \/ UdpRecvFails \/ Corrupted) /\ UNCHANGED client
  BY <1>0, <1>3, ServingKept DEF ReceiverFails, UdpRecvFails, Corrupted
<1>4. CASE AcceptLoop \/ AcceptCall \/ AcceptFails
  BY <1>0, <1>4 DEF AcceptLoop, AcceptCall, AcceptFails, Serving
<1>5. CASE Accept
  <2>1. Head(backlog) \in Senders
    BY <1>5 DEF Accept, NTypeOK
  <2>. QED
    BY <1>5, <2>1 DEF Accept, Serving, NTypeOK
<1>6. CASE ReceiveLoop
  BY <1>0, <1>6 DEF ReceiveLoop, CloseClient, Serving
<1>7. CASE TcpRecv
  BY <1>0, <1>7 DEF TcpRecv, CloseClient, Serving
<1>8. CASE Disconnected \/ TcpRecvFails
  BY <1>0, <1>8 DEF Disconnected, TcpRecvFails, CloseClient, Serving
<1>9. ASSUME NEW s \in Senders, NEW k \in DOMAIN inflight[s], UdpRecv(s, k)
      PROVE  Serving'
  BY <1>9 DEF UdpRecv, Serving
<1>. QED
  BY <1>1, <1>2, <1>3, <1>4, <1>5, <1>6, <1>7, <1>8, <1>9
  DEF ReceiverNext, ReceiverRuns, TcpRuns, UdpNext

LEMMA ServingStep ==
  ASSUME Counted, NTypeOK, Serving, [XNext]_xvars
  PROVE  Serving'
<1>1. CASE ReceiverNext
  BY <1>1, ReceiverServing
<1>2. ASSUME NEW s \in Senders, SenderNext(s) /\ UNCHANGED <<rvars, client>> PROVE Serving'
  BY <1>2, SenderServing
<1>3. ASSUME NEW p \in Programs, Signal(p) PROVE Serving'
  <2>1. pc \in [Programs -> Places]
    BY DEF Counted, CTypeOK
  <2>2. pc'[Receiver] \in Inner => pc[Receiver] \in Inner
    BY <1>3, <2>1 DEF Signal, signal_handler, EINTR, Inner, Programs
  <2>. QED
    BY <1>3, <2>2, ServingKept DEF Signal, signal_handler, svars, stream
<1>4. CASE UNCHANGED xvars
  BY <1>4 DEF xvars, pvars, flags, svars, stream, Serving
<1>. QED
  BY <1>1, <1>2, <1>3, <1>4 DEF XNext

-----------------------------------------------------------------------------
(* A step leaves what was read and logged of a sender alone, unless it is  *)
(* the step that reads or logs it, or one that sets its text up.           *)

LEMMA StaysOver ==
  ASSUME Counted, [XNext]_xvars, NEW p \in Programs, pc[p] \in Over
  PROVE  pc'[p] \in Over
<1>1. ASSUME NEW q \in Programs, Moves(q) \/ Starts(q) \/ Handles(q) \/ Heeds(q)
      PROVE  pc'[p] \in Over
  BY <1>1 DEF Counted, CTypeOK, Moves, Starts, Handles, Heeds, Over
<1>2. CASE ReceiverNext
  BY <1>1, <1>2, ReceiverKinds DEF Counted, Programs
<1>3. ASSUME NEW s \in Senders, SenderNext(s) /\ UNCHANGED <<rvars, client>>
      PROVE  pc'[p] \in Over
  BY <1>1, <1>3, SenderKinds DEF Counted, Programs, rvars
<1>4. ASSUME NEW q \in Programs, Signal(q) PROVE pc'[p] \in Over
  BY <1>1, <1>4, SignalKind DEF Counted
<1>5. CASE UNCHANGED xvars
  BY <1>5 DEF xvars, pvars
<1>. QED
  BY <1>2, <1>3, <1>4, <1>5 DEF XNext

(* The connection of s, and what was written to it. *)
SameStream(s) ==
  /\ taken'[s] = taken[s] /\ written'[s] = written[s]
  /\ conn'[s] = "done" => conn[s] = "done"

(* What was logged of s, and where the texts begin. *)
SameLog(s) == logged'[s] = logged[s] /\ text'[s] = text[s]

LEMMA SameStreamed ==
  ASSUME Counted, NetInv, [XNext]_xvars, NEW s \in Senders, SameStream(s), SameLog(s),
         UNCHANGED <<protocol, buffer_size>>
  PROVE  Streamed(s)'
<1>1. /\ pc[s] # "start" => pc'[s] # "start"
      /\ pc[Receiver] # "start" => pc'[Receiver] # "start"
      /\ pc[s] \in Over => pc'[s] \in Over
  BY StaysStarted, StaysOver DEF Programs
<1>2. Newlines(s)' = Newlines(s)
  BY DEF SameLog, Newlines, Newline
<1>3. Streamed(s)
  BY DEF NetInv
<1>4. (protocol = "TCP" => Heard(logged[s], taken[s], Newlines(s)))'
  <2>1. UNCHANGED <<protocol, logged[s], taken[s], Newlines(s)>>
    BY <1>2 DEF SameStream, SameLog
  <2>. QED
    BY <1>3, <2>1 DEF Streamed, Heard
<1>. QED
  BY <1>1, <1>3, <1>4 DEF Streamed, SameStream, Finished

LEMMA SameDatagrams ==
  ASSUME Counted, NetInv, [XNext]_xvars, NEW s \in Senders, SameLog(s),
         UNCHANGED protocol, heap' # "overrun" => heap # "overrun"
  PROVE  Datagrams(s)'
<1>1. pc[s] # "start" => pc'[s] # "start"
  BY StaysStarted DEF Programs
<1>2. Datagrams(s)
  BY DEF NetInv
<1>3. Whole(s) => Whole(s)'
  BY DEF SameLog, Whole, Newline, FirstByte
<1>. QED
  BY <1>1, <1>2, <1>3 DEF Datagrams, SameLog

(* The streams and datagrams of all senders. *)
Said == \A s \in Senders : Streamed(s) /\ Datagrams(s)

LEMMA SameSaid ==
  ASSUME Counted, NetInv, [XNext]_xvars,
         \A s \in Senders : SameStream(s) /\ SameLog(s),
         UNCHANGED <<protocol, buffer_size>>, heap' # "overrun" => heap # "overrun"
  PROVE  Said'
BY SameStreamed, SameDatagrams DEF Said

(* A sender: its text while it is set up, and what it writes. *)
LEMMA SenderSaid ==
  ASSUME Counted, NetInv, [XNext]_xvars, NEW s \in Senders, SenderNext(s), UNCHANGED rvars
  PROVE  Said'
<1>. USE NetAssumption DEF flags, svars, stream, rvars
<1>. DEFINE Rest == \A u \in Senders \ {s} : SameStream(u) /\ SameLog(u)
<1>0. NTypeOK /\ Streamed(s) /\ Datagrams(s)
  BY DEF NetInv
<1>1. ASSUME Rest, UNCHANGED <<protocol, buffer_size, heap>>, (Streamed(s) /\ Datagrams(s))'
      PROVE  Said'
  BY <1>1, SameStreamed, SameDatagrams DEF Said
<1>2. CASE SenderStart(s)
  <2>1. /\ pc[s] = "start"
        /\ UNCHANGED <<protocol, conn, backlog, written, taken, buffer_size, heap, logged>>
        /\ \A u \in Senders \ {s} : text'[u] = text[u]
    BY <1>0, <1>2 DEF SenderStart, Options, Goto, NTypeOK
  <2>2. Rest
    BY <2>1 DEF SameStream, SameLog
  <2>3. written[s] = 0 /\ taken[s] = 0
    BY <1>0, <2>1 DEF Streamed, NTypeOK
  <2>4. Streamed(s)'
    <3>1. protocol = "TCP" => Heard(logged[s], 0, Newlines(s))
      BY <1>0, <2>3 DEF Streamed
    <3>2. protocol = "TCP" => \A i \in DOMAIN logged[s] : FALSE
      BY <3>1 DEF Heard
    <3>3. (protocol = "TCP" => Heard(logged[s], taken[s], Newlines(s)))'
      BY <2>1, <2>3, <3>2 DEF Heard
    <3>4. pc[Receiver] # "start" => pc'[Receiver] # "start"
      BY StaysStarted DEF Programs
    <3>5. conn[s] = "done" => protocol = "TCP" /\ pc[Receiver] # "start" /\ ~ buffer_size > 1
      BY <1>0, <2>1 DEF Streamed, Finished, Over
    <3>. QED
      BY <2>1, <2>3, <3>3, <3>4, <3>5 DEF Streamed
  <2>5. Datagrams(s)'
    <3>1. protocol = "UDP" => logged[s] = << >>
      BY <1>0, <2>1 DEF Datagrams
    <3>. QED
      BY <2>1, <3>1 DEF Datagrams, Whole
  <2>. QED
    BY <1>1, <2>1, <2>2, <2>4, <2>5
<1>3. ASSUME UNCHANGED <<protocol, text, conn, taken, buffer_size, heap, logged>>,
             pc[s] = "sending", Connected(s),
             NEW n \in Nat, written' = [written EXCEPT ![s] = @ + n]
      PROVE  Said'
  <2>1. Rest
    BY <1>0, <1>3 DEF SameStream, SameLog, NTypeOK
  <2>2. Datagrams(s)'
    BY <1>3, SameDatagrams DEF SameLog
  <2>3. written'[s] = written[s] + n /\ taken'[s] = taken[s] /\ taken[s] <= written[s]
    BY <1>0, <1>3 DEF NTypeOK, Streamed
  <2>4. pc'[s] # "start"
    BY <1>3, StaysStarted DEF Programs
  <2>5. conn'[s] # "done"
    BY <1>3 DEF Connected
  <2>6. (protocol = "TCP" => Heard(logged[s], taken[s], Newlines(s)))'
    <3>1. UNCHANGED <<protocol, logged[s], taken[s], Newlines(s)>>
      BY <1>3 DEF Newlines, Newline
    <3>. QED
      BY <1>0, <3>1 DEF Streamed, Heard
  <2>7. Streamed(s)'
    BY <1>0, <2>3, <2>4, <2>5, <2>6 DEF Streamed, NTypeOK
  <2>. QED
    BY <1>1, <1>3, <2>1, <2>2, <2>7
<1>4. CASE Send(s)
  <2>1. text[s].len \in Nat
    BY <1>0 DEF NTypeOK
  <2>2. /\ UNCHANGED <<protocol, text, conn, taken, buffer_size, heap, logged>>
        /\ pc[s] = "sending" /\ Connected(s)
        /\ written' = [written EXCEPT ![s] = @ + text[s].len]
    BY <1>4 DEF Send, Sent, Goto
  <2>. QED
    BY <1>3, <2>1, <2>2
<1>5. CASE SendPart(s)
  <2>1. PICK n \in 1 .. Room(s) : written' = [written EXCEPT ![s] = @ + n]
    BY <1>5 DEF SendPart
  <2>2. Room(s) \in Int
    BY <1>0, SenderAssumption DEF Room, NTypeOK
  <2>3. n \in Nat
    BY <2>2
  <2>4. /\ UNCHANGED <<protocol, text, conn, taken, buffer_size, heap, logged>>
        /\ pc[s] = "sending" /\ Connected(s)
    BY <1>5 DEF SendPart, Sent, Goto
  <2>. QED
    BY <1>3, <2>1, <2>3, <2>4
<1>6. CASE Connect(s)
  <2>1. \A u \in Senders : SameStream(u) /\ SameLog(u)
    BY <1>0, <1>6 DEF Connect, SameStream, SameLog, NTypeOK
  <2>2. UNCHANGED <<protocol, buffer_size, heap>>
    BY <1>6 DEF Connect
  <2>. QED
    BY <2>1, <2>2, SameSaid
<1>7. CASE SenderLoop(s) \/ SendTo(s) \/ SendCall(s) \/ SendLate(s) \/ Sleep(s) \/ SendFails(s)
  <2>1. UNCHANGED <<protocol, text, conn, written, taken, buffer_size, heap, logged>>
    BY <1>7 DEF SenderLoop, SendTo, SendCall, SendLate, Sent, Sleep, SendFails
  <2>. QED
    BY <2>1, SameSaid DEF SameStream, SameLog
<1>. QED
  BY <1>2, <1>4, <1>5, <1>6, <1>7 DEF SenderNext, SenderRuns

(* A part of a stream is read. *)
LEMMA TcpRecvSaid ==
  ASSUME Counted, NetInv, [XNext]_xvars, TcpRecv
  PROVE  Said'
<1>. USE NetAssumption
<1>0. PICK s \in Senders : s = client /\ conn[s] # "done" /\ Streamed(s)
  BY DEF NetInv, TcpRecv, Serving, Inner
<1>1. UNCHANGED <<protocol, text, written, buffer_size>> /\ NTypeOK /\ protocol = "TCP"
  BY DEF NetInv, TcpRecv
<1>2. PICK n \in 1 .. RecvSize :
        /\ n <= Available
        /\ LogBytes(client, taken[client] + 1, taken[client] + n)
        /\ taken' = [taken EXCEPT ![client] = @ + n]
  BY DEF TcpRecv
<1>3. PICK t \in Nat : t = taken[s]
  BY <1>1 DEF NTypeOK
<1>4. n \in Nat /\ taken'[s] = t + n /\ t + n <= written[s]
  BY <1>0, <1>1, <1>2, <1>3 DEF NTypeOK, RecvSize, Available
<1>5. PICK m \in 0 .. n :
        /\ \A c \in t + m + 1 .. t + n : Newline(s, c)
        /\ logged' = [logged EXCEPT ![s] = @ \o Bytes(t + 1, m)]
  <2>1. PICK lo \in Nat, hi \in Int : lo = t + 1 /\ hi = t + n
    BY <1>4
  <2>2. lo <= hi + 1 /\ LogBytes(s, lo, hi) /\ hi - lo + 1 = n
    BY <1>0, <1>2, <1>3, <1>4, <2>1
  <2>3. PICK m \in 0 .. n :
          /\ \A c \in lo + m .. hi : Newline(s, c)
          /\ m > 0 => ~ Newline(s, lo + m - 1)
          /\ logged' = [logged EXCEPT ![s] = @ \o Bytes(lo, m)]
    BY <2>2, LogBytesPrefix
  <2>4. lo + m = t + m + 1
    BY <1>4, <2>1
  <2>. QED
    BY <2>1, <2>3, <2>4
<1>6. \A u \in Senders \ {s} : SameStream(u) /\ SameLog(u)
  BY <1>0, <1>1, <1>2, <1>5 DEF TcpRecv, CloseClient, SameStream, SameLog, NTypeOK
<1>7. conn'[s] # "done"
  BY <1>0, <1>1 DEF TcpRecv, CloseClient, NTypeOK
<1>8. PICK new : new = logged[s] \o Bytes(t + 1, m) /\ new = logged'[s]
  BY <1>1, <1>5 DEF NTypeOK
<1>9. Heard(new, t + n, Newlines(s))
  <2>1. Heard(logged[s], t, Newlines(s)) /\ logged[s] \in Seq(Nat)
    BY <1>0, <1>1, <1>3 DEF Streamed, NTypeOK
  <2>2. \A c \in t + m + 1 .. t + n : c \in Newlines(s)
    BY <1>5 DEF Newlines
  <2>. QED
    BY <1>4, <1>8, <2>1, <2>2, HeardMore
<1>10. (protocol = "TCP" => Heard(logged[s], taken[s], Newlines(s)))'
  <2>1. Newlines(s)' = Newlines(s)
    BY <1>1 DEF Newlines, Newline
  <2>. QED
    BY <1>4, <1>8, <1>9, <2>1 DEF Heard
<1>11. pc'[s] = "start" => written'[s] = 0
  <2>1. pc[s] # "start" => pc'[s] # "start"
    BY StaysStarted DEF Programs
  <2>. QED
    BY <1>0, <1>1, <2>1 DEF Streamed
<1>12. Streamed(s)'
  BY <1>1, <1>4, <1>7, <1>10, <1>11 DEF Streamed
<1>13. \A u \in Senders \ {s} : Streamed(u)'
  BY <1>1, <1>6, SameStreamed
<1>14. \A u \in Senders : Datagrams(u)'
  BY <1>1 DEF Datagrams
<1>. QED
  BY <1>12, <1>13, <1>14 DEF Said

LEMMA WholeIsEntire ==
  ASSUME NEW s \in Senders
  PROVE  Whole(s) <=> Entire(logged[s], text[s])
BY DEF Whole, Entire, Newline, FirstByte

(* A datagram is received. *)
LEMMA UdpRecvSaid ==
  ASSUME Counted, HInv, NetInv, [XNext]_xvars,
         NEW s \in Senders, NEW k \in DOMAIN inflight[s], UdpRecv(s, k)
  PROVE  Said'
<1>. USE NetAssumption
<1>0. NTypeOK /\ protocol = "UDP" /\ Streamed(s) /\ Datagrams(s)
  BY DEF NetInv, UdpRecv
<1>1. /\ UNCHANGED <<protocol, text, buffer_size>>
      /\ heap' = IF text[s].len < buffer_size THEN heap ELSE "overrun"
      /\ UNCHANGED <<conn, written, taken>>
  BY DEF UdpRecv, Terminate, stream
<1>2. PICK lo \in Nat \ {0}, n \in Nat :
        /\ k \in Nat \ {0} /\ lo = (k - 1) * text[s].len + 1
        /\ n = IF text[s].len < buffer_size THEN text[s].len ELSE buffer_size - 1
        /\ LogBytes(s, lo, lo + n - 1)
  BY <1>0, DatagramBytes
<1>3. PICK m \in 0 .. n :
        /\ \A c \in lo + m .. lo + n - 1 : Newline(s, c)
        /\ m > 0 => ~ Newline(s, lo + m - 1)
        /\ logged' = [logged EXCEPT ![s] = @ \o Bytes(lo, m)]
  <2>1. PICK hi \in Int : hi = lo + n - 1
    OBVIOUS
  <2>2. lo \in Nat /\ lo <= hi + 1 /\ LogBytes(s, lo, hi) /\ hi - lo + 1 = n
    BY <1>2, <2>1
  <2>3. PICK m \in 0 .. n :
          /\ \A c \in lo + m .. hi : Newline(s, c)
          /\ m > 0 => ~ Newline(s, lo + m - 1)
          /\ logged' = [logged EXCEPT ![s] = @ \o Bytes(lo, m)]
    BY <2>2, LogBytesPrefix
  <2>. QED
    BY <2>1, <2>3
<1>4. \A u \in Senders \ {s} : SameStream(u) /\ SameLog(u)
  BY <1>0, <1>1, <1>3 DEF SameStream, SameLog, NTypeOK
<1>5. heap' # "overrun" => heap # "overrun" /\ n = text[s].len
  BY <1>1, <1>2
<1>6. pc[s] # "start"
  <2>1. inflight[s] # << >>
    OBVIOUS
  <2>. QED
    BY <2>1 DEF HInv, Overrun
<1>7. /\ pc'[s] # "start"
      /\ pc[Receiver] # "start" => pc'[Receiver] # "start"
      /\ pc[s] \in Over => pc'[s] \in Over
  BY <1>6, StaysStarted, StaysOver DEF Programs
<1>8. Streamed(s)'
  BY <1>0, <1>1, <1>7 DEF Streamed, Finished
<1>9. ASSUME heap' # "overrun" PROVE Whole(s)'
  <2>1. PICK x \in [len : Nat, newline : BOOLEAN] : x = text[s] /\ x = text'[s]
    BY <1>0, <1>1 DEF NTypeOK
  <2>2. PICK log \in Seq(Nat) : log = logged[s]
    BY <1>0 DEF NTypeOK
  <2>3. PICK new : new = logged'[s] /\ new = log \o Bytes(lo, m)
    <3>1. logged'[s] = log \o Bytes(lo, m)
      BY <1>0, <1>3, <2>2 DEF NTypeOK
    <3>. QED
      BY <3>1
  <2>4. n = x.len /\ m \in Nat /\ m \in 0 .. x.len
    BY <1>5, <1>9, <2>1
  <2>5. Entire(log, x)
    BY <1>0, <1>5, <1>6, <1>9, <2>1, <2>2, WholeIsEntire DEF Datagrams
  <2>6. x.len > 0 => TextAt(lo, x.len)
    <3>1. SUFFICES ASSUME x.len > 0 PROVE TextAt(lo, x.len)
      OBVIOUS
    <3>2. PICK len \in Nat \ {0} : len = x.len
      BY <3>1
    <3>3. lo = (k - 1) * len + 1
      BY <1>2, <2>1, <3>2
    <3>4. TextAt(lo, len)
      BY <1>2, <3>3, TextPositions
    <3>. QED
      BY <3>2, <3>4
  <2>7. \A c \in lo + m .. lo + x.len - 1 : x.newline /\ c % x.len = 0
    BY <1>3, <2>1, <2>4 DEF Newline
  <2>8. m > 0 => ~ (x.newline /\ (lo + m - 1) % x.len = 0)
    BY <1>3, <2>1 DEF Newline
  <2>9. Grown(log, lo, m, new)
    <3>1. lo \in Nat /\ lo > 0
      OBVIOUS
    <3>2. Grown(log, lo, m, log \o Bytes(lo, m))
      BY <2>4, <3>1, LogGrown
    <3>. QED
      BY <2>3, <3>2
  <2>10. Entire(new, x)
    BY <2>4, <2>5, <2>6, <2>7, <2>8, <2>9, EntireMore
  <2>. QED
    BY <2>1, <2>2, <2>3, <2>10 DEF Whole, Entire, Newline, FirstByte
<1>10. Datagrams(s)'
  BY <1>7, <1>9 DEF Datagrams
<1>11. \A u \in Senders \ {s} : Streamed(u)' /\ Datagrams(u)'
  BY <1>1, <1>4, <1>5, SameStreamed, SameDatagrams
<1>. QED
  BY <1>8, <1>10, <1>11 DEF Said

(* The client disconnects; the receiver has all that it wrote. *)
LEMMA DisconnectedSaid ==
  ASSUME Counted, NetInv, [XNext]_xvars, Disconnected
  PROVE  Said'
<1>. USE NetAssumption DEF rvars, flags
<1>0. PICK s \in Senders : s = client /\ conn[s] # "done" /\ Streamed(s)
  BY DEF NetInv, Disconnected, Serving, Inner
<1>1. /\ UNCHANGED <<protocol, text, written, taken, buffer_size, heap, logged>>
      /\ NTypeOK /\ protocol = "TCP" /\ pc[Receiver] = "receiving"
  BY DEF NetInv, Disconnected
<1>2. \A u \in Senders : SameLog(u) /\ (u # s => SameStream(u))
  BY <1>0, <1>1 DEF Disconnected, CloseClient, SameStream, SameLog, NTypeOK
<1>3. \A u \in Senders : Datagrams(u)'
  BY <1>1 DEF Datagrams
<1>4. \A u \in Senders \ {s} : Streamed(u)'
  BY <1>1, <1>2, SameStreamed
<1>5. buffer_size > 1 => Finished(s) /\ taken[s] = written[s]
  BY <1>0, <1>1 DEF Disconnected, RecvSize, Available, NTypeOK
<1>6. /\ pc'[Receiver] # "start"
      /\ pc[s] # "start" => pc'[s] # "start"
      /\ pc[s] \in Over => pc'[s] \in Over
  BY <1>1, StaysStarted, StaysOver DEF Programs
<1>7. (protocol = "TCP" => Heard(logged[s], taken[s], Newlines(s)))'
  <2>1. UNCHANGED <<protocol, logged[s], taken[s], Newlines(s)>>
    BY <1>1 DEF Newlines, Newline
  <2>. QED
    BY <1>0, <2>1 DEF Streamed, Heard
<1>8. Streamed(s)'
  BY <1>0, <1>1, <1>5, <1>6, <1>7 DEF Streamed, Finished
<1>. QED
  BY <1>3, <1>4, <1>8 DEF Said

LEMMA ReceiverSaid ==
  ASSUME Counted, HInv, NetInv, [XNext]_xvars, ReceiverNext
  PROVE  Said'
<1>. USE NetAssumption DEF flags, svars, stream, rvars
<1>0. NTypeOK
  BY DEF NetInv
<1>1. CASE ReceiverStart
  <2>1. UNCHANGED <<protocol, text, conn, written, taken, heap, logged>> /\ pc[Receiver] = "start"
    BY <1>1 DEF ReceiverStart, Options, Goto
  <2>2. \A s \in Senders : SameStream(s) /\ SameLog(s)
    BY <2>1 DEF SameStream, SameLog
  <2>3. ASSUME NEW s \in Senders PROVE Streamed(s)'
    <3>1. Streamed(s) /\ conn[s] # "done"
      BY <2>1 DEF NetInv, Streamed
    <3>2. pc[s] # "start" => pc'[s] # "start"
      BY StaysStarted DEF Programs
    <3>3. (protocol = "TCP" => Heard(logged[s], taken[s], Newlines(s)))'
      <4>1. UNCHANGED <<protocol, logged[s], taken[s], Newlines(s)>>
        BY <2>1 DEF Newlines, Newline
      <4>. QED
        BY <3>1, <4>1 DEF Streamed, Heard
    <3>. QED
      BY <2>1, <3>1, <3>2, <3>3 DEF Streamed
  <2>. QED
    BY <2>1, <2>2, <2>3, SameDatagrams DEF Said
<1>2. CASE AcceptLoop \/ AcceptFails
  <2>1. UNCHANGED <<protocol, text, written, taken, buffer_size, heap, logged>>
    BY <1>2 DEF AcceptLoop, AcceptFails
  <2>2. \A s \in Senders : conn'[s] = "done" => conn[s] = "done"
    BY <1>0, <1>2 DEF AcceptLoop, AcceptFails, NTypeOK
  <2>. QED
    BY <2>1, <2>2, SameSaid DEF SameStream, SameLog
<1>3. CASE Accept
  <2>1. UNCHANGED <<protocol, text, written, taken, buffer_size, heap, logged>>
    BY <1>3 DEF Accept
  <2>2. \A s \in Senders : conn'[s] = "done" => conn[s] = "done"
    BY <1>0, <1>3 DEF Accept, NTypeOK
  <2>. QED
    BY <2>1, <2>2, SameSaid DEF SameStream, SameLog
<1>4. CASE ReceiveLoop \/ TcpRecvFails
  <2>1. UNCHANGED <<protocol, text, written, taken, buffer_size, heap, logged>>
    BY <1>4 DEF ReceiveLoop, TcpRecvFails
  <2>2. \A s \in Senders : conn'[s] = "done" => conn[s] = "done"
    BY <1>0, <1>4 DEF ReceiveLoop, TcpRecvFails, CloseClient, NTypeOK
  <2>. QED
    BY <2>1, <2>2, SameSaid DEF SameStream, SameLog
<1>5. CASE RecvCall \/ UdpLoop \/ ReceiverFails \/ UdpRecvFails \/ Corrupted \/ AcceptCall
  <2>1. UNCHANGED <<protocol, text, conn, written, taken, buffer_size, heap, logged>>
    BY <1>5 DEF RecvCall, UdpLoop, ReceiverFails, UdpRecvFails, Corrupted, AcceptCall
  <2>. QED
    BY <2>1, SameSaid DEF SameStream, SameLog
<1>. QED
  BY <1>1, <1>2, <1>3, <1>4, <1>5, TcpRecvSaid, UdpRecvSaid, DisconnectedSaid
  DEF ReceiverNext, ReceiverRuns, TcpRuns, UdpNext

LEMMA NetStep == Counted /\ HInv /\ NetInv /\ [XNext]_xvars => NetInv'
<1>. SUFFICES ASSUME Counted, HInv, NetInv, [XNext]_xvars PROVE NetInv'
  OBVIOUS
<1>1. NTypeOK' /\ Serving'
  BY TypesStep, ServingStep DEF NetInv
<1>2. CASE ReceiverNext
  BY <1>1, <1>2, ReceiverSaid DEF Said, NetInv
<1>3. ASSUME NEW s \in Senders, SenderNext(s) /\ UNCHANGED <<rvars, client>> PROVE NetInv'
  BY <1>1, <1>3, SenderSaid DEF Said, NetInv
<1>4. ASSUME NEW p \in Programs, Signal(p) PROVE NetInv'
  <2>1. UNCHANGED <<protocol, text, conn, written, taken, buffer_size, heap, logged>>
    BY <1>4 DEF Signal, signal_handler, svars, stream, rvars
  <2>. QED
    BY <1>1, <2>1, SameSaid DEF SameStream, SameLog, Said, NetInv
<1>5. CASE UNCHANGED xvars
  <2>1. UNCHANGED <<protocol, text, conn, written, taken, buffer_size, heap, logged>>
    BY <1>5 DEF xvars, pvars, flags, svars, stream, rvars
  <2>. QED
    BY <1>1, <2>1, SameSaid DEF SameStream, SameLog, Said, NetInv
<1>. QED
  BY <1>2, <1>3, <1>4, <1>5 DEF XNext

LEMMA NetInvariance == XSpec => [](Counted /\ HInv /\ NetInv)
<1>1. XInit => Counted
  BY NetAssumption
  DEF XInit, PInit, SInit, UInit, Counted, CTypeOK, Counts, Through, Handled, Asked, Programs,
      Places, Over
<1>2. XInit => HInv
  BY DEF XInit, PInit, SInit, UInit, HInv, HTypeOK, Overrun
<1>3. XInit => NetInv
  <2>. SUFFICES ASSUME XInit PROVE NetInv
    OBVIOUS
  <2>1. NTypeOK
    BY DEF XInit, SInit, UInit, NTypeOK
  <2>2. Serving
    BY NetAssumption DEF XInit, PInit, Serving, Inner, Programs
  <2>3. ASSUME NEW s \in Senders PROVE Streamed(s) /\ Datagrams(s)
    BY <2>3 DEF XInit, PInit, SInit, UInit, Streamed, Datagrams, Heard, Whole
  <2>. QED
    BY <2>1, <2>2, <2>3 DEF NetInv
<1>. QED
  BY <1>1, <1>2, <1>3, CountedStep, HInvStep, NetStep, PTL DEF XSpec

(* What has few values. *)
LTypeOK ==
  /\ protocol \in {"UDP", "TCP"}
  /\ heap \in {"intact", "overrun"}
  /\ client \in Senders \cup {NoClient}

LEMMA LTypesStep == NTypeOK /\ LTypeOK /\ [XNext]_xvars => LTypeOK'
<1>. SUFFICES ASSUME NTypeOK, LTypeOK, [XNext]_xvars PROVE LTypeOK'
  OBVIOUS
<1>. USE DEF LTypeOK, pvars, flags, svars, stream, rvars
<1>1. CASE Accept
  <2>1. Head(backlog) \in Senders
    BY <1>1 DEF Accept, NTypeOK
  <2>. QED
    BY <1>1, <2>1 DEF Accept
<1>2. CASE AcceptLoop \/ AcceptCall \/ AcceptFails \/ ReceiveLoop \/ Disconnected \/ TcpRecvFails
  BY <1>2
  DEF AcceptLoop, AcceptCall, AcceptFails, ReceiveLoop, Disconnected, TcpRecvFails, CloseClient
<1>3. CASE TcpRecv
  BY <1>3 DEF TcpRecv, CloseClient, Terminate
<1>4. CASE (ReceiverStart \/ RecvCall \/ UdpLoop \/ ReceiverFails \/ UdpRecvFails \/ Corrupted)
           /\ UNCHANGED client
  BY <1>4 DEF ReceiverStart, RecvCall, UdpLoop, ReceiverFails, UdpRecvFails, Corrupted
<1>5. ASSUME NEW s \in Senders, NEW k \in DOMAIN inflight[s], UdpRecv(s, k), UNCHANGED client
      PROVE  LTypeOK'
  BY <1>5 DEF UdpRecv, Terminate
<1>6. ASSUME NEW s \in Senders, SenderNext(s) /\ UNCHANGED <<rvars, client>> PROVE LTypeOK'
  BY <1>6
  DEF SenderNext, SenderRuns, SenderStart, Connect, SenderLoop, SendTo, SendCall, Send,
      SendPart, SendLate, SendFails, Sleep, Sent
<1>7. ASSUME NEW p \in Programs, Signal(p) PROVE LTypeOK'
  BY <1>7 DEF Signal, signal_handler
<1>8. CASE UNCHANGED xvars
  BY <1>8 DEF xvars
<1>. QED
  BY <1>1, <1>2, <1>3, <1>4, <1>5, <1>6, <1>7, <1>8
  DEF XNext, ReceiverNext, ReceiverRuns, TcpRuns, UdpNext

(* Every variable of the programs and of the network is what it may be. *)
THEOREM ExchangeTypeCorrect == XSpec => []XTypeOK
<1>1. XInit => LTypeOK
  BY DEF XInit, PInit, UInit, TInit, LTypeOK
<1>2. Counted /\ NetInv /\ LTypeOK => XTypeOK
  BY DEF Counted, CTypeOK, NetInv, NTypeOK, LTypeOK, XTypeOK
<1>3. NetInv => NTypeOK
  BY DEF NetInv
<1>. QED
  BY <1>1, <1>2, <1>3, NetInvariance, LTypesStep, PTL DEF XSpec

(* When the receiver says that a client disconnected, it has logged all    *)
(* that the client wrote but newlines, in order and once, and the client   *)
(* writes no more: whoever connects, however the stream is cut and when-   *)
(* ever the signals come.                                                  *)
THEOREM ClientsAreHeard == XSpec => []DisconnectedHeard
<1>1. NetInv => DisconnectedHeard
  <2>. SUFFICES ASSUME NetInv, NEW s \in Senders, conn[s] = "done" /\ buffer_size > 1
                PROVE  /\ Finished(s) /\ taken[s] = written[s]
                       /\ \A b \in 1 .. written[s] :
                            ~ Newline(s, b) => \E i \in DOMAIN logged[s] : logged[s][i] = b
                       /\ \A i, j \in DOMAIN logged[s] : i < j => logged[s][i] < logged[s][j]
    BY DEF DisconnectedHeard
  <2>1. Finished(s) /\ taken[s] = written[s] /\ Heard(logged[s], taken[s], Newlines(s))
    BY DEF NetInv, Streamed
  <2>. QED
    BY <2>1 DEF Heard, Newlines
<1>. QED
  BY <1>1, NetInvariance, PTL

(* Datagrams are logged whole and nothing else is, in whatever order and   *)
(* number the network delivers them, until one is too long for rx_buf.     *)
THEOREM DatagramsAreWhole == XSpec => []DatagramsWhole
<1>1. NetInv => DatagramsWhole
  BY DEF NetInv, Datagrams, DatagramsWhole
<1>. QED
  BY <1>1, NetInvariance, PTL

===============================================================================
