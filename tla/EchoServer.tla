------------------------------ MODULE EchoServer ------------------------------
(***************************************************************************)
(* Exercise2/server_wfh.d: a thread that accepts, one that receives for    *)
(* every TCP connection, and one that echoes datagrams.                    *)
(*                                                                         *)
(* What a peer sends on a connection is known byte by byte, by its place:  *)
(* "text" of ASCII, "end" ('\0'), the "lead" and the "tail" of a character *)
(* of two bytes, or "connect", which stands for a whole command "Connect   *)
(* to: #.#.#.#:#".  One of the two ports is modelled.  How answers are     *)
(* worded and padded (sendFmt) is left out, and so is the announcer, which *)
(* has no state.                                                           *)
(***************************************************************************)
EXTENDS Integers, FiniteSets, Sequences, Functions

CONSTANTS
  Clients,     (* connect to the server                                    *)
  Listeners,   (* the server may be told to connect to                     *)
  bufferSize,
  PrefixSize,  (* bytes of "You said", with which echoes begin: 8          *)
  symmetric,   (* answer datagrams on the port they are received on        *)
  MaxBytes,    (* bound: bytes sent on all connections                     *)
  MaxDatagrams (* bound: datagrams sent to the server                      *)

ASSUME EchoAssumption ==
  /\ Clients \cap Listeners = {}
  /\ bufferSize \in Nat \ {0} /\ PrefixSize \in Nat
  /\ symmetric \in BOOLEAN
  /\ MaxBytes \in Nat /\ MaxDatagrams \in Nat

Sockets == Clients \cup Listeners

VARIABLES
  accepter, (* "up", or "dead" of an uncaught exception                    *)
  thread,   (* thread[s]: "none"; "backlog" before it is accepted; then    *)
            (* "receiving", "dead" of what it does not catch, or "closed"  *)
  peer,     (* peer[s]: "there", has "left", or has "reset" the connection *)
  spoken,   (* what the peer has sent                                      *)
  taken,    (* how much of it was received                                 *)
  buf,      (* buf: places in spoken, 0 for '\0', -1 for char.init         *)
  answers,  (* what was said back: places in spoken                        *)
  echoer,   (* the UDP echoer: "up" or "dead"                              *)
  spoke,    (* datagrams sent by others so far                             *)
  udp       (* datagrams on the way to the server, and those it answered   *)
            (* to a program of its own machine on its own port             *)

tcp   == <<accepter, thread, peer, spoken, taken, buf, answers>>
evars == <<tcp, echoer, spoke, udp>>

EInit ==
  /\ accepter = "up" /\ echoer = "up"
  /\ thread = [s \in Sockets |-> "none"]
  /\ peer = [s \in Sockets |-> "there"]
  /\ spoken = [s \in Sockets |-> << >>]
  /\ taken = [s \in Sockets |-> 0]
  /\ buf = [s \in Sockets |-> [i \in 1 .. bufferSize |-> -1]]
  /\ answers = [s \in Sockets |-> << >>]
  /\ spoke = 0
  /\ udp = << >>

-----------------------------------------------------------------------------
(* The peers. *)

Connect(c) ==
  /\ c \in Clients /\ thread[c] = "none"
  /\ thread' = [thread EXCEPT ![c] = "backlog"]
  /\ UNCHANGED <<accepter, peer, spoken, taken, buf, answers, echoer, spoke, udp>>

Bytes == {"text", "end", "lead", "tail", "connect"}

Say(s) ==
  /\ thread[s] # "none" /\ peer[s] = "there"
  /\ FoldFunction(LAMBDA said, n : Len(said) + n, 0, spoken) < MaxBytes
  /\ \E byte \in Bytes : spoken' = [spoken EXCEPT ![s] = Append(@, byte)]
  /\ UNCHANGED <<accepter, thread, peer, taken, buf, answers, echoer, spoke, udp>>

(* A peer closes its end; or the connection is reset, because the peer     *)
(* dies, or was answered after it had left.                                *)
Leave(s) ==
  /\ thread[s] # "none"
  /\ \/ peer[s] = "there" /\ peer' = [peer EXCEPT ![s] = "left"]
     \/ peer' = [peer EXCEPT ![s] = "reset"]
  /\ UNCHANGED <<accepter, thread, spoken, taken, buf, answers, echoer, spoke, udp>>

(* A datagram, from this machine ("self") or another, that is empty, or    *)
(* begins with "You said", or not; "broken" begins or ends with a part of  *)
(* a character, as a longer one may when it is cut to bufferSize bytes.    *)
Datagram ==
  /\ spoke < MaxDatagrams
  /\ spoke' = spoke + 1
  /\ \E from \in {"self", "other"}, text \in {"", "You said", "word", "broken"} :
       udp' = Append(udp, [from |-> from, text |-> text])
  /\ UNCHANGED <<tcp, echoer>>

-----------------------------------------------------------------------------
(* remoteAddress throws for a connection that is reset, and takes the      *)
(* accepter with it.                                                       *)
TCPAccepter(c) ==
  /\ accepter = "up" /\ thread[c] = "backlog"
  /\ IF peer[c] = "reset"
     THEN accepter' = "dead" /\ UNCHANGED thread
     ELSE thread' = [thread EXCEPT ![c] = "receiving"] /\ UNCHANGED accepter
  /\ UNCHANGED <<peer, spoken, taken, buf, answers, echoer, spoke, udp>>

(* What receive leaves in buf when it returns n bytes. *)
Received(s, n) ==
  [i \in 1 .. bufferSize |->
     IF i > n THEN buf[s][i]
     ELSE IF spoken[s][taken[s] + i] = "end" THEN 0 ELSE taken[s] + i]

(* Faulty variant: the rest of the last message stays. *)
BlankKept(b) == b

(* buf[] = '\0' *)
Blank(b) == [i \in 1 .. bufferSize |-> 0]

(* countUntil decodes buf as far as the first '\0'; it finds none, or      *)
(* throws an exception at a byte that is no part of a whole character.     *)
Byte(s, b, k) == IF b[k] = 0 THEN "end" ELSE spoken[s][b[k]]

Decodes(s, b) ==
  \E z \in DOMAIN b :
    /\ b[z] = 0
    /\ \A k \in 1 .. z - 1 : b[k] > 0
    /\ Byte(s, b, 1) # "tail"
    /\ \A k \in 1 .. z - 1 : Byte(s, b, k) = "lead" <=> Byte(s, b, k + 1) = "tail"

First(b) == CHOOSE z \in DOMAIN b : b[z] = 0 /\ \A k \in 1 .. z - 1 : b[k] # 0

(* Faulty variant: the '\0' is taken along. *)
TextWhole(s, b) == SubSeq(b, 1, First(b))

(* buf[0 .. n], n = buf.countUntil('\0'): as many bytes as there are       *)
(* characters before the '\0'.                                             *)
Text(s, b) ==
  LET n == Cardinality({k \in 1 .. First(b) - 1 : Byte(s, b, k) # "tail"}) IN
  SubSeq(b, 1, n)

Command(s, b) == Byte(s, b, 1) = "connect"

(* At the end of such a slice there may be half a character, at which      *)
(* matchFirst may throw an exception.                                      *)
Halved(s, b) ==
  LET n == Len(Text(s, b)) IN n > 0 /\ Byte(s, b, n) = "lead"

(* "Connect to": a receiver for the new connection; or it cannot be made,  *)
(* or the address is not understood.                                       *)
ConnectTo ==
  \/ UNCHANGED thread
  \/ \E l \in Listeners :
       thread[l] = "none" /\ thread' = [thread EXCEPT ![l] = "receiving"]

(* receive returns some of what was sent.  An exception, or without a '\0' *)
(* in buf the RangeError of buf[0 .. -1], is caught by nobody: the thread  *)
(* is gone, and the socket stays open.                                     *)
TCPReceive(s) ==
  /\ thread[s] = "receiving" /\ peer[s] # "reset"
  /\ \E n \in 1 .. bufferSize :
       /\ n <= Len(spoken[s]) - taken[s]
       /\ taken' = [taken EXCEPT ![s] = @ + n]
       /\ LET b == Received(s, n) IN
          \/ /\ Decodes(s, b) => Command(s, b) /\ Halved(s, b)
             /\ thread' = [thread EXCEPT ![s] = "dead"]
             /\ buf' = [buf EXCEPT ![s] = b]
             /\ UNCHANGED answers
          \/ /\ Decodes(s, b)
             /\ buf' = [buf EXCEPT ![s] = Blank(b)]
             /\ IF Command(s, b)
                THEN ConnectTo /\ UNCHANGED answers
                ELSE /\ answers' = [answers EXCEPT ![s] = Append(@, Text(s, b))]
                     /\ UNCHANGED thread
  /\ UNCHANGED <<accepter, peer, spoken, echoer, spoke, udp>>

(* receive returns 0.  When the connection is reset it fails, or returns   *)
(* the last that had come; either way remoteAddress throws next.           *)
TCPClose(s) ==
  /\ thread[s] = "receiving"
  /\ \/ /\ peer[s] = "left" /\ taken[s] = Len(spoken[s])
        /\ thread' = [thread EXCEPT ![s] = "closed"]
     \/ /\ peer[s] = "reset"
        /\ thread' = [thread EXCEPT ![s] = "dead"]
  /\ UNCHANGED <<accepter, peer, spoken, taken, buf, answers, echoer, spoke, udp>>

(* Faulty variant: answers are answered. *)
EchoesAll(d) == d.text # ""

(* r > 0, and in symmetric mode not an answer: its prefix is looked for in *)
(* the bytes that there was room for.                                      *)
Echoes(d) ==
  /\ d.text # ""
  /\ symmetric /\ PrefixSize <= bufferSize => d.text # "You said"

(* The answer goes to the sender's address: only on this machine, and to   *)
(* the port the server receives on, does it come back.  strip throws at a  *)
(* broken character.                                                       *)
UDPEchoer ==
  /\ echoer = "up" /\ udp # << >>
  /\ LET d == Head(udp)
         dies == Echoes(d) /\ d.text = "broken" IN
     /\ echoer' = IF dies THEN "dead" ELSE "up"
     /\ udp' = IF Echoes(d) /\ ~ dies /\ symmetric /\ d.from = "self"
               THEN Append(Tail(udp), [from |-> "self", text |-> "You said"])
               ELSE Tail(udp)
  /\ UNCHANGED <<tcp, spoke>>

Serve(s) == TCPAccepter(s) \/ TCPReceive(s) \/ TCPClose(s)

ENext ==
  \/ \E s \in Sockets : Connect(s) \/ Say(s) \/ Leave(s) \/ Serve(s)
  \/ Datagram \/ UDPEchoer

ESpec == EInit /\ [][ENext]_evars

(* The server's threads are scheduled; nobody has to connect or to send.   *)
EFairSpec == ESpec /\ WF_evars(UDPEchoer) /\ \A s \in Sockets : WF_evars(Serve(s))

-----------------------------------------------------------------------------
Said(s, b) == \E i \in DOMAIN answers[s] : \E k \in DOMAIN answers[s][i] : answers[s][i][k] = b

(* What is said back was said by this peer, in one piece, in this order,   *)
(* and is said back once: nothing of an earlier message is left in buf,    *)
(* however the stream is cut.  A byte of text is only not said back when   *)
(* it came together with, and behind, the '\0' of an earlier message, a    *)
(* command, or a character that is not ASCII (countUntil counts characters *)
(* and the slice is one of bytes).                                         *)
EchoIsSpoken ==
  \A s \in Sockets :
    /\ \A i \in DOMAIN answers[s] : \A k \in 1 .. Len(answers[s][i]) - 1 :
         answers[s][i][k + 1] = answers[s][i][k] + 1
    /\ \A i, j \in DOMAIN answers[s] : i < j =>
         \A k \in DOMAIN answers[s][i], m \in DOMAIN answers[s][j] :
           answers[s][i][k] < answers[s][j][m]
    /\ \A i \in DOMAIN answers[s] : \A k \in DOMAIN answers[s][i] :
         LET b == answers[s][i][k] IN b \in 1 .. taken[s] /\ spoken[s][b] # "end"
    /\ thread[s] # "dead" =>
         \A b \in 1 .. taken[s] :
           \/ Said(s, b)
           \/ \E e \in 1 .. b : b - e < bufferSize /\ spoken[s][e] # "text"

(* A receiver only dies of a reset, or when of the last bufferSize bytes   *)
(* that it received none is a '\0' or one is not ASCII: never of what an   *)
(* earlier message left in buf, nor of how ASCII messages are cut.         *)
Latest(s) == {b \in 1 .. taken[s] : taken[s] - b < bufferSize}

DiesOnlyOverlong ==
  \A s \in Sockets :
    thread[s] = "dead" =>
      \/ peer[s] = "reset"
      \/ \A b \in Latest(s) : spoken[s][b] # "end"
      \/ \E b \in Latest(s) : spoken[s][b] \in {"lead", "tail"}

(* Every peer that leaves is noticed, unless its receiver has died, or the *)
(* accepter before there was one; and the server does not go on echoing to *)
(* itself, if its buffer has room for the prefix of its answers.           *)
EchoingEnds ==
  /\ []<>(\A s \in Sockets : peer[s] # "there" =>
            \/ thread[s] \in {"dead", "closed"}
            \/ thread[s] = "backlog" /\ accepter = "dead")
  /\ PrefixSize <= bufferSize => <>[](udp = << >> \/ echoer = "dead")

===============================================================================
