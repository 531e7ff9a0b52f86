------------------------------ MODULE NetProgram ------------------------------
(***************************************************************************)
(* What udp_tcp_sender, udp_receiver and tcp_receiver (Exercise2) have in  *)
(* common, word for word: options, repetitions, and a flag that a signal   *)
(* handler clears and that is looked at between blocking calls.            *)
(***************************************************************************)
EXTENDS Integers, Sequences

CONSTANTS
  Senders,   (* runs of udp_tcp_sender                                     *)
  Receiver,  (* the run of udp_receiver or of tcp_receiver                 *)
  Lines,     (* Lines[p]: command lines of p, what follows -s, -r and -m;  *)
             (* what follows -s or -r need not be a number                 *)
  INT_MAX,
  Faults     (* programs whose system calls may fail                       *)

ASSUME NetAssumption ==
  /\ Receiver \notin Senders
  /\ INT_MAX \in Nat \ {0}
  /\ Faults \subseteq Senders \cup {Receiver}

VARIABLES
  protocol,     (* "UDP" or "TCP": the receiver, and -T of the senders     *)
  pc,           (* where each program is                                   *)
  running,      (* its flag                                                *)
  wanted,       (* its -r: messages to handle, -1 for any number           *)
  repetitions,  (* its variable, which starts as wanted and counts down    *)
  signalled     (* if it got SIGINT or SIGTERM: "no", "yes", or "missed"   *)

flags == <<protocol, running, wanted, repetitions, signalled>>
pvars == <<pc, flags>>

Programs == Senders \cup {Receiver}

(* Places a program does not leave: it is through; or its options or a     *)
(* call of its own failed, or a signal killed it.                          *)
Over == {"ended", "failed"}

PInit ==
  /\ protocol \in {"UDP", "TCP"}
  /\ pc = [p \in Programs |-> "start"]
  /\ running = [p \in Programs |-> TRUE]
  /\ wanted = [p \in Programs |-> -1]
  /\ repetitions = [p \in Programs |-> -1]
  /\ signalled = [p \in Programs |-> "no"]

Goto(p, from, to) ==
  /\ pc[p] = from
  /\ pc' = [pc EXCEPT ![p] = to]

(* parse_port, parse_size, parse_repetitions and parse_period: err, unless *)
(* strtol reads all of str, and reads a number in the range.               *)
parse(str, lo, hi, err) == IF str \in lo .. hi THEN str ELSE err

(* The options, and then the first place of the program; CHECK refuses     *)
(* what is negative, but for a repetitions of -1.                          *)
Options(p, size, reps, first) ==
  IF size < 0 \/ (reps # -1 /\ reps < 0)
  THEN Goto(p, "start", "failed") /\ UNCHANGED <<wanted, repetitions>>
  ELSE /\ Goto(p, "start", first)
       /\ wanted' = [wanted EXCEPT ![p] = reps]
       /\ repetitions' = [repetitions EXCEPT ![p] = reps]

(* Faulty variant: one message too many. *)
CountdownLate(n) == IF n >= 0 THEN n - 1 ELSE n

(* if (repetitions > 0) repetitions--; *)
Countdown(n) == IF n > 0 THEN n - 1 ELSE n

(* The window: running was tested, and the call has not begun. *)
Window == {"send", "accept", "recv"}

(* Faulty variant: interrupted calls are restarted. *)
EINTRRestarts(place) == IF place \in {"start", "connect"} THEN "failed" ELSE place

(* A signal while the program is at place: the call it waits in returns    *)
(* EINTR.  Until sigaction the signal kills, and in the window there is    *)
(* nothing to interrupt.                                                   *)
EINTR(place) ==
  CASE place \in {"start", "connect"} -> "failed"
    [] place \in {"sending", "sleep", "accepting"} -> "loop"
    [] place = "receiving" -> IF protocol = "TCP" THEN "inner" ELSE "loop"
    [] OTHER -> place

signal_handler(p) ==
  /\ pc[p] \notin Over
  /\ running' = [running EXCEPT ![p] = FALSE]
  /\ signalled' = [signalled EXCEPT ![p] =
                     IF @ = "yes" \/ pc[p] \notin Window THEN "yes" ELSE "missed"]
  /\ pc' = [pc EXCEPT ![p] = EINTR(@)]
  /\ UNCHANGED <<protocol, wanted, repetitions>>

===============================================================================
