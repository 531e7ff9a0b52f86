------------------------------ MODULE StdinTask ------------------------------
(***************************************************************************)
(* rtsystem/src/tasks/stdin_task.c: how the stdin task cuts its input into *)
(* the lines that it logs.  RtSystem has its life as a thread.             *)
(*                                                                         *)
(* Bytes are known by their place in the input; all that matters of one is *)
(* whether it is a newline.                                                *)
(***************************************************************************)
EXTENDS Integers, Sequences, FiniteSetsExt

CONSTANTS
  BufSize,    (* line_buf_size                                             *)
  FlushSize,  (* sizeof(flush_buf)                                         *)
  MessageRoom,(* bytes of a line that message[256] of log_message_t has    *)
              (* room for: 239, behind "input received: "                  *)
  MaxBytes    (* bound: bytes of input                                     *)

ASSUME StdinAssumption ==
  /\ BufSize \in Nat \ {0}
  /\ FlushSize \in Nat \ {0}
  /\ MessageRoom \in Nat \ {0}
  /\ MaxBytes \in Nat

VARIABLES
  source,     (* stdin is a "terminal", or a "pipe" or file                *)
  input,      (* for each byte, whether it is a newline                    *)
  closed,     (* the pipe has no writer left, the file is at its end       *)
  g_running,
  tpc,        (* "loop", "flush" or "done"                                 *)
  taken,      (* bytes read                                                *)
  line,       (* the bytes in line: from, to                               *)
  logged      (* the lines logged so far: from, to, and the last byte of   *)
              (* the piece of input that each is the beginning of          *)

world == <<source, input, closed, g_running>>
svars == <<world, tpc, taken, line, logged>>

SInit ==
  /\ source \in {"terminal", "pipe"}
  /\ input = << >>
  /\ closed = FALSE
  /\ g_running = TRUE
  /\ tpc = "loop" /\ taken = 0
  /\ line = [from |-> 1, to |-> 0]
  /\ logged = << >>

NewlineIn(from, to) == \E b \in from .. to : input[b]
Ends == {b \in taken + 1 .. Len(input) : input[b]}

(* What read(STDIN_FILENO, _, size) may return; while there is nothing, it *)
(* waits.  A terminal gives a line when it is complete, and no more than   *)
(* that line; a pipe gives some of what is there.                          *)
Returns(size) ==
  {n \in 0 .. Min({size, Len(input) - taken}) :
     \/ size = 0
     \/ /\ source = "terminal" /\ n > 0 /\ Ends # {}
        /\ n = size \/ input[taken + n]
        /\ ~ NewlineIn(taken + 1, taken + n - 1)
     \/ source = "pipe" /\ IF taken < Len(input) THEN n > 0 ELSE closed}

(* Faulty variant: the newline at the end is not looked at. *)
OverflowedFull(l) == l.to - l.from + 1 = BufSize - 1

Overflowed(l) == l.to - l.from + 1 = BufSize - 1 /\ ~ input[l.to]

(* Strip the newline at the end; an empty line is ignored.  snprintf cuts  *)
(* what is too long for a message.                                         *)
LogInput(l) ==
  LET end == IF input[l.to] THEN l.to - 1 ELSE l.to
      fit == Min({end, l.from + MessageRoom - 1}) IN
  logged' = IF l.from <= end
            THEN Append(logged, [from |-> l.from, to |-> fit, piece |-> l.to])
            ELSE logged

(* poll, and then read.  Nothing within 100 ms, or end of file: again. *)
ReadLine ==
  /\ tpc = "loop" /\ g_running
  /\ \E n \in Returns(BufSize - 1) \ {0} :
       /\ taken' = taken + n
       /\ line' = [from |-> taken + 1, to |-> taken + n]
  /\ IF Overflowed(line')
     THEN tpc' = "flush" /\ UNCHANGED logged
     ELSE LogInput(line') /\ UNCHANGED tpc
  /\ UNCHANGED world

(* Faulty variant: only the end of a chunk is looked at. *)
FlushedAtEnd(n) == n > 0 /\ input[taken + n]

(* Faulty variant: end of file is not looked at. *)
FlushedNoEof(n) == NewlineIn(taken + 1, taken + n)

(* if (n <= 0) break; if (memchr(flush_buf, '\n', n)) break; *)
Flushed(n) == n = 0 \/ NewlineIn(taken + 1, taken + n)

(* Flush what is left of an overlong line, then log its beginning. *)
Flush ==
  /\ tpc = "flush"
  /\ \E n \in Returns(FlushSize) :
       /\ taken' = taken + n
       /\ IF Flushed(n) THEN tpc' = "loop" /\ LogInput(line) ELSE UNCHANGED <<tpc, logged>>
  /\ UNCHANGED <<world, line>>

Exit ==
  /\ tpc = "loop" /\ ~ g_running
  /\ tpc' = "done"
  /\ UNCHANGED <<world, taken, line, logged>>

Task == ReadLine \/ Flush \/ Exit

(* The user, or who writes to the pipe. *)
Type ==
  /\ Len(input) < MaxBytes /\ ~ closed
  /\ \E newline \in BOOLEAN : input' = Append(input, newline)
  /\ UNCHANGED <<source, closed, g_running, tpc, taken, line, logged>>

Close ==
  /\ source = "pipe"
  /\ closed' = TRUE
  /\ UNCHANGED <<source, input, g_running, tpc, taken, line, logged>>

Shutdown ==
  /\ g_running' = FALSE
  /\ UNCHANGED <<source, input, closed, tpc, taken, line, logged>>

SNext == Task \/ Type \/ Close \/ Shutdown

SSpec == SInit /\ [][SNext]_svars

(* The thread is scheduled; nobody has to type, close or shut down. *)
SFairSpec == SSpec /\ WF_svars(Task)

-----------------------------------------------------------------------------
Logged(b) == \E i \in DOMAIN logged : b \in logged[i].from .. logged[i].to

(* At a terminal, each line that was read is logged once, in order and by  *)
(* itself, as far as the buffer and the message go: an overlong line takes *)
(* nothing of the next with it.                                            *)
StartsLine(b) == b = 1 \/ input[b - 1]

TerminalLines ==
  source = "terminal" /\ tpc = "loop" =>
    /\ taken = 0 \/ input[taken]
    /\ \A b \in 1 .. taken : StartsLine(b) /\ ~ input[b] => Logged(b)
    /\ \A i \in DOMAIN logged :
         LET l == logged[i] IN
         /\ StartsLine(l.from)
         /\ ~ NewlineIn(l.from, l.to)
         /\ input[l.to + 1] \/ l.to - l.from + 1 \in {BufSize - 1, MessageRoom}
         /\ i > 1 => logged[i - 1].to < l.from

(* Otherwise lines may be joined or cut as they arrive; but no byte is     *)
(* logged twice or out of order, and what is not logged was in a piece     *)
(* that is too long for a message, or was flushed behind one that fills    *)
(* the buffer: up to the newline, and less than FlushSize past it.         *)
CutFrom(l, b) == l.to - l.from + 1 = MessageRoom /\ b \in l.to + 1 .. l.piece

FlushedBehind(l, b) ==
  /\ l.piece - l.from + 1 = BufSize - 1
  /\ l.piece < b
  /\ ~ input[l.piece]
  /\ \A e \in l.piece + 1 .. b : input[e] => b - e < FlushSize

FlushBounded ==
  /\ \A i, j \in DOMAIN logged : i < j => logged[i].piece < logged[j].from
  /\ tpc = "loop" =>
       \A b \in 1 .. taken :
         \/ input[b] \/ Logged(b)
         \/ \E i \in DOMAIN logged : CutFrom(logged[i], b) \/ FlushedBehind(logged[i], b)

(* Input is read while the program runs, and the task ends when it is shut *)
(* down; only the end of an overlong line is waited for.  (With a buffer   *)
(* of one byte there is room for no input.)                                *)
KeepsUp ==
  []<>( \/ tpc = "done"
        \/ tpc = "loop" /\ g_running /\ (Returns(FlushSize) \subseteq {0} \/ BufSize = 1)
        \/ tpc = "flush" /\ ~ closed /\ Ends = {} )

===============================================================================
