--------------------------- MODULE StdinTaskProofs ---------------------------
(***************************************************************************)
(* What becomes of the bytes that stdin_task.c reads, for buffers and      *)
(* messages of every size and input of every length: TerminalLines and     *)
(* FlushBounded.                                                           *)
(*                                                                         *)
(* Both speak of the states between two lines.  While an overlong line is  *)
(* flushed they say nothing of its beginning, which is still in the        *)
(* buffer: the invariant SInv speaks of the bytes dealt with, those before *)
(* the line in the buffer, and of what makes that line overlong.           *)
(***************************************************************************)
EXTENDS StdinTask, TLAPS

Spans == [from : Nat, to : Nat]
Messages == [from : Nat, to : Nat, piece : Nat]

STypeOK ==
  /\ source \in {"terminal", "pipe"}
  /\ input \in Seq(BOOLEAN)
  /\ closed \in BOOLEAN /\ g_running \in BOOLEAN
  /\ tpc \in {"loop", "flush", "done"}
  /\ taken \in 0 .. Len(input)
  /\ line \in Spans
  /\ logged \in Seq(Messages)

(* The bytes that were read and whose line is not waiting to be logged. *)
Behind == IF tpc = "flush" THEN line.from - 1 ELSE taken

(* The logged pieces lie in the bytes dealt with, one after the other. *)
Pieces ==
  /\ \A i \in DOMAIN logged :
       /\ 1 <= logged[i].from
       /\ logged[i].from <= logged[i].to
       /\ logged[i].to <= logged[i].piece
       /\ logged[i].piece <= Behind
  /\ \A i, j \in DOMAIN logged : i < j => logged[i].piece < logged[j].from

(* A line is only flushed when it fills the buffer, and no newline has     *)
(* been read since.                                                        *)
Overlong ==
  tpc = "flush" =>
    /\ 1 <= line.from
    /\ line.from <= line.to
    /\ line.to <= taken
    /\ line.to - line.from + 1 = BufSize - 1
    /\ \A b \in line.to .. taken : ~ input[b]

Lost(b) == \E i \in DOMAIN logged : CutFrom(logged[i], b) \/ FlushedBehind(logged[i], b)

(* No byte is lost but at the end of a message or behind an overlong piece. *)
Accounted == \A b \in 1 .. Behind : input[b] \/ Logged(b) \/ Lost(b)

(* A piece that begins where a line does and ends with it, with the buffer *)
(* or with the message.                                                    *)
WholeLine(l) ==
  /\ StartsLine(l.from)
  /\ ~ NewlineIn(l.from, l.to)
  /\ \/ l.to + 1 <= Behind /\ input[l.to + 1]
     \/ l.to - l.from + 1 \in {BufSize - 1, MessageRoom}

(* From a terminal every read begins where a line does. *)
Lines ==
  source = "terminal" =>
    /\ Behind = 0 \/ input[Behind]
    /\ \A b \in 1 .. Behind : StartsLine(b) /\ ~ input[b] => Logged(b)
    /\ \A i \in DOMAIN logged : WholeLine(logged[i])
    /\ tpc = "flush" => \A b \in line.from .. taken : ~ input[b]

SInv == STypeOK /\ Pieces /\ Overlong /\ Accounted /\ Lines

-----------------------------------------------------------------------------
(* What read returns. *)

LEMMA MinOfTwo ==
  ASSUME NEW a \in Nat, NEW b \in Nat
  PROVE  /\ Min({a, b}) \in {a, b}
         /\ Min({a, b}) \in Nat
         /\ Min({a, b}) <= a
         /\ Min({a, b}) <= b
<1>1. \E x \in {a, b} : \A y \in {a, b} : x <= y
  <2>1. CASE a <= b
    BY <2>1
  <2>2. CASE b <= a
    BY <2>2
  <2>. QED
    BY <2>1, <2>2
<1>2. /\ Min({a, b}) \in {a, b}
      /\ \A y \in {a, b} : Min({a, b}) <= y
  BY <1>1, Zenon DEF Min
<1>. QED
  BY <1>2

(* A read takes no more than there is, and no more than there is room for. *)
LEMMA Available ==
  ASSUME STypeOK, NEW size \in Nat, NEW n \in Returns(size)
  PROVE  /\ n \in 0 .. size
         /\ taken + n \in 0 .. Len(input)
<1>1. Len(input) \in Nat /\ taken \in 0 .. Len(input)
  BY DEF STypeOK
<1>2. Len(input) - taken \in Nat
  BY <1>1
<1>3. n \in 0 .. Min({size, Len(input) - taken})
  BY Zenon DEF Returns
<1>. QED
  BY <1>1, <1>2, <1>3, MinOfTwo

(* What a terminal returns: some of one line, all of it if there is room.  *)
LEMMA FromTerminal ==
  ASSUME STypeOK, source = "terminal", NEW size \in Nat \ {0}, NEW n \in Returns(size)
  PROVE  /\ n > 0
         /\ n = size \/ input[taken + n]
         /\ \A b \in taken + 1 .. taken + n - 1 : ~ input[b]
<1>1. \/ size = 0
      \/ /\ source = "terminal" /\ n > 0 /\ Ends # {}
         /\ n = size \/ input[taken + n]
         /\ ~ NewlineIn(taken + 1, taken + n - 1)
      \/ source = "pipe" /\ IF taken < Len(input) THEN n > 0 ELSE closed
  BY Zenon DEF Returns
<1>. QED
  BY <1>1 DEF NewlineIn

-----------------------------------------------------------------------------
(* A line is logged.                                                       *)

(* The line whose first bytes are in l, when all of it has been read. *)
Complete(l) ==
  /\ l \in Spans
  /\ l.from = Behind + 1
  /\ l.from <= l.to
  /\ l.to <= taken'
  /\ \/ l.to = taken' /\ input[l.to]
     \/ l.to = taken' /\ source = "pipe"
     \/ /\ ~ input[l.to]
        /\ l.to - l.from + 1 = BufSize - 1
        /\ \A b \in l.to + 1 .. taken' : \A e \in l.to + 1 .. b : input[e] => b - e < FlushSize
  /\ source = "terminal" =>
       /\ \A b \in l.from .. taken' - 1 : ~ input[b]
       /\ input[taken']

(* The end of the line without its newline. *)
Stripped(l) == IF input[l.to] THEN l.to - 1 ELSE l.to

(* What of it a message holds. *)
Fit(l) == Min({Stripped(l), l.from + MessageRoom - 1})
Message(l) == [from |-> l.from, to |-> Fit(l), piece |-> l.to]

(* A line that is not empty is logged up to its end or to the message's. *)
LEMMA FitValue ==
  ASSUME NEW l \in Spans, l.from <= Stripped(l)
  PROVE  /\ Message(l) \in Messages
         /\ l.from <= Fit(l)
         /\ Fit(l) <= Stripped(l)
         /\ Fit(l) = Stripped(l) \/ Fit(l) - l.from + 1 = MessageRoom
<1>1. l.from \in Nat /\ l.to \in Nat
  BY DEF Spans
<1>2. Stripped(l) \in Nat
  BY <1>1 DEF Stripped
<1>3. MessageRoom \in Nat \ {0}
  BY StdinAssumption
<1>4. l.from + MessageRoom - 1 \in Nat
  BY <1>1, <1>3
<1>5. PICK end, room : end = Stripped(l) /\ room = l.from + MessageRoom - 1
  OBVIOUS
<1>6. Fit(l) \in {end, room} /\ Fit(l) \in Nat /\ Fit(l) <= end
  BY <1>2, <1>4, <1>5, MinOfTwo DEF Fit
<1>7. Message(l) \in Messages
  BY <1>1, <1>6 DEF Message, Messages
<1>. QED
  BY <1>1, <1>2, <1>3, <1>5, <1>6, <1>7

(* The state of the task after a step that logs a line. *)
After ==
  /\ UNCHANGED <<source, input>>
  /\ taken' \in 0 .. Len(input)
  /\ tpc' = "loop"

(* An empty line leaves no trace, another is the last message logged. *)
LEMMA LogCases ==
  ASSUME STypeOK, UNCHANGED input, NEW l \in Spans, LogInput(l)
  PROVE  \/ Stripped(l) < l.from /\ logged' = logged
         \/ /\ l.from <= Stripped(l)
            /\ logged' = Append(logged, Message(l))
            /\ DOMAIN logged' = DOMAIN logged \cup {Len(logged) + 1}
            /\ logged'[Len(logged) + 1] = Message(l)
            /\ \A i \in DOMAIN logged : logged'[i] = logged[i]
<1>1. l.from \in Nat /\ Stripped(l) \in Int
  BY DEF Spans, Stripped
<1>2. logged' = IF l.from <= Stripped(l) THEN Append(logged, Message(l)) ELSE logged
  BY Zenon DEF LogInput, Stripped, Fit, Message
<1>3. CASE l.from <= Stripped(l)
  <2>1. Message(l) \in Messages /\ logged \in Seq(Messages)
    BY <1>3, FitValue DEF STypeOK
  <2>. QED
    BY <1>2, <1>3, <2>1
<1>. QED
  BY <1>1, <1>2, <1>3

(* What was logged, or lost, still is; a line is logged as far as it fits. *)
LEMMA StillLogged ==
  ASSUME STypeOK, UNCHANGED input, NEW l \in Spans, LogInput(l), NEW b \in Nat
  PROVE  /\ Logged(b) => Logged(b)'
         /\ Lost(b) => Lost(b)'
         /\ l.from <= b /\ b <= Stripped(l) => Logged(b)' \/ Lost(b)'
         /\ l.from = b /\ b <= Stripped(l) => Logged(b)'
<1>1. DOMAIN logged \subseteq DOMAIN logged' /\ \A i \in DOMAIN logged : logged'[i] = logged[i]
  BY LogCases, Zenon
<1>2. Logged(b) => Logged(b)'
  BY <1>1 DEF Logged
<1>3. Lost(b) => Lost(b)'
  BY <1>1 DEF Lost, CutFrom, FlushedBehind
<1>4. ASSUME l.from <= b, b <= Stripped(l)
      PROVE  /\ Logged(b)' \/ Lost(b)'
             /\ l.from = b => Logged(b)'
  <2>1. l.from \in Nat /\ l.to \in Nat /\ Stripped(l) \in Int /\ Stripped(l) <= l.to
    BY DEF Spans, Stripped
  <2>2. l.from <= Stripped(l)
    BY <1>4, <2>1
  <2>3. PICK k : k = Len(logged) + 1
    OBVIOUS
  <2>4. k \in DOMAIN logged' /\ logged'[k] = Message(l)
    BY <2>1, <2>2, <2>3, LogCases
  <2>5. PICK m : m = Message(l)
    OBVIOUS
  <2>6. /\ m.from = l.from /\ m.piece = l.to /\ m.to = Fit(l) /\ Fit(l) \in Nat
        /\ l.from <= Fit(l) /\ Fit(l) <= Stripped(l)
        /\ Fit(l) = Stripped(l) \/ Fit(l) - l.from + 1 = MessageRoom
    BY <2>2, <2>5, FitValue DEF Message, Messages
  <2>7. CASE b <= Fit(l)
    <3>1. b \in m.from .. m.to
      BY <1>4, <2>1, <2>6, <2>7
    <3>. QED
      BY <2>4, <2>5, <3>1 DEF Logged
  <2>8. CASE ~ b <= Fit(l)
    <3>1. CutFrom(m, b)
      BY <1>4, <2>1, <2>6, <2>8 DEF CutFrom
    <3>2. Lost(b)'
      BY <2>4, <2>5, <3>1 DEF Lost, CutFrom
    <3>. QED
      BY <2>1, <2>6, <2>8, <3>2
  <2>. QED
    BY <2>7, <2>8
<1>. QED
  BY <1>2, <1>3, <1>4

(* Where a line that is logged begins and ends. *)
LEMMA Bounds ==
  ASSUME STypeOK, After, NEW l, Complete(l), Pieces, Overlong
  PROVE  /\ Behind \in Nat /\ taken' \in Nat
         /\ l.from \in Nat /\ l.to \in Nat /\ Stripped(l) \in Int
         /\ l.from = Behind + 1 /\ l.from <= l.to /\ l.to <= taken'
         /\ Stripped(l) <= l.to
         /\ Behind' = taken'
         /\ input' = input /\ source' = source
         /\ BufSize \in Nat
<1>1. Behind \in Int
  BY DEF Behind, STypeOK, Spans
<1>2. l.from \in Nat /\ l.to \in Nat
  BY DEF Complete, Spans
<1>3. Behind \in Nat
  <2>1. CASE tpc = "flush"
    BY <2>1 DEF Overlong, Behind, STypeOK, Spans
  <2>2. CASE tpc # "flush"
    BY <2>2 DEF Behind, STypeOK
  <2>. QED
    BY <2>1, <2>2
<1>. QED
  BY <1>1, <1>2, <1>3, StdinAssumption DEF Complete, After, Stripped, STypeOK, Behind

(* A logged line comes after the pieces before it. *)
LEMMA PiecesAfter ==
  ASSUME STypeOK, Pieces, Overlong, After, NEW l, Complete(l), LogInput(l)
  PROVE  Pieces'
<1>1. l \in Spans
  BY DEF Complete
<1>2. \A i \in DOMAIN logged : /\ logged[i].from \in Nat /\ logged[i].to \in Nat
                               /\ logged[i].piece \in Nat
  <2>1. \A i \in DOMAIN logged : logged[i] \in Messages
    BY DEF STypeOK
  <2>. QED
    BY <2>1 DEF Messages
<1>3. CASE logged' = logged
  BY <1>2, <1>3, Bounds DEF Pieces
<1>4. CASE /\ l.from <= Stripped(l)
           /\ DOMAIN logged' = DOMAIN logged \cup {Len(logged) + 1}
           /\ logged'[Len(logged) + 1] = Message(l)
           /\ \A i \in DOMAIN logged : logged'[i] = logged[i]
  <2>1. Len(logged) \in Nat /\ DOMAIN logged = 1 .. Len(logged)
    BY DEF STypeOK
  <2>2. \A i \in DOMAIN logged' : \/ i \in DOMAIN logged /\ logged'[i] = logged[i]
                                  \/ /\ i = Len(logged) + 1
                                     /\ logged'[i].from = l.from
                                     /\ logged'[i].to = Fit(l)
                                     /\ logged'[i].piece = l.to
    BY <1>4 DEF Message
  <2>3. Fit(l) \in Nat /\ l.from <= Fit(l) /\ Fit(l) <= l.to
    <3>1. Fit(l) \in Nat /\ l.from <= Fit(l) /\ Fit(l) <= Stripped(l)
      BY <1>1, <1>4, FitValue DEF Message, Messages
    <3>. QED
      BY <3>1, Bounds
  <2>4. ASSUME NEW i \in DOMAIN logged'
        PROVE  /\ 1 <= logged'[i].from /\ logged'[i].from <= logged'[i].to
               /\ logged'[i].to <= logged'[i].piece /\ logged'[i].piece <= Behind'
    BY <1>2, <2>2, <2>3, <2>4, Bounds DEF Pieces
  <2>5. ASSUME NEW i \in DOMAIN logged', NEW j \in DOMAIN logged', i < j
        PROVE  logged'[i].piece < logged'[j].from
    <3>1. i \in DOMAIN logged /\ logged'[i] = logged[i]
      BY <1>4, <2>1, <2>2, <2>5
    <3>. QED
      BY <1>2, <2>2, <2>5, <3>1, Bounds DEF Pieces
  <2>. QED
    BY <2>4, <2>5 DEF Pieces
<1>. QED
  BY <1>1, <1>3, <1>4, LogCases DEF After

(* Each of its bytes is logged, but the newline and what was cut or flushed. *)
LEMMA AccountedAfter ==
  ASSUME STypeOK, Pieces, Overlong, Accounted, After, NEW l, Complete(l), LogInput(l)
  PROVE  Accounted'
<1>1. l \in Spans /\ UNCHANGED input
  BY DEF Complete, After
<1>. SUFFICES ASSUME NEW b \in 1 .. taken', ~ input[b]
              PROVE  Logged(b)' \/ Lost(b)'
  BY Bounds DEF Accounted
<1>2. b \in Nat /\ taken' \in Nat
  BY Bounds
<1>3. CASE b <= Behind
  <2>1. Logged(b) \/ Lost(b)
    BY <1>2, <1>3, Bounds DEF Accounted
  <2>. QED
    BY <1>1, <1>2, <2>1, StillLogged
<1>4. CASE l.from <= b /\ b <= l.to
  <2>1. b <= Stripped(l)
    BY <1>2, <1>4, Bounds DEF Stripped
  <2>. QED
    BY <1>1, <1>2, <1>4, <2>1, StillLogged
<1>5. CASE l.to < b
  <2>1. /\ ~ input[l.to]
        /\ l.to - l.from + 1 = BufSize - 1
        /\ \A e \in l.to + 1 .. b : input[e] => b - e < FlushSize
    <3>1. l.to # taken' /\ b \in l.to + 1 .. taken'
      BY <1>2, <1>5, Bounds
    <3>2. /\ ~ input[l.to]
          /\ l.to - l.from + 1 = BufSize - 1
          /\ \A c \in l.to + 1 .. taken' :
               \A e \in l.to + 1 .. c : input[e] => c - e < FlushSize
      BY <3>1, Zenon DEF Complete
    <3>. QED
      BY <3>1, <3>2
  <2>2. Stripped(l) = l.to
    BY <2>1 DEF Stripped
  <2>3. ~ Stripped(l) < l.from
    BY <2>2, Bounds
  <2>4. PICK k : k = Len(logged) + 1
    OBVIOUS
  <2>5. k \in DOMAIN logged' /\ logged'[k] = Message(l)
    BY <1>1, <2>2, <2>3, <2>4, LogCases
  <2>6. PICK m : m = Message(l)
    OBVIOUS
  <2>7. FlushedBehind(m, b)'
    BY <1>1, <1>5, <2>1, <2>6 DEF FlushedBehind, Message
  <2>. QED
    BY <2>5, <2>6, <2>7 DEF Lost, FlushedBehind
<1>. QED
  BY <1>2, <1>3, <1>4, <1>5, Bounds

(* A whole line stays one. *)
LEMMA StaysWhole ==
  ASSUME UNCHANGED input, NEW p \in Messages, WholeLine(p),
         Behind \in Nat, Behind' \in Nat, Behind <= Behind'
  PROVE  WholeLine(p)'
<1>1. p.to \in Nat
  BY DEF Messages
<1>. QED
  BY <1>1 DEF WholeLine, StartsLine, NewlineIn

(* From a terminal it is a line by itself. *)
LEMMA LinesAfter ==
  ASSUME STypeOK, Pieces, Overlong, Lines, After, NEW l, Complete(l), LogInput(l)
  PROVE  Lines'
<1>1. l \in Spans /\ UNCHANGED input
  BY DEF Complete, After
<1>. SUFFICES ASSUME source = "terminal" PROVE Lines'
  BY Bounds DEF Lines
<1>2. /\ \A b \in l.from .. taken' - 1 : ~ input[b]
      /\ input[taken']
  BY DEF Complete
<1>3. Behind = 0 \/ input[Behind]
  BY DEF Lines
<1>4. input[Behind]'
  BY <1>2, Bounds
<1>5. ASSUME NEW b \in 1 .. taken', StartsLine(b), ~ input[b]
      PROVE  Logged(b)'
  <2>1. CASE b <= Behind
    <3>1. b \in Nat /\ Logged(b)
      BY <1>5, <2>1, Bounds DEF Lines
    <3>. QED
      BY <1>1, <3>1, StillLogged
  <2>2. CASE b = l.from
    <3>1. b \in Nat /\ l.from <= Stripped(l)
      BY <1>5, <2>2, Bounds DEF Stripped
    <3>. QED
      BY <1>1, <2>2, <3>1, StillLogged, Bounds
  <2>3. CASE l.from < b
    <3>1. b - 1 \in l.from .. taken' - 1
      BY <2>3, Bounds
    <3>2. b # 1
      BY <2>3, Bounds
    <3>. QED
      BY <1>2, <1>5, <3>1, <3>2 DEF StartsLine
  <2>. QED
    BY <2>1, <2>2, <2>3, Bounds
<1>6. ASSUME l.from <= Stripped(l), NEW p, p = Message(l)
      PROVE  WholeLine(p)'
  <2>1. /\ p.from = l.from /\ p.to = Fit(l) /\ Fit(l) \in Nat
        /\ Fit(l) <= Stripped(l)
        /\ Fit(l) = Stripped(l) \/ Fit(l) - l.from + 1 = MessageRoom
    BY <1>1, <1>6, FitValue DEF Message, Messages
  <2>2. StartsLine(l.from)
    BY <1>3, Bounds DEF StartsLine
  <2>3. \/ l.to = taken' /\ input[l.to] /\ Stripped(l) = l.to - 1
        \/ /\ ~ input[l.to] /\ Stripped(l) = l.to /\ l.to <= taken' - 1
           /\ l.to - l.from + 1 = BufSize - 1
    <3>1. CASE input[l.to]
      <4>1. ~ l.to <= taken' - 1
        BY <1>2, <3>1, Bounds
      <4>. QED
        BY <3>1, <4>1, Bounds DEF Stripped
    <3>2. CASE ~ input[l.to]
      <4>1. l.to # taken'
        BY <1>2, <3>2
      <4>2. l.to - l.from + 1 = BufSize - 1
        BY <3>2, <4>1, Zenon DEF Complete
      <4>. QED
        BY <3>2, <4>1, <4>2, Bounds DEF Stripped
    <3>. QED
      BY <3>1, <3>2
  <2>4. Fit(l) <= taken' - 1
    BY <2>1, <2>3, Bounds
  <2>5. ~ NewlineIn(l.from, Fit(l))
    BY <1>2, <2>1, <2>4, Bounds DEF NewlineIn
  <2>6. \/ Fit(l) + 1 <= Behind' /\ input[Fit(l) + 1]
        \/ Fit(l) - l.from + 1 \in {BufSize - 1, MessageRoom}
    BY <2>1, <2>3, Bounds
  <2>. QED
    BY <1>1, <2>1, <2>2, <2>5, <2>6 DEF WholeLine, StartsLine, NewlineIn
<1>7. \A p \in Messages : WholeLine(p) => WholeLine(p)'
  BY <1>1, StaysWhole, Bounds
<1>8. ASSUME NEW i \in DOMAIN logged' PROVE WholeLine(logged[i])'
  <2>1. \A k \in DOMAIN logged : logged[k] \in Messages /\ WholeLine(logged[k])
    BY DEF STypeOK, Lines
  <2>2. PICK p : p = logged'[i]
    OBVIOUS
  <2>3. \/ i \in DOMAIN logged /\ p = logged[i]
        \/ l.from <= Stripped(l) /\ p = Message(l)
    BY <1>1, <2>2, LogCases
  <2>4. WholeLine(p)'
    <3>1. CASE i \in DOMAIN logged /\ p = logged[i]
      BY <1>7, <2>1, <3>1
    <3>2. CASE l.from <= Stripped(l) /\ p = Message(l)
      BY <1>6, <3>2
    <3>. QED
      BY <2>3, <3>1, <3>2
  <2>. QED
    BY <2>2, <2>4 DEF WholeLine
<1>9. \A b \in 1 .. Behind' : StartsLine(b)' /\ ~ input'[b] => Logged(b)'
  BY <1>1, <1>5, Bounds DEF StartsLine
<1>. QED
  BY <1>4, <1>8, <1>9 DEF Lines, After

-----------------------------------------------------------------------------
(* The steps of the task. *)

(* What both ways to log a line have in common. *)
LEMMA LogStep ==
  ASSUME SInv, STypeOK', After, NEW l, Complete(l), LogInput(l)
  PROVE  SInv'
BY PiecesAfter, AccountedAfter, LinesAfter DEF SInv, After, Overlong

(* Messages keep their types. *)
LEMMA LoggedTypes ==
  ASSUME STypeOK, UNCHANGED input, NEW l \in Spans, LogInput(l)
  PROVE  logged' \in Seq(Messages)
<1>1. CASE logged' = logged
  BY <1>1 DEF STypeOK
<1>2. CASE l.from <= Stripped(l) /\ logged' = Append(logged, Message(l))
  BY <1>2, FitValue DEF STypeOK
<1>. QED
  BY <1>1, <1>2, LogCases

(* A read of a line, all of it or as much as the buffer holds. *)
LEMMA ReadLineStep ==
  ASSUME SInv, ReadLine
  PROVE  SInv'
<1>1. STypeOK /\ tpc = "loop" /\ Behind = taken
  BY DEF SInv, ReadLine, Behind
<1>2. PICK n \in Returns(BufSize - 1) \ {0} :
        /\ taken' = taken + n
        /\ line' = [from |-> taken + 1, to |-> taken + n]
  BY DEF ReadLine
<1>3. BufSize - 1 \in Nat
  BY StdinAssumption
<1>4. n \in 1 .. BufSize - 1 /\ taken + n \in 0 .. Len(input) /\ taken \in Nat
  BY <1>1, <1>2, <1>3, Available DEF STypeOK
<1>5. PICK l : l = [from |-> taken + 1, to |-> taken + n]
  OBVIOUS
<1>6. l \in Spans /\ l.from = taken + 1 /\ l.to = taken + n /\ line' = l
  BY <1>2, <1>4, <1>5 DEF Spans
<1>7. UNCHANGED <<source, input, closed, g_running>>
  BY DEF ReadLine, world
<1>8. source = "terminal" =>
        /\ n = BufSize - 1 \/ input[taken + n]
        /\ \A b \in taken + 1 .. taken + n - 1 : ~ input[b]
  BY <1>1, <1>2, <1>3, <1>4, FromTerminal
<1>9. Overflowed(line')  <=> n = BufSize - 1 /\ ~ input[l.to]
  BY <1>4, <1>6 DEF Overflowed
<1>10. CASE Overflowed(line')
  <2>1. tpc' = "flush" /\ logged' = logged
    BY <1>10 DEF ReadLine
  <2>2. STypeOK'
    BY <1>1, <1>2, <1>4, <1>6, <1>7, <2>1 DEF STypeOK
  <2>3. Behind' = Behind
    BY <1>1, <1>4, <1>6, <2>1 DEF Behind
  <2>4. Pieces'
    BY <2>1, <2>3 DEF SInv, Pieces
  <2>5. Overlong'
    BY <1>2, <1>4, <1>6, <1>7, <1>9, <1>10 DEF Overlong
  <2>6. Accounted'
    BY <1>7, <2>1, <2>3 DEF SInv, Accounted, Logged, Lost, CutFrom, FlushedBehind
  <2>7. Lines'
    <3>1. source = "terminal" => \A b \in l.from .. taken' : ~ input[b]
      BY <1>2, <1>4, <1>6, <1>8, <1>9, <1>10
    <3>. QED
      BY <1>6, <1>7, <2>1, <2>3, <3>1
      DEF SInv, Lines, WholeLine, StartsLine, NewlineIn, Logged
  <2>. QED
    BY <2>2, <2>4, <2>5, <2>6, <2>7 DEF SInv
<1>11. CASE ~ Overflowed(line')
  <2>1. LogInput(l) /\ tpc' = "loop"
    BY <1>1, <1>6, <1>11 DEF ReadLine
  <2>2. After
    BY <1>2, <1>4, <1>7, <2>1 DEF After
  <2>3. logged' \in Seq(Messages)
    BY <1>1, <1>6, <1>7, <2>1, LoggedTypes
  <2>4. STypeOK'
    BY <1>1, <1>2, <1>4, <1>6, <1>7, <2>1, <2>3 DEF STypeOK
  <2>5. Complete(l)
    <3>1. source = "terminal" => input[taken + n]
      BY <1>4, <1>6, <1>8, <1>9, <1>11
    <3>. QED
      BY <1>1, <1>2, <1>4, <1>6, <1>8, <3>1 DEF Complete, STypeOK
  <2>. QED
    BY <2>1, <2>2, <2>4, <2>5, LogStep
<1>. QED
  BY <1>10, <1>11

(* A chunk of what follows an overlong line. *)
LEMMA FlushStep ==
  ASSUME SInv, Flush
  PROVE  SInv'
<1>1. /\ STypeOK /\ tpc = "flush" /\ Behind = line.from - 1
      /\ line \in Spans /\ taken \in Nat /\ input \in Seq(BOOLEAN)
  BY DEF SInv, Flush, Behind, STypeOK
<1>2. PICK n \in Returns(FlushSize) :
        /\ taken' = taken + n
        /\ IF Flushed(n) THEN tpc' = "loop" /\ LogInput(line) ELSE UNCHANGED <<tpc, logged>>
  BY DEF Flush
<1>3. FlushSize \in Nat \ {0} /\ FlushSize \in Nat
  BY StdinAssumption
<1>4. n \in 0 .. FlushSize /\ taken + n \in 0 .. Len(input)
  BY <1>1, <1>3, Available
<1>5. UNCHANGED <<source, input, closed, g_running, line>>
  BY DEF Flush, world
<1>6. source = "terminal" =>
        /\ n > 0
        /\ n = FlushSize \/ input[taken + n]
        /\ \A b \in taken + 1 .. taken + n - 1 : ~ input[b]
  BY <1>1, <1>3, FromTerminal
<1>7. /\ 1 <= line.from /\ line.from <= line.to /\ line.to <= taken
      /\ line.to - line.from + 1 = BufSize - 1
      /\ \A b \in line.to .. taken : ~ input[b]
      /\ line.from \in Nat /\ line.to \in Nat
  BY <1>1 DEF SInv, Overlong, Spans
<1>8. source = "terminal" => \A b \in line.from .. taken : ~ input[b]
  BY <1>1 DEF SInv, Lines
<1>9. CASE Flushed(n)
  <2>1. LogInput(line) /\ tpc' = "loop"
    BY <1>2, <1>9
  <2>2. After
    BY <1>2, <1>4, <1>5, <2>1 DEF After
  <2>3. STypeOK'
    BY <1>1, <1>2, <1>4, <1>5, <2>1, LoggedTypes DEF STypeOK
  <2>4. PICK l : l = line
    OBVIOUS
  <2>5. ASSUME NEW b \in l.to + 1 .. taken', NEW e \in l.to + 1 .. b, input[e]
        PROVE  b - e < FlushSize
    <3>1. e > taken
      BY <1>1, <1>7, <2>4, <2>5
    <3>. QED
      BY <1>1, <1>2, <1>3, <1>4, <1>7, <2>4, <3>1
  <2>6. source = "terminal" => /\ \A b \in l.from .. taken' - 1 : ~ input[b]
                               /\ input[taken']
    <3>. SUFFICES ASSUME source = "terminal"
                  PROVE  /\ \A b \in l.from .. taken' - 1 : ~ input[b]
                         /\ input[taken']
      OBVIOUS
    <3>1. n > 0 /\ NewlineIn(taken + 1, taken + n)
      BY <1>4, <1>6, <1>9 DEF Flushed
    <3>2. input[taken + n]
      BY <1>1, <1>4, <1>6, <3>1 DEF NewlineIn
    <3>. QED
      BY <1>1, <1>2, <1>4, <1>6, <1>7, <1>8, <2>4, <3>2
  <2>7. Complete(l)
    <3>1. ~ input[l.to]
      BY <1>7, <2>4
    <3>2. l.to <= taken'
      BY <1>1, <1>2, <1>4, <1>7, <2>4
    <3>. QED
      BY <1>1, <1>7, <2>4, <2>5, <2>6, <3>1, <3>2 DEF Complete
  <2>. QED
    BY <2>1, <2>2, <2>3, <2>4, <2>7, LogStep
<1>10. CASE ~ Flushed(n)
  <2>1. tpc' = tpc /\ logged' = logged /\ taken' = taken + n
    BY <1>2, <1>10
  <2>2. \A b \in taken + 1 .. taken' : ~ input[b]
    BY <1>10, <2>1 DEF Flushed, NewlineIn
  <2>3. STypeOK'
    BY <1>1, <1>4, <1>5, <2>1 DEF STypeOK
  <2>4. Behind' = Behind
    BY <1>1, <1>5, <2>1 DEF Behind
  <2>5. Pieces'
    BY <2>1, <2>4 DEF SInv, Pieces
  <2>6. Overlong'
    BY <1>1, <1>4, <1>5, <1>7, <2>1, <2>2 DEF Overlong
  <2>7. Accounted'
    BY <1>5, <2>1, <2>4 DEF SInv, Accounted, Logged, Lost, CutFrom, FlushedBehind
  <2>8. Lines'
    <3>1. source = "terminal" => \A b \in line.from .. taken' : ~ input[b]
      BY <1>1, <1>4, <1>7, <1>8, <2>1, <2>2
    <3>. QED
      BY <1>5, <2>1, <2>4, <3>1 DEF SInv, Lines, WholeLine, StartsLine, NewlineIn, Logged
  <2>. QED
    BY <2>3, <2>5, <2>6, <2>7, <2>8 DEF SInv
<1>. QED
  BY <1>9, <1>10

(* More input changes nothing of what was read. *)
LEMMA TypeStep ==
  ASSUME SInv, Type
  PROVE  SInv'
<1>1. STypeOK /\ UNCHANGED <<source, closed, g_running, tpc, taken, line, logged>>
  BY DEF SInv, Type
<1>2. PICK newline \in BOOLEAN : input' = Append(input, newline)
  BY DEF Type
<1>3. /\ input \in Seq(BOOLEAN) /\ Len(input) \in Nat
      /\ input' \in Seq(BOOLEAN) /\ Len(input') = Len(input) + 1
      /\ taken \in Nat /\ taken <= Len(input)
      /\ \A b \in 1 .. taken : input'[b] = input[b]
  BY <1>1, <1>2 DEF STypeOK
<1>4. STypeOK'
  BY <1>1, <1>3 DEF STypeOK
<1>5. Behind' = Behind
  BY <1>1 DEF Behind
<1>6. Behind \in Nat /\ Behind <= taken
  <2>1. CASE tpc = "flush"
    BY <1>3, <2>1 DEF SInv, STypeOK, Overlong, Behind, Spans
  <2>2. CASE tpc # "flush"
    BY <1>3, <2>2 DEF Behind
  <2>. QED
    BY <2>1, <2>2
<1>7. Pieces'
  BY <1>1, <1>5 DEF SInv, Pieces
<1>8. Overlong'
  <2>. SUFFICES ASSUME tpc = "flush" PROVE Overlong'
    BY <1>1 DEF Overlong
  <2>1. line.from \in Nat /\ line.to \in Nat
    BY <1>1 DEF STypeOK, Spans
  <2>. QED
    BY <1>1, <1>3, <2>1 DEF SInv, Overlong
<1>9. \A i \in DOMAIN logged : /\ logged[i].from \in Nat /\ logged[i].to \in Nat
                               /\ logged[i].piece \in Nat
                               /\ 1 <= logged[i].from /\ logged[i].from <= logged[i].to
                               /\ logged[i].to <= logged[i].piece
                               /\ logged[i].piece <= Behind
  <2>1. \A i \in DOMAIN logged : logged[i] \in Messages
    BY <1>1 DEF STypeOK
  <2>. QED
    BY <2>1 DEF SInv, Pieces, Messages
<1>10. Accounted'
  <2>. SUFFICES ASSUME NEW b \in 1 .. Behind, ~ input[b] PROVE (Logged(b) \/ Lost(b))'
    BY <1>3, <1>5, <1>6 DEF Accounted
  <2>1. CASE Logged(b)
    BY <1>1, <2>1 DEF Logged
  <2>2. CASE Lost(b)
    <3>1. PICK i \in DOMAIN logged : CutFrom(logged[i], b) \/ FlushedBehind(logged[i], b)
      BY <2>2 DEF Lost
    <3>2. /\ \A e \in logged[i].piece + 1 .. b : input'[e] = input[e]
          /\ input'[logged[i].piece] = input[logged[i].piece]
      BY <1>3, <1>6, <1>9
    <3>3. CutFrom(logged[i], b)' \/ FlushedBehind(logged[i], b)'
      BY <1>1, <3>1, <3>2 DEF CutFrom, FlushedBehind
    <3>. QED
      BY <1>1, <3>3 DEF Lost
  <2>. QED
    BY <2>1, <2>2 DEF SInv, Accounted
<1>11. Lines'
  <2>. SUFFICES ASSUME source = "terminal" PROVE Lines'
    BY <1>1 DEF Lines
  <2>1. Behind' = 0 \/ input'[Behind]
    BY <1>3, <1>5, <1>6 DEF SInv, Lines
  <2>2. \A b \in 1 .. Behind : StartsLine(b)' <=> StartsLine(b)
    BY <1>3, <1>6 DEF StartsLine
  <2>3. \A b \in 1 .. Behind' : StartsLine(b)' /\ ~ input'[b] => Logged(b)'
    BY <1>1, <1>3, <1>5, <1>6, <2>2 DEF SInv, Lines, Logged
  <2>4. ASSUME NEW i \in DOMAIN logged PROVE WholeLine(logged[i])'
    <3>1. PICK p : p = logged[i]
      OBVIOUS
    <3>2. /\ p.from \in Nat /\ p.to \in Nat
          /\ 1 <= p.from /\ p.from <= p.to /\ p.to <= Behind
      <4>1. /\ p.from \in Nat /\ p.to \in Nat /\ p.piece \in Nat
            /\ 1 <= p.from /\ p.from <= p.to /\ p.to <= p.piece /\ p.piece <= Behind
        BY <1>9, <3>1
      <4>. QED
        BY <1>6, <4>1
    <3>3. WholeLine(p)
      BY <3>1 DEF SInv, Lines
    <3>4. p.from \in 1 .. Behind /\ p.from .. p.to \subseteq 1 .. taken
      BY <1>3, <1>6, <3>2
    <3>5. StartsLine(p.from)' /\ ~ NewlineIn(p.from, p.to)'
      BY <1>3, <2>2, <3>3, <3>4 DEF WholeLine, NewlineIn
    <3>6. \/ p.to + 1 <= Behind' /\ input'[p.to + 1]
          \/ p.to - p.from + 1 \in {BufSize - 1, MessageRoom}
      BY <1>3, <1>5, <1>6, <3>2, <3>3 DEF WholeLine
    <3>7. WholeLine(p)'
      BY <3>5, <3>6 DEF WholeLine
    <3>. QED
      BY <1>1, <3>1, <3>7 DEF WholeLine
  <2>5. ASSUME tpc = "flush", NEW b \in line.from .. taken PROVE ~ input'[b]
    <3>1. ~ input[b]
      BY <2>5 DEF SInv, Lines
    <3>2. line.from \in Nat /\ 1 <= line.from
      BY <1>1, <2>5 DEF SInv, Overlong, STypeOK, Spans
    <3>. QED
      BY <1>3, <3>1, <3>2
  <2>. QED
    BY <1>1, <1>5, <2>1, <2>3, <2>4, <2>5 DEF Lines
<1>. QED
  BY <1>4, <1>7, <1>8, <1>10, <1>11 DEF SInv

(* The end of the input, the shutdown and the end of the task leave the    *)
(* bytes and the lines alone.                                              *)
LEMMA QuietStep ==
  ASSUME SInv, Close \/ Shutdown \/ Exit \/ UNCHANGED svars
  PROVE  SInv'
<1>1. /\ UNCHANGED <<source, input, taken, line, logged>>
      /\ tpc' = "flush" <=> tpc = "flush"
  BY DEF Close, Shutdown, Exit, world, svars
<1>2. STypeOK'
  BY <1>1 DEF SInv, STypeOK, Close, Shutdown, Exit, world, svars
<1>3. Behind' = Behind
  BY <1>1 DEF Behind
<1>. QED
  BY <1>1, <1>2, <1>3
  DEF SInv, Pieces, Overlong, Accounted, Lines, Logged, Lost, CutFrom, FlushedBehind, WholeLine,
      StartsLine, NewlineIn

-----------------------------------------------------------------------------
(* Every state of the stdin task satisfies the invariant. *)
THEOREM InputDealtWith == SSpec => []SInv
<1>1. SInit => SInv
  <2>. SUFFICES ASSUME SInit PROVE SInv
    OBVIOUS
  <2>1. logged = << >> /\ input = << >> /\ Behind = 0 /\ tpc = "loop"
    BY DEF SInit, Behind
  <2>2. STypeOK
    <3>1. << >> \in Seq(Messages) /\ << >> \in Seq(BOOLEAN)
      OBVIOUS
    <3>2. line \in Spans
      BY DEF SInit, Spans
    <3>3. taken \in 0 .. Len(input)
      BY <2>1 DEF SInit
    <3>. QED
      BY <2>1, <3>1, <3>2, <3>3, Zenon DEF SInit, STypeOK
  <2>. QED
    BY <2>1, <2>2 DEF SInv, Pieces, Overlong, Accounted, Lines
<1>2. SInv /\ [SNext]_svars => SInv'
  BY ReadLineStep, FlushStep, TypeStep, QuietStep DEF SNext, Task
<1>. QED
  BY <1>1, <1>2, PTL DEF SSpec

(* At a terminal each line that was read is logged once, in order and by   *)
(* itself, whatever the sizes of line and flush_buf and however long the   *)
(* lines are.                                                              *)
THEOREM TerminalLinesLogged == SSpec => []TerminalLines
<1>1. SInv => TerminalLines
  <2>. SUFFICES ASSUME SInv, source = "terminal", tpc = "loop" PROVE TerminalLines
    BY DEF TerminalLines
  <2>1. Behind = taken
    BY DEF Behind
  <2>2. STypeOK /\ \A i \in DOMAIN logged : i > 1 => i - 1 \in DOMAIN logged
    BY DEF SInv, STypeOK
  <2>3. \A i \in DOMAIN logged : i > 1 => logged[i - 1].to < logged[i].from
    <3>. SUFFICES ASSUME NEW i \in DOMAIN logged, i > 1
                  PROVE  logged[i - 1].to < logged[i].from
      OBVIOUS
    <3>1. i - 1 \in DOMAIN logged /\ i - 1 < i
      BY <2>2 DEF STypeOK
    <3>2. logged[i - 1] \in Messages /\ logged[i] \in Messages
      BY <2>2, <3>1 DEF STypeOK
    <3>3. logged[i - 1].to <= logged[i - 1].piece /\ logged[i - 1].piece < logged[i].from
      BY <3>1 DEF SInv, Pieces
    <3>. QED
      BY <3>2, <3>3 DEF Messages
  <2>. QED
    BY <2>1, <2>3 DEF SInv, Lines, WholeLine, TerminalLines
<1>. QED
  BY <1>1, InputDealtWith, PTL

(* From a pipe nothing is logged twice or out of order, and a flush takes  *)
(* less than sizeof(flush_buf) bytes past the newline that it looks for.   *)
THEOREM FlushIsBounded == SSpec => []FlushBounded
<1>1. SInv => FlushBounded
  BY DEF SInv, Pieces, Accounted, Lost, Behind, FlushBounded
<1>. QED
  BY <1>1, InputDealtWith, PTL
===============================================================================
