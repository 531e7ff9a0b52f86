---------------------------- MODULE ExerciseProofs ----------------------------
(***************************************************************************)
(* What is proved of the small programs of the exercises: the two that     *)
(* share a number (foo.c and foo.go of exercise 1), for every number of    *)
(* iterations, and the receivers of server_wfh.d of exercise 2, for every  *)
(* size of their buffer and every number of peers.                         *)
(***************************************************************************)
EXTENDS NumberServer, EchoServer, FiniteSetTheorems, WellFoundedInduction, TLAPS

VARIABLES mutex, j, reg, pc, printed   (* of foo.c, beside its i *)

C == INSTANCE SharedVariable

-----------------------------------------------------------------------------
(* foo.c: a mutex around every load and store. *)

(* The initial state satisfies the type invariant and the invariant. *)
LEMMA CInit ==
  ASSUME N \in Nat, C!SInit
  PROVE  C!STypeOK /\ C!SInv
<1>1. C!STypeOK
  <2>1. mutex \in C!Workers \cup {"free"} /\ printed \in BOOLEAN
    BY Zenon DEF C!SInit
  <2>2. i \in Int /\ j \in [C!Workers -> 0 .. N] /\ reg \in [C!Workers -> Int]
    BY DEF C!SInit
  <2>3. pc \in [C!Workers -> C!Pcs]
    BY DEF C!SInit, C!Pcs
  <2> QED BY <2>1, <2>2, <2>3 DEF C!STypeOK
<1>2. C!SInv
  BY DEF C!SInit, C!SInv, C!Workers, C!Done
<1> QED BY <1>1, <1>2

(* A step of one of the threads of foo.c keeps both. *)
LEMMA CWorker ==
  ASSUME N \in Nat, C!STypeOK, C!SInv, NEW t \in C!Workers, C!Worker(t)
  PROVE  C!STypeOK' /\ C!SInv'
<1> USE DEF C!STypeOK, C!SInv, C!Workers, C!Pcs, C!Done, C!Goto, C!Delta
<1>1. CASE C!LockMutex(t)   BY <1>1 DEF C!LockMutex
<1>2. CASE C!Load(t)        BY <1>2 DEF C!Load
<1>3. CASE C!Store(t)       BY <1>3 DEF C!Store
<1>4. CASE C!UnlockMutex(t) BY <1>4 DEF C!UnlockMutex
<1>5. CASE C!Return(t)      BY <1>5 DEF C!Return
<1> QED BY <1>1, <1>2, <1>3, <1>4, <1>5 DEF C!Worker

(* For every N, every state of foo.c satisfies the inductive invariant. *)
THEOREM CCounted ==
  ASSUME N \in Nat
  PROVE  C!SSpec => [](C!STypeOK /\ C!SInv)
<1>1. C!STypeOK /\ C!SInv /\ [C!SNext]_C!svars => (C!STypeOK /\ C!SInv)'
  <2> SUFFICES ASSUME C!STypeOK, C!SInv, [C!SNext]_C!svars PROVE (C!STypeOK /\ C!SInv)'
    OBVIOUS
  <2>1. CASE C!Main
    BY <2>1 DEF C!Main, C!STypeOK, C!SInv, C!Done
  <2>2. CASE \E t \in C!Workers : C!Worker(t)
    BY <2>2, CWorker
  <2>3. CASE UNCHANGED C!svars
    BY <2>3 DEF C!svars, C!STypeOK, C!SInv, C!Done
  <2> QED BY <2>1, <2>2, <2>3 DEF C!SNext
<1> QED BY <1>1, CInit, PTL DEF C!SSpec

(* foo.c prints -1, for every number of iterations and every schedule. *)
THEOREM CMagicNumber ==
  ASSUME N \in Nat
  PROVE  C!SSpec => []C!MagicNumber
<1>1. C!STypeOK /\ C!SInv => C!MagicNumber
  BY DEF C!STypeOK, C!SInv, C!MagicNumber, C!Done, C!Workers, C!Pcs
<1> QED BY <1>1, CCounted, PTL

-----------------------------------------------------------------------------
(* foo.go: one goroutine owns the number. *)

(* The initial state satisfies the type invariant and the invariant. *)
LEMMA InitInv == NInit => NTypeOK /\ NInv
<1> SUFFICES ASSUME NInit PROVE NTypeOK /\ NInv
  OBVIOUS
<1>1. NTypeOK
  BY ServerAssumption DEF NInit, NTypeOK, Workers
<1>2. NInv
  BY ServerAssumption DEF NInit, NInv, Workers, Returned
<1> QED BY <1>1, <1>2

(* Every step of foo.go keeps both. *)
LEMMA StepInv ==
  ASSUME NTypeOK, NInv, [NNext]_nvars
  PROVE  NTypeOK' /\ NInv'
<1> USE ServerAssumption DEF NTypeOK, NInv, Workers, Returned, Delta
<1>1. CASE \E w \in Workers : Send(w)
  BY <1>1 DEF Send
<1>2. CASE \E w \in Workers : SendDone(w)
  BY <1>2 DEF SendDone
<1>3. CASE \E w \in Workers : Receive(w)
  BY <1>3 DEF Receive
<1>4. CASE ReceiveDone
  BY <1>4 DEF ReceiveDone
<1>5. CASE PrintNumber
  BY <1>5 DEF PrintNumber
<1>6. CASE UNCHANGED nvars
  BY <1>6 DEF nvars
<1> QED
  BY <1>1, <1>2, <1>3, <1>4, <1>5, <1>6 DEF NNext, Main, Goroutine, Ended

(* For every N and every size of the channels, the invariant holds. *)
THEOREM Counted == NSpec => [](NTypeOK /\ NInv)
<1>1. NTypeOK /\ NInv /\ [NNext]_nvars => (NTypeOK /\ NInv)'
  BY StepInv
<1> QED BY <1>1, InitInv, PTL DEF NSpec

(* foo.go prints -1, whatever select chooses and whatever the channels     *)
(* hold when the second goroutine says that it is done.                    *)
THEOREM MagicNumberCorrect == NSpec => []MagicNumber
<1>1. NTypeOK /\ NInv => MagicNumber
  <2> SUFFICES ASSUME NTypeOK, NInv, mpc = "printed" PROVE i = -1
    BY DEF MagicNumber
  <2>1. done = 0
    BY DEF NTypeOK, NInv
  <2>2. Returned("inc") + Returned("dec") >= 2
    BY <2>1 DEF NTypeOK, NInv
  <2>3. returned["inc"] = "yes" /\ returned["dec"] = "yes"
    BY <2>2 DEF Returned
  <2>4. sent["inc"] = N /\ sent["dec"] = N /\ chan["inc"] = 0 /\ chan["dec"] = 0
    BY <2>3 DEF NInv, Workers
  <2> QED BY <2>4, ServerAssumption DEF NInv
<1> QED BY <1>1, Counted, PTL

-----------------------------------------------------------------------------
(* server_wfh.d: what the echo server says back. *)

ETypeOK ==
  /\ thread \in [Sockets -> {"none", "backlog", "receiving", "dead", "closed"}]
  /\ peer \in [Sockets -> {"there", "left", "reset"}]
  /\ spoken \in [Sockets -> Seq(Bytes)]
  /\ taken \in [Sockets -> Nat]
  /\ \A s \in Sockets : taken[s] <= Len(spoken[s])
  /\ buf \in [Sockets -> [1 .. bufferSize -> Int]]
  /\ answers \in [Sockets -> Seq(Seq(Int))]

(* Between two messages buf is blank, or as it was made: then nothing has  *)
(* been received.                                                          *)
Clean(s) ==
  thread[s] # "dead" =>
    \/ \A k \in 1 .. bufferSize : buf[s][k] = 0
    \/ /\ taken[s] = 0
       /\ \A k \in 1 .. bufferSize : buf[s][k] = -1

(* The parts of EchoIsSpoken, and DiesOnlyOverlong, of one socket. *)
InOnePiece(s) ==
  \A p \in DOMAIN answers[s] : \A k \in 1 .. Len(answers[s][p]) - 1 :
    answers[s][p][k + 1] = answers[s][p][k] + 1

InThisOrder(s) ==
  \A p, q \in DOMAIN answers[s] : p < q =>
    \A k \in DOMAIN answers[s][p], m \in DOMAIN answers[s][q] :
      answers[s][p][k] < answers[s][q][m]

ByThisPeer(s) ==
  \A p \in DOMAIN answers[s] : \A k \in DOMAIN answers[s][p] :
    /\ answers[s][p][k] \in 1 .. taken[s]
    /\ spoken[s][answers[s][p][k]] # "end"

NotText(s, b) == \E e \in 1 .. b : b - e < bufferSize /\ spoken[s][e] # "text"

SaidBack(s) ==
  thread[s] # "dead" => \A b \in 1 .. taken[s] : Said(s, b) \/ NotText(s, b)

Overlong(s) ==
  thread[s] = "dead" =>
    \/ peer[s] = "reset"
    \/ \A b \in Latest(s) : spoken[s][b] # "end"
    \/ \E b \in Latest(s) : spoken[s][b] \in {"lead", "tail"}

Receiver(s) ==
  /\ Clean(s)
  /\ InOnePiece(s) /\ InThisOrder(s) /\ ByThisPeer(s) /\ SaidBack(s)
  /\ Overlong(s)

EInv == ETypeOK /\ \A s \in Sockets : Receiver(s)

-----------------------------------------------------------------------------
(* The first '\0' of a buffer, and the characters before it. *)

LEMMA LeastNatural ==
  ASSUME NEW S, S \subseteq Nat, S # {}
  PROVE  \E x \in S : \A y \in S : x <= y
<1>. DEFINE R == {ss \in Nat \X Nat : ss[1] < ss[2]}
<1>1. IsWellFoundedOn(R, Nat)
  BY NatLessThanWellFounded DEF OpToRel
<1>. HIDE DEF R
<1>2. PICK x \in S : \A y \in S : ~ (<<y, x>> \in R)
  BY <1>1, WFMin, Zenon
<1>3. \A y \in S : ~ (y < x)
  BY <1>2 DEF R
<1>. QED
  BY <1>3

LEMMA FirstEnd ==
  ASSUME NEW b \in [1 .. bufferSize -> Int], \E k \in 1 .. bufferSize : b[k] = 0
  PROVE  /\ First(b) \in 1 .. bufferSize
         /\ b[First(b)] = 0
         /\ \A k \in 1 .. First(b) - 1 : b[k] # 0
<1>. DEFINE Zeros == {k \in 1 .. bufferSize : b[k] = 0}
            IsFirst(z) == z \in DOMAIN b /\ b[z] = 0 /\ \A k \in 1 .. z - 1 : b[k] # 0
<1>1. bufferSize \in Nat \ {0} /\ DOMAIN b = 1 .. bufferSize
  BY EchoAssumption
<1>2. PICK least \in Zeros : \A k \in Zeros : least <= k
  <2>1. Zeros \subseteq Nat /\ Zeros # {}
    OBVIOUS
  <2>. QED
    BY <2>1, LeastNatural, Zenon
<1>3. IsFirst(least)
  BY <1>1, <1>2
<1>4. IsFirst(First(b))
  BY <1>3, Zenon DEF First
<1>. QED
  BY <1>1, <1>4

(* There are no more characters than bytes, and as many if no byte is the  *)
(* tail of a character.                                                    *)
LEMMA TextValue ==
  ASSUME NEW s, NEW b \in [1 .. bufferSize -> Int], \E k \in 1 .. bufferSize : b[k] = 0
  PROVE  /\ Text(s, b) \in Seq(Int)
         /\ Len(Text(s, b)) \in 0 .. First(b) - 1
         /\ \A k \in 1 .. Len(Text(s, b)) : Text(s, b)[k] = b[k]
         /\ \A k \in 1 .. First(b) - 1 :
              (\A m \in 1 .. k : Byte(s, b, m) # "tail") => k <= Len(Text(s, b))
<1>1. bufferSize \in Nat \ {0} /\ b \in Seq(Int) /\ Len(b) = bufferSize
  BY EchoAssumption
<1>2. PICK z \in 1 .. bufferSize : z = First(b)
  BY FirstEnd
<1>3. PICK S : S = {k \in 1 .. z - 1 : Byte(s, b, k) # "tail"}
  OBVIOUS
<1>4. PICK n : n = Cardinality(S)
  OBVIOUS
<1>5. n \in 0 .. z - 1
  <2>0. PICK w \in Nat : w = z - 1
    BY <1>1, <1>2
  <2>1. IsFiniteSet(1 .. w) /\ Cardinality(1 .. w) = w
    <3>1. 1 \in Int /\ w \in Int
      BY <2>0
    <3>2. /\ IsFiniteSet(1 .. w)
          /\ Cardinality(1 .. w) = IF 1 > w THEN 0 ELSE w - 1 + 1
      BY <3>1, FS_Interval, Zenon
    <3>. QED
      BY <2>0, <3>2
  <2>2. S \subseteq 1 .. w
    BY <1>3, <2>0
  <2>3. IsFiniteSet(S) /\ Cardinality(S) <= z - 1
    <3>1. IsFiniteSet(S) /\ Cardinality(S) <= Cardinality(1 .. w)
      BY <2>1, <2>2, FS_Subset, Zenon
    <3>. QED
      BY <2>0, <2>1, <3>1
  <2>4. Cardinality(S) \in Nat
    BY <2>3, FS_CardinalityType
  <2>. QED
    BY <1>1, <1>2, <1>4, <2>3, <2>4
<1>6. Text(s, b) = SubSeq(b, 1, n)
  BY <1>2, <1>3, <1>4 DEF Text
<1>7. /\ Text(s, b) \in Seq(Int) /\ Len(Text(s, b)) = n
      /\ \A k \in 1 .. n : Text(s, b)[k] = b[k]
  BY <1>1, <1>2, <1>5, <1>6
<1>8. ASSUME NEW k \in 1 .. z - 1, \A m \in 1 .. k : Byte(s, b, m) # "tail"
      PROVE  k <= n
  <2>1. 1 .. k \subseteq S
    BY <1>1, <1>2, <1>3, <1>8
  <2>2. IsFiniteSet(1 .. z - 1) /\ IsFiniteSet(1 .. k) /\ Cardinality(1 .. k) = k
    BY <1>1, <1>2, FS_Interval
  <2>3. IsFiniteSet(S)
    BY <1>3, <2>2, FS_Subset
  <2>. QED
    BY <1>4, <2>1, <2>2, <2>3, FS_Subset
<1>. QED
  BY <1>2, <1>5, <1>7, <1>8

(* A message of ASCII characters is decoded. *)
LEMMA AsciiDecodes ==
  ASSUME NEW s, NEW b \in [1 .. bufferSize -> Int], NEW z \in 1 .. bufferSize, b[z] = 0,
         \A k \in 1 .. z - 1 : b[k] > 0 /\ spoken[s][b[k]] \notin {"lead", "tail"}
  PROVE  Decodes(s, b)
<1>1. bufferSize \in Nat \ {0}
  BY EchoAssumption
<1>2. \A k \in 1 .. z : Byte(s, b, k) \notin {"lead", "tail"}
  <2>1. \A k \in 1 .. z - 1 : Byte(s, b, k) \notin {"lead", "tail"}
    BY DEF Byte
  <2>2. Byte(s, b, z) = "end"
    BY DEF Byte
  <2>3. \A k \in 1 .. z : k = z \/ k \in 1 .. z - 1
    BY <1>1
  <2>. QED
    BY <2>1, <2>2, <2>3
<1>3. 1 \in 1 .. z /\ \A k \in 1 .. z - 1 : k \in 1 .. z /\ k + 1 \in 1 .. z
  BY <1>1
<1>. QED
  BY <1>2, <1>3 DEF Decodes

-----------------------------------------------------------------------------
(* The steps of the server and of its peers. *)

(* What a step leaves alone of a socket: its peer may have said more, and  *)
(* its receiver may have noticed a reset.                                  *)
Same(s) ==
  /\ taken'[s] = taken[s] /\ buf'[s] = buf[s] /\ answers'[s] = answers[s]
  /\ thread[s] = "dead" => thread'[s] = "dead"
  /\ thread'[s] = "dead" => thread[s] = "dead" \/ peer'[s] = "reset"
  /\ peer[s] = "reset" => peer'[s] = "reset"
  /\ Len(spoken[s]) <= Len(spoken'[s])
  /\ \A b \in 1 .. Len(spoken[s]) : spoken'[s][b] = spoken[s][b]

LEMMA SocketTypes ==
  ASSUME ETypeOK, NEW s \in Sockets
  PROVE  /\ taken[s] \in Nat /\ Len(spoken[s]) \in Nat /\ taken[s] <= Len(spoken[s])
         /\ spoken[s] \in Seq(Bytes)
         /\ DOMAIN spoken[s] = 1 .. Len(spoken[s])
         /\ buf[s] \in [1 .. bufferSize -> Int]
         /\ answers[s] \in Seq(Seq(Int))
         /\ \A p \in DOMAIN answers[s] : answers[s][p] \in Seq(Int)
         /\ bufferSize \in Nat \ {0}
<1>1. spoken[s] \in Seq(Bytes) /\ answers[s] \in Seq(Seq(Int))
  BY DEF ETypeOK
<1>. QED
  BY <1>1, EchoAssumption DEF ETypeOK

LEMMA SameReceiver ==
  ASSUME ETypeOK, NEW s \in Sockets, Receiver(s), Same(s)
  PROVE  Receiver(s)'
<1>2. \A b \in 1 .. taken[s] : spoken'[s][b] = spoken[s][b]
  BY SocketTypes DEF Same
<1>3. Clean(s)'
  BY DEF Receiver, Clean, Same
<1>4. InOnePiece(s)' /\ InThisOrder(s)'
  BY DEF Receiver, InOnePiece, InThisOrder, Same
<1>5. ByThisPeer(s)'
  BY <1>2 DEF Receiver, ByThisPeer, Same
<1>6. SaidBack(s)'
  <2>. SUFFICES ASSUME thread[s] # "dead", NEW b \in 1 .. taken[s]
                PROVE  Said(s, b)' \/ NotText(s, b)'
    BY DEF SaidBack, Same
  <2>1. CASE Said(s, b)
    BY <2>1 DEF Said, Same
  <2>2. CASE NotText(s, b)
    <3>1. PICK e \in 1 .. b : b - e < bufferSize /\ spoken[s][e] # "text"
      BY <2>2 DEF NotText
    <3>2. e \in 1 .. taken[s]
      BY SocketTypes
    <3>. QED
      BY <1>2, <3>1, <3>2 DEF NotText
  <2>. QED
    BY <2>1, <2>2 DEF Receiver, SaidBack
<1>7. Overlong(s)'
  <2>. SUFFICES ASSUME thread[s] = "dead", peer'[s] # "reset" PROVE Overlong(s)'
    BY DEF Overlong, Same
  <2>1. Latest(s)' = Latest(s) /\ \A b \in Latest(s) : spoken'[s][b] = spoken[s][b]
    BY <1>2 DEF Latest, Same
  <2>. QED
    BY <2>1 DEF Receiver, Overlong, Same
<1>. QED
  BY <1>3, <1>4, <1>5, <1>6, <1>7 DEF Receiver

(* The message of n bytes that a receiver finds in buf. *)
LEMMA MessageValue ==
  ASSUME ETypeOK, NEW s \in Sockets, thread[s] = "receiving", Receiver(s),
         NEW n \in 1 .. bufferSize, n <= Len(spoken[s]) - taken[s],
         NEW b, b = Received(s, n)
  PROVE  /\ b \in [1 .. bufferSize -> Int]
         /\ \A k \in 1 .. n : IF spoken[s][taken[s] + k] = "end" THEN b[k] = 0
                              ELSE b[k] = taken[s] + k /\ b[k] > 0
         /\ \/ \A k \in n + 1 .. bufferSize : b[k] = 0
            \/ /\ taken[s] = 0
               /\ \A k \in n + 1 .. bufferSize : b[k] = -1
<1>1. /\ taken[s] \in Nat /\ bufferSize \in Nat /\ n \in Nat
      /\ buf[s] \in [1 .. bufferSize -> Int]
  BY SocketTypes
<1>2. \A k \in 1 .. bufferSize :
        b[k] = IF k > n THEN buf[s][k]
               ELSE IF spoken[s][taken[s] + k] = "end" THEN 0 ELSE taken[s] + k
  BY DEF Received
<1>3. b \in [1 .. bufferSize -> Int]
  BY <1>1 DEF Received
<1>4. \/ \A k \in 1 .. bufferSize : buf[s][k] = 0
      \/ /\ taken[s] = 0
         /\ \A k \in 1 .. bufferSize : buf[s][k] = -1
  BY DEF Receiver, Clean
<1>5. \A k \in 1 .. n : IF spoken[s][taken[s] + k] = "end" THEN b[k] = 0
                        ELSE b[k] = taken[s] + k /\ b[k] > 0
  <2>. SUFFICES ASSUME NEW k \in 1 .. n
                PROVE  IF spoken[s][taken[s] + k] = "end" THEN b[k] = 0
                       ELSE b[k] = taken[s] + k /\ b[k] > 0
    OBVIOUS
  <2>1. k \in 1 .. bufferSize /\ ~ k > n /\ taken[s] + k > 0
    BY <1>1
  <2>. QED
    BY <1>2, <2>1
<1>6. \A k \in n + 1 .. bufferSize : b[k] = buf[s][k] /\ k \in 1 .. bufferSize
  <2>. SUFFICES ASSUME NEW k \in n + 1 .. bufferSize
                PROVE  b[k] = buf[s][k] /\ k \in 1 .. bufferSize
    OBVIOUS
  <2>1. k \in 1 .. bufferSize /\ k > n
    BY <1>1
  <2>. QED
    BY <1>2, <2>1
<1>7. \/ \A k \in n + 1 .. bufferSize : b[k] = 0
      \/ /\ taken[s] = 0
         /\ \A k \in n + 1 .. bufferSize : b[k] = -1
  BY <1>4, <1>6
<1>. QED
  BY <1>3, <1>5, <1>7

(* Such a message with a '\0', but no part of a character that is not      *)
(* ASCII, is decoded.                                                      *)
LEMMA AsciiMessage ==
  ASSUME ETypeOK, NEW s \in Sockets, thread[s] = "receiving", Receiver(s),
         NEW n \in 1 .. bufferSize, n <= Len(spoken[s]) - taken[s],
         NEW b, b = Received(s, n),
         \E k \in 1 .. bufferSize : b[k] = 0,
         \A k \in 1 .. n : spoken[s][taken[s] + k] \notin {"lead", "tail"}
  PROVE  Decodes(s, b)
<1>1. /\ taken[s] \in Nat /\ bufferSize \in Nat /\ n \in Nat
      /\ b \in [1 .. bufferSize -> Int]
  BY SocketTypes, MessageValue
<1>2. PICK z \in 1 .. bufferSize : b[z] = 0 /\ \A k \in 1 .. z - 1 : b[k] # 0
  BY <1>1, FirstEnd
<1>3. z - 1 <= n
  <2>. SUFFICES ASSUME n + 1 < z PROVE FALSE
    BY <1>1
  <2>1. n + 1 \in 1 .. z - 1 /\ n + 1 \in n + 1 .. bufferSize /\ z \in n + 1 .. bufferSize
    BY <1>1
  <2>2. b[n + 1] # 0 /\ b[z] = 0
    BY <1>2, <2>1
  <2>3. (\A k \in n + 1 .. bufferSize : b[k] = 0) \/ (\A k \in n + 1 .. bufferSize : b[k] = -1)
    <3>1. \/ \A k \in n + 1 .. bufferSize : b[k] = 0
          \/ taken[s] = 0 /\ \A k \in n + 1 .. bufferSize : b[k] = -1
      BY MessageValue
    <3>. QED
      BY <3>1
  <2>. QED
    BY <2>1, <2>2, <2>3
<1>4. ASSUME NEW k \in 1 .. z - 1
      PROVE  b[k] > 0 /\ spoken[s][b[k]] \notin {"lead", "tail"}
  <2>1. k \in 1 .. n
    BY <1>1, <1>3
  <2>2. b[k] # 0
    BY <1>2
  <2>3. b[k] = taken[s] + k /\ b[k] > 0
    BY <2>1, <2>2, MessageValue
  <2>. QED
    BY <2>1, <2>3
<1>. QED
  BY <1>1, <1>2, <1>4, AsciiDecodes

(* A slice that ends in half a character is one of a message that is not   *)
(* ASCII.                                                                  *)
LEMMA HalvedIsLead ==
  ASSUME ETypeOK, NEW s \in Sockets, thread[s] = "receiving", Receiver(s),
         NEW n \in 1 .. bufferSize, n <= Len(spoken[s]) - taken[s],
         NEW b, b = Received(s, n), Decodes(s, b), Halved(s, b)
  PROVE  \E k \in 1 .. n : spoken[s][taken[s] + k] \in {"lead", "tail"}
<1>1. /\ taken[s] \in Nat /\ bufferSize \in Nat /\ n \in Nat
      /\ b \in [1 .. bufferSize -> Int] /\ DOMAIN b = 1 .. bufferSize
  <2>1. b \in [1 .. bufferSize -> Int]
    BY MessageValue
  <2>. QED
    BY <2>1, SocketTypes
<1>2. PICK z \in 1 .. bufferSize : b[z] = 0 /\ \A k \in 1 .. z - 1 : b[k] > 0
  BY <1>1 DEF Decodes
<1>3. /\ First(b) \in 1 .. bufferSize
      /\ \A k \in 1 .. First(b) - 1 : b[k] # 0
  BY <1>1, <1>2, FirstEnd
<1>4. Len(Text(s, b)) \in 0 .. First(b) - 1
  BY <1>1, <1>2, TextValue
<1>5. PICK m : m = Len(Text(s, b))
  OBVIOUS
<1>6. m > 0 /\ Byte(s, b, m) = "lead"
  BY <1>5 DEF Halved
<1>7. z >= First(b)
  <2>1. z \notin 1 .. First(b) - 1
    BY <1>2, <1>3
  <2>. QED
    BY <1>1, <1>3, <2>1
<1>8. m \in 1 .. First(b) - 1 /\ m \in 1 .. z - 1 /\ m \in 1 .. bufferSize
  BY <1>1, <1>3, <1>4, <1>5, <1>6, <1>7
<1>9. b[m] > 0 /\ spoken[s][b[m]] = "lead"
  BY <1>1, <1>2, <1>6, <1>8 DEF Byte
<1>10. m \in 1 .. n
  <2>. SUFFICES ASSUME m > n PROVE FALSE
    BY <1>1, <1>8
  <2>1. m \in n + 1 .. bufferSize
    BY <1>1, <1>8
  <2>2. b[m] = 0 \/ b[m] = -1
    BY <2>1, MessageValue
  <2>. QED
    BY <1>9, <2>2
<1>11. b[m] = taken[s] + m
  BY <1>9, <1>10, MessageValue
<1>. QED
  BY <1>9, <1>10, <1>11

(* A receiver dies of this message alone. *)
LEMMA DeathIsOverlong ==
  ASSUME ETypeOK, NEW s \in Sockets, thread[s] = "receiving", Receiver(s),
         NEW n \in 1 .. bufferSize, n <= Len(spoken[s]) - taken[s],
         NEW b, b = Received(s, n), Decodes(s, b) => Halved(s, b),
         thread'[s] = "dead", taken'[s] = taken[s] + n, spoken'[s] = spoken[s],
         answers'[s] = answers[s]
  PROVE  Receiver(s)'
<1>1. /\ taken[s] \in Nat /\ bufferSize \in Nat \ {0} /\ n \in Nat /\ Len(spoken[s]) \in Nat
  BY SocketTypes
<1>2. InOnePiece(s)' /\ InThisOrder(s)'
  BY DEF Receiver, InOnePiece, InThisOrder
<1>3. ByThisPeer(s)'
  BY <1>1 DEF Receiver, ByThisPeer
<1>4. Clean(s)' /\ SaidBack(s)'
  BY DEF Clean, SaidBack
<1>5. PICK m : m = taken[s] + n
  OBVIOUS
<1>. DEFINE L == {c \in 1 .. m : m - c < bufferSize}
<1>6. Latest(s)' = L
  <2>1. taken'[s] = m
    BY <1>5
  <2>2. Latest(s)' = {c \in 1 .. taken'[s] : taken'[s] - c < bufferSize}
    BY Zenon DEF Latest
  <2>. QED
    BY <2>1, <2>2, Zenon
<1>7. ASSUME \A c \in L : spoken[s][c] \notin {"lead", "tail"}
      PROVE  \A c \in L : spoken[s][c] # "end"
  <2>1. \A k \in 1 .. n : taken[s] + k \in L
    BY <1>1, <1>5
  <2>2. \A k \in 1 .. n : spoken[s][taken[s] + k] \notin {"lead", "tail"}
    BY <1>7, <2>1
  <2>3. ~ Decodes(s, b)
    BY <2>2, HalvedIsLead
  <2>4. \A k \in 1 .. bufferSize : b[k] # 0
    BY <2>2, <2>3, AsciiMessage
  <2>5. n = bufferSize \/ taken[s] = 0
    <3>1. \/ \A k \in n + 1 .. bufferSize : b[k] = 0
          \/ taken[s] = 0
      BY MessageValue
    <3>2. n < bufferSize => bufferSize \in n + 1 .. bufferSize /\ bufferSize \in 1 .. bufferSize
      BY <1>1
    <3>. QED
      BY <1>1, <2>4, <3>1, <3>2
  <2>6. \A k \in 1 .. n : spoken[s][taken[s] + k] # "end"
    <3>1. \A k \in 1 .. n : k \in 1 .. bufferSize
      BY <1>1
    <3>2. \A k \in 1 .. n : spoken[s][taken[s] + k] = "end" => b[k] = 0
      BY MessageValue
    <3>. QED
      BY <2>4, <3>1, <3>2
  <2>. SUFFICES ASSUME NEW c \in L PROVE spoken[s][c] # "end"
    OBVIOUS
  <2>7. c - taken[s] \in 1 .. n /\ taken[s] + (c - taken[s]) = c
    BY <1>1, <1>5, <2>5
  <2>. QED
    BY <2>6, <2>7
<1>8. Overlong(s)'
  BY <1>6, <1>7 DEF Overlong
<1>. QED
  BY <1>2, <1>3, <1>4, <1>8 DEF Receiver

(* t, of len bytes, is what is said back of the n that come next. *)
Reply(s, n, t, len) ==
  /\ t \in Seq(Int)
  /\ Len(t) = len
  /\ \A k \in 1 .. len : t[k] = taken[s] + k /\ spoken[s][taken[s] + k] # "end"
  /\ \A k \in 1 .. n : k > len => \E m \in 1 .. k : spoken[s][taken[s] + m] # "text"

(* What is said back of a message: its beginning, and of an ASCII message  *)
(* all that is before its first '\0'.                                      *)
LEMMA AnswerValue ==
  ASSUME ETypeOK, NEW s \in Sockets, thread[s] = "receiving", Receiver(s),
         NEW n \in 1 .. bufferSize, n <= Len(spoken[s]) - taken[s],
         NEW b, b = Received(s, n), \E k \in 1 .. bufferSize : b[k] = 0
  PROVE  \E len \in 0 .. n : Reply(s, n, Text(s, b), len)
<1>1. /\ taken[s] \in Nat /\ bufferSize \in Nat \ {0} /\ n \in Nat
      /\ b \in [1 .. bufferSize -> Int]
  BY SocketTypes, MessageValue
<1>2. PICK z \in 1 .. bufferSize :
        /\ z = First(b) /\ b[z] = 0
        /\ \A k \in 1 .. z - 1 : b[k] # 0
  BY <1>1, FirstEnd
<1>3. PICK t : t = Text(s, b)
  OBVIOUS
<1>4. /\ t \in Seq(Int) /\ Len(t) \in 0 .. z - 1
      /\ \A k \in 1 .. Len(t) : t[k] = b[k]
      /\ \A k \in 1 .. z - 1 : (\A m \in 1 .. k : Byte(s, b, m) # "tail") => k <= Len(t)
  <2>1. /\ Text(s, b) \in Seq(Int)
        /\ Len(Text(s, b)) \in 0 .. First(b) - 1
        /\ \A k \in 1 .. Len(Text(s, b)) : Text(s, b)[k] = b[k]
        /\ \A k \in 1 .. First(b) - 1 :
             (\A m \in 1 .. k : Byte(s, b, m) # "tail") => k <= Len(Text(s, b))
    BY <1>1, TextValue, Zenon
  <2>. QED
    BY <1>2, <1>3, <2>1, Zenon
<1>5. z - 1 <= n
  <2>. SUFFICES ASSUME n + 1 < z PROVE FALSE
    BY <1>1
  <2>1. n + 1 \in 1 .. z - 1 /\ n + 1 \in n + 1 .. bufferSize /\ z \in n + 1 .. bufferSize
    BY <1>1
  <2>2. b[n + 1] # 0 /\ b[z] = 0
    BY <1>2, <2>1
  <2>3. (\A k \in n + 1 .. bufferSize : b[k] = 0) \/ (\A k \in n + 1 .. bufferSize : b[k] = -1)
    <3>1. \/ \A k \in n + 1 .. bufferSize : b[k] = 0
          \/ taken[s] = 0 /\ \A k \in n + 1 .. bufferSize : b[k] = -1
      BY MessageValue
    <3>. QED
      BY <3>1
  <2>. QED
    BY <2>1, <2>2, <2>3
<1>6. PICK len \in Nat : len = Len(t) /\ len <= z - 1
  BY <1>4
<1>7. ASSUME NEW k \in 1 .. len
      PROVE  t[k] = taken[s] + k /\ spoken[s][taken[s] + k] # "end"
  <2>1. k \in 1 .. n /\ k \in 1 .. z - 1
    BY <1>1, <1>5, <1>6
  <2>2. b[k] # 0 /\ t[k] = b[k]
    BY <1>2, <1>4, <1>6, <2>1
  <2>. QED
    BY <2>1, <2>2, MessageValue
<1>8. ASSUME NEW k \in 1 .. n, \A m \in 1 .. k : spoken[s][taken[s] + m] = "text"
      PROVE  k <= len
  <2>1. \A m \in 1 .. k : m \in 1 .. n
    BY <1>1
  <2>2. \A m \in 1 .. k : b[m] = taken[s] + m /\ b[m] > 0
    BY <1>8, <2>1, MessageValue
  <2>3. \A m \in 1 .. k : Byte(s, b, m) # "tail"
    BY <1>8, <2>2 DEF Byte
  <2>4. z \notin 1 .. k
    BY <1>2, <2>2
  <2>5. k \in 1 .. z - 1
    BY <1>1, <2>4
  <2>. QED
    BY <1>4, <1>6, <2>3, <2>5
<1>9. \A k \in 1 .. n : k > len => \E m \in 1 .. k : spoken[s][taken[s] + m] # "text"
  <2>. SUFFICES ASSUME NEW k \in 1 .. n, k > len, \A m \in 1 .. k : spoken[s][taken[s] + m] = "text"
                PROVE  FALSE
    BY Zenon
  <2>1. k <= len
    BY <1>8
  <2>. QED
    BY <1>1, <1>6, <2>1
<1>10. len \in 0 .. n
  BY <1>1, <1>5, <1>6
<1>. QED
  BY <1>3, <1>4, <1>6, <1>7, <1>9, <1>10 DEF Reply

(* What was said back, or was not text, stays so. *)
LEMMA EarlierSaidBack ==
  ASSUME ETypeOK, NEW s \in Sockets, thread[s] # "dead", Receiver(s),
         spoken'[s] = spoken[s], DOMAIN answers[s] \subseteq DOMAIN answers'[s],
         \A p \in DOMAIN answers[s] : answers'[s][p] = answers[s][p],
         NEW c \in 1 .. taken[s]
  PROVE  Said(s, c)' \/ NotText(s, c)'
<1>1. Said(s, c) \/ NotText(s, c)
  BY DEF Receiver, SaidBack
<1>2. Said(s, c) => Said(s, c)'
  BY DEF Said
<1>3. NotText(s, c) => NotText(s, c)'
  BY DEF NotText
<1>. QED
  BY <1>1, <1>2, <1>3

(* A command is not said back. *)
LEMMA CommandNotSaid ==
  ASSUME ETypeOK, NEW s \in Sockets, thread[s] = "receiving", Receiver(s),
         NEW n \in 1 .. bufferSize, n <= Len(spoken[s]) - taken[s],
         spoken[s][taken[s] + 1] = "connect",
         thread'[s] # "dead", spoken'[s] = spoken[s], answers'[s] = answers[s],
         \A k \in 1 .. bufferSize : buf'[s][k] = 0, taken'[s] = taken[s] + n
  PROVE  Receiver(s)'
<1>1. taken[s] \in Nat /\ bufferSize \in Nat /\ n \in Nat
  BY SocketTypes
<1>2. Clean(s)' /\ Overlong(s)' /\ InOnePiece(s)' /\ InThisOrder(s)'
  BY DEF Receiver, Clean, Overlong, InOnePiece, InThisOrder
<1>3. ByThisPeer(s)'
  BY <1>1 DEF Receiver, ByThisPeer
<1>4. SaidBack(s)'
  <2>. SUFFICES ASSUME NEW c \in 1 .. taken[s] + n PROVE Said(s, c)' \/ NotText(s, c)'
    BY DEF SaidBack
  <2>1. CASE c \in 1 .. taken[s]
    BY <2>1, EarlierSaidBack
  <2>2. CASE taken[s] < c
    <3>1. PICK e \in 1 .. c : e = taken[s] + 1
      BY <1>1, <2>2
    <3>2. c - e < bufferSize /\ spoken[s][e] # "text"
      BY <1>1, <3>1
    <3>. QED
      BY <3>2 DEF NotText
  <2>. QED
    BY <1>1, <2>1, <2>2
<1>. QED
  BY <1>2, <1>3, <1>4 DEF Receiver

(* The step of a receiver that says t back, but for what it takes. *)
Answer(s, t) ==
  /\ thread'[s] # "dead" /\ spoken'[s] = spoken[s]
  /\ answers'[s] = Append(answers[s], t)
  /\ \A k \in 1 .. bufferSize : buf'[s][k] = 0

(* A message is answered: what is said back is the next that was received. *)
LEMMA AnswerIsSpoken ==
  ASSUME ETypeOK, NEW s \in Sockets, thread[s] = "receiving", Receiver(s),
         NEW n \in 1 .. bufferSize, NEW len \in 0 .. n,
         NEW t, Reply(s, n, t, len), Answer(s, t), taken'[s] = taken[s] + n
  PROVE  Receiver(s)'
<1>0. taken[s] \in Nat /\ bufferSize \in Nat /\ n \in Nat /\ len \in Nat
  BY SocketTypes
<1>1. /\ answers[s] \in Seq(Seq(Int))
      /\ \A p \in DOMAIN answers[s] : answers[s][p] \in Seq(Int)
  BY SocketTypes
<1>2. PICK last \in Nat : last = Len(answers[s]) + 1
  BY <1>1
<1>3. /\ DOMAIN answers'[s] = DOMAIN answers[s] \cup {last}
      /\ answers'[s][last] = t
      /\ \A p \in DOMAIN answers[s] : answers'[s][p] = answers[s][p] /\ p \in Nat /\ p < last
  <2>1. t \in Seq(Int) /\ answers'[s] = Append(answers[s], t)
    BY DEF Reply, Answer
  <2>. QED
    BY <1>1, <1>2, <2>1
<1>4. /\ DOMAIN t = 1 .. len /\ Len(t) = len
      /\ \A k \in 1 .. len : t[k] = taken[s] + k /\ spoken[s][taken[s] + k] # "end"
      /\ \A k \in 1 .. n : k > len => \E m \in 1 .. k : spoken[s][taken[s] + m] # "text"
  <2>1. t \in Seq(Int) /\ Len(t) = len
    BY DEF Reply
  <2>2. DOMAIN t = 1 .. Len(t)
    BY <2>1
  <2>. QED
    BY <2>1, <2>2, Zenon DEF Reply
<1>5. \A p \in DOMAIN answers[s] : \A k \in DOMAIN answers[s][p] :
        answers[s][p][k] \in 1 .. taken[s] /\ spoken[s][answers[s][p][k]] # "end"
  BY DEF Receiver, ByThisPeer
<1>6. Clean(s)' /\ Overlong(s)'
  BY DEF Clean, Overlong, Answer
<1>7. InOnePiece(s)'
  <2>. SUFFICES ASSUME NEW p \in DOMAIN answers'[s], NEW k \in 1 .. Len(answers'[s][p]) - 1
                PROVE  answers'[s][p][k + 1] = answers'[s][p][k] + 1
    BY DEF InOnePiece
  <2>1. CASE p = last
    <3>1. k \in 1 .. len /\ k + 1 \in 1 .. len
      <4>1. k \in 1 .. len - 1
        BY <1>3, <1>4, <2>1
      <4>. QED
        BY <1>0, <4>1
    <3>2. t[k] = taken[s] + k /\ t[k + 1] = taken[s] + (k + 1)
      BY <1>4, <3>1
    <3>3. answers'[s][p][k] = taken[s] + k /\ answers'[s][p][k + 1] = taken[s] + (k + 1)
      BY <1>3, <2>1, <3>2
    <3>. QED
      BY <1>0, <3>1, <3>3
  <2>2. CASE p \in DOMAIN answers[s]
    BY <1>3, <2>2 DEF Receiver, InOnePiece
  <2>. QED
    BY <1>3, <2>1, <2>2
<1>8. InThisOrder(s)'
  <2>. SUFFICES ASSUME NEW p \in DOMAIN answers'[s], NEW q \in DOMAIN answers'[s], p < q,
                       NEW k \in DOMAIN answers'[s][p], NEW m \in DOMAIN answers'[s][q]
                PROVE  answers'[s][p][k] < answers'[s][q][m]
    BY DEF InThisOrder
  <2>1. p \in DOMAIN answers[s] /\ p # last
    <3>1. ASSUME p = last PROVE FALSE
      <4>1. q # last /\ q \in DOMAIN answers[s]
        BY <1>2, <1>3, <3>1
      <4>2. q < last /\ q \in Nat
        BY <1>0, <1>3, <4>1
      <4>. QED
        BY <1>2, <3>1, <4>2
    <3>. QED
      BY <1>3, <3>1
  <2>2. CASE q = last
    <3>1. answers'[s][p][k] \in 1 .. taken[s]
      BY <1>3, <1>5, <2>1
    <3>2. m \in 1 .. len /\ answers'[s][q][m] = taken[s] + m
      BY <1>3, <1>4, <2>2
    <3>. QED
      BY <1>0, <3>1, <3>2
  <2>3. CASE q \in DOMAIN answers[s]
    BY <1>3, <2>1, <2>3 DEF Receiver, InThisOrder
  <2>. QED
    BY <1>3, <2>2, <2>3
<1>9. ByThisPeer(s)'
  <2>. SUFFICES ASSUME NEW p \in DOMAIN answers'[s], NEW k \in DOMAIN answers'[s][p]
                PROVE  /\ answers'[s][p][k] \in 1 .. taken'[s]
                       /\ spoken[s][answers'[s][p][k]] # "end"
    BY DEF ByThisPeer, Answer
  <2>1. CASE p = last
    <3>1. k \in 1 .. len
      BY <1>3, <1>4, <2>1
    <3>2. answers'[s][p][k] = taken[s] + k /\ spoken[s][taken[s] + k] # "end"
      BY <1>3, <1>4, <2>1, <3>1
    <3>3. taken[s] + k \in 1 .. taken'[s]
      BY <1>0, <3>1
    <3>. QED
      BY <3>2, <3>3
  <2>2. CASE p \in DOMAIN answers[s]
    <3>1. answers'[s][p][k] \in 1 .. taken[s] /\ spoken[s][answers'[s][p][k]] # "end"
      BY <1>3, <1>5, <2>2
    <3>. QED
      BY <1>0, <3>1
  <2>. QED
    BY <1>3, <2>1, <2>2
<1>10. SaidBack(s)'
  <2>. SUFFICES ASSUME NEW c \in 1 .. taken[s] + n PROVE Said(s, c)' \/ NotText(s, c)'
    BY DEF SaidBack, Answer
  <2>1. CASE c \in 1 .. taken[s]
    <3>1. /\ spoken'[s] = spoken[s] /\ DOMAIN answers[s] \subseteq DOMAIN answers'[s]
          /\ \A p \in DOMAIN answers[s] : answers'[s][p] = answers[s][p]
      BY <1>3 DEF Answer
    <3>. QED
      BY <2>1, <3>1, EarlierSaidBack
  <2>2. CASE taken[s] < c
    <3>1. PICK k \in 1 .. n : c = taken[s] + k
      <4>1. c - taken[s] \in 1 .. n /\ c = taken[s] + (c - taken[s])
        BY <1>0, <2>2
      <4>. QED
        BY <4>1
    <3>2. CASE k <= len
      <4>1. k \in 1 .. len
        BY <1>0, <3>2
      <4>2. k \in DOMAIN t /\ t[k] = c
        BY <1>4, <3>1, <4>1
      <4>. QED
        BY <1>3, <4>2 DEF Said
    <3>3. CASE k > len
      <4>1. PICK m \in 1 .. k : spoken[s][taken[s] + m] # "text"
        BY <1>4, <3>3
      <4>2. PICK e \in 1 .. c : e = taken[s] + m
        BY <1>0, <3>1
      <4>3. c - e < bufferSize
        BY <1>0, <3>1, <4>2
      <4>. QED
        BY <4>1, <4>2, <4>3 DEF NotText, Answer
    <3>. QED
      BY <1>0, <3>2, <3>3
  <2>. QED
    BY <1>0, <2>1, <2>2
<1>. QED
  BY <1>6, <1>7, <1>8, <1>9, <1>10 DEF Receiver

(* What receive and the thread do with a message. *)
Handled(s, n, b) ==
  \/ /\ Decodes(s, b) => Command(s, b) /\ Halved(s, b)
     /\ thread' = [thread EXCEPT ![s] = "dead"]
     /\ buf' = [buf EXCEPT ![s] = b]
     /\ UNCHANGED answers
  \/ /\ Decodes(s, b)
     /\ buf' = [buf EXCEPT ![s] = Blank(b)]
     /\ IF Command(s, b)
        THEN ConnectTo /\ UNCHANGED answers
        ELSE /\ answers' = [answers EXCEPT ![s] = Append(@, Text(s, b))]
             /\ UNCHANGED thread

LEMMA ReceiveCases ==
  ASSUME NEW s \in Sockets, TCPReceive(s)
  PROVE  /\ UNCHANGED <<spoken, peer>> /\ thread[s] = "receiving"
         /\ \E n \in 1 .. bufferSize :
              /\ n <= Len(spoken[s]) - taken[s]
              /\ taken' = [taken EXCEPT ![s] = @ + n]
              /\ Handled(s, n, Received(s, n))
BY Zenon DEF TCPReceive, Handled

(* What a receiver leaves alone of the other sockets. *)
LEMMA OthersSame ==
  ASSUME ETypeOK, NEW s \in Sockets, TCPReceive(s), NEW r \in Sockets \ {s}
  PROVE  Same(r)
<1>1. PICK n \in 1 .. bufferSize :
        /\ taken' = [taken EXCEPT ![s] = @ + n]
        /\ Handled(s, n, Received(s, n))
  BY ReceiveCases
<1>2. UNCHANGED <<spoken, peer>>
  BY ReceiveCases
<1>3. taken'[r] = taken[r] /\ buf'[r] = buf[r] /\ answers'[r] = answers[r]
  BY <1>1 DEF ETypeOK, Handled
<1>4. thread'[r] = "dead" <=> thread[r] = "dead"
  BY <1>1 DEF ETypeOK, Handled, ConnectTo, Sockets
<1>5. Len(spoken[r]) <= Len(spoken'[r])
  BY <1>2, SocketTypes
<1>. QED
  BY <1>2, <1>3, <1>4, <1>5 DEF Same

(* A receiver takes its types and its invariant through a message. *)
LEMMA ReceiveStep ==
  ASSUME ETypeOK, NEW s \in Sockets, TCPReceive(s), Receiver(s)
  PROVE  ETypeOK' /\ Receiver(s)'
<1>1. PICK n \in 1 .. bufferSize :
        /\ n <= Len(spoken[s]) - taken[s]
        /\ taken' = [taken EXCEPT ![s] = @ + n]
        /\ Handled(s, n, Received(s, n))
  BY ReceiveCases
<1>2. UNCHANGED <<spoken, peer>> /\ thread[s] = "receiving"
  BY ReceiveCases
<1>3. PICK b : b = Received(s, n)
  OBVIOUS
<1>4. b \in [1 .. bufferSize -> Int] /\ DOMAIN b = 1 .. bufferSize
  <2>1. b \in [1 .. bufferSize -> Int]
    BY <1>1, <1>2, <1>3, MessageValue
  <2>. QED
    BY <2>1
<1>5. taken' \in [Sockets -> Nat] /\ taken'[s] = taken[s] + n /\ taken'[s] <= Len(spoken[s])
  <2>1. n \in Nat /\ taken \in [Sockets -> Nat] /\ taken[s] \in Nat /\ Len(spoken[s]) \in Nat
    BY SocketTypes DEF ETypeOK
  <2>. QED
    BY <1>1, <2>1
<1>6. \A r \in Sockets : taken'[r] <= Len(spoken[r])
  BY <1>1, <1>5 DEF ETypeOK
<1>7. CASE /\ Decodes(s, b) => Halved(s, b)
           /\ thread' = [thread EXCEPT ![s] = "dead"]
           /\ buf' = [buf EXCEPT ![s] = b]
           /\ answers' = answers
  <2>1. ETypeOK'
    BY <1>2, <1>4, <1>5, <1>6, <1>7 DEF ETypeOK
  <2>2. thread'[s] = "dead"
    BY <1>7 DEF ETypeOK
  <2>3. Receiver(s)'
    BY <1>1, <1>2, <1>3, <1>5, <1>7, <2>2, DeathIsOverlong
  <2>. QED
    BY <2>1, <2>3
<1>8. ASSUME Decodes(s, b), buf' = [buf EXCEPT ![s] = Blank(b)]
      PROVE  /\ \E k \in 1 .. bufferSize : b[k] = 0
             /\ buf' \in [Sockets -> [1 .. bufferSize -> Int]]
             /\ \A k \in 1 .. bufferSize : buf'[s][k] = 0
  BY <1>4, <1>8 DEF ETypeOK, Blank, Decodes
<1>9. CASE /\ Decodes(s, b) /\ Command(s, b)
           /\ buf' = [buf EXCEPT ![s] = Blank(b)]
           /\ ConnectTo /\ answers' = answers
  <2>1. /\ thread' \in [Sockets -> {"none", "backlog", "receiving", "dead", "closed"}]
        /\ thread'[s] # "dead"
    BY <1>2, <1>9 DEF ETypeOK, ConnectTo, Sockets
  <2>2. ETypeOK'
    BY <1>2, <1>5, <1>6, <1>8, <1>9, <2>1 DEF ETypeOK
  <2>3. spoken[s][taken[s] + 1] = "connect"
    <3>1. b[1] # 0 /\ spoken[s][b[1]] = "connect"
      BY <1>9 DEF Command, Byte
    <3>2. 1 \in 1 .. n
      BY SocketTypes
    <3>3. b[1] = taken[s] + 1
      BY <1>1, <1>2, <1>3, <3>1, <3>2, MessageValue
    <3>. QED
      BY <3>1, <3>3
  <2>4. Receiver(s)'
    BY <1>1, <1>2, <1>5, <1>8, <1>9, <2>1, <2>3, CommandNotSaid
  <2>. QED
    BY <2>2, <2>4
<1>10. CASE /\ Decodes(s, b)
            /\ buf' = [buf EXCEPT ![s] = Blank(b)]
            /\ answers' = [answers EXCEPT ![s] = Append(@, Text(s, b))]
            /\ thread' = thread
  <2>1. PICK t : t = Text(s, b)
    OBVIOUS
  <2>2. PICK len \in 0 .. n : Reply(s, n, t, len)
    BY <1>1, <1>2, <1>3, <1>8, <1>10, <2>1, AnswerValue
  <2>3. t \in Seq(Int)
    BY <2>2 DEF Reply
  <2>4. answers' \in [Sockets -> Seq(Seq(Int))] /\ answers'[s] = Append(answers[s], t)
    <3>1. answers \in [Sockets -> Seq(Seq(Int))] /\ answers[s] \in Seq(Seq(Int))
      BY DEF ETypeOK
    <3>2. Append(answers[s], t) \in Seq(Seq(Int))
      BY <2>3, <3>1
    <3>. QED
      BY <1>10, <2>1, <3>1, <3>2
  <2>5. ETypeOK'
    BY <1>2, <1>5, <1>6, <1>8, <1>10, <2>4 DEF ETypeOK
  <2>6. Answer(s, t)
    BY <1>2, <1>8, <1>10, <2>4 DEF Answer
  <2>7. Receiver(s)'
    BY <1>2, <1>5, <2>2, <2>6, AnswerIsSpoken
  <2>. QED
    BY <2>5, <2>7
<1>. QED
  BY <1>1, <1>3, <1>7, <1>9, <1>10 DEF Handled

(* The other steps: a peer says more or goes, and its receiver notices. *)
LEMMA OtherStep ==
  ASSUME ETypeOK,
         \/ \E s \in Sockets : Connect(s) \/ Say(s) \/ Leave(s) \/ TCPAccepter(s) \/ TCPClose(s)
         \/ Datagram \/ UDPEchoer \/ UNCHANGED evars
  PROVE  ETypeOK' /\ \A r \in Sockets : Same(r)
<1>1. ASSUME UNCHANGED spoken, taken' = taken, buf' = buf, answers' = answers,
             thread' \in [Sockets -> {"none", "backlog", "receiving", "dead", "closed"}],
             peer' \in [Sockets -> {"there", "left", "reset"}],
             \A r \in Sockets : /\ thread[r] = "dead" => thread'[r] = "dead"
                                /\ thread'[r] = "dead" => thread[r] = "dead" \/ peer'[r] = "reset"
                                /\ peer[r] = "reset" => peer'[r] = "reset"
      PROVE  ETypeOK' /\ \A r \in Sockets : Same(r)
  <2>1. \A r \in Sockets : Len(spoken[r]) \in Nat
    BY SocketTypes
  <2>. QED
    BY <1>1, <2>1 DEF ETypeOK, Same
<1>2. ASSUME NEW s \in Sockets, Connect(s) \/ TCPAccepter(s) \/ TCPClose(s)
      PROVE  ETypeOK' /\ \A r \in Sockets : Same(r)
  <2>1. /\ thread' \in [Sockets -> {"none", "backlog", "receiving", "dead", "closed"}]
        /\ peer' = peer
        /\ \A r \in Sockets : /\ thread[r] = "dead" => thread'[r] = "dead"
                              /\ thread'[r] = "dead" => thread[r] = "dead" \/ peer[r] = "reset"
    BY <1>2 DEF ETypeOK, Connect, TCPAccepter, TCPClose
  <2>. QED
    BY <1>1, <1>2, <2>1 DEF ETypeOK, Connect, TCPAccepter, TCPClose
<1>3. ASSUME NEW s \in Sockets, Leave(s)
      PROVE  ETypeOK' /\ \A r \in Sockets : Same(r)
  <2>1. /\ peer' \in [Sockets -> {"there", "left", "reset"}]
        /\ \A r \in Sockets : peer[r] = "reset" => peer'[r] = "reset"
    BY <1>3 DEF ETypeOK, Leave
  <2>. QED
    BY <1>1, <1>3, <2>1 DEF ETypeOK, Leave
<1>4. CASE Datagram \/ UDPEchoer \/ UNCHANGED evars
  BY <1>1, <1>4 DEF Datagram, UDPEchoer, evars, tcp, ETypeOK
<1>5. ASSUME NEW s \in Sockets, Say(s)
      PROVE  ETypeOK' /\ \A r \in Sockets : Same(r)
  <2>1. PICK byte \in Bytes : spoken' = [spoken EXCEPT ![s] = Append(@, byte)]
    BY <1>5, Zenon DEF Say
  <2>2. UNCHANGED <<thread, peer, taken, buf, answers>>
    BY <1>5, Zenon DEF Say
  <2>3. \A r \in Sockets : /\ spoken'[r] = IF r = s THEN Append(spoken[r], byte) ELSE spoken[r]
                           /\ spoken[r] \in Seq(Bytes)
                           /\ taken[r] \in Nat /\ taken[r] <= Len(spoken[r])
    BY <2>1 DEF ETypeOK
  <2>4. \A r \in Sockets :
          /\ spoken'[r] \in Seq(Bytes)
          /\ Len(spoken[r]) <= Len(spoken'[r])
          /\ taken[r] <= Len(spoken'[r])
          /\ \A b \in 1 .. Len(spoken[r]) : spoken'[r][b] = spoken[r][b]
    <3>. SUFFICES ASSUME NEW r \in Sockets
                  PROVE  /\ spoken'[r] \in Seq(Bytes)
                         /\ Len(spoken[r]) <= Len(spoken'[r])
                         /\ taken[r] <= Len(spoken'[r])
                         /\ \A b \in 1 .. Len(spoken[r]) : spoken'[r][b] = spoken[r][b]
      OBVIOUS
    <3>1. CASE r = s
      <4>1. spoken'[r] = Append(spoken[r], byte) /\ spoken[r] \in Seq(Bytes)
        BY <2>3, <3>1
      <4>2. /\ spoken'[r] \in Seq(Bytes)
            /\ Len(spoken'[r]) = Len(spoken[r]) + 1 /\ Len(spoken[r]) \in Nat
            /\ \A b \in 1 .. Len(spoken[r]) : spoken'[r][b] = spoken[r][b]
        BY <4>1
      <4>. QED
        BY <2>3, <4>2
    <3>2. CASE r # s
      BY <2>3, <3>2
    <3>. QED
      BY <3>1, <3>2
  <2>5. spoken' \in [Sockets -> Seq(Bytes)]
    BY <2>1, <2>4 DEF ETypeOK
  <2>6. ETypeOK'
    BY <2>2, <2>4, <2>5 DEF ETypeOK
  <2>. QED
    BY <2>2, <2>4, <2>6 DEF Same
<1>. QED
  BY <1>2, <1>3, <1>4, <1>5

(* Every state of the echo server satisfies the invariant. *)
THEOREM EveryReceiver == ESpec => []EInv
<1>1. EInit => EInv
  <2>. SUFFICES ASSUME EInit PROVE EInv
    OBVIOUS
  <2>1. ETypeOK
    BY EchoAssumption DEF EInit, ETypeOK
  <2>. QED
    BY <2>1, EchoAssumption
    DEF EInit, EInv, Receiver, Clean, InOnePiece, InThisOrder, ByThisPeer, SaidBack, Overlong
<1>2. EInv /\ [ENext]_evars => EInv'
  <2>. SUFFICES ASSUME EInv, [ENext]_evars PROVE EInv'
    OBVIOUS
  <2>1. ETypeOK /\ \A r \in Sockets : Receiver(r)
    BY DEF EInv
  <2>2. ASSUME NEW s \in Sockets, TCPReceive(s) PROVE EInv'
    <3>1. ETypeOK' /\ Receiver(s)'
      BY <2>1, <2>2, ReceiveStep
    <3>2. \A r \in Sockets \ {s} : Receiver(r)'
      BY <2>1, <2>2, OthersSame, SameReceiver
    <3>. QED
      BY <3>1, <3>2 DEF EInv
  <2>3. CASE \/ \E s \in Sockets : \/ Connect(s) \/ Say(s) \/ Leave(s)
                                   \/ TCPAccepter(s) \/ TCPClose(s)
             \/ Datagram \/ UDPEchoer \/ UNCHANGED evars
    <3>1. ETypeOK' /\ \A r \in Sockets : Same(r)
      BY <2>1, <2>3, OtherStep
    <3>2. \A r \in Sockets : Receiver(r)'
      BY <2>1, <3>1, SameReceiver
    <3>. QED
      BY <3>1, <3>2 DEF EInv
  <2>. QED
    BY <2>2, <2>3 DEF ENext, Serve
<1>. QED
  BY <1>1, <1>2, PTL DEF ESpec

(* server_wfh.d says back what this peer said, in one piece, in this order *)
(* and once, whatever the size of its buffer and however the stream is cut;*)
(* and all the ASCII text that does not follow something else.             *)
THEOREM EchoesWhatWasSpoken == ESpec => []EchoIsSpoken
<1>1. EInv => EchoIsSpoken
  BY DEF EInv, Receiver, InOnePiece, InThisOrder, ByThisPeer, SaidBack, NotText, EchoIsSpoken
<1>. QED
  BY <1>1, EveryReceiver, PTL

(* A receiver of server_wfh.d dies of a reset connection, of a buffer      *)
(* without a '\0', or of what is not ASCII, and never of what is left of   *)
(* an earlier message.                                                     *)
THEOREM DiesOfOneMessage == ESpec => []DiesOnlyOverlong
<1>1. EInv => DiesOnlyOverlong
  BY DEF EInv, Receiver, Overlong, DiesOnlyOverlong
<1>. QED
  BY <1>1, EveryReceiver, PTL

===============================================================================
