------------------------ MODULE ModbusGatewayProofs ------------------------
(***************************************************************************)
(* Proofs about ModbusGateway and Collector, for every number of devices,  *)
(* retries and periods, every set of answers and of announced lengths and  *)
(* both layouts: types, the one socket, that a device is never given       *)
(* another answer if answers arrive whole, and that nothing but an answer  *)
(* short of its fields stops the process.                                  *)
(*                                                                         *)
(* The parser never compares the transaction number.  It need not, because *)
(* of what Wire says: outside an exchange nothing is asked and nothing     *)
(* waits to be read, and inside one there is only the request just         *)
(* written, or its answer, or what the header left of it.  Every exit from *)
(* an exchange must keep that, the failed ones by closing the connection.  *)
(* Answers that arrive in pieces break it (finding 3 of the README), so    *)
(* Wire is claimed of a connection on which answers are whole: Whole.      *)
(***************************************************************************)
EXTENDS Collector, SequenceTheorems, TLAPS

-----------------------------------------------------------------------------
(* The inductive invariants.                                               *)

\* An exchange has a connection.
Exchanging == {"write", "header", "pdu"}
ActiveInUse == pc \in Exchanging => activeConn # None

\* A frame under way has a length.
LengthRead == pc = "pdu" => respLen >= 1

\* Only a panic ends the goroutine so.
PanicPlace == panicked <=> pc = "crashed"

SocketInv == TypeOK /\ OneSocket /\ ActiveInUse /\ LengthRead /\ PanicPlace

\* The request written last.
Asking == [unit |-> dev, tx |-> txID]

Unanswered == asked = <<Asking>> /\ inbound = <<>>

Answered ==
    /\ asked = <<>>
    /\ \E answer \in Answers, length \in Nat :
          /\ inbound = Frame(Asking, answer, length)
          /\ TooShort(Asking, answer, length) => cut

HeaderRead ==
    /\ asked = <<>>
    /\ \E answer \in Answers :
          /\ inbound = Announced(Asking, answer, respLen)
          /\ TooShort(Asking, answer, respLen) => cut

Quiet == asked = <<>> /\ inbound = <<>>

\* What the connection carries in each phase of an exchange.
Wire ==
    /\ pc = "header" => Unanswered \/ Answered
    /\ pc = "pdu" => HeaderRead
    /\ pc \notin {"header", "pdu"} => Quiet

ExchangeInv == ReadingIsAnswer /\ Wire /\ PanicNeedsCutAnswer

\* No read of the connection returned a piece of an answer.
Whole == ~Segmented \/ ~cut

WholeInv == Whole => ExchangeInv

-----------------------------------------------------------------------------
(* Frames.                                                                 *)

\* A prefix of four fields is cut off by its length.
LEMMA CutHeader ==
    ASSUME NEW a \in Nat, NEW b \in Nat, NEW c \in Nat, NEW d \in Nat,
           NEW s \in Seq(Nat)
    PROVE  LET t == <<a, b, c, d>> \o s
           IN  /\ t \in Seq(Nat) /\ Len(t) = Len(s) + 4 /\ t[3] = c
               /\ SubSeq(t, 5, Len(t)) = s
<1> DEFINE h == <<a, b, c, d>>
           t == h \o s
<1>1. h \in Seq(Nat) /\ Len(h) = 4 /\ h[3] = c
  <2>1. <<a, b, c, d>> \in Seq(Nat)
    OBVIOUS
  <2>2. Len(<<a, b, c, d>>) = 4
    OBVIOUS
  <2>3. <<a, b, c, d>>[3] = c
    OBVIOUS
  <2> QED
    BY <2>1, <2>2, <2>3
<1> HIDE DEF h
<1>0. Len(s) \in Nat
  OBVIOUS
<1>2. /\ t \in Seq(Nat) /\ Len(t) = Len(h) + Len(s)
      /\ \A i \in 1 .. Len(h) + Len(s) :
            t[i] = IF i <= Len(h) THEN h[i] ELSE s[i - Len(h)]
  BY <1>1, ConcatProperties, Zenon
<1>4. t[3] = c
  BY <1>1, <1>2, <1>0
<1>5. SubSeq(t, 5, Len(t)) = SubSeq(s, 1, Len(s))
  <2>1. CASE Len(s) = 0
    <3>1. SubSeq(t, 5, Len(t)) = <<>>
      BY <2>1, <1>1, <1>2, SubSeqEmpty
    <3>2. SubSeq(s, 1, Len(s)) = <<>>
      BY <2>1, SubSeqEmpty
    <3> QED
      BY <3>1, <3>2
  <2>2. CASE Len(s) # 0
    <3>1. 5 \in Len(h) + 1 .. Len(h) + Len(s) /\ Len(t) \in Len(h) + 1 .. Len(h) + Len(s)
      BY <2>2, <1>1, <1>2, <1>0
    <3>2. SubSeq(h \o s, 5, Len(t)) = SubSeq(s, 5 - Len(h), Len(t) - Len(h))
      BY <3>1, <1>1, SubSeqOfConcat2
    <3>3. 5 - Len(h) = 1 /\ Len(t) - Len(h) = Len(s)
      BY <1>1, <1>2, <1>0
    <3> QED
      BY <3>2, <3>3
  <2> QED
    BY <2>1, <2>2
<1>6. SubSeq(s, 1, Len(s)) = s
  BY SubSeqFull
<1> QED
  BY <1>2, <1>0, <1>4, <1>5, <1>6 DEF h

\* A field before two, and before three.
LEMMA FieldBeforeTwo ==
    ASSUME NEW a \in Nat, NEW b \in Nat, NEW c \in Nat
    PROVE  <<a>> \o <<b, c>> = <<a, b, c>>
<1> DEFINE s == <<a>> \o <<b, c>>
<1>1. /\ <<a>> \in Seq(Nat) /\ Len(<<a>>) = 1 /\ <<a>>[1] = a
      /\ <<b, c>> \in Seq(Nat) /\ Len(<<b, c>>) = 2
  OBVIOUS
<1>2. /\ s \in Seq(Nat) /\ Len(s) = 3
      /\ \A i \in 1 .. 3 : s[i] = IF i <= 1 THEN <<a>>[i] ELSE <<b, c>>[i - 1]
  BY <1>1, ConcatProperties
<1> HIDE DEF s
<1>3. s[1] = a /\ s[2] = b /\ s[3] = c
  BY <1>2
<1>4. s = <<a, b, c>>
  BY <1>2, <1>3
<1> QED
  BY <1>4 DEF s

LEMMA FieldBeforeThree ==
    ASSUME NEW a \in Nat, NEW b \in Nat, NEW c \in Nat, NEW d \in Nat
    PROVE  <<a>> \o <<b, c, d>> = <<a, b, c, d>>
<1> DEFINE s == <<a>> \o <<b, c, d>>
<1>1. /\ <<a>> \in Seq(Nat) /\ Len(<<a>>) = 1 /\ <<a>>[1] = a
      /\ <<b, c, d>> \in Seq(Nat) /\ Len(<<b, c, d>>) = 3
  OBVIOUS
<1>2. /\ s \in Seq(Nat) /\ Len(s) = 4
      /\ \A i \in 1 .. 4 : s[i] = IF i <= 1 THEN <<a>>[i] ELSE <<b, c, d>>[i - 1]
  BY <1>1, ConcatProperties
<1> HIDE DEF s
<1>3. s[1] = a /\ s[2] = b /\ s[3] = c /\ s[4] = d
  BY <1>2
<1>4. s = <<a, b, c, d>>
  BY <1>2, <1>3
<1> QED
  BY <1>4 DEF s

\* Devices are numbers.
LEMMA RequestTypes ==
    ASSUME NEW r \in Requests
    PROVE  r.unit \in Nat /\ r.tx \in Nat /\ Register(r.unit, r.tx) \in Nat
<1>1. r.unit \in Nat /\ r.tx \in Nat
  BY GatewayAssumption DEF Requests, Devices
<1> QED
  BY <1>1 DEF Register

\* What follows a header, field by field.
LEMMA Fields ==
    ASSUME NEW r \in Requests, NEW answer \in Answers, Layout = "repeated"
    PROVE  \/ PDU(r, answer) = <<r.unit, 3, 2, Register(r.unit, r.tx)>>
           \/ PDU(r, answer) = <<r.unit, 131, 2>>
           \/ PDU(r, answer) = <<r.unit, 4, 2, Register(r.unit, r.tx)>>
<1>1. \/ Body(r, answer) = <<3, 2, Register(r.unit, r.tx)>>
      \/ Body(r, answer) = <<131, 2>>
      \/ Body(r, answer) = <<4, 2, Register(r.unit, r.tx)>>
  BY GatewayAssumption DEF Body, ReadFunction, ByteCount, ExceptionBit
<1>2. PDU(r, answer) = <<r.unit>> \o Body(r, answer)
  BY DEF PDU
<1> DEFINE u == r.unit
           v == Register(r.unit, r.tx)
<1>3. u \in Nat /\ v \in Nat
  BY RequestTypes
<1>4. /\ <<u>> \o <<3, 2, v>> = <<u, 3, 2, v>>
      /\ <<u>> \o <<131, 2>> = <<u, 131, 2>>
      /\ <<u>> \o <<4, 2, v>> = <<u, 4, 2, v>>
  <2> DEFINE two == 2
             three == 3
             four == 4
             refused == 131
  <2>1. two \in Nat /\ three \in Nat /\ four \in Nat /\ refused \in Nat
    OBVIOUS
  <2> HIDE DEF u, v, two, three, four, refused
  <2>2. <<u>> \o <<three, two, v>> = <<u, three, two, v>>
    BY <1>3, <2>1, FieldBeforeThree
  <2>3. <<u>> \o <<refused, two>> = <<u, refused, two>>
    BY <1>3, <2>1, FieldBeforeTwo
  <2>4. <<u>> \o <<four, two, v>> = <<u, four, two, v>>
    BY <1>3, <2>1, FieldBeforeThree
  <2> QED
    BY <2>2, <2>3, <2>4 DEF two, three, four, refused
<1> QED
  BY <1>1, <1>2, <1>4, Zenon

LEMMA StandardFields ==
    ASSUME NEW r \in Requests, NEW answer \in Answers, Layout = "standard"
    PROVE  \/ PDU(r, answer) = <<3, 2, Register(r.unit, r.tx)>>
           \/ PDU(r, answer) = <<131, 2>>
           \/ PDU(r, answer) = <<4, 2, Register(r.unit, r.tx)>>
BY GatewayAssumption DEF PDU, Body, ReadFunction, ByteCount, ExceptionBit

\* A PDU has two to four fields.
LEMMA PDUType ==
    ASSUME NEW r \in Requests, NEW answer \in Answers
    PROVE  PDU(r, answer) \in Seq(Nat) /\ Len(PDU(r, answer)) \in 2 .. 4
<1> DEFINE u == r.unit
           v == Register(r.unit, r.tx)
<1>1. u \in Nat /\ v \in Nat
  BY RequestTypes
<1> HIDE DEF u, v
<1>2. CASE Layout = "repeated"
  <2>1. \/ PDU(r, answer) = <<u, 3, 2, v>>
        \/ PDU(r, answer) = <<u, 131, 2>>
        \/ PDU(r, answer) = <<u, 4, 2, v>>
    BY <1>2, Fields DEF u, v
  <2>2. /\ <<u, 3, 2, v>> \in Seq(Nat) /\ Len(<<u, 3, 2, v>>) \in 2 .. 4
        /\ <<u, 131, 2>> \in Seq(Nat) /\ Len(<<u, 131, 2>>) \in 2 .. 4
        /\ <<u, 4, 2, v>> \in Seq(Nat) /\ Len(<<u, 4, 2, v>>) \in 2 .. 4
    BY <1>1
  <2> QED
    BY <2>1, <2>2, Zenon
<1>3. CASE Layout = "standard"
  <2>1. \/ PDU(r, answer) = <<3, 2, v>>
        \/ PDU(r, answer) = <<131, 2>>
        \/ PDU(r, answer) = <<4, 2, v>>
    BY <1>3, StandardFields DEF v
  <2>2. /\ <<3, 2, v>> \in Seq(Nat) /\ Len(<<3, 2, v>>) \in 2 .. 4
        /\ <<131, 2>> \in Seq(Nat) /\ Len(<<131, 2>>) \in 2 .. 4
        /\ <<4, 2, v>> \in Seq(Nat) /\ Len(<<4, 2, v>>) \in 2 .. 4
    BY <1>1
  <2> QED
    BY <2>1, <2>2, Zenon
<1> QED
  BY <1>2, <1>3, GatewayAssumption

\* Of the PDU a frame holds the fields that its length announces.
LEMMA AnnouncedFields ==
    ASSUME NEW r \in Requests, NEW answer \in Answers, NEW length \in Nat
    PROVE  LET a == Announced(r, answer, length)
               p == PDU(r, answer)
           IN  /\ a \in Seq(Nat) /\ Len(a) <= Len(p)
               /\ length >= 1 => Len(a) = IF length <= Len(p) THEN length - 1 ELSE Len(p)
               /\ \A i \in 1 .. Len(a) : a[i] = p[i]
<1> DEFINE p == PDU(r, answer)
           n == IF length <= Len(p) THEN length - 1 ELSE Len(p)
<1>1. p \in Seq(Nat) /\ Len(p) \in Nat
  BY PDUType
<1>2. Announced(r, answer, length) = SubSeq(p, 1, n)
  BY DEF Announced
<1> HIDE DEF p
<1>3. n \in Int /\ n <= Len(p) /\ \A i \in 1 .. n : p[i] \in Nat
  BY <1>1
<1>4. /\ SubSeq(p, 1, n) \in Seq(Nat)
      /\ Len(SubSeq(p, 1, n)) = IF 1 <= n THEN n - 1 + 1 ELSE 0
      /\ \A i \in 1 .. n - 1 + 1 : SubSeq(p, 1, n)[i] = p[1 + i - 1]
  <2>1. 1 \in Int
    OBVIOUS
  <2> HIDE DEF n
  <2> QED
    BY <2>1, <1>3, SubSeqProperties
<1> DEFINE a == SubSeq(p, 1, n)
<1>5. Len(a) = IF 1 <= n THEN n ELSE 0
  BY <1>3, <1>4
<1>6. \A i \in 1 .. Len(a) : a[i] = p[i]
  BY <1>3, <1>4, <1>5
<1>7. Len(a) <= Len(p) /\ (length >= 1 => Len(a) = n)
  BY <1>1, <1>5
<1> QED
  BY <1>2, <1>4, <1>6, <1>7 DEF p

LEMMA FrameFields ==
    ASSUME NEW r \in Requests, NEW answer \in Answers, NEW length \in Nat
    PROVE  LET f == Frame(r, answer, length)
           IN  /\ f \in Seq(Nat) /\ Len(f) >= 4 /\ f[3] = length
               /\ SubSeq(f, 5, Len(f)) = Announced(r, answer, length)
<1> DEFINE s == Announced(r, answer, length)
           zero == 0
           f == <<r.tx, zero, length, r.unit>> \o s
<1>1. s \in Seq(Nat) /\ Len(s) \in Nat
  BY AnnouncedFields
<1>2. Frame(r, answer, length) = f
  BY DEF Frame
<1>3. r.tx \in Nat /\ r.unit \in Nat
  BY RequestTypes
<1> HIDE DEF s
<1>4. /\ f \in Seq(Nat) /\ Len(f) = Len(s) + 4 /\ f[3] = length
      /\ SubSeq(f, 5, Len(f)) = s
  <2>1. zero \in Nat
    OBVIOUS
  <2> HIDE DEF zero
  <2> QED
    BY <2>1, <1>1, <1>3, CutHeader
<1> HIDE DEF f
<1>5. Len(f) >= 4
  BY <1>1, <1>4
<1> QED
  BY <1>2, <1>4, <1>5 DEF f, s

LEMMA ArrayLength ==
    ASSUME NEW n \in Nat, NEW f \in [1 .. n -> Nat]
    PROVE  f \in Seq(Nat) /\ Len(f) = n
OBVIOUS

\* What the parser is given of a PDU: n fields, zeros past its end.
Padded(p, n) == [i \in 1 .. n |-> IF i <= Len(p) THEN p[i] ELSE 0]

\* The parser indexes past the end of an answer to its own request only if the
\* length left fields out, and takes nothing but the register asked for.
LEMMA OwnAnswer ==
    ASSUME NEW r \in Requests, NEW answer \in Answers, r.unit = dev, NEW n \in Nat
    PROVE  LET p == PDU(r, answer)
               b == Padded(p, n)
           IN  /\ OutOfRange(b) => n < Len(p)
               /\ Accepted(b) /\ ~OutOfRange(b) =>
                     Layout = "repeated" /\ b[4] = Register(r.unit, r.tx)
<1> DEFINE u == r.unit
           v == Register(r.unit, r.tx)
           s == PDU(r, answer)
           b == Padded(s, n)
<1>1. u \in Nat /\ v \in Nat /\ u = dev
  BY RequestTypes
<1>2. s \in Seq(Nat) /\ Len(s) \in 2 .. 4
  BY PDUType
<1>3. /\ b \in [1 .. n -> Nat]
      /\ \A i \in 1 .. n : b[i] = IF i <= Len(s) THEN s[i] ELSE 0
  <2> HIDE DEF s
  <2>1. \A i \in 1 .. n : i <= Len(s) => s[i] \in Nat
    BY <1>2
  <2> QED
    BY <2>1 DEF Padded
<1>4. b \in Seq(Nat) /\ Len(b) = n
  <2> HIDE DEF b
  <2> QED
    BY <1>3, ArrayLength
<1>5. b = <<>> <=> n = 0
  <2> HIDE DEF b
  <2> QED
    BY <1>4
<1>6. CASE Layout = "repeated"
  <2>1. s = <<u, 3, 2, v>> \/ s = <<u, 131, 2>> \/ s = <<u, 4, 2, v>>
    BY <1>6, Fields
  <2> HIDE DEF u, v, s, b
  <2>2. (OutOfRange(b) => n < Len(s)) /\ (Accepted(b) /\ ~OutOfRange(b) => b[4] = v)
    <3>1. CASE s = <<u, 3, 2, v>>
      <4>1. Len(s) = 4 /\ s[1] = u /\ s[2] = 3 /\ s[3] = 2 /\ s[4] = v
        BY <3>1, <1>1
      <4>2. n >= 4 => b[1] = u /\ b[2] = 3 /\ b[3] = 2 /\ b[4] = v
        BY <4>1, <1>3
      <4>3. n >= 4 => ~OutOfRange(b)
        BY <1>1, <1>4, <1>5, <4>2 DEF OutOfRange, Accepted, ReadFunction, ByteCount, ExceptionBit
      <4>4. Accepted(b) /\ ~OutOfRange(b) => n >= 4
        BY <1>4 DEF OutOfRange, Accepted
      <4> QED
        BY <4>1, <4>2, <4>3, <4>4
    <3>2. CASE s = <<u, 131, 2>>
      <4>1. Len(s) = 3 /\ s[1] = u /\ s[2] = 131 /\ s[3] = 2
        BY <3>2, <1>1
      <4>2. (n >= 2 => b[2] = 131) /\ (n >= 3 => b[1] = u /\ b[3] = 2)
        BY <4>1, <1>3
      <4>3. n >= 3 => ~OutOfRange(b)
        BY <1>1, <1>4, <1>5, <4>2 DEF OutOfRange, Accepted, ReadFunction, ByteCount, ExceptionBit
      <4>4. ~Accepted(b)
        BY <1>4, <4>2 DEF Accepted, ReadFunction
      <4> QED
        BY <4>1, <4>3, <4>4
    <3>3. CASE s = <<u, 4, 2, v>>
      <4>1. Len(s) = 4 /\ s[1] = u /\ s[2] = 4 /\ s[3] = 2 /\ s[4] = v
        BY <3>3, <1>1
      <4>2. (n >= 2 => b[2] = 4) /\ (n >= 3 => b[1] = u /\ b[3] = 2)
        BY <4>1, <1>3
      <4>3. n >= 3 => ~OutOfRange(b)
        BY <1>1, <1>4, <1>5, <4>2 DEF OutOfRange, Accepted, ReadFunction, ByteCount, ExceptionBit
      <4>4. ~Accepted(b)
        BY <1>4, <4>2 DEF Accepted, ReadFunction
      <4> QED
        BY <4>1, <4>3, <4>4
    <3> QED
      BY <2>1, <3>1, <3>2, <3>3
  <2> QED
    BY <1>6, <2>2 DEF s, v, b
<1>7. CASE Layout = "standard"
  <2>1. s = <<3, 2, v>> \/ s = <<131, 2>> \/ s = <<4, 2, v>>
    BY <1>7, StandardFields
  <2> HIDE DEF u, v, s, b
  <2>2. Len(s) >= 2 /\ s[2] = 2
    <3>1. /\ Len(<<3, 2, v>>) = 3 /\ <<3, 2, v>>[2] = 2
          /\ Len(<<131, 2>>) = 2 /\ <<131, 2>>[2] = 2
          /\ Len(<<4, 2, v>>) = 3 /\ <<4, 2, v>>[2] = 2
      OBVIOUS
    <3> QED
      BY <2>1, <3>1
  <2>3. n >= 2 => b[2] = 2
    BY <1>3, <2>2
  <2>4. ~Accepted(b)
    BY <1>4, <2>3 DEF Accepted, ReadFunction
  <2>5. ASSUME n >= 2 PROVE ~OutOfRange(b)
    <3>1. b # <<>> /\ ~(Len(b) < 2) /\ b[2] = 2
      BY <2>5, <1>4, <1>5, <2>3
    <3>2. b[2] # ReadFunction /\ ~(b[2] >= ExceptionBit)
      BY <3>1 DEF ReadFunction, ExceptionBit
    <3> QED
      BY <2>4, <3>1, <3>2, Zenon DEF OutOfRange
  <2>6. ASSUME OutOfRange(b) PROVE n < Len(s)
    <3>1. ~(n >= 2)
      BY <2>5, <2>6, Zenon
    <3>2. Len(s) \in Nat
      BY <1>2
    <3> QED
      BY <2>2, <3>1, <3>2
  <2> QED
    BY <2>4, <2>6 DEF s, b
<1> QED
  BY <1>6, <1>7, GatewayAssumption

-----------------------------------------------------------------------------
(* Types and the one socket.                                               *)

\* The parameters, one by one.
LEMMA Parameters ==
    /\ NDevices \in Nat \ {0} /\ RetryCount \in Nat /\ OutCap \in Nat
    /\ 1 \in Devices /\ Devices \subseteq Nat /\ None \notin Connections
BY GatewayAssumption DEF Devices, Connections

\* TypeOK by groups of variables.
PlaceTypes == pc \in {"select", "getconn", "write", "header", "pdu", "failed",
                      "insert", "stopped", "crashed"}
PositionTypes == dev \in Devices /\ attempt \in 0 .. RetryCount
ClockTypes == now \in Nat /\ {collectTick, cleanupTick, ctxDone} \subseteq BOOLEAN
SocketTypes ==
    /\ activeConn = None \/ activeConn \in Connections
    /\ open \subseteq 1 .. dialed
    /\ dialed \in Nat
WireTypes ==
    /\ txID \in Nat /\ asked \in Seq(Requests) /\ inbound \in Seq(Nat)
    /\ cut \in BOOLEAN
FrameTypes == respLen \in Nat /\ reading \in Nat
OutTypes == outCh \in Seq(Readings) /\ Len(outCh) <= OutCap

LEMMA TypeGroups ==
    TypeOK <=> /\ PlaceTypes /\ PositionTypes /\ ClockTypes /\ SocketTypes
               /\ WireTypes /\ FrameTypes /\ OutTypes /\ panicked \in BOOLEAN
BY DEF TypeOK, PlaceTypes, PositionTypes, ClockTypes, SocketTypes, WireTypes,
       FrameTypes, OutTypes

LEMMA TypeGroupsNext ==
    ASSUME PlaceTypes', PositionTypes', ClockTypes', SocketTypes', WireTypes',
           FrameTypes', OutTypes', panicked' \in BOOLEAN
    PROVE  TypeOK'
BY DEF TypeOK, PlaceTypes, PositionTypes, ClockTypes, SocketTypes, WireTypes,
       FrameTypes, OutTypes

\* The groups that depend on one tuple of variables.
LEMMA Kept ==
    ASSUME TypeOK
    PROVE  /\ UNCHANGED tickers => ClockTypes'
           /\ UNCHANGED position => PositionTypes'
           /\ UNCHANGED socket => SocketTypes'
           /\ UNCHANGED <<txID, wire>> => WireTypes'
           /\ UNCHANGED frame => FrameTypes'
           /\ UNCHANGED outCh => OutTypes'
           /\ UNCHANGED panicked => panicked' \in BOOLEAN
<1> USE TypeGroups
<1>1. UNCHANGED tickers => ClockTypes'
  BY DEF tickers, ClockTypes
<1>2. UNCHANGED position => PositionTypes'
  BY DEF position, PositionTypes
<1>3. UNCHANGED socket => SocketTypes'
  BY DEF socket, SocketTypes
<1>4. UNCHANGED <<txID, wire>> => WireTypes'
  BY DEF wire, WireTypes
<1>5. UNCHANGED frame => FrameTypes'
  BY DEF frame, FrameTypes
<1>6. UNCHANGED outCh => OutTypes'
  BY DEF OutTypes
<1> QED
  BY <1>1, <1>2, <1>3, <1>4, <1>5, <1>6

LEMMA StartSocket ==
    ASSUME InitAt("select") \/ InitAt("getconn")
    PROVE  SocketInv
<1>0. PICK start \in {"select", "getconn"} : InitAt(start)
  OBVIOUS
<1>1. PlaceTypes /\ PositionTypes /\ ClockTypes
  <2>1. PlaceTypes
    BY <1>0 DEF InitAt, PlaceTypes
  <2>2. 0 \in 0 .. RetryCount
    BY Parameters
  <2>3. PositionTypes
    BY <1>0, <2>2, Parameters DEF InitAt, PositionTypes
  <2>4. ClockTypes
    BY <1>0 DEF InitAt, ClockTypes
  <2> QED
    BY <2>1, <2>3, <2>4
<1>2. SocketTypes /\ WireTypes /\ FrameTypes
  <2>1. SocketTypes /\ FrameTypes
    BY <1>0 DEF InitAt, SocketTypes, FrameTypes
  <2>2. txID = 0 /\ asked = <<>> /\ inbound = <<>> /\ cut = FALSE
    BY <1>0 DEF InitAt
  <2>3. asked \in Seq(Requests) /\ inbound \in Seq(Nat)
    BY <2>2
  <2> QED
    BY <2>1, <2>2, <2>3 DEF WireTypes
<1>3. OutTypes /\ panicked \in BOOLEAN
  <2>1. <<>> \in Seq(Readings) /\ Len(<<>>) <= OutCap
    BY Parameters
  <2> QED
    BY <1>0, <2>1 DEF InitAt, OutTypes
<1>4. OneSocket /\ ActiveInUse /\ LengthRead /\ PanicPlace
  BY <1>0 DEF InitAt, OneSocket, ActiveInUse, Exchanging, LengthRead, PanicPlace
<1> QED
  BY <1>1, <1>2, <1>3, <1>4, TypeGroups DEF SocketInv

\* Closing leaves nothing open, asked or waiting.
LEMMA Closed ==
    ASSUME SocketInv, CloseConn
    PROVE  /\ activeConn' = None /\ open' = {} /\ dialed' = dialed
           /\ asked' = <<>> /\ inbound' = <<>> /\ cut' = FALSE
BY DEF SocketInv, OneSocket, CloseConn, NewWire

LEMMA ClosedTypes ==
    ASSUME SocketInv, CloseConn
    PROVE  SocketTypes' /\ OneSocket' /\ (txID' \in Nat => WireTypes')
<1>1. dialed \in Nat
  BY DEF SocketInv, TypeOK
<1> QED
  BY <1>1, Closed DEF SocketTypes, OneSocket, WireTypes

\* A step that keeps or closes the socket, outside an exchange.
LEMMA SocketAtRest ==
    ASSUME SocketInv, CloseConn \/ KeepConn, UNCHANGED txID
    PROVE  SocketTypes' /\ OneSocket' /\ WireTypes'
<1>1. TypeOK /\ OneSocket /\ txID \in Nat
  BY DEF SocketInv, TypeOK
<1>2. CASE CloseConn
  BY <1>1, <1>2, ClosedTypes
<1>3. CASE KeepConn
  <2>1. UNCHANGED socket /\ UNCHANGED <<txID, wire>>
    BY <1>3 DEF KeepConn
  <2>2. OneSocket'
    BY <1>1, <2>1 DEF OneSocket, socket
  <2> QED
    BY <1>1, <2>1, <2>2, Kept
<1> QED
  BY <1>2, <1>3

LEMMA NextPosition ==
    ASSUME TypeOK, AfterError \/ NextDevice
    PROVE  PositionTypes' /\ pc' \in {"select", "getconn"}
<1>1. CASE EndRound
  BY <1>1, Kept DEF EndRound
<1>2. CASE pc' = "getconn" /\ dev # NDevices /\ dev' = dev + 1 /\ attempt' = 0
  <2>1. dev \in 1 .. NDevices
    BY DEF TypeOK, Devices
  <2>2. dev' \in Devices
    BY <1>2, <2>1, Parameters DEF Devices
  <2>3. attempt' \in 0 .. RetryCount
    BY <1>2, Parameters
  <2> QED
    BY <1>2, <2>2, <2>3 DEF PositionTypes
<1> QED
  BY <1>1, <1>2 DEF AfterError, NextDevice

\* A step of the rounds that leaves an exchange or is outside one.
LEMMA SocketRound ==
    ASSUME SocketInv, Retry \/ GiveUp \/ InsertFails \/ InsertAndOffer
    PROVE  SocketInv'
<1>0. TypeOK /\ UNCHANGED <<tickers, txID, respLen, panicked>> /\ pc # "crashed"
  BY DEF SocketInv, Retry, GiveUp, InsertFails, InsertAndOffer, frame
<1>1. SocketTypes' /\ OneSocket' /\ WireTypes'
  BY <1>0, SocketAtRest DEF Retry, GiveUp, InsertFails, InsertAndOffer, KeepConn
<1>2. PositionTypes' /\ pc' \in {"select", "getconn"}
  <2>1. CASE Retry
    <3>1. attempt \in 0 .. RetryCount /\ dev \in Devices
      BY <1>0 DEF TypeOK
    <3>2. attempt' \in 0 .. RetryCount
      BY <2>1, <3>1, Parameters DEF Retry
    <3> QED
      BY <2>1, <3>1, <3>2 DEF Retry, PositionTypes
  <2> QED
    BY <1>0, <2>1, NextPosition DEF GiveUp, InsertFails, InsertAndOffer
<1>3. OutTypes'
  <2>1. CASE InsertAndOffer
    <3>1. outCh \in Seq(Readings) /\ Len(outCh) <= OutCap /\ Len(outCh) \in Nat
      BY <1>0 DEF TypeOK
    <3>2. [dev |-> dev, value |-> reading] \in Readings
      BY <1>0 DEF TypeOK, Readings
    <3> QED
      BY <2>1, <3>1, <3>2, Parameters DEF InsertAndOffer, HasRoom, OutTypes
  <2> QED
    BY <1>0, <2>1, Kept DEF Retry, GiveUp, InsertFails
<1>4. ClockTypes' /\ FrameTypes' /\ panicked' \in BOOLEAN
  <2>1. reading' \in Nat
    BY <1>0 DEF Retry, GiveUp, InsertFails, InsertAndOffer, frame, TypeOK
  <2> QED
    BY <1>0, <2>1, Kept DEF TypeOK, FrameTypes
<1>5. PlaceTypes' /\ ActiveInUse' /\ LengthRead' /\ PanicPlace'
  BY <1>0, <1>2 DEF SocketInv, PlaceTypes, ActiveInUse, Exchanging, LengthRead, PanicPlace
<1> QED
  BY <1>1, <1>2, <1>3, <1>4, <1>5, TypeGroupsNext DEF SocketInv

\* A case of the select.
LEMMA SocketSelect ==
    ASSUME SocketInv, StartRound \/ Cleanup \/ Stop
    PROVE  SocketInv'
<1>0. TypeOK /\ UNCHANGED <<txID, frame, outCh, panicked>>
  BY DEF SocketInv, StartRound, Cleanup, Stop
<1>1. SocketTypes' /\ OneSocket' /\ WireTypes'
  BY <1>0, SocketAtRest DEF StartRound, Cleanup, Stop, CloseAtStop, KeepConn
<1>2. PositionTypes'
  BY <1>0, Kept, Parameters DEF StartRound, Cleanup, Stop, PositionTypes
<1>3. ClockTypes'
  BY <1>0 DEF TypeOK, StartRound, Cleanup, Stop, tickers, ClockTypes
<1>4. pc' \in {"select", "getconn", "stopped"}
  BY DEF StartRound, Cleanup, Stop
<1>5. FrameTypes' /\ OutTypes' /\ panicked' \in BOOLEAN
  BY <1>0, Kept
<1>6. PlaceTypes' /\ ActiveInUse' /\ LengthRead' /\ PanicPlace'
  <2>1. pc = "select" /\ UNCHANGED panicked
    BY DEF StartRound, Cleanup, Stop
  <2> QED
    BY <1>4, <2>1 DEF SocketInv, PlaceTypes, ActiveInUse, Exchanging, LengthRead, PanicPlace
<1> QED
  BY <1>1, <1>2, <1>3, <1>5, <1>6, TypeGroupsNext DEF SocketInv

\* Every length that a peer announces is a number.
LEMMA AnswerLength ==
    ASSUME NEW r \in Requests, NEW answer \in Answers
    PROVE  {Len(PDU(r, answer)) + 1} \cup Lengths \subseteq Nat
<1> DEFINE l == Len(PDU(r, answer))
<1>1. l \in 2 .. 4
  BY PDUType
<1> HIDE DEF l
<1>2. l + 1 \in Nat
  BY <1>1
<1>3. {l + 1} \cup Lengths \subseteq Nat
  BY <1>2, GatewayAssumption, Zenon
<1> QED
  BY <1>3 DEF l

\* The environment moves neither the goroutine nor its socket.
LEMMA SocketEnvironment ==
    ASSUME SocketInv, Tick \/ Cancel \/ Answer \/ Consume
    PROVE  SocketInv'
<1>0. /\ TypeOK /\ OneSocket /\ ActiveInUse /\ LengthRead /\ PanicPlace
      /\ UNCHANGED <<pc, position, socket, txID, frame, panicked>>
  BY DEF SocketInv, Tick, Cancel, Answer, Consume
<1>1. ClockTypes'
  <2>0. /\ now \in Nat /\ collectTick \in BOOLEAN /\ cleanupTick \in BOOLEAN
        /\ ctxDone \in BOOLEAN
    BY <1>0 DEF TypeOK
  <2>1. CASE Tick
    <3>1. now' \in Nat /\ ctxDone' \in BOOLEAN
      BY <2>0, <2>1 DEF Tick
    <3>2. collectTick' \in BOOLEAN /\ cleanupTick' \in BOOLEAN
      BY <2>0, <2>1, Zenon DEF Tick
    <3> QED
      BY <3>1, <3>2 DEF ClockTypes
  <2>2. CASE Cancel
    BY <2>0, <2>2 DEF Cancel, ClockTypes
  <2> QED
    BY <1>0, <2>1, <2>2, Kept DEF Answer, Consume
<1>2. WireTypes'
  <2>1. CASE Answer
    <3>2. Head(asked) \in Requests /\ asked' \in Seq(Requests)
      BY <1>0, <2>1 DEF TypeOK, Answer
    <3>1. PICK answer \in Answers, length \in Nat :
             /\ inbound' = inbound \o Frame(Head(asked), answer, length)
             /\ cut' = (cut \/ TooShort(Head(asked), answer, length))
      BY <2>1, <3>2, AnswerLength DEF Answer
    <3>3. Frame(Head(asked), answer, length) \in Seq(Nat)
      BY <3>2, FrameFields
    <3>4. inbound' \in Seq(Nat)
      BY <1>0, <3>1, <3>3 DEF TypeOK
    <3>5. cut' \in BOOLEAN
      <4>1. cut \in BOOLEAN
        BY <1>0 DEF TypeOK
      <4>2. TooShort(Head(asked), answer, length) \in BOOLEAN
        BY DEF TooShort
      <4> QED
        BY <3>1, <4>1, <4>2, Zenon
    <3> QED
      BY <1>0, <3>2, <3>4, <3>5 DEF TypeOK, WireTypes
  <2> QED
    BY <1>0, <2>1, Kept DEF Tick, Cancel, Consume
<1>3. OutTypes'
  <2>1. CASE Consume
    <3>1. outCh \in Seq(Readings) /\ Len(outCh) <= OutCap /\ outCh # <<>>
      BY <1>0, <2>1 DEF TypeOK, Consume
    <3>2. Tail(outCh) \in Seq(Readings) /\ Len(Tail(outCh)) <= OutCap
      BY <3>1, HeadTailProperties, Parameters
    <3> QED
      BY <2>1, <3>2 DEF Consume, OutTypes
  <2> QED
    BY <1>0, <2>1, Kept DEF Tick, Cancel, Answer
<1>4. PositionTypes' /\ SocketTypes' /\ FrameTypes' /\ panicked' \in BOOLEAN
  BY <1>0, Kept
<1>5. PlaceTypes' /\ OneSocket' /\ ActiveInUse' /\ LengthRead' /\ PanicPlace'
  BY <1>0, TypeGroups
     DEF PlaceTypes, OneSocket, ActiveInUse, LengthRead, PanicPlace, socket, frame
<1> QED
  BY <1>1, <1>2, <1>3, <1>4, <1>5, TypeGroupsNext DEF SocketInv

LEMMA SocketConnection ==
    ASSUME SocketInv, ReuseConn \/ DialConn \/ DialFails
    PROVE  SocketInv'
<1>0. /\ TypeOK /\ OneSocket /\ now \in Nat /\ dialed \in Nat /\ txID \in Nat
      /\ UNCHANGED <<tickers, position, txID, frame, outCh, panicked>>
  BY DEF SocketInv, TypeOK, ReuseConn, DialConn, DialFails
<1>1. SocketTypes' /\ OneSocket' /\ WireTypes' /\ (pc' = "write" => activeConn' # None)
  <2>1. CASE ReuseConn
    <3>1. PICK c \in Connections : c = activeConn
      BY <1>0, <2>1 DEF TypeOK, ReuseConn, Usable
    <3>2. PICK d : d = [c EXCEPT !.lastUsed = now]
      OBVIOUS
    <3>3. d \in Connections /\ d.id = c.id
      BY <1>0, <3>2 DEF Connections
    <3>4. activeConn' = d /\ UNCHANGED <<open, dialed, txID, wire>>
      BY <2>1, <3>1, <3>2 DEF ReuseConn
    <3>5. SocketTypes'
      BY <1>0, <3>3, <3>4 DEF TypeOK, SocketTypes
    <3>6. OneSocket' /\ activeConn' # None
      BY <1>0, <3>1, <3>3, <3>4, Parameters DEF OneSocket
    <3> QED
      BY <1>0, <3>4, <3>5, <3>6, Kept
  <2>2. CASE DialConn
    <3>1. PICK d : d = [id |-> dialed + 1, createdAt |-> now, lastUsed |-> now]
      OBVIOUS
    <3>2. d \in Connections /\ d.id = dialed + 1
      BY <1>0, <3>1 DEF Connections
    <3>3. /\ activeConn' = d /\ dialed' = dialed + 1
          /\ asked' = <<>> /\ inbound' = <<>> /\ cut' = FALSE
      BY <2>2, <3>1 DEF DialConn, NewWire
    <3>4. open' = {dialed + 1}
      BY <1>0, <2>2 DEF DialConn, CloseExpired, OneSocket
    <3>5. SocketTypes' /\ WireTypes'
      <4>1. SocketTypes'
        BY <1>0, <3>2, <3>3, <3>4 DEF SocketTypes
      <4>2. txID' \in Nat /\ cut' \in BOOLEAN
        BY <1>0, <3>3
      <4>3. asked' \in Seq(Requests) /\ inbound' \in Seq(Nat)
        BY <3>3
      <4> QED
        BY <4>1, <4>2, <4>3 DEF WireTypes
    <3>6. OneSocket' /\ activeConn' # None
      BY <3>2, <3>3, <3>4, Parameters DEF OneSocket
    <3> QED
      BY <3>5, <3>6
  <2>3. CASE DialFails
    BY <1>0, <2>3, ClosedTypes DEF DialFails
  <2> QED
    BY <2>1, <2>2, <2>3
<1>2. pc = "getconn" /\ pc' \in {"write", "failed"}
  BY DEF ReuseConn, DialConn, DialFails
<1>3. PositionTypes' /\ ClockTypes' /\ FrameTypes' /\ OutTypes' /\ panicked' \in BOOLEAN
  BY <1>0, Kept
<1>4. PlaceTypes' /\ ActiveInUse' /\ LengthRead' /\ PanicPlace'
  BY <1>0, <1>1, <1>2
     DEF SocketInv, PlaceTypes, ActiveInUse, Exchanging, LengthRead, PanicPlace
<1> QED
  BY <1>1, <1>3, <1>4, TypeGroupsNext DEF SocketInv

\* What a read returns and leaves.
LEMMA ReadTypes ==
    ASSUME TypeOK, NEW n \in Nat, NEW got \in Got(n)
    PROVE  /\ got \in Nat /\ got <= n /\ got <= Len(inbound)
           /\ Buffer(n, got) \in [1 .. n -> Nat]
           /\ Rest(got) \in Seq(Nat)
<1>1. inbound \in Seq(Nat) /\ Len(inbound) \in Nat
  BY DEF TypeOK
<1>2. got \in Nat /\ got <= n /\ got <= Len(inbound)
  BY <1>1 DEF Got, Available
<1>3. Buffer(n, got) \in [1 .. n -> Nat]
  BY <1>1, <1>2 DEF Buffer
<1>4. Rest(got) \in Seq(Nat)
  BY <1>1, <1>2, SubSeqProperties DEF Rest
<1> QED
  BY <1>2, <1>3, <1>4

LEMMA ShortReadType ==
    ASSUME TypeOK, NEW got, NEW most, cut' = (cut \/ got < most)
    PROVE  cut' \in BOOLEAN
<1>1. cut \in BOOLEAN
  BY DEF TypeOK
<1> QED
  BY <1>1, Zenon

\* Checking a frame keeps the types, whatever the frame.
LEMMA CheckTypes ==
    ASSUME SocketInv, pc = "pdu", UNCHANGED <<open, dialed>>,
           NEW n \in Nat, NEW pdu \in [1 .. n -> Nat], CheckFrame(pdu)
    PROVE  /\ SocketTypes' /\ OneSocket' /\ reading' \in Nat
           /\ panicked' \in BOOLEAN /\ pc' \in {"crashed", "insert", "failed"}
           /\ PanicPlace'
<1>0. TypeOK /\ OneSocket /\ activeConn \in Connections /\ reading \in Nat /\ now \in Nat
  BY DEF SocketInv, TypeOK, ActiveInUse, Exchanging
<1>1. /\ panicked' \in BOOLEAN /\ pc' \in {"crashed", "insert", "failed"}
      /\ PanicPlace'
  BY <1>0 DEF SocketInv, TypeOK, CheckFrame, Crash, PanicPlace
<1>2. CASE UNCHANGED <<activeConn, reading>>
  BY <1>0, <1>1, <1>2, Kept DEF OneSocket, socket
<1>3. CASE /\ ~OutOfRange(pdu) /\ Accepted(pdu) /\ reading' = pdu[4]
           /\ activeConn' = [activeConn EXCEPT !.lastUsed = now]
  <2>1. PICK d : d = [activeConn EXCEPT !.lastUsed = now]
    OBVIOUS
  <2>2. d \in Connections /\ d.id = activeConn.id
    BY <1>0, <2>1 DEF Connections
  <2>3. SocketTypes'
    BY <1>0, <1>3, <2>1, <2>2 DEF TypeOK, SocketTypes
  <2>4. OneSocket'
    BY <1>0, <1>3, <2>1, <2>2, Parameters DEF OneSocket
  <2>5. Len(pdu) = n
    BY ArrayLength
  <2>6. 4 \in 1 .. n
    BY <1>3, <2>5 DEF OutOfRange, Accepted
  <2>7. reading' \in Nat
    BY <1>3, <2>6
  <2> QED
    BY <1>1, <2>3, <2>4, <2>7
<1> QED
  BY <1>2, <1>3 DEF CheckFrame

LEMMA SocketExchange ==
    ASSUME SocketInv, WriteRequest \/ ReadHeader \/ ReadPDU \/ ExchangeFails
    PROVE  SocketInv'
<1>0. /\ TypeOK /\ OneSocket /\ ActiveInUse /\ LengthRead /\ PanicPlace
      /\ UNCHANGED <<tickers, position, outCh>>
  BY DEF SocketInv, WriteRequest, ReadHeader, ReadPDU, ExchangeFails
<1>1. PositionTypes' /\ ClockTypes' /\ OutTypes'
  BY <1>0, Kept
<1>2. CASE WriteRequest
  <2>1. /\ UNCHANGED <<socket, frame, panicked>> /\ pc = "write" /\ pc' = "header"
        /\ activeConn # None /\ activeConn' = activeConn
    BY <1>0, <1>2 DEF WriteRequest, socket, ActiveInUse, Exchanging
  <2>2. SocketTypes' /\ FrameTypes' /\ panicked' \in BOOLEAN
    BY <1>0, <2>1, Kept
  <2>3. [unit |-> dev, tx |-> txID + 1] \in Requests /\ txID + 1 \in Nat
    BY <1>0 DEF Requests, TypeOK
  <2>4. WireTypes'
    BY <1>0, <1>2, <2>3 DEF WriteRequest, TypeOK, WireTypes
  <2>5. PlaceTypes' /\ OneSocket' /\ ActiveInUse' /\ LengthRead' /\ PanicPlace'
    BY <1>0, <2>1 DEF PlaceTypes, OneSocket, ActiveInUse, LengthRead, PanicPlace, socket
  <2> QED
    BY <1>1, <2>2, <2>4, <2>5, TypeGroupsNext DEF SocketInv
<1>3. CASE ReadHeader
  <2>1. PICK got \in Got(4) :
           /\ respLen' = Buffer(4, got)[3] /\ inbound' = Rest(got)
           /\ cut' = (cut \/ got < Available(4))
           /\ \/ respLen' < 1 /\ Crash
              \/ respLen' >= 1 /\ pc' = "pdu" /\ UNCHANGED panicked
    <3>1. PICK got \in Got(4) :
             /\ respLen' = Buffer(4, got)[3] /\ inbound' = Rest(got)
             /\ cut' = (cut \/ got < Available(4))
             /\ IF respLen' < 1 THEN Crash ELSE pc' = "pdu" /\ UNCHANGED panicked
      BY <1>3 DEF ReadHeader, LengthOf
    <3>2. respLen' \in Nat
      BY <1>0, <3>1, ReadTypes
    <3> QED
      BY <3>1, <3>2
  <2>2. /\ UNCHANGED <<socket, txID, asked, reading>>
        /\ activeConn # None /\ activeConn' = activeConn
    BY <1>0, <1>3 DEF ReadHeader, socket, ActiveInUse, Exchanging
  <2>3. respLen' \in Nat /\ inbound' \in Seq(Nat) /\ cut' \in BOOLEAN
    <3>1. respLen' \in Nat /\ inbound' \in Seq(Nat)
      BY <1>0, <2>1, ReadTypes
    <3> QED
      BY <1>0, <2>1, <3>1, ShortReadType
  <2>4. SocketTypes' /\ FrameTypes' /\ WireTypes'
    BY <1>0, <2>2, <2>3, Kept DEF TypeOK, FrameTypes, WireTypes
  <2>5. /\ pc' \in {"pdu", "crashed"} /\ panicked' \in BOOLEAN
        /\ (pc' = "pdu" => respLen' >= 1) /\ PanicPlace'
    <3>1. panicked = FALSE
      BY <1>0, <1>3 DEF ReadHeader, PanicPlace, TypeOK
    <3>2. CASE respLen' < 1
      <4>1. panicked' = TRUE /\ pc' = "crashed"
        BY <2>1, <2>3, <3>2 DEF Crash
      <4> QED
        BY <4>1 DEF PanicPlace
    <3>3. CASE ~(respLen' < 1)
      <4>1. respLen' >= 1 /\ panicked' = panicked /\ pc' = "pdu"
        BY <2>1, <2>3, <3>3 DEF Crash
      <4> QED
        BY <3>1, <4>1 DEF PanicPlace
    <3> QED
      BY <3>2, <3>3
  <2>6. PlaceTypes' /\ OneSocket' /\ ActiveInUse' /\ LengthRead'
    BY <1>0, <2>2, <2>5 DEF PlaceTypes, OneSocket, ActiveInUse, LengthRead, socket
  <2> QED
    BY <1>1, <2>4, <2>5, <2>6, TypeGroupsNext DEF SocketInv
<1>4. CASE ReadPDU
  <2> DEFINE n == respLen - 1
  <2>1. n \in Nat /\ pc = "pdu"
    BY <1>0, <1>4 DEF ReadPDU, TypeOK, LengthRead
  <2>2. PICK got \in Got(n) :
           /\ CheckFrame(Buffer(n, got)) /\ inbound' = Rest(got)
           /\ cut' = (cut \/ got < Available(n))
    BY <1>4 DEF ReadPDU
  <2>3. UNCHANGED <<open, dialed, txID, asked>> /\ respLen' = 0
    BY <1>4 DEF ReadPDU
  <2> HIDE DEF n
  <2>4. Buffer(n, got) \in [1 .. n -> Nat] /\ inbound' \in Seq(Nat) /\ cut' \in BOOLEAN
    <3>1. Buffer(n, got) \in [1 .. n -> Nat] /\ inbound' \in Seq(Nat)
      BY <1>0, <2>1, <2>2, ReadTypes
    <3> QED
      BY <1>0, <2>2, <3>1, ShortReadType
  <2>5. /\ SocketTypes' /\ OneSocket' /\ reading' \in Nat /\ PanicPlace'
        /\ panicked' \in BOOLEAN /\ pc' \in {"crashed", "insert", "failed"}
    BY <2>1, <2>2, <2>3, <2>4, CheckTypes
  <2>6. FrameTypes' /\ WireTypes'
    BY <1>0, <2>3, <2>4, <2>5 DEF TypeOK, FrameTypes, WireTypes
  <2>7. PlaceTypes' /\ ActiveInUse' /\ LengthRead'
    BY <2>5 DEF PlaceTypes, ActiveInUse, Exchanging, LengthRead
  <2> QED
    BY <1>1, <2>5, <2>6, <2>7, TypeGroupsNext DEF SocketInv
<1>5. CASE ExchangeFails
  <2>1. /\ CloseConn /\ pc # "crashed" /\ pc' = "failed" /\ respLen' = 0
        /\ UNCHANGED <<reading, panicked>>
    BY <1>5 DEF ExchangeFails, DropAfterTimeout
  <2>2. txID' \in Nat
    BY <1>0, <1>5 DEF ExchangeFails, TypeOK
  <2>3. SocketTypes' /\ OneSocket' /\ WireTypes'
    BY <2>1, <2>2, ClosedTypes
  <2>4. FrameTypes' /\ panicked' \in BOOLEAN
    BY <1>0, <2>1 DEF TypeOK, FrameTypes
  <2>5. PlaceTypes' /\ ActiveInUse' /\ LengthRead' /\ PanicPlace'
    BY <1>0, <2>1 DEF PlaceTypes, ActiveInUse, Exchanging, LengthRead, PanicPlace
  <2> QED
    BY <1>1, <2>3, <2>4, <2>5, TypeGroupsNext DEF SocketInv
<1> QED
  BY <1>2, <1>3, <1>4, <1>5

LEMMA SocketStep == SocketInv /\ [Next]_vars => SocketInv'
<1> SUFFICES ASSUME SocketInv, [Next]_vars PROVE SocketInv'
  OBVIOUS
<1>1. CASE UNCHANGED vars
  BY <1>1 DEF vars, tickers, position, socket, wire, frame, SocketInv, TypeOK,
              OneSocket, ActiveInUse, LengthRead, PanicPlace
<1>2. CASE Next
  BY <1>2, SocketRound, SocketSelect, SocketEnvironment, SocketConnection,
     SocketExchange DEF Next, Poll, Insert
<1> QED
  BY <1>1, <1>2

-----------------------------------------------------------------------------
(* What the connection carries.                                            *)

LEMMA StartExchange ==
    ASSUME InitAt("select") \/ InitAt("getconn")
    PROVE  WholeInv
<1>0. PICK start \in {"select", "getconn"} : InitAt(start)
  OBVIOUS
<1> QED
  BY <1>0 DEF InitAt, WholeInv, ExchangeInv, ReadingIsAnswer, Wire, Quiet,
              PanicNeedsCutAnswer

\* Outside an exchange, before and after, nothing is asked and nothing waits.
AtRest == {"select", "getconn", "write", "failed", "stopped"}

\* A closed connection, or a fresh one, carries nothing.
LEMMA ExchangeFresh ==
    ASSUME SocketInv', NewWire, pc' \in AtRest
    PROVE  ExchangeInv'
<1>1. Quiet'
  BY DEF NewWire, Quiet
<1>2. ~panicked'
  BY DEF SocketInv, PanicPlace, AtRest
<1> QED
  BY <1>1, <1>2 DEF ExchangeInv, ReadingIsAnswer, Wire, PanicNeedsCutAnswer, AtRest

\* A step outside an exchange leaves the connection quiet.
LEMMA ExchangeKept ==
    ASSUME SocketInv', ExchangeInv, UNCHANGED wire, pc \notin {"header", "pdu"},
           pc' \in AtRest
    PROVE  ExchangeInv'
<1>1. Quiet'
  BY DEF ExchangeInv, Wire, Quiet, wire
<1>2. ~panicked'
  BY DEF SocketInv, PanicPlace, AtRest
<1> QED
  BY <1>1, <1>2 DEF ExchangeInv, ReadingIsAnswer, Wire, PanicNeedsCutAnswer, AtRest

\* The steps that close the connection or dial another.
LEMMA ExchangeCloses ==
    ASSUME SocketInv', Retry \/ Stop \/ DialConn \/ DialFails \/ ExchangeFails
    PROVE  ExchangeInv'
<1>1. NewWire
  BY DEF Retry, Stop, CloseAtStop, DialConn, DialFails, ExchangeFails,
         DropAfterTimeout, CloseConn
<1>2. pc' \in AtRest
  BY DEF Retry, Stop, DialConn, DialFails, ExchangeFails, AtRest
<1> QED
  BY <1>1, <1>2, ExchangeFresh

LEMMA ExchangeAtRest ==
    ASSUME SocketInv, SocketInv', ExchangeInv,
           GiveUp \/ InsertFails \/ InsertAndOffer \/ StartRound \/ ReuseConn
    PROVE  ExchangeInv'
<1>1. pc \notin {"header", "pdu"} /\ UNCHANGED wire
  BY DEF GiveUp, InsertFails, InsertAndOffer, StartRound, ReuseConn
<1>2. pc' \in AtRest
  <2>1. TypeOK
    BY DEF SocketInv
  <2> QED
    BY <2>1, NextPosition
       DEF GiveUp, InsertFails, InsertAndOffer, StartRound, ReuseConn, AtRest
<1> QED
  BY <1>1, <1>2, ExchangeKept

LEMMA ExchangeCleanup ==
    ASSUME SocketInv', ExchangeInv, Cleanup
    PROVE  ExchangeInv'
<1>1. pc = "select" /\ pc' \in AtRest
  BY DEF Cleanup, AtRest
<1>2. CASE CloseConn
  BY <1>1, <1>2, ExchangeFresh DEF CloseConn
<1>3. CASE KeepConn
  BY <1>1, <1>3, ExchangeKept DEF KeepConn
<1> QED
  BY <1>2, <1>3 DEF Cleanup

\* While the device and the transaction stay, so does the answer expected.
LEMMA SameAnswer ==
    ASSUME UNCHANGED <<dev, txID>>, NEW answer, NEW length
    PROVE  /\ Asking' = Asking
           /\ Announced(Asking, answer, length)' = Announced(Asking, answer, length)
           /\ Frame(Asking, answer, length)' = Frame(Asking, answer, length)
           /\ TooShort(Asking, answer, length)' = TooShort(Asking, answer, length)
<1>1. Asking' = Asking
  BY DEF Asking
<1>2. Body(Asking, answer)' = Body(Asking, answer)
  BY <1>1 DEF Body, Register
<1>3. PDU(Asking, answer)' = PDU(Asking, answer)
  BY <1>1, <1>2 DEF PDU
<1>4. Announced(Asking, answer, length)' = Announced(Asking, answer, length)
  BY <1>3 DEF Announced
<1> QED
  BY <1>1, <1>3, <1>4 DEF Frame, TooShort

\* In the next state, of the length that is read then.
LEMMA AnnouncedNext ==
    ASSUME NEW answer, NEW n, n = respLen'
    PROVE  Announced(Asking, answer, respLen)' = Announced(Asking, answer, n)'
BY DEF Announced, PDU, Body, Asking, Register

LEMMA TooShortNext ==
    ASSUME NEW answer, NEW n, n = respLen'
    PROVE  TooShort(Asking, answer, respLen)' = TooShort(Asking, answer, n)'
BY DEF TooShort, PDU, Body, Asking, Register

\* A step that leaves the exchange alone.
LEMMA ExchangeElsewhere ==
    ASSUME ExchangeInv, UNCHANGED <<pc, position, txID, wire, frame, panicked>>
    PROVE  ExchangeInv'
<1>1. UNCHANGED <<pc, dev, txID, asked, inbound, cut, respLen, reading, panicked>>
  BY DEF position, wire, frame
<1>2. Unanswered => Unanswered'
  BY <1>1, SameAnswer DEF Unanswered
<1>3. Answered => Answered'
  BY <1>1, SameAnswer DEF Answered
<1>4. HeaderRead => HeaderRead'
  <2> SUFFICES ASSUME HeaderRead PROVE HeaderRead'
    OBVIOUS
  <2>1. PICK answer \in Answers : /\ inbound = Announced(Asking, answer, respLen)
                                  /\ TooShort(Asking, answer, respLen) => cut
    BY DEF HeaderRead
  <2>2. PICK n : n = respLen
    OBVIOUS
  <2>3. /\ Announced(Asking, answer, n)' = Announced(Asking, answer, n)
        /\ TooShort(Asking, answer, n)' = TooShort(Asking, answer, n)
    BY <1>1, SameAnswer
  <2> QED
    BY <1>1, <2>1, <2>2, <2>3, AnnouncedNext, TooShortNext DEF HeaderRead
<1>5. Quiet => Quiet'
  BY <1>1 DEF Quiet
<1>6. Wire'
  BY <1>1, <1>2, <1>3, <1>4, <1>5 DEF ExchangeInv, Wire
<1>7. ReadingIsAnswer' /\ PanicNeedsCutAnswer'
  BY <1>1 DEF ExchangeInv, ReadingIsAnswer, PanicNeedsCutAnswer, Register
<1> QED
  BY <1>6, <1>7 DEF ExchangeInv

\* The peer answers only the request under way.
LEMMA ExchangeAnswer ==
    ASSUME SocketInv, ExchangeInv, Answer
    PROVE  ExchangeInv'
<1>1. asked # <<>> /\ asked' = Tail(asked) /\ UNCHANGED <<pc, position, txID, frame, panicked>>
  BY DEF Answer
<1>2. pc = "header" /\ asked = <<Asking>> /\ inbound = <<>>
  BY <1>1 DEF ExchangeInv, Wire, Unanswered, Answered, HeaderRead, Quiet
<1>4. Head(asked) = Asking /\ asked' = <<>>
  BY <1>1, <1>2
<1>5. Asking \in Requests
  BY DEF SocketInv, TypeOK, Asking, Requests
<1>3. PICK answer \in Answers, length \in Nat :
         /\ inbound' = inbound \o Frame(Asking, answer, length)
         /\ cut' = (cut \/ TooShort(Asking, answer, length))
  BY <1>4, <1>5, AnswerLength DEF Answer
<1>6. Frame(Asking, answer, length) \in Seq(Nat)
  BY <1>5, FrameFields
<1>7. inbound' = Frame(Asking, answer, length)
  BY <1>2, <1>3, <1>6, ConcatEmptySeq
<1>8. /\ Frame(Asking, answer, length)' = Frame(Asking, answer, length)
      /\ TooShort(Asking, answer, length)' = TooShort(Asking, answer, length)
  BY <1>1, SameAnswer DEF position
<1>9. Answered'
  BY <1>3, <1>4, <1>7, <1>8 DEF Answered
<1>10. ~panicked'
  BY <1>1, <1>2 DEF SocketInv, PanicPlace
<1> QED
  BY <1>1, <1>2, <1>9, <1>10 DEF ExchangeInv, ReadingIsAnswer, Wire, PanicNeedsCutAnswer

LEMMA ExchangeWrite ==
    ASSUME SocketInv, ExchangeInv, WriteRequest
    PROVE  ExchangeInv'
<1>1. Quiet /\ UNCHANGED <<position, inbound, cut, panicked>> /\ pc' = "header"
  BY DEF ExchangeInv, Wire, WriteRequest
<1>2. asked' = <<[unit |-> dev, tx |-> txID + 1]>>
  BY <1>1 DEF WriteRequest, Quiet
<1>3. Asking' = [unit |-> dev, tx |-> txID + 1]
  BY <1>1 DEF WriteRequest, position, Asking
<1>4. Unanswered'
  BY <1>1, <1>2, <1>3 DEF Unanswered, Quiet
<1> QED
  BY <1>1, <1>4 DEF ExchangeInv, ReadingIsAnswer, Wire, PanicNeedsCutAnswer

\* A read takes all it can of what arrived whole.
LEMMA WholeRead ==
    ASSUME NEW n \in Nat, inbound \in Seq(Nat), NEW got \in Got(n),
           ~Segmented \/ ~(got < Available(n))
    PROVE  got = IF n <= Len(inbound) THEN n ELSE Len(inbound)
BY DEF Got, Available

LEMMA ExchangeHeader ==
    ASSUME Whole', SocketInv, ExchangeInv, ReadHeader
    PROVE  ExchangeInv'
<1>1. /\ pc = "header" /\ inbound # <<>> /\ ~panicked
      /\ UNCHANGED <<position, txID, asked, reading>>
  BY DEF ReadHeader, SocketInv, PanicPlace
<1>2. /\ asked = <<>>
      /\ \E answer \in Answers, length \in Nat :
            /\ inbound = Frame(Asking, answer, length)
            /\ TooShort(Asking, answer, length) => cut
  BY <1>1 DEF ExchangeInv, Wire, Unanswered, Answered
<1>3. PICK answer \in Answers, length \in Nat :
         /\ inbound = Frame(Asking, answer, length)
         /\ TooShort(Asking, answer, length) => cut
  BY <1>2
<1>4. Asking \in Requests
  BY DEF SocketInv, TypeOK, Asking, Requests
<1> DEFINE s == Announced(Asking, answer, length)
<1>5. /\ inbound \in Seq(Nat) /\ Len(inbound) >= 4 /\ inbound[3] = length
      /\ SubSeq(inbound, 5, Len(inbound)) = s
  BY <1>3, <1>4, FrameFields
<1>6. Len(PDU(Asking, answer)) \in 2 .. 4
  BY <1>4, PDUType
<1>7. PICK got \in Got(4) :
         /\ respLen' = Buffer(4, got)[3] /\ inbound' = Rest(got)
         /\ cut' = (cut \/ got < Available(4))
         /\ IF respLen' < 1 THEN Crash ELSE pc' = "pdu" /\ UNCHANGED panicked
  BY DEF ReadHeader, LengthOf
<1>8. got = 4
  <2>1. ~Segmented \/ ~(got < Available(4))
    BY <1>7 DEF Whole
  <2> QED
    BY <1>5, <2>1, WholeRead
<1> HIDE DEF s
<1>9. inbound' = s
  BY <1>5, <1>7, <1>8 DEF Rest
<1>10. respLen' = length
  BY <1>5, <1>7, <1>8 DEF Buffer
<1>11. /\ Announced(Asking, answer, length)' = Announced(Asking, answer, length)
       /\ TooShort(Asking, answer, length)' = TooShort(Asking, answer, length)
  BY <1>1, SameAnswer DEF position
<1>12. TooShort(Asking, answer, length) => cut'
  BY <1>3, <1>7
<1>13. CASE length < 1
  <2>1. pc' = "crashed" /\ panicked'
    BY <1>7, <1>10, <1>13 DEF Crash
  <2>2. cut'
    BY <1>6, <1>12, <1>13 DEF TooShort
  <2>3. s = <<>>
    <3>1. length <= Len(PDU(Asking, answer)) /\ length - 1 < 1
      BY <1>6, <1>13
    <3>2. s = SubSeq(PDU(Asking, answer), 1, length - 1)
      BY <3>1 DEF s, Announced
    <3> QED
      BY <3>1, <3>2, SubSeqEmpty
  <2>4. Quiet'
    BY <1>1, <1>2, <1>9, <2>3 DEF Quiet
  <2> QED
    BY <2>1, <2>2, <2>4 DEF ExchangeInv, ReadingIsAnswer, Wire, PanicNeedsCutAnswer
<1>14. CASE ~(length < 1)
  <2>1. pc' = "pdu" /\ ~panicked'
    BY <1>1, <1>7, <1>10, <1>14
  <2>2. HeaderRead'
    BY <1>1, <1>2, <1>9, <1>10, <1>11, <1>12, AnnouncedNext, TooShortNext DEF HeaderRead, s
  <2> QED
    BY <2>1, <2>2 DEF ExchangeInv, ReadingIsAnswer, Wire, PanicNeedsCutAnswer
<1> QED
  BY <1>13, <1>14

\* The whole of what was announced is read and checked.
LEMMA WholePDU ==
    ASSUME Whole', SocketInv, ExchangeInv, ReadPDU
    PROVE  \E answer \in Answers, n \in Nat :
              /\ CheckFrame(Padded(PDU(Asking, answer), n))
              /\ n < Len(PDU(Asking, answer)) => cut'
              /\ asked' = <<>> /\ inbound' = <<>>
<1>1. /\ pc = "pdu" /\ asked = <<>> /\ asked' = <<>>
      /\ respLen \in Nat /\ respLen >= 1
  BY DEF ReadPDU, ExchangeInv, Wire, HeaderRead, SocketInv, TypeOK, LengthRead
<1>2. PICK answer \in Answers :
         /\ inbound = Announced(Asking, answer, respLen)
         /\ TooShort(Asking, answer, respLen) => cut
  BY <1>1 DEF ExchangeInv, Wire, HeaderRead
<1>3. Asking \in Requests
  BY DEF SocketInv, TypeOK, Asking, Requests
<1> DEFINE n == respLen - 1
           p == PDU(Asking, answer)
<1>4. p \in Seq(Nat) /\ Len(p) \in 2 .. 4
  BY <1>3, PDUType
<1>5. /\ inbound \in Seq(Nat)
      /\ Len(inbound) = IF respLen <= Len(p) THEN respLen - 1 ELSE Len(p)
      /\ \A i \in 1 .. Len(inbound) : inbound[i] = p[i]
  BY <1>1, <1>2, <1>3, AnnouncedFields
<1>6. PICK got \in Got(n) :
         /\ CheckFrame(Buffer(n, got)) /\ inbound' = Rest(got)
         /\ cut' = (cut \/ got < Available(n))
  BY DEF ReadPDU
<1>7. n < Len(p) => cut'
  <2>1. n < Len(p) => respLen <= Len(p)
    BY <1>1, <1>4
  <2> QED
    BY <1>2, <1>6, <2>1 DEF TooShort
<1>8. n \in Nat /\ Len(inbound) <= n
  BY <1>1, <1>4, <1>5
<1> HIDE DEF n, p
<1>9. got = Len(inbound)
  <2>1. ~Segmented \/ ~(got < Available(n))
    BY <1>6 DEF Whole
  <2> QED
    BY <1>5, <1>8, <2>1, WholeRead
<1>10. inbound' = <<>>
  BY <1>5, <1>6, <1>9, SubSeqEmpty DEF Rest
<1>11. Buffer(n, got) = Padded(p, n)
  <2>1. Len(inbound) = IF n < Len(p) THEN n ELSE Len(p)
    BY <1>1, <1>4, <1>5 DEF n
  <2>2. \A i \in 1 .. n :
           (IF i <= got THEN inbound[i] ELSE 0) = (IF i <= Len(p) THEN p[i] ELSE 0)
    BY <1>4, <1>5, <1>8, <1>9, <2>1
  <2> QED
    BY <2>2 DEF Buffer, Padded
<1> QED
  BY <1>1, <1>6, <1>7, <1>8, <1>10, <1>11 DEF p

LEMMA ExchangePDU ==
    ASSUME Whole', SocketInv, ExchangeInv, ReadPDU
    PROVE  ExchangeInv'
<1>1. PICK answer \in Answers, n \in Nat :
         /\ CheckFrame(Padded(PDU(Asking, answer), n))
         /\ n < Len(PDU(Asking, answer)) => cut'
         /\ asked' = <<>> /\ inbound' = <<>>
  BY WholePDU
<1>2. Asking \in Requests /\ Asking.unit = dev /\ Asking.tx = txID
  BY DEF SocketInv, TypeOK, Asking, Requests
<1> DEFINE b == Padded(PDU(Asking, answer), n)
<1>3. /\ OutOfRange(b) => cut'
      /\ Accepted(b) /\ ~OutOfRange(b) => b[4] = Register(dev, txID)
  BY <1>1, <1>2, OwnAnswer
<1> HIDE DEF b
<1>4. CheckFrame(b) /\ ~panicked
  BY <1>1 DEF b, ReadPDU, SocketInv, PanicPlace
<1>5. /\ pc' \in {"insert", "failed", "crashed"} /\ (panicked' => cut')
      /\ pc' = "insert" => reading' = Register(dev, txID)
  BY <1>3, <1>4 DEF CheckFrame, Crash
<1>6. Quiet'
  BY <1>1 DEF Quiet
<1>7. UNCHANGED <<dev, txID>>
  BY DEF ReadPDU, position
<1> QED
  BY <1>5, <1>6, <1>7 DEF ExchangeInv, ReadingIsAnswer, Wire, PanicNeedsCutAnswer, Register

LEMMA ExchangeStep == SocketInv /\ WholeInv /\ [Next]_vars => WholeInv'
<1> SUFFICES ASSUME SocketInv, WholeInv, [Next]_vars, Whole' PROVE ExchangeInv'
  BY DEF WholeInv
<1>0. SocketInv'
  BY SocketStep
<1>1. CASE Retry \/ Stop \/ DialConn \/ DialFails \/ ExchangeFails
  BY <1>0, <1>1, ExchangeCloses
<1>2. CASE Cleanup /\ CloseConn
  BY <1>0, <1>2, ExchangeFresh DEF Cleanup, CloseConn, AtRest
<1>3. CASE UNCHANGED cut
  <2>1. ExchangeInv
    BY <1>3 DEF Whole, WholeInv
  <2>2. CASE UNCHANGED vars
    BY <2>1, <2>2, ExchangeElsewhere DEF vars
  <2>3. CASE Tick \/ Cancel \/ Consume
    BY <2>1, <2>3, ExchangeElsewhere DEF Tick, Cancel, Consume, socket
  <2>4. CASE Cleanup
    BY <1>0, <2>1, <2>4, ExchangeCleanup
  <2>5. CASE GiveUp \/ InsertFails \/ InsertAndOffer \/ StartRound \/ ReuseConn
    BY <1>0, <2>1, <2>5, ExchangeAtRest
  <2>6. CASE WriteRequest
    BY <2>1, <2>6, ExchangeWrite
  <2>7. CASE Answer \/ ReadHeader \/ ReadPDU
    BY <2>1, <2>7, ExchangeAnswer, ExchangeHeader, ExchangePDU
  <2> QED
    BY <1>1, <2>2, <2>3, <2>4, <2>5, <2>6, <2>7 DEF Next, Poll, Insert
<1>4. CASE Answer \/ ReadHeader \/ ReadPDU
  <2>1. cut => cut'
    BY <1>4 DEF Answer, ReadHeader, ReadPDU
  <2>2. ExchangeInv
    BY <2>1 DEF Whole, WholeInv
  <2> QED
    BY <1>4, <2>2, ExchangeAnswer, ExchangeHeader, ExchangePDU
<1>5. Tick \/ Cancel \/ Consume \/ GiveUp \/ InsertFails \/ InsertAndOffer
        \/ StartRound \/ ReuseConn \/ WriteRequest => UNCHANGED cut
  BY DEF Tick, Cancel, Consume, GiveUp, InsertFails, InsertAndOffer, StartRound,
         ReuseConn, WriteRequest, wire
<1>6. (Cleanup => UNCHANGED cut \/ CloseConn) /\ (UNCHANGED vars => UNCHANGED cut)
  BY DEF Cleanup, KeepConn, vars, wire
<1> QED
  BY <1>1, <1>2, <1>3, <1>4, <1>5, <1>6 DEF Next, Poll, Insert

-----------------------------------------------------------------------------
(* The theorems: of the gateway, and of whichever package runs.            *)

\* The steps of the old package are steps of the gateway, whose state they
\* leave to the same variables.
LEMMA CollectorSteps == [EitherNext]_allVars => [Next]_vars
<1>1. CollectorNext => Next
  BY DEF CollectorNext, GetConn, ReadModbus, ReadModbusWithRetry, CollectDevice,
         CollectAll, CleanupIdleConn, CloseAndReturn, Next, Poll, Insert
<1>2. EitherNext => Next
  BY <1>1 DEF EitherNext
<1>3. UNCHANGED allVars => UNCHANGED vars
  BY DEF allVars
<1> QED
  BY <1>2, <1>3

LEMMA EitherStarts == EitherInit => SocketInv /\ WholeInv
BY StartSocket, StartExchange DEF EitherInit, CollectorInit, Init

LEMMA GatewayStarts == Init => SocketInv /\ WholeInv
BY StartSocket, StartExchange DEF Init

LEMMA SocketAlways == Spec => []SocketInv
BY GatewayStarts, SocketStep, PTL DEF Spec

LEMMA EitherSocketAlways == EitherSpec => []SocketInv
BY EitherStarts, CollectorSteps, SocketStep, PTL DEF EitherSpec

LEMMA ExchangeAlways == Spec => []WholeInv
BY ExchangeStep, GatewayStarts, SocketAlways, PTL DEF Spec

LEMMA EitherExchangeAlways == EitherSpec => []WholeInv
<1>1. SocketInv /\ WholeInv /\ [EitherNext]_allVars => WholeInv'
  BY ExchangeStep, CollectorSteps
<1> QED
  BY <1>1, EitherStarts, EitherSocketAlways, PTL DEF EitherSpec

\* Every variable of the gateway keeps its type: no device past the last, no
\* attempt past the retries, no reading past the channel's capacity.
THEOREM GatewayTypeCorrect == Spec => []TypeOK
<1>1. SocketInv => TypeOK
  BY DEF SocketInv
<1> QED
  BY <1>1, SocketAlways, PTL

THEOREM EitherTypeCorrect == EitherSpec => []TypeOK
<1>1. SocketInv => TypeOK
  BY DEF SocketInv
<1> QED
  BY <1>1, EitherSocketAlways, PTL

\* However a connection ends, by age, idleness, failure or shutdown, it is
\* closed: the gateway never holds a socket but the cached one.
THEOREM GatewayHoldsOneSocket == Spec => []OneSocket
<1>1. SocketInv => OneSocket
  BY DEF SocketInv
<1> QED
  BY <1>1, SocketAlways, PTL

THEOREM EitherHoldsOneSocket == EitherSpec => []OneSocket
<1>1. SocketInv => OneSocket
  BY DEF SocketInv
<1> QED
  BY <1>1, EitherSocketAlways, PTL

\* If answers arrive whole, a reading accepted for a device answers the very
\* request the device was last sent.
THEOREM GatewayReadsOwnAnswer ==
    ASSUME ~Segmented
    PROVE  Spec => []ReadingIsAnswer
<1>1. WholeInv => ReadingIsAnswer
  BY DEF WholeInv, Whole, ExchangeInv
<1> QED
  BY <1>1, ExchangeAlways, PTL

THEOREM EitherReadsOwnAnswer ==
    ASSUME ~Segmented
    PROVE  EitherSpec => []ReadingIsAnswer
<1>1. WholeInv => ReadingIsAnswer
  BY DEF WholeInv, Whole, ExchangeInv
<1> QED
  BY <1>1, EitherExchangeAlways, PTL

\* The process stops only after an answer on the same connection announced
\* fewer fields than it had, or was read in pieces: no other answer of either
\* layout, exception, other function or length too large makes the parser index
\* past its end or allocate a negative length.
THEOREM GatewayPanicsOnlyOnCutAnswers == Spec => []PanicNeedsCutAnswer
<1>1. WholeInv => PanicNeedsCutAnswer
  BY DEF WholeInv, Whole, ExchangeInv, PanicNeedsCutAnswer
<1> QED
  BY <1>1, ExchangeAlways, PTL

THEOREM EitherPanicsOnlyOnCutAnswers == EitherSpec => []PanicNeedsCutAnswer
<1>1. WholeInv => PanicNeedsCutAnswer
  BY DEF WholeInv, Whole, ExchangeInv, PanicNeedsCutAnswer
<1> QED
  BY <1>1, EitherExchangeAlways, PTL

NothingAccepted == pc # "insert"

\* Finding 2 whatever the constants: over a peer of the standard layout no
\* reading is ever accepted, from any device, at any attempt, so that none is
\* inserted (gateway.go:259-261).
THEOREM StandardPeerIsNeverHeard ==
    ASSUME ~Segmented, Layout = "standard"
    PROVE  Spec => []NothingAccepted
<1>1. Init => NothingAccepted
  BY DEF Init, InitAt, NothingAccepted
<1>2. SocketInv /\ WholeInv /\ NothingAccepted /\ [Next]_vars => NothingAccepted'
  <2> SUFFICES ASSUME SocketInv, WholeInv, NothingAccepted, [Next]_vars
               PROVE  NothingAccepted'
    OBVIOUS
  <2>1. CASE ReadPDU
    <3>0. Whole' /\ ExchangeInv
      BY DEF Whole, WholeInv
    <3>1. PICK answer \in Answers, n \in Nat : CheckFrame(Padded(PDU(Asking, answer), n))
      BY <2>1, <3>0, WholePDU
    <3>2. Asking \in Requests /\ Asking.unit = dev
      BY DEF SocketInv, TypeOK, Asking, Requests
    <3> DEFINE s == Padded(PDU(Asking, answer), n)
    <3>3. ~(Accepted(s) /\ ~OutOfRange(s))
      BY <3>2, OwnAnswer
    <3> HIDE DEF s
    <3>4. CheckFrame(s)
      BY <3>1 DEF s
    <3> QED
      BY <3>3, <3>4 DEF CheckFrame, Crash, NothingAccepted
  <2>2. CASE UNCHANGED vars
    BY <2>2 DEF vars, NothingAccepted
  <2>3. CASE GiveUp \/ InsertFails \/ InsertAndOffer
    BY <2>3, NextPosition DEF GiveUp, InsertFails, InsertAndOffer, SocketInv, NothingAccepted
  <2>4. CASE Tick \/ Cancel \/ Answer \/ Consume \/ Cleanup
    BY <2>4 DEF Tick, Cancel, Answer, Consume, Cleanup, NothingAccepted
  <2>5. CASE StartRound \/ Stop \/ ReuseConn \/ DialConn \/ DialFails
             \/ WriteRequest \/ ReadHeader \/ ExchangeFails \/ Retry
    BY <2>5 DEF StartRound, Stop, ReuseConn, DialConn, DialFails, WriteRequest,
       ReadHeader, Crash, ExchangeFails, Retry, NothingAccepted
  <2> QED
    BY <2>1, <2>2, <2>3, <2>4, <2>5 DEF Next, Poll, Insert
<1> QED
  BY <1>1, <1>2, SocketAlways, ExchangeAlways, PTL DEF Spec
=============================================================================
