--------------------------- MODULE ModbusGateway ---------------------------
(***************************************************************************)
(* backend/internal/modbus_gateway/gateway.go: one goroutine polls every   *)
(* device in turn over one cached TCP connection, retries a failed read on *)
(* a fresh connection, stores the reading and offers it to the pipeline.   *)
(*                                                                         *)
(* A frame is a sequence of fields: <<transaction, protocol, length, unit, *)
(* function, byte count, register>>, the length counting the fields after  *)
(* it, the register standing for all that were asked for.  A peer of the   *)
(* "standard" layout answers so (scripts/modbus_simulator.py:204-232); one *)
(* of the "repeated" layout puts the unit before the function once more,   *)
(* as the parser expects.  A register holds its unit and the transaction   *)
(* it answers.  A faulty peer may announce any length and then sends what  *)
(* it announced, as far as it has it.  conn.Read returns at least one      *)
(* field and at most what is there.                                        *)
(***************************************************************************)
EXTENDS Integers, Sequences, FiniteSets

CONSTANTS
    NDevices,         \* devices polled, device d at unit d
    Layout,           \* "standard" or "repeated"
    Answers,          \* what a peer may answer: "data", "exception", "other"
    Lengths,          \* what a faulty peer may announce as a length
    Segmented,        \* whether an answer may arrive in pieces
    RetryCount,       \* retries after a failed read
    CollectInterval, CleanupInterval,   \* periods of the two tickers
    MaxConnAge, IdleTimeout,            \* when a cached connection is replaced
    OutCap,           \* capacity of the output channel (500)
    MaxTime,          \* bound on the clock
    None              \* no connection

Devices == 1 .. NDevices

ASSUME GatewayAssumption ==
    /\ NDevices \in Nat \ {0}
    /\ Layout \in {"standard", "repeated"}
    /\ Answers \subseteq {"data", "exception", "other"}
    /\ Lengths \subseteq Nat
    /\ Segmented \in BOOLEAN
    /\ {RetryCount, MaxConnAge, IdleTimeout, OutCap, MaxTime} \subseteq Nat
    /\ {CollectInterval, CleanupInterval} \subseteq Nat \ {0}
    /\ None \notin [id : Nat, createdAt : Nat, lastUsed : Nat]

ReadFunction == 3      \* 0x03, read holding registers
ExceptionBit == 128    \* 0x80
ByteCount == 2         \* of one register

VARIABLES
    now,          \* the clock
    collectTick,  \* a tick waits in collectTicker's channel
    cleanupTick,  \* a tick waits in cleanupTicker's channel
    ctxDone,      \* the context has been cancelled
    pc,           \* where the goroutine is
    dev,          \* the device being polled
    attempt,      \* iteration of the retry loop
    activeConn,   \* the cached connection
    open,         \* sockets that have been opened and not closed
    dialed,       \* sockets opened so far
    txID,         \* requests written
    asked,        \* requests on the connection the peer has not answered
    inbound,      \* fields on the connection not read yet
    cut,          \* an answer on it came short of its fields (for the proofs)
    respLen,      \* the length field of the header read, 0 after the exchange
    reading,      \* the register of the frame accepted, 0 once it is stored
    outCh,        \* readings offered and not consumed
    panicked      \* an index or a length was out of range

tickers == <<now, collectTick, cleanupTick, ctxDone>>
position == <<dev, attempt>>
socket == <<activeConn, open, dialed>>
wire == <<asked, inbound, cut>>
frame == <<respLen, reading>>
vars == <<tickers, pc, position, socket, txID, wire, frame, outCh, panicked>>

InitAt(start) ==
    /\ now = 0
    /\ collectTick = FALSE
    /\ cleanupTick = FALSE
    /\ ctxDone = FALSE
    /\ pc = start
    /\ dev = 1
    /\ attempt = 0
    /\ activeConn = None
    /\ open = {}
    /\ dialed = 0
    /\ txID = 0
    /\ asked = <<>>
    /\ inbound = <<>>
    /\ cut = FALSE
    /\ respLen = 0
    /\ reading = 0
    /\ outCh = <<>>
    /\ panicked = FALSE

\* The gateway waits for the first tick.
Init == InitAt("select")

-----------------------------------------------------------------------------
(* Frames.                                                                 *)

\* Unlike any unit, function or length.
Register(unit, tx) == 1000 * unit + tx

Body(request, answer) ==
    CASE answer = "data" ->
            <<ReadFunction, ByteCount, Register(request.unit, request.tx)>>
      [] answer = "exception" -> <<ReadFunction + ExceptionBit, 2>>
      [] answer = "other" ->
            <<ReadFunction + 1, ByteCount, Register(request.unit, request.tx)>>

\* What follows the header, and what of it fits a length.
PDU(request, answer) ==
    IF Layout = "standard" THEN Body(request, answer)
    ELSE <<request.unit>> \o Body(request, answer)

Announced(request, answer, length) ==
    LET pdu == PDU(request, answer)
    IN  SubSeq(pdu, 1, IF length <= Len(pdu) THEN length - 1 ELSE Len(pdu))

Frame(request, answer, length) ==
    <<request.tx, 0, length, request.unit>> \o Announced(request, answer, length)

\* A length that leaves out fields of the answer.
TooShort(request, answer, length) == length <= Len(PDU(request, answer))

\* A read of n fields returns some of what is there, all of it if answers are
\* not segmented; the rest of the buffer keeps its zeros.
Available(n) == IF n <= Len(inbound) THEN n ELSE Len(inbound)
Got(n) == IF Segmented THEN 1 .. Available(n) ELSE {Available(n)}
Buffer(n, got) == [i \in 1 .. n |-> IF i <= got THEN inbound[i] ELSE 0]
Rest(got) == SubSeq(inbound, got + 1, Len(inbound))

\* pdu[0] != byte(unitID), pdu[1] != 0x03, byteCount != count*2
Accepted(pdu) ==
    /\ Len(pdu) >= 3
    /\ pdu[1] = dev
    /\ pdu[2] = ReadFunction
    /\ pdu[3] = ByteCount

\* pdu[1] is read once the unit matches, pdu[2] once the function is a read
\* or an exception, the registers at the end.
OutOfRange(pdu) ==
    \/ pdu = <<>>
    \/ /\ pdu[1] = dev
       /\ \/ Len(pdu) < 2
          \/ pdu[2] = ReadFunction /\ Len(pdu) < 3
          \/ pdu[2] >= ExceptionBit /\ Len(pdu) < 3
          \/ Accepted(pdu) /\ Len(pdu) < 4

-----------------------------------------------------------------------------
(* The connection.  Closing it loses whatever was on its way.              *)

KeepConn == UNCHANGED <<socket, wire>>

NewWire == asked' = <<>> /\ inbound' = <<>> /\ cut' = FALSE

CloseConn ==
    /\ activeConn' = None
    /\ open' = IF activeConn = None THEN open ELSE open \ {activeConn.id}
    /\ NewWire
    /\ UNCHANGED dialed

Usable ==
    /\ activeConn # None
    /\ now - activeConn.createdAt <= MaxConnAge
    /\ now - activeConn.lastUsed <= IdleTimeout

ReuseConn ==
    /\ pc = "getconn"
    /\ Usable
    /\ activeConn' = [activeConn EXCEPT !.lastUsed = now]
    /\ pc' = "write"
    /\ UNCHANGED <<tickers, position, open, dialed, txID, wire, frame, outCh,
                   panicked>>

\* An expired connection is closed before another is dialed; KeepOpen would
\* only forget it.
KeepOpen == open
CloseExpired == IF activeConn = None THEN open ELSE open \ {activeConn.id}

DialConn ==
    /\ pc = "getconn"
    /\ ~Usable
    /\ dialed' = dialed + 1
    /\ activeConn' = [id |-> dialed + 1, createdAt |-> now, lastUsed |-> now]
    /\ open' = CloseExpired \cup {dialed + 1}
    /\ NewWire
    /\ pc' = "write"
    /\ UNCHANGED <<tickers, position, txID, frame, outCh, panicked>>

DialFails ==
    /\ pc = "getconn"
    /\ ~Usable
    /\ CloseConn
    /\ pc' = "failed"
    /\ UNCHANGED <<tickers, position, txID, frame, outCh, panicked>>

-----------------------------------------------------------------------------
(* One exchange: readModbus.  Write, header and rest may each time out.    *)

WriteRequest ==
    /\ pc = "write"
    /\ txID' = txID + 1
    /\ asked' = Append(asked, [unit |-> dev, tx |-> txID + 1])
    /\ pc' = "header"
    /\ UNCHANGED <<tickers, position, socket, inbound, cut, frame, outCh,
                   panicked>>

Crash ==
    /\ panicked' = TRUE
    /\ pc' = "crashed"

\* binary.BigEndian.Uint16(header[4:6]); the protocol is in header[2:4].
ProtocolOf(header) == header[2]
LengthOf(header) == header[3]

\* With a length of 0 the slice made for the rest has a negative size.
ReadHeader ==
    /\ pc = "header"
    /\ inbound # <<>>
    /\ \E got \in Got(4) :
          /\ respLen' = LengthOf(Buffer(4, got))
          /\ inbound' = Rest(got)
          /\ cut' = (cut \/ got < Available(4))
          /\ IF respLen' < 1 THEN Crash ELSE pc' = "pdu" /\ UNCHANGED panicked
    /\ UNCHANGED <<tickers, position, socket, txID, asked, reading, outCh>>

\* A frame that is refused leaves the connection as it is.
CheckFrame(pdu) ==
    IF OutOfRange(pdu)
    THEN Crash /\ UNCHANGED <<activeConn, reading>>
    ELSE /\ UNCHANGED panicked
         /\ IF Accepted(pdu)
            THEN /\ reading' = pdu[4]
                 /\ activeConn' = [activeConn EXCEPT !.lastUsed = now]
                 /\ pc' = "insert"
            ELSE /\ pc' = "failed"
                 /\ UNCHANGED <<activeConn, reading>>

\* With nothing to read into, conn.Read returns at once.
ReadPDU ==
    /\ pc = "pdu"
    /\ respLen = 1 \/ inbound # <<>>
    /\ \E got \in Got(respLen - 1) :
          /\ CheckFrame(Buffer(respLen - 1, got))
          /\ inbound' = Rest(got)
          /\ cut' = (cut \/ got < Available(respLen - 1))
    /\ respLen' = 0
    /\ UNCHANGED <<tickers, position, open, dialed, txID, asked, outCh>>

\* A connection whose answer did not come is not used again.
KeepAfterTimeout == KeepConn
DropAfterTimeout == CloseConn

\* The write, or a read whose answer is late, lost or cut off, fails.
ExchangeFails ==
    /\ pc \in {"write", "header", "pdu"}
    /\ txID' = IF pc = "write" THEN txID + 1 ELSE txID
    /\ DropAfterTimeout
    /\ respLen' = 0
    /\ pc' = "failed"
    /\ UNCHANGED <<tickers, position, reading, outCh, panicked>>

\* readModbusWithRetry: the last attempt leaves the connection as it is.
Retry ==
    /\ pc = "failed"
    /\ attempt < RetryCount
    /\ CloseConn
    /\ attempt' = attempt + 1
    /\ pc' = "getconn"
    /\ UNCHANGED <<tickers, dev, txID, frame, outCh, panicked>>

-----------------------------------------------------------------------------
(* The rounds: collectAll, collectDevice and the select loop.              *)

EndRound == pc' = "select" /\ UNCHANGED position

NextDevice ==
    IF dev = NDevices THEN EndRound
    ELSE pc' = "getconn" /\ dev' = dev + 1 /\ attempt' = 0

\* A device that failed ends the round only when the context is cancelled.
AfterError == IF ctxDone THEN EndRound ELSE NextDevice

GiveUp ==
    /\ pc = "failed"
    /\ attempt = RetryCount
    /\ AfterError
    /\ UNCHANGED <<tickers, socket, txID, wire, frame, outCh, panicked>>

InsertFails ==
    /\ pc = "insert"
    /\ AfterError
    /\ reading' = 0
    /\ UNCHANGED <<tickers, socket, txID, wire, respLen, outCh, panicked>>

RoomForOneMore == Len(outCh) <= OutCap
HasRoom == Len(outCh) < OutCap

\* InsertDeviceData succeeds; a full channel drops the event.
InsertAndOffer ==
    /\ pc = "insert"
    /\ ~ctxDone
    /\ outCh' = IF HasRoom
                THEN Append(outCh, [dev |-> dev, value |-> reading])
                ELSE outCh
    /\ NextDevice
    /\ reading' = 0
    /\ UNCHANGED <<tickers, socket, txID, wire, respLen, panicked>>

StartRound ==
    /\ pc = "select"
    /\ collectTick
    /\ collectTick' = FALSE
    /\ dev' = 1
    /\ attempt' = 0
    /\ pc' = "getconn"
    /\ UNCHANGED <<now, cleanupTick, ctxDone, socket, txID, wire, frame, outCh,
                   panicked>>

Cleanup ==
    /\ pc = "select"
    /\ cleanupTick
    /\ cleanupTick' = FALSE
    /\ IF activeConn # None /\ now - activeConn.lastUsed > IdleTimeout
       THEN CloseConn ELSE KeepConn
    /\ UNCHANGED <<now, collectTick, ctxDone, pc, position, txID, frame, outCh,
                   panicked>>

LeaveAtStop == KeepConn
CloseAtStop == CloseConn

Stop ==
    /\ pc = "select"
    /\ ctxDone
    /\ CloseAtStop
    /\ pc' = "stopped"
    /\ UNCHANGED <<tickers, position, txID, frame, outCh, panicked>>

-----------------------------------------------------------------------------
(* The environment: time, cancellation, the peer, the consumers.           *)

Tick ==
    /\ now < MaxTime
    /\ now' = now + 1
    /\ collectTick' = (collectTick \/ (now + 1) % CollectInterval = 0)
    /\ cleanupTick' = (cleanupTick \/ (now + 1) % CleanupInterval = 0)
    /\ UNCHANGED <<ctxDone, pc, position, socket, txID, wire, frame, outCh,
                   panicked>>

Cancel ==
    /\ ~ctxDone
    /\ ctxDone' = TRUE
    /\ UNCHANGED <<now, collectTick, cleanupTick, pc, position, socket, txID,
                   wire, frame, outCh, panicked>>

Answer ==
    /\ asked # <<>>
    /\ \E answer \in Answers :
          \E length \in {Len(PDU(Head(asked), answer)) + 1} \cup Lengths :
             /\ inbound' = inbound \o Frame(Head(asked), answer, length)
             /\ cut' = (cut \/ TooShort(Head(asked), answer, length))
    /\ asked' = Tail(asked)
    /\ UNCHANGED <<tickers, pc, position, socket, txID, frame, outCh, panicked>>

Consume ==
    /\ outCh # <<>>
    /\ outCh' = Tail(outCh)
    /\ UNCHANGED <<tickers, pc, position, socket, txID, wire, frame, panicked>>

Insert == InsertFails \/ InsertAndOffer

Poll ==
    \/ ReuseConn \/ DialConn \/ DialFails
    \/ WriteRequest \/ ReadHeader \/ ReadPDU \/ ExchangeFails
    \/ Retry \/ GiveUp

\* A panic ends the process.
Next ==
    /\ ~panicked
    /\ \/ StartRound \/ Poll \/ Insert \/ Cleanup \/ Stop
       \/ Tick \/ Cancel \/ Answer \/ Consume

Spec == Init /\ [][Next]_vars

(***************************************************************************)
(* Dial, write and read have deadlines, so polling goes on.  The insert has *)
(* none: it is only sure to return once its context is cancelled.  The     *)
(* select takes each ready case in the end.                                *)
(***************************************************************************)
Progress ==
    /\ WF_vars(Poll)
    /\ WF_vars(ctxDone /\ Insert)
    /\ SF_vars(StartRound)
    /\ SF_vars(Stop)

FairSpec == Spec /\ Progress

-----------------------------------------------------------------------------
Connections == [id : Nat, createdAt : Nat, lastUsed : Nat]
Requests == [unit : Devices, tx : Nat]
Readings == [dev : Devices, value : Nat]

\* Every variable has its type, the retry loop and the channel their bounds.
TypeOK ==
    /\ now \in Nat
    /\ {collectTick, cleanupTick, ctxDone, cut, panicked} \subseteq BOOLEAN
    /\ pc \in {"select", "getconn", "write", "header", "pdu", "failed",
               "insert", "stopped", "crashed"}
    /\ dev \in Devices
    /\ attempt \in 0 .. RetryCount
    /\ activeConn = None \/ activeConn \in Connections
    /\ open \subseteq 1 .. dialed
    /\ dialed \in Nat
    /\ txID \in Nat
    /\ asked \in Seq(Requests)
    /\ inbound \in Seq(Nat)
    /\ respLen \in Nat
    /\ reading \in Nat
    /\ outCh \in Seq(Readings)
    /\ Len(outCh) <= OutCap

\* A reading is stored under the device it was read from, and comes from the
\* answer to this very request: no retry, late answer, refused frame or reused
\* connection hands a device another answer, although the transaction number
\* is never compared (gateway.go:246-278, 298-301).
ReadingIsAnswer == pc = "insert" => reading = Register(dev, txID)

\* The gateway holds at most one socket, the cached one: whichever of age,
\* idleness, failure or shutdown ends a connection, it is closed
\* (gateway.go:159-170, 188-216).
OneSocket == open = IF activeConn = None THEN {} ELSE {activeConn.id}

\* The parser trusts the length on the wire and indexes without a check.  Only
\* an answer that announces fewer fields than it has, or arrives in pieces,
\* takes it past the end: no whole answer, exception, refused function, late
\* answer or length too large stops the process (gateway.go:246-278).
PanicNeedsCutAnswer == panicked => cut

\* A peer that answers every request with the registers asked for is heard,
\* whatever layout it uses: README.md:60 has the simulator (the "standard"
\* layout, scripts/modbus_simulator.py:220-229) feed the gateway.
AnswerIsAccepted == [][ReadPDU => pc' = "insert"]_vars

\* A round that started reaches the last device, whatever fails on the way,
\* unless the context is cancelled, the process stops or an insert never
\* returns (gateway.go:138-153, 325).
RoundReachesAll ==
    (pc = "getconn" /\ dev = 1)
        ~> (dev = NDevices \/ ctxDone \/ panicked \/ [](pc = "insert"))

\* After the context is cancelled the gateway ends and leaves no socket open.
ShutdownCloses == ctxDone ~> ((pc = "stopped" /\ open = {}) \/ panicked)
=============================================================================
