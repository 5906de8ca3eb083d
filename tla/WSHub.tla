------------------------------- MODULE WSHub -------------------------------
(***************************************************************************)
(* backend/internal/ws/hub.go: one hub goroutine owns the set of clients;  *)
(* the forwarders of main.go hand it messages over an unbuffered channel;  *)
(* every client has a buffered channel Send, a goroutine that writes it to *)
(* the connection and one that reads the connection to notice its end.     *)
(* Sending on a closed channel, or closing one twice, stops the process.   *)
(*                                                                         *)
(* A message is its number in the order the hub takes them.  A browser may *)
(* leave, and a write may fail, at any time; a browser that stops reading  *)
(* blocks the write, for no write has a deadline.                          *)
(***************************************************************************)
EXTENDS Integers, Sequences, FiniteSets

CONSTANTS
    Clients,      \* the connections that will be opened
    Producers,    \* the goroutines that call Broadcast
    SendCap,      \* capacity of Client.Send (256)
    MaxMessages   \* bound on the messages broadcast

ASSUME HubAssumption == SendCap \in Nat \ {0} /\ MaxMessages \in Nat

VARIABLES
    ctxDone,    \* the context has been cancelled
    hub,        \* where Run is
    clients,    \* h.clients
    pending,    \* clients the broadcast under way has not reached
    count,      \* messages taken by the hub
    sending,    \* producers blocked in h.broadcast <- data
    conn,       \* state of each connection
    reader,     \* where HandleWebSocket, then readPump, is
    writer,     \* where writePump is
    send,       \* contents of Client.Send
    closed,     \* clients whose Send has been closed
    inHand,     \* the message the writer has taken and is writing
    received,   \* messages written to the connection
    joined,     \* history: messages taken before the client was registered
    panicked    \* a send on, or a close of, a closed channel

hubVars == <<hub, clients, pending, count, joined>>
chanVars == <<send, closed, panicked>>
writerVars == <<writer, inHand, received>>
vars == <<ctxDone, hubVars, chanVars, writerVars, sending, conn, reader>>

Init ==
    /\ ctxDone = FALSE
    /\ hub = "select"
    /\ clients = {}
    /\ pending = {}
    /\ count = 0
    /\ sending = {}
    /\ conn = [c \in Clients |-> "none"]
    /\ reader = [c \in Clients |-> "none"]
    /\ writer = [c \in Clients |-> "none"]
    /\ send = [c \in Clients |-> <<>>]
    /\ closed = {}
    /\ inHand = [c \in Clients |-> <<>>]
    /\ received = [c \in Clients |-> <<>>]
    /\ joined = [c \in Clients |-> 0]
    /\ panicked = FALSE

Cancel ==
    /\ ~ctxDone
    /\ ctxDone' = TRUE
    /\ UNCHANGED <<hubVars, chanVars, writerVars, sending, conn, reader>>

-----------------------------------------------------------------------------
(* The channel Send.                                                       *)

CloseSend(C) ==
    /\ closed' = closed \cup C
    /\ panicked' = (panicked \/ C \cap closed # {})

\* Taking a client out of the map and closing its channel go together.
\* DropButKeep forgets the map.
DropButKeep(c) ==
    /\ clients' = clients
    /\ CloseSend({c})

Drop(c) ==
    /\ clients' = clients \ {c}
    /\ CloseSend({c})

RoomForOneMore(c) == Len(send[c]) <= SendCap
HasRoom(c) == Len(send[c]) < SendCap

\* A client whose buffer is full is dropped; SkipFull would only lose the
\* message.
SkipFull(c) == UNCHANGED <<clients, send, closed, panicked>>
DropFull(c) == Drop(c) /\ UNCHANGED send

-----------------------------------------------------------------------------
(* Hub.Run                                                                 *)

HubRegister(c) ==
    /\ hub = "select"
    /\ reader[c] = "registering"
    /\ clients' = clients \cup {c}
    /\ joined' = [joined EXCEPT ![c] = count]
    /\ reader' = [reader EXCEPT ![c] = "registered"]
    /\ UNCHANGED <<ctxDone, hub, pending, count, chanVars, writerVars, sending,
                   conn>>

\* Unregistering that waits for a client of the map: a dropped one is never let
\* go.
HubUnregisterKnown(c) ==
    /\ hub = "select"
    /\ reader[c] = "unregistering"
    /\ c \in clients
    /\ reader' = [reader EXCEPT ![c] = "closing"]
    /\ Drop(c)
    /\ UNCHANGED <<ctxDone, hub, pending, count, joined, send, writerVars,
                   sending, conn>>

\* A client that was dropped before is not closed again.
HubUnregister(c) ==
    /\ hub = "select"
    /\ reader[c] = "unregistering"
    /\ reader' = [reader EXCEPT ![c] = "closing"]
    /\ IF c \in clients THEN Drop(c) ELSE UNCHANGED <<clients, closed, panicked>>
    /\ UNCHANGED <<ctxDone, hub, pending, count, joined, send, writerVars,
                   sending, conn>>

HubTake(p) ==
    /\ hub = "select"
    /\ p \in sending
    /\ sending' = sending \ {p}
    /\ count' = count + 1
    /\ pending' = clients
    /\ hub' = "broadcast"
    /\ UNCHANGED <<ctxDone, clients, joined, chanVars, writerVars, conn, reader>>

PutOnSend(c) ==
    /\ send' = [send EXCEPT ![c] = Append(@, count)]
    /\ panicked' = (panicked \/ c \in closed)
    /\ UNCHANGED <<clients, closed>>

\* A delivery that waits until the client has room.
HubDeliverWaiting(c) ==
    /\ hub = "broadcast"
    /\ c \in pending
    /\ HasRoom(c)
    /\ pending' = pending \ {c}
    /\ PutOnSend(c)
    /\ UNCHANGED <<ctxDone, hub, count, joined, writerVars, sending, conn, reader>>

\* The hub waits for nobody.
HubDeliver(c) ==
    /\ hub = "broadcast"
    /\ c \in pending
    /\ pending' = pending \ {c}
    /\ IF HasRoom(c) THEN PutOnSend(c) ELSE DropFull(c)
    /\ UNCHANGED <<ctxDone, hub, count, joined, writerVars, sending, conn, reader>>

HubDelivered ==
    /\ hub = "broadcast"
    /\ pending = {}
    /\ hub' = "select"
    /\ UNCHANGED <<ctxDone, clients, pending, count, joined, chanVars,
                   writerVars, sending, conn, reader>>

\* A stop that leaves the clients in the map.
HubStopOnly ==
    /\ hub = "select"
    /\ ctxDone
    /\ hub' = "stopped"
    /\ UNCHANGED <<ctxDone, clients, pending, count, joined, chanVars,
                   writerVars, sending, conn, reader>>

HubStop ==
    /\ hub = "select"
    /\ ctxDone
    /\ hub' = "stopped"
    /\ clients' = {}
    /\ CloseSend(clients)
    /\ UNCHANGED <<ctxDone, pending, count, joined, send, writerVars, sending,
                   conn, reader>>

-----------------------------------------------------------------------------
\* A forwarder calls Broadcast and blocks until the hub takes the message.
Broadcast(p) ==
    /\ p \notin sending
    /\ count + Cardinality(sending) < MaxMessages
    /\ sending' = sending \cup {p}
    /\ UNCHANGED <<ctxDone, hubVars, chanVars, writerVars, conn, reader>>

\* HandleWebSocket: the upgrade succeeded and Register blocks.
Connect(c) ==
    /\ reader[c] = "none"
    /\ conn' = [conn EXCEPT ![c] = "open"]
    /\ reader' = [reader EXCEPT ![c] = "registering"]
    /\ UNCHANGED <<ctxDone, hubVars, chanVars, writerVars, sending>>

StartPumps(c) ==
    /\ reader[c] = "registered"
    /\ reader' = [reader EXCEPT ![c] = "reading"]
    /\ writer' = [writer EXCEPT ![c] = "select"]
    /\ UNCHANGED <<ctxDone, hubVars, chanVars, inHand, received, sending, conn>>

\* A reader that ends without telling the hub.
ReaderLeaves(c) ==
    /\ reader[c] = "reading"
    /\ reader' = [reader EXCEPT ![c] = "closing"]
    /\ UNCHANGED <<ctxDone, hubVars, chanVars, writerVars, sending, conn>>

\* readPump: the browser left, or our side closed the connection.
ReadFails(c) ==
    /\ reader[c] = "reading"
    /\ reader' = [reader EXCEPT ![c] = "unregistering"]
    /\ UNCHANGED <<ctxDone, hubVars, chanVars, writerVars, sending, conn>>

ReaderCloses(c) ==
    /\ reader[c] = "closing"
    /\ reader' = [reader EXCEPT ![c] = "done"]
    /\ conn' = [conn EXCEPT ![c] = "closed"]
    /\ UNCHANGED <<ctxDone, hubVars, chanVars, writerVars, sending>>

\* writePump
WriterTakes(c) ==
    /\ writer[c] = "select"
    /\ send[c] # <<>>
    /\ inHand' = [inHand EXCEPT ![c] = <<Head(send[c])>>]
    /\ send' = [send EXCEPT ![c] = Tail(@)]
    /\ writer' = [writer EXCEPT ![c] = "writing"]
    /\ UNCHANGED <<ctxDone, hubVars, closed, panicked, received, sending, conn,
                   reader>>

WriteSucceeds(c) ==
    /\ writer[c] = "writing"
    /\ conn[c] = "open"
    /\ received' = [received EXCEPT ![c] = @ \o inHand[c]]
    /\ inHand' = [inHand EXCEPT ![c] = <<>>]
    /\ writer' = [writer EXCEPT ![c] = "select"]
    /\ UNCHANGED <<ctxDone, hubVars, chanVars, sending, conn, reader>>

\* The ticker: a ping that is written changes nothing.
WriterPings(c) ==
    /\ writer[c] = "select"
    /\ writer' = [writer EXCEPT ![c] = "pinging"]
    /\ UNCHANGED <<ctxDone, hubVars, chanVars, inHand, received, sending, conn,
                   reader>>

PingSucceeds(c) ==
    /\ writer[c] = "pinging"
    /\ conn[c] = "open"
    /\ writer' = [writer EXCEPT ![c] = "select"]
    /\ UNCHANGED <<ctxDone, hubVars, chanVars, inHand, received, sending, conn,
                   reader>>

\* Send is closed and drained: a close frame, then the end, written or not.
WriterSeesClose(c) ==
    /\ writer[c] = "select"
    /\ send[c] = <<>>
    /\ c \in closed
    /\ writer' = [writer EXCEPT ![c] = "goodbye"]
    /\ UNCHANGED <<ctxDone, hubVars, chanVars, inHand, received, sending, conn,
                   reader>>

\* A write reports an error, or the close frame's write returns.
WriteEnds(c) ==
    /\ writer[c] \in {"writing", "pinging", "goodbye"}
    /\ writer' = [writer EXCEPT ![c] = "closing"]
    /\ UNCHANGED <<ctxDone, hubVars, chanVars, inHand, received, sending, conn,
                   reader>>

WriterCloses(c) ==
    /\ writer[c] = "closing"
    /\ writer' = [writer EXCEPT ![c] = "done"]
    /\ conn' = [conn EXCEPT ![c] = "closed"]
    /\ UNCHANGED <<ctxDone, hubVars, chanVars, inHand, received, sending, reader>>

-----------------------------------------------------------------------------
Next ==
    \/ Cancel
    \/ \E c \in Clients :
          \/ HubRegister(c)
          \/ HubUnregister(c)
          \/ HubDeliver(c)
          \/ Connect(c)
          \/ StartPumps(c)
          \/ ReadFails(c)
          \/ ReaderCloses(c)
          \/ WriterTakes(c)
          \/ WriteSucceeds(c)
          \/ WriterPings(c)
          \/ PingSucceeds(c)
          \/ WriterSeesClose(c)
          \/ WriteEnds(c)
          \/ WriterCloses(c)
    \/ \E p \in Producers : HubTake(p) \/ Broadcast(p)
    \/ HubDelivered
    \/ HubStop

Spec == Init /\ [][Next]_vars

(***************************************************************************)
(* A goroutine that can run does, and a read or a write on a connection    *)
(* that this side has closed fails.  Nothing makes a write on an open one  *)
(* return: writePump sets no deadline, and a browser that lives but does   *)
(* not read keeps the write waiting.  A select picks among its ready cases *)
(* at random, so a case that is ready again and again is taken: strong     *)
(* fairness for each of them.                                              *)
(***************************************************************************)
Fairness ==
    /\ WF_vars(HubDelivered)
    /\ SF_vars(HubStop)
    /\ \A p \in Producers : SF_vars(HubTake(p))
    /\ \A c \in Clients :
          /\ SF_vars(HubRegister(c))
          /\ SF_vars(HubUnregister(c))
          /\ WF_vars(HubDeliver(c))
          /\ WF_vars(StartPumps(c))
          /\ WF_vars(conn[c] = "closed" /\ ReadFails(c))
          /\ WF_vars(ReaderCloses(c))
          /\ SF_vars(WriterTakes(c))
          /\ WF_vars(conn[c] = "closed" /\ WriterPings(c))
          /\ SF_vars(WriterSeesClose(c))
          /\ WF_vars(conn[c] = "closed" /\ WriteEnds(c))
          /\ WF_vars(WriterCloses(c))

FairSpec == Spec /\ Fairness

-----------------------------------------------------------------------------
\* Every variable has its type, no buffer exceeds its capacity, and only a
\* registered client is served.
TypeOK ==
    /\ ctxDone \in BOOLEAN
    /\ hub \in {"select", "broadcast", "stopped"}
    /\ clients \subseteq Clients
    /\ pending \subseteq clients
    /\ count \in Nat
    /\ sending \subseteq Producers
    /\ conn \in [Clients -> {"none", "open", "closed"}]
    /\ reader \in [Clients -> {"none", "registering", "registered", "reading",
                               "unregistering", "closing", "done"}]
    /\ writer \in [Clients -> {"none", "select", "writing", "pinging", "goodbye",
                               "closing", "done"}]
    /\ send \in [Clients -> Seq(Nat)]
    /\ \A c \in Clients : Len(send[c]) <= SendCap
    /\ closed \subseteq Clients
    /\ inHand \in [Clients -> Seq(Nat)]
    /\ received \in [Clients -> Seq(Nat)]
    /\ joined \in [Clients -> Nat]
    /\ panicked \in BOOLEAN

\* Whoever drops a client first (its reader, the full buffer, the shutdown),
\* Send is closed once and nothing is sent on it afterwards (hub.go:54-57,
\* 66-69, 74-83).
NoPanic == ~panicked

\* What a client has been given so far, in the order it was given.
Stream(c) == received[c] \o inHand[c] \o send[c]

Last(c) == IF c \in pending THEN count - 1 ELSE count

\* A client sees no gap, no repetition and no inversion, dropped or not; and a
\* registered one misses nothing: it has been given every message taken since
\* it joined, for one that cannot keep up is dropped rather than skipped
\* (hub.go:74-83).
RegisteredMissesNothing ==
    \A c \in Clients :
        /\ \A i \in 1 .. Len(Stream(c)) : Stream(c)[i] = joined[c] + i
        /\ c \in clients => Len(Stream(c)) = Last(c) - joined[c]

\* A forwarder is never held up by the clients: its message is taken, or the
\* hub has stopped (hub.go:71-85).
BroadcastReturns ==
    \A p \in Producers : p \in sending ~> (p \notin sending \/ hub = "stopped")

\* The browser does not read, and the writer waits for it.
Blocked(c) ==
    conn[c] = "open" /\ writer[c] \in {"writing", "pinging", "goodbye"}

\* Once Send is closed both goroutines of the client end (hub.go:151-192),
\* unless a write without a deadline blocks the writer for good (hub.go:183),
\* or the hub stopped first and the reader waits for it forever.
DroppedClientEnds ==
    \A c \in Clients :
        c \in closed ~>
            \/ writer[c] = "done" /\ (reader[c] = "done" \/ hub = "stopped")
            \/ []Blocked(c)

\* A connection that is closed leaves the map (hub.go:151-155, 64-70).
DeadConnectionLeaves ==
    \A c \in Clients : conn[c] = "closed" ~> c \notin clients

\* After the context is cancelled the hub closes every client it has.
ShutdownDrops == ctxDone ~> (hub = "stopped" /\ clients = {})
=============================================================================
