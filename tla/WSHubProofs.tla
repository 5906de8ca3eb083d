---------------------------- MODULE WSHubProofs ----------------------------
(* The hub never stops the process, for every number of clients, of        *)
(* forwarders and of buffered messages.                                    *)
EXTENDS WSHub, TLAPS

\* A client is in the map only while its channel is open; no broadcast is under
\* way outside the hub's loop over the map; and a client that has not been
\* registered is in neither place.
OpenInv ==
    /\ clients \cap closed = {}
    /\ hub # "broadcast" => pending = {}
    /\ \A c \in Clients :
          reader[c] \in {"none", "registering"} => c \notin clients \cup closed

HubInv == TypeOK /\ OpenInv /\ NoPanic

\* What appending to, and taking from, a buffer gives.
LEMMA SeqFacts ==
    ASSUME NEW s \in Seq(Nat), NEW e \in Nat
    PROVE  /\ Append(s, e) \in Seq(Nat) /\ Len(Append(s, e)) = Len(s) + 1
           /\ <<e>> \in Seq(Nat)
           /\ s # <<>> => /\ Head(s) \in Nat /\ Tail(s) \in Seq(Nat)
                          /\ Len(Tail(s)) = Len(s) - 1
OBVIOUS

\* A written message extends what the connection has received.
LEMMA ConcatTyped ==
    ASSUME NEW s \in Seq(Nat), NEW t \in Seq(Nat)
    PROVE  s \o t \in Seq(Nat)
OBVIOUS

\* NewHub starts with no client and no channel.
LEMMA InitHub == Init => HubInv
<1> SUFFICES ASSUME Init PROVE HubInv
  OBVIOUS
<1>0. <<>> \in Seq(Nat) /\ Len(<<>>) <= SendCap
  BY HubAssumption
<1>1. /\ send \in [Clients -> Seq(Nat)] /\ inHand \in [Clients -> Seq(Nat)]
      /\ received \in [Clients -> Seq(Nat)]
      /\ \A c \in Clients : Len(send[c]) <= SendCap
  BY <1>0 DEF Init
<1>2. TypeOK
  BY <1>1, HubAssumption DEF Init, TypeOK
<1> QED
  BY <1>2 DEF Init, HubInv, OpenInv, NoPanic

\* Every step of the hub and of the pumps keeps the types: the hub delivers
\* only into a buffer with room.
LEMMA TypeStep == TypeOK /\ OpenInv /\ [Next]_vars => TypeOK'
<1> SUFFICES ASSUME TypeOK, OpenInv, [Next]_vars
             PROVE  TypeOK'
  OBVIOUS
<1> USE HubAssumption DEF TypeOK, hubVars, chanVars, writerVars
<1>1. CASE Cancel
  BY <1>1 DEF Cancel
<1>2. ASSUME NEW c \in Clients, HubRegister(c) PROVE TypeOK'
  BY <1>2 DEF HubRegister
<1>3. ASSUME NEW c \in Clients, HubUnregister(c) PROVE TypeOK'
  BY <1>3 DEF HubUnregister, Drop, CloseSend, OpenInv
<1>4. ASSUME NEW c \in Clients, HubDeliver(c) PROVE TypeOK'
  <2>1. CASE Len(send[c]) < SendCap
    <3>1. /\ Append(send[c], count) \in Seq(Nat)
          /\ Len(Append(send[c], count)) <= SendCap
      BY <2>1, SeqFacts
    <3>2. send' = [send EXCEPT ![c] = Append(send[c], count)]
      BY <1>4, <2>1 DEF HubDeliver, HasRoom, PutOnSend
    <3>3. /\ send' \in [Clients -> Seq(Nat)]
          /\ \A d \in Clients : Len(send'[d]) <= SendCap
      BY <3>1, <3>2
    <3> QED
      BY <1>4, <2>1, <3>3 DEF HubDeliver, HasRoom, PutOnSend
  <2>2. CASE ~(Len(send[c]) < SendCap)
    BY <1>4, <2>2 DEF HubDeliver, HasRoom, DropFull, Drop, CloseSend
  <2> QED
    BY <2>1, <2>2
<1>5. ASSUME NEW c \in Clients, Connect(c) PROVE TypeOK'
  BY <1>5 DEF Connect
<1>6. ASSUME NEW c \in Clients, StartPumps(c) PROVE TypeOK'
  BY <1>6 DEF StartPumps
<1>7. ASSUME NEW c \in Clients, ReadFails(c) PROVE TypeOK'
  BY <1>7 DEF ReadFails
<1>8. ASSUME NEW c \in Clients, ReaderCloses(c) PROVE TypeOK'
  BY <1>8 DEF ReaderCloses
<1>9. ASSUME NEW c \in Clients, WriterTakes(c) PROVE TypeOK'
  <2>1. /\ send[c] \in Seq(Nat) /\ send[c] # <<>> /\ Len(send[c]) \in Nat
        /\ SendCap \in Nat
    BY <1>9 DEF WriterTakes
  <2>2. /\ Head(send[c]) \in Nat /\ Tail(send[c]) \in Seq(Nat)
        /\ Len(Tail(send[c])) <= SendCap
    BY <2>1, SeqFacts
  <2>3. /\ send' \in [Clients -> Seq(Nat)]
        /\ \A d \in Clients : Len(send'[d]) <= SendCap
    BY <1>9, <2>2 DEF WriterTakes
  <2>4. inHand' \in [Clients -> Seq(Nat)]
    BY <1>9, <2>2, SeqFacts DEF WriterTakes
  <2> QED
    BY <1>9, <2>3, <2>4 DEF WriterTakes
<1>10. ASSUME NEW c \in Clients, WriteSucceeds(c) PROVE TypeOK'
  <2>1. received' \in [Clients -> Seq(Nat)]
    <3>1. received[c] \o inHand[c] \in Seq(Nat)
      BY ConcatTyped
    <3> QED
      BY <1>10, <3>1 DEF WriteSucceeds
  <2>2. inHand' \in [Clients -> Seq(Nat)]
    BY <1>10 DEF WriteSucceeds
  <2> QED
    BY <1>10, <2>1, <2>2 DEF WriteSucceeds
<1>11. ASSUME NEW c \in Clients,
              \/ WriterPings(c) \/ PingSucceeds(c)
              \/ WriterSeesClose(c) \/ WriteEnds(c)
       PROVE  TypeOK'
  BY <1>11 DEF WriterPings, PingSucceeds, WriterSeesClose, WriteEnds
<1>12. ASSUME NEW c \in Clients, WriterCloses(c) PROVE TypeOK'
  BY <1>12 DEF WriterCloses
<1>13. ASSUME NEW p \in Producers, HubTake(p) PROVE TypeOK'
  BY <1>13 DEF HubTake
<1>14. ASSUME NEW p \in Producers, Broadcast(p) PROVE TypeOK'
  BY <1>14 DEF Broadcast
<1>15. CASE HubDelivered
  BY <1>15 DEF HubDelivered
<1>16. CASE HubStop
  BY <1>16 DEF HubStop, CloseSend, OpenInv
<1>17. CASE UNCHANGED vars
  BY <1>17 DEF vars
<1> QED
  BY <1>1, <1>2, <1>3, <1>4, <1>5, <1>6, <1>7, <1>8, <1>9, <1>10, <1>11,
     <1>12, <1>13, <1>14, <1>15, <1>16, <1>17 DEF Next

\* Every step that closes a channel takes its client out of the map, and only
\* clients of the map are sent to.
LEMMA OpenStep == HubInv /\ [Next]_vars => OpenInv' /\ NoPanic'
<1> SUFFICES ASSUME TypeOK, OpenInv, NoPanic, [Next]_vars
             PROVE  OpenInv' /\ NoPanic'
  BY DEF HubInv
<1> USE DEF OpenInv, NoPanic, hubVars, chanVars, writerVars
<1>1. CASE Cancel
  BY <1>1 DEF Cancel
<1>2. ASSUME NEW c \in Clients, HubRegister(c) PROVE OpenInv' /\ NoPanic'
  BY <1>2 DEF HubRegister, TypeOK
<1>3. ASSUME NEW c \in Clients, HubUnregister(c) PROVE OpenInv' /\ NoPanic'
  BY <1>3 DEF HubUnregister, Drop, CloseSend, TypeOK
<1>4. ASSUME NEW c \in Clients, HubDeliver(c) PROVE OpenInv' /\ NoPanic'
  <2>1. c \in clients /\ c \notin closed
    BY <1>4 DEF HubDeliver, HasRoom, PutOnSend, TypeOK
  <2>2. CASE Len(send[c]) < SendCap
    BY <1>4, <2>1, <2>2 DEF HubDeliver, HasRoom, PutOnSend
  <2>3. CASE ~(Len(send[c]) < SendCap)
    BY <1>4, <2>1, <2>3 DEF HubDeliver, HasRoom, DropFull, Drop, CloseSend
  <2> QED
    BY <2>2, <2>3
<1>5. ASSUME NEW c \in Clients,
             \/ Connect(c) \/ StartPumps(c) \/ ReadFails(c) \/ ReaderCloses(c)
      PROVE  OpenInv' /\ NoPanic'
  BY <1>5 DEF Connect, StartPumps, ReadFails, ReaderCloses, TypeOK
<1>6. ASSUME NEW c \in Clients,
             \/ WriterTakes(c) \/ WriteSucceeds(c) \/ WriterPings(c)
             \/ PingSucceeds(c) \/ WriterSeesClose(c) \/ WriteEnds(c)
             \/ WriterCloses(c)
      PROVE  OpenInv' /\ NoPanic'
  <2>1. UNCHANGED <<hub, clients, pending, closed, reader, panicked>>
    BY <1>6 DEF WriterTakes, WriteSucceeds, WriterPings, PingSucceeds,
                WriterSeesClose, WriteEnds, WriterCloses
  <2> QED
    BY <2>1
<1>7. ASSUME NEW p \in Producers, HubTake(p) \/ Broadcast(p)
      PROVE  OpenInv' /\ NoPanic'
  BY <1>7 DEF HubTake, Broadcast
<1>8. CASE HubDelivered
  BY <1>8 DEF HubDelivered
<1>9. CASE HubStop
  BY <1>9 DEF HubStop, CloseSend
<1>10. CASE UNCHANGED vars
  BY <1>10 DEF vars
<1> QED
  BY <1>1, <1>2, <1>3, <1>4, <1>5, <1>6, <1>7, <1>8, <1>9, <1>10 DEF Next

\* Types and capacities hold in every state.
THEOREM HubTypeCorrect == Spec => []TypeOK
<1>1. HubInv /\ [Next]_vars => HubInv'
  BY TypeStep, OpenStep DEF HubInv
<1>2. HubInv => TypeOK
  BY DEF HubInv
<1> QED
  BY <1>1, <1>2, InitHub, PTL DEF Spec

\* No interleaving of a full buffer, a leaving browser and the shutdown sends
\* on a closed channel or closes one twice.
THEOREM HubNeverPanics == Spec => []NoPanic
<1>1. HubInv /\ [Next]_vars => HubInv'
  BY TypeStep, OpenStep DEF HubInv
<1>2. HubInv => NoPanic
  BY DEF HubInv
<1> QED
  BY <1>1, <1>2, InitHub, PTL DEF Spec
-----------------------------------------------------------------------------
(* What a client is given.  Its stream lies in three places: written to    *)
(* the connection, in the writer's hand, and in the buffer.                *)

\* The messages j + 1, j + 2, ...
Consecutive(s, j) == s \in Seq(Nat) /\ \A i \in 1 .. Len(s) : s[i] = j + i

StreamOf(c) ==
    /\ Consecutive(received[c], joined[c])
    /\ Consecutive(inHand[c], joined[c] + Len(received[c]))
    /\ Consecutive(send[c], joined[c] + Len(received[c]) + Len(inHand[c]))
    /\ writer[c] \in {"none", "select", "pinging"} => inHand[c] = <<>>
    /\ reader[c] \in {"none", "registering", "registered"} => writer[c] = "none"
    /\ reader[c] \in {"none", "registering"} =>
           received[c] = <<>> /\ send[c] = <<>>
    /\ c \in clients =>
           joined[c] + Len(received[c]) + Len(inHand[c]) + Len(send[c]) = Last(c)

StreamInv == \A c \in Clients : StreamOf(c)

\* Putting the next message at the end, or taking the first one.
LEMMA ConsecutiveFacts ==
    ASSUME NEW j \in Nat, NEW s, Consecutive(s, j)
    PROVE  /\ \A e : e = j + Len(s) + 1 =>
                  /\ Consecutive(Append(s, e), j)
                  /\ Len(Append(s, e)) = Len(s) + 1
           /\ s # <<>> => /\ Consecutive(<<Head(s)>>, j) /\ Len(<<Head(s)>>) = 1
                          /\ Consecutive(Tail(s), j + 1)
                          /\ Len(Tail(s)) = Len(s) - 1
<1>1. s \in Seq(Nat) /\ \A i \in 1 .. Len(s) : s[i] = j + i
  BY DEF Consecutive
<1>2. PICK n \in Nat : n = Len(s)
  BY <1>1
<1>3. PICK t : t = Append(s, j + n + 1)
  OBVIOUS
<1>4. /\ t \in Seq(Nat) /\ Len(t) = n + 1
      /\ \A i \in 1 .. n : t[i] = s[i]
      /\ t[n + 1] = j + n + 1
  BY <1>1, <1>2, <1>3
<1>5. Consecutive(t, j)
  <2>1. ASSUME NEW i \in 1 .. n + 1 PROVE t[i] = j + i
    <3>1. CASE i = n + 1
      BY <1>2, <1>4, <3>1
    <3>2. CASE i # n + 1
      <4>1. i \in 1 .. n
        BY <1>2, <3>2
      <4> QED
        BY <1>1, <1>2, <1>4, <4>1
    <3> QED
      BY <3>1, <3>2
  <2> QED
    BY <1>4, <2>1 DEF Consecutive
<1>6. ASSUME s # <<>>
      PROVE  /\ Consecutive(<<Head(s)>>, j) /\ Len(<<Head(s)>>) = 1
             /\ Consecutive(Tail(s), j + 1)
             /\ Len(Tail(s)) = Len(s) - 1
  <2>1. /\ Head(s) = j + 1 /\ Tail(s) \in Seq(Nat) /\ Len(Tail(s)) = n - 1
        /\ \A i \in 1 .. n - 1 : Tail(s)[i] = s[i + 1]
    BY <1>1, <1>2, <1>6
  <2>2. \A i \in 1 .. n - 1 : Tail(s)[i] = j + 1 + i
    BY <1>1, <1>2, <2>1
  <2> QED
    BY <1>2, <2>1, <2>2 DEF Consecutive
<1> QED
  BY <1>2, <1>3, <1>4, <1>5, <1>6

\* Two consecutive runs, one after the other.
LEMMA ConsecutiveConcat ==
    ASSUME NEW j \in Nat, NEW s, NEW t, Consecutive(s, j),
           Consecutive(t, j + Len(s))
    PROVE  /\ Consecutive(s \o t, j)
           /\ Len(s \o t) = Len(s) + Len(t)
<1>1. s \in Seq(Nat) /\ t \in Seq(Nat)
  BY DEF Consecutive
<1>2. /\ s \o t \in Seq(Nat) /\ Len(s \o t) = Len(s) + Len(t)
      /\ \A i \in 1 .. Len(s) : (s \o t)[i] = s[i]
      /\ \A i \in 1 .. Len(t) : (s \o t)[Len(s) + i] = t[i]
  BY <1>1
<1>3. ASSUME NEW i \in 1 .. Len(s) + Len(t) PROVE (s \o t)[i] = j + i
  <2>1. CASE i <= Len(s)
    BY <1>1, <1>2, <2>1 DEF Consecutive
  <2>2. CASE i > Len(s)
    <3>1. PICK n \in 1 .. Len(t) : i = Len(s) + n
      <4>1. i - Len(s) \in 1 .. Len(t) /\ i = Len(s) + (i - Len(s))
        BY <1>1, <2>2
      <4> QED
        BY <4>1
    <3>2. (s \o t)[i] = t[n] /\ t[n] = j + Len(s) + n
      BY <1>2, <3>1 DEF Consecutive
    <3> QED
      BY <1>1, <3>1, <3>2
  <2> QED
    BY <1>1, <2>1, <2>2
<1> QED
  BY <1>2, <1>3 DEF Consecutive

\* The three places together are the stream.
LEMMA StreamsMissNothing == TypeOK /\ StreamInv => RegisteredMissesNothing
<1> SUFFICES ASSUME TypeOK, StreamInv, NEW c \in Clients
             PROVE  /\ \A i \in 1 .. Len(Stream(c)) : Stream(c)[i] = joined[c] + i
                    /\ c \in clients => Len(Stream(c)) = Last(c) - joined[c]
  BY DEF RegisteredMissesNothing
<1>1. joined[c] \in Nat /\ count \in Nat
  BY DEF TypeOK
<1>2. /\ Consecutive(received[c] \o inHand[c], joined[c])
      /\ Len(received[c] \o inHand[c]) = Len(received[c]) + Len(inHand[c])
  BY <1>1, ConsecutiveConcat DEF StreamInv, StreamOf
<1>3. /\ Len(received[c]) \in Nat /\ Len(inHand[c]) \in Nat
      /\ Len(send[c]) \in Nat
  BY DEF TypeOK
<1>4. PICK u : u = received[c] \o inHand[c]
  OBVIOUS
<1>5. Consecutive(send[c], joined[c] + Len(u))
  <2>1. PICK r, h \in Nat : r = Len(received[c]) /\ h = Len(inHand[c])
    BY <1>3
  <2>2. Len(u) = Len(received[c]) + Len(inHand[c])
    BY <1>2, <1>4
  <2>3. Len(u) = r + h
    BY <2>1, <2>2
  <2>4. joined[c] + Len(u) = joined[c] + r + h
    BY <1>1, <2>3
  <2> QED
    BY <2>1, <2>4 DEF StreamInv, StreamOf
<1>6. /\ Consecutive(u \o send[c], joined[c])
      /\ Len(u \o send[c]) = Len(u) + Len(send[c])
  BY <1>1, <1>2, <1>4, <1>5, ConsecutiveConcat
<1>7. /\ Consecutive(Stream(c), joined[c])
      /\ Len(Stream(c)) = Len(received[c]) + Len(inHand[c]) + Len(send[c])
  BY <1>2, <1>4, <1>6 DEF Stream
<1>8. ASSUME c \in clients PROVE Len(Stream(c)) = Last(c) - joined[c]
  <2>1. PICK r, h, b \in Nat : /\ r = Len(received[c]) /\ h = Len(inHand[c])
                               /\ b = Len(send[c])
    BY <1>3
  <2>2. joined[c] + r + h + b = Last(c)
    BY <1>8, <2>1 DEF StreamInv, StreamOf
  <2>3. Len(Stream(c)) = r + h + b
    BY <1>7, <2>1
  <2> QED
    BY <1>1, <2>2, <2>3
<1> QED
  BY <1>7, <1>8 DEF Consecutive

\* A client that a step does not concern keeps its stream.
LEMMA StreamKept ==
    ASSUME NEW c \in Clients, StreamOf(c),
           received'[c] = received[c], inHand'[c] = inHand[c],
           send'[c] = send[c], joined'[c] = joined[c],
           writer'[c] \in {"none", "select", "pinging"} =>
               writer[c] \in {"none", "select", "pinging"},
           writer[c] = "none" => writer'[c] = "none",
           reader'[c] \in {"none", "registering", "registered"} =>
               reader[c] \in {"none", "registering", "registered"},
           reader'[c] \in {"none", "registering"} =>
               reader[c] \in {"none", "registering"},
           c \in clients' => c \in clients /\ Last(c)' = Last(c)
    PROVE  StreamOf(c)'
BY DEF StreamOf, Consecutive

\* The stream from the lengths of its three parts.
LEMMA StreamBuilt ==
    ASSUME NEW c \in Clients, NEW j \in Nat, NEW r \in Nat, NEW h \in Nat,
           NEW b \in Nat,
           joined'[c] = j, Len(received'[c]) = r, Len(inHand'[c]) = h,
           Len(send'[c]) = b,
           Consecutive(received'[c], j), Consecutive(inHand'[c], j + r),
           Consecutive(send'[c], j + r + h),
           writer'[c] \in {"none", "select", "pinging"} => inHand'[c] = <<>>,
           reader'[c] \in {"none", "registering", "registered"} =>
               writer'[c] = "none",
           reader'[c] \in {"none", "registering"} =>
               received'[c] = <<>> /\ send'[c] = <<>>,
           c \in clients' => j + r + h + b = Last(c)'
    PROVE  StreamOf(c)'
BY DEF StreamOf, Consecutive

\* Every step keeps the streams whole.
LEMMA StreamStep == HubInv /\ StreamInv /\ [Next]_vars => StreamInv'
<1> SUFFICES ASSUME TypeOK, OpenInv, StreamInv, [Next]_vars, NEW d \in Clients
             PROVE  StreamOf(d)'
  BY DEF HubInv, StreamInv
<1> USE DEF hubVars, chanVars, writerVars
<1>0. /\ joined[d] \in Nat /\ count \in Nat /\ StreamOf(d)
      /\ Len(received[d]) \in Nat /\ Len(inHand[d]) \in Nat
      /\ Len(send[d]) \in Nat
  BY DEF TypeOK, StreamInv
<1>p. PICK j, r, h, b \in Nat :
         /\ j = joined[d] /\ r = Len(received[d]) /\ h = Len(inHand[d])
         /\ b = Len(send[d])
  BY <1>0
<1>q. /\ Consecutive(received[d], j) /\ Consecutive(inHand[d], j + r)
      /\ Consecutive(send[d], j + r + h)
      /\ d \in clients => j + r + h + b = Last(d)
  BY <1>0, <1>p DEF StreamOf
<1>r. Len(<<>>) = 0 /\ \A n \in Nat : Consecutive(<<>>, n)
  BY DEF Consecutive
<1>1. CASE Cancel \/ UNCHANGED vars \/ \E p \in Producers : Broadcast(p)
  BY <1>0, <1>1, StreamKept DEF Cancel, vars, Broadcast, Last
<1>2. ASSUME NEW c \in Clients, HubRegister(c) PROVE StreamOf(d)'
  <2>1. pending = {} /\ pending' = {} /\ count' = count
    BY <1>2 DEF HubRegister, OpenInv
  <2>2. CASE d # c
    BY <1>0, <1>2, <2>1, <2>2, StreamKept DEF HubRegister, TypeOK, Last
  <2>3. CASE d = c
    <3>1. /\ received'[c] = <<>> /\ inHand'[c] = <<>> /\ send'[c] = <<>>
          /\ writer'[c] = "none" /\ reader'[c] = "registered"
          /\ joined'[c] = count
      BY <1>0, <1>2, <2>3 DEF HubRegister, StreamOf, TypeOK
    <3>2. Last(c)' = count
      BY <2>1 DEF Last
    <3>3. /\ count + 0 \in Nat /\ count + 0 + 0 \in Nat
          /\ count + 0 + 0 + 0 = count
      BY <1>0
    <3>4. /\ Consecutive(<<>>, count) /\ Consecutive(<<>>, count + 0)
          /\ Consecutive(<<>>, count + 0 + 0)
      BY <1>0, <1>r, <3>3
    <3>5. Len(<<>>) = 0 /\ 0 \in Nat /\ count \in Nat
      BY <1>0, <1>r
    <3>6. count + 0 + 0 + 0 = Last(c)'
      BY <3>2, <3>3
    <3>7. /\ Len(received'[c]) = 0 /\ Len(inHand'[c]) = 0 /\ Len(send'[c]) = 0
          /\ Consecutive(received'[c], count)
          /\ Consecutive(inHand'[c], count + 0)
          /\ Consecutive(send'[c], count + 0 + 0)
      BY <3>1, <3>4, <3>5
    <3>8. StreamOf(c)'
      BY <3>1, <3>5, <3>6, <3>7, StreamBuilt
    <3> QED
      BY <2>3, <3>8
  <2> QED
    BY <2>2, <2>3
<1>3. ASSUME NEW c \in Clients, HubUnregister(c) PROVE StreamOf(d)'
  BY <1>0, <1>3, StreamKept DEF HubUnregister, Drop, CloseSend, TypeOK, Last
<1>4. ASSUME NEW c \in Clients, HubDeliver(c) PROVE StreamOf(d)'
  <2>1. CASE d # c
    <3>1. Last(d)' = Last(d)
      BY <1>4, <2>1 DEF HubDeliver, Last
    <3>2. UNCHANGED <<received, inHand, joined, writer, reader>>
      BY <1>4 DEF HubDeliver
    <3>3. send'[d] = send[d] /\ (d \in clients' => d \in clients)
      BY <1>4, <2>1 DEF HubDeliver, PutOnSend, DropFull, Drop, TypeOK
    <3> QED
      BY <1>0, <3>1, <3>2, <3>3, StreamKept
  <2>2. CASE d = c /\ HasRoom(c)
    <3>1. /\ d \in clients /\ Last(d) = count - 1 /\ Last(d)' = count
      BY <1>4, <2>2 DEF HubDeliver, TypeOK, Last
    <3>2. /\ send'[d] = Append(send[d], count)
          /\ UNCHANGED <<received, inHand, joined, writer, reader>>
      BY <1>4, <2>2 DEF HubDeliver, PutOnSend, TypeOK
    <3>3. PICK k \in Nat : k = j + r + h /\ k + b = count - 1 /\ count = k + b + 1
      <4>1. j + r + h \in Nat
        OBVIOUS
      <4>2. j + r + h + b = count - 1
        BY <1>q, <3>1
      <4> QED
        BY <1>0, <4>1, <4>2
    <3>4. reader[d] \notin {"none", "registering"}
      BY <3>1 DEF OpenInv
    <3>5. Consecutive(send'[d], j + r + h) /\ Len(send'[d]) = b + 1
      <4>1. Consecutive(send[d], k) /\ count = k + Len(send[d]) + 1
        BY <1>p, <1>q, <3>3
      <4>2. /\ Consecutive(Append(send[d], count), k)
            /\ Len(Append(send[d], count)) = Len(send[d]) + 1
        BY <4>1, ConsecutiveFacts
      <4>3. /\ Consecutive(send'[d], k) /\ Len(send'[d]) = Len(send[d]) + 1
        BY <3>2, <4>2
      <4> QED
        BY <1>p, <3>3, <4>3
    <3>6. /\ joined'[d] = j /\ Len(received'[d]) = r /\ Len(inHand'[d]) = h
          /\ Consecutive(received'[d], j) /\ Consecutive(inHand'[d], j + r)
      BY <1>p, <1>q, <3>2
    <3>7. j + r + h + (b + 1) = Last(d)'
      <4>1. j + r + h + (b + 1) = k + b + 1
        BY <3>3
      <4> QED
        BY <3>1, <3>3, <4>1
    <3>8. /\ writer'[d] \in {"none", "select", "pinging"} => inHand'[d] = <<>>
          /\ reader'[d] \in {"none", "registering", "registered"} =>
                 writer'[d] = "none"
          /\ reader'[d] \notin {"none", "registering"}
      BY <1>0, <3>2, <3>4 DEF StreamOf
    <3>9. b + 1 \in Nat
      OBVIOUS
    <3> QED
      BY <3>5, <3>6, <3>7, <3>8, <3>9, StreamBuilt
  <2>3. CASE d = c /\ ~HasRoom(c)
    <3>1. d \notin clients'
      BY <1>4, <2>3 DEF HubDeliver, DropFull, Drop
    <3>2. UNCHANGED <<received, inHand, send, joined, writer, reader>>
      BY <1>4, <2>3 DEF HubDeliver, DropFull
    <3> QED
      BY <1>0, <3>1, <3>2, StreamKept
  <2> QED
    BY <2>1, <2>2, <2>3
<1>5. ASSUME NEW c \in Clients,
             \/ Connect(c) \/ ReadFails(c) \/ ReaderCloses(c)
      PROVE  StreamOf(d)'
  BY <1>0, <1>5, StreamKept DEF Connect, ReadFails, ReaderCloses, TypeOK, Last
<1>6. ASSUME NEW c \in Clients, StartPumps(c) PROVE StreamOf(d)'
  <2>1. CASE d # c
    BY <1>0, <1>6, <2>1, StreamKept DEF StartPumps, TypeOK, Last
  <2>2. CASE d = c
    <3>1. writer[d] = "none" /\ writer'[d] = "select" /\ reader'[d] = "reading"
      BY <1>0, <1>6, <2>2 DEF StartPumps, StreamOf, TypeOK
    <3>2. /\ UNCHANGED <<received, inHand, send, joined, clients>>
          /\ Last(d)' = Last(d)
      BY <1>6 DEF StartPumps, Last
    <3> QED
      BY <1>0, <3>1, <3>2 DEF StreamOf, Consecutive
  <2> QED
    BY <2>1, <2>2
<1>7. ASSUME NEW c \in Clients, WriterTakes(c) PROVE StreamOf(d)'
  <2>1. UNCHANGED <<received, joined, clients, reader>> /\ Last(d)' = Last(d)
    BY <1>7 DEF WriterTakes, Last
  <2>2. CASE d # c
    <3>1. /\ inHand'[d] = inHand[d] /\ send'[d] = send[d]
          /\ writer'[d] = writer[d]
      BY <1>7, <2>2 DEF WriterTakes, TypeOK
    <3> QED
      BY <1>0, <2>1, <3>1, StreamKept
  <2>3. CASE d = c
    <3>1. /\ writer[d] = "select" /\ send[d] # <<>>
          /\ inHand'[d] = <<Head(send[d])>> /\ send'[d] = Tail(send[d])
          /\ writer'[d] = "writing"
      BY <1>7, <2>3 DEF WriterTakes, TypeOK
    <3>2. inHand[d] = <<>> /\ h = 0 /\ j + r + h = j + r
      BY <1>0, <1>p, <1>r, <3>1 DEF StreamOf
    <3>3. /\ Consecutive(inHand'[d], j + r) /\ Len(inHand'[d]) = 1
          /\ Consecutive(send'[d], j + r + 1) /\ Len(send'[d]) = b - 1
      BY <1>p, <1>q, <3>1, <3>2, ConsecutiveFacts
    <3>4. reader'[d] \notin {"none", "registering", "registered"}
      BY <1>0, <2>1, <3>1 DEF StreamOf
    <3>5. /\ joined'[d] = j /\ Len(received'[d]) = r
          /\ Consecutive(received'[d], j)
      BY <1>p, <1>q, <2>1
    <3>6. b - 1 \in Nat
      BY <1>p, <3>1 DEF TypeOK
    <3>7. d \in clients' => j + r + 1 + (b - 1) = Last(d)'
      <4>1. j + r + 1 + (b - 1) = j + r + h + b
        BY <3>2
      <4>2. clients' = clients /\ Last(d)' = Last(d)
        BY <2>1
      <4> QED
        BY <1>q, <4>1, <4>2
    <3> QED
      BY <3>1, <3>3, <3>4, <3>5, <3>6, <3>7, StreamBuilt
  <2> QED
    BY <2>2, <2>3
<1>8. ASSUME NEW c \in Clients, WriteSucceeds(c) PROVE StreamOf(d)'
  <2>1. UNCHANGED <<send, joined, clients, reader>> /\ Last(d)' = Last(d)
    BY <1>8 DEF WriteSucceeds, Last
  <2>2. CASE d # c
    <3>1. /\ inHand'[d] = inHand[d] /\ received'[d] = received[d]
          /\ writer'[d] = writer[d]
      BY <1>8, <2>2 DEF WriteSucceeds, TypeOK
    <3> QED
      BY <1>0, <2>1, <3>1, StreamKept
  <2>3. CASE d = c
    <3>1. /\ writer[d] = "writing" /\ writer'[d] = "select"
          /\ inHand'[d] = <<>> /\ received'[d] = received[d] \o inHand[d]
      BY <1>8, <2>3 DEF WriteSucceeds, TypeOK
    <3>2. /\ Consecutive(received'[d], j) /\ Len(received'[d]) = r + h
      <4>1. /\ Consecutive(received[d], j)
            /\ Consecutive(inHand[d], j + Len(received[d]))
        BY <1>p, <1>q
      <4>2. /\ Consecutive(received[d] \o inHand[d], j)
            /\ Len(received[d] \o inHand[d]) = Len(received[d]) + Len(inHand[d])
        BY <4>1, ConsecutiveConcat
      <4> QED
        BY <1>p, <3>1, <4>2
    <3>3. /\ joined'[d] = j /\ Len(send'[d]) = b
          /\ Consecutive(send'[d], j + (r + h) + 0)
      <4>1. j + (r + h) + 0 = j + r + h
        OBVIOUS
      <4>2. joined' = joined /\ send' = send
        BY <2>1
      <4> QED
        BY <1>p, <1>q, <4>1, <4>2
    <3>4. /\ Consecutive(inHand'[d], j + (r + h)) /\ Len(inHand'[d]) = 0
      <4>1. j + (r + h) \in Nat
        OBVIOUS
      <4>2. Consecutive(<<>>, j + (r + h)) /\ Len(<<>>) = 0
        BY <1>r, <4>1
      <4> QED
        BY <3>1, <4>2
    <3>5. reader'[d] \notin {"none", "registering", "registered"}
      BY <1>0, <2>1, <3>1 DEF StreamOf
    <3>6. d \in clients' => j + (r + h) + 0 + b = Last(d)'
      <4>1. j + (r + h) + 0 + b = j + r + h + b
        OBVIOUS
      <4>2. d \in clients => j + r + h + b = Last(d)
        BY <1>q
      <4>3. clients' = clients /\ Last(d)' = Last(d)
        BY <2>1
      <4> QED
        BY <4>1, <4>2, <4>3
    <3>7. r + h \in Nat
      OBVIOUS
    <3> QED
      BY <3>1, <3>2, <3>3, <3>4, <3>5, <3>6, <3>7, StreamBuilt
  <2> QED
    BY <2>2, <2>3
<1>9. ASSUME NEW c \in Clients,
             \/ WriterPings(c) \/ PingSucceeds(c) \/ WriterSeesClose(c)
             \/ WriteEnds(c) \/ WriterCloses(c)
      PROVE  StreamOf(d)'
  BY <1>0, <1>9, StreamKept DEF WriterPings, PingSucceeds, WriterSeesClose,
                                WriteEnds, WriterCloses, TypeOK, Last
<1>10. ASSUME NEW p \in Producers, HubTake(p) PROVE StreamOf(d)'
  <2>1. /\ pending = {} /\ pending' = clients /\ count' = count + 1
        /\ UNCHANGED <<received, inHand, send, joined, writer, reader, clients>>
    BY <1>10 DEF HubTake, OpenInv
  <2>2. d \in clients => Last(d)' = Last(d)
    BY <1>0, <2>1 DEF Last
  <2> QED
    BY <1>0, <2>1, <2>2, StreamKept
<1>11. CASE HubDelivered \/ HubStop
  BY <1>0, <1>11, StreamKept DEF HubDelivered, HubStop, Last
<1> QED
  BY <1>1, <1>2, <1>3, <1>4, <1>5, <1>6, <1>7, <1>8, <1>9, <1>10, <1>11
     DEF Next

\* No message has been taken at the start.
LEMMA StreamInit == Init => StreamInv
BY DEF Init, StreamInv, StreamOf, Consecutive

\* A client never sees a gap, and a registered one misses nothing, for every
\* number of clients and every capacity, whoever comes, leaves or lags.
THEOREM NothingMissed == Spec => []RegisteredMissesNothing
<1>1. HubInv /\ [Next]_vars => HubInv'
  BY TypeStep, OpenStep DEF HubInv
<1>2. HubInv => TypeOK
  BY DEF HubInv
<1> QED
  BY <1>1, <1>2, InitHub, StreamInit, StreamStep, StreamsMissNothing, PTL
     DEF Spec
=============================================================================
