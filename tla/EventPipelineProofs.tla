------------------------ MODULE EventPipelineProofs ------------------------
(***************************************************************************)
(* The readings of one channel, shared out among three readers, for every  *)
(* number of devices and rounds and every capacity: types and capacity are *)
(* kept, and what a listener holds of a device never grows older.          *)
(*                                                                         *)
(* A reader that is slow holds an old reading in its hand while others     *)
(* take the later ones, so the order of the channel is not enough: the     *)
(* invariant compares what each reader has had, in its hand and in its     *)
(* cache, with everything that is still to come.                           *)
(***************************************************************************)
EXTENDS EventPipeline, SequenceTheorems, TLAPS

-----------------------------------------------------------------------------
(* The shape of the channel and of the queue of waiting readers.           *)

\* A reader blocked on the channel waits in one place only.
WaitsOnce ==
    \A i, j \in 1 .. Len(waiting) : waiting[i] = waiting[j] => i = j

\* Everything a reader has had from the channel is of round n at the latest.
Had(r, n) ==
    /\ inbox[r] # None => inbox[r].round <= n
    /\ r \in Listeners => \A d \in Devices : held[r][d] <= n

\* The readings in the channel are ordered by round.
ChannelInOrder ==
    \A i, j \in 1 .. Len(outCh) : i < j => outCh[i].round <= outCh[j].round

\* What the gateway offers next is not older than anything offered before.
NothingFromTheFuture ==
    /\ \A i \in 1 .. Len(outCh) : outCh[i].round <= round
    /\ \A r \in Readers : Had(r, round)

\* What a reader finds in the channel is not older than what it has had.
ReadersBehind ==
    \A r \in Readers, i \in 1 .. Len(outCh) : Had(r, outCh[i].round)

\* The reading in a listener's hand is not older than the one it will replace.
HandNotOlder ==
    \A r \in Listeners, d \in Devices :
        inbox[r] # None => held[r][d] <= inbox[r].round

OrderInv ==
    /\ ChannelInOrder /\ NothingFromTheFuture
    /\ ReadersBehind /\ HandNotOlder

PathInv == TypeOK /\ WaitsOnce /\ OrderInv

USE DEF Listeners, Readers
-----------------------------------------------------------------------------
\* Nothing has been collected yet.
LEMMA PathInit == Init => PathInv
BY PipelineAssumption
   DEF Init, PathInv, TypeOK, WaitsOnce, OrderInv, ChannelInOrder,
       NothingFromTheFuture, ReadersBehind, HandNotOlder, Had, Devices, ToSet

\* The gateway goes on to the next device, or to the next round.
LEMMA AdvanceType ==
    ASSUME TypeOK, Advance
    PROVE  /\ next' \in Devices
           /\ round' \in 1 .. MaxRound
           /\ round <= round'
<1>1. /\ NDevices \in Nat /\ MaxRound \in Nat
      /\ next \in 1 .. NDevices /\ round \in 1 .. MaxRound
  BY PipelineAssumption DEF TypeOK, Devices
<1>2. CASE next < NDevices
  BY <1>1, <1>2 DEF Advance, Devices
<1>3. CASE ~(next < NDevices)
  BY <1>1, <1>3 DEF Advance, Devices
<1> QED
  BY <1>2, <1>3

\* A device that does not answer adds nothing.
LEMMA CollectFailsStep == ASSUME PathInv, CollectFails PROVE PathInv'
<1>1. TypeOK /\ WaitsOnce /\ OrderInv
  BY DEF PathInv
<1>2. TypeOK'
  BY <1>1, AdvanceType DEF CollectFails, TypeOK
<1>3. WaitsOnce'
  BY <1>1 DEF CollectFails, WaitsOnce
<1>4. OrderInv'
  <2>1. ChannelInOrder' /\ ReadersBehind' /\ HandNotOlder'
    BY <1>1 DEF OrderInv, CollectFails, ChannelInOrder, ReadersBehind, HandNotOlder, Had
  <2>2. NothingFromTheFuture'
    <3>1. round <= round' /\ round \in Int /\ round' \in Int
      BY <1>1, AdvanceType, PipelineAssumption DEF CollectFails, TypeOK
    <3>2. ASSUME NEW i \in 1 .. Len(outCh) PROVE outCh[i].round <= round'
      <4>1. outCh[i] \in Readings
        BY <1>1 DEF TypeOK
      <4>2. outCh[i].round <= round
        BY <1>1 DEF OrderInv, NothingFromTheFuture
      <4> QED
        BY <4>1, <4>2, <3>1, PipelineAssumption DEF Readings
    <3>3. ASSUME NEW r \in Readers PROVE Had(r, round')
      <4>1. Had(r, round)
        BY <1>1 DEF OrderInv, NothingFromTheFuture
      <4>2. /\ inbox[r] # None => inbox[r].round \in Int
            /\ r \in Listeners => \A d \in Devices : held[r][d] \in Int
        BY <1>1, PipelineAssumption DEF TypeOK, Readings
      <4> QED
        BY <4>1, <4>2, <3>1 DEF Had
    <3> QED
      BY <3>2, <3>3 DEF NothingFromTheFuture, CollectFails, Had
  <2> QED
    BY <2>1, <2>2 DEF OrderInv
<1> QED
  BY <1>2, <1>3, <1>4 DEF PathInv

\* The two ways in which a reading leaves the gateway.
Handed(reading) ==
    /\ waiting # <<>>
    /\ inbox' = [inbox EXCEPT ![Head(waiting)] = reading]
    /\ waiting' = Tail(waiting)
    /\ UNCHANGED outCh

Queued(reading) ==
    /\ waiting = <<>>
    /\ outCh' = IF HasRoom THEN Append(outCh, reading) ELSE outCh
    /\ UNCHANGED <<waiting, inbox>>

\* What Tail leaves of the queue of waiting readers.
LEMMA WaitingTail ==
    ASSUME PathInv, waiting # <<>>
    PROVE  /\ Head(waiting) \in Readers
           /\ inbox[Head(waiting)] = None
           /\ Tail(waiting) \in Seq(Readers)
           /\ \A i \in 1 .. Len(Tail(waiting)) :
                 /\ Tail(waiting)[i] = waiting[i + 1]
                 /\ i + 1 \in 1 .. Len(waiting)
                 /\ Tail(waiting)[i] # Head(waiting)
<1>1. waiting \in Seq(Readers) /\ WaitsOnce
      /\ \A i \in 1 .. Len(waiting) : inbox[waiting[i]] = None
  BY DEF PathInv, TypeOK, ToSet
<1>2. /\ Head(waiting) = waiting[1] /\ 1 \in 1 .. Len(waiting)
      /\ Tail(waiting) \in Seq(Readers)
      /\ Len(Tail(waiting)) = Len(waiting) - 1
      /\ \A i \in 1 .. Len(Tail(waiting)) : Tail(waiting)[i] = waiting[i + 1]
  BY <1>1
<1>3. ASSUME NEW i \in 1 .. Len(Tail(waiting))
      PROVE  i + 1 \in 1 .. Len(waiting) /\ i + 1 # 1
  BY <1>1, <1>2
<1>4. ASSUME NEW i \in 1 .. Len(Tail(waiting))
      PROVE  Tail(waiting)[i] # Head(waiting)
  BY <1>1, <1>2, <1>3, <1>4 DEF WaitsOnce
<1>5. Head(waiting) \in Readers
  BY <1>1, <1>2
<1>6. inbox[Head(waiting)] = None
  BY <1>1, <1>2
<1> QED
  BY <1>2, <1>3, <1>4, <1>5, <1>6

\* A reading is handed to a reader, queued, or dropped.
LEMMA CollectStep == ASSUME PathInv, Collect PROVE PathInv'
<1> DEFINE reading == [dev |-> next, round |-> round]
<1>1. TypeOK /\ WaitsOnce /\ OrderInv
  BY DEF PathInv
<1>2. /\ Advance /\ held' = held
      /\ Handed(reading) \/ Queued(reading)
  BY DEF Collect, Handed, Queued
<1>3. /\ next' \in Devices /\ round' \in 1 .. MaxRound /\ round <= round'
      /\ round \in Int /\ round' \in Int /\ round \in 1 .. MaxRound
  BY <1>1, <1>2, AdvanceType, PipelineAssumption DEF TypeOK
<1>4. reading \in Readings /\ reading # None /\ reading.round = round
  BY <1>1, PipelineAssumption DEF TypeOK, Readings
<1> HIDE DEF reading
<1>5. /\ \A i \in 1 .. Len(outCh) : outCh[i] \in Readings /\ outCh[i].round \in Int
      /\ \A r \in Readers : inbox[r] # None => inbox[r] \in Readings /\ inbox[r].round \in Int
      /\ \A r \in Listeners, d \in Devices : held[r][d] \in Int
      /\ Len(outCh) \in Nat
  <2>1. \A x \in Readings : x.round \in Int
    BY PipelineAssumption DEF Readings
  <2>2. /\ \A i \in 1 .. Len(outCh) : outCh[i] \in Readings
        /\ \A r \in Readers : inbox[r] # None => inbox[r] \in Readings
        /\ Len(outCh) \in Nat
    BY <1>1 DEF TypeOK
  <2>3. \A r \in Listeners, d \in Devices : held[r][d] \in Int
    BY <1>1, PipelineAssumption DEF TypeOK
  <2> QED
    BY <2>1, <2>2, <2>3
<1>6. ASSUME NEW r \in Readers, NEW n \in Int, n >= round PROVE Had(r, n)
  BY <1>1, <1>3, <1>5, <1>6 DEF OrderInv, NothingFromTheFuture, Had
<1>7. CASE Handed(reading)
  <2> DEFINE r0 == Head(waiting)
  <2>1. /\ r0 \in Readers /\ inbox[r0] = None
        /\ Tail(waiting) \in Seq(Readers)
        /\ \A i \in 1 .. Len(Tail(waiting)) :
              /\ Tail(waiting)[i] = waiting[i + 1]
              /\ i + 1 \in 1 .. Len(waiting)
              /\ Tail(waiting)[i] # r0
    BY <1>7, WaitingTail DEF Handed
  <2> HIDE DEF r0
  <2>2. /\ inbox' = [inbox EXCEPT ![r0] = reading]
        /\ waiting' = Tail(waiting) /\ outCh' = outCh /\ outCh = <<>>
    BY <1>1, <1>7 DEF Handed, r0, TypeOK
  <2>3. TypeOK'
    <3>1. inbox' \in [Readers -> Readings \cup {None}]
      BY <1>1, <1>4, <2>1, <2>2 DEF TypeOK
    <3>2. \A i \in 1 .. Len(waiting') : inbox'[waiting'[i]] = None
      <4> SUFFICES ASSUME NEW i \in 1 .. Len(waiting') PROVE inbox'[waiting'[i]] = None
        OBVIOUS
      <4>1. waiting'[i] # r0 /\ waiting'[i] \in Readers
        BY <2>1, <2>2
      <4>2. inbox[waiting'[i]] = None
        BY <1>1, <2>1, <2>2 DEF TypeOK, ToSet
      <4> QED
        BY <1>1, <4>1, <4>2, <2>2 DEF TypeOK
    <3>3. \A r \in ToSet(waiting') : inbox'[r] = None
      BY <3>2, <2>1, <2>2 DEF ToSet
    <3> QED
      BY <1>1, <1>2, <1>3, <2>1, <2>2, <3>1, <3>3 DEF TypeOK
  <2>4. WaitsOnce'
    <3> SUFFICES ASSUME NEW i \in 1 .. Len(waiting'), NEW j \in 1 .. Len(waiting'),
                        waiting'[i] = waiting'[j]
                 PROVE  i = j
      BY DEF WaitsOnce
    <3>1. i + 1 = j + 1
      BY <1>1, <2>1, <2>2 DEF WaitsOnce
    <3> QED
      BY <3>1
  <2>5. Len(outCh) = 0
    BY <2>2
  <2>6. OrderInv'
    <3>1. ChannelInOrder' /\ ReadersBehind'
      BY <2>2, <2>5 DEF ChannelInOrder, ReadersBehind
    <3>2. ASSUME NEW r \in Readers PROVE Had(r, round)'
      <4>1. Had(r, round')
        BY <1>3, <1>6
      <4>2. inbox'[r] = IF r = r0 THEN reading ELSE inbox[r]
        BY <1>1, <2>1, <2>2 DEF TypeOK
      <4> QED
        BY <1>2, <1>3, <1>4, <4>1, <4>2 DEF Had
    <3>3. NothingFromTheFuture'
      BY <2>2, <2>5, <3>2 DEF NothingFromTheFuture
    <3>4. HandNotOlder'
      <4> SUFFICES ASSUME NEW r \in Listeners, NEW d \in Devices, inbox'[r] # None
                   PROVE  held[r][d] <= inbox'[r].round
        BY <1>2 DEF HandNotOlder
      <4>1. inbox'[r] = IF r = r0 THEN reading ELSE inbox[r]
        BY <1>1, <2>1, <2>2 DEF TypeOK
      <4>2. Had(r, round)
        BY <1>3, <1>6
      <4> QED
        BY <1>1, <1>4, <4>1, <4>2 DEF OrderInv, HandNotOlder, Had
    <3> QED
      BY <3>1, <3>3, <3>4 DEF OrderInv
  <2> QED
    BY <2>3, <2>4, <2>6 DEF PathInv
<1>8. CASE Queued(reading)
  <2>1. waiting = <<>> /\ waiting' = waiting /\ inbox' = inbox
    BY <1>8 DEF Queued
  <2>2. CASE outCh' = outCh
    <3>1. CollectFails
      BY <1>2, <2>1, <2>2 DEF CollectFails
    <3> QED
      BY <3>1, CollectFailsStep
  <2>3. CASE outCh' = Append(outCh, reading) /\ HasRoom
    <3>1. /\ outCh' \in Seq(Readings) /\ Len(outCh') = Len(outCh) + 1
          /\ Len(outCh') <= OutCap
          /\ \A i \in 1 .. Len(outCh) : outCh'[i] = outCh[i]
          /\ outCh'[Len(outCh) + 1] = reading
      BY <1>1, <1>4, <2>3, PipelineAssumption DEF TypeOK, HasRoom
    <3>2. ASSUME NEW i \in 1 .. Len(outCh')
          PROVE  i \in 1 .. Len(outCh) \/ (i = Len(outCh) + 1 /\ outCh'[i] = reading)
      BY <3>1, <1>5
    <3>3. TypeOK'
      BY <1>1, <1>2, <1>3, <2>1, <3>1 DEF TypeOK
    <3>4. WaitsOnce'
      BY <1>1, <2>1 DEF WaitsOnce
    <3>5. ASSUME NEW i \in 1 .. Len(outCh') PROVE outCh'[i].round <= round
      BY <1>1, <1>3, <1>4, <3>1, <3>2 DEF OrderInv, NothingFromTheFuture
    <3>6. ChannelInOrder'
      <4> SUFFICES ASSUME NEW i \in 1 .. Len(outCh'), NEW j \in 1 .. Len(outCh'), i < j
                   PROVE  outCh'[i].round <= outCh'[j].round
        BY DEF ChannelInOrder
      <4>1. CASE j \in 1 .. Len(outCh)
        <5>1. i \in 1 .. Len(outCh)
          BY <4>1, <1>5
        <5> QED
          BY <1>1, <4>1, <5>1, <3>1 DEF OrderInv, ChannelInOrder
      <4>2. CASE outCh'[j] = reading
        BY <4>2, <3>5, <1>4
      <4> QED
        BY <4>1, <4>2, <3>2
    <3>7. NothingFromTheFuture'
      <4>1. ASSUME NEW i \in 1 .. Len(outCh') PROVE outCh'[i].round <= round'
        <5>1. outCh'[i] \in Readings
          BY <3>1
        <5>2. outCh'[i].round \in Int
          BY <5>1, PipelineAssumption DEF Readings
        <5> QED
          BY <5>2, <3>5, <1>3
      <4>2. ASSUME NEW r \in Readers PROVE Had(r, round')
        BY <1>3, <1>6
      <4> QED
        BY <4>1, <4>2, <2>1, <1>2 DEF NothingFromTheFuture, Had
    <3>8. ReadersBehind'
      <4> SUFFICES ASSUME NEW r \in Readers, NEW i \in 1 .. Len(outCh')
                   PROVE  Had(r, outCh'[i].round)
        BY <2>1, <1>2 DEF ReadersBehind, Had
      <4>1. CASE i \in 1 .. Len(outCh)
        BY <4>1, <1>1, <3>1 DEF OrderInv, ReadersBehind
      <4>2. CASE outCh'[i] = reading
        BY <4>2, <1>3, <1>4, <1>6
      <4> QED
        BY <4>1, <4>2, <3>2
    <3>9. HandNotOlder'
      BY <1>1, <1>2, <2>1 DEF OrderInv, HandNotOlder
    <3> QED
      BY <3>3, <3>4, <3>6, <3>7, <3>8, <3>9 DEF PathInv, OrderInv
  <2> QED
    BY <1>8, <2>2, <2>3 DEF Queued
<1> QED
  BY <1>2, <1>7, <1>8

\* A reader takes the oldest reading of the channel.
LEMMA TakeStep ==
    ASSUME PathInv, NEW r0 \in Readers, outCh # <<>>, inbox[r0] = None,
           inbox' = [inbox EXCEPT ![r0] = Head(outCh)],
           outCh' = Tail(outCh),
           UNCHANGED <<round, next, waiting, held>>
    PROVE  PathInv'
<1>1. TypeOK /\ WaitsOnce /\ OrderInv
  BY DEF PathInv
<1>2. /\ outCh \in Seq(Readings) /\ Len(outCh) \in Nat /\ Len(outCh) # 0
      /\ Head(outCh) = outCh[1] /\ Tail(outCh) \in Seq(Readings)
      /\ Len(Tail(outCh)) = Len(outCh) - 1
      /\ \A i \in 1 .. Len(Tail(outCh)) : Tail(outCh)[i] = outCh[i + 1]
  BY <1>1 DEF TypeOK
<1>3. /\ 1 \in 1 .. Len(outCh) /\ outCh[1] \in Readings /\ outCh[1] # None
  BY <1>2, PipelineAssumption
<1>4. \A i \in 1 .. Len(outCh') :
          /\ i + 1 \in 1 .. Len(outCh) /\ 1 < i + 1
          /\ outCh'[i] = outCh[i + 1]
  BY <1>2
<1>5. \A r \in Readers : inbox'[r] = IF r = r0 THEN outCh[1] ELSE inbox[r]
  BY <1>1, <1>2 DEF TypeOK
<1>6. TypeOK'
  <2>1. waiting = <<>>
    BY <1>1 DEF TypeOK
  <2>2. Len(outCh') <= OutCap
    BY <1>1, <1>2, PipelineAssumption DEF TypeOK
  <2>3. inbox' \in [Readers -> Readings \cup {None}]
    BY <1>1, <1>2, <1>3 DEF TypeOK
  <2> QED
    BY <1>1, <1>2, <2>1, <2>2, <2>3 DEF TypeOK, ToSet
<1>7. WaitsOnce'
  BY <1>1 DEF WaitsOnce
<1>8. ChannelInOrder'
  <2> SUFFICES ASSUME NEW i \in 1 .. Len(outCh'), NEW j \in 1 .. Len(outCh'), i < j
               PROVE  outCh'[i].round <= outCh'[j].round
    BY DEF ChannelInOrder
  <2>1. i + 1 < j + 1
    OBVIOUS
  <2> QED
    BY <1>1, <1>4, <2>1 DEF OrderInv, ChannelInOrder
<1>9. NothingFromTheFuture'
  <2>1. \A i \in 1 .. Len(outCh') : outCh'[i].round <= round
    BY <1>1, <1>4 DEF OrderInv, NothingFromTheFuture
  <2>2. ASSUME NEW r \in Readers PROVE Had(r, round)'
    <3>1. Had(r, round)
      BY <1>1 DEF OrderInv, NothingFromTheFuture
    <3>2. outCh[1].round <= round
      BY <1>1, <1>3 DEF OrderInv, NothingFromTheFuture
    <3> QED
      BY <1>5, <3>1, <3>2 DEF Had
  <2> QED
    BY <2>1, <2>2 DEF NothingFromTheFuture
<1>10. ReadersBehind'
  <2> SUFFICES ASSUME NEW r \in Readers, NEW i \in 1 .. Len(outCh')
               PROVE  Had(r, outCh[i].round)'
    BY DEF ReadersBehind
  <2>1. i + 1 \in 1 .. Len(outCh) /\ 1 < i + 1 /\ outCh'[i] = outCh[i + 1]
    BY <1>4
  <2>2. Had(r, outCh[i + 1].round)
    BY <1>1, <2>1 DEF OrderInv, ReadersBehind
  <2>3. outCh[1].round <= outCh[i + 1].round
    BY <1>1, <1>3, <2>1 DEF OrderInv, ChannelInOrder
  <2> QED
    BY <1>4, <1>5, <2>1, <2>2, <2>3 DEF Had
<1>11. HandNotOlder'
  <2> SUFFICES ASSUME NEW r \in Listeners, NEW d \in Devices, inbox'[r] # None
               PROVE  held[r][d] <= inbox'[r].round
    BY DEF HandNotOlder
  <2>1. CASE r = r0
    <3>1. Had(r, outCh[1].round)
      BY <1>1, <1>3 DEF OrderInv, ReadersBehind
    <3> QED
      BY <1>5, <2>1, <3>1 DEF Had
  <2>2. CASE r # r0
    BY <1>1, <1>5, <2>2 DEF OrderInv, HandNotOlder
  <2> QED
    BY <2>1, <2>2
<1> QED
  BY <1>6, <1>7, <1>8, <1>9, <1>10, <1>11 DEF PathInv, OrderInv

\* An idle reader finds the channel empty and joins the queue.
LEMMA WaitStep ==
    ASSUME PathInv, NEW r0 \in Readers, Idle(r0), outCh = <<>>,
           waiting' = Append(waiting, r0),
           UNCHANGED <<round, next, outCh, inbox, held>>
    PROVE  PathInv'
<1>1. TypeOK /\ WaitsOnce /\ OrderInv
  BY DEF PathInv
<1>2. /\ Len(waiting) \in Nat /\ waiting' \in Seq(Readers)
      /\ Len(waiting') = Len(waiting) + 1
      /\ \A i \in 1 .. Len(waiting) : waiting'[i] = waiting[i]
      /\ waiting'[Len(waiting) + 1] = r0
  BY <1>1 DEF TypeOK
<1>3. \A i \in 1 .. Len(waiting') :
          i \in 1 .. Len(waiting) \/ (i = Len(waiting) + 1 /\ waiting'[i] = r0)
  BY <1>2
<1>4. \A i \in 1 .. Len(waiting) : waiting[i] # r0
  BY <1>1 DEF Idle, ToSet, TypeOK
<1>5. \A i \in 1 .. Len(waiting) : inbox[waiting[i]] = None
  BY <1>1 DEF ToSet, TypeOK
<1>6. TypeOK'
  <2>1. \A i \in 1 .. Len(waiting') : inbox[waiting'[i]] = None
    BY <1>2, <1>3, <1>5 DEF Idle
  <2>2. \A r \in ToSet(waiting') : inbox'[r] = None
    BY <1>2, <2>1 DEF ToSet
  <2> QED
    BY <1>1, <1>2, <2>2 DEF TypeOK
<1>7. WaitsOnce'
  <2> SUFFICES ASSUME NEW i \in 1 .. Len(waiting'), NEW j \in 1 .. Len(waiting'),
                      waiting'[i] = waiting'[j]
               PROVE  i = j
    BY DEF WaitsOnce
  <2> QED
    BY <1>1, <1>2, <1>3, <1>4 DEF WaitsOnce
<1>8. OrderInv'
  BY <1>1 DEF OrderInv, ChannelInOrder, NothingFromTheFuture, ReadersBehind,
              HandNotOlder, Had
<1> QED
  BY <1>6, <1>7, <1>8 DEF PathInv

\* A reader takes the oldest reading or waits.
LEMMA ReceiveStep == ASSUME PathInv, NEW r \in Readers, Receive(r) PROVE PathInv'
<1>1. CASE outCh # <<>>
  BY <1>1, TakeStep DEF Receive, Idle, gateway
<1>2. CASE outCh = <<>>
  BY <1>2, WaitStep DEF Receive, gateway
<1> QED
  BY <1>1, <1>2

\* A listener puts into its cache what it has had in its hand.
LEMMA HoldStep == ASSUME PathInv, NEW r0 \in Listeners, Hold(r0) PROVE PathInv'
<1>1. TypeOK /\ WaitsOnce /\ OrderInv
  BY DEF PathInv
<1>2. /\ inbox[r0] # None /\ inbox[r0] \in Readings
      /\ held' = [held EXCEPT ![r0][inbox[r0].dev] = inbox[r0].round]
      /\ inbox' = [inbox EXCEPT ![r0] = None]
      /\ UNCHANGED <<round, next, outCh, waiting>>
  BY <1>1 DEF Hold, CacheOf, TypeOK, gateway
<1>3. inbox[r0].dev \in Devices /\ inbox[r0].round \in 1 .. MaxRound
  BY <1>2 DEF Readings
<1>4. \A r \in Readers : inbox'[r] = IF r = r0 THEN None ELSE inbox[r]
  BY <1>1, <1>2 DEF TypeOK
<1>5. \A r \in Listeners, d \in Devices :
          held'[r][d] = IF r = r0 /\ d = inbox[r0].dev
                        THEN inbox[r0].round ELSE held[r][d]
  BY <1>1, <1>2, <1>3 DEF TypeOK
<1>6. TypeOK'
  <2>1. inbox' \in [Readers -> Readings \cup {None}]
    BY <1>1, <1>2 DEF TypeOK
  <2>2. held' \in [Listeners -> [Devices -> 0 .. MaxRound]]
    BY <1>1, <1>2, <1>3, PipelineAssumption DEF TypeOK
  <2>3. \A r \in ToSet(waiting) : r \in Readers
    BY <1>1 DEF TypeOK, ToSet
  <2>4. \A r \in ToSet(waiting') : inbox'[r] = None
    BY <1>1, <1>2, <1>4, <2>3 DEF TypeOK
  <2> QED
    BY <1>1, <1>2, <2>1, <2>2, <2>4 DEF TypeOK
<1>7. WaitsOnce'
  BY <1>1, <1>2 DEF WaitsOnce
<1>8. OrderInv'
  <2>1. ChannelInOrder'
    BY <1>1, <1>2 DEF OrderInv, ChannelInOrder
  <2>2. NothingFromTheFuture'
    <3>1. \A r \in Readers : Had(r, round)
      BY <1>1 DEF OrderInv, NothingFromTheFuture
    <3>2. \A r \in Readers : Had(r, round)'
      BY <1>2, <1>4, <1>5, <3>1 DEF Had
    <3> QED
      BY <1>1, <1>2, <3>2 DEF OrderInv, NothingFromTheFuture
  <2>3. ReadersBehind'
    <3>1. \A r \in Readers, i \in 1 .. Len(outCh) : Had(r, outCh[i].round)
      BY <1>1 DEF OrderInv, ReadersBehind
    <3> QED
      BY <1>2, <1>4, <1>5, <3>1 DEF ReadersBehind, Had
  <2>4. HandNotOlder'
    BY <1>1, <1>2, <1>4, <1>5 DEF OrderInv, HandNotOlder
  <2> QED
    BY <2>1, <2>2, <2>3, <2>4 DEF OrderInv
<1> QED
  BY <1>6, <1>7, <1>8 DEF PathInv

\* The forwarder keeps nothing.
LEMMA ForwardStep == ASSUME PathInv, Forward PROVE PathInv'
<1>1. TypeOK /\ WaitsOnce /\ OrderInv
  BY DEF PathInv
<1>2. /\ inbox' = [inbox EXCEPT !["forwarder"] = None]
      /\ UNCHANGED <<round, next, outCh, waiting, held>>
  BY DEF Forward, gateway
<1>3. \A r \in Readers : inbox'[r] = IF r = "forwarder" THEN None ELSE inbox[r]
  BY <1>1, <1>2 DEF TypeOK
<1>4. TypeOK'
  <2>1. inbox' \in [Readers -> Readings \cup {None}]
    BY <1>1, <1>2 DEF TypeOK
  <2>2. \A r \in ToSet(waiting') : inbox'[r] = None
    BY <1>1, <1>2, <1>3 DEF TypeOK, ToSet
  <2> QED
    BY <1>1, <1>2, <2>1, <2>2 DEF TypeOK
<1>5. WaitsOnce'
  BY <1>1, <1>2 DEF WaitsOnce
<1>6. OrderInv'
  BY <1>1, <1>2, <1>3 DEF OrderInv, ChannelInOrder, NothingFromTheFuture,
                          ReadersBehind, HandNotOlder, Had
<1> QED
  BY <1>4, <1>5, <1>6 DEF PathInv

\* The invariant speaks of the variables alone.
LEMMA PathUnchanged == ASSUME PathInv, UNCHANGED vars PROVE PathInv'
BY DEF vars, gateway, PathInv, TypeOK, WaitsOnce, OrderInv, ChannelInOrder,
       NothingFromTheFuture, ReadersBehind, HandNotOlder, Had

\* Every step keeps the invariant.
LEMMA PathNext == ASSUME PathInv, [Next]_vars PROVE PathInv'
BY CollectStep, CollectFailsStep, ReceiveStep, HoldStep, ForwardStep, PathUnchanged
   DEF Next

\* The invariant holds in every state.
LEMMA PathAlways == Spec => []PathInv
BY PathInit, PathNext, PTL DEF Spec

-----------------------------------------------------------------------------
\* Every variable keeps its type, the channel its capacity, and nobody waits
\* for a reading while the channel holds one.
THEOREM PipelineTypeCorrect == Spec => []TypeOK
<1>1. PathInv => TypeOK
  BY DEF PathInv
<1> QED
  BY <1>1, PathAlways, PTL

\* The only step that writes a cache writes the reading in hand.
LEMMA NoRegress ==
    ASSUME PathInv, [Next]_vars, NEW r \in Listeners, NEW d \in Devices
    PROVE  held'[r][d] >= held[r][d]
<1>1. TypeOK /\ OrderInv /\ held[r][d] \in Int
  BY PipelineAssumption DEF PathInv, TypeOK
<1>2. CASE held' = held
  BY <1>1, <1>2
<1>3. ASSUME NEW r0 \in Listeners, Hold(r0) PROVE held'[r][d] >= held[r][d]
  <2>1. /\ inbox[r0] # None /\ inbox[r0] \in Readings
        /\ held' = [held EXCEPT ![r0][inbox[r0].dev] = inbox[r0].round]
    BY <1>1, <1>3 DEF Hold, CacheOf, TypeOK
  <2>2. held'[r][d] = IF r = r0 /\ d = inbox[r0].dev
                      THEN inbox[r0].round ELSE held[r][d]
    BY <1>1, <2>1 DEF TypeOK, Readings
  <2>3. inbox[r0].round \in Int
    BY <2>1, PipelineAssumption DEF Readings
  <2>4. held[r0][d] <= inbox[r0].round
    BY <1>1, <2>1 DEF OrderInv, HandNotOlder
  <2> QED
    BY <1>1, <2>2, <2>3, <2>4
<1> QED
  BY <1>2, <1>3 DEF Next, vars, Collect, CollectFails, Receive, Forward

\* A listener never replaces the reading of a device by an older one, for any
\* number of devices and rounds and any channel, however the readings are
\* shared out among the readers and however slow each of them is.
THEOREM PipelineNeverRegresses == Spec => CachesNeverRegress
<1>1. PathInv /\ [Next]_vars
          => [\A r \in Listeners, d \in Devices : held'[r][d] >= held[r][d]]_vars
  BY NoRegress
<1> QED
  BY <1>1, PathAlways, PTL DEF Spec, CachesNeverRegress
=============================================================================
