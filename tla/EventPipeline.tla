--------------------------- MODULE EventPipeline ---------------------------
(***************************************************************************)
(* backend/cmd/main.go:119-137: how readings travel.  The gateway polls    *)
(* the devices in rounds and offers each reading to its output channel.    *)
(* Three goroutines receive from that channel: the calculator's listener,  *)
(* the notifier's device listener and main's forwarder to the WebSocket    *)
(* hub.  A Go channel gives an element to one of them: the one that has    *)
(* waited longest, or the first that comes when nobody waits.              *)
(*                                                                         *)
(* A reading is its device and the round it was collected in.              *)
(***************************************************************************)
EXTENDS Integers, Sequences, SequencesExt

CONSTANTS
    NDevices,      \* devices the gateway polls, in this order
    OutCap,        \* capacity of the gateway's channel (500)
    MaxRound,      \* rounds are told apart up to this one
    None           \* no reading

Devices == 1 .. NDevices
Listeners == {"calculator", "notifier"}
Readers == Listeners \cup {"forwarder"}
Readings == [dev : Devices, round : 1 .. MaxRound]

ASSUME PipelineAssumption ==
    /\ NDevices \in Nat \ {0} /\ MaxRound \in Nat \ {0}
    /\ OutCap \in Nat
    /\ None \notin Readings

VARIABLES
    round,     \* the round under way
    next,      \* the device to be polled next
    outCh,     \* readings in the channel
    waiting,   \* readers blocked on the empty channel, in arrival order
    inbox,     \* the reading a reader has received and not dealt with
    held       \* devicePowerCache and latestDeviceData: round of each reading

gateway == <<round, next>>
vars == <<gateway, outCh, waiting, inbox, held>>

Init ==
    /\ round = 1
    /\ next = 1
    /\ outCh = <<>>
    /\ waiting = <<>>
    /\ inbox = [r \in Readers |-> None]
    /\ held = [r \in Listeners |-> [d \in Devices |-> 0]]

-----------------------------------------------------------------------------
(* The gateway's round, collectAll.                                        *)

Advance ==
    IF next < NDevices
    THEN next' = next + 1 /\ UNCHANGED round
    ELSE next' = 1 /\ round' = IF round < MaxRound THEN round + 1 ELSE round

RoomForOneMore == Len(outCh) <= OutCap
HasRoom == Len(outCh) < OutCap

\* A send that waits for room, and one that does not.
BlockingOffer == waiting # <<>> \/ HasRoom
NonBlockingOffer == TRUE

\* The reader that has waited longest is handed the reading.
Collect ==
    LET reading == [dev |-> next, round |-> round]
    IN  /\ NonBlockingOffer
        /\ \/ /\ waiting # <<>>
              /\ inbox' = [inbox EXCEPT ![Head(waiting)] = reading]
              /\ waiting' = Tail(waiting)
              /\ UNCHANGED outCh
           \/ /\ waiting = <<>>
              /\ outCh' = IF HasRoom THEN Append(outCh, reading) ELSE outCh
              /\ UNCHANGED <<waiting, inbox>>
        /\ Advance
        /\ UNCHANGED held

\* The read or the insert failed: nothing to offer for this device.
CollectFails ==
    /\ Advance
    /\ UNCHANGED <<outCh, waiting, inbox, held>>

-----------------------------------------------------------------------------
(* The readers.                                                            *)

Idle(r) == inbox[r] = None /\ r \notin ToSet(waiting)

Receive(r) ==
    /\ Idle(r)
    /\ \/ /\ outCh # <<>>
          /\ inbox' = [inbox EXCEPT ![r] = Head(outCh)]
          /\ outCh' = Tail(outCh)
          /\ UNCHANGED waiting
       \/ /\ outCh = <<>>
          /\ waiting' = Append(waiting, r)
          /\ UNCHANGED <<inbox, outCh>>
    /\ UNCHANGED <<gateway, held>>

\* Each listener writes a cache of its own: one that two wrote would be as
\* old as the slower of them.
SharedCache(r) == "calculator"
CacheOf(r) == r

\* The listeners overwrite what they hold of the device.
Hold(r) ==
    /\ inbox[r] # None
    /\ held' = [held EXCEPT ![CacheOf(r)][inbox[r].dev] = inbox[r].round]
    /\ inbox' = [inbox EXCEPT ![r] = None]
    /\ UNCHANGED <<gateway, outCh, waiting>>

\* Broadcast returns.
Forward ==
    /\ inbox["forwarder"] # None
    /\ inbox' = [inbox EXCEPT !["forwarder"] = None]
    /\ UNCHANGED <<gateway, outCh, waiting, held>>

Next ==
    \/ Collect \/ CollectFails
    \/ \E r \in Readers : Receive(r)
    \/ \E r \in Listeners : Hold(r)
    \/ Forward

Spec == Init /\ [][Next]_vars

\* Nothing but the gateway is sure to run: its ticker keeps firing and its
\* devices answer.
GatewayFairSpec == Spec /\ WF_vars(Collect)

-----------------------------------------------------------------------------
\* Types and capacity; the channel never holds a reading while somebody waits
\* for one, and nobody waits with a reading in hand.
TypeOK ==
    /\ round \in 1 .. MaxRound
    /\ next \in Devices
    /\ outCh \in Seq(Readings)
    /\ Len(outCh) <= OutCap
    /\ waiting \in Seq(Readers)
    /\ outCh = <<>> \/ waiting = <<>>
    /\ inbox \in [Readers -> Readings \cup {None}]
    /\ \A r \in ToSet(waiting) : inbox[r] = None
    /\ held \in [Listeners -> [Devices -> 0 .. MaxRound]]

\* A cache never goes back to an older reading of a device, however the readings
\* are shared out and however slow a reader is: each cache has one listener,
\* which writes what it received before it receives again (calculator.go:57-75,
\* notifier.go:56-74).
CachesNeverRegress ==
    [][\A r \in Listeners, d \in Devices : held'[r][d] >= held[r][d]]_vars

\* The gateway polls every device again and again, whatever the readers do:
\* stuck in a lock, in the database or in a hub that has stopped
\* (gateway.go:148-151).
PollingGoesOn == \A d \in Devices : []<>(next = d)
=============================================================================
