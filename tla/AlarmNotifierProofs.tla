------------------------ MODULE AlarmNotifierProofs ------------------------
(***************************************************************************)
(* What the alarm notifier guarantees for every number of devices, every   *)
(* duration, every capacity and every bound: that it implements            *)
(* AlarmPromise, whose alerts of one threshold are a duration apart; that  *)
(* an alert follows an unbroken excess and every such excess is alerted    *)
(* unless the insert reported an error;                                    *)
(* that only what the robot accepted is marked; that its copies are        *)
(* bounded.                                                                *)
(***************************************************************************)
EXTENDS AlarmNotifier, TLAPS

\* Both durations are numbers of clock units.
LEMMA DurationIsNat == \A k \in Keys : Duration(k) \in Nat
BY DurationAssumption DEF Duration

\* Every violation of a device is a threshold.
LEMMA DeviceKeys ==
    ASSUME NEW d \in Devices, NEW t \in ViolationTypes
    PROVE  <<d, t>> \in Keys /\ <<d, t>> # PueKey
BY CountAssumption DEF Keys, PueKey, Devices

\* The PUE threshold is one too.
LEMMA PueKeyIsKey == PueKey \in Keys
BY DEF Keys

\* A threshold names a device, or 0 for the PUE.
LEMMA KeyDevice ==
    ASSUME NEW k \in Keys
    PROVE  k[1] \in 0 .. NDevices
BY CountAssumption DEF Keys, PueKey, Devices

\* Overwriting an element keeps a sequence's type and length.
LEMMA SeqUpdate ==
    ASSUME NEW S, NEW s \in Seq(S), NEW i \in 1 .. Len(s), NEW e \in S
    PROVE  /\ [s EXCEPT ![i] = e] \in Seq(S)
           /\ Len([s EXCEPT ![i] = e]) = Len(s)
OBVIOUS

\* Marking a row, or counting a receipt, gives a row.
LEMMA RowUpdate ==
    ASSUME NEW r \in Rows
    PROVE  /\ [r EXCEPT !.accepted = @ + 1] \in Rows
           /\ [r EXCEPT !.sent = TRUE] \in Rows
<1>1. [r EXCEPT !.accepted = @ + 1] \in Rows
  BY DEF Rows
<1>2. [r EXCEPT !.sent = TRUE] \in Rows
  BY DEF Rows
<1> QED
  BY <1>1, <1>2

\* Moving or settling the device of an event gives an event.
LEMMA EventUpdate ==
    ASSUME NEW e \in Events, NEW d \in Devices
    PROVE  /\ [e EXCEPT !.dev = d] \in Events
           /\ [e EXCEPT !.live = FALSE] \in Events
<1>1. [e EXCEPT !.dev = d] \in Events
  BY CountAssumption DEF Events, Devices
<1>2. [e EXCEPT !.live = FALSE] \in Events
  BY DEF Events
<1> QED
  BY <1>1, <1>2

\* The alerts table keeps its type when one row is updated.
LEMMA RowUpdates ==
    ASSUME NEW s \in Seq(Rows), NEW i \in 1 .. Len(s)
    PROVE  /\ [s EXCEPT ![i].accepted = @ + 1] \in Seq(Rows)
           /\ [s EXCEPT ![i].sent = TRUE] \in Seq(Rows)
           /\ Len([s EXCEPT ![i].accepted = @ + 1]) = Len(s)
           /\ Len([s EXCEPT ![i].sent = TRUE]) = Len(s)
<1>1. s[i] \in Rows
  OBVIOUS
<1>2. /\ [s[i] EXCEPT !.accepted = @ + 1] \in Rows
      /\ [s[i] EXCEPT !.sent = TRUE] \in Rows
  BY <1>1, RowUpdate
<1> QED
  BY <1>2, SeqUpdate

\* A function on 1 .. n is a sequence.
LEMMA SeqOfMap ==
    ASSUME NEW S, NEW n \in Nat, NEW f \in [1 .. n -> S]
    PROVE  f \in Seq(S) /\ Len(f) = n
OBVIOUS

\* The queue keeps its type when its events are updated in place.
LEMMA EventUpdates ==
    ASSUME outCh \in Seq(Events), NEW d \in Devices
    PROVE  /\ MoveAlias(d) \in Seq(Events) /\ Len(MoveAlias(d)) = Len(outCh)
           /\ SettleAlias \in Seq(Events) /\ Len(SettleAlias) = Len(outCh)
<1>1. DOMAIN outCh = 1 .. Len(outCh) /\ Len(outCh) \in Nat
  OBVIOUS
<1>2. \A i \in 1 .. Len(outCh) : outCh[i] \in Events
  OBVIOUS
<1>3. MoveAlias(d) \in [1 .. Len(outCh) -> Events]
  BY <1>1, <1>2, EventUpdate DEF MoveAlias
<1>4. SettleAlias \in [1 .. Len(outCh) -> Events]
  BY <1>1, <1>2, EventUpdate, CountAssumption DEF SettleAlias, Devices
<1> QED
  BY <1>1, <1>3, <1>4, SeqOfMap

-----------------------------------------------------------------------------
\* The absent alert has the type of one.
LEMMA NoAlertTyped == NoAlert \in Alerts
BY PueKeyIsKey DEF NoAlert, Alerts

\* New starts with typed, empty state.
LEMMA InitTyped == Init => TypeOK
<1> SUFFICES ASSUME Init PROVE TypeOK
  OBVIOUS
<1>1. /\ latestDeviceData \in [Devices -> {None} \cup SUBSET ViolationTypes]
      /\ violationStart \in [Keys -> {None} \cup Nat]
      /\ spell \in [Keys -> {None} \cup Spells]
  BY DEF Init
<1>2. alerts \in Seq(Rows) /\ outCh \in Seq(Events) /\ Len(outCh) <= OutCap
  BY CountAssumption DEF Init
<1>3. dev \in Devices /\ attempt \in 0 .. RetryCount
  BY CountAssumption DEF Init, Devices
<1> QED
  BY <1>1, <1>2, <1>3, NoAlertTyped DEF Init, TypeOK, Goroutines

\* The evaluation of a timer keeps the types of what it writes.
LEMMA SpellTyped ==
    ASSUME now \in Nat, spell \in [Keys -> {None} \cup Spells],
           NEW k \in Keys, NEW b \in BOOLEAN
    PROVE  SeenExceeded(k, b) \in [Keys -> {None} \cup Spells]
<1>1. Longer(spell[k], b) \in Spells
  <2>1. CASE spell[k] = None
    BY <2>1 DEF Longer, Spells
  <2>2. CASE spell[k] # None
    <3>1. spell[k] \in Spells
      BY <2>2
    <3> QED
      BY <2>2, <3>1 DEF Longer, Spells
  <2> QED
    BY <2>1, <2>2
<1> QED
  BY <1>1 DEF SeenExceeded

\* Evaluating a threshold keeps the types.
LEMMA EvaluateTyped ==
    ASSUME TypeOK, NEW k \in Keys, NEW next, Evaluate(k, next)
    PROVE  /\ violationStart' \in [Keys -> {None} \cup Nat]
           /\ spell' \in [Keys -> {None} \cup Spells]
           /\ alert' \in Alerts
           /\ pc' \in {next, "insert"}
<1>1. SeenExceeded(k, TRUE) \in [Keys -> {None} \cup Spells]
  BY SpellTyped DEF TypeOK
<1>2. SeenExceeded(k, FALSE) \in [Keys -> {None} \cup Spells]
  BY SpellTyped DEF TypeOK
<1>3. Arm(k) \in [Keys -> {None} \cup Nat]
  BY DEF TypeOK, Arm
<1>4. now \in Nat /\ [key |-> k, time |-> now, id |-> 0] \in Alerts
  BY DEF TypeOK, Alerts
<1> QED
  BY <1>1, <1>2, <1>3, <1>4 DEF Evaluate, TypeOK

\* Moving to the next device keeps the queue's type and length.
LEMMA AdvanceTyped ==
    ASSUME TypeOK, Advance
    PROVE  /\ dev' \in Devices
           /\ outCh' \in Seq(Events) /\ Len(outCh') = Len(outCh)
           /\ pc' \in {"device", "pue"}
<1>1. CASE dev < NDevices
  <2>1. dev + 1 \in Devices
    BY <1>1, CountAssumption DEF TypeOK, Devices
  <2> QED
    BY <1>1, <2>1, EventUpdates DEF TypeOK, Advance
<1>2. CASE ~(dev < NDevices)
  BY <1>2, EventUpdates DEF TypeOK, Advance
<1> QED
  BY <1>1, <1>2

\* The offer keeps the queue's type and its bound.
LEMMA OfferTyped ==
    ASSUME TypeOK, NEW id \in Nat
    PROVE  Offer(id) \in Seq(Events) /\ Len(Offer(id)) <= OutCap
<1> DEFINE e == [id |-> id, dev |-> alert.key[1], live |-> alert.key # PueKey]
<1>1. alert.key[1] \in 0 .. NDevices
  BY KeyDevice DEF TypeOK, Alerts
<1>2. e \in Events
  BY <1>1 DEF Events
<1> HIDE DEF e
<1>3. outCh \in Seq(Events) /\ Len(outCh) <= OutCap /\ OutCap \in Nat
  BY CountAssumption DEF TypeOK
<1>4. Len(outCh) < OutCap =>
          Append(outCh, e) \in Seq(Events) /\ Len(Append(outCh, e)) <= OutCap
  BY <1>2, <1>3
<1>5. Offer(id) = IF Len(outCh) < OutCap THEN Append(outCh, e) ELSE outCh
  BY DEF Offer, e
<1> QED
  BY <1>3, <1>4, <1>5

\* The row inserted for an alert is a row.
LEMMA RowTyped == TypeOK => Row \in Rows
BY DEF TypeOK, Row, Rows, Alerts

\* Inserting a row extends the alerts table.
LEMMA AppendRow ==
    ASSUME TypeOK
    PROVE  /\ Append(alerts, Row) \in Seq(Rows)
           /\ Len(Append(alerts, Row)) = Len(alerts) + 1
BY RowTyped DEF TypeOK

\* Every step of the notifier keeps the types.
LEMMA TypeStep == TypeOK /\ [Next]_vars => TypeOK'
<1> SUFFICES ASSUME TypeOK, [Next]_vars
             PROVE  TypeOK'
  OBVIOUS
<1> USE DEF TypeOK, clock, inputs, timers, cursor, raising
<1>1. CASE Tick
  BY <1>1 DEF Tick, volatile
<1>2. ASSUME NEW d \in Devices, NEW s \in Samples, ReceiveDevice(d, s)
      PROVE  TypeOK'
  BY <1>2, ReadingAssumption DEF ReceiveDevice
<1>3. ASSUME NEW high \in PUEReadings, ReceivePUE(high)
      PROVE  TypeOK'
  BY <1>3, ReadingAssumption DEF ReceivePUE
<1>4. CASE Cancel
  BY <1>4 DEF Cancel, volatile
<1>5. ASSUME NEW g \in Listeners, StopListener(g)
      PROVE  TypeOK'
  BY <1>5 DEF StopListener
<1>6. CASE TakeTick
  BY <1>6 DEF TakeTick
<1>7. CASE GetAllDevices
  <2>1. 1 \in Devices
    BY CountAssumption DEF Devices
  <2>2. dev' \in Devices /\ pc' \in {"device", "pue"} /\ hung' = FALSE
    BY <1>7, <2>1 DEF GetAllDevices
  <2> QED
    BY <1>7, <2>2 DEF GetAllDevices
<1>8. CASE SkipDevice
  BY <1>8, AdvanceTyped DEF SkipDevice
<1>9. CASE SnapshotDevice
  BY <1>9 DEF SnapshotDevice
<1>10. CASE CheckViolation
  <2>1. PICK t \in todo :
           todo' = todo \ {t} /\ Evaluate(<<dev, t>>, "violation")
    BY <1>10 DEF CheckViolation
  <2>2. <<dev, t>> \in Keys
    BY DeviceKeys
  <2>3. /\ violationStart' \in [Keys -> {None} \cup Nat]
        /\ spell' \in [Keys -> {None} \cup Spells]
        /\ alert' \in Alerts
        /\ pc' \in {"violation", "insert"}
    BY <2>1, <2>2, EvaluateTyped
  <2> QED
    BY <1>10, <2>1, <2>3 DEF CheckViolation
<1>11. CASE ClearInactive
  <2>1. /\ violationStart' \in [Keys -> {None} \cup Nat]
        /\ spell' \in [Keys -> {None} \cup Spells]
        /\ refused' \subseteq Keys
    BY <1>11 DEF ClearInactive, ForgetCalm, SeenCalm
  <2>2. Advance
    BY <1>11 DEF ClearInactive
  <2> QED
    BY <1>11, <2>1, <2>2, AdvanceTyped DEF ClearInactive
<1>12. CASE CheckPUE
  <2>1. CASE latestPUE
    <3>1. Evaluate(PueKey, "select")
      BY <1>12, <2>1 DEF CheckPUE
    <3>2. /\ violationStart' \in [Keys -> {None} \cup Nat]
          /\ spell' \in [Keys -> {None} \cup Spells]
          /\ alert' \in Alerts
          /\ pc' \in {"select", "insert"}
      BY <3>1, PueKeyIsKey, EvaluateTyped
    <3> QED
      BY <1>12, <3>2 DEF CheckPUE
  <2>2. CASE ~latestPUE
    BY <1>12, <2>2, PueKeyIsKey DEF CheckPUE, Forget
  <2> QED
    BY <2>1, <2>2
<1>13. CASE InsertAlert
  <2>1. Len(alerts) + 1 \in Nat
    OBVIOUS
  <2>2. [alert EXCEPT !.id = Len(alerts) + 1] \in Alerts
    BY <2>1 DEF Alerts
  <2>3. alert'.id = Len(alerts) + 1 /\ Len(alerts') = Len(alerts) + 1
    BY <1>13, AppendRow DEF InsertAlert, Alerts
  <2>4. alert'.id \in 1 .. Len(alerts')
    BY <2>1, <2>3
  <2>5. alert' \in Alerts /\ alerts' \in Seq(Rows)
    BY <1>13, <2>2, AppendRow DEF InsertAlert
  <2>6. outCh' \in Seq(Events) /\ Len(outCh') <= OutCap
    BY <1>13, <2>1, OfferTyped DEF InsertAlert
  <2>7. attempt' \in 0 .. RetryCount /\ pc' \in {"post", "rearm"}
    BY <1>13, CountAssumption DEF InsertAlert
  <2> QED
    BY <1>13, <2>4, <2>5, <2>6, <2>7 DEF InsertAlert
<1>14. CASE InsertFails
  <2>1. alert.key \in Keys
    BY DEF Alerts
  <2> QED
    BY <1>14, <2>1, AppendRow DEF InsertFails
<1>15. CASE PostAccepted
  BY <1>15, RowUpdates DEF PostAccepted, Accept
<1>16. CASE PostFails
  <2>1. alerts' \in Seq(Rows) /\ Len(alerts') = Len(alerts)
    <3>1. alert.id \in 1 .. Len(alerts)
      BY <1>16 DEF PostFails
    <3>2. Accept(alert.id) \in Seq(Rows) /\ Len(Accept(alert.id)) = Len(alerts)
      BY <3>1, RowUpdates DEF Accept
    <3>3. alerts' = alerts \/ alerts' = Accept(alert.id)
      BY <1>16 DEF PostFails
    <3> QED
      BY <3>2, <3>3
  <2>2. attempt' \in 0 .. RetryCount
    <3>1. attempt \in Nat /\ RetryCount \in Nat /\ attempt <= RetryCount
      BY CountAssumption
    <3>2. attempt' = IF attempt < RetryCount THEN attempt + 1 ELSE attempt
      BY <1>16 DEF PostFails
    <3> QED
      BY <3>1, <3>2
  <2>3. pc' \in {"post", "rearm"}
    BY <1>16 DEF PostFails, AfterFailure
  <2> QED
    BY <1>16, <2>1, <2>2, <2>3 DEF PostFails
<1>17. CASE MarkDingTalkSent
  BY <1>17, RowUpdates DEF MarkDingTalkSent, Mark
<1>18. CASE Rearm
  <2>1. Forget(alert.key) \in [Keys -> {None} \cup Nat]
    BY DEF Forget, Alerts
  <2> QED
    BY <1>18, <2>1, NoAlertTyped, CountAssumption DEF Rearm
<1>19. CASE ExitLoop
  BY <1>19 DEF ExitLoop
<1>20. CASE Forward
  BY <1>20, CountAssumption DEF Forward
<1>21. CASE Restart
  <2>1. /\ latestDeviceData' \in [Devices -> {None} \cup SUBSET ViolationTypes]
        /\ violationStart' \in [Keys -> {None} \cup Nat]
        /\ spell' \in [Keys -> {None} \cup Spells]
    BY <1>21 DEF Restart
  <2>2. outCh' \in Seq(Events) /\ Len(outCh') <= OutCap
    BY <1>21, CountAssumption DEF Restart
  <2>3. dev' \in Devices /\ attempt' \in 0 .. RetryCount
    BY <1>21, CountAssumption DEF Restart, Devices
  <2>4. restarts' \in Nat
    BY <1>21 DEF Restart
  <2> QED
    BY <1>21, <2>1, <2>2, <2>3, <2>4, NoAlertTyped DEF Restart, Goroutines
<1>22. CASE UNCHANGED vars
  BY <1>22 DEF vars, volatile
<1>23. CASE Hang
  BY <1>23 DEF Hang
<1> QED
  BY <1>1, <1>2, <1>3, <1>4, <1>5, <1>6, <1>7, <1>8, <1>9, <1>10, <1>11,
     <1>12, <1>13, <1>14, <1>15, <1>16, <1>17, <1>18, <1>19, <1>20, <1>21,
     <1>22, <1>23 DEF Next, Pass

\* The variables keep the types the code gives them, the queue its bound.
THEOREM TypeCorrect == Spec => []TypeOK
BY InitTyped, TypeStep, PTL DEF Spec

-----------------------------------------------------------------------------
(* The notifier implements AlarmPromise.  The invariant that carries the   *)
(* proof: the alert being recorded comes from a timer that is old enough.  *)

AlertIsDue ==
    pc = "insert" =>
        /\ violationStart[alert.key] # None
        /\ alert.time - violationStart[alert.key] >= Duration(alert.key)
        /\ alert.time <= now

DueInv == TypeOK /\ AlertIsDue

\* An evaluation that raises an alert does so for a timer as old as its
\* duration.
LEMMA EvaluateDue ==
    ASSUME TypeOK, NEW k \in Keys, NEW next, next # "insert",
           Evaluate(k, next), now' = now
    PROVE  AlertIsDue'
<1>1. now \in Nat /\ violationStart[k] \in {None} \cup Nat /\ Duration(k) \in Nat
  BY DurationIsNat DEF TypeOK
<1>2. CASE pc' = "insert"
  <2>1. /\ violationStart[k] # None /\ ~Young(k)
        /\ alert' = [key |-> k, time |-> now, id |-> 0]
        /\ violationStart' = violationStart
    BY <1>2 DEF Evaluate
  <2> QED
    BY <1>1, <2>1 DEF AlertIsDue, Young, Duration
<1> QED
  BY <1>2 DEF AlertIsDue

\* Every step keeps the types and the age of the alert under way.
LEMMA DueStep == DueInv /\ [Next]_vars => DueInv'
<1> SUFFICES ASSUME TypeOK, AlertIsDue, [Next]_vars
             PROVE  AlertIsDue'
  BY TypeStep DEF DueInv
<1> USE DEF clock, inputs, timers, cursor, raising
<1>1. CASE Tick
  BY <1>1 DEF Tick, volatile, TypeOK, AlertIsDue, Duration, Alerts
<1>2. ASSUME NEW d \in Devices, NEW s \in Samples, ReceiveDevice(d, s)
      PROVE  AlertIsDue'
  BY <1>2 DEF ReceiveDevice, AlertIsDue, Duration
<1>3. ASSUME NEW high \in PUEReadings, ReceivePUE(high)
      PROVE  AlertIsDue'
  BY <1>3 DEF ReceivePUE, AlertIsDue, Duration
<1>4. CASE Cancel
  BY <1>4 DEF Cancel, volatile, AlertIsDue, Duration
<1>5. ASSUME NEW g \in Listeners, StopListener(g)
      PROVE  AlertIsDue'
  BY <1>5 DEF StopListener, AlertIsDue, Duration
<1>6. CASE CheckViolation
  <2>1. PICK t \in todo : Evaluate(<<dev, t>>, "violation")
    BY <1>6 DEF CheckViolation
  <2>2. <<dev, t>> \in Keys
    BY DeviceKeys DEF TypeOK
  <2> QED
    BY <1>6, <2>1, <2>2, EvaluateDue DEF CheckViolation
<1>7. CASE CheckPUE
  <2>1. CASE latestPUE
    BY <1>7, <2>1, PueKeyIsKey, EvaluateDue DEF CheckPUE
  <2>2. CASE ~latestPUE
    BY <1>7, <2>2 DEF CheckPUE, AlertIsDue
  <2> QED
    BY <2>1, <2>2
<1>8. ASSUME Advance PROVE pc' # "insert"
  BY <1>8 DEF Advance
<1>9. CASE SkipDevice \/ ClearInactive
  BY <1>8, <1>9 DEF SkipDevice, ClearInactive, AlertIsDue
<1>10. CASE TakeTick \/ GetAllDevices \/ SnapshotDevice \/ Restart
  BY <1>10 DEF TakeTick, GetAllDevices, SnapshotDevice, Restart, AlertIsDue
<1>11. CASE InsertAlert \/ InsertFails \/ PostAccepted \/ PostFails
            \/ MarkDingTalkSent \/ Rearm
  BY <1>11 DEF InsertAlert, InsertFails, PostAccepted, PostFails, AfterFailure,
               MarkDingTalkSent, Rearm, AlertIsDue
<1>12. CASE ExitLoop \/ Forward \/ Hang
  BY <1>12 DEF ExitLoop, Forward, Hang, AlertIsDue, Duration
<1>13. CASE UNCHANGED vars
  BY <1>13 DEF vars, volatile, AlertIsDue, Duration
<1> QED
  BY <1>1, <1>2, <1>3, <1>4, <1>5, <1>6, <1>7, <1>9, <1>10, <1>11, <1>12,
     <1>13 DEF Next, Pass

\* Nothing is being raised at the start.
LEMMA DueInit == Init => DueInv
BY InitTyped DEF Init, DueInv, AlertIsDue

\* Marking a row sent, or counting a receipt, leaves the log of alerts as it
\* is.
LEMMA LogUpdated ==
    ASSUME TypeOK, NEW id \in 1 .. Len(alerts),
           alerts' = Accept(id) \/ alerts' = Mark(id)
    PROVE  Log' = Log
<1>1. DOMAIN alerts' = DOMAIN alerts
  BY DEF Accept, Mark
<1>2. ASSUME NEW i \in DOMAIN alerts
      PROVE  alerts'[i].key = alerts[i].key /\ alerts'[i].time = alerts[i].time
  <2>1. alerts[i] \in Rows
    BY <1>2 DEF TypeOK
  <2>2. CASE alerts' = Accept(id)
    BY <2>1, <2>2 DEF Accept, Rows
  <2>3. CASE alerts' = Mark(id)
    BY <2>1, <2>3 DEF Mark, Rows
  <2> QED
    BY <2>2, <2>3
<1> QED
  BY <1>1, <1>2 DEF Log

\* Appending, seen index by index.
LEMMA AppendByIndex ==
    ASSUME NEW E, NEW n \in Nat, NEW f \in [1 .. n -> E], NEW e \in E,
           NEW g \in [1 .. n + 1 -> E],
           \A i \in 1 .. n : g[i] = f[i], g[n + 1] = e
    PROVE  g = Append(f, e)
<1>1. f \in Seq(E) /\ Len(f) = n
  BY SeqOfMap
<1>2. /\ Append(f, e) \in Seq(E)
      /\ Len(Append(f, e)) = n + 1
      /\ \A i \in 1 .. n : Append(f, e)[i] = f[i]
      /\ Append(f, e)[n + 1] = e
  BY <1>1
<1>3. g \in Seq(E) /\ Len(g) = n + 1
  BY SeqOfMap
<1>4. ASSUME NEW i \in 1 .. n + 1 PROVE g[i] = Append(f, e)[i]
  BY <1>2
<1> QED
  BY <1>2, <1>3, <1>4

\* A new row appends its threshold and time to the log.
LEMMA LogAppended ==
    ASSUME TypeOK, alerts' = Append(alerts, Row)
    PROVE  Log' = Append(Log, [key |-> alert.key, time |-> alert.time])
<1> DEFINE e == [key |-> alert.key, time |-> alert.time]
           E == [key : Keys, time : Nat]
<1>1. PICK n \in Nat : n = Len(alerts)
  BY DEF TypeOK
<1>2. /\ alerts' \in Seq(Rows) /\ Len(alerts') = n + 1
      /\ \A i \in 1 .. n : alerts'[i] = alerts[i]
      /\ alerts'[n + 1] = Row
  BY <1>1, AppendRow, RowTyped DEF TypeOK
<1>3. DOMAIN alerts = 1 .. n /\ DOMAIN alerts' = 1 .. n + 1
  BY <1>1, <1>2 DEF TypeOK
<1>4. ASSUME NEW r \in Rows
      PROVE  [key |-> r.key, time |-> r.time] \in E
  BY DEF Rows
<1>5. /\ \A i \in 1 .. n : alerts[i] \in Rows
      /\ \A i \in 1 .. n + 1 : alerts'[i] \in Rows
  BY <1>1, <1>2 DEF TypeOK
<1>6. e \in E /\ e = [key |-> Row.key, time |-> Row.time]
  BY RowTyped, <1>4 DEF Row
<1> HIDE DEF e, E
<1>7. Log \in [1 .. n -> E]
  BY <1>3, <1>4, <1>5 DEF Log
<1>8. Log' \in [1 .. n + 1 -> E]
  BY <1>3, <1>4, <1>5 DEF Log
<1>9. \A i \in 1 .. n : Log'[i] = Log[i]
  BY <1>2, <1>3 DEF Log
<1>10. Log'[n + 1] = e
  BY <1>2, <1>3, <1>6 DEF Log
<1>11. Log' = Append(Log, e)
  BY <1>6, <1>7, <1>8, <1>9, <1>10, AppendByIndex
<1> QED
  BY <1>11 DEF e

\* The log depends on the table alone.
LEMMA LogKept ==
    ASSUME alerts' = alerts
    PROVE  Log' = Log
BY DEF Log

\* A step that leaves the timers alone and pushes the same alert, or none.
LEMMA SinceKept ==
    ASSUME violationStart' = violationStart,
           \A k \in Keys : (Pushing(k)' <=> Pushing(k))
    PROVE  Since' = Since
BY DEF Since

\* An evaluation is, seen from the promise, an excess, a calm or nothing.
LEMMA EvaluatePromise ==
    ASSUME TypeOK, NEW k \in Keys, NEW next \in {"violation", "select"},
           Evaluate(k, next), pc \in {"violation", "pue"},
           now' = now, alerts' = alerts
    PROVE  Promise!Next \/ UNCHANGED Promise!vars
<1>1. \A j \in Keys : ~Pushing(j) /\ ~Pushing(j)'
  BY DEF Evaluate, Pushing
<1>2. Log' = Log
  BY LogKept
<1>3. CASE violationStart[k] = None
  <2>1. Since[k] = None /\ Since' = [Since EXCEPT ![k] = now]
    BY <1>1, <1>3 DEF Evaluate, Arm, Since, TypeOK
  <2>2. Promise!Exceed(k)
    BY <1>2, <2>1 DEF Promise!Exceed
  <2> QED
    BY <2>2 DEF Promise!Next
<1>4. CASE violationStart[k] # None
  <2>1. violationStart' = violationStart
    BY <1>4 DEF Evaluate
  <2>2. Since' = Since
    BY <1>1, <2>1, SinceKept
  <2> QED
    BY <1>2, <2>2 DEF Promise!vars
<1> QED
  BY <1>3, <1>4

\* Every step of the notifier is a step of the promise or a stutter.
LEMMA PromiseSteps ==
    ASSUME DueInv, [Next]_vars
    PROVE  Promise!Next \/ UNCHANGED Promise!vars
<1>0. TypeOK /\ AlertIsDue
  BY DEF DueInv
<1> USE DEF clock, inputs, timers, cursor, raising
<1>1. CASE Tick
  <2>1. Log' = Log /\ Since' = Since
    BY <1>1 DEF Tick, volatile, Log, Since, Pushing
  <2> QED
    BY <1>1, <2>1 DEF Tick, Promise!Tick, Promise!Next
<1>2. ASSUME UNCHANGED <<now, alerts, violationStart, pc, alert>>
      PROVE  UNCHANGED Promise!vars
  BY <1>2 DEF Log, Since, Pushing, Promise!vars
<1>3. CASE \/ \E d \in Devices, s \in Samples : ReceiveDevice(d, s)
           \/ \E high \in PUEReadings : ReceivePUE(high)
           \/ Cancel
           \/ \E g \in Listeners : StopListener(g)
           \/ ExitLoop
           \/ Forward
           \/ Hang
           \/ UNCHANGED vars
  <2>1. UNCHANGED <<now, alerts, violationStart, pc, alert>>
    BY <1>3 DEF ReceiveDevice, ReceivePUE, Cancel, StopListener, ExitLoop,
                Forward, Hang, vars, volatile
  <2> QED
    BY <1>2, <2>1
<1>4. ASSUME UNCHANGED <<now, alerts, violationStart, alert>>,
             pc \notin {"post", "mark", "rearm"},
             pc' \notin {"post", "mark", "rearm"}
      PROVE  UNCHANGED Promise!vars
  BY <1>4 DEF Log, Since, Pushing, Promise!vars
<1>5. ASSUME Advance PROVE pc' \in {"device", "pue"}
  BY <1>5 DEF Advance
<1>6. CASE TakeTick \/ GetAllDevices \/ SkipDevice \/ SnapshotDevice
  BY <1>4, <1>5, <1>6 DEF TakeTick, GetAllDevices, SkipDevice, SnapshotDevice
<1>7. CASE CheckViolation
  <2>1. PICK t \in todo : Evaluate(<<dev, t>>, "violation")
    BY <1>7 DEF CheckViolation
  <2>2. <<dev, t>> \in Keys
    BY <1>0, DeviceKeys DEF TypeOK
  <2> QED
    BY <1>0, <1>7, <2>1, <2>2, EvaluatePromise DEF CheckViolation
<1>8. CASE ClearInactive
  <2> DEFINE K == {k \in Keys : k[1] = dev /\ k[2] \notin active}
  <2>1. \A k \in Keys : ~Pushing(k) /\ ~Pushing(k)'
    BY <1>5, <1>8 DEF ClearInactive, Pushing
  <2>2. Since' = [k \in Keys |-> IF k \in K THEN None ELSE Since[k]]
    BY <1>8, <2>1 DEF ClearInactive, ForgetCalm, Since
  <2>3. Promise!Calm(K)
    BY <1>8, <2>2, LogKept DEF ClearInactive, Promise!Calm
  <2> QED
    BY <2>3 DEF Promise!Next
<1>9. CASE CheckPUE /\ latestPUE
  BY <1>0, <1>9, PueKeyIsKey, EvaluatePromise DEF CheckPUE
<1>10. CASE CheckPUE /\ ~latestPUE
  <2>1. \A k \in Keys : ~Pushing(k) /\ ~Pushing(k)'
    BY <1>10 DEF CheckPUE, Pushing
  <2>2. Since' = [k \in Keys |-> IF k \in {PueKey} THEN None ELSE Since[k]]
    BY <1>0, <1>10, <2>1 DEF CheckPUE, Forget, Since, TypeOK
  <2>3. Promise!Calm({PueKey})
    BY <1>10, <2>2, LogKept DEF CheckPUE, Promise!Calm
  <2> QED
    BY <2>3, PueKeyIsKey DEF Promise!Next
<1>11. ASSUME pc = "insert", pc' \in {"post", "rearm"},
              alert'.key = alert.key,
              violationStart' = violationStart, now' = now
       PROVE  /\ alerts' = Append(alerts, Row) => Promise!Next
              /\ alerts' = alerts => Promise!Next
  <2>1. alert.key \in Keys /\ alert.time \in Nat
    BY <1>0 DEF TypeOK, Alerts
  <2>2. \A k \in Keys : ~Pushing(k) /\ (Pushing(k)' <=> k = alert.key)
    BY <1>11 DEF Pushing
  <2>3. Since' = [Since EXCEPT ![alert.key] = None]
    BY <1>11, <2>2 DEF Since
  <2>4. ASSUME alerts' = Append(alerts, Row)
        PROVE  Promise!Record(alert.key, alert.time)
    <3>1. Since[alert.key] = violationStart[alert.key]
      BY <2>1, <2>2 DEF Since
    <3>2. Log' = Append(Log, [key |-> alert.key, time |-> alert.time])
      BY <1>0, <2>4, LogAppended
    <3> QED
      BY <1>0, <1>11, <2>1, <2>3, <3>1, <3>2 DEF AlertIsDue, Promise!Record
  <2>5. ASSUME alerts' = alerts
        PROVE  Promise!Calm({alert.key})
    <3>1. Since' = [k \in Keys |-> IF k \in {alert.key} THEN None ELSE Since[k]]
      BY <2>1, <2>3 DEF Since
    <3> QED
      BY <1>11, <2>5, <3>1, LogKept DEF Promise!Calm
  <2>6. alert.time \in 0 .. now
    BY <1>0, <1>11, <2>1 DEF AlertIsDue, TypeOK
  <2> QED
    BY <2>1, <2>4, <2>5, <2>6 DEF Promise!Next
<1>12. CASE InsertAlert
  <2>1. pc' \in {"post", "rearm"} /\ alert'.key = alert.key
    BY <1>0, <1>12 DEF InsertAlert, TypeOK, Alerts
  <2> QED
    BY <1>11, <1>12, <2>1 DEF InsertAlert
<1>13. CASE InsertFails
  BY <1>11, <1>13 DEF InsertFails
<1>14. CASE PostAccepted \/ PostFails \/ MarkDingTalkSent
  <2>1. alert.id \in 1 .. Len(alerts)
    BY <1>0, <1>14 DEF TypeOK, PostAccepted, PostFails, MarkDingTalkSent
  <2>2. \/ alerts' = alerts
        \/ alerts' = Accept(alert.id)
        \/ alerts' = Mark(alert.id)
    BY <1>14 DEF PostAccepted, PostFails, MarkDingTalkSent
  <2>3. Log' = Log
    BY <1>0, <2>1, <2>2, LogKept, LogUpdated
  <2>4. \A k \in Keys : (Pushing(k)' <=> Pushing(k))
    BY <1>14 DEF PostAccepted, PostFails, AfterFailure, MarkDingTalkSent, Pushing
  <2>5. violationStart' = violationStart /\ now' = now
    BY <1>14 DEF PostAccepted, PostFails, MarkDingTalkSent
  <2> QED
    BY <2>3, <2>4, <2>5, SinceKept DEF Promise!vars
<1>15. CASE Rearm
  <2>1. \A k \in Keys : ~Pushing(k)' /\ (Pushing(k) <=> k = alert.key)
    BY <1>15 DEF Rearm, Pushing
  <2>2. Since' = Since
    BY <1>0, <1>15, <2>1 DEF Rearm, Forget, Since, TypeOK
  <2> QED
    BY <1>15, <2>2, LogKept DEF Rearm, Promise!vars
<1>16. CASE Restart
  <2>1. \A k \in Keys : ~Pushing(k)'
    BY <1>16 DEF Restart, Pushing
  <2>2. Since' = [k \in Keys |-> IF k \in Keys THEN None ELSE Since[k]]
    BY <1>16, <2>1 DEF Restart, Since
  <2>3. Promise!Calm(Keys)
    BY <1>16, <2>2, LogKept DEF Restart, Promise!Calm
  <2> QED
    BY <2>3 DEF Promise!Next
<1> QED
  BY <1>1, <1>3, <1>6, <1>7, <1>8, <1>9, <1>10, <1>12, <1>13, <1>14, <1>15,
     <1>16 DEF Next, Pass

\* The notifier implements AlarmPromise, for every number of devices, every
\* duration, every capacity and every number of retries and restarts.
THEOREM NotifierKeepsPromise == Spec => PromiseKept
<1>1. Init => Promise!Init
  <2> SUFFICES ASSUME Init PROVE Promise!Init
    OBVIOUS
  <2>1. Since = [k \in Keys |-> None]
    BY DEF Init, Since, Pushing
  <2>2. Log = <<>>
    BY DEF Init, Log
  <2> QED
    BY <2>1, <2>2 DEF Init, Promise!Init
<1>2. DueInv /\ [Next]_vars => [Promise!Next]_(Promise!vars)
  BY PromiseSteps
<1> QED
  BY <1>1, <1>2, DueInit, DueStep, PTL DEF Spec, PromiseKept, Promise!Spec

-----------------------------------------------------------------------------
(* What the promise is worth: AlarmPromise keeps the alerts of a threshold *)
(* a duration apart, and the notifier implements it.                       *)

MinAge == [k \in Keys |-> Duration(k)]

Entries == [key : Keys, time : Nat]

\* What appending an entry to the log gives.
LEMMA AppendEntry ==
    ASSUME NEW s \in Seq(Entries), NEW e \in Entries
    PROVE  /\ Append(s, e) \in Seq(Entries)
           /\ Len(Append(s, e)) = Len(s) + 1
           /\ \A i \in 1 .. Len(s) : Append(s, e)[i] = s[i]
           /\ Append(s, e)[Len(s) + 1] = e
OBVIOUS

\* The entries of the log have their types.
LEMMA LogEntry ==
    ASSUME Log \in Seq(Entries), NEW i \in 1 .. Len(Log)
    PROVE  Log[i] \in Entries /\ Log[i].key \in Keys /\ Log[i].time \in Nat
<1>1. Log[i] \in Entries
  OBVIOUS
<1> QED
  BY <1>1 DEF Entries

\* Recording an alert keeps it a duration from the earlier ones: they are not
\* later than the timer it was raised from.
LEMMA RecordKeeps ==
    ASSUME Promise!PromiseInv, NEW k \in Keys, NEW t \in 0 .. now,
           Promise!Record(k, t)
    PROVE  Promise!PromiseInv'
<1> DEFINE e == [key |-> k, time |-> t]
<1>1. now \in Nat /\ Since \in [Keys -> {None} \cup Nat] /\ Log \in Seq(Entries)
  BY DEF Promise!PromiseInv, Promise!TypeOK, Entries
<1>2. e \in Entries /\ e.key = k /\ e.time = t
  BY <1>1 DEF Entries
<1> HIDE DEF e
<1>3. Log' = Append(Log, e) /\ now' = now /\ Since' = [Since EXCEPT ![k] = None]
  BY DEF Promise!Record, e
<1>4. /\ Log' \in Seq(Entries) /\ Len(Log') = Len(Log) + 1
      /\ \A i \in 1 .. Len(Log) : Log'[i] = Log[i]
      /\ Log'[Len(Log) + 1] = e
  BY <1>1, <1>2, <1>3, AppendEntry
<1>5. Promise!TypeOK'
  BY <1>1, <1>3, <1>4 DEF Promise!TypeOK, Entries
<1>6. Promise!TimersStarted'
  BY <1>1, <1>3 DEF Promise!PromiseInv, Promise!TimersStarted
<1>7. Promise!TimersFollowAlerts'
  <2> SUFFICES ASSUME NEW i \in 1 .. Len(Log')
               PROVE  /\ Log'[i].time <= now
                      /\ Since'[Log'[i].key] # None
                            => Log'[i].time <= Since'[Log'[i].key]
    BY <1>3 DEF Promise!TimersFollowAlerts
  <2>1. CASE i \in 1 .. Len(Log)
    BY <1>1, <1>3, <1>4, <2>1, LogEntry DEF Promise!PromiseInv, Promise!TimersFollowAlerts
  <2>2. CASE i = Len(Log) + 1
    BY <1>1, <1>2, <1>3, <1>4, <2>2
  <2> QED
    BY <1>1, <1>4, <2>1, <2>2
<1>8. Promise!RateLimited'
  <2> SUFFICES ASSUME NEW i \in 1 .. Len(Log'), NEW j \in 1 .. Len(Log'),
                      i < j, Log'[i].key = Log'[j].key
               PROVE  Log'[j].time - Log'[i].time >= MinAge[Log'[i].key]
    BY DEF Promise!RateLimited, MinAge
  <2>1. i \in 1 .. Len(Log) /\ Log'[i] = Log[i]
    BY <1>1, <1>4
  <2>2. CASE j \in 1 .. Len(Log)
    BY <1>4, <2>1, <2>2 DEF Promise!PromiseInv, Promise!RateLimited, MinAge
  <2>3. CASE j = Len(Log) + 1
    <3>1. Log[i].key = k /\ Log'[j].time = t
      BY <1>2, <1>4, <2>1, <2>3
    <3>2. Since[k] # None /\ t - Since[k] >= MinAge[k]
      BY DEF Promise!Record, MinAge
    <3>3. Log[i].time <= Since[k]
      BY <2>1, <3>1, <3>2 DEF Promise!PromiseInv, Promise!TimersFollowAlerts
    <3>4. Since[k] \in Nat /\ MinAge[k] \in Nat /\ Log[i].time \in Nat
      BY <1>1, <2>1, <3>2, LogEntry, DurationIsNat DEF MinAge
    <3> QED
      BY <1>1, <2>1, <3>1, <3>2, <3>3, <3>4
  <2> QED
    BY <1>1, <1>4, <2>2, <2>3
<1> QED
  BY <1>5, <1>6, <1>7, <1>8 DEF Promise!PromiseInv

\* Every step of the promise keeps the invariant.
LEMMA PromiseStep ==
    Promise!PromiseInv /\ [Promise!Next]_(Promise!vars) => Promise!PromiseInv'
<1> SUFFICES ASSUME Promise!PromiseInv, [Promise!Next]_(Promise!vars)
             PROVE  Promise!PromiseInv'
  OBVIOUS
<1> USE DEF Promise!PromiseInv
<1>0. now \in Nat /\ Since \in [Keys -> {None} \cup Nat] /\ Log \in Seq(Entries)
  BY DEF Promise!TypeOK, Entries
<1>1. ASSUME Log' = Log PROVE Promise!RateLimited'
  BY <1>1 DEF Promise!RateLimited
<1>2. CASE Promise!Tick
  BY <1>0, <1>1, <1>2, LogEntry
     DEF Promise!Tick, Promise!TypeOK,
         Promise!TimersFollowAlerts, Promise!TimersStarted
<1>3. ASSUME NEW k \in Keys, Promise!Exceed(k) PROVE Promise!PromiseInv'
  BY <1>0, <1>1, <1>3, LogEntry
     DEF Promise!Exceed, Promise!TypeOK,
         Promise!TimersFollowAlerts, Promise!TimersStarted
<1>4. ASSUME NEW K \in SUBSET Keys, Promise!Calm(K) PROVE Promise!PromiseInv'
  BY <1>0, <1>1, <1>4, LogEntry
     DEF Promise!Calm, Promise!TypeOK,
         Promise!TimersFollowAlerts, Promise!TimersStarted
<1>5. ASSUME NEW k \in Keys, NEW t \in 0 .. now, Promise!Record(k, t) PROVE Promise!PromiseInv'
  BY <1>5, RecordKeeps
<1>6. CASE UNCHANGED Promise!vars
  BY <1>1, <1>6 DEF Promise!vars, Promise!TypeOK,
         Promise!TimersFollowAlerts, Promise!TimersStarted
<1> QED
  BY <1>2, <1>3, <1>4, <1>5, <1>6 DEF Promise!Next

\* It holds before the first alert.
LEMMA PromiseInit == Promise!Init => Promise!PromiseInv
<1> SUFFICES ASSUME Promise!Init PROVE Promise!PromiseInv
  OBVIOUS
<1>1. Since \in [Keys -> {None} \cup Nat]
  BY DEF Promise!Init
<1> QED
  BY <1>1 DEF Promise!Init, Promise!PromiseInv, Promise!TypeOK,
              Promise!RateLimited, Promise!TimersFollowAlerts,
              Promise!TimersStarted

\* In the promise itself, alerts of one threshold are a duration apart, whatever
\* the timers and the records are.
THEOREM PromiseRateLimited == Promise!Spec => []Promise!RateLimited
<1>1. Promise!PromiseInv => Promise!RateLimited
  BY DEF Promise!PromiseInv
<1> QED
  BY <1>1, PromiseStep, PromiseInit, PTL DEF Promise!Spec

\* Alerts of one threshold are a duration apart.
THEOREM AlertsRateLimited == Spec => []RateLimited
<1>1. TypeOK /\ Promise!RateLimited => RateLimited
  <2> SUFFICES ASSUME TypeOK, Promise!RateLimited,
                      NEW i \in 1 .. Len(alerts), NEW j \in 1 .. Len(alerts),
                      i < j, alerts[i].key = alerts[j].key
               PROVE  alerts[j].time - alerts[i].time >= Duration(alerts[i].key)
    BY DEF RateLimited
  <2>1. Log \in Seq([key : Keys, time : Nat]) /\ Len(Log) = Len(alerts)
    <3>1. \A n \in 1 .. Len(alerts) : alerts[n] \in Rows
      BY DEF TypeOK
    <3>2. Len(alerts) \in Nat /\ DOMAIN alerts = 1 .. Len(alerts)
      BY DEF TypeOK
    <3>3. Log \in [1 .. Len(alerts) -> [key : Keys, time : Nat]]
      BY <3>1, <3>2 DEF Log, Rows
    <3> QED
      BY <3>2, <3>3, SeqOfMap
  <2>2. /\ Log[i].key = alerts[i].key /\ Log[i].time = alerts[i].time
        /\ Log[j].key = alerts[j].key /\ Log[j].time = alerts[j].time
    BY DEF Log, TypeOK
  <2>3. alerts[i].key \in Keys
    <3>1. alerts[i] \in Rows
      BY DEF TypeOK
    <3> QED
      BY <3>1 DEF Rows
  <2> QED
    BY <2>1, <2>2, <2>3 DEF Promise!RateLimited
<1> QED
  BY <1>1, PromiseRateLimited, TypeCorrect, NotifierKeepsPromise, PTL
     DEF PromiseKept

-----------------------------------------------------------------------------
(* When the alarm notifier alerts, and what it tells the robot: an alert   *)
(* follows an unbroken excess of the whole duration, every such excess has *)
(* its row unless the insert reported an error, and the robot's receipts   *)
(* bound what a row may say.                                               *)

\* A timer runs within the spell of checks that found its threshold exceeded.
TimerInSpell ==
    \A k \in Keys :
        violationStart[k] # None =>
            spell[k] # None /\ spell[k].from <= violationStart[k]

\* Until a spell has raised its first alert its timer is as old as it is: no
\* pass and no failure restarts it.
TimerIsSpell ==
    \A k \in Keys :
        (spell[k] # None /\ ~spell[k].tried) => violationStart[k] = spell[k].from

\* No spell extends into the future.
SpellIsPast ==
    \A k \in Keys :
        spell[k] # None => spell[k].from <= now /\ spell[k].upto <= now

\* The alert under way belongs to a spell that has raised one: dropping its
\* timer forgets nothing that was not tried.
AlertOfSpell ==
    pc \in {"insert", "post", "mark", "rearm"} =>
        spell[alert.key] # None /\ spell[alert.key].tried

SpellInv == TimerInSpell /\ TimerIsSpell /\ SpellIsPast /\ AlertOfSpell

AccuracyInv == DueInv /\ SpellInv

\* The parts of the invariant depend on these variables alone.
LEMMA SpellUnchanged ==
    ASSUME SpellInv, UNCHANGED <<now, violationStart, spell, alert>>,
           pc' \in {"insert", "post", "mark", "rearm"} =>
               pc \in {"insert", "post", "mark", "rearm"}
    PROVE  SpellInv'
BY DEF SpellInv, TimerInSpell, TimerIsSpell, SpellIsPast, AlertOfSpell

\* A calm check ends timer and spell of the same thresholds.
LEMMA SpellCalm ==
    ASSUME SpellInv, TypeOK, NEW K \in SUBSET Keys,
           violationStart' = [k \in Keys |-> IF k \in K THEN None ELSE violationStart[k]],
           spell' = [k \in Keys |-> IF k \in K THEN None ELSE spell[k]],
           now' = now,
           pc' \notin {"insert", "post", "mark", "rearm"}
    PROVE  SpellInv'
BY DEF SpellInv, TimerInSpell, TimerIsSpell, SpellIsPast, AlertOfSpell

\* What an evaluation makes of a spell.
LEMMA LongerSpell ==
    ASSUME TypeOK, SpellInv, NEW k \in Keys, NEW b \in BOOLEAN, NEW s,
           s = Longer(spell[k], b)
    PROVE  /\ s \in Spells /\ s # None
           /\ s.upto = now /\ s.from <= now
           /\ s.tried <=> b \/ (spell[k] # None /\ spell[k].tried)
           /\ spell[k] = None => s.from = now
           /\ spell[k] # None => s.from = spell[k].from
<1>1. now \in Nat
  BY DEF TypeOK
<1>2. CASE spell[k] = None
  <2>1. s = [from |-> now, upto |-> now, tried |-> b]
    BY <1>2 DEF Longer
  <2>2. s \in Spells /\ s # None
    BY <1>1, <2>1, NoneAssumption DEF Spells
  <2> QED
    BY <1>1, <1>2, <2>1, <2>2
<1>3. CASE spell[k] # None
  <2>1. spell[k] \in Spells /\ spell[k].from <= now
    BY <1>3 DEF TypeOK, SpellInv, SpellIsPast
  <2>2. spell[k].from \in Nat /\ spell[k].tried \in BOOLEAN
    BY <2>1 DEF Spells
  <2>3. s = [from |-> spell[k].from, upto |-> now,
             tried |-> (spell[k].tried \/ b)]
    BY <1>3 DEF Longer
  <2>4. s \in Spells /\ s # None
    BY <1>1, <2>2, <2>3, NoneAssumption DEF Spells
  <2> QED
    BY <1>3, <2>1, <2>2, <2>3, <2>4
<1> QED
  BY <1>2, <1>3

\* An evaluation: the timer starts with the spell or runs within it, and the
\* spell whose alert is raised is marked.
LEMMA EvaluateSpell ==
    ASSUME TypeOK, SpellInv, NEW k \in Keys, NEW next,
           next \in {"violation", "select"},
           Evaluate(k, next), now' = now
    PROVE  SpellInv'
<1>1. PICK s : \E b \in BOOLEAN :
          /\ s = Longer(spell[k], b) /\ spell' = [spell EXCEPT ![k] = s]
          /\ b <=> (violationStart[k] # None /\ ~Young(k))
  BY DEF Evaluate, SeenExceeded
<1>2. PICK b \in BOOLEAN :
          /\ s = Longer(spell[k], b) /\ spell' = [spell EXCEPT ![k] = s]
          /\ b <=> (violationStart[k] # None /\ ~Young(k))
  BY <1>1
<1>3. /\ s \in Spells /\ s # None
      /\ s.upto = now /\ s.from <= now
      /\ s.tried <=> b \/ (spell[k] # None /\ spell[k].tried)
      /\ spell[k] = None => s.from = now
      /\ spell[k] # None => s.from = spell[k].from
  BY <1>2, LongerSpell
<1>4. /\ spell'[k] = s
      /\ \A j \in Keys \ {k} : spell'[j] = spell[j]
  BY <1>2 DEF TypeOK
<1>5. /\ \A j \in Keys \ {k} : violationStart'[j] = violationStart[j]
      /\ violationStart[k] = None => violationStart'[k] = now
      /\ violationStart[k] # None => violationStart'[k] = violationStart[k]
  BY DEF Evaluate, Arm, TypeOK
<1>6. /\ now \in Nat /\ violationStart'[k] # None
  BY <1>5, NoneAssumption DEF TypeOK
<1>7. TimerInSpell'
  BY <1>3, <1>4, <1>5, <1>6 DEF TimerInSpell, SpellInv
<1>8. TimerIsSpell'
  <2>1. (~s.tried) => violationStart'[k] = s.from
    <3>1. CASE spell[k] = None
      BY <1>3, <1>5, <3>1 DEF TimerInSpell, SpellInv
    <3>2. CASE spell[k] # None
      <4>1. spell[k].from # None
        BY <3>2, NoneAssumption DEF TypeOK, Spells
      <4> QED
        BY <1>3, <1>5, <3>2, <4>1 DEF TimerIsSpell, SpellInv
    <3> QED
      BY <3>1, <3>2
  <2> QED
    BY <1>4, <1>5, <2>1 DEF TimerIsSpell, SpellInv
<1>9. SpellIsPast'
  BY <1>3, <1>4, <1>6 DEF SpellIsPast, SpellInv
<1>10. AlertOfSpell'
  <2>1. CASE pc' = "insert"
    <3>1. /\ violationStart[k] # None /\ ~Young(k)
          /\ alert' = [key |-> k, time |-> now, id |-> 0]
      BY <2>1 DEF Evaluate
    <3>2. alert'.key = k
      BY <3>1
    <3>3. s.tried
      BY <1>2, <1>3, <3>1, Zenon
    <3> QED
      BY <1>3, <1>4, <3>2, <3>3 DEF AlertOfSpell
  <2>2. CASE pc' # "insert"
    BY <2>2 DEF Evaluate, AlertOfSpell
  <2> QED
    BY <2>1, <2>2
<1> QED
  BY <1>7, <1>8, <1>9, <1>10 DEF SpellInv

\* Every step keeps the timers within their spells.
LEMMA SpellStep == TypeOK /\ SpellInv /\ [Next]_vars => SpellInv'
<1> SUFFICES ASSUME TypeOK, SpellInv, [Next]_vars
             PROVE  SpellInv'
  OBVIOUS
<1> USE DEF clock, inputs, timers, cursor, raising
<1> DEFINE Raising == {"insert", "post", "mark", "rearm"}
<1>1. CASE Tick
  <2>1. now \in Nat /\ now' = now + 1
    BY <1>1 DEF Tick, TypeOK
  <2>2. UNCHANGED <<violationStart, spell, alert, pc>>
    BY <1>1 DEF Tick, volatile
  <2>3. SpellIsPast'
    <3> SUFFICES ASSUME NEW k \in Keys, spell[k] # None
                 PROVE  spell[k].from <= now + 1 /\ spell[k].upto <= now + 1
      BY <2>1, <2>2 DEF SpellIsPast
    <3>1. spell[k].from \in Nat /\ spell[k].upto \in Nat
      BY DEF TypeOK, Spells
    <3> QED
      BY <2>1, <3>1 DEF SpellInv, SpellIsPast
  <2> QED
    BY <2>2, <2>3 DEF SpellInv, TimerInSpell, TimerIsSpell, AlertOfSpell
<1>2. CASE \/ \E d \in Devices, s \in Samples : ReceiveDevice(d, s)
           \/ \E high \in PUEReadings : ReceivePUE(high)
           \/ Cancel
           \/ \E g \in Listeners : StopListener(g)
           \/ ExitLoop
           \/ Forward
           \/ Hang
           \/ UNCHANGED vars
  <2>1. UNCHANGED <<now, violationStart, spell, alert, pc>>
    BY <1>2 DEF ReceiveDevice, ReceivePUE, Cancel, StopListener, ExitLoop,
                Forward, Hang, vars, volatile
  <2> QED
    BY <2>1, SpellUnchanged
<1>3. ASSUME Advance PROVE pc' \notin Raising
  BY <1>3 DEF Advance
<1>4. CASE TakeTick \/ GetAllDevices \/ SkipDevice \/ SnapshotDevice
  <2>1. UNCHANGED <<now, violationStart, spell, alert>> /\ pc' \notin Raising
    BY <1>3, <1>4 DEF TakeTick, GetAllDevices, SkipDevice, SnapshotDevice
  <2> QED
    BY <2>1, SpellUnchanged
<1>5. CASE CheckViolation
  <2>1. PICK t \in todo : Evaluate(<<dev, t>>, "violation")
    BY <1>5 DEF CheckViolation
  <2>2. <<dev, t>> \in Keys
    BY DeviceKeys DEF TypeOK
  <2> QED
    BY <1>5, <2>1, <2>2, EvaluateSpell DEF CheckViolation
<1>6. CASE ClearInactive
  <2> DEFINE K == {k \in Keys : k[1] = dev /\ k[2] \notin active}
  <2>1. /\ violationStart' = [k \in Keys |-> IF k \in K THEN None ELSE violationStart[k]]
        /\ spell' = [k \in Keys |-> IF k \in K THEN None ELSE spell[k]]
    BY <1>6 DEF ClearInactive, ForgetCalm, SeenCalm
  <2>2. now' = now /\ pc' \notin Raising
    BY <1>3, <1>6 DEF ClearInactive
  <2> QED
    BY <2>1, <2>2, SpellCalm
<1>7. CASE CheckPUE
  <2>1. CASE latestPUE
    BY <1>7, <2>1, PueKeyIsKey, EvaluateSpell DEF CheckPUE
  <2>2. CASE ~latestPUE
    <3>1. /\ violationStart' = [k \in Keys |-> IF k \in {PueKey} THEN None ELSE violationStart[k]]
          /\ spell' = [k \in Keys |-> IF k \in {PueKey} THEN None ELSE spell[k]]
      BY <1>7, <2>2, PueKeyIsKey DEF CheckPUE, Forget, TypeOK
    <3>2. now' = now /\ pc' \notin Raising
      BY <1>7, <2>2 DEF CheckPUE
    <3> QED
      BY <3>1, <3>2, PueKeyIsKey, SpellCalm
  <2> QED
    BY <2>1, <2>2
<1>8. CASE InsertAlert
  <2>1. alert'.key = alert.key
    BY <1>8 DEF InsertAlert, TypeOK, Alerts
  <2> QED
    BY <1>8, <2>1 DEF InsertAlert, SpellInv, TimerInSpell, TimerIsSpell,
                      SpellIsPast, AlertOfSpell
<1>9. CASE InsertFails \/ PostAccepted \/ PostFails \/ MarkDingTalkSent
  <2>1. UNCHANGED <<now, violationStart, spell, alert>> /\ pc \in Raising
    BY <1>9 DEF InsertFails, PostAccepted, PostFails, MarkDingTalkSent
  <2> QED
    BY <2>1, SpellUnchanged
<1>10. CASE Rearm
  <2>1. /\ spell[alert.key] # None /\ spell[alert.key].tried
        /\ alert.key \in Keys
    BY <1>10 DEF Rearm, SpellInv, AlertOfSpell, TypeOK, Alerts
  <2>2. /\ violationStart'[alert.key] = None
        /\ \A k \in Keys \ {alert.key} : violationStart'[k] = violationStart[k]
    BY <1>10, <2>1 DEF Rearm, Forget, TypeOK
  <2>3. UNCHANGED <<now, spell>> /\ pc' \notin Raising
    BY <1>10 DEF Rearm
  <2> QED
    BY <2>1, <2>2, <2>3 DEF SpellInv, TimerInSpell, TimerIsSpell, SpellIsPast,
                            AlertOfSpell
<1>11. CASE Restart
  <2>1. /\ \A k \in Keys : violationStart'[k] = None /\ spell'[k] = None
        /\ pc' \notin Raising
    BY <1>11 DEF Restart
  <2> QED
    BY <2>1 DEF SpellInv, TimerInSpell, TimerIsSpell, SpellIsPast, AlertOfSpell
<1> QED
  BY <1>1, <1>2, <1>4, <1>5, <1>6, <1>7, <1>8, <1>9, <1>10, <1>11
     DEF Next, Pass

\* Nothing is exceeded at the start.
LEMMA SpellInit == Init => SpellInv
BY DEF Init, SpellInv, TimerInSpell, TimerIsSpell, SpellIsPast, AlertOfSpell

\* The alert being recorded is old enough in its spell, too.
LEMMA InsertIsTrue ==
    ASSUME TypeOK, AlertIsDue, SpellInv, pc = "insert"
    PROVE  /\ spell[alert.key] # None
           /\ alert.time - spell[alert.key].from >= Duration(alert.key)
<1>1. alert.key \in Keys /\ alert.time \in Nat /\ Duration(alert.key) \in Nat
  BY DurationIsNat DEF TypeOK, Alerts
<1>2. /\ violationStart[alert.key] # None
      /\ violationStart[alert.key] \in {None} \cup Nat
      /\ alert.time - violationStart[alert.key] >= Duration(alert.key)
  BY <1>1 DEF AlertIsDue, TypeOK
<1>3. /\ spell[alert.key] # None
      /\ spell[alert.key].from <= violationStart[alert.key]
  BY <1>1, <1>2 DEF SpellInv, TimerInSpell
<1>4. spell[alert.key].from \in Nat
  BY <1>1, <1>3 DEF TypeOK, Spells
<1> QED
  BY <1>1, <1>2, <1>3, <1>4

\* An alert is recorded only for an unbroken excess of its whole duration,
\* whatever the number of devices and however checks, inputs, failures and
\* restarts interleave.
THEOREM AlarmsAreTrue == Spec => []NoFalseAlarm
<1>1. DueInv /\ SpellInv => NoFalseAlarm
  BY InsertIsTrue DEF DueInv, NoFalseAlarm
<1>2. DueInv => TypeOK
  BY DEF DueInv
<1> QED
  BY <1>1, <1>2, DueInit, DueStep, SpellInit, SpellStep, PTL DEF Spec

-----------------------------------------------------------------------------
\* A spell that has lasted the whole duration has raised an alert.
ExcessTried ==
    \A k \in Keys :
        (spell[k] # None /\ spell[k].upto - spell[k].from >= Duration(k))
            => spell[k].tried

\* An evaluation that raises no alert leaves a spell shorter than the duration.
LEMMA EvaluateMissesNone ==
    ASSUME TypeOK, SpellInv, ExcessTried, NEW k \in Keys, NEW next,
           Evaluate(k, next), now' = now, Duration(k) > 0
    PROVE  ExcessTried'
<1>1. now \in Nat /\ Duration(k) \in Nat /\ violationStart[k] \in {None} \cup Nat
  BY DurationIsNat DEF TypeOK
<1>2. PICK b \in BOOLEAN : spell' = SeenExceeded(k, b)
                           /\ (b \/ violationStart[k] = None \/ Young(k))
  BY DEF Evaluate
<1>3. PICK s : s = Longer(spell[k], b) /\ spell' = [spell EXCEPT ![k] = s]
  BY <1>2 DEF SeenExceeded
<1>4. /\ s \in Spells /\ s # None
      /\ s.upto = now /\ s.from <= now
      /\ s.tried <=> b \/ (spell[k] # None /\ spell[k].tried)
      /\ spell[k] = None => s.from = now
      /\ spell[k] # None => s.from = spell[k].from
  BY <1>3, LongerSpell
<1>5. /\ spell'[k] = s
      /\ \A j \in Keys \ {k} : spell'[j] = spell[j]
  BY <1>3 DEF TypeOK
<1>6. \A j \in Keys : Duration(j)' = Duration(j)
  BY DEF Duration
<1>7. ASSUME ~s.tried PROVE s.upto - s.from < Duration(k)
  <2>1. violationStart[k] = None \/ Young(k)
    BY <1>2, <1>4, <1>7
  <2>2. CASE spell[k] = None
    BY <1>1, <1>4, <2>2
  <2>3. CASE spell[k] # None
    <3>1. ~spell[k].tried
      BY <1>4, <1>7, <2>3
    <3>2. violationStart[k] = spell[k].from
      BY <2>3, <3>1 DEF SpellInv, TimerIsSpell
    <3>3. spell[k].from \in Nat
      BY <2>3 DEF TypeOK, Spells
    <3>4. Young(k)
      BY <2>1, <3>2, <3>3, NoneAssumption
    <3> QED
      BY <1>1, <1>4, <2>3, <3>2, <3>3, <3>4 DEF Young
  <2> QED
    BY <2>2, <2>3
<1>8. s.upto - s.from \in Int
  BY <1>4 DEF Spells
<1>9. (s.upto - s.from >= Duration(k)) => s.tried
  BY <1>1, <1>7, <1>8
<1> QED
  BY <1>5, <1>6, <1>9 DEF ExcessTried

\* Every step keeps it, provided the durations are positive.
LEMMA ExcessStep ==
    ASSUME Level1Duration > 0, Level2Duration > 0,
           TypeOK, SpellInv, ExcessTried, [Next]_vars
    PROVE  ExcessTried'
<1> USE DEF clock, inputs, timers, cursor, raising
<1>1. \A k \in Keys : Duration(k) > 0 /\ Duration(k)' = Duration(k)
  BY DEF Duration
<1>2. ASSUME \A k \in Keys : spell'[k] = spell[k] \/ spell'[k] = None
      PROVE  ExcessTried'
  BY <1>1, <1>2 DEF ExcessTried
<1>3. CASE CheckViolation
  <2>1. PICK t \in todo : Evaluate(<<dev, t>>, "violation")
    BY <1>3 DEF CheckViolation
  <2>2. <<dev, t>> \in Keys
    BY DeviceKeys DEF TypeOK
  <2> QED
    BY <1>1, <1>3, <2>1, <2>2, EvaluateMissesNone DEF CheckViolation
<1>4. CASE CheckPUE
  <2>1. CASE latestPUE
    BY <1>1, <1>4, <2>1, PueKeyIsKey, EvaluateMissesNone DEF CheckPUE
  <2>2. CASE ~latestPUE
    BY <1>2, <1>4, <2>2 DEF CheckPUE, TypeOK
  <2> QED
    BY <2>1, <2>2
<1>5. CASE ClearInactive
  BY <1>2, <1>5 DEF ClearInactive, SeenCalm
<1>6. CASE Restart
  BY <1>2, <1>6 DEF Restart
<1>7. CASE \/ Tick
           \/ \E d \in Devices, s \in Samples : ReceiveDevice(d, s)
           \/ \E high \in PUEReadings : ReceivePUE(high)
           \/ Cancel
           \/ \E g \in Listeners : StopListener(g)
           \/ ExitLoop
           \/ Forward
           \/ Hang
           \/ UNCHANGED vars
  <2>1. spell' = spell
    BY <1>7 DEF Tick, ReceiveDevice, ReceivePUE, Cancel, StopListener,
                ExitLoop, Forward, Hang, vars, volatile
  <2> QED
    BY <1>2, <2>1
<1>8. CASE \/ TakeTick \/ GetAllDevices \/ SkipDevice \/ SnapshotDevice
           \/ InsertAlert \/ InsertFails \/ PostAccepted \/ PostFails
           \/ MarkDingTalkSent \/ Rearm
  <2>1. spell' = spell
    BY <1>8 DEF TakeTick, GetAllDevices, SkipDevice, SnapshotDevice,
                InsertAlert, InsertFails, PostAccepted, PostFails,
                MarkDingTalkSent, Rearm
  <2> QED
    BY <1>2, <2>1
<1> QED
  BY <1>3, <1>4, <1>5, <1>6, <1>7, <1>8 DEF Next, Pass

\* What is alerted, or being alerted, or excused by an error of the insert.
Alerted(k) == Inserting(k) \/ k \in refused \/ Recorded(k)

\* A spell that has raised an alert has its row, or is excused.
TriedIsAlerted ==
    \A k \in Keys : (spell[k] # None /\ spell[k].tried) => Alerted(k)

\* No step drops a row or changes its threshold or its time.
TableKept ==
    \A i \in 1 .. Len(alerts) :
        /\ i \in 1 .. Len(alerts')
        /\ alerts'[i].key = alerts[i].key
        /\ alerts'[i].time = alerts[i].time

\* Inserting a row leaves the others in place and adds the alert's.
LEMMA AppendKept ==
    ASSUME TypeOK, alerts' = Append(alerts, Row)
    PROVE  /\ TableKept
           /\ Len(alerts) + 1 \in 1 .. Len(alerts')
           /\ alerts'[Len(alerts) + 1].key = alert.key
           /\ alerts'[Len(alerts) + 1].time = alert.time
<1>1. PICK n \in Nat : n = Len(alerts)
  BY DEF TypeOK
<1>2. /\ Len(alerts') = n + 1
      /\ \A i \in 1 .. n : alerts'[i] = alerts[i]
      /\ alerts'[n + 1] = Row
  BY <1>1, AppendRow, RowTyped DEF TypeOK
<1>3. TableKept
  BY <1>1, <1>2 DEF TableKept
<1>4. Row.key = alert.key /\ Row.time = alert.time
  BY DEF Row
<1> QED
  BY <1>1, <1>2, <1>3, <1>4

\* So does counting a receipt or marking the row.
LEMMA UpdateKept ==
    ASSUME TypeOK, NEW id \in 1 .. Len(alerts),
           alerts' = Accept(id) \/ alerts' = Mark(id)
    PROVE  TableKept
<1>1. Len(alerts') = Len(alerts)
  BY RowUpdates DEF TypeOK, Accept, Mark
<1>2. ASSUME NEW i \in 1 .. Len(alerts)
      PROVE  alerts'[i].key = alerts[i].key /\ alerts'[i].time = alerts[i].time
  <2>1. alerts[i] \in Rows
    BY <1>2 DEF TypeOK
  <2>2. CASE alerts' = Accept(id)
    BY <2>1, <2>2 DEF Accept, Rows, TypeOK
  <2>3. CASE alerts' = Mark(id)
    BY <2>1, <2>3 DEF Mark, Rows, TypeOK
  <2> QED
    BY <2>2, <2>3
<1> QED
  BY <1>1, <1>2 DEF TableKept

\* What has its row, or is excused, stays so while its spell goes on.
LEMMA AlertedKept ==
    ASSUME TableKept, NEW k \in Keys, Recorded(k) \/ k \in refused,
           spell'[k].from = spell[k].from,
           k \in refused => k \in refused'
    PROVE  Alerted(k)'
<1>1. CASE k \in refused
  BY <1>1 DEF Alerted
<1>2. CASE Recorded(k)
  <2>1. PICK i \in 1 .. Len(alerts) :
           /\ alerts[i].key = k
           /\ alerts[i].time - spell[k].from >= Duration(k)
    BY <1>2 DEF Recorded
  <2>2. Duration(k)' = Duration(k)
    BY DEF Duration
  <2>3. /\ i \in 1 .. Len(alerts')
        /\ alerts'[i].key = k
        /\ alerts'[i].time - spell'[k].from >= Duration(k)
    BY <2>1 DEF TableKept
  <2>4. Recorded(k)'
    BY <2>2, <2>3 DEF Recorded
  <2> QED
    BY <2>4 DEF Alerted
<1> QED
  BY <1>1, <1>2

\* An evaluation that marks a spell as tried goes on to the insert.
LEMMA EvaluateAlerted ==
    ASSUME TypeOK, SpellInv, TriedIsAlerted, NEW k \in Keys, NEW next,
           Evaluate(k, next), pc # "insert", now' = now,
           alerts' = alerts, refused' = refused
    PROVE  TriedIsAlerted'
<1>1. PICK b \in BOOLEAN :
          /\ spell' = SeenExceeded(k, b)
          /\ b => pc' = "insert" /\ alert' = [key |-> k, time |-> now, id |-> 0]
  BY DEF Evaluate
<1>2. PICK s : s = Longer(spell[k], b) /\ spell' = [spell EXCEPT ![k] = s]
  BY <1>1 DEF SeenExceeded
<1>3. /\ s.tried <=> b \/ (spell[k] # None /\ spell[k].tried)
      /\ spell[k] # None => s.from = spell[k].from
  BY <1>2, LongerSpell
<1>4. /\ spell'[k] = s
      /\ \A j \in Keys \ {k} : spell'[j] = spell[j]
  BY <1>2 DEF TypeOK
<1>5. TableKept
  BY DEF TableKept
<1> SUFFICES ASSUME NEW j \in Keys, spell'[j] # None /\ spell'[j].tried
             PROVE  Alerted(j)'
  BY DEF TriedIsAlerted
<1>6. CASE j = k /\ b
  <2>1. pc' = "insert" /\ alert'.key = k
    BY <1>1, <1>6
  <2> QED
    BY <1>6, <2>1 DEF Alerted, Inserting
<1>7. CASE ~(j = k /\ b)
  <2>1. spell[j] # None /\ spell[j].tried /\ spell'[j].from = spell[j].from
    <3>1. CASE j = k
      <4>1. s.tried
        BY <1>4, <3>1
      <4>2. spell[k] # None /\ spell[k].tried
        BY <1>3, <1>7, <3>1, <4>1, Zenon
      <4> QED
        BY <1>3, <1>4, <3>1, <4>2
    <3>2. CASE j # k
      BY <1>4, <3>2
    <3> QED
      BY <3>1, <3>2
  <2>2. Recorded(j) \/ j \in refused
    BY <2>1 DEF TriedIsAlerted, Alerted, Inserting
  <2> QED
    BY <1>5, <2>1, <2>2, AlertedKept
<1> QED
  BY <1>6, <1>7

\* Every step keeps it: the insert ends in a row or in an error.
LEMMA AlertedStep ==
    ASSUME TypeOK, AlertIsDue, SpellInv, TriedIsAlerted, [Next]_vars
    PROVE  TriedIsAlerted'
<1> USE DEF clock, inputs, timers, cursor, raising
<1>1. ASSUME TableKept, pc # "insert",
             \A k \in Keys : \/ spell'[k] = None
                             \/ /\ spell'[k] = spell[k]
                                /\ k \in refused => k \in refused'
      PROVE  TriedIsAlerted'
  <2> SUFFICES ASSUME NEW k \in Keys, spell'[k] # None /\ spell'[k].tried
               PROVE  Alerted(k)'
    BY DEF TriedIsAlerted
  <2>1. spell'[k] = spell[k] /\ (k \in refused => k \in refused')
    BY <1>1
  <2>2. Recorded(k) \/ k \in refused
    BY <1>1, <2>1 DEF TriedIsAlerted, Alerted, Inserting
  <2> QED
    BY <1>1, <2>1, <2>2, AlertedKept
<1>2. ASSUME alerts' = alerts PROVE TableKept
  BY <1>2 DEF TableKept
<1>3. CASE \/ Tick
           \/ \E d \in Devices, s \in Samples : ReceiveDevice(d, s)
           \/ \E high \in PUEReadings : ReceivePUE(high)
           \/ Cancel
           \/ \E g \in Listeners : StopListener(g)
           \/ ExitLoop
           \/ Forward
           \/ Hang
           \/ UNCHANGED vars
  <2>1. UNCHANGED <<alerts, alert, pc, spell, refused>>
    BY <1>3 DEF Tick, ReceiveDevice, ReceivePUE, Cancel, StopListener,
                ExitLoop, Forward, Hang, vars, volatile
  <2>2. \A k \in Keys : Duration(k)' = Duration(k)
    BY DEF Duration
  <2> QED
    BY <2>1, <2>2 DEF TriedIsAlerted, Alerted, Inserting, Recorded
<1>4. CASE \/ TakeTick \/ GetAllDevices \/ SkipDevice \/ SnapshotDevice
           \/ Rearm
  <2>1. UNCHANGED <<alerts, spell, refused>> /\ pc # "insert"
    BY <1>4 DEF TakeTick, GetAllDevices, SkipDevice, SnapshotDevice, Rearm
  <2> QED
    BY <1>1, <1>2, <2>1
<1>5. CASE CheckViolation
  <2>1. PICK t \in todo : Evaluate(<<dev, t>>, "violation")
    BY <1>5 DEF CheckViolation
  <2>2. <<dev, t>> \in Keys
    BY DeviceKeys DEF TypeOK
  <2> QED
    BY <1>5, <2>1, <2>2, EvaluateAlerted DEF CheckViolation
<1>6. CASE ClearInactive
  <2>1. alerts' = alerts /\ pc # "insert"
    BY <1>6 DEF ClearInactive
  <2>2. \A k \in Keys : \/ spell'[k] = None
                        \/ /\ spell'[k] = spell[k]
                           /\ k \in refused => k \in refused'
    BY <1>6 DEF ClearInactive, SeenCalm
  <2> QED
    BY <1>1, <1>2, <2>1, <2>2
<1>7. CASE CheckPUE /\ latestPUE
  BY <1>7, PueKeyIsKey, EvaluateAlerted DEF CheckPUE
<1>8. CASE CheckPUE /\ ~latestPUE
  <2>1. alerts' = alerts /\ pc # "insert"
    BY <1>8 DEF CheckPUE
  <2>2. \A k \in Keys : \/ spell'[k] = None
                        \/ /\ spell'[k] = spell[k]
                           /\ k \in refused => k \in refused'
    BY <1>8, PueKeyIsKey DEF CheckPUE, TypeOK
  <2> QED
    BY <1>1, <1>2, <2>1, <2>2
<1>9. ASSUME pc = "insert", UNCHANGED <<spell>>, TableKept,
             alert'.key = alert.key,
             \A k \in Keys : k \in refused => k \in refused',
             Alerted(alert.key)'
      PROVE  TriedIsAlerted'
  <2> SUFFICES ASSUME NEW k \in Keys, spell[k] # None /\ spell[k].tried
               PROVE  Alerted(k)'
    BY <1>9 DEF TriedIsAlerted
  <2>1. CASE k = alert.key
    BY <1>9, <2>1
  <2>2. CASE k # alert.key
    <3>1. Recorded(k) \/ k \in refused
      BY <2>2 DEF TriedIsAlerted, Alerted, Inserting
    <3> QED
      BY <1>9, <3>1, AlertedKept
  <2> QED
    BY <2>1, <2>2
<1>10. CASE InsertAlert
  <2>1. /\ pc = "insert" /\ UNCHANGED <<spell, refused>>
        /\ alerts' = Append(alerts, Row)
        /\ alert'.key = alert.key
    BY <1>10 DEF InsertAlert, TypeOK, Alerts
  <2>2. /\ TableKept
        /\ Len(alerts) + 1 \in 1 .. Len(alerts')
        /\ alerts'[Len(alerts) + 1].key = alert.key
        /\ alerts'[Len(alerts) + 1].time = alert.time
    BY <2>1, AppendKept
  <2>3. alert.time - spell[alert.key].from >= Duration(alert.key)
    BY <2>1, InsertIsTrue
  <2>4. Duration(alert.key)' = Duration(alert.key)
    BY <2>1 DEF Duration
  <2>5. \E i \in 1 .. Len(alerts') :
           /\ alerts'[i].key = alert.key
           /\ alerts'[i].time - spell'[alert.key].from >= Duration(alert.key)
    BY <2>1, <2>2, <2>3
  <2>6. Alerted(alert.key)'
    BY <2>1, <2>4, <2>5 DEF Alerted, Recorded
  <2> QED
    BY <1>9, <2>1, <2>2, <2>6
<1>11. CASE InsertFails
  <2>1. /\ pc = "insert" /\ UNCHANGED <<spell, alert>>
        /\ refused' = refused \cup {alert.key}
        /\ alerts' = alerts \/ alerts' = Append(alerts, Row)
    BY <1>11 DEF InsertFails
  <2>2. TableKept
    BY <1>2, <2>1, AppendKept
  <2>3. Alerted(alert.key)'
    BY <2>1 DEF Alerted
  <2> QED
    BY <1>9, <2>1, <2>2, <2>3
<1>12. CASE PostAccepted \/ PostFails \/ MarkDingTalkSent
  <2>1. /\ pc \in {"post", "mark"} /\ UNCHANGED <<spell, refused>>
        /\ \/ alerts' = alerts
           \/ alerts' = Accept(alert.id)
           \/ alerts' = Mark(alert.id)
    BY <1>12 DEF PostAccepted, PostFails, MarkDingTalkSent
  <2>2. alert.id \in 1 .. Len(alerts)
    BY <2>1 DEF TypeOK
  <2>3. TableKept
    BY <1>2, <2>1, <2>2, UpdateKept
  <2> QED
    BY <1>1, <2>1, <2>3
<1>13. CASE Restart
  <2>1. \A k \in Keys : spell'[k] = None
    BY <1>13 DEF Restart
  <2> QED
    BY <2>1 DEF TriedIsAlerted
<1> QED
  BY <1>3, <1>4, <1>5, <1>6, <1>7, <1>8, <1>10, <1>11, <1>12, <1>13
     DEF Next, Pass

\* Every threshold found exceeded for its whole duration has its row, unless
\* an insert reported an error, provided the durations are positive.
THEOREM EveryExcessAlerted ==
    ASSUME Level1Duration > 0, Level2Duration > 0
    PROVE  Spec => []NoMissedAlarm
<1>1. Init => ExcessTried /\ TriedIsAlerted
  BY DEF Init, ExcessTried, TriedIsAlerted
<1>2. TypeOK /\ SpellInv /\ ExcessTried /\ [Next]_vars => ExcessTried'
  BY ExcessStep
<1>3. DueInv /\ SpellInv /\ TriedIsAlerted /\ [Next]_vars => TriedIsAlerted'
  BY AlertedStep DEF DueInv
<1>4. ExcessTried /\ TriedIsAlerted => NoMissedAlarm
  BY DEF ExcessTried, TriedIsAlerted, Alerted, NoMissedAlarm
<1> QED
  BY <1>1, <1>2, <1>3, <1>4, InitTyped, TypeStep, DueInit, DueStep, SpellInit,
     SpellStep, PTL DEF Spec

-----------------------------------------------------------------------------
\* What a row says of the robot: it is marked only after a receipt, and the
\* receipts of the alert being pushed are bounded by the attempts made so far.
RowIsHonest(r) ==
    /\ r.sent => r.accepted > 0
    /\ r.accepted <= RetryCount + 1

RowsAreHonest == \A i \in 1 .. Len(alerts) : RowIsHonest(alerts[i])

PushIsCounted ==
    /\ pc = "post" => alerts[alert.id].accepted <= attempt
    /\ pc = "mark" => alerts[alert.id].accepted > 0

ReceiptInv == RowsAreHonest /\ PushIsCounted

\* A new row has no receipt and is not marked.
LEMMA NewRowIsHonest == RowIsHonest(Row)
BY CountAssumption DEF RowIsHonest, Row

\* Appending a row leaves the others as they are.
LEMMA AppendHonest ==
    ASSUME TypeOK, RowsAreHonest, alerts' = Append(alerts, Row)
    PROVE  /\ RowsAreHonest'
           /\ alerts'[Len(alerts) + 1] = Row
<1>1. PICK n \in Nat : n = Len(alerts)
  BY DEF TypeOK
<1>2. /\ Len(alerts') = n + 1
      /\ \A i \in 1 .. n : alerts'[i] = alerts[i]
      /\ alerts'[n + 1] = Row
  BY <1>1, AppendRow, RowTyped DEF TypeOK
<1>3. ASSUME NEW i \in 1 .. n + 1 PROVE RowIsHonest(alerts'[i])
  BY <1>1, <1>2, NewRowIsHonest DEF RowsAreHonest
<1>4. RowsAreHonest'
  BY <1>2, <1>3 DEF RowsAreHonest, RowIsHonest
<1> QED
  BY <1>1, <1>2, <1>4

\* Overwriting one row leaves the others as they are.
LEMMA OneRow ==
    ASSUME NEW s \in Seq(Rows), NEW i \in 1 .. Len(s), NEW r,
           NEW t, t = [s EXCEPT ![i] = r]
    PROVE  /\ Len(t) = Len(s) /\ t[i] = r
           /\ \A j \in 1 .. Len(s) : j # i => t[j] = s[j]
<1>1. DOMAIN s = 1 .. Len(s) /\ Len(s) \in Nat
  OBVIOUS
<1>2. DOMAIN t = 1 .. Len(s)
  BY <1>1
<1>3. t \in Seq({s[j] : j \in 1 .. Len(s)} \cup {r}) /\ Len(t) = Len(s)
  <2>1. t \in [1 .. Len(s) -> {s[j] : j \in 1 .. Len(s)} \cup {r}]
    BY <1>1
  <2> QED
    BY <1>1, <2>1, SeqOfMap
<1> QED
  BY <1>1, <1>3

\* Counting one more receipt of the alert under way stays within the bound.
LEMMA AcceptHonest ==
    ASSUME TypeOK, ReceiptInv, pc = "post", alerts' = Accept(alert.id)
    PROVE  /\ RowsAreHonest'
           /\ alerts'[alert.id].accepted > 0
           /\ alerts'[alert.id].accepted <= attempt + 1
<1>1. alert.id \in 1 .. Len(alerts) /\ attempt \in Nat /\ attempt <= RetryCount
  BY CountAssumption DEF TypeOK
<1>2. alerts[alert.id] \in Rows
  BY <1>1 DEF TypeOK
<1>3. PICK r : r = [alerts[alert.id] EXCEPT !.accepted = @ + 1]
  OBVIOUS
<1>4. /\ r.accepted = alerts[alert.id].accepted + 1
      /\ r.sent = alerts[alert.id].sent
      /\ alerts[alert.id].accepted \in Nat
  BY <1>2, <1>3 DEF Rows
<1>5. /\ Len(alerts') = Len(alerts) /\ alerts'[alert.id] = r
      /\ \A i \in 1 .. Len(alerts) : i # alert.id => alerts'[i] = alerts[i]
  <2>1. alerts' = [alerts EXCEPT ![alert.id] = r]
    BY <1>3 DEF Accept
  <2> QED
    BY <1>1, <2>1, OneRow DEF TypeOK
<1>6. r.accepted > 0 /\ r.accepted <= attempt + 1
  BY <1>1, <1>4 DEF ReceiptInv, PushIsCounted
<1>7. RowIsHonest(r)
  BY <1>1, <1>4, <1>6, CountAssumption DEF RowIsHonest
<1>8. ASSUME NEW i \in 1 .. Len(alerts) PROVE RowIsHonest(alerts'[i])
  BY <1>5, <1>7 DEF ReceiptInv, RowsAreHonest
<1>9. RowsAreHonest'
  BY <1>5, <1>8 DEF RowsAreHonest, RowIsHonest
<1> QED
  BY <1>5, <1>6, <1>9

\* Every step keeps the rows honest.
LEMMA ReceiptStep == TypeOK /\ ReceiptInv /\ [Next]_vars => ReceiptInv'
<1> SUFFICES ASSUME TypeOK, ReceiptInv, [Next]_vars
             PROVE  ReceiptInv'
  OBVIOUS
<1> USE DEF clock, inputs, timers, cursor, raising
<1>1. ASSUME alerts' = alerts PROVE RowsAreHonest'
  BY <1>1 DEF ReceiptInv, RowsAreHonest, RowIsHonest
<1>2. ASSUME pc' \notin {"post", "mark"} PROVE PushIsCounted'
  BY <1>2 DEF PushIsCounted
<1>3. CASE \/ Tick
           \/ \E d \in Devices, s \in Samples : ReceiveDevice(d, s)
           \/ \E high \in PUEReadings : ReceivePUE(high)
           \/ Cancel
           \/ \E g \in Listeners : StopListener(g)
           \/ ExitLoop
           \/ Forward
           \/ Hang
           \/ UNCHANGED vars
  <2>1. UNCHANGED <<alerts, alert, attempt, pc>>
    BY <1>3 DEF Tick, ReceiveDevice, ReceivePUE, Cancel, StopListener,
                ExitLoop, Forward, Hang, vars, volatile
  <2> QED
    BY <1>1, <2>1 DEF ReceiptInv, PushIsCounted
<1>4. ASSUME Advance PROVE pc' \notin {"post", "mark"}
  BY <1>4 DEF Advance
<1>5. ASSUME NEW k, NEW next \in {"violation", "select"}, Evaluate(k, next)
      PROVE  pc' \notin {"post", "mark"}
  BY <1>5 DEF Evaluate
<1>6. CASE \/ TakeTick \/ GetAllDevices \/ SkipDevice \/ SnapshotDevice
           \/ CheckViolation \/ ClearInactive \/ CheckPUE \/ Rearm \/ Restart
  <2>1. alerts' = alerts
    BY <1>6 DEF TakeTick, GetAllDevices, SkipDevice, SnapshotDevice,
                CheckViolation, ClearInactive, CheckPUE, Rearm, Restart
  <2>2. pc' \notin {"post", "mark"}
    BY <1>4, <1>5, <1>6 DEF TakeTick, GetAllDevices, SkipDevice,
                SnapshotDevice, CheckViolation, ClearInactive, CheckPUE,
                Rearm, Restart
  <2> QED
    BY <1>1, <1>2, <2>1, <2>2 DEF ReceiptInv
<1>7. CASE InsertAlert
  <2>1. alerts' = Append(alerts, Row) /\ attempt' = 0 /\ pc' # "mark"
    BY <1>7 DEF InsertAlert
  <2>2. RowsAreHonest' /\ alerts'[Len(alerts) + 1] = Row
    BY <2>1, AppendHonest DEF ReceiptInv
  <2>3. alert'.id = Len(alerts) + 1
    BY <1>7 DEF InsertAlert, TypeOK, Alerts
  <2>4. alerts'[alert'.id].accepted = 0
    BY <2>2, <2>3 DEF Row
  <2> QED
    BY <2>1, <2>2, <2>4 DEF ReceiptInv, PushIsCounted
<1>8. CASE InsertFails
  BY <1>1, <1>2, <1>8, AppendHonest DEF InsertFails, ReceiptInv
<1>9. CASE PostAccepted
  <2>1. /\ pc = "post" /\ alerts' = Accept(alert.id)
        /\ pc' = "mark" /\ alert' = alert
    BY <1>9 DEF PostAccepted
  <2> QED
    BY <2>1, AcceptHonest DEF ReceiptInv, PushIsCounted
<1>10. CASE PostFails
  <2>1. attempt \in Nat /\ RetryCount \in Nat
    BY CountAssumption DEF TypeOK
  <2>2. /\ pc = "post" /\ alert' = alert /\ pc' # "mark"
        /\ pc' = "post" => attempt' = attempt + 1
        /\ alerts' = alerts \/ alerts' = Accept(alert.id)
    BY <1>10 DEF PostFails, AfterFailure
  <2>3. CASE alerts' = Accept(alert.id)
    BY <2>2, <2>3, AcceptHonest DEF ReceiptInv, PushIsCounted
  <2>4. CASE alerts' = alerts
    <3>1. alerts[alert.id].accepted \in Nat
      <4>1. alert.id \in 1 .. Len(alerts)
        BY <2>2 DEF TypeOK
      <4>2. alerts[alert.id] \in Rows
        BY <4>1 DEF TypeOK
      <4> QED
        BY <4>2 DEF Rows
    <3>2. alerts[alert.id].accepted <= attempt + 1
      BY <2>1, <2>2, <3>1 DEF ReceiptInv, PushIsCounted
    <3> QED
      BY <1>1, <2>2, <2>4, <3>2 DEF ReceiptInv, PushIsCounted
  <2> QED
    BY <2>2, <2>3, <2>4
<1>11. CASE MarkDingTalkSent
  <2>1. /\ pc = "mark" /\ pc' = "rearm"
        /\ alerts' = alerts \/ alerts' = Mark(alert.id)
    BY <1>11 DEF MarkDingTalkSent
  <2>2. CASE alerts' = Mark(alert.id)
    <3>1. alert.id \in 1 .. Len(alerts)
      BY <2>1 DEF TypeOK
    <3>2. PICK r : r = [alerts[alert.id] EXCEPT !.sent = TRUE]
      OBVIOUS
    <3>3. alerts[alert.id] \in Rows
      BY <3>1 DEF TypeOK
    <3>4. r.sent = TRUE /\ r.accepted = alerts[alert.id].accepted
      BY <3>2, <3>3 DEF Rows
    <3>5. /\ Len(alerts') = Len(alerts) /\ alerts'[alert.id] = r
          /\ \A i \in 1 .. Len(alerts) : i # alert.id => alerts'[i] = alerts[i]
      <4>1. alerts' = [alerts EXCEPT ![alert.id] = r]
        BY <2>2, <3>2 DEF Mark
      <4> QED
        BY <3>1, <4>1, OneRow DEF TypeOK
    <3>6. RowIsHonest(r)
      BY <2>1, <3>1, <3>4 DEF ReceiptInv, RowsAreHonest, PushIsCounted, RowIsHonest
    <3>7. ASSUME NEW i \in 1 .. Len(alerts) PROVE RowIsHonest(alerts'[i])
      BY <3>5, <3>6 DEF ReceiptInv, RowsAreHonest
    <3> QED
      BY <1>2, <2>1, <3>5, <3>7 DEF ReceiptInv, RowsAreHonest, RowIsHonest
  <2>3. CASE alerts' = alerts
    BY <1>1, <1>2, <2>1, <2>3 DEF ReceiptInv
  <2> QED
    BY <2>1, <2>2, <2>3
<1> QED
  BY <1>3, <1>6, <1>7, <1>8, <1>9, <1>10, <1>11 DEF Next, Pass

\* The alerts table starts empty.
LEMMA ReceiptInit == Init => ReceiptInv
BY DEF Init, ReceiptInv, RowsAreHonest, PushIsCounted

\* A row marked as sent was accepted by the robot, whatever was retried, lost
\* or restarted, for every number of retries.
THEOREM MarksAreTrue == Spec => []SentWasAccepted
<1>1. ReceiptInv => SentWasAccepted
  BY DEF ReceiptInv, RowsAreHonest, RowIsHonest, SentWasAccepted
<1> QED
  BY <1>1, InitTyped, TypeStep, ReceiptInit, ReceiptStep, PTL DEF Spec

\* One alert reaches the robot at most RetryCount + 1 times.
THEOREM ReceiptsBounded == Spec => []RetriesBounded
<1>1. ReceiptInv => RetriesBounded
  BY DEF ReceiptInv, RowsAreHonest, RowIsHonest, RetriesBounded
<1> QED
  BY <1>1, InitTyped, TypeStep, ReceiptInit, ReceiptStep, PTL DEF Spec
=============================================================================
