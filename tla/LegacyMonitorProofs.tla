------------------------ MODULE LegacyMonitorProofs ------------------------
(***************************************************************************)
(* The former alert manager keeps the promise of AlarmPromise, its alerts  *)
(* follow an unbroken excess and are a duration apart, for every number of *)
(* devices, every duration and every failure of the statements.            *)
(***************************************************************************)
EXTENDS LegacyMonitor, TLAPS

Typed ==
    /\ now \in Nat
    /\ dev \in Devices
    /\ violationStart \in [Keys -> {None} \cup Nat]
    /\ spell \in [Keys -> {None} \cup Nat]
    /\ alert \in [key : Keys, time : Nat]

\* A timer runs within a spell of checks that found its threshold exceeded,
\* and no spell lies in the future.
TimerInSpell ==
    \A k \in Keys :
        violationStart[k] # None =>
            spell[k] # None /\ spell[k] <= violationStart[k]
SpellIsPast == \A k \in Keys : spell[k] # None => spell[k] <= now

\* The timer an alert comes from still runs while the alert is inserted.
AlertIsDue ==
    pc = "insert" =>
        /\ violationStart[alert.key] # None
        /\ alert.time <= now
        /\ alert.time - violationStart[alert.key] >= Duration(alert.key)

MonitorInv == Typed /\ TimerInSpell /\ SpellIsPast /\ AlertIsDue

-----------------------------------------------------------------------------
LEMMA DurationIsNat == \A k \in Keys : Duration(k) \in Nat
BY MonitorAssumption DEF Keys, Duration

\* The last device does not leave the table.
LEMMA NextDeviceTyped ==
    ASSUME dev \in Devices, NextDevice
    PROVE  dev' \in Devices /\ pc' # "insert"
BY MonitorAssumption DEF NextDevice, Devices

LEMMA ContinueTyped ==
    ASSUME dev \in Devices, NEW k, Continue(k)
    PROVE  dev' \in Devices /\ pc' \notin {"insert", "post"}
BY MonitorAssumption DEF Continue, NextDevice, Devices

\* What a calm check leaves.
LEMMA CalmStep ==
    ASSUME MonitorInv, NEW k \in Keys, Calm(k), now' = now
    PROVE  MonitorInv'
<1>1. Typed'
  BY ContinueTyped DEF MonitorInv, Typed, Calm, DropCalm
<1>2. TimerInSpell' /\ SpellIsPast'
  BY DEF MonitorInv, Typed, Calm, DropCalm, TimerInSpell, SpellIsPast
<1>3. AlertIsDue'
  BY ContinueTyped DEF MonitorInv, Typed, Calm, AlertIsDue
<1> QED
  BY <1>1, <1>2, <1>3 DEF MonitorInv

\* What a check that finds the threshold exceeded leaves.
LEMMA ExceededStep ==
    ASSUME MonitorInv, NEW k \in Keys, Exceeded(k), now' = now
    PROVE  MonitorInv'
<1>0. /\ now \in Nat /\ now <= now
      /\ spell' = [spell EXCEPT ![k] = IF spell[k] = None THEN now ELSE spell[k]]
  BY DEF MonitorInv, Typed, Exceeded
<1>1. spell' \in [Keys -> {None} \cup Nat] /\ spell'[k] # None
  BY <1>0, MonitorAssumption DEF MonitorInv, Typed
<1>2. SpellIsPast'
  BY <1>0 DEF MonitorInv, Typed, SpellIsPast
<1>3. CASE /\ violationStart[k] = None
           /\ violationStart' = [violationStart EXCEPT ![k] = now]
           /\ Continue(k)
           /\ UNCHANGED alert
  <2>1. Typed'
    BY <1>0, <1>1, <1>3, ContinueTyped DEF MonitorInv, Typed
  <2>2. TimerInSpell'
    BY <1>0, <1>1, <1>2, <1>3 DEF MonitorInv, Typed, TimerInSpell, SpellIsPast
  <2>3. AlertIsDue'
    BY <1>3, ContinueTyped DEF MonitorInv, Typed, AlertIsDue
  <2> QED
    BY <1>2, <2>1, <2>2, <2>3 DEF MonitorInv
<1>4. CASE /\ violationStart[k] # None
           /\ now - violationStart[k] < Duration(k)
           /\ Continue(k)
           /\ UNCHANGED <<violationStart, alert>>
  <2>1. Typed'
    BY <1>0, <1>1, <1>4, ContinueTyped DEF MonitorInv, Typed
  <2>2. TimerInSpell'
    BY <1>0, <1>1, <1>4 DEF MonitorInv, Typed, TimerInSpell
  <2>3. AlertIsDue'
    BY <1>4, ContinueTyped DEF MonitorInv, Typed, AlertIsDue
  <2> QED
    BY <1>2, <2>1, <2>2, <2>3 DEF MonitorInv
<1>5. CASE /\ violationStart[k] # None
           /\ now - violationStart[k] >= Duration(k)
           /\ alert' = [key |-> k, time |-> now]
           /\ pc' = "insert"
           /\ UNCHANGED <<violationStart, dev>>
  <2>1. Typed'
    BY <1>0, <1>1, <1>5 DEF MonitorInv, Typed
  <2>2. TimerInSpell'
    BY <1>0, <1>1, <1>5 DEF MonitorInv, Typed, TimerInSpell
  <2>3. AlertIsDue'
    BY <1>0, <1>5 DEF AlertIsDue
  <2> QED
    BY <1>2, <2>1, <2>2, <2>3 DEF MonitorInv
<1> QED
  BY <1>3, <1>4, <1>5 DEF Exceeded

\* The timer is used up, however the alert was dealt with.
LEMMA UsedUp ==
    ASSUME MonitorInv, violationStart' = UseUp(alert.key), Continue(alert.key),
           UNCHANGED <<now, alert, spell>>
    PROVE  MonitorInv'
<1>1. Typed'
  BY ContinueTyped DEF MonitorInv, Typed, UseUp
<1>2. TimerInSpell' /\ SpellIsPast'
  BY DEF MonitorInv, Typed, UseUp, TimerInSpell, SpellIsPast
<1>3. AlertIsDue'
  BY ContinueTyped DEF MonitorInv, Typed, AlertIsDue
<1> QED
  BY <1>1, <1>2, <1>3 DEF MonitorInv

\* The invariant depends on the manager's variables and the clock alone.
LEMMA Untouched ==
    ASSUME MonitorInv, UNCHANGED <<violationStart, spell, alert>>,
           now' \in Nat, now' >= now,
           dev' \in Devices, pc' = "insert" => pc = "insert"
    PROVE  MonitorInv'
<1>0. now \in Nat
  BY DEF MonitorInv, Typed
<1>1. Typed'
  BY DEF MonitorInv, Typed
<1>2. TimerInSpell'
  BY DEF MonitorInv, TimerInSpell
<1>3. SpellIsPast'
  BY <1>0 DEF MonitorInv, Typed, SpellIsPast
<1>4. AlertIsDue'
  <2> SUFFICES ASSUME pc' = "insert"
               PROVE  /\ violationStart[alert.key] # None
                      /\ alert.time <= now'
                      /\ alert.time - violationStart[alert.key] >= Duration(alert.key)
    BY DEF AlertIsDue
  <2>1. alert.time \in Nat
    BY DEF MonitorInv, Typed
  <2>2. /\ violationStart[alert.key] # None
        /\ alert.time <= now
        /\ alert.time - violationStart[alert.key] >= Duration(alert.key)
    BY DEF MonitorInv, AlertIsDue
  <2> QED
    BY <1>0, <2>1, <2>2
<1> QED
  BY <1>1, <1>2, <1>3, <1>4 DEF MonitorInv

\* Every step keeps the invariant.
LEMMA MonitorStep == MonitorInv /\ [Next]_vars => MonitorInv'
<1> SUFFICES ASSUME MonitorInv, [Next]_vars PROVE MonitorInv'
  OBVIOUS
<1>0. now \in Nat /\ now >= now /\ dev \in Devices
  BY DEF MonitorInv, Typed
<1>1. CASE Tick
  <2>1. now' \in Nat /\ now' >= now
    BY <1>0, <1>1 DEF Tick
  <2> QED
    BY <1>0, <1>1, <2>1, Untouched DEF Tick, manager, timers
<1>2. CASE Cancel
  BY <1>0, <1>2, Untouched DEF Cancel, manager, timers
<1>3. CASE \E d \in Devices : RefreshBucket(d) \/ \E s \in Samples : InsertDeviceData(d, s)
  BY <1>0, <1>3, Untouched DEF RefreshBucket, InsertDeviceData, clock, manager, timers
<1>4. CASE CalcTakeTick \/ CalcGetAllDevices \/ SumPower \/ InsertPUERecord \/ CalcStop
  BY <1>0, <1>4, Untouched
     DEF CalcTakeTick, CalcGetAllDevices, SumPower, InsertPUERecord, CalcStop,
         clock, manager, timers
<1>5. CASE TakeTick \/ GetAllDevices \/ SkipPUE \/ InsertAlert \/ Stop
  <2>1. 1 \in Devices
    BY MonitorAssumption DEF Devices
  <2> QED
    BY <1>0, <1>5, <2>1, Untouched
       DEF TakeTick, GetAllDevices, SkipPUE, InsertAlert, Stop, clock, timers
<1>6. CASE SkipDevice
  BY <1>0, <1>6, NextDeviceTyped, Untouched DEF SkipDevice, clock, timers
<1>7. CASE CheckDevice
  <2>1. dev \in Keys
    BY <1>0 DEF Keys
  <2> QED
    BY <1>7, <2>1, CalmStep, ExceededStep DEF CheckDevice, clock
<1>8. CASE CheckPUE
  <2>1. PueKey \in Keys
    BY DEF Keys
  <2> QED
    BY <1>8, <2>1, CalmStep, ExceededStep DEF CheckPUE, clock
<1>9. CASE InsertFails \/ SendDingTalk
  BY <1>9, UsedUp DEF InsertFails, SendDingTalk, clock
<1>10. CASE UNCHANGED vars
  BY <1>0, <1>10, Untouched DEF vars, clock, manager, timers
<1> QED
  BY <1>1, <1>2, <1>3, <1>4, <1>5, <1>6, <1>7, <1>8, <1>9, <1>10 DEF Next

LEMMA MonitorInit == Init => MonitorInv
BY MonitorAssumption
   DEF Init, MonitorInv, Typed, TimerInSpell, SpellIsPast, AlertIsDue, Keys,
       Devices, PueKey

\* The checks of the whole duration found the threshold of the PUE, or some
\* threshold of the device, exceeded
\* (alert.go:104-131, 146-175).
THEOREM AlertsFollowExcess == Spec => []AlertIsUnbroken
<1>1. MonitorInv => AlertIsUnbroken
  <2> SUFFICES ASSUME MonitorInv, pc = "insert"
               PROVE  /\ spell[alert.key] # None
                      /\ alert.time - spell[alert.key] >= Duration(alert.key)
    BY DEF AlertIsUnbroken
  <2>1. alert.key \in Keys /\ alert.time \in Nat
    BY DEF MonitorInv, Typed
  <2>2. /\ violationStart[alert.key] \in Nat
        /\ alert.time - violationStart[alert.key] >= Duration(alert.key)
    BY <2>1 DEF MonitorInv, Typed, AlertIsDue
  <2>3. /\ spell[alert.key] # None
        /\ spell[alert.key] <= violationStart[alert.key]
    BY <2>1, <2>2, MonitorAssumption DEF MonitorInv, TimerInSpell
  <2>4. spell[alert.key] \in Nat /\ Duration(alert.key) \in Nat
    BY <2>1, <2>3, DurationIsNat DEF MonitorInv, Typed
  <2> QED
    BY <2>1, <2>2, <2>3, <2>4
<1> QED
  BY <1>1, MonitorInit, MonitorStep, PTL DEF Spec

-----------------------------------------------------------------------------
(* The refinement.                                                         *)

\* The timers of the promise change with these variables alone.
LEMMA SinceKept ==
    ASSUME UNCHANGED <<violationStart, alert>>, pc = "post" <=> pc' = "post"
    PROVE  Since' = Since
BY DEF Since

LEMMA SinceNotPost ==
    /\ pc # "post" => Since = [k \in Keys |-> violationStart[k]]
    /\ pc' # "post" => Since' = [k \in Keys |-> violationStart'[k]]
BY DEF Since

\* A calm check drops the timer, or none runs.
LEMMA CalmPromise ==
    ASSUME MonitorInv, NEW k \in Keys, Calm(k), pc # "post",
           UNCHANGED <<now, alerts>>
    PROVE  Promise!Next
<1>1. pc' # "post"
  BY ContinueTyped DEF MonitorInv, Typed, Calm
<1>2. Since' = [j \in Keys |-> IF j \in {k} THEN None ELSE Since[j]]
  BY <1>1, SinceNotPost DEF MonitorInv, Typed, Calm, DropCalm
<1>3. Promise!Calm({k})
  BY <1>2 DEF Promise!Calm
<1> QED
  BY <1>3 DEF Promise!Next

\* A check that finds the threshold exceeded starts the timer, or leaves it.
LEMMA ExceededPromise ==
    ASSUME MonitorInv, NEW k \in Keys, Exceeded(k), pc # "post",
           UNCHANGED <<now, alerts>>
    PROVE  Promise!Next \/ UNCHANGED Promise!vars
<1>1. pc' # "post"
  BY ContinueTyped DEF MonitorInv, Typed, Exceeded
<1>2. CASE /\ violationStart[k] = None
           /\ violationStart' = [violationStart EXCEPT ![k] = now]
  <2>1. Since[k] = None /\ Since' = [Since EXCEPT ![k] = now]
    BY <1>1, <1>2, SinceNotPost DEF MonitorInv, Typed
  <2>2. Promise!Exceed(k)
    BY <2>1 DEF Promise!Exceed
  <2> QED
    BY <2>2 DEF Promise!Next
<1>3. CASE UNCHANGED violationStart
  <2>1. Since' = Since
    BY <1>1, <1>3, SinceNotPost
  <2> QED
    BY <2>1 DEF Promise!vars
<1> QED
  BY <1>2, <1>3 DEF Exceeded

\* An alert whose row is stored is recorded in the promise.
LEMMA RecordPromise ==
    ASSUME MonitorInv, pc = "insert", UNCHANGED <<now, alert>>,
           alerts' = Append(alerts, alert),
           Since' = [Since EXCEPT ![alert.key] = None]
    PROVE  Promise!Next
<1>1. /\ alert.key \in Keys /\ alert.time \in Nat /\ now \in Nat
      /\ alert = [key |-> alert.key, time |-> alert.time]
  BY DEF MonitorInv, Typed
<1>2. Since[alert.key] = violationStart[alert.key]
  BY <1>1 DEF Since
<1>3. /\ violationStart[alert.key] # None
      /\ alert.time <= now
      /\ alert.time - violationStart[alert.key] >= Duration(alert.key)
  BY DEF MonitorInv, AlertIsDue
<1>4. alert.time \in 0 .. now
  BY <1>1, <1>3
<1>5. Promise!Record(alert.key, alert.time)
  BY <1>1, <1>2, <1>3 DEF Promise!Record
<1> QED
  BY <1>1, <1>4, <1>5 DEF Promise!Next

\* Every step of the monitor is one of the promise, or leaves it alone.
LEMMA PromiseSteps ==
    ASSUME MonitorInv, [Next]_vars
    PROVE  Promise!Next \/ UNCHANGED Promise!vars
<1>1. CASE Tick
  <2>1. Since' = Since
    BY <1>1, SinceKept DEF Tick, manager, timers
  <2>2. Promise!Tick
    BY <1>1, <2>1 DEF Tick, Promise!Tick
  <2> QED
    BY <2>2 DEF Promise!Next
<1>2. CASE \/ Cancel \/ UNCHANGED vars
           \/ \E d \in Devices : RefreshBucket(d)
                                 \/ \E s \in Samples : InsertDeviceData(d, s)
  <2>1. UNCHANGED <<now, alerts, violationStart, alert, pc>>
    BY <1>2 DEF Cancel, RefreshBucket, InsertDeviceData, vars, clock, manager, timers
  <2> QED
    BY <2>1, SinceKept DEF Promise!vars
<1>3. CASE CalcTakeTick \/ CalcGetAllDevices \/ SumPower \/ InsertPUERecord \/ CalcStop
  <2>1. UNCHANGED <<now, alerts, violationStart, alert, pc>>
    BY <1>3 DEF CalcTakeTick, CalcGetAllDevices, SumPower, InsertPUERecord,
                CalcStop, clock, manager, timers
  <2> QED
    BY <2>1, SinceKept DEF Promise!vars
<1>4. CASE TakeTick \/ GetAllDevices \/ SkipPUE \/ Stop \/ SkipDevice
  <2>1. /\ UNCHANGED <<now, alerts, violationStart, alert>>
        /\ pc # "post" /\ pc' # "post"
    BY <1>4 DEF TakeTick, GetAllDevices, SkipPUE, Stop, SkipDevice, NextDevice,
                clock, timers
  <2> QED
    BY <2>1, SinceKept DEF Promise!vars
<1>5. CASE CheckDevice
  <2>1. dev \in Keys
    BY DEF MonitorInv, Typed, Keys
  <2> QED
    BY <1>5, <2>1, CalmPromise, ExceededPromise DEF CheckDevice, clock
<1>6. CASE CheckPUE
  <2>1. PueKey \in Keys
    BY DEF Keys
  <2> QED
    BY <1>6, <2>1, CalmPromise, ExceededPromise DEF CheckPUE, clock
<1>7. CASE InsertAlert
  <2>1. Since' = [Since EXCEPT ![alert.key] = None]
    BY <1>7 DEF InsertAlert, timers, Since, MonitorInv, Typed
  <2> QED
    BY <1>7, <2>1, RecordPromise DEF InsertAlert, clock
<1>8. CASE InsertFails
  <2>1. alert.key \in Keys /\ pc = "insert" /\ pc' # "post"
    BY <1>8, ContinueTyped DEF InsertFails, MonitorInv, Typed
  <2>2. Since' = [Since EXCEPT ![alert.key] = None]
    BY <1>8, <2>1, SinceNotPost DEF InsertFails, UseUp, MonitorInv, Typed
  <2>3. CASE alerts' = alerts
    <3>1. Since' = [k \in Keys |-> IF k \in {alert.key} THEN None ELSE Since[k]]
      BY <2>1, <2>2 DEF Since
    <3>2. Promise!Calm({alert.key})
      BY <1>8, <2>3, <3>1 DEF InsertFails, clock, Promise!Calm
    <3> QED
      BY <2>1, <3>2 DEF Promise!Next
  <2>4. CASE alerts' = Append(alerts, alert)
    BY <1>8, <2>1, <2>2, <2>4, RecordPromise DEF InsertFails, clock
  <2> QED
    BY <1>8, <2>3, <2>4 DEF InsertFails
<1>9. CASE SendDingTalk
  <2>1. alert.key \in Keys /\ pc = "post" /\ pc' # "post"
    BY <1>9, ContinueTyped DEF SendDingTalk, MonitorInv, Typed
  <2>2. Since' = Since
    BY <1>9, <2>1, SinceNotPost DEF SendDingTalk, UseUp, Since, MonitorInv, Typed
  <2> QED
    BY <1>9, <2>2 DEF SendDingTalk, clock, Promise!vars
<1> QED
  BY <1>1, <1>2, <1>3, <1>4, <1>5, <1>6, <1>7, <1>8, <1>9 DEF Next

\* The alert manager, its calculator and the tables between them implement the
\* notifier's promise (alert.go:65-176).
THEOREM MonitorKeepsPromise == Spec => PromiseKept
<1>1. Init => Promise!Init
  BY SinceNotPost DEF Init, Promise!Init
<1>2. MonitorInv /\ [Next]_vars => [Promise!Next]_(Promise!vars)
  BY PromiseSteps
<1> QED
  BY <1>1, <1>2, MonitorInit, MonitorStep, PTL DEF Spec, PromiseKept, Promise!Spec

-----------------------------------------------------------------------------
(* What the promise is worth.  Nothing the manager does enters: the steps  *)
(* are those of AlarmPromise, over the manager's timers and rows.          *)

MinAge == [k \in Keys |-> Duration(k)]

Entries == [key : Keys, time : Nat]

\* What appending an entry to the log gives.
LEMMA AppendEntry ==
    ASSUME NEW s \in Seq(Entries), NEW e \in Entries
    PROVE  /\ Append(s, e) \in Seq(Entries)
           /\ Len(Append(s, e)) = Len(s) + 1
           /\ \A i \in 1 .. Len(s) : Append(s, e)[i] = s[i]
           /\ Append(s, e)[Len(s) + 1] = e
OBVIOUS

\* The entries of the log have their types.
LEMMA LogEntry ==
    ASSUME alerts \in Seq(Entries), NEW i \in 1 .. Len(alerts)
    PROVE  alerts[i] \in Entries /\ alerts[i].key \in Keys /\ alerts[i].time \in Nat
<1>1. alerts[i] \in Entries
  OBVIOUS
<1> QED
  BY <1>1 DEF Entries

\* Recording an alert keeps it a duration from the earlier ones: they are not
\* later than the timer it was raised from.
LEMMA RecordKeeps ==
    ASSUME Promise!PromiseInv, NEW k \in Keys, NEW t \in 0 .. now,
           Promise!Record(k, t)
    PROVE  Promise!PromiseInv'
<1> DEFINE e == [key |-> k, time |-> t]
<1>1. now \in Nat /\ Since \in [Keys -> {None} \cup Nat] /\ alerts \in Seq(Entries)
  BY DEF Promise!PromiseInv, Promise!TypeOK, Entries
<1>2. e \in Entries /\ e.key = k /\ e.time = t
  BY <1>1 DEF Entries
<1> HIDE DEF e
<1>3. alerts' = Append(alerts, e) /\ now' = now /\ Since' = [Since EXCEPT ![k] = None]
  BY DEF Promise!Record, e
<1>4. /\ alerts' \in Seq(Entries) /\ Len(alerts') = Len(alerts) + 1
      /\ \A i \in 1 .. Len(alerts) : alerts'[i] = alerts[i]
      /\ alerts'[Len(alerts) + 1] = e
  BY <1>1, <1>2, <1>3, AppendEntry
<1>5. Promise!TypeOK'
  BY <1>1, <1>3, <1>4 DEF Promise!TypeOK, Entries
<1>6. Promise!TimersStarted'
  BY <1>1, <1>3 DEF Promise!PromiseInv, Promise!TimersStarted
<1>7. Promise!TimersFollowAlerts'
  <2> SUFFICES ASSUME NEW i \in 1 .. Len(alerts')
               PROVE  /\ alerts'[i].time <= now
                      /\ Since'[alerts'[i].key] # None
                            => alerts'[i].time <= Since'[alerts'[i].key]
    BY <1>3 DEF Promise!TimersFollowAlerts
  <2>1. CASE i \in 1 .. Len(alerts)
    BY <1>1, <1>3, <1>4, <2>1, LogEntry DEF Promise!PromiseInv, Promise!TimersFollowAlerts
  <2>2. CASE i = Len(alerts) + 1
    BY <1>1, <1>2, <1>3, <1>4, <2>2
  <2> QED
    BY <1>1, <1>4, <2>1, <2>2
<1>8. Promise!RateLimited'
  <2> SUFFICES ASSUME NEW i \in 1 .. Len(alerts'), NEW j \in 1 .. Len(alerts'),
                      i < j, alerts'[i].key = alerts'[j].key
               PROVE  alerts'[j].time - alerts'[i].time >= MinAge[alerts'[i].key]
    BY DEF Promise!RateLimited, MinAge
  <2>1. i \in 1 .. Len(alerts) /\ alerts'[i] = alerts[i]
    BY <1>1, <1>4
  <2>2. CASE j \in 1 .. Len(alerts)
    BY <1>4, <2>1, <2>2 DEF Promise!PromiseInv, Promise!RateLimited, MinAge
  <2>3. CASE j = Len(alerts) + 1
    <3>1. alerts[i].key = k /\ alerts'[j].time = t
      BY <1>2, <1>4, <2>1, <2>3
    <3>2. Since[k] # None /\ t - Since[k] >= MinAge[k]
      BY DEF Promise!Record, MinAge
    <3>3. alerts[i].time <= Since[k]
      BY <2>1, <3>1, <3>2 DEF Promise!PromiseInv, Promise!TimersFollowAlerts
    <3>4. Since[k] \in Nat /\ MinAge[k] \in Nat /\ alerts[i].time \in Nat
      BY <1>1, <2>1, <3>2, LogEntry, DurationIsNat DEF MinAge
    <3> QED
      BY <1>1, <2>1, <3>1, <3>2, <3>3, <3>4
  <2> QED
    BY <1>1, <1>4, <2>2, <2>3
<1> QED
  BY <1>5, <1>6, <1>7, <1>8 DEF Promise!PromiseInv

\* Every step of the promise keeps the invariant.
LEMMA PromiseStep ==
    Promise!PromiseInv /\ [Promise!Next]_(Promise!vars) => Promise!PromiseInv'
<1> SUFFICES ASSUME Promise!PromiseInv, [Promise!Next]_(Promise!vars)
             PROVE  Promise!PromiseInv'
  OBVIOUS
<1> USE DEF Promise!PromiseInv
<1>0. now \in Nat /\ Since \in [Keys -> {None} \cup Nat] /\ alerts \in Seq(Entries)
  BY DEF Promise!TypeOK, Entries
<1>1. ASSUME alerts' = alerts PROVE Promise!RateLimited'
  BY <1>1 DEF Promise!RateLimited
<1>2. CASE Promise!Tick
  BY <1>0, <1>1, <1>2, LogEntry
     DEF Promise!Tick, Promise!TypeOK,
         Promise!TimersFollowAlerts, Promise!TimersStarted
<1>3. ASSUME NEW k \in Keys, Promise!Exceed(k) PROVE Promise!PromiseInv'
  BY <1>0, <1>1, <1>3, LogEntry
     DEF Promise!Exceed, Promise!TypeOK,
         Promise!TimersFollowAlerts, Promise!TimersStarted
<1>4. ASSUME NEW K \in SUBSET Keys, Promise!Calm(K) PROVE Promise!PromiseInv'
  BY <1>0, <1>1, <1>4, LogEntry
     DEF Promise!Calm, Promise!TypeOK,
         Promise!TimersFollowAlerts, Promise!TimersStarted
<1>5. ASSUME NEW k \in Keys, NEW t \in 0 .. now, Promise!Record(k, t) PROVE Promise!PromiseInv'
  BY <1>5, RecordKeeps
<1>6. CASE UNCHANGED Promise!vars
  BY <1>1, <1>6 DEF Promise!vars, Promise!TypeOK,
         Promise!TimersFollowAlerts, Promise!TimersStarted
<1> QED
  BY <1>2, <1>3, <1>4, <1>5, <1>6 DEF Promise!Next

\* It holds before the first alert.
LEMMA PromiseInit == Promise!Init => Promise!PromiseInv
<1> SUFFICES ASSUME Promise!Init PROVE Promise!PromiseInv
  OBVIOUS
<1>1. Since \in [Keys -> {None} \cup Nat]
  BY DEF Promise!Init
<1> QED
  BY <1>1 DEF Promise!Init, Promise!PromiseInv, Promise!TypeOK,
              Promise!RateLimited, Promise!TimersFollowAlerts,
              Promise!TimersStarted

\* In the promise itself, alerts of one threshold are a duration apart, whatever
\* the timers and the records are.
THEOREM PromiseRateLimited == Promise!Spec => []Promise!RateLimited
<1>1. Promise!PromiseInv => Promise!RateLimited
  BY DEF Promise!PromiseInv
<1> QED
  BY <1>1, PromiseStep, PromiseInit, PTL DEF Promise!Spec

\* Two alerts of one device, or two of the PUE, are at least a duration apart,
\* whatever fails between them: an alert uses its timer up, also when its
\* insert fails after storing the row (alert.go:107-124, 150-167).
THEOREM MonitorRateLimited == Spec => []Promise!RateLimited
BY MonitorKeepsPromise, PromiseRateLimited, PTL DEF PromiseKept
=============================================================================
