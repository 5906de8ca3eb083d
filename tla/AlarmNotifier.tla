--------------------------- MODULE AlarmNotifier ---------------------------
(***************************************************************************)
(* backend/internal/alarm_notifier/notifier.go: three goroutines share the *)
(* latest readings and the violation timers.  Two listeners overwrite the  *)
(* latest reading of a device or the latest PUE; the check loop wakes at   *)
(* every tick, starts a timer for each threshold a reading exceeds, and    *)
(* raises an alert once the timer is old enough: a row in the database, an *)
(* event on the output channel, a message to the DingTalk robot.           *)
(*                                                                         *)
(* A reading is the set of thresholds it exceeds.  The database may refuse *)
(* any call, the robot may answer an error or no answer may arrive, a call *)
(* may never return, and the process may die and be started again at any   *)
(* step.                                                                   *)
(***************************************************************************)
EXTENDS Integers, Sequences, FiniteSets

CONSTANTS
    NDevices,         \* rows of the devices table
    Samples,          \* readings a device may report
    PUEReadings,      \* the PUEs computed, TRUE above Level2PUEThreshold
    Level1Duration,   \* how long a device must exceed a threshold
    Level2Duration,   \* how long the PUE must exceed its threshold
    CheckInterval,    \* period of the check loop's ticker
    Webhook,          \* whether a DingTalk webhook is configured
    RetryCount,       \* DingtalkRetryCount
    OutCap,           \* capacity of the output channel (64)
    MaxTime,          \* bound on the clock
    MaxRestarts,      \* bound on the crashes
    None              \* no reading, no timer

Devices == 1 .. NDevices
ViolationTypes == {"low_cop", "high_supply_temp", "high_power"}
Rank == [low_cop |-> 1, high_supply_temp |-> 2, high_power |-> 3]

ASSUME CountAssumption ==
    /\ NDevices \in Nat \ {0}
    /\ RetryCount \in Nat
    /\ OutCap \in Nat
    /\ MaxTime \in Nat
    /\ MaxRestarts \in Nat
ASSUME ReadingAssumption ==
    /\ Samples \subseteq SUBSET ViolationTypes
    /\ PUEReadings \subseteq BOOLEAN
    /\ Webhook \in BOOLEAN
ASSUME DurationAssumption ==
    /\ Level1Duration \in Nat
    /\ Level2Duration \in Nat
    /\ CheckInterval \in Nat \ {0}
ASSUME NoneAssumption ==
    /\ None \notin Nat
    /\ \A s \in SUBSET ViolationTypes : s # None
    /\ None \notin [from : Nat, upto : Nat, tried : BOOLEAN]

PueKey == <<0, "high_pue">>
Keys == (Devices \X ViolationTypes) \cup {PueKey}
Duration(k) == IF k = PueKey THEN Level2Duration ELSE Level1Duration

Listeners == {"device", "pue"}
Goroutines == Listeners \cup {"check"}

VARIABLES
    now,               \* the clock
    tick,              \* a tick waits in the ticker's channel (capacity 1)
    ctxDone,           \* the context has been cancelled
    running,           \* goroutines that have not returned
    latestDeviceData,  \* the last reading received of each device
    latestPUE,         \* the last PUE received
    violationStart,    \* deviceViolationStart and pueViolationStart
    pc,                \* where the check loop is
    hung,              \* the call it is in does not return of itself
    dev,               \* its loop variable d
    active,            \* activeKeys: the thresholds d's snapshot exceeds
    todo,              \* violations not evaluated yet
    alert,             \* the alert being raised
    attempt,           \* iteration of the retry loop
    alerts,            \* the alerts table; accepted counts the robot's receipts
    outCh,             \* AlertEvents not yet consumed
    spell,             \* history: unbroken run of checks that found k exceeded
    refused,           \* history: spells during which an insert reported an error
    restarts           \* number of restarts so far

clock == <<now, tick, ctxDone, restarts>>
inputs == <<latestDeviceData, latestPUE>>
timers == <<violationStart, spell, refused>>
cursor == <<dev, active, todo>>
raising == <<alert, attempt>>
volatile == <<running, inputs, timers, pc, hung, cursor, raising, outCh>>
vars == <<clock, volatile, alerts>>

NoAlert == [key |-> PueKey, time |-> 0, id |-> 0]

Init ==
    /\ now = 0
    /\ tick = FALSE
    /\ ctxDone = FALSE
    /\ running = Goroutines
    /\ latestDeviceData = [d \in Devices |-> None]
    /\ latestPUE = FALSE
    /\ violationStart = [k \in Keys |-> None]
    /\ pc = "select"
    /\ dev = 1
    /\ active = {}
    /\ todo = {}
    /\ alert = NoAlert
    /\ attempt = 0
    /\ alerts = <<>>
    /\ outCh = <<>>
    /\ spell = [k \in Keys |-> None]
    /\ refused = {}
    /\ hung = FALSE
    /\ restarts = 0

-----------------------------------------------------------------------------
(* The environment: time, the listeners' inputs, cancellation.             *)

Tick ==
    /\ now < MaxTime
    /\ now' = now + 1
    /\ tick' = (tick \/ (now + 1) % CheckInterval = 0)
    /\ UNCHANGED <<ctxDone, volatile, alerts, restarts>>

ReceiveDevice(d, s) ==
    /\ "device" \in running
    /\ latestDeviceData' = [latestDeviceData EXCEPT ![d] = s]
    /\ UNCHANGED <<clock, running, latestPUE, timers, pc, hung, cursor,
                   raising, alerts, outCh>>

ReceivePUE(high) ==
    /\ "pue" \in running
    /\ latestPUE' = high
    /\ UNCHANGED <<clock, running, latestDeviceData, timers, pc, hung,
                   cursor, raising, alerts, outCh>>

Cancel ==
    /\ ~ctxDone
    /\ ctxDone' = TRUE
    /\ UNCHANGED <<now, tick, volatile, alerts, restarts>>

StopListener(g) ==
    /\ ctxDone
    /\ g \in running
    /\ running' = running \ {g}
    /\ UNCHANGED <<clock, inputs, timers, pc, hung, cursor, raising, alerts,
                   outCh>>

-----------------------------------------------------------------------------
(* The timers, and the history that observes the evaluations.              *)

Arm(k) == [violationStart EXCEPT ![k] = now]

\* Keep(k) leaves the timer of an alert that has been raised running.
Keep(k) == violationStart
Forget(k) == [violationStart EXCEPT ![k] = None]

\* The timers of d's thresholds that its snapshot does not exceed are dropped;
\* ForgetNone leaves them running.
ForgetNone(d, exceeded) == violationStart
ForgetCalm(d, exceeded) ==
    [k \in Keys |-> IF k[1] = d /\ k[2] \notin exceeded
                    THEN None ELSE violationStart[k]]

\* The duration itself is old enough; not so for TooYoung.
TooYoung(k) == now - violationStart[k] <= Duration(k)
Young(k) == now - violationStart[k] < Duration(k)

Longer(run, raised) ==
    IF run = None THEN [from |-> now, upto |-> now, tried |-> raised]
    ELSE [from |-> run.from, upto |-> now, tried |-> (run.tried \/ raised)]

SeenExceeded(k, raised) == [spell EXCEPT ![k] = Longer(spell[k], raised)]

SeenCalm(d, exceeded) ==
    /\ spell' = [k \in Keys |-> IF k[1] = d /\ k[2] \notin exceeded
                                THEN None ELSE spell[k]]
    /\ refused' = {k \in refused : ~(k[1] = d /\ k[2] \notin exceeded)}

\* An exceeded threshold: start its timer, wait, or raise the alert.
Evaluate(k, next) ==
    \/ /\ violationStart[k] = None
       /\ violationStart' = Arm(k)
       /\ spell' = SeenExceeded(k, FALSE)
       /\ pc' = next
       /\ UNCHANGED alert
    \/ /\ violationStart[k] # None
       /\ Young(k)
       /\ spell' = SeenExceeded(k, FALSE)
       /\ pc' = next
       /\ UNCHANGED <<violationStart, alert>>
    \/ /\ violationStart[k] # None
       /\ ~Young(k)
       /\ alert' = [key |-> k, time |-> now, id |-> 0]
       /\ spell' = SeenExceeded(k, TRUE)
       /\ pc' = "insert"
       /\ UNCHANGED violationStart

-----------------------------------------------------------------------------
(* The check loop.  An event on outCh holds the pointer &d.ID: until the   *)
(* pass ends it reads as whatever device the loop variable d is at.        *)

MoveAlias(d) ==
    [i \in DOMAIN outCh |->
        IF outCh[i].live THEN [outCh[i] EXCEPT !.dev = d] ELSE outCh[i]]

SettleAlias == [i \in DOMAIN outCh |-> [outCh[i] EXCEPT !.live = FALSE]]

\* A call under the loop's context returns when that is cancelled, even if the
\* database never answers; OnlyAnswered is a call under context.Background().
OnlyAnswered == ~hung
Returns == ~hung \/ ctxDone

\* The database or the robot stops answering, and the connection stays open:
\* neither the pool nor http.Post's default client sets a deadline.
Hang ==
    /\ pc \in {"devices", "insert", "post", "mark"}
    /\ ~hung
    /\ hung' = TRUE
    /\ UNCHANGED <<clock, running, inputs, timers, pc, cursor, raising, alerts,
                   outCh>>

TakeTick ==
    /\ pc = "select"
    /\ "check" \in running
    /\ tick
    /\ tick' = FALSE
    /\ pc' = "devices"
    /\ UNCHANGED <<now, ctxDone, restarts, running, inputs, timers, hung, cursor,
                   raising, alerts, outCh>>

\* A break that leaves the select and not the loop.
BreakSelect ==
    /\ pc = "select"
    /\ ctxDone
    /\ "check" \in running
    /\ UNCHANGED vars

ExitLoop ==
    /\ pc = "select"
    /\ ctxDone
    /\ "check" \in running
    /\ running' = running \ {"check"}
    /\ UNCHANGED <<clock, inputs, timers, pc, hung, cursor, raising, alerts,
                   outCh>>

GetAllDevices ==
    /\ pc = "devices"
    /\ \/ /\ ~ctxDone
          /\ ~hung
          /\ dev' = 1
          /\ pc' = "device"
       \/ /\ Returns
          /\ pc' = "pue"
          /\ UNCHANGED dev
    /\ hung' = FALSE
    /\ UNCHANGED <<clock, running, inputs, timers, active, todo, raising,
                   alerts, outCh>>

\* The next device of the pass, or the end of the pass.
Advance ==
    IF dev < NDevices
    THEN /\ dev' = dev + 1
         /\ outCh' = MoveAlias(dev + 1)
         /\ pc' = "device"
    ELSE /\ outCh' = SettleAlias
         /\ pc' = "pue"
         /\ UNCHANGED dev

SkipDevice ==
    /\ pc = "device"
    /\ latestDeviceData[dev] = None
    /\ Advance
    /\ UNCHANGED <<clock, running, inputs, timers, hung, active, todo, raising,
                   alerts>>

SnapshotDevice ==
    /\ pc = "device"
    /\ latestDeviceData[dev] # None
    /\ active' = latestDeviceData[dev]
    /\ todo' = latestDeviceData[dev]
    /\ pc' = "violation"
    /\ UNCHANGED <<clock, running, inputs, timers, hung, dev, raising, alerts,
                   outCh>>

CheckViolation ==
    /\ pc = "violation"
    /\ \E t \in todo :
          /\ \A u \in todo : Rank[t] <= Rank[u]
          /\ todo' = todo \ {t}
          /\ Evaluate(<<dev, t>>, "violation")
    /\ UNCHANGED <<clock, running, inputs, refused, hung, dev, active, attempt,
                   alerts, outCh>>

ClearInactive ==
    /\ pc = "violation"
    /\ todo = {}
    /\ violationStart' = ForgetCalm(dev, active)
    /\ SeenCalm(dev, active)
    /\ active' = {}
    /\ Advance
    /\ UNCHANGED <<clock, running, inputs, hung, todo, raising, alerts>>

CheckPUE ==
    /\ pc = "pue"
    /\ IF latestPUE
       THEN Evaluate(PueKey, "select") /\ UNCHANGED refused
       ELSE /\ violationStart' = Forget(PueKey)
            /\ spell' = [spell EXCEPT ![PueKey] = None]
            /\ refused' = refused \ {PueKey}
            /\ pc' = "select"
            /\ UNCHANGED alert
    /\ UNCHANGED <<clock, running, inputs, hung, cursor, attempt, alerts, outCh>>

-----------------------------------------------------------------------------
(* Raising an alert: the row, the event, the robot, the timer.             *)

Row == [key |-> alert.key, time |-> alert.time, sent |-> FALSE, accepted |-> 0]

\* A send that looks for room and takes one place too many.
OfferOneMore(id) ==
    IF Len(outCh) <= OutCap
    THEN Append(outCh, [id |-> id, dev |-> alert.key[1],
                        live |-> alert.key # PueKey])
    ELSE outCh

\* The non-blocking send: a full channel drops the event.
Offer(id) ==
    IF Len(outCh) < OutCap
    THEN Append(outCh, [id |-> id, dev |-> alert.key[1],
                        live |-> alert.key # PueKey])
    ELSE outCh

InsertAlert ==
    /\ pc = "insert"
    /\ ~ctxDone
    /\ ~hung
    /\ alerts' = Append(alerts, Row)
    /\ alert' = [alert EXCEPT !.id = Len(alerts) + 1]
    /\ outCh' = Offer(Len(alerts) + 1)
    /\ pc' = IF Webhook THEN "post" ELSE "rearm"
    /\ attempt' = 0
    /\ UNCHANGED <<clock, running, inputs, timers, hung, cursor>>

\* The insert reports an error; the row may have been stored all the same.
InsertFails ==
    /\ pc = "insert"
    /\ Returns
    /\ \/ UNCHANGED alerts
       \/ alerts' = Append(alerts, Row)
    /\ refused' = refused \cup {alert.key}
    /\ hung' = FALSE
    /\ pc' = "rearm"
    /\ UNCHANGED <<clock, running, inputs, violationStart, spell, cursor,
                   raising, outCh>>

Accept(id) == [alerts EXCEPT ![id].accepted = @ + 1]

PostAccepted ==
    /\ pc = "post"
    /\ ~hung
    /\ alerts' = Accept(alert.id)
    /\ pc' = "mark"
    /\ UNCHANGED <<clock, running, inputs, timers, hung, cursor, raising, outCh>>

\* Another status, or a transport error: the robot may have accepted it.
\* ForeverRetry never gives up; GiveUpAsSent marks the alert all the same.
ForeverRetry == "post"
GiveUpAsSent == IF attempt < RetryCount THEN "post" ELSE "mark"
AfterFailure == IF attempt < RetryCount THEN "post" ELSE "rearm"

PostFails ==
    /\ pc = "post"
    /\ ~hung
    /\ \/ UNCHANGED alerts
       \/ alerts' = Accept(alert.id)
    /\ pc' = AfterFailure
    /\ attempt' = IF attempt < RetryCount THEN attempt + 1 ELSE attempt
    /\ UNCHANGED <<clock, running, inputs, timers, hung, cursor, alert, outCh>>

Mark(id) == [alerts EXCEPT ![id].sent = TRUE]

MarkDingTalkSent ==
    /\ pc = "mark"
    /\ ~hung
    /\ \/ alerts' = Mark(alert.id)
       \/ UNCHANGED alerts
    /\ pc' = "rearm"
    /\ UNCHANGED <<clock, running, inputs, timers, hung, cursor, raising, outCh>>

Rearm ==
    /\ pc = "rearm"
    /\ violationStart' = Forget(alert.key)
    /\ pc' = IF alert.key = PueKey THEN "select" ELSE "violation"
    /\ alert' = NoAlert
    /\ attempt' = 0
    /\ UNCHANGED <<clock, running, inputs, spell, refused, hung, cursor, alerts,
                   outCh>>

-----------------------------------------------------------------------------
\* cmd/main.go: the forwarder takes an event and broadcasts it.
Forward ==
    /\ outCh # <<>>
    /\ outCh' = Tail(outCh)
    /\ UNCHANGED <<clock, running, inputs, timers, pc, hung, cursor, raising,
                   alerts>>

\* The process ends, wherever it is, and is started again.
Restart ==
    /\ restarts < MaxRestarts
    /\ restarts' = restarts + 1
    /\ tick' = FALSE
    /\ ctxDone' = FALSE
    /\ running' = Goroutines
    /\ latestDeviceData' = [d \in Devices |-> None]
    /\ latestPUE' = FALSE
    /\ violationStart' = [k \in Keys |-> None]
    /\ pc' = "select"
    /\ dev' = 1
    /\ active' = {}
    /\ todo' = {}
    /\ alert' = NoAlert
    /\ attempt' = 0
    /\ outCh' = <<>>
    /\ spell' = [k \in Keys |-> None]
    /\ refused' = {}
    /\ hung' = FALSE
    /\ UNCHANGED <<now, alerts>>

Pass ==
    \/ TakeTick
    \/ GetAllDevices
    \/ SkipDevice
    \/ SnapshotDevice
    \/ CheckViolation
    \/ ClearInactive
    \/ CheckPUE
    \/ InsertAlert
    \/ InsertFails
    \/ PostAccepted
    \/ PostFails
    \/ MarkDingTalkSent
    \/ Rearm

Next ==
    \/ Tick
    \/ \E d \in Devices, s \in Samples : ReceiveDevice(d, s)
    \/ \E high \in PUEReadings : ReceivePUE(high)
    \/ Cancel
    \/ \E g \in Listeners : StopListener(g)
    \/ Pass
    \/ Hang
    \/ ExitLoop
    \/ Forward
    \/ Restart

Spec == Init /\ [][Next]_vars

(***************************************************************************)
(* The Go scheduler runs every goroutine that can run.  A call that has not*)
(* hung ends, with or without an error; one that has ends only if it is    *)
(* made under the loop's context and that is cancelled.  A select with two *)
(* ready cases picks each of them again and again: strong fairness.        *)
(***************************************************************************)
FairSpec ==
    /\ Spec
    /\ WF_vars(Pass)
    /\ SF_vars(ExitLoop)
    /\ \A g \in Listeners : WF_vars(StopListener(g))

-----------------------------------------------------------------------------
Alerts == [key : Keys, time : Nat, id : Nat]
Rows == [key : Keys, time : Nat, sent : BOOLEAN, accepted : Nat]
Events == [id : Nat, dev : 0 .. NDevices, live : BOOLEAN]
Spells == [from : Nat, upto : Nat, tried : BOOLEAN]

\* Every variable has the type the code gives it, the channel keeps its bound,
\* and the robot is only told of an alert that has a row.
TypeOK ==
    /\ now \in Nat
    /\ tick \in BOOLEAN
    /\ ctxDone \in BOOLEAN
    /\ running \subseteq Goroutines
    /\ latestDeviceData \in [Devices -> {None} \cup SUBSET ViolationTypes]
    /\ latestPUE \in BOOLEAN
    /\ violationStart \in [Keys -> {None} \cup Nat]
    /\ pc \in {"select", "devices", "device", "violation", "pue", "insert",
               "post", "mark", "rearm"}
    /\ dev \in Devices
    /\ active \subseteq ViolationTypes
    /\ todo \subseteq active
    /\ alert \in Alerts
    /\ pc \in {"post", "mark"} => alert.id \in 1 .. Len(alerts)
    /\ attempt \in 0 .. RetryCount
    /\ alerts \in Seq(Rows)
    /\ outCh \in Seq(Events)
    /\ Len(outCh) <= OutCap
    /\ spell \in [Keys -> {None} \cup Spells]
    /\ refused \subseteq Keys
    /\ hung \in BOOLEAN
    /\ restarts \in Nat

\* An alert is recorded only when every check for the whole duration found
\* its threshold exceeded: one calm check in between resets the timer
\* (notifier.go:185, 216-224 for devices, 244, 273-277 for the PUE).
NoFalseAlarm ==
    pc = "insert" =>
        /\ spell[alert.key] # None
        /\ alert.time - spell[alert.key].from >= Duration(alert.key)

\* The row of an alert for k's present spell, raised after the whole duration.
Recorded(k) ==
    \E i \in 1 .. Len(alerts) :
        /\ alerts[i].key = k
        /\ alerts[i].time - spell[k].from >= Duration(k)

Inserting(k) == pc = "insert" /\ alert.key = k

\* A threshold that the checks find exceeded for the whole duration has its row
\* in the alerts table, unless the insert reported an error: then the timer is
\* dropped and nothing is alerted until a further duration has passed
\* (notifier.go:199-213).  No pass, other device or failed post loses one.
NoMissedAlarm ==
    \A k \in Keys :
        (spell[k] # None /\ spell[k].upto - spell[k].from >= Duration(k))
            => Inserting(k) \/ k \in refused \/ Recorded(k)

\* A row is marked dingtalk_sent only after the robot accepted its message
\* (notifier.go:317-323), through every retry, failure and crash.
SentWasAccepted ==
    \A i \in 1 .. Len(alerts) : alerts[i].sent => alerts[i].accepted > 0

\* The retry loop gives the robot one alert at most RetryCount + 1 times, and
\* never again after a later pass or a restart (notifier.go:307-326).
RetriesBounded ==
    \A i \in 1 .. Len(alerts) : alerts[i].accepted <= RetryCount + 1

\* The event that the forwarder broadcasts names the device of the alert that
\* was recorded: the row (notifier.go:192) and the message (notifier.go:194)
\* do.
BroadcastNamesDevice ==
    [][Forward => Head(outCh).dev = alerts[Head(outCh).id].key[1]]_vars

\* The check loop is in a call that never returns.  A cancellation ends such a
\* call unless it is http.Post with the default client (notifier.go:311) or the
\* UPDATE under context.Background() (317-320).
Stuck == hung /\ (ctxDone => pc \in {"post", "mark"})

\* A pass that started comes to its end: no failing call keeps the check loop
\* from the next tick (notifier.go:103-105); only one that never returns does.
PassCompletes == pc # "select" ~> (pc = "select" \/ Stuck)

\* After the context is cancelled every goroutine returns, or the process is
\* replaced (notifier.go:60-61, 78-79, 99-100); a post or an UPDATE that never
\* returns is all that keeps the check loop, and only that, from it.
ShutdownCompletes ==
    ctxDone ~> \/ running = {}
               \/ running = {"check"} /\ Stuck
               \/ ~ctxDone

-----------------------------------------------------------------------------
(* The abstract notifier.  A timer counts as used up from the moment its   *)
(* alert is recorded, although the code deletes it only after the push.    *)

Pushing(k) == pc \in {"post", "mark", "rearm"} /\ alert.key = k
Since == [k \in Keys |-> IF Pushing(k) THEN None ELSE violationStart[k]]
Log == [i \in DOMAIN alerts |->
           [key |-> alerts[i].key, time |-> alerts[i].time]]

Promise == INSTANCE AlarmPromise
           WITH MinAge <- [k \in Keys |-> Duration(k)],
                since <- Since, log <- Log

\* The goroutine that blocks in the database and in the webhook, the retries,
\* the failures and the restarts implement the promise of AlarmPromise: an
\* alert is recorded from one timer, old enough, that is then used up.
PromiseKept == Promise!Spec

\* Two alerts of one threshold are at least a duration apart, whatever
\* database call or webhook post failed in between and across restarts:
\* raising an alert drops the timer it was raised from (notifier.go:211-213).
RateLimited ==
    \A i, j \in 1 .. Len(alerts) :
        (i < j /\ alerts[i].key = alerts[j].key)
            => alerts[j].time - alerts[i].time >= Duration(alerts[i].key)

=============================================================================
