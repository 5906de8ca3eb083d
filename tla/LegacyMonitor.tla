--------------------------- MODULE LegacyMonitor ---------------------------
(***************************************************************************)
(* backend/internal/pue/pue.go and backend/internal/alert/alert.go, the    *)
(* monitor that alarm_notifier and pue_calculator replaced: two goroutines *)
(* that meet in the database alone.  The calculator sums the last power of *)
(* the cooling devices and stores the PUE; the alert manager looks at the  *)
(* last row of every device and at the last PUE, with one timer a device,  *)
(* whatever it exceeds.  An alert names the violation its last check found *)
(* (AlertType, which is left out): here a device's threshold is exceeded   *)
(* when any of its three is.                                               *)
(*                                                                         *)
(* A query answers, or fails; an insert that fails may have stored its     *)
(* row.  Of a table only the last row is read, so only that is kept.  A    *)
(* query that fails and one that finds nothing are told apart where the    *)
(* code does.  The robot's answer is logged and changes nothing.           *)
(***************************************************************************)
EXTENDS Integers, Sequences

CONSTANTS
    NDevices,         \* rows of the devices table
    Cooling,          \* the devices whose power counts
    Samples,          \* rows a device may report, [exceeds, power]
    PowerLimit,       \* the cooling power at which the PUE is 1.5
    DeviceDuration,   \* 10 minutes
    PUEDuration,      \* 30 minutes
    DataWindow,       \* 24 hours
    CalcInterval,     \* period of the calculator in periods of the checks
    MaxTime,          \* bound on the clock
    None              \* no row, no timer

Devices == 1 .. NDevices
PueKey == 0
Keys == Devices \cup {PueKey}
Duration(k) == IF k = PueKey THEN PUEDuration ELSE DeviceDuration

ViolationTypes == {"low_cop", "high_supply_temp", "high_power"}

ASSUME MonitorAssumption ==
    /\ NDevices \in Nat \ {0}
    /\ Cooling \subseteq Devices
    /\ Samples \subseteq [exceeds : SUBSET ViolationTypes, power : Nat]
    /\ {PowerLimit, DeviceDuration, PUEDuration, DataWindow, MaxTime} \subseteq Nat
    /\ CalcInterval \in Nat \ {0}
    /\ None \notin Nat

VARIABLES
    now,             \* the clock
    alertTick,       \* a tick waits in the alert manager's ticker
    calcTick,        \* a tick waits in the calculator's
    ctxDone,         \* the context has been cancelled
    latest,          \* last row of device_data of each device, and its time
    bucket,          \* power in the last row of device_data_5min
    highPUE,         \* whether the last row of pue_records exceeds 1.5
    alerts,          \* the alerts table
    calcPc,          \* where the calculator is
    calcDev,         \* its loop variable device
    coolingPower,    \* the sum so far
    pc,              \* where the alert manager is
    dev,             \* its loop variable d
    violationStart,  \* deviceViolationStart and pueViolationStart
    alert,           \* the alert being raised
    spell            \* history: first of the checks that all found k exceeded

clock == <<now, alertTick, calcTick, ctxDone>>
readings == <<latest, bucket>>
calculator == <<calcPc, calcDev, coolingPower>>
timers == <<violationStart, spell>>
manager == <<pc, dev, timers, alert>>
vars == <<clock, readings, highPUE, alerts, calculator, manager>>

Init ==
    /\ now = 0
    /\ alertTick = FALSE
    /\ calcTick = FALSE
    /\ ctxDone = FALSE
    /\ latest = [d \in Devices |-> None]
    /\ bucket = [d \in Devices |-> None]
    /\ highPUE = None
    /\ alerts = <<>>
    /\ calcPc = "devices"
    /\ calcDev = 1
    /\ coolingPower = 0
    /\ pc = "select"
    /\ dev = 1
    /\ violationStart = [k \in Keys |-> None]
    /\ alert = [key |-> PueKey, time |-> 0]
    /\ spell = [k \in Keys |-> None]

-----------------------------------------------------------------------------
(* Time, cancellation and the tables that others write.                    *)

Tick ==
    /\ now < MaxTime
    /\ now' = now + 1
    /\ alertTick' = TRUE
    /\ calcTick' = (calcTick \/ now' % CalcInterval = 0)
    /\ UNCHANGED <<ctxDone, readings, highPUE, alerts, calculator, manager>>

Cancel ==
    /\ ~ctxDone
    /\ ctxDone' = TRUE
    /\ UNCHANGED <<now, alertTick, calcTick, readings, highPUE, alerts,
                   calculator, manager>>

InsertDeviceData(d, s) ==
    /\ latest' = [latest EXCEPT ![d] = [exceeds |-> s.exceeds, power |-> s.power,
                                        at |-> now]]
    /\ UNCHANGED <<clock, bucket, highPUE, alerts, calculator, manager>>

\* PostgreSQL brings the view up to date in its own time.
RefreshBucket(d) ==
    /\ latest[d] # None
    /\ bucket' = [bucket EXCEPT ![d] = latest[d].power]
    /\ UNCHANGED <<clock, latest, highPUE, alerts, calculator, manager>>

-----------------------------------------------------------------------------
(* pue.go                                                                  *)

CalcTakeTick ==
    /\ calcPc = "select"
    /\ calcTick
    /\ calcTick' = FALSE
    /\ calcPc' = "devices"
    /\ UNCHANGED <<now, alertTick, ctxDone, readings, highPUE, alerts, calcDev,
                   coolingPower, manager>>

CalcGetAllDevices ==
    /\ calcPc = "devices"
    /\ \/ ~ctxDone /\ calcPc' = "sum"
       \/ calcPc' = "select"
    /\ calcDev' = 1
    /\ coolingPower' = 0
    /\ UNCHANGED <<clock, readings, highPUE, alerts, manager>>

AddPower ==
    /\ calcDev \in Cooling
    /\ ~ctxDone
    /\ bucket[calcDev] # None
    /\ coolingPower' = coolingPower + bucket[calcDev]

\* Another type of device, a query that failed, or no row in the last hour.
SkipPower == UNCHANGED coolingPower

SumPower ==
    /\ calcPc = "sum"
    /\ calcDev \in Devices
    /\ AddPower \/ SkipPower
    /\ calcDev' = calcDev + 1
    /\ UNCHANGED <<clock, readings, highPUE, alerts, calcPc, manager>>

InsertPUERecord ==
    /\ calcPc = "sum"
    /\ calcDev = NDevices + 1
    /\ highPUE' \in {highPUE, coolingPower > PowerLimit}
    /\ calcPc' = "select"
    /\ UNCHANGED <<clock, readings, alerts, calcDev, coolingPower, manager>>

CalcStop ==
    /\ calcPc = "select"
    /\ ctxDone
    /\ calcPc' = "stopped"
    /\ UNCHANGED <<clock, readings, highPUE, alerts, calcDev, coolingPower,
                   manager>>

-----------------------------------------------------------------------------
(* alert.go: the timers, and the history variable that observes the checks.*)

NextDevice ==
    IF dev < NDevices THEN dev' = dev + 1 /\ pc' = "device"
    ELSE dev' = dev /\ pc' = "pue"

\* The check after that of k.
Continue(k) == IF k = PueKey THEN pc' = "select" /\ UNCHANGED dev ELSE NextDevice

\* A timer is dropped when its check finds the threshold respected, and when
\* its alert has been dealt with; LeaveRunning does not.
LeaveRunning(k) == violationStart
DropCalm(k) == [violationStart EXCEPT ![k] = None]
UseUp(k) == [violationStart EXCEPT ![k] = None]

Calm(k) ==
    /\ violationStart' = DropCalm(k)
    /\ spell' = [spell EXCEPT ![k] = None]
    /\ Continue(k)
    /\ UNCHANGED alert

Exceeded(k) ==
    /\ spell' = [spell EXCEPT ![k] = IF spell[k] = None THEN now ELSE spell[k]]
    /\ \/ /\ violationStart[k] = None
          /\ violationStart' = [violationStart EXCEPT ![k] = now]
          /\ Continue(k)
          /\ UNCHANGED alert
       \/ /\ violationStart[k] # None
          /\ now - violationStart[k] < Duration(k)
          /\ Continue(k)
          /\ UNCHANGED <<violationStart, alert>>
       \/ /\ violationStart[k] # None
          /\ now - violationStart[k] >= Duration(k)
          /\ alert' = [key |-> k, time |-> now]
          /\ pc' = "insert"
          /\ UNCHANGED <<violationStart, dev>>

-----------------------------------------------------------------------------
(* alert.go: the loop.                                                     *)

TakeTick ==
    /\ pc = "select"
    /\ alertTick
    /\ alertTick' = FALSE
    /\ pc' = "devices"
    /\ UNCHANGED <<now, calcTick, ctxDone, readings, highPUE, alerts, calculator,
                   dev, timers, alert>>

GetAllDevices ==
    /\ pc = "devices"
    /\ dev' = 1
    /\ \/ ~ctxDone /\ pc' = "device"
       \/ pc' = "pue"
    /\ UNCHANGED <<clock, readings, highPUE, alerts, calculator, timers, alert>>

\* The query failed: the timer keeps running.
SkipDevice ==
    /\ pc = "device"
    /\ NextDevice
    /\ UNCHANGED <<clock, readings, highPUE, alerts, calculator, timers, alert>>

HasData == latest[dev] # None /\ now - latest[dev].at <= DataWindow

\* Silence for a day counts as calm.
CheckDevice ==
    /\ pc = "device"
    /\ ~ctxDone
    /\ IF HasData /\ latest[dev].exceeds # {} THEN Exceeded(dev) ELSE Calm(dev)
    /\ UNCHANGED <<clock, readings, highPUE, alerts, calculator>>

\* The query failed or found no PUE: the timer keeps running.
SkipPUE ==
    /\ pc = "pue"
    /\ pc' = "select"
    /\ UNCHANGED <<clock, readings, highPUE, alerts, calculator, dev, timers,
                   alert>>

CheckPUE ==
    /\ pc = "pue"
    /\ ~ctxDone
    /\ highPUE # None
    /\ IF highPUE THEN Exceeded(PueKey) ELSE Calm(PueKey)
    /\ UNCHANGED <<clock, readings, highPUE, alerts, calculator>>

InsertAlert ==
    /\ pc = "insert"
    /\ ~ctxDone
    /\ alerts' = Append(alerts, alert)
    /\ pc' = "post"
    /\ UNCHANGED <<clock, readings, highPUE, calculator, dev, timers, alert>>

\* No message is sent, and the timer is dropped all the same.
InsertFails ==
    /\ pc = "insert"
    /\ alerts' \in {alerts, Append(alerts, alert)}
    /\ violationStart' = UseUp(alert.key)
    /\ Continue(alert.key)
    /\ UNCHANGED <<clock, readings, highPUE, calculator, alert, spell>>

\* The post to the robot returned, whatever it answered.
SendDingTalk ==
    /\ pc = "post"
    /\ violationStart' = UseUp(alert.key)
    /\ Continue(alert.key)
    /\ UNCHANGED <<clock, readings, highPUE, alerts, calculator, alert, spell>>

Stop ==
    /\ pc = "select"
    /\ ctxDone
    /\ pc' = "stopped"
    /\ UNCHANGED <<clock, readings, highPUE, alerts, calculator, dev, timers,
                   alert>>

Next ==
    \/ Tick \/ Cancel
    \/ \E d \in Devices, s \in Samples : InsertDeviceData(d, s)
    \/ \E d \in Devices : RefreshBucket(d)
    \/ CalcTakeTick \/ CalcGetAllDevices \/ SumPower \/ InsertPUERecord \/ CalcStop
    \/ TakeTick \/ GetAllDevices \/ SkipDevice \/ CheckDevice
    \/ SkipPUE \/ CheckPUE
    \/ InsertAlert \/ InsertFails \/ SendDingTalk \/ Stop

Spec == Init /\ [][Next]_vars

-----------------------------------------------------------------------------
\* An alert says "for 10 minutes" or "for 30 minutes" (alert.go:113, 156): all
\* the checks that got an answer for so long found the PUE's threshold, or some
\* threshold of the device, not always the same, exceeded, whatever the
\* calculator, the view and the failing queries did between them.
AlertIsUnbroken ==
    pc = "insert" =>
        /\ spell[alert.key] # None
        /\ alert.time - spell[alert.key] >= Duration(alert.key)

Since ==
    [k \in Keys |-> IF pc = "post" /\ alert.key = k THEN None
                    ELSE violationStart[k]]

Promise == INSTANCE AlarmPromise
           WITH MinAge <- [k \in Keys |-> Duration(k)],
                since <- Since, log <- alerts

\* The alert manager, its calculator and the database between them keep the
\* same promise as the notifier that replaced them: an alert comes from one
\* timer, old enough, and uses it up, also when the insert fails or reports a
\* failure after storing its row (alert.go:107-124, 150-167).
PromiseKept == Promise!Spec
=============================================================================
