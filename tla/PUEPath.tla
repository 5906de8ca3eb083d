------------------------------ MODULE PUEPath ------------------------------
(***************************************************************************)
(* From power to alarm: backend/internal/pue_calculator/calculator.go, its *)
(* output channel with the three goroutines that receive from it           *)
(* (backend/cmd/main.go:125-152), and the PUE threshold of the notifier    *)
(* (backend/internal/alarm_notifier/notifier.go:228-278).                  *)
(*                                                                         *)
(* An event on the channel is the cooling power it was calculated from;    *)
(* the other terms of the PUE are constants.  What the optimizer and the   *)
(* forwarder take is lost to the notifier, and nothing else comes of it:   *)
(* lastPUE of the optimizer is read by nobody.                             *)
(***************************************************************************)
EXTENDS Integers, Sequences, FiniteSetsExt

CONSTANTS
    Devices,         \* devices whose readings reach the calculator
    CoolingDevices,  \* those of the four cooling types
    Powers,          \* the power a device may show
    ITPower,         \* it_power_kw
    OtherPower,      \* distribution loss and other infrastructure
    PUEThreshold,    \* level2_pue_threshold, in percent
    CalculationInterval, CheckInterval,
    Level2Duration,  \* level2_violation_duration
    OutCap,          \* capacity of the output channel (64)
    MaxTime,         \* bound on the clock
    None             \* no reading, no time

ASSUME PUEAssumption ==
    /\ Devices \subseteq Nat /\ CoolingDevices \subseteq Devices
    /\ IsFiniteSet(Devices)
    /\ Powers \subseteq Nat /\ None \notin Nat
    /\ {ITPower, OtherPower, PUEThreshold} \subseteq Nat
    /\ {CalculationInterval, CheckInterval} \subseteq Nat \ {0}
    /\ {Level2Duration, OutCap, MaxTime} \subseteq Nat

VARIABLES
    now,               \* the clock
    calcTick,          \* a tick waits in the calculator's ticker
    checkTick,         \* a tick waits in the notifier's ticker
    ctxDone,           \* the context has been cancelled
    listening,         \* the calculator's inputListener runs
    devicePowerCache,  \* the latest power of each device
    pc,                \* where calculatorLoop is
    powerSnapshot,     \* the cache as calculate copied it
    todo,              \* devices the sum has not reached
    coolingPower,      \* the sum so far
    outCh,             \* PUEs in the channel
    latestPUE,         \* what the notifier holds, None before the first
    pueViolationStart, \* its timer
    raising,           \* an alert is being inserted
    moments,           \* sums the cache amounted to since calculate copied it
    calmSince          \* when the normal PUEs began that were offered last

clock == <<now, calcTick, checkTick, ctxDone>>
calc == <<pc, powerSnapshot, todo, coolingPower>>
notifier == <<latestPUE, pueViolationStart, raising>>
vars == <<clock, listening, devicePowerCache, calc, outCh, notifier, moments,
          calmSince>>

Init ==
    /\ now = 0
    /\ calcTick = FALSE
    /\ checkTick = FALSE
    /\ ctxDone = FALSE
    /\ listening = TRUE
    /\ devicePowerCache = [d \in Devices |-> None]
    /\ pc = "select"
    /\ powerSnapshot = [d \in Devices |-> None]
    /\ todo = {}
    /\ coolingPower = 0
    /\ outCh = <<>>
    /\ latestPUE = None
    /\ pueViolationStart = None
    /\ raising = FALSE
    /\ moments = {}
    /\ calmSince = None

Power(cache, d) == IF cache[d] = None THEN 0 ELSE cache[d]
CachedPower(cache) == MapThenSumSet(LAMBDA d : Power(cache, d), CoolingDevices)

\* pue > Level2PUEThreshold, multiplied out.
High(power) == 100 * (ITPower + power + OtherPower) > PUEThreshold * ITPower

-----------------------------------------------------------------------------
(* The environment.                                                        *)

Tick ==
    /\ now < MaxTime
    /\ now' = now + 1
    /\ calcTick' = (calcTick \/ (now + 1) % CalculationInterval = 0)
    /\ checkTick' = (checkTick \/ (now + 1) % CheckInterval = 0)
    /\ UNCHANGED <<ctxDone, listening, devicePowerCache, calc, outCh, notifier,
                   moments, calmSince>>

Cancel ==
    /\ ~ctxDone
    /\ ctxDone' = TRUE
    /\ UNCHANGED <<now, calcTick, checkTick, listening, devicePowerCache, calc,
                   outCh, notifier, moments, calmSince>>

-----------------------------------------------------------------------------
(* The calculator: inputListener and calculatorLoop.                       *)

ReceiveReading(d, p) ==
    /\ listening
    /\ devicePowerCache' = [devicePowerCache EXCEPT ![d] = p]
    /\ moments' = IF moments = {} THEN {}
                  ELSE moments \cup {CachedPower(devicePowerCache')}
    /\ UNCHANGED <<clock, listening, calc, outCh, notifier, calmSince>>

StopListening ==
    /\ ctxDone
    /\ listening
    /\ listening' = FALSE
    /\ UNCHANGED <<clock, devicePowerCache, calc, outCh, notifier, moments,
                   calmSince>>

\* Without IT power there is nothing to divide by.
StartCalculation ==
    /\ pc = "select"
    /\ calcTick
    /\ calcTick' = FALSE
    /\ IF ITPower > 0
       THEN /\ powerSnapshot' = devicePowerCache
            /\ moments' = {CachedPower(devicePowerCache)}
            /\ pc' = "devices"
       ELSE UNCHANGED <<powerSnapshot, moments, pc>>
    /\ UNCHANGED <<now, checkTick, ctxDone, listening, devicePowerCache, todo,
                   coolingPower, outCh, notifier, calmSince>>

\* calculate returns and its locals are gone.
EndCalculation ==
    /\ pc' = "select"
    /\ powerSnapshot' = [d \in Devices |-> None]
    /\ todo' = {}
    /\ coolingPower' = 0
    /\ moments' = {}

GetAllDevices ==
    /\ pc = "devices"
    /\ ~ctxDone
    /\ todo' = CoolingDevices
    /\ coolingPower' = 0
    /\ pc' = "sum"
    /\ UNCHANGED <<clock, listening, devicePowerCache, powerSnapshot, outCh,
                   notifier, moments, calmSince>>

GetAllDevicesFails ==
    /\ pc = "devices"
    /\ EndCalculation
    /\ UNCHANGED <<clock, listening, devicePowerCache, outCh, notifier, calmSince>>

\* The sum is taken from the copy, not from the cache.
FromCache(d) == Power(devicePowerCache, d)
FromSnapshot(d) == Power(powerSnapshot, d)

AddPower ==
    /\ pc = "sum"
    /\ todo # {}
    /\ LET d == Min(todo)
       IN  /\ coolingPower' = coolingPower + FromSnapshot(d)
           /\ todo' = todo \ {d}
    /\ UNCHANGED <<clock, listening, devicePowerCache, pc, powerSnapshot, outCh,
                   notifier, moments, calmSince>>

Calculated ==
    /\ pc = "sum"
    /\ todo = {}
    /\ pc' = "insert"
    /\ UNCHANGED <<clock, listening, devicePowerCache, powerSnapshot, todo,
                   coolingPower, outCh, notifier, moments, calmSince>>

RoomForOneMore == Len(outCh) <= OutCap
HasRoom == Len(outCh) < OutCap

\* A send that waits for room, and one that does not.
BlockingOffer == HasRoom
NonBlockingOffer == TRUE

\* The record is stored or not, and the event offered all the same.
InsertAndPublish ==
    /\ pc = "insert"
    /\ NonBlockingOffer
    /\ outCh' = IF HasRoom THEN Append(outCh, coolingPower) ELSE outCh
    /\ calmSince' = CASE High(coolingPower) -> None
                      [] ~High(coolingPower) /\ calmSince = None -> now
                      [] OTHER -> calmSince
    /\ EndCalculation
    /\ UNCHANGED <<clock, listening, devicePowerCache, notifier>>

StopCalculating ==
    /\ ctxDone
    /\ pc = "select"
    /\ pc' = "stopped"
    /\ UNCHANGED <<clock, listening, devicePowerCache, powerSnapshot, todo,
                   coolingPower, outCh, notifier, moments, calmSince>>

Calculate ==
    \/ GetAllDevices \/ GetAllDevicesFails
    \/ AddPower \/ Calculated \/ InsertAndPublish

-----------------------------------------------------------------------------
(* The readers of the channel, and the check of the PUE threshold.         *)

\* The optimizer or the forwarder receives.  The runtime serves receivers that
\* wait in the order they came; who is served here is left open.
OtherReader ==
    /\ outCh # <<>>
    /\ outCh' = Tail(outCh)
    /\ UNCHANGED <<clock, listening, devicePowerCache, calc, notifier, moments,
                   calmSince>>

ReceivePUE ==
    /\ outCh # <<>>
    /\ latestPUE' = Head(outCh)
    /\ outCh' = Tail(outCh)
    /\ UNCHANGED <<clock, listening, devicePowerCache, calc, pueViolationStart,
                   raising, moments, calmSince>>

CheckPUEAlert ==
    /\ checkTick
    /\ ~raising
    /\ checkTick' = FALSE
    /\ IF latestPUE # None /\ High(latestPUE)
       THEN \/ /\ pueViolationStart = None
               /\ pueViolationStart' = now
               /\ UNCHANGED raising
            \/ /\ pueViolationStart # None
               /\ raising' = (now - pueViolationStart >= Level2Duration)
               /\ UNCHANGED pueViolationStart
       ELSE /\ pueViolationStart' = None
            /\ UNCHANGED raising
    /\ UNCHANGED <<now, calcTick, ctxDone, listening, devicePowerCache, calc,
                   outCh, latestPUE, moments, calmSince>>

\* InsertAlert returned, with or without an error.
AlertInserted ==
    /\ raising
    /\ raising' = FALSE
    /\ pueViolationStart' = None
    /\ UNCHANGED <<clock, listening, devicePowerCache, calc, outCh, latestPUE,
                   moments, calmSince>>

Next ==
    \/ Tick \/ Cancel
    \/ \E d \in Devices, p \in Powers : ReceiveReading(d, p)
    \/ StopListening
    \/ StartCalculation \/ Calculate \/ StopCalculating
    \/ OtherReader \/ ReceivePUE
    \/ CheckPUEAlert \/ AlertInserted

Spec == Init /\ [][Next]_vars

\* The database returns, so a calculation goes on; the selects take the
\* cancellation in the end.  Nothing is asked of the readers.
FairSpec ==
    /\ Spec
    /\ WF_vars(Calculate)
    /\ SF_vars(StopCalculating)
    /\ WF_vars(StopListening)

-----------------------------------------------------------------------------
\* Types, and the capacity of the channel.
TypeOK ==
    /\ now \in Nat
    /\ {calcTick, checkTick, ctxDone, listening, raising} \subseteq BOOLEAN
    /\ devicePowerCache \in [Devices -> {None} \cup Powers]
    /\ powerSnapshot \in [Devices -> {None} \cup Powers]
    /\ pc \in {"select", "devices", "sum", "insert", "stopped"}
    /\ todo \subseteq CoolingDevices
    /\ coolingPower \in Nat
    /\ outCh \in Seq(Nat)
    /\ Len(outCh) <= OutCap
    /\ latestPUE \in {None} \cup Nat
    /\ pueViolationStart \in {None} \cup 0 .. now
    /\ calmSince \in {None} \cup 0 .. now

\* The cooling power of a PUE is what the cache amounted to at one moment,
\* although readings arrive while the devices are fetched and summed
\* (calculator.go:99-127).
SumOfOneMoment == pc = "insert" => coolingPower \in moments

\* The calculator ends after the cancellation although nobody takes its PUEs
\* any more (calculator.go:160-163).
ShutdownCompletes == ctxDone ~> (pc = "stopped" /\ ~listening)

\* The notifier does not alert that the PUE has exceeded the threshold for the
\* duration (notifier.go:253) when every PUE offered for longer than that was
\* normal and none of them is still in the channel.
PUEAlertIsCurrent ==
    [][raising' /\ ~raising =>
          \/ calmSince = None
          \/ now - calmSince <= Level2Duration
          \/ outCh # <<>>]_vars
=============================================================================
