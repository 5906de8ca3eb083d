----------------------------- MODULE Collector -----------------------------
(***************************************************************************)
(* backend/internal/collector/collector.go, the package that modbus_gateway*)
(* replaced: function by function it takes the steps of the gateway, with  *)
(* three differences.  It collects once before its loop, retries exactly   *)
(* once, and keeps its readings in a channel that nobody reads; they leave *)
(* through the callback DataChannel, which nothing sets at this commit.    *)
(*                                                                         *)
(* legacy says which of the two packages runs.                             *)
(***************************************************************************)
EXTENDS ModbusGateway

VARIABLE legacy

\* readModbusWithRetry has no loop: a failed read is repeated once.
ASSUME CollectorAssumption == RetryCount = 1

allVars == <<vars, legacy>>

\* Start collects before its tickers have ticked.
CollectorInit == InitAt("getconn")

GetConn == ReuseConn \/ DialConn \/ DialFails
ReadModbus == WriteRequest \/ ReadHeader \/ ReadPDU \/ ExchangeFails
ReadModbusWithRetry == Retry \/ GiveUp
CollectDevice == InsertFails \/ InsertAndOffer
CollectAll == StartRound
CleanupIdleConn == Cleanup
CloseAndReturn == Stop

CollectorNext ==
    /\ ~panicked
    /\ \/ CollectAll \/ CollectDevice
       \/ ReadModbusWithRetry \/ ReadModbus \/ GetConn
       \/ CleanupIdleConn \/ CloseAndReturn
       \/ Tick \/ Cancel \/ Answer

EitherInit == \/ legacy = TRUE /\ CollectorInit
              \/ legacy = FALSE /\ Init
EitherNext ==
    /\ \/ legacy /\ CollectorNext
       \/ ~legacy /\ Next
    /\ UNCHANGED legacy

\* The calls have the deadlines they have in the gateway.
EitherSpec == EitherInit /\ [][EitherNext]_allVars /\ Progress
=============================================================================
