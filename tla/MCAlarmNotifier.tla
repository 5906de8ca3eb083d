-------------------------- MODULE MCAlarmNotifier --------------------------
(* Instances of AlarmNotifier for TLC: which readings the devices report.  *)
EXTENDS AlarmNotifier

\* Calm, or exceeding one threshold.
OneThreshold == {{}, {"low_cop"}}

\* One of two thresholds: while one calms down the other is exceeded.
EitherThreshold == {{"high_power"}, {"low_cop"}}

\* No PUE over its threshold, or any.
NormalPUE == {FALSE}
AnyPUE == BOOLEAN
=============================================================================
