-------------------------- MODULE MCLegacyMonitor --------------------------
(* Instances of LegacyMonitor for TLC: what the devices report.            *)
EXTENDS LegacyMonitor

OneCooling == {1}

\* Calm, or exceeding a threshold with a power that is too high.
CalmOrHigh == {[exceeds |-> {}, power |-> 0], [exceeds |-> {"high_power"}, power |-> 1]}
=============================================================================
