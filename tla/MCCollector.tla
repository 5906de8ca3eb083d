---------------------------- MODULE MCCollector ----------------------------
(* Instances of Collector for TLC: what the peer answers and announces.    *)
EXTENDS Collector

AnyAnswer == {"data", "exception", "other"}
SomeLengths == {0, 4, 6}
=============================================================================
