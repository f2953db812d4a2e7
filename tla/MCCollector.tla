---------------------------- MODULE MCCollector ----------------------------
(* Instances of Collector for TLC: the configurations give the constants.  *)
EXTENDS Collector
=============================================================================
