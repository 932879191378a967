---------------------------- MODULE MCCollector ----------------------------
(* The collector for TLC.                                                  *)
EXTENDS Collector
=============================================================================
