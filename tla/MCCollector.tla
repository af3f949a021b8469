----------------------------- MODULE MCCollector -----------------------------
(* Constants of the TLC runs of Collector.                                  *)
EXTENDS Collector
CONSTANTS s1, b1
MCTTL == [l \in Links |-> 1]
==============================================================================
