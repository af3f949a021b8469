----------------------------- MODULE MCLoginGate ------------------------------
(* Constants of the TLC run of LoginGate.                                   *)
EXTENDS LoginGate
CONSTANTS a, b, l1, l2
===============================================================================
