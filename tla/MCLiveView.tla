------------------------------ MODULE MCLiveView ------------------------------
(* Constants of the TLC runs of LiveView.                                   *)
EXTENDS LiveView
CONSTANTS e1, e2, i1, i2
===============================================================================
