-------------------------------- MODULE MCHub --------------------------------
(* Constants of the TLC runs of Hub.                                        *)
EXTENDS Hub
CONSTANTS c1, e1, e2
==============================================================================
