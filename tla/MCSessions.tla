------------------------------ MODULE MCSessions ------------------------------
(* Constants of the TLC runs of Sessions; requests are interchangeable.     *)
EXTENDS Sessions, TLC
CONSTANTS bob, sub, h1, h2
RequestSymmetry == Permutations(Requests)
===============================================================================
