------------------------------ MODULE MCProcess ------------------------------
(* Constants of the TLC run of Process: a new file, the file of a release  *)
(* without a ledger, and files of releases whose schema ended earlier.     *)
EXTENDS Process
CONSTANTS m1, m2, p1, p2

MCFiles ==
  {[ledger |-> {}, parts |-> {}],
   [ledger |-> {}, parts |-> {"users", "clusters", "metrics"}],
   [ledger |-> 1..4, parts |-> UNION {Adds[v] : v \in 1..4} \cup {"clusters"}]}
==============================================================================
