---------------------------- MODULE MCClusterAdmin ----------------------------
(* Constants of the TLC run of ClusterAdmin.                                *)
EXTENDS ClusterAdmin
CONSTANTS i1, n1, n2, k1, k2, h1, h2
MCConfigs ==
  {[name |-> n1, conn |-> k1], [name |-> n2, conn |-> k1], [name |-> n1, conn |-> k2]}
MCFiles == {{}, {[name |-> n1, conn |-> k1]}}
===============================================================================
