----------------------------- MODULE MCBridgeViews -----------------------------
(* Constants of the TLC run of BridgeViews: broker b1 publishes its metrics *)
(* as p1 and is configured as n1; broker b2 is only seen by the scan, next *)
(* to its NATS server s2, and is configured as n2 or not at all.           *)
EXTENDS BridgeViews
CONSTANTS b1, b2, p1, p2, i1, i2, n1, n2, h1, s1, s2, hs2

MCServes == (Url(h1, 8080) :> b1) @@ (Url(hs2, 8080) :> b2)
MCPushName == (b1 :> p1) @@ (b2 :> p2)
MCId == (b1 :> i1) @@ (b2 :> i2)
MCServerHost == (s1 :> Nil) @@ (s2 :> hs2)
MCPorts == <<9090, 8080>>

MCConfigs == {
  <<[name |-> n1, url |-> Url(h1, 8080)], [name |-> n2, url |-> Url(hs2, 8080)]>>,
  <<[name |-> n1, url |-> Url(h1, 8080)]>>,
  <<[name |-> p1, url |-> Url(h1, 8080)]>>}

MCConns == {
  [cid |-> 1, server |-> s1, ip |-> h1, bridge |-> TRUE, broker |-> b1],
  [cid |-> 2, server |-> s2, ip |-> Loopback, bridge |-> TRUE, broker |-> b2],
  [cid |-> 3, server |-> s2, ip |-> h1, bridge |-> FALSE, broker |-> b1]}

(* The configurations of this run meet the hypothesis of EveryCardOpens.   *)
ASSUME NamesApart
==============================================================================
