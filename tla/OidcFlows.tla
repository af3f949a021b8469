------------------------------- MODULE OidcFlows ------------------------------
(***************************************************************************)
(* The authorization flows of one OIDC provider (internal/auth/oidc.go):   *)
(* the table of logins that were begun, their cookies in the browsers, and *)
(* the callbacks, which may come twice, late or from another browser. Ages *)
(* are in ticks.                                                           *)
(***************************************************************************)
EXTENDS Integers, FiniteSets, FiniteSetsExt

CONSTANTS
  Flows,     \* states (random tokens): bound on the logins begun
  Browsers,
  Handlers,  \* callbacks in flight together
  TTL,       \* oidcFlowTTL
  MaxFlows,  \* oidcMaxFlows
  Interval,  \* the minute between two sweeps
  Absent

ASSUME OidcAssumption ==
  /\ TTL \in Nat \ {0} /\ MaxFlows \in Nat \ {0} /\ Interval \in 1..TTL
  /\ IsFiniteSet(Flows) /\ Absent \notin 0..(TTL + 1)
  /\ Absent \notin Flows \cup Browsers \cup (Flows \X Browsers)

VARIABLES
  flows,   \* the age of each flow in the table; Absent: not in it
  begun,   \* the browser that began each flow; Absent: not begun yet
  swept,   \* age of lastSweep
  cookie,  \* the flow whose binding a browser keeps
  call,    \* callbacks: the code of a flow is being exchanged
  done     \* history: the logins completed, <<flow, browser>> to how often

flowVars == <<flows, begun, swept, cookie, call, done>>

FlowsTypeOK ==
  /\ flows \in [Flows -> 0..(TTL + 1) \cup {Absent}]
  /\ Cardinality({f \in Flows : flows[f] # Absent}) <= MaxFlows
  /\ begun \in [Flows -> Browsers \cup {Absent}] /\ swept \in 0..Interval
  /\ cookie \in [Browsers -> Flows \cup {Absent}]
  /\ call \in [Handlers -> (Flows \X Browsers) \cup {Absent}]
  /\ done \in [Flows \X Browsers -> Nat]
  /\ \A h \in Handlers : call[h] # Absent => flows[call[h][1]] = Absent  \* consumed

FlowsInit ==
  /\ flows = [f \in Flows |-> Absent] /\ begun = [f \in Flows |-> Absent]
  /\ swept = Interval /\ cookie = [b \in Browsers |-> Absent]
  /\ call = [h \in Handlers |-> Absent] /\ done = [p \in Flows \X Browsers |-> 0]

Active == {f \in Flows : flows[f] # Absent}
Expired == {f \in Active : flows[f] > TTL}
Sweeps == swept >= Interval \/ Cardinality(Active) >= MaxFlows

(* A faulty variant: the cap is applied before the sweep has made room.    *)
GoneEarly ==
  {(IF Sweeps THEN Expired ELSE {}) \cup over :
     over \in IF Cardinality(Active) >= MaxFlows
              THEN {{f} : f \in {g \in Active : \A e \in Active : flows[g] <= flows[e]}}
              ELSE {{}}}

(* What storeFlow removes: the expired flows, at most once a minute or at  *)
(* the cap, and the oldest one when the table is full all the same.        *)
Gone ==
  LET expired == IF Sweeps THEN Expired ELSE {}
      left == Active \ expired IN
  {expired \cup over :
     over \in IF Cardinality(left) >= MaxFlows
              THEN {{f} : f \in {g \in left : \A e \in left : flows[g] >= flows[e]}}
              ELSE {{}}}

(* BeginLogin, once the provider is discovered.                            *)
BeginLogin(b, f) ==
  /\ begun[f] = Absent /\ begun' = [begun EXCEPT ![f] = b]
  /\ \E gone \in Gone :
       flows' = [g \in Flows |-> IF g = f THEN 0 ELSE IF g \in gone THEN Absent ELSE flows[g]]
  /\ swept' = IF Sweeps THEN 0 ELSE swept
  /\ cookie' = [cookie EXCEPT ![b] = f] /\ UNCHANGED <<call, done>>

(* A faulty variant: the binding is not compared.                          *)
CallbackUnbound(h, b, f) ==
  /\ call[h] = Absent /\ begun[f] # Absent
  /\ IF f \in Active /\ flows[f] <= TTL
     THEN call' = [call EXCEPT ![h] = <<f, b>>] ELSE UNCHANGED call
  /\ flows' = [flows EXCEPT ![f] = Absent] /\ UNCHANGED <<begun, swept, cookie, done>>

(* A callback for flow f from browser b consumes the flow, whatever else   *)
(* it brings; it goes on when it is not too late and the browser sent the  *)
(* flow's binding. The cookie is deleted by the answer.                    *)
Callback(h, b, f) ==
  /\ call[h] = Absent /\ begun[f] # Absent
  /\ flows' = [flows EXCEPT ![f] = Absent]
  /\ IF f \in Active /\ flows[f] <= TTL /\ cookie[b] = f
     THEN call' = [call EXCEPT ![h] = <<f, b>>] /\ UNCHANGED cookie
     ELSE cookie' = [cookie EXCEPT ![b] = Absent] /\ UNCHANGED call
  /\ UNCHANGED <<begun, swept, done>>

(* The provider refuses the code or its claims, or the user is logged in.  *)
Exchange(h) ==
  /\ call[h] # Absent /\ call' = [call EXCEPT ![h] = Absent]
  /\ cookie' = [cookie EXCEPT ![call[h][2]] = Absent]
  /\ done' = [done EXCEPT ![call[h]] = @ + 1] \/ UNCHANGED done
  /\ UNCHANGED <<flows, begun, swept>>

Tick ==
  /\ flows' = [f \in Flows |-> IF flows[f] = Absent THEN Absent ELSE Min({flows[f] + 1, TTL + 1})]
  /\ swept' = Min({swept + 1, Interval}) /\ UNCHANGED <<begun, cookie, call, done>>

FlowsNext ==
  \/ Tick
  \/ \E b \in Browsers, f \in Flows : BeginLogin(b, f)
  \/ \E h \in Handlers :
       Exchange(h) \/ \E b \in Browsers, f \in Flows : Callback(h, b, f)

FlowsSpec == FlowsInit /\ [][FlowsNext]_flowVars
------------------------------------------------------------------------------
(* A login begun once is completed at most once, and only in the browser   *)
(* that began it, whatever callbacks come twice or together.               *)
LoginsAreOwn ==
  \A f \in Flows, b \in Browsers :
    done[<<f, b>>] <= IF begun[f] = b THEN 1 ELSE 0

(* A flow that is not expired leaves the table by its callback or, at the  *)
(* cap, as one of the oldest.                                              *)
FreshFlowsWait ==
  [][\A f \in Active \ Expired :
       flows'[f] = Absent =>
         \/ \E h \in Handlers, b \in Browsers : Callback(h, b, f)
         \/ /\ Cardinality(Active) >= MaxFlows /\ \A e \in Active : flows[e] <= flows[f]
            /\ Expired = {}]_flowVars
===============================================================================
