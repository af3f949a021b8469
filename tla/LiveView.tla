------------------------------- MODULE LiveView -------------------------------
(***************************************************************************)
(* The live view of one browser tab: the store, the hook useWebSocket with *)
(* its REST seed, its socket and its reconnect timer, and the switching of *)
(* clusters. Every switch runs the cleanup of the hook's effect and a new  *)
(* effect; what the old one left in flight goes on. The overview and the   *)
(* topology of one snapshot arrive in one message here. What is shown is   *)
(* the cluster it came from and its age: how many snapshots are newer.     *)
(***************************************************************************)
EXTENDS Integers, FiniteSets, FiniteSetsExt, Sequences

CONSTANTS
  Envs,
  Effects,   \* bound: effects with something in flight
  MaxAge,    \* ages stop here
  MaxQueue,  \* messages in flight to the browser
  None

ASSUME LiveViewAssumption == MaxAge \in Nat \ {0} /\ MaxQueue \in Nat \ {0} /\ None \notin Envs

VARIABLES
  activeEnv,  \* None is the empty ID
  view,       \* overview and topology in the store
  effect      \* runs of the hook's effect; env = None: nothing left of it

vars == <<activeEnv, view, effect>>

Fields == {"overview", "topology"}
Ages == 0..MaxAge
Shown == [env : Envs, age : Ages]
Effect == [env : Envs \cup {None}, cancelled : BOOLEAN,
           seed : {"none", "fetch", "served", "overview", "topology"}, age : Ages,
           ws : {"none", "connecting", "open", "retry"},
           queue : UNION {[1..n -> Ages] : n \in 0..MaxQueue}]

TypeOK ==
  /\ activeEnv \in Envs \cup {None}
  /\ view \in [Fields -> Shown \cup {None}]
  /\ effect \in [Effects -> Effect]

Nothing == [f \in Fields |-> None]
Gone == [env |-> None, cancelled |-> TRUE, seed |-> "none", age |-> 0, ws |-> "none",
         queue |-> <<>>]
Fresh(e) == [Gone EXCEPT !.env = e, !.cancelled = FALSE, !.seed = "fetch",
                         !.ws = "connecting"]

Init == activeEnv = None /\ view = Nothing /\ effect = [i \in Effects |-> Gone]

(* A cancelled effect is forgotten when its seed and its timer have ended. *)
Rest(r) == IF r.cancelled /\ r.seed = "none" /\ r.ws = "none" THEN Gone ELSE r
Becomes(i, r) == effect' = [effect EXCEPT ![i] = Rest(r)]
------------------------------------------------------------------------------
(* The cleanup: an effect that waits to reconnect keeps its timer.         *)
Cancelled(r) ==
  [r EXCEPT !.cancelled = TRUE, !.queue = <<>>,
            !.ws = IF @ = "retry" THEN "retry" ELSE "none"]

(* setActiveEnv, from the selector or when the list of clusters changed;   *)
(* the store's change is rendered, cleanup and new effect included, before *)
(* the next event.                                                         *)
SetActiveEnv(e) ==
  /\ e # activeEnv /\ activeEnv' = e /\ view' = Nothing
  /\ LET left == [i \in Effects |-> IF effect[i].cancelled THEN effect[i]
                                    ELSE Rest(Cancelled(effect[i]))] IN
     IF e = None THEN effect' = left
     ELSE \E i \in Effects : left[i] = Gone /\ effect' = [left EXCEPT ![i] = Fresh(e)]
------------------------------------------------------------------------------
(* seed(): both requests are answered or fail together.                    *)
SeedServed(i) ==
  /\ effect[i].seed = "fetch" /\ UNCHANGED <<activeEnv, view>>
  /\ \/ Becomes(i, [effect[i] EXCEPT !.seed = "served", !.age = 0])
     \/ Becomes(i, [effect[i] EXCEPT !.seed = "none", !.age = 0])

(* What seed() awaits next: the body of the topology, if its status is ok  *)
(* and the store has none.                                                 *)
ThenTopology(shown) ==
  {[seed |-> "none"]} \cup IF shown["topology"] = None THEN {[seed |-> "topology"]} ELSE {}

(* if (cancelled) return; the overview's body is read if its status is ok  *)
(* and the store has none.                                                 *)
SeedChecked(i) ==
  /\ effect[i].seed = "served" /\ UNCHANGED <<activeEnv, view>>
  /\ IF effect[i].cancelled THEN Becomes(i, [effect[i] EXCEPT !.seed = "none", !.age = 0])
     ELSE \/ view["overview"] = None /\ Becomes(i, [effect[i] EXCEPT !.seed = "overview"])
          \/ \E n \in ThenTopology(view) : Becomes(i, [effect[i] EXCEPT !.seed = n.seed])

Fill(i, f) == [view EXCEPT ![f] = [env |-> effect[i].env, age |-> effect[i].age]]

(* The overview's body is there, and fills the store.                      *)
SeedOverview(i) ==
  /\ effect[i].seed = "overview" /\ UNCHANGED activeEnv
  /\ \/ /\ view' = Fill(i, "overview")
        /\ \E n \in ThenTopology(view') : Becomes(i, [effect[i] EXCEPT !.seed = n.seed])
     \/ Becomes(i, [effect[i] EXCEPT !.seed = "none"]) /\ UNCHANGED view

SeedTopology(i) ==
  /\ effect[i].seed = "topology" /\ UNCHANGED activeEnv
  /\ Becomes(i, [effect[i] EXCEPT !.seed = "none"])
  /\ view' = Fill(i, "topology") \/ UNCHANGED view
------------------------------------------------------------------------------
(* onopen subscribes, and the hub answers with the current snapshot.       *)
Open(i) ==
  /\ effect[i].ws = "connecting"
  /\ Becomes(i, [effect[i] EXCEPT !.ws = "open", !.queue = <<0>>])
  /\ UNCHANGED <<activeEnv, view>>

OnMessage(i) ==
  /\ effect[i].queue # <<>> /\ UNCHANGED activeEnv
  /\ view' = [f \in Fields |-> [env |-> effect[i].env, age |-> Head(effect[i].queue)]]
  /\ Becomes(i, [effect[i] EXCEPT !.queue = Tail(@)])

(* A faulty variant: a connection that is lost is not opened again.        *)
OnCloseStays(i) ==
  /\ effect[i].ws \in {"connecting", "open"}
  /\ Becomes(i, [effect[i] EXCEPT !.ws = "none", !.queue = <<>>])
  /\ UNCHANGED <<activeEnv, view>>

(* The connection is refused or lost: onclose starts the timer.            *)
OnClose(i) ==
  /\ effect[i].ws \in {"connecting", "open"}
  /\ Becomes(i, [effect[i] EXCEPT !.ws = "retry", !.queue = <<>>])
  /\ UNCHANGED <<activeEnv, view>>

(* A faulty variant: the timer connects although the effect is over.       *)
ConnectCancelled(i) ==
  /\ effect[i].ws = "retry" /\ Becomes(i, [effect[i] EXCEPT !.ws = "connecting"])
  /\ UNCHANGED <<activeEnv, view>>

(* connect(), from the timer.                                              *)
Connect(i) ==
  /\ effect[i].ws = "retry" /\ UNCHANGED <<activeEnv, view>>
  /\ Becomes(i, [effect[i] EXCEPT !.ws = IF effect[i].cancelled THEN "none" ELSE "connecting"])
------------------------------------------------------------------------------
Older(age) == Min({age + 1, MaxAge})

(* A new snapshot of e: what is shown or in flight gets older, and is sent *)
(* to a subscribed socket that is not too slow.                            *)
Publish(e) ==
  /\ view' = [f \in Fields |-> IF view[f] # None /\ view[f].env = e
                               THEN [view[f] EXCEPT !.age = Older(@)] ELSE view[f]]
  /\ effect' = [i \in Effects |->
       LET r == effect[i]
           aged == [n \in DOMAIN r.queue |-> Older(r.queue[n])] IN
       IF r.env # e THEN r
       ELSE [r EXCEPT
         !.age = IF r.seed \in {"none", "fetch"} THEN @ ELSE Older(@),
         !.queue = IF r.ws = "open" /\ Len(aged) < MaxQueue THEN Append(aged, 0) ELSE aged]]
  /\ UNCHANGED activeEnv

Next ==
  \/ \E e \in Envs : Publish(e)
  \/ \E e \in Envs \cup {None} : SetActiveEnv(e)
  \/ \E i \in Effects :
       \/ SeedServed(i) \/ SeedChecked(i) \/ SeedOverview(i) \/ SeedTopology(i)
       \/ Open(i) \/ OnMessage(i) \/ OnClose(i) \/ Connect(i)

Spec == Init /\ [][Next]_vars

(* Requests end (fetchWithTimeout), timers fire and clusters are polled. A *)
(* connection that is tried again and again opens at last, and stays open  *)
(* at last for long enough to bring a message.                             *)
FairSpec ==
  /\ Spec
  /\ \A i \in Effects :
       /\ WF_vars(SeedServed(i)) /\ WF_vars(SeedChecked(i)) /\ WF_vars(SeedOverview(i))
       /\ WF_vars(SeedTopology(i)) /\ WF_vars(Connect(i))
       /\ SF_vars(Open(i)) /\ SF_vars(OnMessage(i))
  /\ \A e \in Envs : WF_vars(Publish(e))
------------------------------------------------------------------------------
(* Whatever timers and closings overlap with switches, a tab has at most   *)
(* one socket, and it is subscribed to the active cluster.                 *)
OneSocket ==
  \A i \in Effects : effect[i].ws \in {"connecting", "open"} =>
    /\ effect[i].env = activeEnv
    /\ \A j \in Effects \ {i} : effect[j].ws \notin {"connecting", "open"}

(* When the user stays with a cluster, its views are filled and stay       *)
(* its own, although seeds fail and connections are lost.                  *)
ViewsArrive ==
  \A e \in Envs :
    <>[](activeEnv = e) =>
      <>[](\A f \in Fields : view[f] # None /\ view[f].env = e)

(* "A WebSocket update that already landed is fresher than the in-flight   *)
(* REST response, so the seed must leave it alone rather than roll the     *)
(* view back".                                                             *)
SeedNeverRollsBack ==
  [][\A f \in Fields :
       view[f] # None /\ view'[f] # None /\ view[f].env = view'[f].env =>
         view'[f].age <= view[f].age \/ \E e \in Envs : Publish(e)]_vars
===============================================================================
