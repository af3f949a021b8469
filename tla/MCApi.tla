--------------------------------- MODULE MCApi --------------------------------
(* Two data paths of the API that share no variable, one of which moves in  *)
(* a behaviour: the edit of a cluster (ClusterEdit) and the table of        *)
(* subscriptions (SubsReads).                                               *)
EXTENDS ClusterEdit, SubsReads, TLC
CONSTANTS a, b, n1, n2, s1, file1, other, p1, p2, t1, t2
CONSTANTS e1, e2, v1, v2, v3, c1, c2
VARIABLE focus

(* Cluster e1 is read over HTTP while clients of its server come and go; of *)
(* e2 the snapshot may have rows, and one of its servers may not answer.    *)
MCServers == (e1 :> {v1}) @@ (e2 :> {v2, v3})
MCInitial == {(v1 :> {1, 2}) @@ (v2 :> {}) @@ (v3 :> k) : k \in {{}, {1, 2}}}

(* The first state of the component that stands still. The CA file is only  *)
(* replaced where a CA is configured, and e1 is not removed.                *)
MCInit == /\ EditInit /\ SubsInit /\ focus \in {"edit", "subs"}
          /\ broken # {} <=> open[v3] = {}  \* a snapshot asks no server
          /\ focus = "edit" => broken # {}
          /\ focus = "subs" => edited = {"servers"}
          /\ edited \subseteq {"servers", "bridges"} => file = p1
MCNext == /\ UNCHANGED focus
          /\ \/ /\ focus = "edit" /\ EditNext /\ UNCHANGED subsVars
                /\ edited \subseteq {"servers", "bridges"} => UNCHANGED file
             \/ focus = "subs" /\ SubsNext /\ e1 \in known' /\ UNCHANGED editVars
MCSpec == MCInit /\ [][MCNext]_<<editVars, subsVars, focus>>

ApiSymmetry == Permutations(Tabs) \cup Permutations(Callers)
Plain == [servers |-> <<[host |-> a, cred |-> None]>>, bridges |-> <<>>,
                tls |-> None, nats |-> None]
Conn(tls) ==
  [username |-> None, password |-> None, token |-> s1, nkey |-> None, creds |-> None,
   tls |-> tls]
Declared == [path |-> file1, pem |-> None]
(* Two hosts with and without credentials; two bridges with and without a   *)
(* token; a CA for monitoring, for NATS, or none.                           *)
MCCases ==
  {[parts |-> {"servers"}, cluster |-> [Plain EXCEPT
      !.servers = <<[host |-> a, cred |-> s1], [host |-> b, cred |-> None]>>]],
   [parts |-> {"bridges"}, cluster |-> [Plain EXCEPT
      !.bridges = <<[name |-> n1, token |-> s1], [name |-> n2, token |-> None]>>]]}
  \cup {[parts |-> {part}, cluster |-> c] :
          part \in {"tls", "nats"},
          c \in {[Plain EXCEPT !.tls = Declared], [Plain EXCEPT !.nats = Conn(Declared)]}}
===============================================================================
