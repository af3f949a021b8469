-------------------------- MODULE ClusterAdminProofs --------------------------
(***************************************************************************)
(* ClusterAdmin for any number of clusters, configurations and requests:   *)
(* no collector leaks, what is stored is watched, and what runs is what is *)
(* stored.                                                                 *)
(***************************************************************************)
EXTENDS ClusterAdmin, TLAPS

USE ClusterAdminAssumption DEF ClusterAdminAssumption

Types ==
  /\ rows \in [Ids -> Configs \cup {None}]
  /\ tracked \in [Ids -> 0..Slots]
  /\ gens \in [Ids -> [1..Slots -> Generation]]
  /\ req \in [Requests -> [pc : {"idle", "add", "store", "apply", "drop"}, id : Ids,
                           cfg : Configs]]
  /\ Stored \subseteq used

(* The generations of one cluster and the slot the Manager has for it.     *)
Leads(t, g) ==
  /\ \A n \in 1..Slots : g[n].live => t = n
  /\ t # 0 => g[t].live

LiveInv == \A id \in Ids : Leads(tracked[id], gens[id])

(* A stored cluster without a collector is about to get one, is about to   *)
(* be deleted, or its delete has failed.                                   *)
Pending(id) == \E h \in Requests : req[h].pc \in {"add", "apply", "drop"} /\ req[h].id = id
WatchInv == \A id \in Stored : tracked[id] = 0 => id \in unstopped \/ Pending(id)

IInv == Types /\ LiveInv /\ WatchInv
------------------------------------------------------------------------------
LEMMA Constants ==
  /\ SomeConfig \in Configs /\ NoGeneration \in Generation /\ ~NoGeneration.live
  /\ \A c \in Configs : Started(c) \in Generation /\ Started(c).live
  /\ Idle \in [pc : {"idle", "add", "store", "apply", "drop"}, id : Ids, cfg : Configs]
  /\ Idle.pc = "idle"
<1>1. SomeConfig \in Configs
  BY DEF SomeConfig
<1>2. NoGeneration \in Generation /\ ~NoGeneration.live
  BY <1>1 DEF NoGeneration, Generation
<1>3. ASSUME NEW c \in Configs PROVE Started(c) \in Generation /\ Started(c).live
  BY DEF Started, Generation
<1>4. (CHOOSE id \in Ids : TRUE) \in Ids
  OBVIOUS
<1>5. Idle \in [pc : {"idle", "add", "store", "apply", "drop"}, id : Ids, cfg : Configs]
  BY <1>1, <1>4 DEF Idle
<1>6. Idle.pc = "idle"
  BY DEF Idle
<1> QED
  BY <1>1, <1>2, <1>3, <1>5, <1>6

(* What the Manager does to one cluster.                                   *)
OneCluster(id, t, g) ==
  /\ tracked' = [tracked EXCEPT ![id] = t] /\ gens' = [gens EXCEPT ![id] = g]
  /\ t \in 0..Slots /\ g \in [1..Slots -> Generation] /\ Leads(t, g)

LEMMA AddLocked ==
  ASSUME Types, NEW id \in Ids, NEW c \in Configs, NEW g \in [1..Slots -> Generation],
         \A n \in 1..Slots : ~g[n].live, addClusterLocked(id, c, g)
  PROVE  \E t \in 1..Slots : \E h : OneCluster(id, t, h)
<1>1. PICK n \in 1..Slots : /\ tracked' = [tracked EXCEPT ![id] = n]
                            /\ gens' = [gens EXCEPT ![id] = [g EXCEPT ![n] = Started(c)]]
  BY DEF addClusterLocked
<1> DEFINE h == [g EXCEPT ![n] = Started(c)]
<1>2. Started(c) \in Generation /\ Started(c).live
  BY Constants
<1>3. h \in [1..Slots -> Generation] /\ h[n] = Started(c)
      /\ \A k \in 1..Slots \ {n} : h[k] = g[k]
  BY <1>2
<1> HIDE DEF h
<1>4. Leads(n, h) /\ n # 0
  BY <1>2, <1>3 DEF Leads
<1>5. OneCluster(id, n, h)
  BY <1>1, <1>3, <1>4 DEF OneCluster, h
<1> QED
  BY <1>5

LEMMA CancelledDead ==
  ASSUME Types, LiveInv, NEW id \in Ids
  PROVE  /\ Cancelled(id) \in [1..Slots -> Generation]
         /\ \A n \in 1..Slots : ~Cancelled(id)[n].live
<1>1. ASSUME NEW n \in 1..Slots
      PROVE  Cancelled(id)[n] \in Generation /\ ~Cancelled(id)[n].live
  <2>1. gens[id][n] \in Generation
    BY DEF Types
  <2>2. CASE n # tracked[id]
    <3>1. Cancelled(id)[n] = gens[id][n] /\ ~gens[id][n].live
      BY <2>2 DEF Cancelled, LiveInv, Leads
    <3> QED
      BY <2>1, <3>1
  <2>3. CASE n = tracked[id]
    <3> DEFINE g == [NoGeneration EXCEPT !.poll = gens[id][n].poll, !.disc = gens[id][n].disc]
    <3>1. Cancelled(id)[n] = g
      BY <2>3 DEF Cancelled
    <3>2. /\ NoGeneration \in Generation /\ ~NoGeneration.live
          /\ gens[id][n].poll \in {"poll", "notify", "submit", "off"}
          /\ gens[id][n].disc \in BOOLEAN
      BY <2>1, Constants, Zenon DEF Generation
    <3>3. g \in Generation /\ g.live = NoGeneration.live
      BY <3>2 DEF Generation
    <3> QED
      BY <3>1, <3>2, <3>3
  <2> QED
    BY <2>2, <2>3
<1> QED
  BY <1>1 DEF Cancelled

LEMMA AddClusterStep ==
  ASSUME Types, LiveInv, NEW id \in Ids, NEW c \in Configs, AddCluster(id, c)
  PROVE  \E t \in 1..Slots : \E g : OneCluster(id, t, g)
<1>1. CASE tracked[id] # 0
  <2>1. OneCluster(id, tracked[id], gens[id]) /\ tracked[id] \in 1..Slots
    BY <1>1 DEF AddCluster, OneCluster, Types, LiveInv
  <2> QED
    BY <2>1
<1>2. CASE tracked[id] = 0
  <2>1. gens[id] \in [1..Slots -> Generation] /\ \A n \in 1..Slots : ~gens[id][n].live
    BY <1>2 DEF Types, LiveInv, Leads
  <2> QED
    BY <1>2, <2>1, AddLocked DEF AddCluster
<1> QED
  BY <1>1, <1>2

LEMMA UpdateClusterStep ==
  ASSUME Types, LiveInv, NEW id \in Ids, NEW c \in Configs, UpdateCluster(id, c)
  PROVE  \E t \in 1..Slots : \E g : OneCluster(id, t, g)
<1>1. CASE tracked[id] = 0
  <2>1. gens[id] \in [1..Slots -> Generation] /\ \A n \in 1..Slots : ~gens[id][n].live
    BY <1>1 DEF Types, LiveInv, Leads
  <2> QED
    BY <1>1, <2>1, AddLocked DEF UpdateCluster
<1>2. CASE tracked[id] # 0 /\ NameOnly(id, c)
  <2> DEFINE t == tracked[id]
             r == [gens[id][t] EXCEPT !.env = c]
             g == [gens[id] EXCEPT ![t] = r]
  <2>1. t \in 1..Slots /\ gens[id] \in [1..Slots -> Generation] /\ gens[id][t] \in Generation
    BY <1>2 DEF Types
  <2>2. /\ tracked' = [tracked EXCEPT ![id] = t]
        /\ gens' = [gens EXCEPT ![id] = g]
    BY <1>2, <2>1 DEF UpdateCluster, SwapLabel, Types
  <2>3. r \in Generation /\ r.live = gens[id][t].live
    BY <2>1 DEF Generation
  <2>4. g \in [1..Slots -> Generation] /\ g[t] = r
        /\ \A n \in 1..Slots \ {t} : g[n] = gens[id][n]
    BY <2>1, <2>3
  <2> HIDE DEF g, r
  <2>5. Leads(t, g)
    BY <2>1, <2>3, <2>4 DEF LiveInv, Leads
  <2>6. OneCluster(id, t, g)
    BY <2>1, <2>2, <2>4, <2>5 DEF OneCluster
  <2> QED
    BY <2>1, <2>6
<1>3. CASE tracked[id] # 0 /\ ~NameOnly(id, c)
  BY <1>3, CancelledDead, AddLocked DEF UpdateCluster
<1> QED
  BY <1>1, <1>2, <1>3

LEMMA RemoveClusterStep ==
  ASSUME Types, LiveInv, NEW id \in Ids, RemoveCluster(id)
  PROVE  OneCluster(id, 0, Cancelled(id))
BY CancelledDead DEF RemoveCluster, OneCluster, Leads
------------------------------------------------------------------------------
(* Seeds and restarts.                                                     *)

LEMMA SeededRows ==
  ASSUME NEW r \in [Ids -> Configs \cup {None}], NEW new, NEW seeds \in Files,
         NEW q \in Seeded(r, new, seeds)
  PROVE  q \in [Ids -> Configs \cup {None}]
<1> DEFINE missing == {c \in seeds : \A id \in Ids : r[id] # None => r[id].name # c.name}
<1>1. PICK f \in [Ids -> missing \cup {None}] :
        q = [id \in Ids |-> IF f[id] # None THEN f[id] ELSE r[id]]
  BY DEF Seeded
<1> QED
  BY <1>1

LEMMA Restarted ==
  ASSUME NEW r \in [Ids -> Configs \cup {None}],
         NEW t, t = [id \in Ids |-> IF r[id] # None THEN 1 ELSE 0],
         NEW g, g = [id \in Ids |-> [n \in 1..Slots |->
                       IF n = 1 /\ r[id] # None THEN Started(r[id]) ELSE NoGeneration]]
  PROVE  /\ t \in [Ids -> 0..Slots] /\ g \in [Ids -> [1..Slots -> Generation]]
         /\ \A id \in Ids : Leads(t[id], g[id]) /\ (r[id] # None => t[id] # 0)
<1>1. t \in [Ids -> 0..Slots] /\ \A id \in Ids : r[id] # None => t[id] # 0
  OBVIOUS
<1>2. ASSUME NEW id \in Ids PROVE g[id] \in [1..Slots -> Generation] /\ Leads(t[id], g[id])
  <2>1. CASE r[id] = None
    <3>1. g[id] = [n \in 1..Slots |-> NoGeneration] /\ t[id] = 0
      BY <2>1
    <3> QED
      BY <3>1, Constants DEF Leads
  <2>2. CASE r[id] # None
    <3>1. r[id] \in Configs /\ t[id] = 1 /\ 1 \in 1..Slots
      BY <2>2
    <3>2. Started(r[id]) \in Generation /\ Started(r[id]).live
      BY <3>1, Constants
    <3>3. g[id] = [n \in 1..Slots |-> IF n = 1 THEN Started(r[id]) ELSE NoGeneration]
      BY <2>2
    <3> QED
      BY <3>1, <3>2, <3>3, Constants DEF Leads
  <2> QED
    BY <2>1, <2>2
<1> QED
  BY <1>1, <1>2
------------------------------------------------------------------------------
(* The steps.                                                              *)

(* A step of a goroutine moves one generation and cancels none.            *)
LEMMA GenerationStep ==
  ASSUME IInv, NEW id \in Ids, NEW n \in 1..Slots, NEW r \in Generation,
         r.live = gens[id][n].live, gens' = [gens EXCEPT ![id][n] = r],
         UNCHANGED <<rows, used, tracked, req, unstopped>>
  PROVE  IInv'
<1>1. gens[id] \in [1..Slots -> Generation] /\ gens \in [Ids -> [1..Slots -> Generation]]
  BY DEF IInv, Types
<1> DEFINE g == [gens[id] EXCEPT ![n] = r]
<1>2. gens' = [gens EXCEPT ![id] = g]
  OBVIOUS
<1>3. g \in [1..Slots -> Generation] /\ g[n] = r
      /\ \A k \in 1..Slots \ {n} : g[k] = gens[id][k]
  BY <1>1
<1> HIDE DEF g
<1>4. Leads(tracked[id], g)
  <2>1. Leads(tracked[id], gens[id]) /\ tracked[id] \in 0..Slots
    BY DEF IInv, LiveInv, Types
  <2>2. \A k \in 1..Slots : g[k].live <=> gens[id][k].live
    BY <1>3
  <2>3. \A k \in 1..Slots : g[k].live => tracked[id] = k
    BY <2>1, <2>2 DEF Leads
  <2>4. tracked[id] # 0 => tracked[id] \in 1..Slots
    BY <2>1
  <2>5. tracked[id] # 0 => g[tracked[id]].live
    BY <2>1, <2>2, <2>4 DEF Leads
  <2> QED
    BY <2>3, <2>5 DEF Leads
<1>5. gens' \in [Ids -> [1..Slots -> Generation]]
  BY <1>1, <1>2, <1>3
<1>6. LiveInv'
  BY <1>1, <1>2, <1>4 DEF IInv, LiveInv, Leads
<1> QED
  BY <1>5, <1>6 DEF IInv, Types, Stored, WatchInv, Pending

LEMMA GoroutineSteps ==
  ASSUME IInv, NEW id \in Ids, NEW n \in 1..Slots,
         Poll(id, n) \/ Sample(id, n) \/ Submit(id, n) \/ Stop(id, n) \/ DiscoveryEnds(id, n)
  PROVE  IInv'
<1> DEFINE g == gens[id][n]
<1>1. g \in Generation /\ gens[id] \in [1..Slots -> Generation]
  BY DEF IInv, Types
<1>2. UNCHANGED <<rows, used, tracked, req, unstopped>>
  BY DEF Poll, Sample, Submit, Stop, DiscoveryEnds
<1>3. PICK p \in {"poll", "notify", "submit", "off"}, d \in BOOLEAN :
        gens' = [gens EXCEPT ![id][n] = [g EXCEPT !.poll = p, !.disc = d]]
  <2>0. g.disc \in BOOLEAN /\ g.poll \in {"poll", "notify", "submit", "off"}
    BY <1>1 DEF Generation
  <2>1. CASE Poll(id, n)
    BY <2>0, <2>1 DEF Poll
  <2>2. CASE DiscoveryEnds(id, n)
    <3>1. gens' = [gens EXCEPT ![id][n] = [g EXCEPT !.disc = FALSE]]
      BY <2>2 DEF DiscoveryEnds
    <3>2. [g EXCEPT !.disc = FALSE] = [g EXCEPT !.poll = g.poll, !.disc = FALSE]
      BY <1>1 DEF Generation
    <3> QED
      BY <2>0, <3>1, <3>2
  <2>3. ASSUME NEW p \in {"poll", "notify", "submit", "off"}, Moves(id, n, p)
        PROVE  gens' = [gens EXCEPT ![id][n] = [g EXCEPT !.poll = p, !.disc = g.disc]]
    <3>1. gens' = [gens EXCEPT ![id][n] = [g EXCEPT !.poll = p]]
      BY <2>3 DEF Moves
    <3>2. [g EXCEPT !.poll = p] = [g EXCEPT !.poll = p, !.disc = g.disc]
      BY <1>1 DEF Generation
    <3> QED
      BY <3>1, <3>2
  <2>4. CASE Sample(id, n) \/ Submit(id, n) \/ Stop(id, n)
    <3>1. PICK p \in {"poll", "submit", "off"} : Moves(id, n, p)
      BY <2>4 DEF Sample, Submit, Stop
    <3> QED
      BY <2>0, <2>3, <3>1
  <2> QED
    BY <2>1, <2>2, <2>4
<1>4. /\ [g EXCEPT !.poll = p, !.disc = d] \in Generation
      /\ [g EXCEPT !.poll = p, !.disc = d].live = g.live
  BY <1>1 DEF Generation
<1> QED
  BY <1>2, <1>3, <1>4, GenerationStep

(* A step that leaves every collector alone.                               *)
LEMMA ManagerIdle ==
  ASSUME LiveInv, UNCHANGED <<tracked, gens>> PROVE LiveInv'
BY DEF LiveInv, Leads

(* A step of the Manager on one cluster.                                   *)
LEMMA ManagerStep ==
  ASSUME Types, LiveInv, NEW id \in Ids, NEW t, NEW g, OneCluster(id, t, g)
  PROVE  /\ tracked' \in [Ids -> 0..Slots] /\ gens' \in [Ids -> [1..Slots -> Generation]]
         /\ LiveInv' /\ tracked'[id] = t
         /\ \A i \in Ids \ {id} : tracked'[i] = tracked[i]
<1>1. /\ tracked' \in [Ids -> 0..Slots] /\ gens' \in [Ids -> [1..Slots -> Generation]]
      /\ tracked'[id] = t /\ gens'[id] = g
      /\ \A i \in Ids \ {id} : tracked'[i] = tracked[i] /\ gens'[i] = gens[i]
  BY DEF OneCluster, Types
<1>2. LiveInv'
  BY <1>1 DEF OneCluster, LiveInv, Leads
<1> QED
  BY <1>1, <1>2

Request == [pc : {"idle", "add", "store", "apply", "drop"}, id : Ids, cfg : Configs]

LEMMA CreateSteps ==
  ASSUME IInv, NEW h \in Requests
  PROVE  /\ \A id \in Ids, c \in Configs : CreateRow(h, id, c) => IInv'
         /\ CreateAdd(h) => IInv'
<1>0. req \in [Requests -> Request] /\ rows \in [Ids -> Configs \cup {None}]
      /\ req[h].id \in Ids /\ req[h].cfg \in Configs
  BY DEF IInv, Types, Request
<1>1. ASSUME NEW id \in Ids, NEW c \in Configs, CreateRow(h, id, c) PROVE IInv'
  <2>1. /\ req[h].pc = "idle" /\ req' = [req EXCEPT ![h] = [pc |-> "add", id |-> id, cfg |-> c]]
        /\ rows' = [rows EXCEPT ![id] = c] /\ used' = used \cup {id}
        /\ UNCHANGED <<tracked, gens, unstopped>>
    BY <1>1 DEF CreateRow, Starts, CreateCluster
  <2>2. [pc |-> "add", id |-> id, cfg |-> c] \in Request
    BY DEF Request
  <2>3. Types'
    BY <1>0, <2>1, <2>2 DEF IInv, Types, Stored, Request
  <2>4. LiveInv'
    BY <2>1, ManagerIdle DEF IInv
  <2>5. WatchInv'
    <3>1. Pending(id)'
      BY <1>0, <2>1 DEF Pending
    <3>2. \A i \in Ids : Pending(i) => Pending(i)'
      BY <1>0, <2>1 DEF Pending
    <3>3. \A i \in Ids \ {id} : i \in Stored' => i \in Stored
      BY <1>0, <2>1 DEF Stored
    <3>4. \A i \in Stored' : i \in Ids
      BY DEF Stored
    <3> QED
      BY <2>1, <3>1, <3>2, <3>3, <3>4 DEF IInv, WatchInv
  <2> QED
    BY <2>3, <2>4, <2>5 DEF IInv
<1>2. ASSUME CreateAdd(h) PROVE IInv'
  <2> DEFINE id == req[h].id
  <2>1. /\ req' = [req EXCEPT ![h] = Idle] /\ AddCluster(id, req[h].cfg)
        /\ UNCHANGED <<rows, used, unstopped>>
    BY <1>2 DEF CreateAdd, Ends
  <2>2. PICK t \in 1..Slots : \E g : OneCluster(id, t, g)
    BY <1>0, <2>1, AddClusterStep DEF IInv
  <2>3. /\ tracked' \in [Ids -> 0..Slots] /\ gens' \in [Ids -> [1..Slots -> Generation]]
        /\ LiveInv' /\ tracked'[id] # 0
        /\ \A i \in Ids \ {id} : tracked'[i] = tracked[i]
    BY <1>0, <2>2, ManagerStep DEF IInv
  <2>4. Types'
    BY <1>0, <2>1, <2>3, Constants DEF IInv, Types, Stored, Request
  <2>5. WatchInv'
    <3>1. \A i \in Ids \ {id} : Pending(i) => Pending(i)'
      BY <1>0, <2>1 DEF Pending
    <3>2. Stored' = Stored /\ Stored \subseteq Ids
      BY <2>1 DEF Stored
    <3> QED
      BY <2>1, <2>3, <3>1, <3>2 DEF IInv, WatchInv
  <2> QED
    BY <2>3, <2>4, <2>5 DEF IInv
<1> QED
  BY <1>1, <1>2

LEMMA UpdateSteps ==
  ASSUME IInv, NEW h \in Requests
  PROVE  /\ \A id \in Ids, c \in Configs : UpdateLoad(h, id, c) => IInv'
         /\ UpdateStore(h) => IInv'
         /\ UpdateApply(h) => IInv'
<1>0. req \in [Requests -> Request] /\ rows \in [Ids -> Configs \cup {None}]
      /\ req[h].id \in Ids /\ req[h].cfg \in Configs
  BY DEF IInv, Types, Request
<1>1. ASSUME NEW id \in Ids, NEW c \in Configs, UpdateLoad(h, id, c) PROVE IInv'
  <2>1. /\ req[h].pc = "idle"
        /\ req' = [req EXCEPT ![h] = [pc |-> "store", id |-> id, cfg |-> c]]
        /\ UNCHANGED <<rows, used, tracked, gens, unstopped>>
    BY <1>1 DEF UpdateLoad, Starts
  <2>2. [pc |-> "store", id |-> id, cfg |-> c] \in Request
    BY DEF Request
  <2>3. Types' /\ LiveInv'
    BY <1>0, <2>1, <2>2, ManagerIdle DEF IInv, Types, Stored, Request
  <2>4. \A i \in Ids : Pending(i) => Pending(i)'
    BY <1>0, <2>1 DEF Pending
  <2> QED
    BY <2>1, <2>3, <2>4 DEF IInv, WatchInv, Stored
<1>2. ASSUME UpdateStore(h) PROVE IInv'
  <2>1. /\ req[h].pc = "store" /\ UNCHANGED <<used, tracked, gens, unstopped>>
        /\ \/ /\ rows[req[h].id] # None /\ rows' = [rows EXCEPT ![req[h].id] = req[h].cfg]
              /\ req' = [req EXCEPT ![h].pc = "apply"]
           \/ req' = [req EXCEPT ![h] = Idle] /\ rows' = rows
    BY <1>2 DEF UpdateStore, StoreCluster, Goto, Ends
  <2>2. /\ req' \in [Requests -> Request] /\ rows' \in [Ids -> Configs \cup {None}]
        /\ Stored' = Stored
    BY <1>0, <2>1, Constants DEF Request, Stored
  <2>3. Types' /\ LiveInv'
    BY <2>1, <2>2, ManagerIdle DEF IInv, Types, Request
  <2>4. \A i \in Ids : Pending(i) => Pending(i)'
    BY <1>0, <2>1 DEF Pending
  <2>5. Stored \subseteq Ids
    BY DEF Stored
  <2> QED
    BY <2>1, <2>2, <2>3, <2>4, <2>5 DEF IInv, WatchInv
<1>3. ASSUME UpdateApply(h) PROVE IInv'
  <2> DEFINE id == req[h].id
  <2>1. /\ req' = [req EXCEPT ![h] = Idle] /\ UpdateCluster(id, req[h].cfg)
        /\ unstopped' = unstopped \ {id} /\ UNCHANGED <<rows, used>>
    BY <1>3 DEF UpdateApply, Ends
  <2>2. PICK t \in 1..Slots : \E g : OneCluster(id, t, g)
    BY <1>0, <2>1, UpdateClusterStep DEF IInv
  <2>3. /\ tracked' \in [Ids -> 0..Slots] /\ gens' \in [Ids -> [1..Slots -> Generation]]
        /\ LiveInv' /\ tracked'[id] # 0
        /\ \A i \in Ids \ {id} : tracked'[i] = tracked[i]
    BY <1>0, <2>2, ManagerStep DEF IInv
  <2>4. Types'
    BY <1>0, <2>1, <2>3, Constants DEF IInv, Types, Stored, Request
  <2>5. WatchInv'
    <3>1. \A i \in Ids \ {id} : Pending(i) => Pending(i)'
      BY <1>0, <2>1 DEF Pending
    <3>2. Stored' = Stored /\ Stored \subseteq Ids
      BY <2>1 DEF Stored
    <3> QED
      BY <2>1, <2>3, <3>1, <3>2 DEF IInv, WatchInv
  <2> QED
    BY <2>3, <2>4, <2>5 DEF IInv
<1> QED
  BY <1>1, <1>2, <1>3

LEMMA DeleteSteps ==
  ASSUME IInv, NEW h \in Requests
  PROVE  /\ \A id \in Ids : DeleteStop(h, id) => IInv'
         /\ DeleteRows(h) => IInv'
<1>0. req \in [Requests -> Request] /\ rows \in [Ids -> Configs \cup {None}]
      /\ req[h].id \in Ids
  BY DEF IInv, Types, Request
<1>1. ASSUME NEW id \in Ids, DeleteStop(h, id) PROVE IInv'
  <2> DEFINE r == [pc |-> "drop", id |-> id, cfg |-> SomeConfig]
  <2>1. /\ req[h].pc = "idle" /\ req' = [req EXCEPT ![h] = r]
        /\ RemoveCluster(id) /\ UNCHANGED <<rows, used, unstopped>>
    BY <1>1 DEF DeleteStop, Starts
  <2>2. r \in Request
    BY Constants DEF Request
  <2>3. /\ tracked' \in [Ids -> 0..Slots] /\ gens' \in [Ids -> [1..Slots -> Generation]]
        /\ LiveInv' /\ \A i \in Ids \ {id} : tracked'[i] = tracked[i]
    BY <2>1, RemoveClusterStep, ManagerStep DEF IInv
  <2>4. Types'
    BY <1>0, <2>1, <2>2, <2>3 DEF IInv, Types, Stored, Request
  <2>5. Pending(id)' /\ \A i \in Ids : Pending(i) => Pending(i)'
    BY <1>0, <2>1 DEF Pending
  <2>6. Stored' = Stored /\ Stored \subseteq Ids
    BY <2>1 DEF Stored
  <2>7. WatchInv'
    BY <2>1, <2>3, <2>5, <2>6 DEF IInv, WatchInv
  <2> QED
    BY <2>3, <2>4, <2>7 DEF IInv
<1>2. ASSUME DeleteRows(h) PROVE IInv'
  <2> DEFINE id == req[h].id
  <2>1. /\ req' = [req EXCEPT ![h] = Idle] /\ UNCHANGED <<used, tracked, gens>>
        /\ \/ rows' = [rows EXCEPT ![id] = None] /\ unstopped' = unstopped
           \/ unstopped' = unstopped \cup {id} /\ rows' = rows
    BY <1>2 DEF DeleteRows, DeleteCluster, Ends
  <2>2. /\ Stored' \subseteq Stored /\ Stored \subseteq Ids
        /\ rows' \in [Ids -> Configs \cup {None}]
        /\ id \in Stored' => id \in unstopped'
    BY <1>0, <2>1 DEF Stored
  <2>3. Types' /\ LiveInv'
    BY <1>0, <2>1, <2>2, Constants, ManagerIdle DEF IInv, Types, Request
  <2>4. \A i \in Ids \ {id} : Pending(i) => Pending(i)'
    BY <1>0, <2>1 DEF Pending
  <2>5. WatchInv'
    BY <2>1, <2>2, <2>4 DEF IInv, WatchInv
  <2> QED
    BY <2>3, <2>5 DEF IInv
<1> QED
  BY <1>1, <1>2

LEMMA RestartStep == ASSUME IInv, Restart PROVE IInv'
<1>0. PICK seeds \in Files : \E r \in Seeded(rows, Ids \ used, seeds) : LoadRows(r)
  BY DEF Restart
<1>1. PICK r \in Seeded(rows, Ids \ used, seeds) : LoadRows(r)
  BY <1>0
<1>2. r \in [Ids -> Configs \cup {None}]
  BY <1>1, SeededRows DEF IInv, Types
<1>3. /\ rows' = r /\ used' = used \cup {id \in Ids : r[id] # None}
      /\ tracked' = [id \in Ids |-> IF r[id] # None THEN 1 ELSE 0]
      /\ gens' = [id \in Ids |-> [n \in 1..Slots |->
                    IF n = 1 /\ r[id] # None THEN Started(r[id]) ELSE NoGeneration]]
      /\ req' = [h \in Requests |-> Idle]
  BY <1>1 DEF LoadRows, Restart
<1>4. /\ tracked' \in [Ids -> 0..Slots] /\ gens' \in [Ids -> [1..Slots -> Generation]]
      /\ \A id \in Ids : Leads(tracked'[id], gens'[id]) /\ (r[id] # None => tracked'[id] # 0)
  BY <1>2, <1>3, Restarted
<1>5. Types'
  BY <1>2, <1>3, <1>4, Constants DEF Types, Stored
<1>6. LiveInv' /\ WatchInv'
  BY <1>3, <1>4 DEF LiveInv, Leads, WatchInv, Stored
<1> QED
  BY <1>5, <1>6 DEF IInv
------------------------------------------------------------------------------
LEMMA Initially == ASSUME Init PROVE IInv
<1>1. PICK seeds \in Files : rows \in Seeded(NoRows, Ids, seeds)
  BY DEF Init
<1>2. rows \in [Ids -> Configs \cup {None}]
  <2>1. NoRows \in [Ids -> Configs \cup {None}]
    BY DEF NoRows
  <2> QED
    BY <1>1, <2>1, SeededRows
<1>3. \A id \in Ids : id \in used <=> rows[id] # None
  BY DEF Init, Stored
<1>4. /\ tracked = [id \in Ids |-> IF rows[id] # None THEN 1 ELSE 0]
      /\ gens = [id \in Ids |-> [n \in 1..Slots |->
                   IF n = 1 /\ rows[id] # None THEN Started(rows[id]) ELSE NoGeneration]]
  BY <1>3 DEF Init
<1>5. /\ tracked \in [Ids -> 0..Slots] /\ gens \in [Ids -> [1..Slots -> Generation]]
      /\ \A id \in Ids : Leads(tracked[id], gens[id]) /\ (rows[id] # None => tracked[id] # 0)
  BY <1>2, <1>4, Restarted
<1>6. Types
  BY <1>2, <1>5, Constants DEF Init, Types
<1>7. LiveInv /\ WatchInv
  BY <1>5 DEF LiveInv, WatchInv, Stored
<1> QED
  BY <1>6, <1>7 DEF IInv

LEMMA Inductive == ASSUME IInv, [Next]_vars PROVE IInv'
<1>1. ASSUME NEW id \in Ids, Persist(id) PROVE IInv'
  BY <1>1 DEF Persist, IInv, Types, LiveInv, Leads, WatchInv, Pending, Stored
<1>2. CASE UNCHANGED vars
  BY <1>2 DEF vars, IInv, Types, LiveInv, Leads, WatchInv, Pending, Stored
<1> QED
  BY <1>1, <1>2, CreateSteps, UpdateSteps, DeleteSteps, GoroutineSteps, RestartStep DEF Next

LEMMA Invariance == Spec => []IInv
<1>1. Init => IInv
  BY Initially
<1>2. IInv /\ [Next]_vars => IInv'
  BY Inductive
<1> QED
  BY <1>1, <1>2, PTL DEF Spec

(* No interleaving of add, update, remove and restart leaves a collector   *)
(* polling that the Manager does not hold, for any number of requests.     *)
THEOREM NoLeak == Spec => []OnlyTrackedRuns
<1>1. IInv => OnlyTrackedRuns
  BY DEF IInv, LiveInv, Leads, OnlyTrackedRuns
<1> QED
  BY Invariance, <1>1, PTL

(* A stored cluster on which nothing is in flight has a running collector, *)
(* unless its delete stopped it and then failed, across crashes.           *)
THEOREM WatchKept == Spec => []StoredIsWatched
<1>1. IInv => StoredIsWatched
  <2> SUFFICES ASSUME IInv, NEW id \in Stored, Quiet(id), id \notin unstopped
               PROVE  tracked[id] # 0 /\ gens[id][tracked[id]].live
    BY DEF StoredIsWatched
  <2>1. id \in Ids /\ ~Pending(id)
    BY DEF Stored, Quiet, Pending
  <2> QED
    BY <2>1 DEF IInv, WatchInv, LiveInv, Leads
<1> QED
  BY Invariance, <1>1, PTL
------------------------------------------------------------------------------
(* What runs is what is stored. The generation that leads a cluster is     *)
(* built from its own configuration; a request that is alone on its        *)
(* cluster has stored what it will apply, and what nothing is about to     *)
(* apply already runs.                                                     *)

BuiltInv ==
  \A id \in Ids : tracked[id] # 0 =>
    gens[id][tracked[id]].built = gens[id][tracked[id]].env.conn

FreshInv ==
  /\ \A id \in Ids \ used : tracked[id] = 0
  /\ \A h \in Requests : req[h].pc # "idle" => req[h].id \in used

Alone(h) == \A k \in Requests \ {h} : req[k].pc # "idle" => req[k].id # req[h].id

AloneInv ==
  \A h \in Requests : req[h].pc # "idle" /\ req[h].id \notin raced =>
    /\ Alone(h)
    /\ req[h].pc \in {"add", "apply"} => rows[req[h].id] = req[h].cfg
    /\ req[h].pc \in {"add", "drop"} => tracked[req[h].id] = 0

Applying(id) == \E h \in Requests : req[h].pc = "apply" /\ req[h].id = id

MatchInv ==
  \A id \in Stored \ raced : tracked[id] # 0 /\ ~Applying(id) =>
    gens[id][tracked[id]].env = rows[id]

MInv == IInv /\ BuiltInv /\ FreshInv /\ AloneInv /\ MatchInv

(* What a step does to the generation that leads a cluster.                *)
LeadStays(id) ==
  /\ tracked'[id] = tracked[id]
  /\ tracked[id] # 0 =>
       /\ gens'[id][tracked[id]].env = gens[id][tracked[id]].env
       /\ gens'[id][tracked[id]].built = gens[id][tracked[id]].built

LeadIs(id, c) ==
  /\ tracked'[id] # 0
  /\ gens'[id][tracked'[id]].env = c /\ gens'[id][tracked'[id]].built = c.conn

OthersStay(id) == \A i \in Ids \ {id} : LeadStays(i)

LEMMA AddedLeads ==
  ASSUME Types, NEW id \in Ids, NEW c \in Configs, NEW g \in [1..Slots -> Generation],
         addClusterLocked(id, c, g)
  PROVE  LeadIs(id, c) /\ OthersStay(id)
<1>1. PICK n \in 1..Slots : /\ tracked' = [tracked EXCEPT ![id] = n]
                            /\ gens' = [gens EXCEPT ![id] = [g EXCEPT ![n] = Started(c)]]
  BY DEF addClusterLocked
<1>2. tracked'[id] = n /\ gens'[id][n] = Started(c)
  BY <1>1 DEF Types
<1>3. Started(c).env = c /\ Started(c).built = c.conn
  BY DEF Started
<1>4. OthersStay(id)
  BY <1>1 DEF OthersStay, LeadStays, Types
<1> QED
  BY <1>2, <1>3, <1>4 DEF LeadIs

LEMMA UpdatedLeads ==
  ASSUME Types, LiveInv, BuiltInv, NEW id \in Ids, NEW c \in Configs, UpdateCluster(id, c)
  PROVE  LeadIs(id, c) /\ OthersStay(id)
<1>1. CASE tracked[id] = 0
  <2>1. gens[id] \in [1..Slots -> Generation]
    BY DEF Types
  <2> QED
    BY <1>1, <2>1, AddedLeads DEF UpdateCluster
<1>2. CASE tracked[id] # 0 /\ NameOnly(id, c)
  <2> DEFINE t == tracked[id]
             r == [gens[id][t] EXCEPT !.env = c]
  <2>1. /\ t \in 1..Slots /\ gens[id] \in [1..Slots -> Generation]
        /\ gens[id][t] \in Generation /\ gens \in [Ids -> [1..Slots -> Generation]]
    BY <1>2 DEF Types
  <2>2. tracked' = tracked /\ gens' = [gens EXCEPT ![id] = [gens[id] EXCEPT ![t] = r]]
    BY <1>2, <2>1 DEF UpdateCluster, SwapLabel
  <2>3. r.env = c /\ r.built = gens[id][t].built
    BY <2>1 DEF Generation
  <2> HIDE DEF r
  <2>4. gens'[id][t] = r
    BY <2>1, <2>2
  <2>5. gens[id][t].built = c.conn
    BY <1>2 DEF BuiltInv, NameOnly
  <2>6. OthersStay(id)
    BY <2>1, <2>2 DEF OthersStay, LeadStays
  <2> QED
    BY <1>2, <2>2, <2>3, <2>4, <2>5, <2>6 DEF LeadIs
<1>3. CASE tracked[id] # 0 /\ ~NameOnly(id, c)
  BY <1>3, CancelledDead, AddedLeads DEF UpdateCluster
<1> QED
  BY <1>1, <1>2, <1>3

(* A request that begins makes its cluster raced unless it is alone there. *)
LEMMA Begins ==
  ASSUME Types, AloneInv, NEW h \in Requests, NEW id \in Ids, NEW c \in Configs,
         NEW pc \in {"add", "store", "drop"}, Starts(h, pc, id, c)
  PROVE  /\ raced \subseteq raced'
         /\ req'[h].pc = pc /\ req'[h].id = id /\ req'[h].cfg = c
         /\ \A k \in Requests \ {h} : req'[k] = req[k]
         /\ \A k \in Requests : req'[k].pc # "idle" /\ req'[k].id \notin raced' =>
              Alone(k)' /\ (k # h => req[k].id # id /\ req[k].id \notin raced)
<1>1. /\ req[h].pc = "idle" /\ req' = [req EXCEPT ![h] = [pc |-> pc, id |-> id, cfg |-> c]]
      /\ raced' = IF Quiet(id) THEN raced ELSE raced \cup {id}
  BY DEF Starts
<1>2. /\ req'[h] = [pc |-> pc, id |-> id, cfg |-> c]
      /\ \A k \in Requests \ {h} : req'[k] = req[k]
  BY <1>1 DEF Types
<1>3. raced \subseteq raced'
  BY <1>1
<1>4. ASSUME NEW k \in Requests, req'[k].pc # "idle", req'[k].id \notin raced'
      PROVE  Alone(k)' /\ (k # h => req[k].id # id /\ req[k].id \notin raced)
  <2>1. CASE k = h
    <3>1. Quiet(id)
      BY <1>1, <1>2, <1>4, <2>1
    <3> QED
      BY <1>2, <2>1, <3>1 DEF Quiet, Alone
  <2>2. CASE k # h
    <3>1. req'[k] = req[k] /\ req[k].id \notin raced /\ Alone(k)
      BY <1>2, <1>3, <1>4, <2>2 DEF AloneInv
    <3>2. req[k].id # id
      BY <1>1, <1>4, <3>1 DEF Quiet
    <3> QED
      BY <1>2, <2>2, <3>1, <3>2 DEF Alone
  <2> QED
    BY <2>1, <2>2
<1> QED
  BY <1>2, <1>3, <1>4

(* A request that goes on or ends stays as alone as it was.                *)
LEMMA Proceeds ==
  ASSUME Types, AloneInv, NEW h \in Requests, UNCHANGED raced, req[h].pc # "idle",
         req' = [req EXCEPT ![h] = Idle]
           \/ \E pc \in {"apply"} : req' = [req EXCEPT ![h].pc = pc]
  PROVE  /\ \A k \in Requests \ {h} : req'[k] = req[k]
         /\ req'[h].pc # "idle" => req'[h].pc = "apply" /\ req'[h].id = req[h].id
                                   /\ req'[h].cfg = req[h].cfg
         /\ \A k \in Requests : req'[k].pc # "idle" /\ req'[k].id \notin raced =>
              Alone(k)' /\ (k # h => req[k].id # req[h].id)
<1>1. /\ \A k \in Requests \ {h} : req'[k] = req[k]
      /\ req'[h].pc # "idle" => req'[h].pc = "apply" /\ req'[h].id = req[h].id
                                /\ req'[h].cfg = req[h].cfg
  BY Constants DEF Types
<1>2. ASSUME NEW k \in Requests, req'[k].pc # "idle", req'[k].id \notin raced
      PROVE  Alone(k)' /\ (k # h => req[k].id # req[h].id)
  <2>1. req[k].pc # "idle" /\ req[k].id = req'[k].id /\ Alone(k)
    BY <1>1, <1>2 DEF AloneInv
  <2> QED
    BY <1>1, <1>2, <2>1 DEF Alone
<1> QED
  BY <1>1, <1>2

LEMMA BuiltStep ==
  ASSUME BuiltInv, NEW id \in Ids, OthersStay(id),
         LeadStays(id) \/ tracked'[id] = 0 \/ \E c \in Configs : LeadIs(id, c)
  PROVE  BuiltInv'
BY DEF BuiltInv, OthersStay, LeadStays, LeadIs

LEMMA AllStay ==
  ASSUME UNCHANGED <<tracked, gens>> PROVE \A id \in Ids : LeadStays(id) /\ OthersStay(id)
BY DEF LeadStays, OthersStay

LEMMA CreateMatches ==
  ASSUME MInv, NEW h \in Requests
  PROVE  /\ \A id \in Ids, c \in Configs : CreateRow(h, id, c) =>
              BuiltInv' /\ FreshInv' /\ AloneInv' /\ MatchInv'
         /\ CreateAdd(h) => BuiltInv' /\ FreshInv' /\ AloneInv' /\ MatchInv'
<1>0. /\ Types /\ LiveInv /\ rows \in [Ids -> Configs \cup {None}] /\ Stored \subseteq used
      /\ \A k \in Requests : req[k].id \in Ids /\ req[k].cfg \in Configs
  BY DEF MInv, IInv, Types
<1>1. ASSUME NEW id \in Ids, NEW c \in Configs, CreateRow(h, id, c)
      PROVE  BuiltInv' /\ FreshInv' /\ AloneInv' /\ MatchInv'
  <2>1. /\ Starts(h, "add", id, c) /\ id \notin used /\ used' = used \cup {id}
        /\ rows' = [rows EXCEPT ![id] = c] /\ UNCHANGED <<tracked, gens>>
    BY <1>1 DEF CreateRow, CreateCluster
  <2>2. /\ raced \subseteq raced' /\ req'[h].id = id /\ req'[h].cfg = c /\ req'[h].pc = "add"
        /\ \A k \in Requests \ {h} : req'[k] = req[k]
        /\ \A k \in Requests : req'[k].pc # "idle" /\ req'[k].id \notin raced' =>
             Alone(k)' /\ (k # h => req[k].id # id /\ req[k].id \notin raced)
    BY <1>0, <2>1, Begins DEF MInv
  <2>3. tracked[id] = 0 /\ rows'[id] = c /\ \A i \in Ids \ {id} : rows'[i] = rows[i]
    BY <1>0, <2>1 DEF MInv, FreshInv
  <2>4. BuiltInv' /\ FreshInv'
    BY <2>1, <2>2 DEF MInv, BuiltInv, FreshInv
  <2>5. AloneInv'
    BY <1>0, <2>1, <2>2, <2>3 DEF MInv, AloneInv
  <2>6. MatchInv'
    <3>1. req[h].pc = "idle"
      BY <2>1 DEF Starts
    <3>2. \A i \in Ids : Applying(i) => Applying(i)'
      BY <2>2, <3>1 DEF Applying
    <3>3. \A i \in Ids \ {id} : i \in Stored' => i \in Stored
      BY <2>3 DEF Stored
    <3>4. Stored' \subseteq Ids
      BY DEF Stored
    <3> QED
      BY <2>1, <2>2, <2>3, <3>2, <3>3, <3>4 DEF MInv, MatchInv
  <2> QED
    BY <2>4, <2>5, <2>6
<1>2. ASSUME CreateAdd(h) PROVE BuiltInv' /\ FreshInv' /\ AloneInv' /\ MatchInv'
  <2> DEFINE id == req[h].id
  <2>1. /\ req[h].pc = "add" /\ req' = [req EXCEPT ![h] = Idle] /\ AddCluster(id, req[h].cfg)
        /\ UNCHANGED <<rows, used, raced>>
    BY <1>2 DEF CreateAdd, Ends
  <2>2. /\ \A k \in Requests \ {h} : req'[k] = req[k]
        /\ req'[h].pc # "idle" => req'[h].pc = "apply" /\ req'[h].id = req[h].id
                                  /\ req'[h].cfg = req[h].cfg
        /\ \A k \in Requests : req'[k].pc # "idle" /\ req'[k].id \notin raced =>
             Alone(k)' /\ (k # h => req[k].id # id)
    BY <1>0, <2>1, Proceeds DEF MInv
  <2>3. /\ OthersStay(id)
        /\ \/ LeadStays(id) /\ tracked[id] # 0
           \/ LeadIs(id, req[h].cfg)
    <3>1. CASE tracked[id] # 0
      BY <2>1, <3>1, AllStay, <1>0 DEF AddCluster
    <3>2. CASE tracked[id] = 0
      <4>1. gens[id] \in [1..Slots -> Generation]
        BY <1>0 DEF Types
      <4> QED
        BY <1>0, <2>1, <3>2, <4>1, AddedLeads DEF AddCluster
    <3> QED
      BY <3>1, <3>2
  <2>4. BuiltInv'
    BY <1>0, <2>3, BuiltStep DEF MInv
  <2>5. req'[h].pc = "idle"
    BY <2>1, Constants, <1>0 DEF Types
  <2>6. AloneInv'
    BY <1>0, <2>1, <2>2, <2>3, <2>5 DEF MInv, AloneInv, OthersStay, LeadStays
  <2>7. Stored' = Stored /\ Stored \subseteq Ids
    BY <2>1 DEF Stored
  <2>8. FreshInv'
    <3>1. id \in used
      BY <2>1 DEF MInv, FreshInv
    <3> QED
      BY <2>1, <2>2, <2>3, <2>5, <3>1 DEF MInv, FreshInv, OthersStay, LeadStays
  <2>9. MatchInv'
    <3>1. \A i \in Ids : Applying(i) => Applying(i)'
      BY <2>1, <2>2 DEF Applying
    <3>2. id \notin raced => rows[id] = req[h].cfg /\ tracked[id] = 0
      BY <2>1 DEF MInv, AloneInv
    <3> QED
      BY <2>1, <2>3, <2>7, <3>1, <3>2 DEF MInv, MatchInv, OthersStay, LeadStays, LeadIs
  <2> QED
    BY <2>4, <2>6, <2>8, <2>9
<1> QED
  BY <1>1, <1>2

LEMMA UpdateMatches ==
  ASSUME MInv, NEW h \in Requests
  PROVE  /\ \A id \in Ids, c \in Configs : UpdateLoad(h, id, c) =>
              BuiltInv' /\ FreshInv' /\ AloneInv' /\ MatchInv'
         /\ UpdateStore(h) => BuiltInv' /\ FreshInv' /\ AloneInv' /\ MatchInv'
         /\ UpdateApply(h) => BuiltInv' /\ FreshInv' /\ AloneInv' /\ MatchInv'
<1>0. /\ Types /\ LiveInv /\ rows \in [Ids -> Configs \cup {None}] /\ Stored \subseteq Ids
      /\ \A k \in Requests : req[k].id \in Ids /\ req[k].cfg \in Configs
  BY DEF MInv, IInv, Types, Stored
<1>1. ASSUME NEW id \in Ids, NEW c \in Configs, UpdateLoad(h, id, c)
      PROVE  BuiltInv' /\ FreshInv' /\ AloneInv' /\ MatchInv'
  <2>1. /\ Starts(h, "store", id, c) /\ id \in used /\ req[h].pc = "idle"
        /\ UNCHANGED <<rows, used, tracked, gens>>
    BY <1>1 DEF UpdateLoad, Starts
  <2>2. /\ raced \subseteq raced' /\ req'[h].id = id /\ req'[h].pc = "store"
        /\ \A k \in Requests \ {h} : req'[k] = req[k]
        /\ \A k \in Requests : req'[k].pc # "idle" /\ req'[k].id \notin raced' =>
             Alone(k)' /\ (k # h => req[k].id # id /\ req[k].id \notin raced)
    BY <1>0, <2>1, Begins DEF MInv
  <2>3. BuiltInv' /\ FreshInv'
    BY <2>1, <2>2 DEF MInv, BuiltInv, FreshInv
  <2>4. AloneInv'
    BY <2>1, <2>2 DEF MInv, AloneInv
  <2>5. \A i \in Ids : Applying(i) => Applying(i)'
    BY <2>1, <2>2 DEF Applying
  <2>6. MatchInv'
    BY <1>0, <2>1, <2>2, <2>5 DEF MInv, MatchInv, Stored
  <2> QED
    BY <2>3, <2>4, <2>6
<1>2. ASSUME UpdateStore(h) PROVE BuiltInv' /\ FreshInv' /\ AloneInv' /\ MatchInv'
  <2> DEFINE id == req[h].id
  <2>1. /\ req[h].pc = "store" /\ UNCHANGED <<used, tracked, gens, raced>>
        /\ \/ rows' = [rows EXCEPT ![id] = req[h].cfg] /\ req' = [req EXCEPT ![h].pc = "apply"]
           \/ rows' = rows /\ req' = [req EXCEPT ![h] = Idle]
        /\ Stored' = Stored
    BY <1>0, <1>2 DEF UpdateStore, StoreCluster, Goto, Ends, Stored
  <2>2. /\ \A k \in Requests \ {h} : req'[k] = req[k]
        /\ req'[h].pc # "idle" => req'[h].pc = "apply" /\ req'[h].id = req[h].id
                                  /\ req'[h].cfg = req[h].cfg
        /\ \A k \in Requests : req'[k].pc # "idle" /\ req'[k].id \notin raced =>
             Alone(k)' /\ (k # h => req[k].id # id)
    BY <1>0, <2>1, Proceeds DEF MInv
  <2>3. /\ \A i \in Ids \ {id} : rows'[i] = rows[i]
        /\ \/ /\ rows'[id] = req[h].cfg
              /\ req'[h].pc = "apply" /\ req'[h].id = id
           \/ rows'[id] = rows[id] /\ req'[h].pc = "idle"
    BY <1>0, <2>1, Constants DEF Types
  <2>4. BuiltInv' /\ FreshInv'
    BY <2>1, <2>2 DEF MInv, BuiltInv, FreshInv
  <2>5. AloneInv'
    <3>1. req'[h].pc # "idle" => rows'[id] = req'[h].cfg
      BY <1>0, <2>1, <2>2, Constants DEF Types
    <3> QED
      BY <1>0, <2>1, <2>2, <2>3, <3>1 DEF MInv, AloneInv
  <2>6. \A i \in Ids : Applying(i) => Applying(i)'
    BY <2>1, <2>2 DEF Applying
  <2>7. \A i \in Ids : ~Applying(i)' => ~Applying(i) /\ rows'[i] = rows[i]
    <3> SUFFICES ASSUME NEW i \in Ids, ~Applying(i)' PROVE ~Applying(i) /\ rows'[i] = rows[i]
      OBVIOUS
    <3>1. ~Applying(i)
      BY <2>6
    <3>2. i = id => rows'[i] = rows[i]
      BY <2>3 DEF Applying
    <3> QED
      BY <2>3, <3>1, <3>2
  <2>8. MatchInv'
    BY <1>0, <2>1, <2>7 DEF MInv, MatchInv
  <2> QED
    BY <2>4, <2>5, <2>8
<1>3. ASSUME UpdateApply(h) PROVE BuiltInv' /\ FreshInv' /\ AloneInv' /\ MatchInv'
  <2> DEFINE id == req[h].id
  <2>1. /\ req[h].pc = "apply" /\ req' = [req EXCEPT ![h] = Idle]
        /\ UpdateCluster(id, req[h].cfg) /\ UNCHANGED <<rows, used, raced>>
    BY <1>3 DEF UpdateApply, Ends
  <2>2. /\ \A k \in Requests \ {h} : req'[k] = req[k]
        /\ \A k \in Requests : req'[k].pc # "idle" /\ req'[k].id \notin raced =>
             Alone(k)' /\ (k # h => req[k].id # id)
    BY <1>0, <2>1, Proceeds DEF MInv
  <2>3. LeadIs(id, req[h].cfg) /\ OthersStay(id) /\ req'[h].pc = "idle"
    BY <1>0, <2>1, UpdatedLeads, Constants DEF MInv, Types
  <2>4. BuiltInv'
    BY <1>0, <2>3, BuiltStep DEF MInv
  <2>5. FreshInv'
    <3>1. id \in used
      BY <2>1 DEF MInv, FreshInv
    <3> QED
      BY <2>1, <2>2, <2>3, <3>1 DEF MInv, FreshInv, OthersStay, LeadStays
  <2>6. AloneInv'
    BY <1>0, <2>1, <2>2, <2>3 DEF MInv, AloneInv, OthersStay, LeadStays
  <2>7. MatchInv'
    <3>1. \A i \in Ids \ {id} : Applying(i) => Applying(i)'
      BY <2>2 DEF Applying
    <3>2. id \notin raced => rows[id] = req[h].cfg
      BY <2>1 DEF MInv, AloneInv
    <3>3. Stored' = Stored
      BY <2>1 DEF Stored
    <3> QED
      BY <1>0, <2>1, <2>3, <3>1, <3>2, <3>3 DEF MInv, MatchInv, OthersStay, LeadStays, LeadIs
  <2> QED
    BY <2>4, <2>5, <2>6, <2>7
<1> QED
  BY <1>1, <1>2, <1>3

LEMMA DeleteMatches ==
  ASSUME MInv, NEW h \in Requests
  PROVE  /\ \A id \in Ids : DeleteStop(h, id) => BuiltInv' /\ FreshInv' /\ AloneInv' /\ MatchInv'
         /\ DeleteRows(h) => BuiltInv' /\ FreshInv' /\ AloneInv' /\ MatchInv'
<1>0. /\ Types /\ rows \in [Ids -> Configs \cup {None}] /\ Stored \subseteq Ids
      /\ \A k \in Requests : req[k].id \in Ids
  BY DEF MInv, IInv, Types, Stored
<1>1. ASSUME NEW id \in Ids, DeleteStop(h, id)
      PROVE  BuiltInv' /\ FreshInv' /\ AloneInv' /\ MatchInv'
  <2>1. /\ Starts(h, "drop", id, SomeConfig) /\ id \in used /\ req[h].pc = "idle"
        /\ RemoveCluster(id) /\ UNCHANGED <<rows, used>>
    BY <1>1 DEF DeleteStop, Starts
  <2>2. /\ raced \subseteq raced' /\ req'[h].id = id /\ req'[h].pc = "drop"
        /\ \A k \in Requests \ {h} : req'[k] = req[k]
        /\ \A k \in Requests : req'[k].pc # "idle" /\ req'[k].id \notin raced' =>
             Alone(k)' /\ (k # h => req[k].id # id /\ req[k].id \notin raced)
    BY <1>0, <2>1, Constants, Begins DEF MInv
  <2>3. tracked'[id] = 0 /\ OthersStay(id)
    BY <1>0, <2>1 DEF RemoveCluster, OthersStay, LeadStays, Types
  <2>4. BuiltInv'
    BY <2>3, BuiltStep DEF MInv
  <2>5. FreshInv'
    BY <2>1, <2>2, <2>3 DEF MInv, FreshInv, OthersStay, LeadStays
  <2>6. AloneInv'
    BY <1>0, <2>1, <2>2, <2>3 DEF MInv, AloneInv, OthersStay, LeadStays
  <2>7. MatchInv'
    <3>1. \A i \in Ids : Applying(i) => Applying(i)'
      BY <2>1, <2>2 DEF Applying
    <3>2. Stored' = Stored
      BY <2>1 DEF Stored
    <3> QED
      BY <1>0, <2>1, <2>2, <2>3, <3>1, <3>2 DEF MInv, MatchInv, OthersStay, LeadStays
  <2> QED
    BY <2>4, <2>5, <2>6, <2>7
<1>2. ASSUME DeleteRows(h) PROVE BuiltInv' /\ FreshInv' /\ AloneInv' /\ MatchInv'
  <2> DEFINE id == req[h].id
  <2>1. /\ req[h].pc = "drop" /\ req' = [req EXCEPT ![h] = Idle]
        /\ UNCHANGED <<used, tracked, gens, raced>>
        /\ rows' = rows \/ rows' = [rows EXCEPT ![id] = None]
    BY <1>2 DEF DeleteRows, DeleteCluster, Ends
  <2>2. /\ \A k \in Requests \ {h} : req'[k] = req[k]
        /\ \A k \in Requests : req'[k].pc # "idle" /\ req'[k].id \notin raced =>
             Alone(k)' /\ (k # h => req[k].id # id)
    BY <1>0, <2>1, Proceeds DEF MInv
  <2>3. /\ req'[h].pc = "idle" /\ Stored' \subseteq Stored
        /\ \A i \in Ids \ {id} : rows'[i] = rows[i]
        /\ \A i \in Stored' : rows'[i] = rows[i]
    BY <1>0, <2>1, Constants DEF Types, Stored
  <2>4. BuiltInv' /\ FreshInv'
    BY <2>1, <2>2, <2>3 DEF MInv, BuiltInv, FreshInv
  <2>5. AloneInv'
    BY <1>0, <2>1, <2>2, <2>3 DEF MInv, AloneInv
  <2>6. \A i \in Ids : Applying(i) => Applying(i)'
    BY <2>1, <2>2 DEF Applying
  <2>7. MatchInv'
    BY <1>0, <2>1, <2>3, <2>6 DEF MInv, MatchInv
  <2> QED
    BY <2>4, <2>5, <2>7
<1> QED
  BY <1>1, <1>2

(* A goroutine moves a generation and never its configuration.             *)
LEMMA GoroutineStays ==
  ASSUME Types, NEW id \in Ids, NEW n \in 1..Slots,
         Poll(id, n) \/ Sample(id, n) \/ Submit(id, n) \/ Stop(id, n) \/ DiscoveryEnds(id, n)
  PROVE  (\A i \in Ids : LeadStays(i)) /\ UNCHANGED <<rows, used, tracked, req, raced>>
<1>1. /\ gens \in [Ids -> [1..Slots -> Generation]] /\ tracked \in [Ids -> 0..Slots]
      /\ Stored \subseteq Ids /\ gens[id][n] \in Generation
  BY DEF Types, Stored
<1>2. UNCHANGED <<rows, used, tracked, req, raced>>
  BY DEF Poll, Sample, Submit, Stop, DiscoveryEnds
<1>3. \E r : /\ gens' = [gens EXCEPT ![id][n] = r]
             /\ r.env = gens[id][n].env /\ r.built = gens[id][n].built
  <2>1. ASSUME NEW p, Moves(id, n, p)
        PROVE  \E r : /\ gens' = [gens EXCEPT ![id][n] = r]
                      /\ r.env = gens[id][n].env /\ r.built = gens[id][n].built
    <3> DEFINE r == [gens[id][n] EXCEPT !.poll = p]
    <3>1. gens' = [gens EXCEPT ![id][n] = r]
      BY <2>1 DEF Moves
    <3>2. r.env = gens[id][n].env /\ r.built = gens[id][n].built
      BY <1>1 DEF Generation
    <3> QED
      BY <3>1, <3>2
  <2>2. CASE Sample(id, n) \/ Submit(id, n) \/ Stop(id, n)
    <3>1. PICK p \in {"poll", "submit", "off"} : Moves(id, n, p)
      BY <2>2 DEF Sample, Submit, Stop
    <3> QED
      BY <2>1, <3>1
  <2>3. CASE Poll(id, n)
    <3>1. PICK d \in BOOLEAN :
            gens' = [gens EXCEPT ![id][n] = [gens[id][n] EXCEPT !.poll = "notify", !.disc = d]]
      BY <1>1, <2>3 DEF Poll, Generation
    <3> DEFINE r == [gens[id][n] EXCEPT !.poll = "notify", !.disc = d]
    <3>2. r.env = gens[id][n].env /\ r.built = gens[id][n].built
      BY <1>1 DEF Generation
    <3> QED
      BY <3>1, <3>2
  <2>4. CASE DiscoveryEnds(id, n)
    <3> DEFINE r == [gens[id][n] EXCEPT !.disc = FALSE]
    <3>1. gens' = [gens EXCEPT ![id][n] = r]
      BY <2>4 DEF DiscoveryEnds
    <3>2. r.env = gens[id][n].env /\ r.built = gens[id][n].built
      BY <1>1 DEF Generation
    <3> QED
      BY <3>1, <3>2
  <2> QED
    BY <2>2, <2>3, <2>4
<1>4. \A i \in Ids : LeadStays(i)
  BY <1>1, <1>2, <1>3 DEF LeadStays
<1> QED
  BY <1>2, <1>4

LEMMA GoroutineMatches ==
  ASSUME MInv, NEW id \in Ids, NEW n \in 1..Slots,
         Poll(id, n) \/ Sample(id, n) \/ Submit(id, n) \/ Stop(id, n) \/ DiscoveryEnds(id, n)
  PROVE  BuiltInv' /\ FreshInv' /\ AloneInv' /\ MatchInv'
<1>1. (\A i \in Ids : LeadStays(i)) /\ UNCHANGED <<rows, used, tracked, req, raced>>
  BY GoroutineStays DEF MInv, IInv
<1>2. BuiltInv'
  BY <1>1 DEF MInv, BuiltInv, LeadStays
<1>3. FreshInv' /\ AloneInv'
  BY <1>1 DEF MInv, FreshInv, AloneInv, Alone
<1>4. Stored' = Stored /\ Stored \subseteq Ids /\ \A i \in Ids : Applying(i)' <=> Applying(i)
  BY <1>1 DEF Applying, Stored
<1>5. MatchInv'
  BY <1>1, <1>4 DEF MInv, MatchInv, LeadStays
<1> QED
  BY <1>2, <1>3, <1>5

(* At a start every collector is built from its row.                       *)
FromRows(r, t, g) ==
  \A id \in Ids : t[id] # 0 =>
    r[id] # None /\ g[id][t[id]].env = r[id] /\ g[id][t[id]].built = r[id].conn

LEMMA StartMatches ==
  ASSUME NEW r \in [Ids -> Configs \cup {None}], NEW t, NEW g,
         t = [i \in Ids |-> IF r[i] # None THEN 1 ELSE 0],
         g = [i \in Ids |-> [n \in 1..Slots |->
                IF n = 1 /\ r[i] # None THEN Started(r[i]) ELSE NoGeneration]]
  PROVE  FromRows(r, t, g)
<1> SUFFICES ASSUME NEW id \in Ids, t[id] # 0
             PROVE  r[id] # None /\ g[id][t[id]].env = r[id] /\ g[id][t[id]].built = r[id].conn
  BY DEF FromRows
<1>1. r[id] # None /\ t[id] = 1 /\ 1 \in 1..Slots
  OBVIOUS
<1>2. g[id][1] = Started(r[id])
  BY <1>1
<1> QED
  BY <1>1, <1>2 DEF Started

LEMMA RestartMatches ==
  ASSUME MInv, Restart PROVE BuiltInv' /\ FreshInv' /\ AloneInv' /\ MatchInv'
<1>1. PICK seeds \in Files : \E r \in Seeded(rows, Ids \ used, seeds) : LoadRows(r)
  BY DEF Restart
<1>2. PICK r \in Seeded(rows, Ids \ used, seeds) : LoadRows(r)
  BY <1>1
<1>3. r \in [Ids -> Configs \cup {None}]
  BY <1>2, SeededRows DEF MInv, IInv, Types
<1>4. /\ rows' = r /\ used' = used \cup {id \in Ids : r[id] # None}
      /\ tracked' = [id \in Ids |-> IF r[id] # None THEN 1 ELSE 0]
      /\ gens' = [id \in Ids |-> [n \in 1..Slots |->
                    IF n = 1 /\ r[id] # None THEN Started(r[id]) ELSE NoGeneration]]
      /\ \A h \in Requests : req'[h].pc = "idle"
  BY <1>2, Constants DEF LoadRows, Restart
<1>5. FromRows(rows', tracked', gens')
  BY <1>3, <1>4, StartMatches
<1> QED
  BY <1>4, <1>5 DEF FromRows, BuiltInv, FreshInv, AloneInv, MatchInv, Stored
------------------------------------------------------------------------------
LEMMA InitiallyMatches == ASSUME Init PROVE MInv
<1>1. IInv /\ rows \in [Ids -> Configs \cup {None}]
  BY Initially DEF IInv, Types
<1>2. \A id \in Ids : id \in used <=> rows[id] # None
  BY DEF Init, Stored
<1>3. /\ tracked = [id \in Ids |-> IF rows[id] # None THEN 1 ELSE 0]
      /\ gens = [id \in Ids |-> [n \in 1..Slots |->
                   IF n = 1 /\ rows[id] # None THEN Started(rows[id]) ELSE NoGeneration]]
      /\ \A h \in Requests : req[h].pc = "idle"
  BY <1>2, Constants DEF Init
<1>4. FromRows(rows, tracked, gens)
  BY <1>1, <1>3, StartMatches
<1> QED
  BY <1>1, <1>2, <1>3, <1>4 DEF FromRows, MInv, BuiltInv, FreshInv, AloneInv, MatchInv, Stored

LEMMA InductiveMatches == ASSUME MInv, [Next]_vars PROVE MInv'
<1>1. IInv'
  BY Inductive DEF MInv
<1>2. ASSUME NEW id \in Ids, Persist(id) PROVE BuiltInv' /\ FreshInv' /\ AloneInv' /\ MatchInv'
  BY <1>2 DEF Persist, MInv, BuiltInv, FreshInv, AloneInv, Alone, MatchInv, Applying, Stored
<1>3. CASE UNCHANGED vars
  BY <1>1, <1>3
     DEF vars, MInv, BuiltInv, FreshInv, AloneInv, Alone, MatchInv, Applying, Stored
<1>4. CASE Next
  <2>1. BuiltInv' /\ FreshInv' /\ AloneInv' /\ MatchInv'
    BY <1>2, <1>4, CreateMatches, UpdateMatches, DeleteMatches, GoroutineMatches, RestartMatches
       DEF Next
  <2> QED
    BY <1>1, <2>1 DEF MInv
<1> QED
  BY <1>3, <1>4

(* A cluster on which no two requests have overlapped runs what its row    *)
(* says, for any number of clusters, of configurations and of requests,    *)
(* across crashes inside a request (handleUpdateCluster stores the row     *)
(* before it updates the collector).                                       *)
THEOREM LiveMatches == Spec => []LiveMatchesStored
<1>1. Init => MInv
  BY InitiallyMatches
<1>2. MInv /\ [Next]_vars => MInv'
  BY InductiveMatches
<1>3. MInv => LiveMatchesStored
  <2> SUFFICES ASSUME MInv, NEW id \in Stored \ raced, Quiet(id), tracked[id] # 0
               PROVE  LET g == gens[id][tracked[id]] IN
                        g.env = rows[id] /\ g.built = rows[id].conn
    BY DEF LiveMatchesStored
  <2>1. id \in Ids /\ ~Applying(id)
    BY DEF Stored, Quiet, Applying
  <2> QED
    BY <2>1 DEF MInv, BuiltInv, MatchInv
<1> QED
  BY <1>1, <1>2, <1>3, PTL DEF Spec
------------------------------------------------------------------------------
(* The refinement of ClusterBook. What polls is the generation that the    *)
(* Manager has, so it changes as LeadStays and LeadIs say.                 *)

running == [id \in Ids |-> Runs(id)]

Polled(g) ==
  LET live == {n \in 1..Slots : g[n].live} IN
  IF live = {} THEN None ELSE g[CHOOSE n \in live : TRUE].env

LEMMA LeadIsPolled ==
  ASSUME NEW t \in 0..Slots, NEW g, Leads(t, g)
  PROVE  Polled(g) = IF t = 0 THEN None ELSE g[t].env
<1> DEFINE live == {n \in 1..Slots : g[n].live}
<1>1. CASE t = 0
  <2>1. live = {}
    BY <1>1 DEF Leads
  <2> QED
    BY <1>1, <2>1 DEF Polled
<1>2. CASE t # 0
  <2>1. live = {t}
    BY <1>2 DEF Leads
  <2>2. (CHOOSE n \in live : TRUE) = t
    BY <2>1
  <2> QED
    BY <1>2, <2>1, <2>2 DEF Polled
<1> QED
  BY <1>1, <1>2

LEMMA RunsAre ==
  ASSUME Types, LiveInv, Types', LiveInv', NEW id \in Ids
  PROVE  /\ LeadStays(id) => running'[id] = running[id]
         /\ tracked'[id] = 0 => running'[id] = None
         /\ running[id] = None => tracked[id] = 0
         /\ tracked[id] = 0 => running[id] = None
         /\ \A c \in Configs : LeadIs(id, c) => running'[id] = c
<1>1. running[id] = IF tracked[id] = 0 THEN None ELSE gens[id][tracked[id]].env
  <2>1. running[id] = Polled(gens[id])
    BY DEF running, Runs, Polled
  <2>2. tracked[id] \in 0..Slots /\ Leads(tracked[id], gens[id])
    BY DEF Types, LiveInv
  <2> QED
    BY <2>1, <2>2, LeadIsPolled
<1>2. running'[id] = IF tracked'[id] = 0 THEN None ELSE gens'[id][tracked'[id]].env
  <2>1. running'[id] = Polled(gens'[id])
    BY DEF running, Runs, Polled
  <2>2. tracked'[id] \in 0..Slots /\ Leads(tracked'[id], gens'[id])
    BY DEF Types, LiveInv
  <2> QED
    BY <2>1, <2>2, LeadIsPolled
<1>3. tracked[id] # 0 => gens[id][tracked[id]].env \in Configs
  BY DEF Types, Generation
<1> QED
  BY <1>1, <1>2, <1>3 DEF LeadStays, LeadIs

(* A step that leaves the other clusters alone changes one entry.          *)
LEMMA RunsChange ==
  ASSUME Types, LiveInv, Types', LiveInv', NEW id \in Ids, OthersStay(id)
  PROVE  running' = [running EXCEPT ![id] = running'[id]]
<1>1. \A i \in Ids \ {id} : running'[i] = running[i]
  BY RunsAre DEF OthersStay
<1>2. /\ running = [i \in Ids |-> running[i]] /\ running' = [i \in Ids |-> running'[i]]
  BY DEF running
<1> QED
  BY <1>1, <1>2

LEMMA RunsSame ==
  ASSUME Types, LiveInv, Types', LiveInv', \A id \in Ids : LeadStays(id)
  PROVE  running' = running
<1>1. \A i \in Ids : running'[i] = running[i]
  BY RunsAre
<1>2. /\ running = [i \in Ids |-> running[i]] /\ running' = [i \in Ids |-> running'[i]]
  BY DEF running
<1> QED
  BY <1>1, <1>2

(* Every step is a step of ClusterBook or none.                            *)
BookStep == Book!Next \/ UNCHANGED <<rows, running, used, raced>>

LEMMA BookCases ==
  ASSUME \/ \E id \in Ids :
              \/ Book!Follow(id) \/ Book!Halt(id) \/ Book!Erase(id) \/ Book!Contend(id)
              \/ \E c \in Configs :
                   Book!Create(id, c) \/ Book!Change(id, c) \/ Book!Overtake(id, c)
         \/ Book!Restart
  PROVE  BookStep
BY DEF BookStep, Book!Next

LEMMA Applied ==
  ASSUME MInv, MInv', NEW id \in Ids, NEW c \in Configs, LeadIs(id, c), OthersStay(id),
         id \notin raced => rows[id] = c, UNCHANGED <<rows, used, raced>>
  PROVE  BookStep
<1>1. running' = [running EXCEPT ![id] = c]
  <2>1. running'[id] = c /\ running' = [running EXCEPT ![id] = running'[id]]
    BY RunsAre, RunsChange DEF MInv, IInv
  <2> QED
    BY <2>1
<1>2. CASE id \in raced
  <2>1. Book!Overtake(id, c)
    BY <1>1, <1>2 DEF Book!Overtake, running
  <2> QED
    BY <2>1, BookCases
<1>3. CASE id \notin raced
  <2>1. rows[id] = c /\ c # None
    BY <1>3
  <2>2. Book!Follow(id)
    BY <1>1, <2>1 DEF Book!Follow, running
  <2> QED
    BY <2>2, BookCases
<1> QED
  BY <1>2, <1>3

LEMMA CreateKeepsBook ==
  ASSUME MInv, MInv', NEW h \in Requests
  PROVE  /\ \A id \in Ids, c \in Configs : CreateRow(h, id, c) => BookStep
         /\ CreateAdd(h) => BookStep
<1>0. /\ Types /\ LiveInv /\ Types' /\ LiveInv'
      /\ \A k \in Requests : req[k].id \in Ids /\ req[k].cfg \in Configs
  BY DEF MInv, IInv, Types
<1>1. ASSUME NEW id \in Ids, NEW c \in Configs, CreateRow(h, id, c) PROVE BookStep
  <2>1. /\ id \notin used /\ used' = used \cup {id} /\ rows' = [rows EXCEPT ![id] = c]
        /\ UNCHANGED gens
    BY <1>1 DEF CreateRow, CreateCluster
  <2>2. Quiet(id)
    BY <2>1 DEF MInv, FreshInv, Quiet
  <2>3. UNCHANGED raced
    BY <1>1, <2>2 DEF CreateRow, Starts
  <2>4. running' = running
    BY <2>1 DEF running, Runs
  <2>5. Book!Create(id, c)
    BY <2>1, <2>3, <2>4 DEF Book!Create, running
  <2> QED
    BY <2>5, BookCases
<1>2. ASSUME CreateAdd(h) PROVE BookStep
  <2> DEFINE id == req[h].id
  <2>1. /\ req[h].pc = "add" /\ AddCluster(id, req[h].cfg) /\ UNCHANGED <<rows, used, raced>>
    BY <1>2 DEF CreateAdd
  <2>2. CASE tracked[id] # 0
    <3>1. UNCHANGED gens
      BY <2>1, <2>2 DEF AddCluster
    <3>2. running' = running
      BY <3>1 DEF running, Runs
    <3> QED
      BY <2>1, <3>2 DEF BookStep
  <2>3. CASE tracked[id] = 0
    <3>1. LeadIs(id, req[h].cfg) /\ OthersStay(id)
      <4>1. gens[id] \in [1..Slots -> Generation]
        BY <1>0 DEF Types
      <4> QED
        BY <1>0, <2>1, <2>3, <4>1, AddedLeads DEF AddCluster
    <3>2. id \notin raced => rows[id] = req[h].cfg
      BY <2>1 DEF MInv, AloneInv
    <3> QED
      BY <1>0, <2>1, <3>1, <3>2, Applied
  <2> QED
    BY <2>2, <2>3
<1> QED
  BY <1>1, <1>2

LEMMA UpdateKeepsBook ==
  ASSUME MInv, MInv', NEW h \in Requests
  PROVE  /\ \A id \in Ids, c \in Configs : UpdateLoad(h, id, c) => BookStep
         /\ UpdateStore(h) => BookStep
         /\ UpdateApply(h) => BookStep
<1>0. /\ Types /\ LiveInv /\ Types' /\ LiveInv'
      /\ \A k \in Requests : req[k].id \in Ids /\ req[k].cfg \in Configs
  BY DEF MInv, IInv, Types
<1>1. ASSUME NEW id \in Ids, NEW c \in Configs, UpdateLoad(h, id, c) PROVE BookStep
  <2>1. UNCHANGED <<rows, used, gens>> /\ raced' \in {raced, raced \cup {id}}
    BY <1>1 DEF UpdateLoad, Starts
  <2>2. running' = running
    BY <2>1 DEF running, Runs
  <2>3. CASE raced' = raced
    BY <2>1, <2>2, <2>3 DEF BookStep
  <2>4. CASE raced' = raced \cup {id}
    <3>1. Book!Contend(id)
      BY <2>1, <2>2, <2>4 DEF Book!Contend, running
    <3> QED
      BY <3>1, BookCases
  <2> QED
    BY <2>1, <2>3, <2>4
<1>2. ASSUME UpdateStore(h) PROVE BookStep
  <2> DEFINE id == req[h].id
  <2>1. UNCHANGED <<used, gens, raced>>
    BY <1>2 DEF UpdateStore
  <2>2. running' = running
    BY <2>1 DEF running, Runs
  <2>3. CASE UNCHANGED rows
    BY <2>1, <2>2, <2>3 DEF BookStep
  <2>4. CASE StoreCluster(id, req[h].cfg)
    <3>1. Book!Change(id, req[h].cfg)
      BY <2>1, <2>2, <2>4 DEF Book!Change, StoreCluster, running
    <3> QED
      BY <1>0, <3>1, BookCases
  <2> QED
    BY <1>2, <2>3, <2>4 DEF UpdateStore
<1>3. ASSUME UpdateApply(h) PROVE BookStep
  <2> DEFINE id == req[h].id
  <2>1. /\ req[h].pc = "apply" /\ UpdateCluster(id, req[h].cfg)
        /\ UNCHANGED <<rows, used, raced>>
    BY <1>3 DEF UpdateApply
  <2>2. LeadIs(id, req[h].cfg) /\ OthersStay(id)
    BY <1>0, <2>1, UpdatedLeads DEF MInv
  <2>3. id \notin raced => rows[id] = req[h].cfg
    BY <2>1 DEF MInv, AloneInv
  <2> QED
    BY <1>0, <2>1, <2>2, <2>3, Applied
<1> QED
  BY <1>1, <1>2, <1>3

LEMMA DeleteKeepsBook ==
  ASSUME MInv, MInv', NEW h \in Requests
  PROVE  /\ \A id \in Ids : DeleteStop(h, id) => BookStep
         /\ DeleteRows(h) => BookStep
<1>0. /\ Types /\ LiveInv /\ Types' /\ LiveInv'
      /\ \A k \in Requests : req[k].id \in Ids
  BY DEF MInv, IInv, Types
<1>1. ASSUME NEW id \in Ids, DeleteStop(h, id) PROVE BookStep
  <2>1. /\ UNCHANGED <<rows, used>> /\ raced' \in {raced, raced \cup {id}}
        /\ RemoveCluster(id)
    BY <1>1 DEF DeleteStop, Starts
  <2>2. tracked'[id] = 0 /\ OthersStay(id)
    BY <1>0, <2>1 DEF RemoveCluster, OthersStay, LeadStays, Types
  <2>3. running'[id] = None /\ running' = [running EXCEPT ![id] = running'[id]]
    BY <1>0, <2>2, RunsAre, RunsChange
  <2>4. running' = [running EXCEPT ![id] = None]
    BY <2>3
  <2>5. Book!Halt(id)
    BY <2>1, <2>4 DEF Book!Halt, running
  <2> QED
    BY <2>5, BookCases
<1>2. ASSUME DeleteRows(h) PROVE BookStep
  <2> DEFINE id == req[h].id
  <2>1. req[h].pc = "drop" /\ UNCHANGED <<used, gens, raced>>
    BY <1>2 DEF DeleteRows
  <2>2. running' = running
    BY <2>1 DEF running, Runs
  <2>3. CASE UNCHANGED rows
    BY <2>1, <2>2, <2>3 DEF BookStep
  <2>4. CASE DeleteCluster(id)
    <3>1. running[id] = None \/ id \in raced
      <4>1. id \notin raced => tracked[id] = 0
        BY <2>1 DEF MInv, AloneInv
      <4> QED
        BY <1>0, <4>1, RunsAre
    <3>2. Book!Erase(id)
      BY <2>1, <2>2, <2>4, <3>1 DEF Book!Erase, DeleteCluster, running
    <3> QED
      BY <1>0, <3>2, BookCases
  <2> QED
    BY <1>2, <2>3, <2>4 DEF DeleteRows
<1> QED
  BY <1>1, <1>2
LEMMA GoroutineKeepsBook ==
  ASSUME MInv, MInv', NEW id \in Ids, NEW n \in 1..Slots,
         Poll(id, n) \/ Sample(id, n) \/ Submit(id, n) \/ Stop(id, n) \/ DiscoveryEnds(id, n)
  PROVE  BookStep
<1>1. (\A i \in Ids : LeadStays(i)) /\ UNCHANGED <<rows, used, tracked, req, raced>>
  BY GoroutineStays DEF MInv, IInv
<1>2. running' = running
  BY <1>1, RunsSame DEF MInv, IInv
<1> QED
  BY <1>1, <1>2 DEF BookStep

(* New rows only come under new IDs.                                       *)
LEMMA SeedsAreNew ==
  ASSUME NEW r \in [Ids -> Configs \cup {None}], NEW new, NEW seeds \in Files,
         NEW q \in Seeded(r, new, seeds), NEW id \in Ids \ new
  PROVE  q[id] = r[id]
<1> DEFINE missing == {c \in seeds : \A i \in Ids : r[i] # None => r[i].name # c.name}
<1>1. PICK f \in [Ids -> missing \cup {None}] :
        /\ \A i \in Ids : f[i] # None => i \in new
        /\ q = [i \in Ids |-> IF f[i] # None THEN f[i] ELSE r[i]]
  BY DEF Seeded
<1> QED
  BY <1>1

LEMMA RestartKeepsBook == ASSUME MInv, MInv', Restart PROVE BookStep
<1>1. PICK seeds \in Files : \E r \in Seeded(rows, Ids \ used, seeds) : LoadRows(r)
  BY DEF Restart
<1>2. PICK r \in Seeded(rows, Ids \ used, seeds) : LoadRows(r)
  BY <1>1
<1>3. r \in [Ids -> Configs \cup {None}] /\ \A id \in Ids : id \in used => r[id] = rows[id]
  <2>1. rows \in [Ids -> Configs \cup {None}]
    BY DEF MInv, IInv, Types
  <2>2. r \in [Ids -> Configs \cup {None}]
    BY <1>2, <2>1, SeededRows
  <2>3. ASSUME NEW id \in Ids, id \in used PROVE r[id] = rows[id]
    <3>1. id \in Ids \ (Ids \ used)
      BY <2>3
    <3> QED
      BY <1>2, <2>1, <3>1, SeedsAreNew
  <2> QED
    BY <2>2, <2>3
<1>4. /\ rows' = r /\ used' = used \cup {id \in Ids : r[id] # None}
      /\ tracked' = [id \in Ids |-> IF r[id] # None THEN 1 ELSE 0]
      /\ gens' = [id \in Ids |-> [n \in 1..Slots |->
                    IF n = 1 /\ r[id] # None THEN Started(r[id]) ELSE NoGeneration]]
      /\ raced' = {}
  BY <1>2 DEF LoadRows, Restart
<1>5. FromRows(rows', tracked', gens')
  BY <1>3, <1>4, StartMatches
<1>6. ASSUME NEW id \in Ids PROVE running'[id] = r[id]
  <2>1. CASE r[id] = None
    <3>1. tracked'[id] = 0
      BY <1>4, <2>1
    <3> QED
      BY <2>1, <3>1, RunsAre DEF MInv, IInv
  <2>2. CASE r[id] # None
    <3>1. tracked'[id] # 0 /\ r[id] \in Configs
      BY <1>3, <1>4, <2>2
    <3>2. LeadIs(id, r[id])
      BY <1>4, <1>5, <3>1 DEF FromRows, LeadIs
    <3> QED
      BY <3>1, <3>2, RunsAre DEF MInv, IInv
  <2> QED
    BY <2>1, <2>2
<1>7. running' = r
  <2>1. running' = [id \in Ids |-> running'[id]]
    BY DEF running
  <2> QED
    BY <1>3, <1>6, <2>1
<1>8. Book!Restart
  BY <1>3, <1>4, <1>7 DEF Book!Restart, running
<1> QED
  BY <1>8, BookCases

LEMMA BookInitially == ASSUME Init PROVE Book!Init
<1>1. MInv
  BY InitiallyMatches
<1>2. /\ rows \in [Ids -> Configs \cup {None}] /\ raced = {}
      /\ used = {id \in Ids : rows[id] # None}
      /\ tracked = [id \in Ids |-> IF rows[id] # None THEN 1 ELSE 0]
      /\ gens = [id \in Ids |-> [n \in 1..Slots |->
                   IF n = 1 /\ rows[id] # None THEN Started(rows[id]) ELSE NoGeneration]]
  <2>1. rows \in [Ids -> Configs \cup {None}]
    BY <1>1 DEF MInv, IInv, Types
  <2>2. used = {id \in Ids : rows[id] # None} /\ raced = {}
    BY DEF Init, Stored
  <2>3. \A id \in Ids : id \in used <=> rows[id] # None
    BY <2>2
  <2> QED
    BY <2>1, <2>2, <2>3 DEF Init
<1>3. FromRows(rows, tracked, gens)
  BY <1>2, StartMatches
<1>4. ASSUME NEW id \in Ids PROVE running[id] = rows[id]
  <2>1. running[id] = IF tracked[id] = 0 THEN None ELSE gens[id][tracked[id]].env
    <3>1. tracked[id] \in 0..Slots /\ Leads(tracked[id], gens[id])
      BY <1>1 DEF MInv, IInv, Types, LiveInv
    <3> QED
      BY <3>1, LeadIsPolled DEF running, Runs, Polled
  <2>2. tracked[id] = IF rows[id] # None THEN 1 ELSE 0
    BY <1>2
  <2> QED
    BY <1>3, <2>1, <2>2 DEF FromRows
<1>5. running = rows
  <2>1. running = [id \in Ids |-> running[id]]
    BY DEF running
  <2> QED
    BY <1>2, <1>4, <2>1
<1> QED
  BY <1>2, <1>5 DEF Book!Init, running

LEMMA BookSteps == ASSUME MInv, MInv', [Next]_vars PROVE BookStep
<1>1. CASE UNCHANGED vars
  BY <1>1 DEF vars, BookStep, running, Runs
<1>2. ASSUME NEW id \in Ids, Persist(id) PROVE BookStep
  BY <1>2 DEF Persist, BookStep, running, Runs
<1>3. CASE Next
  BY <1>2, <1>3, CreateKeepsBook, UpdateKeepsBook, DeleteKeepsBook, GoroutineKeepsBook,
     RestartKeepsBook DEF Next
<1> QED
  BY <1>1, <1>3

(* The admin requests, the Manager and the goroutines implement ClusterBook*)
(* for any number of clusters, configurations and requests: what polls     *)
(* follows the row, is halted before the row is deleted, and an ID that was*)
(* deleted never comes back, through failures, crashes and restarts        *)
(* (handleCreateCluster, handleUpdateCluster, handleDeleteCluster).        *)
THEOREM ImplementsBook == Spec => KeepsBook
<1>1. Init => MInv /\ Book!Init
  BY InitiallyMatches, BookInitially
<1>2. MInv /\ [Next]_vars => MInv'
  BY InductiveMatches
<1>3. MInv /\ MInv' /\ [Next]_vars => [Book!Next]_(Book!bookVars)
  <2> SUFFICES ASSUME MInv, MInv', [Next]_vars PROVE [Book!Next]_(Book!bookVars)
    OBVIOUS
  <2>1. BookStep
    BY BookSteps
  <2> QED
    BY <2>1 DEF BookStep, Book!bookVars, running
<1> QED
  BY <1>1, <1>2, <1>3, PTL DEF Spec, KeepsBook, Book!Spec

(* What follows for the rows and for what polls.                           *)
LEMMA BookRows ==
  ASSUME MInv, BookStep, NEW id \in Ids
  PROVE  /\ id \in used /\ rows[id] = None => rows'[id] = None
         /\ (id \notin raced /\ rows[id] = None => running[id] = None)
              => (id \notin raced' /\ rows'[id] = None => running'[id] = None)
<1>1. /\ rows \in [Ids -> Configs \cup {None}]
      /\ running = [i \in Ids |-> running[i]]
  BY DEF MInv, IInv, Types, running
<1>2. CASE UNCHANGED <<rows, running, used, raced>>
  BY <1>2
<1>3. CASE Book!Restart
  <2>1. PICK new \in [Ids -> Configs \cup {None}] :
          /\ \A i \in Ids : i \in used => new[i] = rows[i]
          /\ rows' = new /\ running' = new
    BY <1>3 DEF Book!Restart, running
  <2> QED
    BY <2>1
<1>4. ASSUME NEW i \in Ids, Book!Follow(i) \/ Book!Halt(i) \/ Book!Erase(i) \/ Book!Contend(i)
      PROVE  /\ id \in used /\ rows[id] = None => rows'[id] = None
             /\ (id \notin raced /\ rows[id] = None => running[id] = None)
                  => (id \notin raced' /\ rows'[id] = None => running'[id] = None)
  <2>1. \/ /\ rows[i] # None /\ running' = [running EXCEPT ![i] = rows[i]]
           /\ rows' = rows /\ raced' = raced
        \/ /\ running' = [running EXCEPT ![i] = None] /\ rows' = rows /\ raced \subseteq raced'
        \/ /\ running[i] = None \/ i \in raced
           /\ rows' = [rows EXCEPT ![i] = None] /\ running' = running /\ raced' = raced
        \/ raced \subseteq raced' /\ rows' = rows /\ running' = running
    BY <1>4 DEF Book!Follow, Book!Halt, Book!Erase, Book!Contend, running
  <2> QED
    BY <1>1, <2>1
<1>5. ASSUME NEW i \in Ids, NEW c \in Configs,
             Book!Create(i, c) \/ Book!Change(i, c) \/ Book!Overtake(i, c)
      PROVE  /\ id \in used /\ rows[id] = None => rows'[id] = None
             /\ (id \notin raced /\ rows[id] = None => running[id] = None)
                  => (id \notin raced' /\ rows'[id] = None => running'[id] = None)
  <2>1. \/ /\ i \notin used \/ rows[i] # None
           /\ rows' = [rows EXCEPT ![i] = c] /\ running' = running /\ raced' = raced
        \/ /\ i \in raced /\ running' = [running EXCEPT ![i] = c]
           /\ rows' = rows /\ raced' = raced
    BY <1>5 DEF Book!Create, Book!Change, Book!Overtake, running
  <2> QED
    BY <1>1, <2>1
<1> QED
  BY <1>2, <1>3, <1>4, <1>5 DEF BookStep, Book!Next

LEMMA TakenAreIds == ASSUME used \subseteq Ids, BookStep PROVE used' \subseteq Ids
<1>1. CASE Book!Restart
  BY <1>1 DEF Book!Restart
<1>2. CASE Book!Next /\ ~Book!Restart
  BY <1>2 DEF Book!Next, Book!Follow, Book!Halt, Book!Erase, Book!Contend, Book!Create,
              Book!Change, Book!Overtake
<1> QED
  BY <1>1, <1>2 DEF BookStep

(* Nothing polls for a cluster that is not stored, unless two requests have*)
(* overlapped on it (handleDeleteCluster stops the collector first).       *)
THEOREM NothingForErased == Spec => []Book!ErasedIsSilent
<1>1. Init => MInv /\ Book!ErasedIsSilent
  BY InitiallyMatches, BookInitially DEF Book!Init, Book!ErasedIsSilent
<1>2. MInv /\ [Next]_vars => MInv'
  BY InductiveMatches
<1>3. MInv /\ MInv' /\ Book!ErasedIsSilent /\ [Next]_vars => Book!ErasedIsSilent'
  BY BookSteps, BookRows DEF Book!ErasedIsSilent, running
<1> QED
  BY <1>1, <1>2, <1>3, PTL DEF Spec

(* A deleted cluster never comes back under its ID, not by an update that  *)
(* had read it nor by a restart that seeds the configuration file again.   *)
THEOREM ErasedStayAway == Spec => Book!ErasedForGood
<1>1. Init => MInv /\ used \subseteq Ids
  BY InitiallyMatches DEF Init, Stored
<1>2. MInv /\ [Next]_vars => MInv'
  BY InductiveMatches
<1>3. MInv /\ MInv' /\ used \subseteq Ids /\ [Next]_vars => (used \subseteq Ids)'
  BY BookSteps, TakenAreIds
<1>4. MInv /\ MInv' /\ used \subseteq Ids /\ [Next]_vars =>
        [Book!StaysErased]_(Book!bookVars)
  BY BookSteps, BookRows DEF Book!StaysErased
<1> QED
  BY <1>1, <1>2, <1>3, <1>4, PTL DEF Spec, Book!ErasedForGood
==============================================================================
