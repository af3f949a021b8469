----------------------------- MODULE ClusterAdmin -----------------------------
(***************************************************************************)
(* The life of a cluster: its row in the database (internal/store), its    *)
(* collector in the Manager (internal/collector) and the admin requests of *)
(* internal/api that change one after the other, with the goroutines that  *)
(* write the cluster's data rows while it is replaced or deleted. A        *)
(* collector is a generation: its cluster's ID and a slot, free again when *)
(* its goroutines have ended.                                              *)
(***************************************************************************)
EXTENDS Integers, FiniteSets

CONSTANTS
  Ids,        \* generated cluster IDs
  Configs,    \* what a row may say: a display name and, as conn, what
              \* serversSame, tlsSame and natsConnSame compare, which is all but
              \* nats_conn.tls
  None,       \* no row
  Files,      \* the clusters in the configuration file, which may change
              \* between two starts
  Requests,   \* the admin requests that may be in flight together
  Slots       \* bound: generations of one cluster alive together

ASSUME ClusterAdminAssumption ==
  /\ None \notin Configs /\ Files \subseteq SUBSET Configs /\ Slots \in Nat \ {0}
  /\ Ids # {} /\ Configs # {}

VARIABLES
  rows,      \* the clusters table
  used,      \* IDs generated so far
  tracked,   \* m.collectors: the slot of the running generation, 0 when none
  gens,      \* the generations
  queued,    \* IDs with a sample in the metrics queue
  req,       \* the requests
  unstopped, \* history: IDs whose delete stopped the collector and then failed
  raced      \* history: IDs on which two requests have overlapped since the start

vars == <<rows, used, tracked, gens, queued, req, unstopped, raced>>

(* poll: where the poll loop is; disc: its discovery goroutine runs.       *)
Generation == [env : Configs, built : {c.conn : c \in Configs}, live : BOOLEAN,
               poll : {"poll", "notify", "submit", "off"}, disc : BOOLEAN]
Free(g) == g.poll = "off" /\ ~g.disc
Stored == {id \in Ids : rows[id] # None}

TypeOK ==
  /\ rows \in [Ids -> Configs \cup {None}] /\ Stored \subseteq used
  /\ used \subseteq Ids /\ queued \subseteq used
  /\ tracked \in [Ids -> 0..Slots]
  /\ gens \in [Ids -> [1..Slots -> Generation]]
  /\ req \in [Requests -> [pc : {"idle", "add", "store", "apply", "drop"}, id : Ids,
                           cfg : Configs]]
  /\ unstopped \subseteq Ids /\ raced \subseteq Ids

SomeConfig == CHOOSE c \in Configs : TRUE
NoGeneration == [env |-> SomeConfig, built |-> SomeConfig.conn, live |-> FALSE,
                 poll |-> "off", disc |-> FALSE]
Started(c) == [env |-> c, built |-> c.conn, live |-> TRUE, poll |-> "poll", disc |-> FALSE]
Idle == [pc |-> "idle", id |-> CHOOSE id \in Ids : TRUE, cfg |-> SomeConfig]

(* SeedClusters: a configured name that no row has gets a new row. The     *)
(* file gives each name once.                                              *)
Seeded(r, new, seeds) ==
  LET missing == {c \in seeds : \A id \in Ids : r[id] # None => r[id].name # c.name}
      byId == {f \in [Ids -> missing \cup {None}] :
                 /\ \A id \in Ids : f[id] # None => id \in new
                 /\ \A c \in missing : Cardinality({id \in Ids : f[id] = c}) = 1}
  IN  {[id \in Ids |-> IF f[id] # None THEN f[id] ELSE r[id]] : f \in byId}

(* NewManager and Start: a collector for every row.                        *)
LoadRows(r) ==
  /\ rows' = r /\ used' = used \cup {id \in Ids : r[id] # None}
  /\ tracked' = [id \in Ids |-> IF r[id] # None THEN 1 ELSE 0]
  /\ gens' = [id \in Ids |-> [n \in 1..Slots |->
                IF n = 1 /\ r[id] # None THEN Started(r[id]) ELSE NoGeneration]]

NoRows == [id \in Ids |-> None]

(* The first start.                                                        *)
Init ==
  /\ \E seeds \in Files : rows \in Seeded(NoRows, Ids, seeds)
  /\ used = Stored
  /\ tracked = [id \in Ids |-> IF id \in used THEN 1 ELSE 0]
  /\ gens = [id \in Ids |-> [n \in 1..Slots |->
               IF n = 1 /\ id \in used THEN Started(rows[id]) ELSE NoGeneration]]
  /\ queued = {} /\ req = [h \in Requests |-> Idle] /\ unstopped = {}
  /\ raced = {}
------------------------------------------------------------------------------
(* The Manager, under m.mu.                                                *)

addClusterLocked(id, c, g) ==
  \E n \in 1..Slots :
    /\ Free(g[n]) /\ \A k \in 1..(n - 1) : ~Free(g[k])
    /\ tracked' = [tracked EXCEPT ![id] = n]
    /\ gens' = [gens EXCEPT ![id] = [g EXCEPT ![n] = Started(c)]]

AddCluster(id, c) ==
  IF tracked[id] # 0 THEN UNCHANGED <<tracked, gens>>
                     ELSE addClusterLocked(id, c, gens[id])

(* The configuration of a cancelled generation is read by nothing below.   *)
Cancelled(id) ==
  [n \in 1..Slots |->
     IF n # tracked[id] THEN gens[id][n]
     ELSE [NoGeneration EXCEPT !.poll = gens[id][n].poll, !.disc = gens[id][n].disc]]

(* Only a change that serversSame, tlsSame or natsConnSame sees rebuilds.  *)
NameOnly(id, c) == gens[id][tracked[id]].env.conn = c.conn

SwapLabel(id, c) ==
  /\ gens' = [gens EXCEPT ![id][tracked[id]].env = c] /\ UNCHANGED tracked

(* A faulty variant: the replaced collector is not cancelled.              *)
UpdateClusterLeaks(id, c) ==
  IF tracked[id] = 0 THEN addClusterLocked(id, c, gens[id])
  ELSE IF NameOnly(id, c) THEN SwapLabel(id, c)
  ELSE addClusterLocked(id, c, gens[id])

(* A faulty variant: an unknown cluster is ignored.                        *)
UpdateClusterIgnores(id, c) ==
  IF tracked[id] = 0 THEN UNCHANGED <<tracked, gens>>
  ELSE IF NameOnly(id, c) THEN SwapLabel(id, c)
  ELSE addClusterLocked(id, c, Cancelled(id))

(* A faulty variant: the running configuration is left alone when no       *)
(* connection changes.                                                     *)
UpdateClusterKeepsLabel(id, c) ==
  IF tracked[id] = 0 THEN addClusterLocked(id, c, gens[id])
  ELSE IF NameOnly(id, c) THEN UNCHANGED <<tracked, gens>>
  ELSE addClusterLocked(id, c, Cancelled(id))

UpdateCluster(id, c) ==
  IF tracked[id] = 0 THEN addClusterLocked(id, c, gens[id])
  ELSE IF NameOnly(id, c) THEN SwapLabel(id, c)
  ELSE addClusterLocked(id, c, Cancelled(id))

(* A faulty variant: the collector leaves the map uncancelled.             *)
RemoveClusterRuns(id) ==
  tracked' = [tracked EXCEPT ![id] = 0] /\ UNCHANGED gens

RemoveCluster(id) ==
  /\ gens' = [gens EXCEPT ![id] = Cancelled(id)]
  /\ tracked' = [tracked EXCEPT ![id] = 0]
------------------------------------------------------------------------------
(* The clusters table.                                                     *)

CreateCluster(id, c) ==
  id \notin used /\ used' = used \cup {id} /\ rows' = [rows EXCEPT ![id] = c]

StoreCluster(id, c) == rows[id] # None /\ rows' = [rows EXCEPT ![id] = c]

(* The row and the data rows of six tables go in one transaction.          *)
DeleteCluster(id) == rows[id] # None /\ rows' = [rows EXCEPT ![id] = None]
------------------------------------------------------------------------------
(* The admin requests. Validation errors change nothing and are left out;  *)
(* a request whose database statement fails ends there. What an update     *)
(* merges into the row from the stored one is the subject of ClusterEdit.  *)

Quiet(id) == \A h \in Requests : req[h].pc # "idle" => req[h].id # id

(* The first step of a request on a cluster.                               *)
Starts(h, pc, id, c) ==
  /\ req[h].pc = "idle" /\ req' = [req EXCEPT ![h] = [pc |-> pc, id |-> id, cfg |-> c]]
  /\ raced' = IF Quiet(id) THEN raced ELSE raced \cup {id}
Goto(h, pc) == req' = [req EXCEPT ![h].pc = pc]
Ends(h) == req' = [req EXCEPT ![h] = Idle]

CreateRow(h, id, c) ==
  /\ Starts(h, "add", id, c) /\ CreateCluster(id, c)
  /\ UNCHANGED <<tracked, gens, queued, unstopped>>

(* AddCluster cannot fail: the handler has built the same fetcher before.  *)
CreateAdd(h) ==
  /\ req[h].pc = "add" /\ AddCluster(req[h].id, req[h].cfg) /\ Ends(h)
  /\ UNCHANGED <<rows, used, queued, unstopped, raced>>

(* The stored cluster is read and the request merged with it.              *)
UpdateLoad(h, id, c) ==
  /\ id \in used /\ Starts(h, "store", id, c)
  /\ UNCHANGED <<rows, used, tracked, gens, queued, unstopped>>

UpdateStore(h) ==
  /\ req[h].pc = "store"
  /\ \/ StoreCluster(req[h].id, req[h].cfg) /\ Goto(h, "apply")
     \/ Ends(h) /\ UNCHANGED rows
  /\ UNCHANGED <<used, tracked, gens, queued, unstopped, raced>>

UpdateApply(h) ==
  /\ req[h].pc = "apply" /\ UpdateCluster(req[h].id, req[h].cfg) /\ Ends(h)
  /\ unstopped' = unstopped \ {req[h].id}
  /\ UNCHANGED <<rows, used, queued, raced>>

(* A faulty variant: the row is deleted first.                             *)
DeleteLeavesRunning(h, id) ==
  /\ id \in used /\ Starts(h, "drop", id, SomeConfig)
  /\ UNCHANGED <<rows, used, tracked, gens, queued, unstopped>>

DeleteStop(h, id) ==
  /\ id \in used /\ Starts(h, "drop", id, SomeConfig) /\ RemoveCluster(id)
  /\ UNCHANGED <<rows, used, queued, unstopped>>

DeleteRows(h) ==
  LET id == req[h].id IN
  /\ req[h].pc = "drop" /\ Ends(h)
  /\ \/ DeleteCluster(id) /\ UNCHANGED unstopped
     \/ unstopped' = unstopped \cup {id} /\ UNCHANGED rows
  /\ UNCHANGED <<used, tracked, gens, queued, raced>>
------------------------------------------------------------------------------
(* The goroutines that write data rows, which are not modelled.            *)

Moves(id, n, poll) == gens' = [gens EXCEPT ![id][n].poll = poll]

(* The loop polls once more, perhaps after its cancellation, and may start *)
(* a discovery.                                                            *)
Poll(id, n) ==
  /\ gens[id][n].poll = "poll"
  /\ \E d \in {TRUE, gens[id][n].disc} :
       gens' = [gens EXCEPT ![id][n] = [@ EXCEPT !.poll = "notify", !.disc = d]]
  /\ UNCHANGED <<rows, used, tracked, queued, req, unstopped, raced>>

(* onChange samples the collector the Manager has for the ID now.          *)
Sample(id, n) ==
  /\ gens[id][n].poll = "notify"
  /\ \/ tracked[id] # 0 /\ Moves(id, n, "submit")
     \/ Moves(id, n, "poll")
  /\ UNCHANGED <<rows, used, tracked, queued, req, unstopped, raced>>

(* Submit queues the sample or, when the queue is full, drops it.          *)
Submit(id, n) ==
  /\ gens[id][n].poll = "submit" /\ Moves(id, n, "poll")
  /\ queued' \in {queued, queued \cup {id}}
  /\ UNCHANGED <<rows, used, tracked, req, unstopped, raced>>

Stop(id, n) ==
  /\ gens[id][n].poll = "poll" /\ ~gens[id][n].live /\ Moves(id, n, "off")
  /\ UNCHANGED <<rows, used, tracked, queued, req, unstopped, raced>>

(* The metrics writer.                                                     *)
Persist(id) ==
  /\ id \in queued /\ queued' = queued \ {id}
  /\ UNCHANGED <<rows, used, tracked, gens, req, unstopped, raced>>

(* discoverMQTTBridges stores what it found without asking whether the     *)
(* cluster is still there.                                                 *)
DiscoveryEnds(id, n) ==
  /\ gens[id][n].disc /\ gens' = [gens EXCEPT ![id][n].disc = FALSE]
  /\ UNCHANGED <<rows, used, tracked, queued, req, unstopped, raced>>

(* The process stops or crashes, at any point of any request, and starts   *)
(* again. A shutdown drains the metrics queue, a crash loses it.           *)
Restart ==
  /\ \E seeds \in Files : \E r \in Seeded(rows, Ids \ used, seeds) : LoadRows(r)
  /\ req' = [h \in Requests |-> Idle] /\ queued' = {} /\ unstopped' = {} /\ raced' = {}

Next ==
  \/ \E h \in Requests :
       \/ \E id \in Ids, c \in Configs : CreateRow(h, id, c) \/ UpdateLoad(h, id, c)
       \/ \E id \in Ids : DeleteStop(h, id)
       \/ CreateAdd(h) \/ UpdateStore(h) \/ UpdateApply(h) \/ DeleteRows(h)
  \/ \E id \in Ids :
       \/ Persist(id)
       \/ \E n \in 1..Slots :
            Poll(id, n) \/ Sample(id, n) \/ Submit(id, n) \/ Stop(id, n)
              \/ DiscoveryEnds(id, n)
  \/ Restart

Spec == Init /\ [][Next]_vars

(* Goroutines run and the requests' statements end; a select between the   *)
(* ticker and ctx.Done picks at random, so it takes the latter in the end. *)
Fairness ==
  /\ \A h \in Requests :
       WF_vars(CreateAdd(h) \/ UpdateStore(h) \/ UpdateApply(h) \/ DeleteRows(h))
  /\ \A id \in Ids :
       /\ WF_vars(Persist(id))
       /\ \A n \in 1..Slots :
            /\ WF_vars(Sample(id, n) \/ Submit(id, n)) /\ SF_vars(Stop(id, n))
            /\ WF_vars(DiscoveryEnds(id, n))

FairSpec == Spec /\ Fairness
------------------------------------------------------------------------------
(* At most one generation of a cluster polls uncancelled, the tracked one: *)
(* no interleaving of add, update and remove leaks a collector.            *)
OnlyTrackedRuns ==
  \A id \in Ids : \A n \in 1..Slots : gens[id][n].live => tracked[id] = n

(* When no request on it is in flight, a stored cluster is being watched,  *)
(* across races, crashes inside a request and restarts; unless its delete  *)
(* stopped it and then failed (handleDeleteCluster stops it first).        *)
StoredIsWatched ==
  \A id \in Stored : Quiet(id) /\ id \notin unstopped =>
    tracked[id] # 0 /\ gens[id][tracked[id]].live

(* A cluster on which no two requests have overlapped is watched with what *)
(* its row says ("applying changes to the live collector"), also across     *)
(* crashes inside a request.                                               *)
LiveMatchesStored ==
  \A id \in Stored \ raced : Quiet(id) /\ tracked[id] # 0 =>
    LET g == gens[id][tracked[id]] IN
      g.env = rows[id] /\ g.built = rows[id].conn

(* Liveness: after a deletion that overlapped no other request, the        *)
(* cluster's collector, its discovery and its queued samples end (the rows *)
(* they wrote late stay).                                                  *)
DeletedFallsSilent ==
  \A id \in Ids : (id \in used \ raced /\ rows[id] = None)
    ~> (id \notin queued /\ \A n \in 1..Slots : Free(gens[id][n]))
------------------------------------------------------------------------------
(* What polls for a cluster, whoever holds it.                             *)
Runs(id) ==
  LET live == {n \in 1..Slots : gens[id][n].live} IN
  IF live = {} THEN None ELSE gens[id][CHOOSE n \in live : TRUE].env

Book == INSTANCE ClusterBook WITH
  row <- rows, runs <- [id \in Ids |-> Runs(id)], taken <- used, contended <- raced

(* Rows and collectors keep the promise of ClusterBook: what runs follows  *)
(* the row, is halted before the row is erased, and an ID never comes back;*)
(* through every failure and crash inside a request.                       *)
KeepsBook == Book!Spec
===============================================================================
