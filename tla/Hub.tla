--------------------------------- MODULE Hub ---------------------------------
(***************************************************************************)
(* The live updates of internal/ws: the poll goroutines of the clusters    *)
(* broadcast every snapshot, each client's read pump subscribes and pushes *)
(* the current snapshot to itself, its write pump sends the queue to the   *)
(* browser. A snapshot is the number of times its content has changed; the *)
(* three messages of one snapshot (overview, topology, health) are one.    *)
(***************************************************************************)
EXTENDS Integers, Sequences, FiniteSets

CONSTANTS
  Clients,     \* the browsers' connections
  Envs,        \* the clusters
  None,        \* no client, no cluster (the empty string of Client.env)
  BufLen,      \* sendBufLen: 64
  DropLimit,   \* maxConsecutiveDrops: 2 * sendBufLen
  MaxVersion   \* bound on the changes of a cluster's data

ASSUME HubAssumption ==
  /\ IsFiniteSet(Clients) /\ None \notin Clients \cup Envs
  /\ BufLen \in Nat \ {0} /\ DropLimit \in Nat \ {0} /\ MaxVersion \in Nat

VARIABLES
  version,    \* version[e]: the snapshot of the collector of e
  polling,    \* polling[e]: the poll goroutine of e has called onChange
  locked,     \* locked[e]: its Broadcast holds h.mu for reading
  sending,    \* sending[e]: the snapshot it broadcasts
  todo,       \* todo[e]: the clients its Broadcast has not visited yet
  target,     \* target[e]: the client it has found subscribed to e
  registered, \* h.clients
  env,        \* env[c]: c.env
  reader,     \* reader[c]: where readPump is
  seed,       \* seed[c]: what notifySubscribe is about to send to c
  writing,    \* writing[c]: writePump runs
  queue,      \* queue[c]: c.send
  streak,     \* streak[c]: c.consecutiveDrops
  closed,     \* closed[c]: teardown has been called (c.done, c.conn)
  shown,      \* shown[c]: the last message the browser received
  offered     \* history: the newest snapshot of env[c] offered to c since it
              \* subscribed, -1 when none was

envVars    == <<version, polling, locked, sending, todo, target>>
clientVars == <<registered, env, reader, seed, writing, queue, streak, closed, shown,
                offered>>
vars == <<envVars, clientVars>>

Versions == 0..MaxVersion
Messages == [env : Envs, v : Versions]

TypeOK ==
  /\ version \in [Envs -> Versions] /\ sending \in [Envs -> Versions]
  /\ polling \in [Envs -> BOOLEAN] /\ locked \in [Envs -> BOOLEAN]
  /\ todo \in [Envs -> SUBSET Clients] /\ target \in [Envs -> Clients \cup {None}]
  /\ registered \subseteq Clients
  /\ env \in [Clients -> Envs \cup {None}]
  /\ reader \in [Clients -> {"off", "read", "seed", "push", "exit", "gone"}]
  /\ seed \in [Clients -> Versions]
  /\ writing \in [Clients -> BOOLEAN]
  /\ queue \in [Clients -> Seq(Messages)]
  /\ \A c \in Clients : Len(queue[c]) <= BufLen
  /\ streak \in [Clients -> 0..DropLimit]
  /\ closed \in [Clients -> BOOLEAN]
  /\ shown \in [Clients -> Messages \cup {None}]
  /\ offered \in [Clients -> -1..MaxVersion]

Init ==
  /\ version = [e \in Envs |-> 0] /\ sending = [e \in Envs |-> 0]
  /\ polling = [e \in Envs |-> FALSE] /\ locked = [e \in Envs |-> FALSE]
  /\ todo = [e \in Envs |-> {}] /\ target = [e \in Envs |-> None]
  /\ registered = {} /\ env = [c \in Clients |-> None]
  /\ reader = [c \in Clients |-> "off"] /\ seed = [c \in Clients |-> 0]
  /\ writing = [c \in Clients |-> FALSE]
  /\ queue = [c \in Clients |-> <<>>] /\ streak = [c \in Clients |-> 0]
  /\ closed = [c \in Clients |-> FALSE] /\ shown = [c \in Clients |-> None]
  /\ offered = [c \in Clients |-> -1]
------------------------------------------------------------------------------
(* deliver: queue the message or, when the buffer is full, count a drop;   *)
(* a run of DropLimit drops tears the client down.                         *)

Offer(c, m) ==
  offered' = [offered EXCEPT ![c] = IF m.env = env[c] /\ m.v > @ THEN m.v ELSE @]

(* A faulty variant: a full buffer removes the client from the hub and     *)
(* leaves its connection open.                                             *)
DeliverForgets(c, m) ==
  /\ IF Len(queue[c]) < BufLen
     THEN queue' = [queue EXCEPT ![c] = Append(@, m)] /\ UNCHANGED registered
     ELSE registered' = registered \ {c} /\ UNCHANGED queue
  /\ Offer(c, m) /\ UNCHANGED <<streak, closed>>

Deliver(c, m) ==
  /\ IF Len(queue[c]) < BufLen
     THEN /\ queue' = [queue EXCEPT ![c] = Append(@, m)]
          /\ streak' = [streak EXCEPT ![c] = 0] /\ UNCHANGED closed
     ELSE /\ streak' = [streak EXCEPT ![c] = IF @ < DropLimit THEN @ + 1 ELSE @]
          /\ closed' = [closed EXCEPT ![c] = @ \/ streak'[c] >= DropLimit]
          /\ UNCHANGED queue
  /\ Offer(c, m) /\ UNCHANGED registered
------------------------------------------------------------------------------
(* The poll goroutine of a cluster.                                        *)

(* A faulty variant: the message is built from the snapshot before.        *)
PollStale(e) ==
  /\ ~polling[e] /\ polling' = [polling EXCEPT ![e] = TRUE]
  /\ \E v \in {version[e], version[e] + 1} \cap Versions :
       version' = [version EXCEPT ![e] = v]
  /\ sending' = [sending EXCEPT ![e] = version[e]]
  /\ UNCHANGED <<locked, todo, target, clientVars>>

(* A poll stores its snapshot and onChange reads it for the broadcast.     *)
Poll(e) ==
  /\ ~polling[e] /\ polling' = [polling EXCEPT ![e] = TRUE]
  /\ \E v \in {version[e], version[e] + 1} \cap Versions :
       /\ version' = [version EXCEPT ![e] = v]
       /\ sending' = [sending EXCEPT ![e] = v]
  /\ UNCHANGED <<locked, todo, target, clientVars>>

(* Broadcast takes h.mu for reading, which waits for a client that is      *)
(* about to unregister, and visits the clients registered then.            *)
Broadcast(e) ==
  /\ polling[e] /\ ~locked[e] /\ \A c \in Clients : reader[c] # "exit"
  /\ locked' = [locked EXCEPT ![e] = TRUE]
  /\ todo' = [todo EXCEPT ![e] = registered]
  /\ UNCHANGED <<version, polling, sending, target, clientVars>>

(* if c.Env() == env: the client may change its subscription before the    *)
(* message is queued.                                                      *)
Visit(e, c) ==
  /\ target[e] = None /\ c \in todo[e]
  /\ todo' = [todo EXCEPT ![e] = @ \ {c}]
  /\ target' = [target EXCEPT ![e] = IF env[c] = e THEN c ELSE None]
  /\ UNCHANGED <<version, polling, locked, sending, clientVars>>

(* A faulty variant: a client without room is visited again.               *)
DeliverToRetries(e) ==
  /\ target[e] # None /\ target' = [target EXCEPT ![e] = None]
  /\ IF Len(queue[target[e]]) < BufLen
     THEN Deliver(target[e], [env |-> e, v |-> sending[e]]) /\ UNCHANGED todo
     ELSE /\ todo' = [todo EXCEPT ![e] = @ \cup {target[e]}]
          /\ UNCHANGED <<registered, queue, streak, closed, offered>>
  /\ UNCHANGED <<version, polling, locked, sending, env, reader, seed, writing, shown>>

DeliverTo(e) ==
  /\ target[e] # None
  /\ Deliver(target[e], [env |-> e, v |-> sending[e]])
  /\ target' = [target EXCEPT ![e] = None]
  /\ UNCHANGED <<version, polling, locked, sending, todo, env, reader, seed, writing,
                 shown>>

EndBroadcast(e) ==
  /\ locked[e] /\ target[e] = None /\ todo[e] = {}
  /\ polling' = [polling EXCEPT ![e] = FALSE] /\ locked' = [locked EXCEPT ![e] = FALSE]
  /\ UNCHANGED <<version, sending, todo, target, clientVars>>

(* h.mu, needed by Register and Unregister, is held by no Broadcast.       *)
HubFree == \A e \in Envs : ~locked[e]
------------------------------------------------------------------------------
(* A client: Run, readPump, writePump. A browser that comes back is a new  *)
(* Client with an empty queue.                                             *)

Connect(c) ==
  /\ reader[c] \in {"off", "gone"} /\ ~writing[c] /\ HubFree
  /\ registered' = registered \cup {c}
  /\ reader' = [reader EXCEPT ![c] = "read"]
  /\ writing' = [writing EXCEPT ![c] = TRUE]
  /\ env' = [env EXCEPT ![c] = None] /\ seed' = [seed EXCEPT ![c] = 0]
  /\ queue' = [queue EXCEPT ![c] = <<>>] /\ streak' = [streak EXCEPT ![c] = 0]
  /\ closed' = [closed EXCEPT ![c] = FALSE] /\ shown' = [shown EXCEPT ![c] = None]
  /\ offered' = [offered EXCEPT ![c] = -1]
  /\ UNCHANGED envVars

(* A subscribe message: setEnv, then notifySubscribe ...                   *)
Subscribe(c, e) ==
  /\ reader[c] = "read" /\ ~closed[c]
  /\ env' = [env EXCEPT ![c] = e] /\ offered' = [offered EXCEPT ![c] = -1]
  /\ reader' = [reader EXCEPT ![c] = "seed"]
  /\ UNCHANGED <<envVars, registered, seed, writing, queue, streak, closed, shown>>

(* ... whose hook reads the cluster's current snapshot ...                 *)
ReadSeed(c) ==
  /\ reader[c] = "seed"
  /\ seed' = [seed EXCEPT ![c] = version[env[c]]]
  /\ reader' = [reader EXCEPT ![c] = "push"]
  /\ UNCHANGED <<envVars, registered, env, writing, queue, streak, closed, shown,
                 offered>>

(* ... and sends it to this client.                                        *)
PushSeed(c) ==
  /\ reader[c] = "push"
  /\ Deliver(c, [env |-> env[c], v |-> seed[c]])
  /\ reader' = [reader EXCEPT ![c] = "read"]
  /\ UNCHANGED <<envVars, env, seed, writing, shown>>

(* ReadMessage fails: the browser left or teardown closed the connection.  *)
ReadFails(c) ==
  /\ reader[c] = "read" /\ reader' = [reader EXCEPT ![c] = "exit"]
  /\ UNCHANGED <<envVars, registered, env, seed, writing, queue, streak, closed,
                 shown, offered>>

(* A faulty variant: the client stays in the hub.                          *)
UnregisterSkipped(c) ==
  /\ reader[c] = "exit" /\ HubFree
  /\ reader' = [reader EXCEPT ![c] = "gone"]
  /\ closed' = [closed EXCEPT ![c] = TRUE]
  /\ UNCHANGED <<envVars, registered, env, seed, writing, queue, streak, shown, offered>>

(* The deferred Unregister and teardown.                                   *)
Unregister(c) ==
  /\ reader[c] = "exit" /\ HubFree
  /\ registered' = registered \ {c}
  /\ reader' = [reader EXCEPT ![c] = "gone"]
  /\ closed' = [closed EXCEPT ![c] = TRUE]
  /\ UNCHANGED <<envVars, env, seed, writing, queue, streak, shown, offered>>

(* One message goes out, or the write fails (at the latest at its deadline)*)
(* and the deferred teardown runs. A closed connection fails.              *)
Write(c) ==
  /\ writing[c] /\ queue[c] # <<>>
  /\ queue' = [queue EXCEPT ![c] = Tail(@)]
  /\ \/ ~closed[c] /\ shown' = [shown EXCEPT ![c] = Head(queue[c])]
        /\ UNCHANGED <<writing, closed>>
     \/ writing' = [writing EXCEPT ![c] = FALSE] /\ UNCHANGED shown
        /\ closed' = [closed EXCEPT ![c] = TRUE]
  /\ UNCHANGED <<envVars, registered, env, reader, seed, streak, offered>>

(* case <-c.done, or a ping that fails.                                    *)
WriterExits(c) ==
  /\ writing[c] /\ writing' = [writing EXCEPT ![c] = FALSE]
  /\ closed' = [closed EXCEPT ![c] = TRUE]
  /\ UNCHANGED <<envVars, registered, env, reader, seed, queue, streak, shown, offered>>

Next ==
  \/ \E e \in Envs :
       \/ Poll(e) \/ Broadcast(e) \/ DeliverTo(e) \/ EndBroadcast(e)
       \/ \E c \in Clients : Visit(e, c) \/ Subscribe(c, e)
  \/ \E c \in Clients :
       \/ Connect(c) \/ ReadSeed(c) \/ PushSeed(c) \/ ReadFails(c) \/ Unregister(c)
       \/ Write(c) \/ WriterExits(c)

Spec == Init /\ [][Next]_vars

(* Polls recur; Broadcast, the seed and the pumps never wait for a browser *)
(* longer than writeWait; a torn-down connection fails both pumps. Waiting *)
(* for h.mu ends because sync.RWMutex lets no later reader pass a writer,  *)
(* and a waiting reader in when the writer is done.                        *)
Fairness ==
  /\ \A e \in Envs :
       /\ WF_vars(Poll(e)) /\ SF_vars(Broadcast(e))
       /\ WF_vars(DeliverTo(e) \/ EndBroadcast(e) \/ \E c \in Clients : Visit(e, c))
  /\ \A c \in Clients :
       /\ WF_vars(ReadSeed(c) \/ PushSeed(c))
       /\ WF_vars(closed[c] /\ ReadFails(c)) /\ WF_vars(Unregister(c))
       /\ WF_vars(Write(c)) /\ WF_vars(closed[c] /\ WriterExits(c))

FairSpec == Spec /\ Fairness
------------------------------------------------------------------------------
(* The subscribe/broadcast race loses nothing: outside a broadcast of its  *)
(* cluster and a subscription of its own, a registered client has been     *)
(* offered the newest snapshot of the cluster it is subscribed to.         *)
LatestOffered ==
  \A c \in registered :
    reader[c] = "read" /\ env[c] # None /\ ~polling[env[c]] => offered[c] = version[env[c]]

(* Liveness: no client, however stuck, holds up a broadcast.               *)
BroadcastEnds == \A e \in Envs : polling[e] ~> ~polling[e]

(* Liveness: a client that is torn down, by its pumps or by a run of drops,*)
(* leaves the hub and both its goroutines end ("exits immediately").       *)
ClosedCleansUp ==
  \A c \in Clients : closed[c] ~> (c \notin registered /\ ~writing[c])

(* Liveness: a browser that stays connected and subscribed ends up showing *)
(* the cluster's current data, whatever was dropped or overtaken before.   *)
EventuallyShown ==
  \A c \in Clients, e \in Envs :
    <>[](env[c] = e /\ ~closed[c] /\ reader[c] = "read")
      => <>[](shown[c] = [env |-> e, v |-> version[e]])
==============================================================================
