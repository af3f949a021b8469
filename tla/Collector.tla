------------------------------ MODULE Collector ------------------------------
(***************************************************************************)
(* One cluster's Collector (internal/collector): the supervised poll loop  *)
(* with its two ways of reading the servers (HTTP monitoring, $SYS), the   *)
(* $SYS->HTTP fallback with its grace period, the two push links with      *)
(* their TTL caches (SYSCollector.statsz, MQTTSubscriber.bridges), and the *)
(* background connz-scan discovery goroutine.                              *)
(*                                                                         *)
(* Time is kept as ages: an action Tick adds one to the age of everything  *)
(* that the code stamps with time.Now(), up to the largest age any         *)
(* comparison in the code can tell apart, so that the state space is       *)
(* finite without bounding the number of polls.                            *)
(***************************************************************************)
EXTENDS Integers, FiniteSets

CONSTANTS
  Servers,          \* the NATS servers of the cluster
  Bridges,          \* the MachMQTT bridges connected to them
  SYSCollection,    \* env.NATSConn # nil and nats_conn.sys_collection (c.sys # nil)
  HasSubscriber,    \* env.NATSConn # nil                       (c.subscriber # nil)
  DiscoveryEnabled, \* env.MQTTDiscoveryEnabled()
  Grace,            \* sysFallbackGrace, in ticks
  TTL,              \* TTL["sys"] = defaultStatszTTL, TTL["push"] = defaultBridgeTTL
  MaxPanics         \* bound on the recovered panics of one behaviour

Links == {"sys", "push"}

ASSUME CollectorAssumption ==
  /\ IsFiniteSet(Servers) /\ IsFiniteSet(Bridges) /\ Servers \cap Bridges = {}
  /\ SYSCollection \in BOOLEAN /\ HasSubscriber \in BOOLEAN
  /\ DiscoveryEnabled \in BOOLEAN
  /\ SYSCollection => HasSubscriber         \* startCollector
  /\ Grace \in Nat \ {0} /\ MaxPanics \in Nat
  /\ TTL \in [Links -> Nat \ {0}]

VARIABLES
  pc,          \* where the poll goroutine is
  tick,        \* c.tick modulo 3
  slow,        \* the poll in progress fetches the slow tier
  snap,        \* c.snapshot
  fellBack,    \* c.sysFellBack
  everHealthy, \* c.sysEverHealthy
  failAge,     \* age of c.sysFirstFail, Never when it is zero
  run,         \* run[l]: how far the goroutine SYSCollector.run / MQTTSubscriber.run is
  up,          \* up[l]: nc.IsConnected()
  seen,        \* seen[k]: age of the cache entry of server or bridge k
  replies,     \* the servers that have answered the PING fan-in in progress
  httpUp,      \* the servers whose monitoring port answers
  disc,        \* the discovery goroutine (c.mqttDiscovering is disc # "none")
  scanConns,   \* the bridges discovery read from the snapshot's Connz
  scanned,     \* c.mqttBridges
  stored,      \* this cluster's rows of the table mqtt_bridges
  cancelled,   \* the collector's context is done
  panics,      \* panics recovered so far
  quiet        \* history: age of the last successful $SYS poll

pollVars  == <<pc, tick, slow, snap, fellBack, everHealthy, failAge, quiet>>
linkVars  == <<run, up, seen, replies>>
discVars  == <<disc, scanConns, scanned, stored>>
vars == <<pollVars, linkVars, discVars, httpUp, cancelled, panics>>

Never == -1   \* a zero time, or no entry in a cache

Keys(l) == IF l = "sys" THEN Servers ELSE Bridges
Cached(l) == {k \in Keys(l) : seen[k] # Never}
LinkOf(k) == IF k \in Servers THEN "sys" ELSE "push"
Configured(l) == IF l = "sys" THEN SYSCollection ELSE HasSubscriber

(* nc # nil, and Connected().                                              *)
HasConn(l)   == run[l] \in {"subscribing", "running"}
Connected(l) == HasConn(l) /\ up[l]

(* A snapshot: whether its Timestamp is set, the servers in Varz, the      *)
(* bridge connections in Connz, and how many publications old Subsz, JSInfo*)
(* and Accountz are (3 standing for every larger number).                  *)
Snapshots == [taken : BOOLEAN, varz : SUBSET Servers, conns : SUBSET Bridges,
              lag : 0..3]

PollTypeOK ==
  /\ pc \in {"boot", "idle", "try", "sys", "ping", "cache", "ok", "fail",
             "http", "discover", "notify", "stopped"}
  /\ tick \in 0..2 /\ slow \in BOOLEAN
  /\ snap \in Snapshots
  /\ fellBack \in BOOLEAN /\ everHealthy \in BOOLEAN
  /\ failAge \in Never..Grace
  /\ quiet \in 0..Grace

LinkTypeOK ==
  /\ run \in [Links -> {"off", "connecting", "subscribing", "running", "ended"}]
  /\ up \in [Links -> BOOLEAN]
  /\ seen \in [Servers \cup Bridges -> Int]
  /\ \A k \in Servers \cup Bridges : seen[k] \in Never..(TTL[LinkOf(k)] + 1)
  /\ replies \subseteq Servers

DiscoveryTypeOK ==
  /\ disc \in {"none", "started", "probing", "persisted"}
  /\ scanConns \subseteq Bridges /\ scanned \subseteq Bridges /\ stored \subseteq Bridges

TypeOK ==
  /\ PollTypeOK /\ LinkTypeOK /\ DiscoveryTypeOK
  /\ httpUp \subseteq Servers /\ cancelled \in BOOLEAN /\ panics \in 0..MaxPanics

(* newCollector and startCollector: an empty snapshot with a zero          *)
(* Timestamp; the push goroutines exist before the first poll.             *)
Init ==
  /\ pc = "boot" /\ tick = 0 /\ slow = TRUE
  /\ snap = [taken |-> FALSE, varz |-> {}, conns |-> {}, lag |-> 0]
  /\ fellBack = FALSE /\ everHealthy = FALSE /\ failAge = Never
  /\ run = [l \in Links |-> IF Configured(l) THEN "connecting" ELSE "off"]
  /\ up = [l \in Links |-> FALSE]
  /\ seen = [k \in Servers \cup Bridges |-> Never] /\ replies = {}
  /\ httpUp \in SUBSET Servers
  /\ disc = "none" /\ scanConns = {} /\ scanned = {} /\ stored \in SUBSET Bridges
  /\ cancelled = FALSE /\ panics = 0
  /\ quiet = 0
------------------------------------------------------------------------------
(* The poll goroutine: Collector.run, poll and pollSYS.                    *)

Goto(step) == pc' = step

(* A faulty variant: a loop restarted by the supervisor begins with a fast *)
(* poll.                                                                   *)
StartPollFastRestart ==
  /\ \/ pc = "boot" /\ ~cancelled /\ slow' = (tick = 0) /\ tick' = tick
     \/ pc = "idle" /\ tick' = (tick + 1) % 3 /\ slow' = (tick' = 0)
  /\ Goto(IF SYSCollection THEN "try" ELSE "http")
  /\ UNCHANGED <<snap, fellBack, everHealthy, failAge, quiet, linkVars, discVars,
                 httpUp, cancelled, panics>>

(* The first poll of run is a slow one; afterwards every third tick is.    *)
(* run's select may still take a tick that is due when ctx is done too.    *)
StartPoll ==
  /\ \/ pc = "boot" /\ ~cancelled /\ slow' = TRUE /\ tick' = tick
     \/ pc = "idle" /\ tick' = (tick + 1) % 3 /\ slow' = (tick' = 0)
  /\ Goto(IF SYSCollection THEN "try" ELSE "http")
  /\ UNCHANGED <<snap, fellBack, everHealthy, failAge, quiet, linkVars, discVars,
                 httpUp, cancelled, panics>>

(* A faulty variant: the fallback is never left.                           *)
TrySysNotInFallback ==
  /\ pc = "try"
  /\ Goto(IF ~fellBack THEN "sys" ELSE "http")
  /\ UNCHANGED <<tick, slow, snap, fellBack, everHealthy, failAge, quiet, linkVars,
                 discVars, httpUp, cancelled, panics>>

(* trySys: during a fallback $SYS is tried only when a STATSZ is cached.   *)
TrySys ==
  /\ pc = "try"
  /\ Goto(IF ~fellBack \/ Cached("sys") # {} THEN "sys" ELSE "http")
  /\ UNCHANGED <<tick, slow, snap, fellBack, everHealthy, failAge, quiet, linkVars,
                 discVars, httpUp, cancelled, panics>>

(* The head of SYSCollector.poll, which reads nc and the cache length.     *)
SysPoll ==
  /\ pc = "sys"
  /\ Goto(IF ~HasConn("sys") THEN "fail"
          ELSE IF slow \/ (Cached("sys") = {} /\ up["sys"]) THEN "ping" ELSE "cache")
  /\ UNCHANGED <<tick, slow, snap, fellBack, everHealthy, failAge, quiet, linkVars,
                 discVars, httpUp, cancelled, panics>>

(* A faulty variant: an answer without servers is stored too.              *)
PublishSysEmpty(s) == Goto("ok") /\ snap' = s /\ quiet' = 0

(* pollSYS stores a snapshot that has at least one server.                 *)
PublishSys(s) ==
  IF s.varz = {}
  THEN Goto("fail") /\ UNCHANGED <<snap, quiet>>
  ELSE Goto("ok") /\ snap' = s /\ quiet' = 0

(* fanIn: a server answers a request while the link is up.                 *)
Reply(s) ==
  /\ pc = "ping" /\ Connected("sys")
  /\ replies' = replies \cup {s}
  /\ UNCHANGED <<pollVars, run, up, seen, discVars, httpUp, cancelled, panics>>

(* fillFromPing: the 2s of fanIn are over. Varz and Connz are two of nine  *)
(* requests, each answered or not on its own.                              *)
SysPing ==
  /\ pc = "ping"
  /\ \E conns \in SUBSET Bridges :
       PublishSys([taken |-> TRUE, varz |-> replies, conns |-> conns, lag |-> 0])
  /\ replies' = {}
  /\ UNCHANGED <<tick, slow, fellBack, everHealthy, failAge, run, up, seen, discVars,
                 httpUp, cancelled, panics>>

Older(lag) == IF lag < 3 THEN lag + 1 ELSE 3

(* The fast path: Varz from the STATSZ cache, all the rest carried forward.*)
SysCache ==
  /\ pc = "cache"
  /\ PublishSys([taken |-> TRUE, varz |-> Cached("sys"),
                 conns |-> snap.conns, lag |-> Older(snap.lag)])
  /\ UNCHANGED <<tick, slow, fellBack, everHealthy, failAge, linkVars, discVars,
                 httpUp, cancelled, panics>>

(* A faulty variant: sysFirstFail is not reset by a success.               *)
SysOkKeepsFirstFail ==
  /\ pc = "ok"
  /\ Goto("discover")
  /\ fellBack' = FALSE /\ everHealthy' = TRUE /\ failAge' = failAge
  /\ UNCHANGED <<tick, slow, snap, quiet, linkVars, discVars, httpUp, cancelled, panics>>

(* $SYS is healthy: leave the fallback and drop the connz-scanned bridges. *)
SysOk ==
  /\ pc = "ok"
  /\ Goto("discover")
  /\ fellBack' = FALSE /\ everHealthy' = TRUE /\ failAge' = Never
  /\ scanned' = IF fellBack THEN {} ELSE scanned
  /\ UNCHANGED <<tick, slow, snap, quiet, linkVars, disc, scanConns, stored, httpUp,
                 cancelled, panics>>

(* A faulty variant: every failed poll restarts the grace period.          *)
SysFailRestartsGrace ==
  /\ pc = "fail"
  /\ failAge' = 0
  /\ IF everHealthy /\ ~fellBack /\ failAge' < Grace
     THEN Goto("discover") /\ UNCHANGED fellBack
     ELSE Goto("http") /\ fellBack' = TRUE
  /\ UNCHANGED <<tick, slow, snap, everHealthy, quiet, linkVars, discVars, httpUp,
                 cancelled, panics>>

(* $SYS gave no server: note when that began, then wait out the grace      *)
(* period if $SYS has ever worked, or (stay on, or) engage the fallback.   *)
SysFail ==
  /\ pc = "fail"
  /\ failAge' = IF failAge = Never THEN 0 ELSE failAge
  /\ IF everHealthy /\ ~fellBack /\ failAge' < Grace
     THEN Goto("discover") /\ UNCHANGED fellBack
     ELSE Goto("http") /\ fellBack' = TRUE
  /\ UNCHANGED <<tick, slow, snap, everHealthy, quiet, linkVars, discVars, httpUp,
                 cancelled, panics>>

(* fetchServer for every configured server and the publication, also of a  *)
(* snapshot without servers. A fast poll carries the slow tier forward.    *)
HttpPoll ==
  /\ pc = "http"
  /\ \E conns \in SUBSET Bridges :
       /\ conns # {} => httpUp # {}
       /\ snap' = [taken |-> TRUE, varz |-> httpUp, conns |-> conns,
                   lag |-> IF slow THEN 0 ELSE Older(snap.lag)]
  /\ Goto("discover")
  /\ UNCHANGED <<tick, slow, fellBack, everHealthy, failAge, quiet, linkVars,
                 discVars, httpUp, cancelled, panics>>

shouldConnzScan == DiscoveryEnabled /\ Cached("push") = {}

(* maybeDiscoverBridges: the compare-and-swap admits one discovery.        *)
MaybeDiscover ==
  /\ pc = "discover"
  /\ Goto("notify")
  /\ disc' = IF shouldConnzScan /\ disc = "none" THEN "started" ELSE disc
  /\ UNCHANGED <<tick, slow, snap, fellBack, everHealthy, failAge, quiet, linkVars,
                 scanConns, scanned, stored, httpUp, cancelled, panics>>

(* onChange(clusterID), then back to the select.                           *)
Notify ==
  /\ pc = "notify" /\ Goto("idle")
  /\ UNCHANGED <<tick, slow, snap, fellBack, everHealthy, failAge, quiet, linkVars,
                 discVars, httpUp, cancelled, panics>>

(* superviseGoroutine restarts run after a recovered panic, unless ctx is  *)
(* done; run begins again with a slow poll. What can panic is the parsing  *)
(* of answers before the publication and the onChange callback; between    *)
(* them only atomics and log calls run.                                    *)
PollPanic ==
  /\ pc \in {"sys", "ping", "cache", "http", "notify"} /\ panics < MaxPanics
  /\ Goto(IF cancelled THEN "stopped" ELSE "boot") /\ panics' = panics + 1
  /\ replies' = {}
  /\ UNCHANGED <<tick, slow, snap, fellBack, everHealthy, failAge, quiet, run, up,
                 seen, discVars, httpUp, cancelled>>

(* A faulty variant: only run's select looks at ctx, the supervisor's      *)
(* delay does not.                                                         *)
StopPollingOnlyIdle ==
  /\ cancelled /\ pc = "idle" /\ Goto("stopped")
  /\ UNCHANGED <<tick, slow, snap, fellBack, everHealthy, failAge, quiet, linkVars,
                 discVars, httpUp, cancelled, panics>>

(* ctx is seen by the supervisor before run, or by the select inside it.   *)
StopPolling ==
  /\ cancelled /\ pc \in {"boot", "idle"} /\ Goto("stopped")
  /\ UNCHANGED <<tick, slow, snap, fellBack, everHealthy, failAge, quiet, linkVars,
                 discVars, httpUp, cancelled, panics>>
------------------------------------------------------------------------------
(* The discovery goroutine: discoverMQTTBridges.                           *)

ReadConnz ==
  /\ disc = "started"
  /\ disc' = "probing" /\ scanConns' = snap.conns
  /\ UNCHANGED <<pollVars, linkVars, scanned, stored, httpUp,
                 cancelled, panics>>

(* The probes are over: upsert a row per instance and prune rows unseen for*)
(* 24 hours. A probe may be skipped once ctx is done.                      *)
PersistBridges ==
  /\ disc = "probing"
  /\ \E found \in SUBSET scanConns, keep \in SUBSET stored :
       /\ cancelled \/ found = scanConns
       /\ scanConns' = found
       /\ stored' = keep \cup found
  /\ disc' = "persisted"
  /\ UNCHANGED <<pollVars, linkVars, scanned, httpUp, cancelled,
                 panics>>

(* c.mqttBridges = bridges, then the deferred mqttDiscovering.Store(false).*)
PublishBridges ==
  /\ disc = "persisted"
  /\ scanned' = scanConns
  /\ disc' = "none" /\ scanConns' = {}
  /\ UNCHANGED <<pollVars, linkVars, stored, httpUp, cancelled, panics>>

(* A faulty variant: mqttDiscovering is not released by a panic.           *)
DiscoveryPanicKeepsFlag ==
  /\ disc = "probing" /\ panics < MaxPanics /\ panics' = panics + 1
  /\ disc' = "lost" /\ scanConns' = {}
  /\ UNCHANGED <<pollVars, linkVars, scanned, stored, httpUp, cancelled>>

(* runGuarded contains a panic; the deferred Store(false) still runs.      *)
DiscoveryPanic ==
  /\ disc # "none" /\ panics < MaxPanics /\ panics' = panics + 1
  /\ disc' = "none" /\ scanConns' = {}
  /\ UNCHANGED <<pollVars, linkVars, scanned, stored, httpUp, cancelled>>
------------------------------------------------------------------------------
(* The push goroutines: SYSCollector.run (l = "sys") and MQTTSubscriber.run*)
(* (l = "push"), and the NATS client under them.                           *)

(* connectNATS returns at once, connected or not, or fails on a bad option.*)
Connect(l) ==
  /\ run[l] = "connecting"
  /\ \E step \in {"subscribing", "ended"} : run' = [run EXCEPT ![l] = step]
  /\ UNCHANGED <<pollVars, up, seen, replies, discVars, httpUp, cancelled, panics>>

(* subscribeWithRetry: after the last retry fails, run returns for good.   *)
Subscribe(l) ==
  /\ run[l] = "subscribing"
  /\ \/ run' = [run EXCEPT ![l] = "running"] /\ up' = up
     \/ run' = [run EXCEPT ![l] = "ended"] /\ up' = [up EXCEPT ![l] = FALSE]
  /\ UNCHANGED <<pollVars, seen, replies, discVars, httpUp, cancelled, panics>>

(* The client loses the server and reconnects, for as long as it is open.  *)
LinkChange(l) ==
  /\ HasConn(l)
  /\ up' = [up EXCEPT ![l] = ~@]
  /\ UNCHANGED <<pollVars, run, seen, replies, discVars, httpUp, cancelled, panics>>

(* The subscription callback stores the entry with receivedAt = now.       *)
Receive(k) ==
  /\ run[LinkOf(k)] = "running" /\ up[LinkOf(k)]
  /\ seen' = [seen EXCEPT ![k] = 0]
  /\ UNCHANGED <<pollVars, run, up, replies, discVars, httpUp, cancelled, panics>>

Expired(l) == {k \in Cached(l) : seen[k] > TTL[l]}

SweepExpired(l) ==
  /\ run[l] = "running" /\ Expired(l) # {}
  /\ seen' = [k \in Servers \cup Bridges |-> IF k \in Expired(l) THEN Never ELSE seen[k]]
  /\ UNCHANGED <<pollVars, run, up, replies, discVars, httpUp, cancelled, panics>>

(* ctx is done, or a panic was recovered (the supervisor starts run again):*)
(* the deferred calls close the connection and clear nc.                   *)
LinkExit(l) ==
  /\ run[l] \in {"connecting", "subscribing", "running"}
  /\ \/ cancelled /\ run' = [run EXCEPT ![l] = "ended"] /\ panics' = panics
     \/ ~cancelled /\ panics < MaxPanics /\ panics' = panics + 1
        /\ run' = [run EXCEPT ![l] = "connecting"]
  /\ up' = [up EXCEPT ![l] = FALSE]
  /\ UNCHANGED <<pollVars, seen, replies, discVars, httpUp, cancelled>>
------------------------------------------------------------------------------
(* The environment: monitoring ports, cancellation, time.                  *)

HttpChange ==
  /\ httpUp' \in SUBSET Servers
  /\ UNCHANGED <<pollVars, linkVars, discVars, cancelled, panics>>

Cancel ==
  /\ ~cancelled /\ cancelled' = TRUE
  /\ UNCHANGED <<pollVars, linkVars, discVars, httpUp, panics>>

Aged(a, limit) == IF a = Never THEN Never ELSE IF a < limit THEN a + 1 ELSE limit

Tick ==
  /\ failAge' = Aged(failAge, Grace)
  /\ quiet' = Aged(quiet, Grace)
  /\ seen' = [k \in Servers \cup Bridges |-> Aged(seen[k], TTL[LinkOf(k)] + 1)]
  /\ UNCHANGED <<pc, tick, slow, snap, fellBack, everHealthy, run, up, replies,
                 discVars, httpUp, cancelled, panics>>

PollStep ==
  \/ StartPoll \/ TrySys \/ SysPoll \/ SysPing \/ SysCache \/ SysOk \/ SysFail
  \/ HttpPoll \/ MaybeDiscover \/ Notify
DiscoveryStep == ReadConnz \/ PersistBridges \/ PublishBridges

Next ==
  \/ PollStep \/ PollPanic \/ StopPolling
  \/ DiscoveryStep \/ DiscoveryPanic
  \/ \E l \in Links : Connect(l) \/ Subscribe(l) \/ LinkChange(l) \/ SweepExpired(l)
                      \/ LinkExit(l)
  \/ \E k \in Servers \cup Bridges : Receive(k)
  \/ \E s \in Servers : Reply(s)
  \/ HttpChange \/ Cancel \/ Tick

Spec == Init /\ [][Next]_vars

(* The Go scheduler runs every goroutine and the network calls all have    *)
(* deadlines, so the poll loop, the discovery, the sweepers and the clock  *)
(* go on; select picks a ready ctx.Done() with probability 1/2, so a       *)
(* cancelled loop stops. Nothing obliges a server to answer, a link to come*)
(* up or a message to arrive.                                              *)
Fairness ==
  /\ WF_vars(PollStep) /\ SF_vars(StopPolling)
  /\ WF_vars(DiscoveryStep) /\ WF_vars(Tick)
  /\ \A l \in Links : WF_vars(SweepExpired(l)) /\ WF_vars(cancelled /\ LinkExit(l))

FairSpec == Spec /\ Fairness
------------------------------------------------------------------------------
(* Once $SYS has worked, the fallback is engaged only after a silence of   *)
(* the whole grace period: no poll of $SYS has succeeded since             *)
(* (sysFallbackGrace, "rides out a short grace period first").             *)
GraceHonoured ==
  [][~fellBack /\ fellBack' => ~everHealthy \/ quiet = Grace]_vars

(* While $SYS is the source, a published snapshot always shows a server:   *)
(* an empty answer never replaces the prior snapshot.                      *)
SysNeverBlank == SYSCollection /\ ~fellBack /\ snap.taken => snap.varz # {}

(* An HTTP-only cluster shows Subsz, JSInfo and Accountz at most two       *)
(* publications old, whatever polls panicked in between.                   *)
SlowTierFresh == ~SYSCollection => snap.lag <= 2

(* Liveness: a cluster whose STATSZ cache stays non-empty leaves the HTTP  *)
(* fallback and stays off it ("resumes $SYS automatically once data        *)
(* reappears").                                                            *)
SysResumes ==
  <>[](~cancelled /\ HasConn("sys") /\ Cached("sys") # {}) => <>[]~fellBack

(* Liveness: when $SYS gives nothing any more while the monitoring ports   *)
(* answer, the collector ends up on HTTP with the servers shown.           *)
OutageFallsBack ==
  <>[](~cancelled /\ SYSCollection /\ ~Connected("sys") /\ Cached("sys") = {}
       /\ httpUp # {})
    => <>[](fellBack /\ snap.varz # {})

(* Liveness: while the push cache is empty and snapshots keep showing      *)
(* bridge connections, the fleet list is filled by discovery again and     *)
(* again, a panicking discovery included (mqttDiscovering is released).    *)
FleetShown ==
  DiscoveryEnabled =>
    (<>[](~cancelled /\ Cached("push") = {} /\ snap.conns # {})
       => []<>(scanned # {}))

(* Liveness: after the context is cancelled every goroutine of the         *)
(* collector comes to its end, the discovery included.                     *)
CancelStops ==
  cancelled ~> [](pc = "stopped" /\ disc = "none"
                  /\ \A l \in Links : run[l] \in {"off", "ended"})
==============================================================================
