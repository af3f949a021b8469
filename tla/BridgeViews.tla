------------------------------ MODULE BridgeViews ------------------------------
(***************************************************************************)
(* The fleet page of one cluster: the list that BridgeFleet puts together, *)
(* the statuses of configured bridges that are probed in the background    *)
(* (bridgeStatusCache) and the response that is kept for a few seconds     *)
(* (bridgeRespCache), all of internal/api/handlers_mqtt.go, while brokers  *)
(* go and come back, push their metrics or fall silent.                    *)
(*                                                                         *)
(* The caches' times to live (5 s and 3 s) pass by the Expire actions. A   *)
(* probe is one step at the time it stores its result: the broker may      *)
(* change again right after it.                                            *)
(***************************************************************************)
EXTENDS BridgeFleet

CONSTANTS
  Configs,    \* the lists of configured bridges of the cluster, [name, url]
  Conns,      \* the connections the NATS servers report, with their broker
  Pushers,    \* the brokers that publish their metrics
  MaxPanics   \* bound on the probes that panic

VARIABLES
  up,        \* the brokers that run
  config,    \* envCfg.MQTTBridges
  pushed,    \* the brokers in the subscriber's cache
  scanned,   \* Collector.mqttBridges: the result of the last scan
  entry,     \* bridgeStatus.entries: [status, fresh, fetching] for each URL
  probes,    \* the URLs with a goroutine inside refresh
  cached,    \* the listing in bridgeJSON, Nil when there is none
  fresh,     \* the listing is younger than the cache's TTL
  panics     \* probes that panicked

vars == <<up, config, pushed, scanned, entry, probes, cached, fresh, panics>>
outside == <<up, config, panics>>

Entries    == UNION {Range(c) : c \in Configs}
BridgeUrls == {e.url : e \in Entries}
Ips        == {ResolveIP(c) : c \in Conns}
CardNames  == {e.name : e \in Entries} \cup Range(PushName) \cup Ips
Statuses   == [name : CardNames, id : Range(Id) \cup {Nil}]
Instances  == [configured : CardNames \cup {Nil}, ip : Ips \cup BridgeUrls \cup {Nil},
               url : Urls \cup BridgeUrls \cup {Nil},
               status : Statuses \cup {Nil}, up : BOOLEAN]

(* Config.Validate: bridges have names, each its own, and URLs; the        *)
(* subscriber drops a publish without an instance_name. A broker may have  *)
(* no instance_id, and a configured URL may be nobody's.                   *)
ASSUME BridgeAssumption ==
  /\ IsFiniteSet(Brokers) /\ IsFiniteSet(Conns) /\ MaxPanics \in Nat
  /\ Range(Serves) \subseteq Brokers /\ DOMAIN PushName = Brokers /\ Ports \in Seq(Nat)
  /\ Configs \subseteq Seq([name : CardNames, url : BridgeUrls])
  /\ \A c \in Configs : \A i, j \in DOMAIN c : c[i].name = c[j].name => i = j
  /\ Nil \notin {e.name : e \in Entries} \cup Range(PushName) \cup Urls \cup BridgeUrls
  /\ Nil \notin Statuses \cup Instances

ConfigUrls == {config[i].url : i \in DOMAIN config}
Known == [u \in ConfigUrls |-> entry[u].status]
FleetNow == Fleet(Found(pushed, scanned), config, Known).list

BridgesTypeOK ==
  /\ up \subseteq Brokers /\ config \in Configs /\ pushed \subseteq Brokers
  /\ scanned \in Seq(Instances) /\ (cached = Nil \/ cached \in Seq(Instances))
  /\ entry \in [ConfigUrls -> [status : Statuses \cup {Nil, Failed},
                             fresh : BOOLEAN, fetching : BOOLEAN]]
  /\ probes \subseteq ConfigUrls /\ fresh \in BOOLEAN /\ panics \in 0..MaxPanics

Init ==
  /\ config \in Configs /\ up \in SUBSET Brokers
  /\ pushed = {} /\ scanned = <<>>
  /\ entry = [u \in ConfigUrls |-> [status |-> Nil, fresh |-> FALSE, fetching |-> FALSE]]
  /\ probes = {} /\ cached = Nil /\ fresh = FALSE /\ panics = 0
------------------------------------------------------------------------------
(* The brokers, and what the collector holds of them.                      *)

BrokerChange(b) ==
  /\ up' = IF b \in up THEN up \ {b} ELSE up \cup {b}
  /\ UNCHANGED <<config, pushed, scanned, entry, probes, cached, fresh, panics>>

Publish(b) ==
  /\ b \in up \cap Pushers /\ pushed' = pushed \cup {b}
  /\ UNCHANGED <<outside, scanned, entry, probes, cached, fresh>>

(* sweepExpired: a broker that runs publishes more often than the TTL.     *)
SweepExpired(b) ==
  /\ b \in pushed \ up /\ pushed' = pushed \ {b}
  /\ UNCHANGED <<outside, scanned, entry, probes, cached, fresh>>

(* shouldConnzScan, and the discovery it starts.                           *)
Scan ==
  /\ pushed = {}
  /\ UNCHANGED <<outside, pushed, entry, probes, cached, fresh>>
  /\ scanned' \in Discoveries({c \in Conns : c.broker \in up}, up)
------------------------------------------------------------------------------
(* getAsync: one background probe when the status is missing or too old.   *)
GetAsync(e) ==
  IF ~e.fetching /\ (e.status = Nil \/ ~e.fresh) THEN [e EXCEPT !.fetching = TRUE] ELSE e

(* handleMQTTBridges: a fresh response is served as it is, otherwise the   *)
(* list is put together, stored and served.                                *)
Poll ==
  /\ cached = Nil \/ ~fresh
  /\ UNCHANGED <<outside, pushed, scanned>> /\ fresh' = TRUE
  /\ \E found \in {Found(pushed, scanned)} : \E made \in {Fleet(found, config, Known)} :
     /\ cached' = made.list
     /\ entry' = [u \in ConfigUrls |->
                    IF u \in made.asked THEN GetAsync(entry[u]) ELSE entry[u]]
     /\ probes' = probes \cup {u \in made.asked : GetAsync(entry[u]) # entry[u]}

ExpireResponse ==
  /\ fresh /\ fresh' = FALSE
  /\ UNCHANGED <<outside, pushed, scanned, entry, probes, cached>>

ExpireStatus(u) ==
  /\ entry[u].fresh /\ entry' = [entry EXCEPT ![u].fresh = FALSE]
  /\ UNCHANGED <<outside, pushed, scanned, probes, cached, fresh>>

(* A faulty variant: the deferred function stores a result only.           *)
PanicKeepsFlag(u) ==
  /\ u \in probes /\ probes' = probes \ {u} /\ panics < MaxPanics
  /\ panics' = panics + 1 /\ UNCHANGED entry
  /\ UNCHANGED <<up, config, pushed, scanned, cached, fresh>>

(* refresh when the probe panics: the flag is cleared, the status stays.   *)
Panic(u) ==
  /\ u \in probes /\ probes' = probes \ {u} /\ panics < MaxPanics
  /\ panics' = panics + 1 /\ entry' = [entry EXCEPT ![u].fetching = FALSE]
  /\ UNCHANGED <<up, config, pushed, scanned, cached, fresh>>

(* refresh: FetchStatus answers or fails, and its result is stored.        *)
Refresh(u) ==
  /\ u \in probes /\ probes' = probes \ {u}
  /\ UNCHANGED <<outside, pushed, scanned, cached, fresh>>
  /\ LET b == CHOOSE i \in DOMAIN config : config[i].url = u
         st == IF Answers(up, u) THEN Status(config[b].name, u) ELSE Failed
     IN entry' = [entry EXCEPT ![u] = [status |-> st, fresh |-> TRUE, fetching |-> FALSE]]
------------------------------------------------------------------------------
Next ==
  \/ \E b \in Brokers : BrokerChange(b) \/ Publish(b) \/ SweepExpired(b)
  \/ Scan \/ Poll \/ ExpireResponse
  \/ \E u \in ConfigUrls : ExpireStatus(u) \/ Panic(u) \/ Refresh(u)

Spec == Init /\ [][Next]_vars

(* The page polls while it is open, time passes, every probe ends within   *)
(* bridgeProbeTimeout, the poll loop scans while nothing is pushed and the *)
(* sweeper of the subscriber ticks. Brokers and publishes owe nothing.     *)
Fairness ==
  /\ WF_vars(Poll) /\ WF_vars(ExpireResponse) /\ WF_vars(Scan)
  /\ \A b \in Brokers : WF_vars(SweepExpired(b))
  /\ \A u \in Urls : WF_vars(u \in ConfigUrls /\ ExpireStatus(u))
                     /\ WF_vars(u \in ConfigUrls /\ (Refresh(u) \/ Panic(u)))

FairSpec == Spec /\ Fairness
------------------------------------------------------------------------------
(* The merge of fleetBridges: no discovered instance is lost, every        *)
(* configured bridge is in the list, and a broker whose identity is known  *)
(* is not listed twice, unless discovery itself found it twice ("the same  *)
(* broker: merge it rather than listing it twice").                        *)
Times(list, id) ==
  Cardinality({i \in DOMAIN list : list[i].status # Nil /\ list[i].status.id = id})

Represents(inst, b) ==
  \/ inst.url = b.url
  \/ DisplayName(inst) = b.name
  \/ b.url \in Urls /\ Identified(inst, Id[Serves[b.url]])

FleetMergeSound ==
  LET found == Found(pushed, scanned)  list == FleetNow IN
  /\ \A i \in DOMAIN found : list[i].ip = found[i].ip
  /\ \A i \in DOMAIN config : \E k \in DOMAIN list : Represents(list[k], config[i])
  /\ \A id \in Range(Id) \ {Nil} :
       Times(list, id) <= 1 \/ Times(list, id) <= Times(found, id)

(* Every card of the list opens: whatever the bridge answers, no read of   *)
(* its detail page is told that there is no such bridge; a card that is up *)
(* has metrics to show, and a live read goes to the broker on the card, not*)
(* to another one.                                                         *)
Codes == {0, 200, 404, 409, 429, 503}

LeadsTo(card, target) ==
  target # Nil /\ card.status # Nil /\ card.status.id # Nil
    => Id[Serves[target]] = card.status.id

CardOpens(card, found) ==
  LET name == DisplayName(card) IN
  /\ \A code \in Codes : "not found" \notin CardReads(AdminRead(found, config, name), code)
  /\ card.up => PushRead(found, config, name) \in {"pushed", "live"}
  /\ LeadsTo(card, FindBridge(found, config, name))

CardsOpen ==
  \A card \in Range(FleetNow) : CardOpens(card, Found(pushed, scanned))

(* What an operator owes for a card to lead to its broker: no bridge is    *)
(* configured under an address, no broker has one for its instance_id, and *)
(* a configured bridge that bears the instance_name of a broker has the URL*)
(* of that broker.                                                         *)
NamesApart ==
  /\ Ips \cap ({e.name : e \in Entries} \cup Range(Id) \cup Urls) = {}
  /\ \A e \in Entries, b \in Brokers :
       e.name = PushName[b] => e.url \in Urls /\ Serves[e.url] = b

(* Liveness: once the brokers stop changing, the list comes to show which  *)
(* of the configured bridges run and keeps showing it, although probes     *)
(* panic, statuses and responses are served from caches, and a broker is   *)
(* found in turn by its publishes, by scans and by probes.                 *)
ShownUp(u) ==
  cached # Nil /\ \E k \in DOMAIN cached : cached[k].url = u /\ cached[k].up

ListingCatchesUp ==
  <>[][UNCHANGED up]_up
    => <>[](\A u \in ConfigUrls : ShownUp(u) <=> Serves[u] \in up)
==============================================================================
