------------------------------ MODULE BridgeFleet ------------------------------
(***************************************************************************)
(* How the dashboard puts the list of MachMQTT bridges of one cluster      *)
(* together and finds the bridge a request names: the connz scan of        *)
(* internal/collector/mqtt_discovery.go, the push instances of             *)
(* mqtt_subscriber.go, and the merge and the look-up of                    *)
(* internal/api/handlers_mqtt.go.                                          *)
(*                                                                         *)
(* An instance is [configured, ip, url, status, up]: ConfiguredName, IP,   *)
(* AdminURL, Status and Reachable. A status is [name, id]: its Name and    *)
(* its Metrics.InstanceID, Nil where it is empty. Counters and rates are   *)
(* left out.                                                               *)
(***************************************************************************)
EXTENDS Integers, Sequences, SequencesExt, FiniteSets

CONSTANTS
  Nil,         \* an empty string, a nil pointer
  Failed,      \* the status of a probe whose /readyz did not answer
  Loopback,    \* 127.0.0.1 or ::1
  ServerHost,  \* ServerHost[srv]: the host of the server's URL or varz, or Nil
  Ports,       \* MQTTDiscoveryPorts, in their order
  Serves,      \* Serves[u]: the broker whose admin API is at the URL u
  PushName,    \* PushName[b]: the instance_name under which broker b publishes
  Id           \* Id[b]: the instance_id broker b reports

Brokers == DOMAIN Id
Urls    == DOMAIN Serves
Url(host, port) == [host |-> host, port |-> port]

(* fetchAccepting: a body is decoded for a 200 and for the codes of        *)
(* alsoDecode, anything else is an error. Code 0: the bridge is not reached*)
Fetched(code, alsoDecode) == code \in {200} \cup alsoDecode

(* FetchReadyz: a bridge that is draining or degraded answers with 503.    *)
Ready(code) == Fetched(code, {503})

(* FetchStatus fails when /readyz does; the identity comes from /metrics,  *)
(* which is taken to answer when /readyz does.                             *)
Answers(up, u) == u \in Urls /\ Serves[u] \in up
Status(name, u) == [name |-> name, id |-> Id[Serves[u]]]
------------------------------------------------------------------------------
(* The scan: connections of a bridge, grouped by server and address.       *)

(* resolveBridgeIP.                                                        *)
ResolveIP(c) ==
  IF c.ip = Loopback /\ ServerHost[c.server] # Nil THEN ServerHost[c.server] ELSE c.ip

(* The probe takes the first of the admin ports that answers.              *)
Probed(up, ip) ==
  LET p == SelectInSeq(Ports, LAMBDA port : Answers(up, Url(ip, port))) IN
  IF p = 0
  THEN [configured |-> Nil, ip |-> ip, url |-> Nil, status |-> Nil, up |-> FALSE]
  ELSE [configured |-> Nil, ip |-> ip, url |-> Url(ip, Ports[p]),
        status |-> Status(ip, Url(ip, Ports[p])), up |-> TRUE]

(* DiscoverMQTTBridges: the goroutines of the probes append in any order.  *)
Discoveries(conns, up) ==
  LET groups == {<<c.server, ResolveIP(c)>> : c \in {k \in conns : k.bridge}}
  IN {[i \in DOMAIN s |-> Probed(up, s[i][2])] : s \in SetToSeqs(groups)}

(* bridgeMsgToInstance.                                                    *)
PushInstance(b) ==
  [configured |-> PushName[b], ip |-> Nil, url |-> Nil,
   status |-> [name |-> PushName[b], id |-> Id[b]], up |-> TRUE]

(* Collector.MQTTBridges: what is pushed wins, in the order of a Go map.   *)
Found(pushed, scanned) ==
  IF pushed = {} THEN scanned
  ELSE LET order == SetToSeq(pushed) IN [i \in DOMAIN order |-> PushInstance(order[i])]
------------------------------------------------------------------------------
(* bridgeDisplayName, which is also the name the browser puts on a card.   *)
DisplayName(inst) ==
  IF inst.configured # Nil THEN inst.configured
  ELSE IF inst.status # Nil THEN inst.status.name ELSE [mqttAt |-> inst.ip]

(* A faulty variant: only the configured name, no fallback.                *)
MatchesConfigured(inst, name) ==
  \/ inst.configured = name
  \/ inst.url # Nil /\ inst.url = name

BridgeMatchesName(inst, name) ==
  \/ DisplayName(inst) = name
  \/ inst.ip # Nil /\ inst.ip = name
  \/ inst.url # Nil /\ inst.url = name

IndexOfConfigured(list, b) ==
  SelectInSeq(list, LAMBDA inst : inst.url = b.url \/ DisplayName(inst) = b.name)

MergeConfigured(inst, b) ==
  [inst EXCEPT !.configured = IF @ = Nil THEN b.name ELSE @,
               !.url = IF @ = Nil THEN b.url ELSE @]

(* A faulty variant: only the name an instance is keyed by is compared.    *)
FindByName(list, id) ==
  IF id = Nil THEN 0
  ELSE SelectInSeq(list, LAMBDA inst : inst.status # Nil /\ inst.status.name = id)

(* An empty identity is nobody's.                                          *)
Identified(inst, id) ==
  id # Nil /\ inst.status # Nil /\ id \in {inst.status.id, inst.status.name}

FindByIdentity(list, id) == SelectInSeq(list, LAMBDA inst : Identified(inst, id))

(* A configured bridge that discovery did not report; known is the cached  *)
(* status of its URL, Nil while the first probe is pending.                *)
ConfiguredInstance(b, known) ==
  [configured |-> b.name, ip |-> b.url, url |-> b.url,
   status |-> IF known = Nil \/ known = Failed THEN [name |-> b.name, id |-> Nil]
              ELSE known,
   up |-> known \notin {Nil, Failed}]

ProbedIdentity(known) == IF known \in {Nil, Failed} THEN Nil ELSE known.id

(* The loop of fleetBridges: one configured bridge put into the list, and  *)
(* the URL whose status it asked for.                                      *)
AddConfigured(acc, b, known) ==
  LET i == IndexOfConfigured(acc.list, b)
      j == FindByIdentity(acc.list, ProbedIdentity(known[b.url]))
      into(k) == [acc.list EXCEPT ![k] = MergeConfigured(acc.list[k], b)]
  IN IF i > 0 THEN [acc EXCEPT !.list = into(i)]
     ELSE [list |-> IF j > 0 THEN into(j)
                    ELSE Append(acc.list, ConfiguredInstance(b, known[b.url])),
           asked |-> acc.asked \cup {b.url}]

FleetSteps(found, config, known) ==
  LET Upto[i \in 0..Len(config)] ==
        IF i = 0 THEN [list |-> found, asked |-> {}]
        ELSE AddConfigured(Upto[i - 1], config[i], known)
  IN Upto

(* fleetBridges: the list, and the URLs whose status it asked for.         *)
Fleet(found, config, known) == FleetSteps(found, config, known)[Len(config)]
------------------------------------------------------------------------------
(* findBridge: the admin URL for a name, configured bridges first.         *)
FindBridge(found, config, name) ==
  LET c == SelectInSeq(config, LAMBDA b : b.name = name)
      d == SelectInSeq(found, LAMBDA inst : BridgeMatchesName(inst, name) /\ inst.url # Nil)
  IN IF c > 0 THEN config[c].url ELSE IF d > 0 THEN found[d].url ELSE Nil

FindBridgePush(found, name) ==
  LET d == SelectInSeq(found, LAMBDA inst : BridgeMatchesName(inst, name))
  IN IF d > 0 THEN found[d] ELSE Nil

(* What a request that needs the admin API meets: a live bridge, a bridge  *)
(* that only publishes, or none of that name.                              *)
AdminRead(found, config, name) ==
  IF FindBridge(found, config, name) # Nil THEN "live"
  ELSE IF FindBridgePush(found, name) # Nil THEN "no admin API" ELSE "not found"

(* The reads that prefer pushed data: NATS diagnostics, pool and metrics.  *)
PushRead(found, config, name) ==
  LET push == FindBridgePush(found, name) IN
  IF push # Nil /\ push.status # Nil THEN "pushed"
  ELSE IF FindBridge(found, config, name) # Nil THEN "live"
  ELSE IF push # Nil THEN "failed" ELSE "not found"

(* The reads of the detail page, by the HTTP code of the bridge, 0 when it *)
(* cannot be reached. An answer that is shown may be kept for a few seconds*)
(* and a placeholder may not.                                              *)
ConnzRead(read, code) ==
  IF read # "live" THEN read
  ELSE IF Fetched(code, {}) THEN "shown" ELSE "connz not available"

(* The connections of one MQTT client: none when it has gone.              *)
ClientRead(read, code, here) ==
  CASE read # "live" -> read
    [] read = "live" /\ ~Fetched(code, {}) -> "bad gateway"
    [] OTHER -> IF here THEN "shown" ELSE "no such client"

(* The read-outs of /diag and /license.                                    *)
DiagRead(read, code) ==
  IF read # "live" THEN read ELSE IF Fetched(code, {}) THEN "shown" ELSE "bad gateway"

ReadyzRead(read, code) ==
  IF read # "live" THEN read ELSE IF Ready(code) THEN "shown" ELSE "unavailable"

(* getWithStatus and PostAdmin pass any code of the bridge back.           *)
Reached(code) == code # 0

ClusterRead(read, code) ==
  CASE read # "live" -> read
    [] read = "live" /\ ~Reached(code) -> "bad gateway"
    [] read = "live" /\ code = 200 -> "shown"
    [] read = "live" /\ code = 409 -> "not clustered"
    [] read = "live" /\ code = 404 -> "no cluster API"
    [] OTHER -> "unavailable"

InspectRead(read, code) ==
  CASE read # "live" -> read
    [] read = "live" /\ ~Reached(code) -> "bad gateway"
    [] read = "live" /\ code = 200 -> "shown"
    [] read = "live" /\ code = 404 -> "no such client"
    [] read = "live" /\ code = 429 -> "busy"
    [] OTHER -> "unavailable"

(* An action of the allow list: the bridge's code is passed back.          *)
AdminAction(read, code) ==
  IF read # "live" THEN read ELSE IF Reached(code) THEN "passed on" ELSE "bad gateway"

CardReads(read, code) ==
  {ConnzRead(read, code), DiagRead(read, code), ReadyzRead(read, code),
   ClusterRead(read, code), InspectRead(read, code), AdminAction(read, code)}
  \cup {ClientRead(read, code, here) : here \in BOOLEAN}
==============================================================================
