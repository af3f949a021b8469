------------------------------ MODULE ApiProofs -------------------------------
(***************************************************************************)
(* ClusterEdit for any file, any values of the fields and any edit: types, *)
(* paths of the host that no request can name, secrets an edit keeps.      *)
(* SubsReads for any clusters, servers, connections and callers, any size  *)
(* of a page, of the cache and of the limits, and any times: what a request*)
(* is shown is recent, complete or flagged, and never poisoned.            *)
(* BridgeViews for any brokers, any connections, any configuration and any *)
(* names: the list of the fleet is merged soundly, and its cards open.     *)
(***************************************************************************)
EXTENDS ClusterEdit, SubsReads, BridgeViews, FiniteSetTheorems,
        SequenceTheorems, WellFoundedInduction, TLAPS

(***************************************************************************)
(* ClusterEdit.                                                            *)
(***************************************************************************)

LEMMA Least ==
  ASSUME NEW T \in SUBSET Nat, T # {}
  PROVE  Min(T) \in T /\ \A y \in T : Min(T) <= y
<1> DEFINE Less == OpToRel(<, Nat)
<1>1. \E x \in T : \A y \in T : ~ (<<y, x>> \in Less)
  <2>1. IsWellFoundedOn(Less, Nat)
    BY NatLessThanWellFounded
  <2> HIDE DEF Less
  <2> QED
    BY <2>1, WFMin
<1>2. \A y, x \in Nat : y < x => <<y, x>> \in Less
  BY DEF OpToRel
<1> HIDE DEF Less
<1>3. PICK x \in T : \A y \in T : ~ (<<y, x>> \in Less)
  BY <1>1
<1>4. ASSUME NEW y \in T PROVE x <= y
  <2>1. ~(y < x)
    BY <1>2, <1>3
  <2> QED
    BY <2>1
<1> QED
  BY <1>4 DEF Min

LEMMA Greatest ==
  ASSUME NEW n \in Nat, NEW T \in SUBSET (0..n), T # {}
  PROVE  Max(T) \in T /\ \A y \in T : y <= Max(T)
<1> DEFINE Below == {n - y : y \in T}
<1>1. Below \in SUBSET Nat /\ Below # {}
  <2>1. \A y \in T : y \in Nat /\ y <= n
    OBVIOUS
  <2>2. \A y \in T : n - y \in Nat
    BY <2>1
  <2> QED
    BY <2>2
<1>2. Min(Below) \in Below /\ \A z \in Below : Min(Below) <= z
  BY <1>1, Least
<1>3. PICK x \in T : Min(Below) = n - x
  BY <1>2
<1>4. ASSUME NEW y \in T PROVE y <= x
  <2>1. n - y \in Below /\ y \in Nat /\ x \in Nat
    OBVIOUS
  <2>2. n - x <= n - y
    BY <1>2, <1>3, <2>1
  <2> QED
    BY <2>1, <2>2
<1> QED
  BY <1>3, <1>4 DEF Max
------------------------------------------------------------------------------
(* A URL and a bridge get what is stored for the same host or name.        *)

LEMMA UrlRestored ==
  ASSUME NEW url \in ServerUrl, NEW old \in Seq(ServerUrl)
  PROVE  /\ RestoreCreds(url, old) \in ServerUrl
         /\ \A j \in DOMAIN old :
              (/\ url.cred = None /\ url.host = old[j].host
               /\ \A k \in DOMAIN old \ {j} : old[k].host # url.host)
              => RestoreCreds(url, old) = old[j]
<1> DEFINE has == {k \in DOMAIN old : old[k].cred # None /\ old[k].host = url.host}
<1>1. /\ RestoreCreds(url, old) = IF url.cred # None \/ has = {} THEN url
                                  ELSE [url EXCEPT !.cred = old[Min(has)].cred]
      /\ \A k \in DOMAIN old : old[k] \in ServerUrl /\ k \in Nat
  BY ElementOfSeq, LenProperties DEF RestoreCreds
<1>2. has # {} => Min(has) \in has
  BY <1>1, Least
<1>3. RestoreCreds(url, old) \in ServerUrl
  BY <1>1, <1>2 DEF ServerUrl
<1>4. ASSUME NEW j \in DOMAIN old, url.cred = None, url.host = old[j].host,
             \A k \in DOMAIN old \ {j} : old[k].host # url.host
      PROVE  RestoreCreds(url, old) = old[j]
  <2>1. old[j] \in ServerUrl /\ has \subseteq {j}
    BY <1>1, <1>4
  <2>2. CASE old[j].cred = None
    BY <1>1, <1>4, <2>1, <2>2 DEF ServerUrl
  <2>3. CASE old[j].cred # None
    <3>1. has = {j} /\ Min(has) = j
      BY <1>2, <1>4, <2>1, <2>3
    <3> QED
      BY <1>1, <1>4, <2>1, <3>1 DEF ServerUrl
  <2> QED
    BY <2>2, <2>3
<1> QED
  BY <1>3, <1>4

LEMMA BridgeRestored ==
  ASSUME NEW bridge \in Bridge, NEW old \in Seq(Bridge)
  PROVE  /\ RestoreToken(bridge, old) \in Bridge
         /\ \A j \in DOMAIN old :
              (/\ bridge.token = None /\ bridge.name = old[j].name
               /\ \A k \in DOMAIN old \ {j} : old[k].name # bridge.name)
              => RestoreToken(bridge, old) = old[j]
<1> DEFINE has == {k \in DOMAIN old : old[k].token # None /\ old[k].name = bridge.name}
<1>1. /\ RestoreToken(bridge, old) = IF bridge.token # None \/ has = {} THEN bridge
                                     ELSE [bridge EXCEPT !.token = old[Max(has)].token]
      /\ \A k \in DOMAIN old : old[k] \in Bridge /\ k \in 0..Len(old)
      /\ Len(old) \in Nat
  BY ElementOfSeq, LenProperties DEF RestoreToken
<1>2. has # {} => Max(has) \in has
  <2>1. has \in SUBSET (0..Len(old))
    BY <1>1
  <2> QED
    BY <1>1, <2>1, Greatest
<1>3. RestoreToken(bridge, old) \in Bridge
  BY <1>1, <1>2 DEF Bridge
<1>4. ASSUME NEW j \in DOMAIN old, bridge.token = None, bridge.name = old[j].name,
             \A k \in DOMAIN old \ {j} : old[k].name # bridge.name
      PROVE  RestoreToken(bridge, old) = old[j]
  <2>1. old[j] \in Bridge /\ has \subseteq {j}
    BY <1>1, <1>4
  <2>2. CASE old[j].token = None
    BY <1>1, <1>4, <2>1, <2>2 DEF Bridge
  <2>3. CASE old[j].token # None
    <3>1. has = {j} /\ Max(has) = j
      BY <1>2, <1>4, <2>1, <2>3
    <3> QED
      BY <1>1, <1>4, <2>1, <3>1 DEF Bridge
  <2> QED
    BY <2>2, <2>3
<1> QED
  BY <1>3, <1>4
------------------------------------------------------------------------------
(* Host paths of a cluster, and those the configuration declares.          *)
DeclaredPaths ==
  LET Declared == {c.cluster : c \in Cases} IN
  {c.tls.path : c \in {d \in Declared : d.tls # None}}
    \cup {c.nats.tls.path : c \in {d \in Declared : d.nats # None /\ d.nats.tls # None}}

PathsIn(c) ==
  /\ c.tls # None => c.tls.path \in Maybe(DeclaredPaths)
  /\ c.nats # None /\ c.nats.tls # None => c.nats.tls.path \in Maybe(DeclaredPaths)

LEMMA PathsStored == HostPathsFixed <=> PathsIn(stored)
BY DEF HostPathsFixed, PathsIn, DeclaredPaths

LEMMA Resolves ==
  ASSUME NEW c \in Cluster, file \in CAs
  PROVE  /\ Resolved(c) \in Cluster /\ CAOf(Resolved(c)) \in Maybe(CAs)
         /\ Resolved(c).servers = c.servers /\ Resolved(c).bridges = c.bridges
         /\ (Resolved(c).nats = None <=> c.nats = None)
         /\ c.nats # None => \A field \in {"password", "token", "nkey", "creds"} :
                               Resolved(c).nats[field] = c.nats[field]
         /\ PathsIn(c) => PathsIn(Resolved(c))
<1>1. ASSUME NEW tls \in Maybe(TLS)
      PROVE  /\ Resolve(tls) \in Maybe(TLS)
             /\ Resolve(tls) = None <=> tls = None
             /\ tls # None => Resolve(tls).path = tls.path
  <2>1. CASE tls = None
    BY <2>1 DEF Resolve, Maybe
  <2>2. CASE tls # None
    <3>1. tls \in TLS /\ \A t \in TLS : t # None
      BY <1>1, <2>2, EditAssumption DEF Maybe
    <3>2. Resolve(tls) \in TLS /\ Resolve(tls).path = tls.path
      BY <3>1 DEF Resolve, TLS, Maybe
    <3> QED
      BY <2>2, <3>1, <3>2 DEF Maybe
  <2> QED
    BY <2>1, <2>2
<1>2. /\ c.servers \in Seq(ServerUrl) /\ c.bridges \in Seq(Bridge) /\ c.tls \in Maybe(TLS)
      /\ c.nats \in Maybe(Nats)
      /\ c.nats # None => c.nats \in Nats /\ c.nats.tls \in Maybe(TLS)
  BY DEF Cluster, Maybe, Nats
<1> DEFINE nats == IF c.nats = None THEN None ELSE [c.nats EXCEPT !.tls = Resolve(c.nats.tls)]
<1>3. /\ nats \in Maybe(Nats)
      /\ nats = None <=> c.nats = None
      /\ c.nats # None => /\ nats.tls = Resolve(c.nats.tls)
                          /\ \A field \in {"password", "token", "nkey", "creds"} :
                               nats[field] = c.nats[field]
  <2>1. CASE c.nats = None
    BY <2>1 DEF Maybe
  <2>2. CASE c.nats # None
    <3>1. c.nats \in Nats /\ Resolve(c.nats.tls) \in Maybe(TLS)
      BY <1>1, <1>2, <2>2
    <3>2. nats \in Nats /\ nats.tls = Resolve(c.nats.tls)
      BY <2>2, <3>1 DEF Nats
    <3>3. nats # None
      BY <3>2, EditAssumption
    <3>4. \A field \in {"password", "token", "nkey", "creds"} : nats[field] = c.nats[field]
      BY <2>2, <3>1 DEF Nats
    <3> QED
      BY <2>2, <3>2, <3>3, <3>4 DEF Maybe
  <2> QED
    BY <2>1, <2>2
<1>4. Resolved(c) = [c EXCEPT !.tls = Resolve(c.tls), !.nats = nats]
  BY DEF Resolved
<1> HIDE DEF nats
<1>5. /\ Resolved(c) \in Cluster /\ Resolved(c).servers = c.servers
      /\ Resolved(c).bridges = c.bridges /\ Resolved(c).tls = Resolve(c.tls)
      /\ Resolved(c).nats = nats
  BY <1>1, <1>2, <1>3, <1>4 DEF Cluster
<1>6. CAOf(Resolved(c)) \in Maybe(CAs)
  <2>1. Resolve(c.tls) # None => Resolve(c.tls) \in TLS
    BY <1>1, <1>2 DEF Maybe
  <2> QED
    BY <1>5, <2>1 DEF CAOf, TLS, Maybe
<1>7. PathsIn(c) => PathsIn(Resolved(c))
  BY <1>1, <1>2, <1>3, <1>5 DEF PathsIn
<1> QED
  BY <1>3, <1>5, <1>6, <1>7
------------------------------------------------------------------------------
(* What the form sends is a cluster that names no host path.               *)
LEMMA Requested ==
  ASSUME NEW f \in Form
  PROVE  LET r == FormToRequest(f) IN
           /\ r \in Cluster /\ r.servers = f.servers /\ r.bridges = f.bridges
           /\ r.tls # None => r.tls.path = None
           /\ r.nats # None => r.nats.tls = None
           /\ f.nats <=> r.nats # None
           /\ f.secret = None => \A field \in {"password", "token", "nkey", "creds"} :
                                   r.nats # None => r.nats[field] = None
<1> DEFINE Of(type) == IF f.auth = type THEN f.secret ELSE None
           tls == IF f.tls THEN [path |-> None, pem |-> f.pem] ELSE None
           conn == [username |-> IF f.auth = "username_password" THEN f.username ELSE None,
                    password |-> Of("username_password"), token |-> Of("token"),
                    nkey |-> Of("nkey"), creds |-> None, tls |-> None]
           nats == IF ~f.nats THEN None ELSE conn
<1>1. FormToRequest(f) = [servers |-> f.servers, bridges |-> f.bridges, tls |-> tls,
                          nats |-> nats]
  BY DEF FormToRequest
<1>2. /\ f.servers \in Seq(ServerUrl) /\ f.bridges \in Seq(Bridge) /\ f.pem \in Maybe(CAs)
      /\ f.username \in Maybe(Secrets) /\ f.secret \in Maybe(Secrets)
  BY DEF Form
<1>3. tls \in Maybe(TLS) /\ (tls # None => tls.path = None)
  BY <1>2 DEF TLS, Maybe
<1>4. conn \in Nats /\ conn.tls = None
  BY <1>2 DEF Nats, Maybe
<1>5. /\ f.secret = None => \A field \in {"password", "token", "nkey", "creds"} :
                               conn[field] = None
  OBVIOUS
<1>6. conn # None
  BY <1>4, EditAssumption
<1> HIDE DEF tls, conn
<1>7. nats \in Maybe(Nats) /\ (nats # None <=> f.nats) /\ (nats # None => nats = conn)
  BY <1>4, <1>6 DEF Maybe, Form
<1> HIDE DEF nats
<1> QED
  BY <1>1, <1>2, <1>3, <1>4, <1>5, <1>7 DEF Cluster

(* sanitizedTLS: the path of the stored options, or none.                  *)
LEMMA Sanitized ==
  ASSUME NEW incoming \in Maybe(TLS), NEW old \in Maybe(TLS),
         NEW tls \in SanitizedTLS(incoming, old)
  PROVE  /\ tls \in Maybe(TLS)
         /\ tls # None => tls.path = None \/ (old # None /\ tls.path = old.path)
<1>1. CASE incoming = None
  BY <1>1 DEF SanitizedTLS, Maybe
<1>2. CASE incoming # None
  <2>1. PICK before : before = IF old = None THEN [path |-> None, pem |-> None] ELSE old
    OBVIOUS
  <2>2. before \in TLS /\ incoming \in TLS
    BY <1>2, <2>1 DEF Maybe, TLS
  <2>3. tls = [path |-> before.path,
               pem |-> IF incoming.pem = None THEN before.pem ELSE incoming.pem]
    BY <1>2, <2>1 DEF SanitizedTLS
  <2>4. tls \in TLS /\ tls.path = before.path
    BY <2>2, <2>3 DEF TLS
  <2>5. before.path = None \/ (old # None /\ before.path = old.path)
    BY <2>1
  <2> QED
    BY <2>4, <2>5 DEF Maybe
<1> QED
  BY <1>1, <1>2

LEMMA Kept ==
  ASSUME NEW nats \in Maybe(Nats), NEW old \in Maybe(Nats)
  PROVE  LET m == MergedNats(nats, old) IN
           /\ m \in Maybe(Nats)
           /\ m = None <=> nats = None
           /\ nats # None => m.tls = nats.tls
           /\ nats # None /\ old # None =>
                \A field \in {"password", "token", "nkey", "creds"} :
                  nats[field] = None => m[field] = old[field]
<1>1. CASE nats = None \/ old = None
  BY <1>1 DEF MergedNats
<1>2. CASE nats # None /\ old # None
  <2>1. nats \in Nats /\ old \in Nats /\ \A n \in Nats : n # None
    BY <1>2, EditAssumption DEF Maybe
  <2> DEFINE m == [nats EXCEPT !.password = Or(nats.password, old.password),
                               !.token = Or(nats.token, old.token),
                               !.nkey = Or(nats.nkey, old.nkey),
                               !.creds = Or(nats.creds, old.creds)]
  <2>2. MergedNats(nats, old) = m
    BY <1>2, <2>1 DEF MergedNats, Nats
  <2>3. m \in Nats /\ m.tls = nats.tls
    BY <2>1 DEF Nats, Or
  <2>4. \A field \in {"password", "token", "nkey", "creds"} :
          nats[field] = None => m[field] = old[field]
    BY <2>1 DEF Nats, Or
  <2> HIDE DEF m
  <2> QED
    BY <1>2, <2>1, <2>2, <2>3, <2>4 DEF Maybe
<1> QED
  BY <1>1, <1>2
------------------------------------------------------------------------------
(* What a merge leaves of the request r and of the stored cluster old.     *)
LEMMA Merges ==
  ASSUME NEW r \in Cluster, NEW old \in Cluster, NEW m \in Merged(r, old)
  PROVE  /\ m \in Cluster /\ DOMAIN m.servers = DOMAIN r.servers
         /\ DOMAIN m.bridges = DOMAIN r.bridges
         /\ \A i \in DOMAIN r.servers : m.servers[i] = RestoreCreds(r.servers[i], old.servers)
         /\ \A i \in DOMAIN r.bridges : m.bridges[i] = RestoreToken(r.bridges[i], old.bridges)
         /\ PathsIn(old) => PathsIn(m)
         /\ r.nats # None /\ old.nats # None =>
              \A field \in {"password", "token", "nkey", "creds"} :
                r.nats[field] = None => m.nats[field] = old.nats[field]
<1> DEFINE oldNats == NatsTLS(old)
           urls == [i \in DOMAIN r.servers |-> RestoreCreds(r.servers[i], old.servers)]
           bridges == [i \in DOMAIN r.bridges |-> RestoreToken(r.bridges[i], old.bridges)]
           Conn(t) == IF r.nats = None THEN None
                      ELSE MergedNats([r.nats EXCEPT !.tls = t], old.nats)
<1>1. PICK tls \in SanitizedTLS(r.tls, old.tls),
           t \in IF r.nats = None THEN {None} ELSE SanitizedTLS(r.nats.tls, oldNats) :
        m = [servers |-> urls, bridges |-> bridges, tls |-> tls, nats |-> Conn(t)]
  BY DEF Merged, MergedRow
<1>2. /\ r.servers \in Seq(ServerUrl) /\ r.bridges \in Seq(Bridge) /\ r.tls \in Maybe(TLS)
      /\ old.servers \in Seq(ServerUrl) /\ old.bridges \in Seq(Bridge) /\ old.tls \in Maybe(TLS)
      /\ r.nats # None => r.nats \in Nats /\ r.nats.tls \in Maybe(TLS)
      /\ old.nats # None => old.nats \in Nats /\ old.nats.tls \in Maybe(TLS)
      /\ old.nats \in Maybe(Nats) /\ oldNats \in Maybe(TLS)
  BY DEF Cluster, Maybe, Nats, NatsTLS
<1>3. urls \in Seq(ServerUrl) /\ bridges \in Seq(Bridge)
  <2>1. /\ DOMAIN r.servers = 1..Len(r.servers) /\ Len(r.servers) \in Nat
        /\ DOMAIN r.bridges = 1..Len(r.bridges) /\ Len(r.bridges) \in Nat
        /\ \A i \in 1..Len(r.servers) : RestoreCreds(r.servers[i], old.servers) \in ServerUrl
        /\ \A i \in 1..Len(r.bridges) : RestoreToken(r.bridges[i], old.bridges) \in Bridge
    BY <1>2, UrlRestored, BridgeRestored, ElementOfSeq, LenProperties
  <2> QED
    BY <2>1, IsASeq
<1>4. tls \in Maybe(TLS) /\ (PathsIn(old) /\ tls # None => tls.path \in Maybe(DeclaredPaths))
  <2>1. /\ tls \in Maybe(TLS)
        /\ tls # None => tls.path = None \/ (old.tls # None /\ tls.path = old.tls.path)
    BY <1>2, Sanitized
  <2> QED
    BY <2>1 DEF PathsIn, Maybe
<1>5. ASSUME r.nats # None
      PROVE  /\ Conn(t) \in Nats
             /\ PathsIn(old) /\ Conn(t).tls # None => Conn(t).tls.path \in Maybe(DeclaredPaths)
             /\ old.nats # None =>
                  \A field \in {"password", "token", "nkey", "creds"} :
                    r.nats[field] = None => Conn(t)[field] = old.nats[field]
  <2> DEFINE n == [r.nats EXCEPT !.tls = t]
  <2>1. t \in SanitizedTLS(r.nats.tls, oldNats)
    BY <1>5
  <2>2. /\ t \in Maybe(TLS)
        /\ t # None => t.path = None \/ (oldNats # None /\ t.path = oldNats.path)
    BY <1>2, <1>5, <2>1, Sanitized
  <2>3. n \in Nats /\ n.tls = t
    BY <1>2, <1>5, <2>2 DEF Nats
  <2>4. \A field \in {"password", "token", "nkey", "creds"} : n[field] = r.nats[field]
    BY <1>2, <1>5 DEF Nats
  <2>5. n # None /\ n \in Maybe(Nats)
    BY <2>3, EditAssumption DEF Maybe
  <2>6. Conn(t) = MergedNats(n, old.nats)
    BY <1>5
  <2> HIDE DEF n, Conn
  <2>7. /\ MergedNats(n, old.nats) \in Maybe(Nats) /\ MergedNats(n, old.nats) # None
        /\ MergedNats(n, old.nats).tls = t
        /\ old.nats # None => \A field \in {"password", "token", "nkey", "creds"} :
              n[field] = None => MergedNats(n, old.nats)[field] = old.nats[field]
    BY <1>2, <2>3, <2>5, Kept
  <2>8. PathsIn(old) /\ t # None => t.path \in Maybe(DeclaredPaths)
    BY <1>2, <2>2 DEF PathsIn, Maybe, NatsTLS
  <2> QED
    BY <2>4, <2>6, <2>7, <2>8 DEF Maybe
<1>6. Conn(t) \in Maybe(Nats) /\ (r.nats = None => Conn(t) = None)
  BY <1>5 DEF Maybe
<1> HIDE DEF Conn, urls, bridges
<1>7. m \in Cluster
  BY <1>1, <1>3, <1>4, <1>6 DEF Cluster
<1>8. PathsIn(old) => PathsIn(m)
  BY <1>1, <1>4, <1>5, <1>6 DEF PathsIn
<1>9. /\ m.servers = urls /\ m.bridges = bridges /\ m.nats = Conn(t)
  BY <1>1
<1> QED
  BY <1>5, <1>7, <1>8, <1>9 DEF urls, bridges
------------------------------------------------------------------------------
(* A page shows a redacted view of the row.                                *)
LEMMA Shown ==
  ASSUME NEW c \in Cluster
  PROVE  ClusterToForm(c) \in Form
<1>1. /\ c.servers \in Seq(ServerUrl) /\ c.bridges \in Seq(Bridge)
      /\ c.tls # None => c.tls \in TLS
      /\ c.nats # None => c.nats \in Nats
  BY DEF Cluster, Maybe
<1> DEFINE urls == [i \in DOMAIN c.servers |-> [c.servers[i] EXCEPT !.cred = None]]
           bridges == [i \in DOMAIN c.bridges |-> [c.bridges[i] EXCEPT !.token = None]]
           username == IF c.nats = None THEN None ELSE c.nats.username
<1>2. urls \in Seq(ServerUrl)
  <2>1. /\ DOMAIN c.servers = 1..Len(c.servers) /\ Len(c.servers) \in Nat
        /\ \A i \in 1..Len(c.servers) : c.servers[i] \in ServerUrl
    BY <1>1, ElementOfSeq, LenProperties
  <2>2. \A i \in 1..Len(c.servers) : [c.servers[i] EXCEPT !.cred = None] \in ServerUrl
    BY <2>1 DEF ServerUrl, Maybe
  <2> QED
    BY <2>1, <2>2, IsASeq
<1>3. bridges \in Seq(Bridge)
  <2>1. /\ DOMAIN c.bridges = 1..Len(c.bridges) /\ Len(c.bridges) \in Nat
        /\ \A i \in 1..Len(c.bridges) : c.bridges[i] \in Bridge
    BY <1>1, ElementOfSeq, LenProperties
  <2>2. \A i \in 1..Len(c.bridges) : [c.bridges[i] EXCEPT !.token = None] \in Bridge
    BY <2>1 DEF Bridge, Maybe
  <2> QED
    BY <2>1, <2>2, IsASeq
<1>4. CAOf(c) \in Maybe(CAs) /\ username \in Maybe(Secrets) /\ AuthType(c.nats) \in AuthTypes
  BY <1>1 DEF CAOf, TLS, Nats, Maybe, AuthType, AuthTypes
<1>5. ClusterToForm(c) = [servers |-> urls, bridges |-> bridges, tls |-> c.tls # None,
                          pem |-> CAOf(c), nats |-> c.nats # None,
                          auth |-> AuthType(c.nats), username |-> username, secret |-> None]
  BY DEF ClusterToForm
<1>6. None \in Maybe(Secrets) /\ (c.tls # None) \in BOOLEAN /\ (c.nats # None) \in BOOLEAN
  BY DEF Maybe
<1> HIDE DEF urls, bridges, username
<1>7. ClusterToForm(c) \in Form
  BY <1>2, <1>3, <1>4, <1>5, <1>6 DEF Form
<1> QED
  BY <1>7

EditInv == EditTypeOK /\ HostPathsFixed

(* What is typed keeps a form a form.                                      *)
LEMMA Typed ==
  ASSUME EditTypeOK, NEW f \in Form, NEW g \in Changes(f)
  PROVE  g \in Form
<1>1. /\ f.servers \in Seq(ServerUrl) /\ f.bridges \in Seq(Bridge)
      /\ f.username \in Maybe(Secrets) /\ f.tls \in BOOLEAN /\ f.nats \in BOOLEAN
  BY DEF Form
<1>2. PICK part \in edited :
        g \in CASE part = "servers" -> ServerChanges(f)
               [] part = "bridges" -> BridgeChanges(f)
               [] part = "tls" -> {[f EXCEPT !.tls = ~@]}
               [] part = "nats" -> NatsChanges(f)
  BY DEF Changes
<1>3. part \in Parts
  BY DEF EditTypeOK
<1>4. ASSUME NEW S, NEW s \in Seq(S), NEW i \in DOMAIN s
      PROVE  RemoveAt(s, i) \in Seq(S)
  <2>1. /\ DOMAIN s = 1..Len(s) /\ Len(s) \in Nat /\ i \in 1..Len(s)
    BY <1>4, LenProperties
  <2>2. SubSeq(s, 1, i - 1) \in Seq(S) /\ SubSeq(s, i + 1, Len(s)) \in Seq(S)
    BY <1>4, <2>1, SubSeqProperties
  <2> QED
    BY <2>2, ConcatProperties DEF RemoveAt
<1>5. CASE g \in ServerChanges(f)
  <2>1. \E s \in Seq(ServerUrl) : g = [f EXCEPT !.servers = s]
    <3>1. CASE \E i \in DOMAIN f.servers : g = [f EXCEPT !.servers = RemoveAt(@, i)]
      BY <1>1, <1>4, <3>1 DEF Form
    <3>2. CASE \E u \in ServerUrl : g = [f EXCEPT !.servers = Append(f.servers, u)]
      BY <1>1, <3>2, AppendProperties
    <3> QED
      BY <1>5, <3>1, <3>2 DEF ServerChanges
  <2> QED
    BY <2>1 DEF Form
<1>6. CASE g \in BridgeChanges(f)
  <2>1. \E s \in Seq(Bridge) : g = [f EXCEPT !.bridges = s]
    <3>1. CASE \E i \in DOMAIN f.bridges : g = [f EXCEPT !.bridges = RemoveAt(@, i)]
      BY <1>1, <1>4, <3>1 DEF Form
    <3>2. CASE \E b \in Bridge : g = [f EXCEPT !.bridges = Append(f.bridges, b)]
      BY <1>1, <3>2, AppendProperties
    <3> QED
      BY <1>6, <3>1, <3>2 DEF BridgeChanges
  <2> QED
    BY <2>1 DEF Form
<1>7. CASE g \in {[f EXCEPT !.tls = ~@]}
  BY <1>7 DEF Form
<1>8. CASE g \in NatsChanges(f)
  <2>1. CASE g = [f EXCEPT !.nats = ~@]
    BY <2>1 DEF Form
  <2>2. ASSUME NEW type \in AuthTypes, NEW secret \in Maybe(Secrets),
               g = WithAuth(f, type, secret)
        PROVE  g \in Form
    <3>1. PICK u \in Maybe(Secrets) :
            u = IF type = "username_password" THEN Or(secret, f.username) ELSE f.username
      BY <1>1 DEF Or
    <3>2. g = [f EXCEPT !.auth = type, !.secret = secret, !.username = u]
      BY <2>2, <3>1 DEF WithAuth
    <3> QED
      BY <3>2 DEF Form
  <2> QED
    BY <1>8, <2>1, <2>2 DEF NatsChanges
<1> QED
  BY <1>2, <1>3, <1>5, <1>6, <1>7, <1>8 DEF Parts
------------------------------------------------------------------------------
(* A request that is stored leaves a cluster whose host paths were there.  *)
LEMMA UpdateStep ==
  ASSUME EditInv, NEW r \in Cluster, Update(r)
  PROVE  /\ stored' \in Cluster /\ stored'.servers # <<>> /\ live' \in Maybe(CAs)
         /\ PathsIn(stored')
<1> DEFINE old == Resolved(stored)
<1>1. stored \in Cluster /\ file \in CAs /\ PathsIn(stored) /\ live \in Maybe(CAs)
  BY PathsStored DEF EditInv, EditTypeOK
<1>2. old \in Cluster /\ PathsIn(old)
  BY <1>1, Resolves
<1>3. CASE UNCHANGED <<stored, live>>
  BY <1>1, <1>3 DEF EditInv, EditTypeOK
<1>4. CASE r.servers # <<>> /\ stored' \in Merged(r, old) /\ live' = CAOf(stored')
  <2> HIDE DEF old
  <2>1. stored' \in Cluster /\ DOMAIN stored'.servers = DOMAIN r.servers /\ PathsIn(stored')
    BY <1>2, <1>4, Merges
  <2>2. stored'.servers # <<>>
    <3>1. r.servers \in Seq(ServerUrl) /\ stored'.servers \in Seq(ServerUrl)
      BY <2>1 DEF Cluster
    <3> QED
      BY <1>4, <2>1, <3>1, LenProperties, EmptySeq
  <2>3. live' \in Maybe(CAs)
    BY <1>4, <2>1 DEF CAOf, Cluster, TLS, Maybe
  <2> QED
    BY <2>1, <2>2, <2>3
<1> QED
  BY <1>3, <1>4 DEF Update

LEMMA EditInductive == EditInv /\ [EditNext]_editVars => EditInv'
<1> SUFFICES ASSUME EditInv, [EditNext]_editVars PROVE EditInv'
  OBVIOUS
<1>1. /\ stored \in Cluster /\ stored.servers # <<>> /\ file \in CAs /\ PathsIn(stored)
      /\ form \in [Tabs -> Form \cup {None}] /\ live \in Maybe(CAs) /\ edited \in SUBSET Parts
  BY PathsStored DEF EditInv, EditTypeOK
<1>2. Resolved(stored) \in Cluster /\ CAOf(Resolved(stored)) \in Maybe(CAs)
  BY <1>1, Resolves
<1>3. ASSUME stored' \in Cluster, stored'.servers # <<>>, live' \in Maybe(CAs), file' \in CAs,
             PathsIn(stored'), form' \in [Tabs -> Form \cup {None}], edited' = edited
      PROVE  EditInv'
  BY <1>1, <1>3 DEF EditInv, EditTypeOK, HostPathsFixed, PathsIn, DeclaredPaths
<1>4. ASSUME NEW t \in Tabs, HandleEdit(t) \/ Edit(t), edited' = edited PROVE EditInv'
  <2>1. form' \in [Tabs -> Form \cup {None}]
    <3>1. CASE HandleEdit(t)
      BY <1>1, <1>2, <3>1, Shown DEF HandleEdit
    <3>2. CASE Edit(t)
      <4>1. form[t] \in Form
        BY <1>1, <3>2 DEF Edit
      <4>2. PICK f \in Changes(form[t]) : form' = [form EXCEPT ![t] = f]
        BY <3>2 DEF Edit
      <4>3. f \in Form
        BY <4>1, Typed DEF EditInv
      <4> QED
        BY <1>1, <4>2, <4>3
    <3> QED
      BY <1>4, <3>1, <3>2
  <2>2. UNCHANGED <<stored, file, live>>
    BY <1>4 DEF HandleEdit, Edit
  <2> QED
    BY <1>1, <1>3, <1>4, <2>1, <2>2
<1>5. ASSUME NEW t \in Tabs, HandleSave(t), edited' = edited PROVE EditInv'
  <2>1. form[t] \in Form /\ Update(FormToRequest(form[t]))
    BY <1>1, <1>5 DEF HandleSave
  <2>2. FormToRequest(form[t]) \in Cluster
    BY <2>1, Requested
  <2>3. /\ stored' \in Cluster /\ stored'.servers # <<>> /\ live' \in Maybe(CAs)
        /\ PathsIn(stored')
    BY <2>1, <2>2, UpdateStep
  <2>4. form' \in [Tabs -> Form \cup {None}] /\ file' \in CAs
    BY <1>1, <1>5 DEF HandleSave
  <2> QED
    BY <1>3, <1>5, <2>3, <2>4
<1>6. ASSUME NEW path \in Maybe(Paths), ApiUpdate(path), edited' = edited PROVE EditInv'
  <2> DEFINE r == FormToRequest(ClusterToForm(Resolved(stored)))
             tls == [path |-> path, pem |-> None]
  <2>1. r \in Cluster
    BY <1>2, Shown, Requested
  <2>2. tls \in TLS
    BY DEF TLS, Maybe
  <2>3. \/ Update([r EXCEPT !.servers = <<>>]) \/ Update([r EXCEPT !.tls = tls])
        \/ r.nats # None /\ Update([r EXCEPT !.nats.tls = tls])
    BY <1>6 DEF ApiUpdate
  <2> HIDE DEF r, tls
  <2>4. /\ [r EXCEPT !.servers = <<>>] \in Cluster /\ [r EXCEPT !.tls = tls] \in Cluster
    <3>1. <<>> \in Seq(ServerUrl) /\ tls \in Maybe(TLS)
      BY <2>2, EmptySeq DEF Maybe
    <3> QED
      BY <2>1, <3>1 DEF Cluster
  <2>5. r.nats # None => [r EXCEPT !.nats.tls = tls] \in Cluster
    BY <2>1, <2>2 DEF Cluster, Maybe, Nats
  <2>6. /\ stored' \in Cluster /\ stored'.servers # <<>> /\ live' \in Maybe(CAs)
        /\ PathsIn(stored')
    BY <2>3, <2>4, <2>5, UpdateStep
  <2> QED
    BY <1>1, <1>3, <1>6, <2>6 DEF ApiUpdate
<1>7. ASSUME NEW ca \in CAs, ReplaceFile(ca), edited' = edited PROVE EditInv'
  BY <1>1, <1>3, <1>7 DEF ReplaceFile
<1>8. CASE Restart /\ edited' = edited
  BY <1>1, <1>2, <1>3, <1>8 DEF Restart
<1>9. CASE UNCHANGED editVars
  BY <1>1, <1>3, <1>9 DEF editVars
<1> QED
  BY <1>4, <1>5, <1>6, <1>7, <1>8, <1>9 DEF EditNext

LEMMA EditInvariance == EditSpec => []EditInv
<1>1. EditInit => EditInv
  <2>1. SUFFICES ASSUME EditInit PROVE EditInv
    OBVIOUS
  <2>2. PICK c \in Cases : edited = c.parts /\ stored = Resolved(c.cluster)
    BY <2>1 DEF EditInit
  <2>3. c.cluster \in Cluster /\ c.cluster.servers # <<>> /\ c.parts \subseteq Parts
    BY EditAssumption
  <2>4. PathsIn(c.cluster)
    <3> DEFINE Declared == {d.cluster : d \in Cases}
    <3>1. c.cluster \in Declared
      OBVIOUS
    <3>2. c.cluster.tls # None => c.cluster.tls.path \in DeclaredPaths
      BY <3>1 DEF DeclaredPaths
    <3>3. c.cluster.nats # None /\ c.cluster.nats.tls # None =>
            c.cluster.nats.tls.path \in DeclaredPaths
      BY <3>1 DEF DeclaredPaths
    <3> QED
      BY <3>2, <3>3 DEF PathsIn, Maybe
  <2>5. /\ stored \in Cluster /\ stored.servers # <<>> /\ PathsIn(stored)
        /\ CAOf(stored) \in Maybe(CAs)
    BY <2>1, <2>2, <2>3, <2>4, Resolves DEF EditInit
  <2> QED
    BY <2>1, <2>2, <2>3, <2>5, PathsStored DEF EditInit, EditInv, EditTypeOK
<1> QED
  BY <1>1, EditInductive, PTL DEF EditSpec

(* Rows, forms and the running collector keep their types, whatever is     *)
(* typed and whoever saves (ClustersPage, handleUpdateCluster).            *)
THEOREM EditTypes == EditSpec => []EditTypeOK
<1>1. EditInv => EditTypeOK
  BY DEF EditInv
<1> QED
  BY <1>1, EditInvariance, PTL

(* sanitizeHostPaths: no sequence of edits, saves, API calls and restarts  *)
(* brings a host path into a row that the configuration did not declare.   *)
THEOREM PathsFixed == EditSpec => []HostPathsFixed
<1>1. EditInv => HostPathsFixed
  BY DEF EditInv
<1> QED
  BY <1>1, EditInvariance, PTL

(* mergeClusterSecrets: a save keeps each secret the form did not show,    *)
(* for any rows, forms of any age and any number of pages.                 *)
THEOREM KeepsSecrets == EditSpec => SecretsKept
<1>1. EditInv /\ [EditNext]_editVars =>
        [\A t \in Tabs : Saved(t) => CredsKept(t) /\ TokensKept(t) /\ NatsSecretKept(t)]_editVars
  <2> SUFFICES ASSUME EditInv, EditNext, NEW t \in Tabs, Saved(t)
               PROVE  CredsKept(t) /\ TokensKept(t) /\ NatsSecretKept(t)
    OBVIOUS
  <2>1. /\ stored \in Cluster /\ stored.servers # <<>> /\ file \in CAs
        /\ form \in [Tabs -> Form \cup {None}] /\ form[t] \in Form /\ form'[t] = None
    BY DEF EditInv, EditTypeOK, Saved
  <2>2. ASSUME NEW u \in Tabs, HandleEdit(u) PROVE FALSE
    <3>1. form' = [form EXCEPT ![u] = ClusterToForm(Resolved(stored))] /\ form[u] = None
      BY <2>2 DEF HandleEdit
    <3> QED
      BY <2>1, <3>1 DEF Saved
  <2>3. ASSUME NEW u \in Tabs, Edit(u) PROVE FALSE
    <3>1. PICK f \in Changes(form[u]) : form' = [form EXCEPT ![u] = f]
      BY <2>3 DEF Edit
    <3>2. f \in Form
      BY <2>1, <2>3, Typed DEF Edit, EditInv
    <3> QED
      BY <2>1, <3>1, <3>2, EditAssumption DEF Saved
  <2>4. ASSUME NEW u \in Tabs, HandleSave(u) PROVE u = t
    BY <2>1, <2>4 DEF HandleSave, Saved
  <2>5. HandleSave(t)
    <3>1. (\E u \in Tabs : HandleSave(u)) \/ UNCHANGED form
      BY <2>2, <2>3 DEF EditNext, ApiUpdate, ReplaceFile, Restart
    <3> QED
      BY <2>1, <2>4, <3>1 DEF Saved
  <2> DEFINE r == FormToRequest(form[t])
             old == Resolved(stored)
  <2>6. /\ r \in Cluster /\ r.servers = form[t].servers /\ r.bridges = form[t].bridges
        /\ r.tls # None => r.tls.path = None
        /\ r.nats # None => r.nats.tls = None
        /\ (form[t].nats <=> r.nats # None)
        /\ form[t].secret = None => \A field \in {"password", "token", "nkey", "creds"} :
                                     r.nats # None => r.nats[field] = None
    BY <2>1, Requested
  <2>7. /\ old \in Cluster /\ old.servers = stored.servers /\ old.bridges = stored.bridges
        /\ (old.nats = None <=> stored.nats = None)
        /\ stored.nats # None => \A field \in {"password", "token", "nkey", "creds"} :
                                  old.nats[field] = stored.nats[field]
    BY <2>1, Resolves
  <2>8. Update(r) /\ r.servers # <<>>
    BY <2>5, <2>6 DEF HandleSave
  <2>9. (r.servers = <<>> \/ Merged(r, old) = {}) \/ stored' \in Merged(r, old)
    BY <2>8 DEF Update
  <2> HIDE DEF r, old
  <2>10. Merged(r, old) # {}
    <3>1. SanitizedTLS(r.tls, old.tls) # {}
      BY <2>6 DEF SanitizedTLS
    <3>2. r.nats # None => SanitizedTLS(r.nats.tls, NatsTLS(old)) # {}
      BY <2>6 DEF SanitizedTLS
    <3>3. PICK tls : tls \in SanitizedTLS(r.tls, old.tls)
      BY <3>1
    <3>4. PICK nt : nt \in IF r.nats = None THEN {None} ELSE SanitizedTLS(r.nats.tls, NatsTLS(old))
      BY <3>2
    <3>5. MergedRow(r, old, tls, nt) \in Merged(r, old)
      BY <3>3, <3>4 DEF Merged
    <3> QED
      BY <3>5
  <2>11. stored' \in Merged(r, old)
    BY <2>8, <2>9, <2>10
  <2>12. /\ \A i \in DOMAIN r.servers :
              stored'.servers[i] = RestoreCreds(r.servers[i], old.servers)
         /\ \A i \in DOMAIN r.bridges :
              stored'.bridges[i] = RestoreToken(r.bridges[i], old.bridges)
         /\ r.nats # None /\ old.nats # None =>
              \A field \in {"password", "token", "nkey", "creds"} :
                r.nats[field] = None => stored'.nats[field] = old.nats[field]
    BY <2>6, <2>7, <2>11, Merges
  <2>13. CredsKept(t)
    <3>1. \A i \in DOMAIN r.servers : r.servers[i] \in ServerUrl
      BY <2>6, ElementOfSeq, LenProperties DEF Cluster
    <3>2. old.servers \in Seq(ServerUrl)
      BY <2>7 DEF Cluster
    <3>3. ASSUME NEW i \in DOMAIN r.servers, NEW j \in DOMAIN old.servers,
                 r.servers[i].cred = None, r.servers[i].host = old.servers[j].host,
                 \A k \in DOMAIN old.servers \ {j} : old.servers[k].host # r.servers[i].host
          PROVE  stored'.servers[i] = old.servers[j]
      BY <2>12, <3>1, <3>2, <3>3, UrlRestored
    <3> QED
      BY <2>6, <2>7, <3>3 DEF CredsKept
  <2>14. TokensKept(t)
    <3>1. \A i \in DOMAIN r.bridges : r.bridges[i] \in Bridge
      BY <2>6, ElementOfSeq, LenProperties DEF Cluster
    <3>2. old.bridges \in Seq(Bridge)
      BY <2>7 DEF Cluster
    <3>3. ASSUME NEW i \in DOMAIN r.bridges, NEW j \in DOMAIN old.bridges,
                 r.bridges[i].token = None, r.bridges[i].name = old.bridges[j].name,
                 \A k \in DOMAIN old.bridges \ {j} : old.bridges[k].name # r.bridges[i].name
          PROVE  stored'.bridges[i] = old.bridges[j]
      BY <2>12, <3>1, <3>2, <3>3, BridgeRestored
    <3> QED
      BY <2>6, <2>7, <3>3 DEF TokensKept
  <2>15. NatsSecretKept(t)
    BY <2>6, <2>7, <2>12 DEF NatsSecretKept
  <2> QED
    BY <2>13, <2>14, <2>15
<1> QED
  BY EditInvariance, <1>1, PTL DEF EditSpec, SecretsKept

(***************************************************************************)
(* SubsReads.                                                              *)
(***************************************************************************)

Shape(e, f) ==
  /\ f \in [age : 0..Timeout, fetching : BOOLEAN, due : [Servers[e] -> SUBSET Nat],
            offset : [Servers[e] -> Nat], total : [Servers[e] -> Nat],
            at : [Servers[e] -> {"paging", "done", "failed"}]]

(* Where no client has connected since the fetch began, what it owes has   *)
(* not been reached yet: every other connection ranks below the offset, and*)
(* after the first page debt and rows do not exceed the total it reported. *)
Owed(f, s) ==
  f.due[s] # {} =>
    /\ f.due[s] \subseteq open[s]
    /\ f.at[s] = "paging" /\ f.offset[s] = 0 => f.due[s] = open[s]
    /\ f.at[s] = "paging" => \A cid \in open[s] \ f.due[s] : Rank(s, cid) < f.offset[s]
    /\ f.at[s] = "done" \/ f.offset[s] > 0 =>
         Cardinality(f.due[s]) + f.offset[s] <= f.total[s]

(* A server is given up only when it does not answer or time is over.      *)
FailedFor(f, s) == f.at[s] = "failed" => s \in broken \/ f.age = Timeout

FlightOK(e, f) == Shape(e, f) /\ \A s \in Servers[e] : Owed(f, s) /\ FailedFor(f, s)

FlightInv == \A e \in Envs : flight[e] # Absent => FlightOK(e, flight[e])

(* An entry that is still fresh is no older than its age and its fetch.    *)
GoodRows(r) ==
  /\ r.age \in Nat /\ r.data \in Nat /\ r.data <= r.age + Timeout
  /\ r.age < TTL => (r.flagged \/ r.complete) /\ r.excused

CacheInv == \A e \in Envs : cache[e] # Absent => GoodRows(cache[e])

ShownInv == shown # Absent => GoodRows(shown) /\ shown.age < TTL

WorldInv ==
  /\ open \in [AllServers -> SUBSET Nat] /\ \A s \in AllServers : IsFiniteSet(open[s])
  /\ nextCid \in [AllServers -> Nat]
  /\ DOMAIN cache = Envs /\ DOMAIN flight = Envs
  /\ DOMAIN pc = Callers /\ DOMAIN env = Callers
  /\ \A c \in Callers : pc[c] \in {"missed", "waiting"} => env[c] \in Envs

IInv == WorldInv /\ FlightInv /\ CacheInv /\ ShownInv

USE SubsAssumption

LEMMA ServersOf == \A e \in Envs : \A s \in Servers[e] : s \in AllServers
BY DEF Envs, AllServers
------------------------------------------------------------------------------
(* One page.                                                               *)

LEMMA PageAt ==
  ASSUME NEW e \in Envs, NEW s \in Servers[e], NEW f, Shape(e, f), NEW page
  PROVE  \/ PageRead(f, s, page).at = f.at /\ ~(Cardinality(page) < PageSize)
         \/ PageRead(f, s, page).at = [f.at EXCEPT ![s] = "done"]
BY DEF PageRead, Shape

LEMMA PageShape ==
  ASSUME WorldInv, NEW e \in Envs, NEW s \in Servers[e], NEW f,
         Shape(e, f), NEW page, page \subseteq open[s]
  PROVE  Shape(e, PageRead(f, s, page))
<1>1. /\ IsFiniteSet(page) /\ Cardinality(page) \in Nat /\ Cardinality(open[s]) \in Nat
  BY ServersOf, FS_Subset, FS_CardinalityType DEF WorldInv
<1>2. /\ f.due[s] \ page \in SUBSET Nat /\ f.offset[s] + Cardinality(page) \in Nat
      /\ f.offset \in [Servers[e] -> Nat]
  BY <1>1 DEF Shape
<1>3. /\ PageRead(f, s, page).due = [f.due EXCEPT ![s] = f.due[s] \ page]
      /\ PageRead(f, s, page).offset = [f.offset EXCEPT ![s] = f.offset[s] + Cardinality(page)]
      /\ PageRead(f, s, page).total =
           [f.total EXCEPT ![s] = IF f.offset[s] = 0 THEN Cardinality(open[s]) ELSE f.total[s]]
      /\ PageRead(f, s, page).at = f.at \/ PageRead(f, s, page).at = [f.at EXCEPT ![s] = "done"]
      /\ PageRead(f, s, page).age = f.age
  BY PageAt DEF PageRead
<1>4. /\ f.due \in [Servers[e] -> SUBSET Nat] /\ f.total \in [Servers[e] -> Nat]
      /\ f.at \in [Servers[e] -> {"paging", "done", "failed"}] /\ f.age \in 0..Timeout
  BY DEF Shape
<1>5. /\ PageRead(f, s, page).due \in [Servers[e] -> SUBSET Nat]
      /\ PageRead(f, s, page).offset \in [Servers[e] -> Nat]
      /\ PageRead(f, s, page).total \in [Servers[e] -> Nat]
      /\ PageRead(f, s, page).at \in [Servers[e] -> {"paging", "done", "failed"}]
      /\ PageRead(f, s, page).age \in 0..Timeout
  BY <1>1, <1>2, <1>3, <1>4
<1> QED
  BY <1>5 DEF PageRead, Shape

LEMMA PageOwes ==
  ASSUME WorldInv, NEW e \in Envs, NEW s \in Servers[e], NEW f,
         Shape(e, f), Owed(f, s), f.at[s] = "paging"
  PROVE  Owed(PageRead(f, s, PageOf(s, f.offset[s])), s)
<1> DEFINE page == PageOf(s, f.offset[s])
           g    == PageRead(f, s, page)
           next == f.offset[s] + Cardinality(page)
<1>1. /\ page \subseteq open[s] /\ IsFiniteSet(open[s]) /\ IsFiniteSet(page)
      /\ Cardinality(page) \in Nat /\ Cardinality(open[s]) \in Nat
      /\ f.offset[s] \in Nat /\ f.total[s] \in Nat /\ PageSize \in Nat \ {0}
  BY ServersOf, FS_Subset, FS_CardinalityType DEF WorldInv, PageOf, Shape, SubsAssumption
<1>2. /\ g.due[s] = f.due[s] \ page /\ g.offset[s] = next
      /\ g.total[s] = IF f.offset[s] = 0 THEN Cardinality(open[s]) ELSE f.total[s]
      /\ g.at[s] = "paging" => Cardinality(page) >= PageSize
  <2>1. /\ DOMAIN f.due = Servers[e] /\ DOMAIN f.offset = Servers[e]
        /\ DOMAIN f.total = Servers[e]
    BY DEF Shape
  <2>2. /\ g.due = [f.due EXCEPT ![s] = f.due[s] \ page] /\ g.offset = [f.offset EXCEPT ![s] = next]
        /\ g.total = [f.total EXCEPT ![s] = IF f.offset[s] = 0 THEN Cardinality(open[s])
                                            ELSE f.total[s]]
        /\ \/ g.at = f.at /\ ~(Cardinality(page) < PageSize)
           \/ g.at = [f.at EXCEPT ![s] = "done"]
    BY PageAt DEF PageRead
  <2>3. g.at[s] = "paging" => ~(Cardinality(page) < PageSize)
    <3>1. DOMAIN f.at = Servers[e]
      BY DEF Shape
    <3> QED
      BY <2>2, <3>1
  <2> HIDE DEF page, g
  <2> QED
    BY <1>1, <2>1, <2>2, <2>3
<1>3. \A cid \in open[s] : /\ Rank(s, cid) \in Nat
                           /\ cid \in page <=> /\ f.offset[s] <= Rank(s, cid)
                                               /\ Rank(s, cid) < f.offset[s] + PageSize
  <2> SUFFICES ASSUME NEW cid \in open[s]
               PROVE  /\ Rank(s, cid) \in Nat
                      /\ cid \in page <=> /\ f.offset[s] <= Rank(s, cid)
                                          /\ Rank(s, cid) < f.offset[s] + PageSize
    OBVIOUS
  <2>1. Rank(s, cid) \in Nat
    BY <1>1, FS_Subset, FS_CardinalityType DEF Rank
  <2> QED
    BY <1>1, <2>1 DEF PageOf
<1> HIDE DEF page, g
<1> SUFFICES ASSUME g.due[s] # {}
             PROVE  /\ g.due[s] \subseteq open[s]
                    /\ g.at[s] = "paging" /\ g.offset[s] = 0 => g.due[s] = open[s]
                    /\ g.at[s] = "paging" =>
                         \A cid \in open[s] \ g.due[s] : Rank(s, cid) < g.offset[s]
                    /\ g.at[s] = "done" \/ g.offset[s] > 0 =>
                         Cardinality(g.due[s]) + g.offset[s] <= g.total[s]
  BY DEF Owed, g, page
<1>4. f.due[s] # {} /\ f.due[s] \subseteq open[s]
  BY <1>2 DEF Owed
<1>5. g.due[s] \subseteq open[s]
  BY <1>2, <1>4
<1>6. page \subseteq f.due[s]
  <2>1. CASE f.offset[s] = 0
    BY <1>1, <1>4, <2>1 DEF Owed
  <2>2. CASE f.offset[s] # 0
    <3> SUFFICES ASSUME NEW cid \in page, cid \notin f.due[s] PROVE FALSE
      OBVIOUS
    <3>1. Rank(s, cid) < f.offset[s]
      BY <1>1, <1>4 DEF Owed
    <3> QED
      BY <1>1, <1>3, <3>1
  <2> QED
    BY <2>1, <2>2
<1>7. /\ Cardinality(f.due[s] \ page) = Cardinality(f.due[s]) - Cardinality(page)
      /\ Cardinality(f.due[s]) \in Nat
  <2>1. IsFiniteSet(f.due[s]) /\ f.due[s] \cap page = page
    BY <1>1, <1>4, <1>6, FS_Subset
  <2> QED
    BY <2>1, FS_Difference, FS_CardinalityType
<1>8. Cardinality(g.due[s]) + g.offset[s] <= g.total[s]
  <2>1. CASE f.offset[s] = 0
    <3>1. f.due[s] = open[s]
      BY <1>4, <2>1 DEF Owed
    <3> QED
      BY <1>1, <1>2, <1>7, <2>1, <3>1
  <2>2. CASE f.offset[s] # 0
    <3>1. Cardinality(f.due[s]) + f.offset[s] <= f.total[s]
      BY <1>1, <1>4, <2>2 DEF Owed
    <3> QED
      BY <1>1, <1>2, <1>7, <2>2, <3>1
  <2> QED
    BY <2>1, <2>2
<1>9. ASSUME g.at[s] = "paging", NEW cid \in open[s] \ g.due[s]
      PROVE  Rank(s, cid) < g.offset[s]
  <2>1. CASE cid \in page
    BY <1>1, <1>2, <1>3, <1>9, <2>1
  <2>2. CASE cid \notin f.due[s]
    <3>1. Rank(s, cid) < f.offset[s]
      BY <1>4, <2>2 DEF Owed
    <3> QED
      BY <1>1, <1>2, <1>3, <3>1
  <2> QED
    BY <1>2, <2>1, <2>2
<1>10. g.at[s] = "paging" => g.offset[s] # 0
  BY <1>1, <1>2
<1> QED
  BY <1>5, <1>8, <1>9, <1>10
------------------------------------------------------------------------------
(* The fetch.                                                              *)

LEMMA SameWorld ==
  ASSUME UNCHANGED <<open, broken>>,
         \A e \in Envs : flight'[e] # Absent => FlightOK(e, flight'[e])
  PROVE  FlightInv'
<1> SUFFICES ASSUME NEW e \in Envs, flight'[e] # Absent PROVE FlightOK(e, flight[e])'
  BY DEF FlightInv
<1> DEFINE f == flight'[e]
<1>1. Shape(e, f) /\ \A s \in Servers[e] : Owed(f, s) /\ FailedFor(f, s)
  BY DEF FlightOK
<1>2. Shape(e, flight[e])'
  BY <1>1 DEF Shape
<1>3. ASSUME NEW s \in Servers[e] PROVE Owed(flight[e], s)' /\ FailedFor(flight[e], s)'
  <2>1. Owed(f, s) /\ FailedFor(f, s)
    BY <1>1
  <2>2. Owed(flight[e], s)'
    BY <2>1 DEF Owed, Rank
  <2>3. FailedFor(flight[e], s)'
    BY <2>1 DEF FailedFor
  <2> QED
    BY <2>2, <2>3
<1> QED
  BY <1>2, <1>3 DEF FlightOK

(* All but the flight of one cluster stay.                                 *)
LEMMA OneFlight ==
  ASSUME WorldInv, FlightInv, NEW e \in Envs, NEW g, UNCHANGED <<open, broken>>,
         flight' = [flight EXCEPT ![e] = g], g # Absent => FlightOK(e, g)
  PROVE  FlightInv'
<1>1. \A d \in Envs : flight'[d] # Absent => FlightOK(d, flight'[d])
  BY DEF WorldInv, FlightInv
<1> QED
  BY <1>1, SameWorld

LEMMA NewFlight ==
  ASSUME WorldInv, NEW e \in Envs,
         NEW g, g = [age |-> 0, fetching |-> FALSE,
                     due    |-> [s \in Servers[e] |-> open[s]],
                     offset |-> [s \in Servers[e] |-> 0],
                     total  |-> [s \in Servers[e] |-> 0],
                     at     |-> [s \in Servers[e] |-> "paging"]]
  PROVE  FlightOK(e, g)
<1>1. Shape(e, g)
  BY ServersOf DEF Shape, WorldInv, SubsAssumption
<1>2. ASSUME NEW s \in Servers[e] PROVE Owed(g, s) /\ FailedFor(g, s)
  <2>1. g.due[s] = open[s] /\ g.offset[s] = 0 /\ g.at[s] = "paging"
    BY DEF WorldInv
  <2> QED
    BY <2>1 DEF Owed, FailedFor
<1> QED
  BY <1>1, <1>2 DEF FlightOK

LEMMA PageStep ==
  ASSUME WorldInv, FlightInv, NEW e \in Envs, NEW s \in Servers[e], Page(e, s)
  PROVE  FlightInv'
<1> DEFINE f    == flight[e]
           page == PageOf(s, f.offset[s])
           g    == PageRead(f, s, page)
<1>1. FlightOK(e, f) /\ f.at[s] = "paging" /\ page \subseteq open[s]
  BY DEF Page, Paging, FlightInv, PageOf
<1>2. Shape(e, g) /\ Owed(g, s)
  BY <1>1, PageShape, PageOwes DEF FlightOK
<1>3. /\ \A t \in Servers[e] \ {s} : /\ g.due[t] = f.due[t] /\ g.offset[t] = f.offset[t]
                                    /\ g.total[t] = f.total[t] /\ g.at[t] = f.at[t]
      /\ g.age = f.age /\ g.at[s] # "failed"
  <2>1. /\ g.due = [f.due EXCEPT ![s] = f.due[s] \ page]
        /\ g.offset = [f.offset EXCEPT ![s] = f.offset[s] + Cardinality(page)]
        /\ g.total = [f.total EXCEPT ![s] = IF f.offset[s] = 0 THEN Cardinality(open[s])
                                            ELSE f.total[s]]
        /\ g.at = f.at \/ g.at = [f.at EXCEPT ![s] = "done"]
        /\ g.age = f.age
    BY <1>1, PageAt DEF PageRead, FlightOK
  <2>2. /\ DOMAIN f.due = Servers[e] /\ DOMAIN f.offset = Servers[e]
        /\ DOMAIN f.total = Servers[e] /\ DOMAIN f.at = Servers[e]
    BY <1>1 DEF FlightOK, Shape
  <2> HIDE DEF g, page
  <2> QED
    BY <1>1, <2>1, <2>2
<1> HIDE DEF g, page
<1>4. ASSUME NEW t \in Servers[e] PROVE Owed(g, t) /\ FailedFor(g, t)
  <2>1. CASE t = s
    BY <1>2, <1>3, <2>1 DEF FailedFor
  <2>2. CASE t # s
    BY <1>1, <1>3, <2>2 DEF FlightOK, Owed, FailedFor
  <2> QED
    BY <2>1, <2>2
<1>5. FlightOK(e, g)
  BY <1>2, <1>4 DEF FlightOK
<1>6. flight' = [flight EXCEPT ![e] = g] /\ UNCHANGED <<open, broken>>
  BY DEF Page, world, g, page
<1> QED
  BY <1>5, <1>6, OneFlight

LEMMA PageFailsStep ==
  ASSUME WorldInv, FlightInv, NEW e \in Envs, NEW s \in Servers[e],
         PageFails(e, s)
  PROVE  FlightInv'
<1> DEFINE f == flight[e]
           newAt == [f.at EXCEPT ![s] = "failed"]
           g == [f EXCEPT !.at = newAt]
<1>1. /\ FlightOK(e, f) /\ (s \in broken \/ f.age = Timeout)
      /\ f.at[s] = "paging"
  BY DEF PageFails, Paging, FlightInv
<1>2. flight' = [flight EXCEPT ![e] = g] /\ UNCHANGED <<open, broken>>
  BY DEF PageFails, world
<1>3. newAt \in [Servers[e] -> {"paging", "done", "failed"}]
  BY <1>1 DEF FlightOK, Shape
<1>4. /\ newAt[s] = "failed" /\ \A t \in Servers[e] \ {s} : newAt[t] = f.at[t]
  BY <1>1 DEF FlightOK, Shape
<1> HIDE DEF newAt
<1>5. /\ Shape(e, g) /\ g.at = newAt /\ g.due = f.due /\ g.offset = f.offset
      /\ g.total = f.total /\ g.age = f.age
  BY <1>1, <1>3 DEF FlightOK, Shape
<1> HIDE DEF g
<1>6. ASSUME NEW t \in Servers[e] PROVE Owed(g, t) /\ FailedFor(g, t)
  BY <1>1, <1>4, <1>5 DEF FlightOK, Owed, FailedFor
<1>7. FlightOK(e, g)
  BY <1>5, <1>6 DEF FlightOK
<1> QED
  BY <1>2, <1>7, OneFlight

(* A client comes: the fetches of its server owe nothing there.            *)
LEMMA ConnectStep ==
  ASSUME WorldInv, FlightInv, NEW s \in AllServers, Connect(s)
  PROVE  FlightInv'
<1>1. /\ open' = [open EXCEPT ![s] = @ \cup {nextCid[s]}] /\ broken' = broken
      /\ \A t \in AllServers \ {s} : open'[t] = open[t]
  BY DEF Connect, WorldInv
<1> SUFFICES ASSUME NEW e \in Envs, flight'[e] # Absent PROVE FlightOK(e, flight[e])'
  BY DEF FlightInv
<1> DEFINE f == flight[e]
<1>2. f # Absent /\ FlightOK(e, f)
  BY DEF Connect, FlightInv
<1>3. CASE s \notin Servers[e]
  <2>1. flight'[e] = f /\ \A t \in Servers[e] : open'[t] = open[t]
    BY <1>1, <1>2, <1>3, ServersOf DEF Connect
  <2> QED
    BY <1>1, <1>2, <2>1 DEF FlightOK, Shape, Owed, FailedFor, Rank
<1>4. CASE s \in Servers[e]
  <2>1. PICK g : g = flight'[e] /\ g = Owing(f, s, {})
    BY <1>2, <1>4 DEF Connect
  <2>2. /\ Shape(e, g) /\ g.offset = f.offset /\ g.total = f.total /\ g.at = f.at
        /\ g.age = f.age /\ g.due = [f.due EXCEPT ![s] = {}]
    BY <1>2, <1>4, <2>1 DEF FlightOK, Shape, Owing
  <2>3. g.due[s] = {} /\ \A t \in Servers[e] \ {s} : g.due[t] = f.due[t]
    BY <1>2, <1>4, <2>2 DEF FlightOK, Shape
  <2>4. \A t \in Servers[e] \ {s} : open'[t] = open[t]
    BY <1>1, ServersOf
  <2>5. \A t \in Servers[e] : Owed(g, t)'
    BY <1>2, <2>2, <2>3, <2>4 DEF FlightOK, Owed, Rank
  <2>6. \A t \in Servers[e] : FailedFor(g, t)'
    BY <1>1, <1>2, <2>2 DEF FlightOK, FailedFor
  <2>7. Shape(e, g) /\ \A t \in Servers[e] : Owed(g, t)' /\ FailedFor(g, t)'
    BY <2>2, <2>5, <2>6
  <2> QED
    BY <2>1, <2>7 DEF FlightOK, Shape, Owed, FailedFor
<1> QED
  BY <1>3, <1>4

(* A client leaves: it is owed no more, and the others move up the list.   *)
LEMMA DisconnectOwes ==
  ASSUME WorldInv, NEW e \in Envs, NEW s \in Servers[e], NEW f,
         Shape(e, f), Owed(f, s), NEW cid \in open[s],
         open' = [open EXCEPT ![s] = @ \ {cid}],
         NEW g, g.due[s] = f.due[s] \ {cid}, g.offset = f.offset, g.total = f.total,
         g.at = f.at
  PROVE  Owed(g, s)'
<1>1. /\ open'[s] = open[s] \ {cid} /\ IsFiniteSet(open[s])
      /\ f.offset[s] \in Nat /\ f.total[s] \in Nat
  BY ServersOf DEF WorldInv, Shape
<1> SUFFICES ASSUME g.due[s] # {}
             PROVE  /\ g.due[s] \subseteq open'[s]
                    /\ g.at[s] = "paging" /\ g.offset[s] = 0 => g.due[s] = open'[s]
                    /\ g.at[s] = "paging" =>
                         \A k \in open'[s] \ g.due[s] :
                           Cardinality({j \in open'[s] : j < k}) < g.offset[s]
                    /\ g.at[s] = "done" \/ g.offset[s] > 0 =>
                         Cardinality(g.due[s]) + g.offset[s] <= g.total[s]
  BY DEF Owed, Rank
<1>2. f.due[s] # {} /\ f.due[s] \subseteq open[s]
  BY DEF Owed
<1>3. ASSUME NEW k \in open'[s] \ g.due[s], g.at[s] = "paging"
      PROVE  Cardinality({j \in open'[s] : j < k}) < g.offset[s]
  <2>1. k \in open[s] \ f.due[s]
    BY <1>1, <1>2
  <2>2. Rank(s, k) < f.offset[s]
    BY <1>2, <1>3, <2>1 DEF Owed
  <2> DEFINE below == {j \in open[s] : j < k}
             now   == {j \in open'[s] : j < k}
  <2>3. now \subseteq below /\ IsFiniteSet(below)
    BY <1>1, FS_Subset
  <2>4. /\ Cardinality(now) <= Cardinality(below)
        /\ Cardinality(now) \in Nat /\ Cardinality(below) \in Nat
    <3> HIDE DEF now, below
    <3> QED
      BY <2>3, FS_Subset, FS_CardinalityType
  <2>5. Cardinality(below) < f.offset[s]
    BY <2>2 DEF Rank
  <2> HIDE DEF below
  <2> QED
    BY <1>1, <2>4, <2>5
<1>4. /\ Cardinality(g.due[s]) <= Cardinality(f.due[s])
      /\ Cardinality(g.due[s]) \in Nat /\ Cardinality(f.due[s]) \in Nat
  <2>1. IsFiniteSet(f.due[s]) /\ g.due[s] \subseteq f.due[s]
    BY <1>1, <1>2, FS_Subset
  <2> QED
    BY <2>1, FS_Subset, FS_CardinalityType
<1>5. g.due[s] \subseteq open'[s]
  BY <1>1, <1>2
<1>6. g.at[s] = "paging" /\ g.offset[s] = 0 => g.due[s] = open'[s]
  BY <1>1, <1>2 DEF Owed
<1>7. g.at[s] = "done" \/ g.offset[s] > 0 =>
        Cardinality(g.due[s]) + g.offset[s] <= g.total[s]
  <2>1. g.at[s] = "done" \/ g.offset[s] > 0 =>
          Cardinality(f.due[s]) + f.offset[s] <= f.total[s]
    BY <1>2 DEF Owed
  <2> QED
    BY <1>1, <1>4, <2>1
<1> QED
  BY <1>3, <1>5, <1>6, <1>7

LEMMA DisconnectStep ==
  ASSUME WorldInv, FlightInv, NEW s \in AllServers, NEW cid \in open[s],
         Disconnect(s, cid)
  PROVE  FlightInv'
<1>1. /\ open' = [open EXCEPT ![s] = @ \ {cid}] /\ broken' = broken
      /\ \A t \in AllServers \ {s} : open'[t] = open[t]
  BY DEF Disconnect, WorldInv
<1> SUFFICES ASSUME NEW e \in Envs, flight'[e] # Absent PROVE FlightOK(e, flight[e])'
  BY DEF FlightInv
<1> DEFINE f == flight[e]
<1>2. f # Absent /\ FlightOK(e, f)
  BY DEF Disconnect, FlightInv
<1>3. CASE s \notin Servers[e]
  <2>1. flight'[e] = f /\ \A t \in Servers[e] : open'[t] = open[t]
    BY <1>1, <1>2, <1>3, ServersOf DEF Disconnect
  <2> QED
    BY <1>1, <1>2, <2>1 DEF FlightOK, Shape, Owed, FailedFor, Rank
<1>4. CASE s \in Servers[e]
  <2>1. PICK g : g = flight'[e] /\ g = Owing(f, s, f.due[s] \ {cid})
    BY <1>2, <1>4 DEF Disconnect
  <2>2. /\ Shape(e, g) /\ g.offset = f.offset /\ g.total = f.total /\ g.at = f.at
        /\ g.age = f.age /\ g.due = [f.due EXCEPT ![s] = f.due[s] \ {cid}]
    BY <1>2, <1>4, <2>1 DEF FlightOK, Shape, Owing
  <2>3. g.due[s] = f.due[s] \ {cid} /\ \A t \in Servers[e] \ {s} : g.due[t] = f.due[t]
    BY <1>2, <1>4, <2>2 DEF FlightOK, Shape
  <2>4. \A t \in Servers[e] \ {s} : open'[t] = open[t]
    BY <1>1, ServersOf
  <2>5. Owed(g, s)'
    BY <1>1, <1>2, <1>4, <2>2, <2>3, DisconnectOwes DEF FlightOK
  <2>6. \A t \in Servers[e] \ {s} : Owed(g, t)'
    BY <1>2, <2>2, <2>3, <2>4 DEF FlightOK, Owed, Rank
  <2>7. \A t \in Servers[e] : FailedFor(g, t)'
    BY <1>1, <1>2, <2>2 DEF FlightOK, FailedFor
  <2>8. Shape(e, g) /\ \A t \in Servers[e] : Owed(g, t)' /\ FailedFor(g, t)'
    BY <2>2, <2>5, <2>6, <2>7
  <2> QED
    BY <2>1, <2>8 DEF FlightOK, Shape, Owed, FailedFor
<1> QED
  BY <1>3, <1>4

LEMMA TickStep ==
  ASSUME WorldInv, FlightInv, Tick PROVE FlightInv'
<1>1. UNCHANGED <<open, broken>>
  BY DEF Tick, world
<1> SUFFICES ASSUME NEW e \in Envs, flight'[e] # Absent PROVE FlightOK(e, flight'[e])
  BY <1>1, SameWorld
<1> DEFINE f == flight[e]
           g == [f EXCEPT !.age = @ + 1]
<1>2. flight'[e] = g /\ f # Absent /\ f.age < Timeout /\ FlightOK(e, f) /\ Timeout \in Nat
  BY DEF Tick, FlightInv, SubsAssumption
<1>3. /\ Shape(e, g) /\ g.due = f.due /\ g.offset = f.offset /\ g.total = f.total
      /\ g.at = f.at /\ f.age # Timeout
  BY <1>2 DEF FlightOK, Shape
<1> HIDE DEF g
<1> QED
  BY <1>2, <1>3 DEF FlightOK, Owed, FailedFor
------------------------------------------------------------------------------
(* What a fetch returns.                                                   *)

LEMMA RowsGood ==
  ASSUME WorldInv, NEW e \in Envs, NEW f, FlightOK(e, f),
         \A s \in Servers[e] : f.at[s] # "paging"
  PROVE  GoodRows(RowsOf(e, f)) /\ RowsOf(e, f).age < TTL
<1> DEFINE r    == RowsOf(e, f)
           over == {s \in Servers[e] : f.at[s] = "done"}
           full == RowCount(f, over) >= MaxRows
<1>0. r.age = 0 /\ r.data = f.age
  BY DEF RowsOf
<1>1. /\ r.flagged = (over # Servers[e] \/ full \/ \E s \in over : Truncated(f, s))
      /\ r.complete = (~full /\ \A s \in Servers[e] : s \in over /\ f.due[s] = {})
      /\ r.excused = (Servers[e] \ over \subseteq broken \/ f.age = Timeout)
  BY DEF RowsOf
<1> HIDE DEF r, full
<1>2. f.age \in Nat /\ f.age <= Timeout /\ TTL \in Nat \ {0}
  BY DEF FlightOK, Shape, SubsAssumption
<1>3. r.flagged \/ r.complete
  <2> SUFFICES ASSUME ~r.flagged, NEW s \in Servers[e], f.due[s] # {} PROVE FALSE
    BY <1>1
  <2>1. f.at[s] = "done" /\ ~Truncated(f, s)
    BY <1>1
  <2>2. /\ f.due[s] \subseteq open[s] /\ Cardinality(f.due[s]) + f.offset[s] <= f.total[s]
        /\ f.offset[s] \in Nat /\ f.total[s] \in Nat
    BY <2>1 DEF FlightOK, Owed, Shape
  <2>3. IsFiniteSet(f.due[s])
    BY <2>2, ServersOf, FS_Subset DEF WorldInv
  <2>4. Cardinality(f.due[s]) \in Nat /\ Cardinality(f.due[s]) # 0
    BY <2>3, FS_CardinalityType, FS_EmptySet
  <2> QED
    BY <2>1, <2>2, <2>4 DEF Truncated
<1>4. r.excused
  <2>1. \A s \in Servers[e] \ over : f.at[s] = "failed"
    BY DEF FlightOK, Shape
  <2> QED
    BY <1>1, <2>1 DEF FlightOK, FailedFor
<1>5. GoodRows(r)
  <2>1. r.age \in Nat /\ r.data \in Nat /\ r.data <= r.age + Timeout
    BY <1>0, <1>2 DEF SubsAssumption
  <2> QED
    BY <1>3, <1>4, <2>1, Zenon DEF GoodRows
<1> QED
  BY <1>0, <1>2, <1>5 DEF r

LEMMA SnapshotGood ==
  ASSUME NEW cut \in BOOLEAN
  PROVE  LET r == [age |-> 0, data |-> 0, flagged |-> cut, complete |-> ~cut,
                   excused |-> TRUE] IN
         GoodRows(r) /\ r.age < TTL
<1>1. 0 <= 0 + Timeout /\ 0 \in Nat /\ 0 < TTL
  BY DEF SubsAssumption
<1> QED
  BY <1>1 DEF GoodRows

LEMMA AgedGood ==
  ASSUME NEW r, GoodRows(r) PROVE GoodRows(Older(r))
<1>1. r.age \in Nat /\ r.data \in Nat /\ r.data <= r.age + Timeout
      /\ Timeout \in Nat /\ TTL \in Nat \ {0}
  BY DEF GoodRows, SubsAssumption
<1>2. CASE r.age + 1 >= TTL
  <2>1. Older(r) = Expired
    BY <1>2 DEF Older
  <2> QED
    BY <1>1, <2>1 DEF Expired, GoodRows
<1>3. CASE ~(r.age + 1 >= TTL)
  <2> DEFINE o == [r EXCEPT !.age = @ + 1, !.data = @ + 1]
  <2>1. Older(r) = o
    BY <1>3 DEF Older
  <2>2. \E x : x = o
    OBVIOUS
  <2> QED
    BY <1>1, <1>3, <2>1 DEF GoodRows
<1> QED
  BY <1>2, <1>3

(* An answer is shown, and ends its flight.                                *)
LEMMA Answered ==
  ASSUME NEW e \in Envs, NEW rows, AnswerAll(e, rows)
  PROVE  /\ shown' = rows \/ shown' = Absent
         /\ flight' = [flight EXCEPT ![e] = Absent]
BY DEF AnswerAll, Answer

LEMMA Cached ==
  ASSUME WorldInv, NEW e \in Envs, NEW rows, CacheRows(e, rows)
  PROVE  /\ DOMAIN cache' = Envs
         /\ \A d \in Envs : \/ cache'[d] = Absent \/ cache'[d] = cache[d]
                            \/ d = e /\ cache'[d] = rows
BY DEF CacheRows, WorldInv
------------------------------------------------------------------------------
LEMMA WorldStep ==
  ASSUME WorldInv, SubsNext PROVE WorldInv'
<1>1. ASSUME NEW s \in AllServers, Connect(s) PROVE WorldInv'
  <2>1. /\ open' = [open EXCEPT ![s] = @ \cup {nextCid[s]}]
        /\ nextCid' = [nextCid EXCEPT ![s] = @ + 1]
        /\ open[s] \cup {nextCid[s]} \in SUBSET Nat /\ nextCid[s] + 1 \in Nat
        /\ UNCHANGED <<cache, pc, env>> /\ DOMAIN flight' = Envs
    BY <1>1 DEF Connect, WorldInv, callerVars
  <2>2. IsFiniteSet(open[s] \cup {nextCid[s]})
    BY FS_AddElement DEF WorldInv
  <2> QED
    BY <2>1, <2>2 DEF WorldInv
<1>2. ASSUME NEW s \in AllServers, NEW cid \in open[s], Disconnect(s, cid) PROVE WorldInv'
  <2>1. /\ open' = [open EXCEPT ![s] = @ \ {cid}] /\ nextCid' = nextCid
        /\ UNCHANGED <<cache, pc, env>> /\ DOMAIN flight' = Envs
    BY <1>2 DEF Disconnect, WorldInv, callerVars
  <2>2. IsFiniteSet(open[s] \ {cid})
    BY FS_RemoveElement DEF WorldInv
  <2> QED
    BY <2>1, <2>2 DEF WorldInv
<1>3. ASSUME NEW c \in Callers, NEW e \in Envs, Hit(c, e) \/ Miss(c, e) PROVE WorldInv'
  BY <1>3 DEF Hit, Miss, WorldInv, world
<1>4. ASSUME NEW c \in Callers, Do(c) \/ Leave(c) PROVE WorldInv'
  BY <1>4 DEF Do, Leave, WorldInv, world
<1>5. ASSUME NEW e \in Envs, NEW rows, AnswerAll(e, rows), DOMAIN cache' = Envs,
             UNCHANGED world
      PROVE  WorldInv'
  <2>1. /\ DOMAIN flight' = Envs /\ DOMAIN pc' = Callers /\ DOMAIN env' = Callers
        /\ \A c \in Callers : pc'[c] = "idle" \/ (pc'[c] = pc[c] /\ env'[c] = env[c])
    BY <1>5 DEF AnswerAll, WorldInv
  <2> QED
    BY <1>5, <2>1 DEF WorldInv, world
<1>6. ASSUME NEW e \in Envs, Populated(e) \/ FromSnapshot(e) \/ NotFound(e) \/ FetchEnds(e)
      PROVE  WorldInv'
  <2>1. UNCHANGED world /\ \E rows : AnswerAll(e, rows)
    BY <1>6 DEF Populated, FromSnapshot, NotFound, FetchEnds
  <2>2. DOMAIN cache' = Envs
    BY <1>6, Cached DEF Populated, FromSnapshot, NotFound, FetchEnds, WorldInv
  <2> QED
    BY <1>5, <2>1, <2>2
<1>7. ASSUME NEW e \in Envs, RemoveEnvironment(e) \/ BeginFetch(e) PROVE WorldInv'
  BY <1>7 DEF RemoveEnvironment, BeginFetch, WorldInv, world, callerVars
<1>8. ASSUME NEW e \in Envs, NEW s \in Servers[e], Page(e, s) \/ PageFails(e, s) PROVE WorldInv'
  BY <1>8 DEF Page, PageFails, WorldInv, world, callerVars
<1>9. CASE Tick
  BY <1>9 DEF Tick, WorldInv, world, callerVars
<1> QED
  BY <1>1, <1>2, <1>3, <1>4, <1>6, <1>7, <1>8, <1>9 DEF SubsNext

LEMMA FlightStep ==
  ASSUME WorldInv, FlightInv, SubsNext PROVE FlightInv'
<1>1. CASE UNCHANGED <<open, broken, flight>>
  BY <1>1 DEF FlightInv, FlightOK, Owed, FailedFor, Rank
<1>2. ASSUME NEW c \in Callers, Do(c) PROVE FlightInv'
  <2>1. env[c] \in Envs /\ UNCHANGED <<open, broken>>
    BY <1>2 DEF Do, WorldInv, world
  <2>2. CASE flight' = flight
    BY <1>1, <2>1, <2>2
  <2>3. CASE flight' # flight
    <3>1. PICK g : /\ g = [age |-> 0, fetching |-> FALSE,
                           due    |-> [s \in Servers[env[c]] |-> open[s]],
                           offset |-> [s \in Servers[env[c]] |-> 0],
                           total  |-> [s \in Servers[env[c]] |-> 0],
                           at     |-> [s \in Servers[env[c]] |-> "paging"]]
                   /\ flight' = [flight EXCEPT ![env[c]] = g]
      BY <1>2, <2>3 DEF Do
    <3>2. FlightOK(env[c], g)
      BY <2>1, <3>1, NewFlight
    <3> QED
      BY <2>1, <3>1, <3>2, OneFlight
  <2> QED
    BY <2>2, <2>3
<1>3. ASSUME NEW e \in Envs, Populated(e) \/ FromSnapshot(e) \/ NotFound(e) \/ FetchEnds(e)
      PROVE  FlightInv'
  <2>1. /\ UNCHANGED <<open, broken>> /\ flight' = [flight EXCEPT ![e] = Absent]
    BY <1>3, Answered DEF Populated, FromSnapshot, NotFound, FetchEnds, world
  <2> QED
    BY <2>1, OneFlight
<1>4. ASSUME NEW e \in Envs, BeginFetch(e) PROVE FlightInv'
  <2> DEFINE f == flight[e]
             g == [f EXCEPT !.fetching = TRUE]
  <2>1. /\ FlightOK(e, f) /\ flight' = [flight EXCEPT ![e] = g] /\ UNCHANGED <<open, broken>>
    BY <1>4 DEF BeginFetch, FlightInv, world
  <2>2. /\ Shape(e, g) /\ g.due = f.due /\ g.offset = f.offset /\ g.total = f.total
        /\ g.at = f.at /\ g.age = f.age
    BY <2>1 DEF FlightOK, Shape
  <2> HIDE DEF g
  <2>3. FlightOK(e, g)
    BY <2>1, <2>2 DEF FlightOK, Owed, FailedFor
  <2> QED
    BY <2>1, <2>3, OneFlight
<1>5. ASSUME NEW e \in Envs, RemoveEnvironment(e) PROVE FlightInv'
  BY <1>1, <1>5 DEF RemoveEnvironment, world
<1>6. ASSUME NEW c \in Callers, NEW e \in Envs, Leave(c) \/ Hit(c, e) \/ Miss(c, e)
      PROVE  FlightInv'
  BY <1>1, <1>6 DEF Leave, Hit, Miss, world
<1>7. ASSUME NEW c \in Callers, Leave(c) PROVE FlightInv'
  BY <1>1, <1>7 DEF Leave, world
<1> QED
  BY <1>2, <1>3, <1>4, <1>5, <1>6, <1>7, ConnectStep, DisconnectStep, PageStep,
     PageFailsStep, TickStep DEF SubsNext

LEMMA AnswerStep ==
  ASSUME IInv, SubsNext PROVE CacheInv' /\ ShownInv'
<1>1. \A e \in Envs : Fresh(e) => GoodRows(cache[e]) /\ cache[e].age < TTL
  BY DEF IInv, CacheInv, Fresh
<1>2. CASE cache' = cache /\ shown' = Absent
  BY <1>2 DEF IInv, CacheInv, ShownInv, GoodRows
<1>3. ASSUME NEW c \in Callers, NEW e \in Envs, Hit(c, e) PROVE CacheInv' /\ ShownInv'
  BY <1>1, <1>3 DEF Hit, Answer, IInv, CacheInv, ShownInv, GoodRows
<1>4. ASSUME NEW e \in Envs, NEW rows, GoodRows(rows), rows.age < TTL,
             CacheRows(e, rows), AnswerAll(e, rows)
      PROVE  CacheInv' /\ ShownInv'
  <2>1. \A d \in Envs : cache'[d] # Absent => GoodRows(cache'[d])
    BY <1>4, Cached DEF IInv, CacheInv
  <2>2. shown' # Absent => GoodRows(shown') /\ shown'.age < TTL
    BY <1>4, Answered
  <2> QED
    BY <2>1, <2>2 DEF CacheInv, ShownInv, GoodRows
<1>5. ASSUME NEW e \in Envs, Populated(e) PROVE CacheInv' /\ ShownInv'
  <2>1. cache' = cache /\ (shown' = cache[e] \/ shown' = Absent)
    BY <1>5, Answered DEF Populated
  <2> QED
    BY <1>1, <1>5, <2>1 DEF Populated, IInv, CacheInv, ShownInv, GoodRows
<1>6. ASSUME NEW e \in Envs, FromSnapshot(e) PROVE CacheInv' /\ ShownInv'
  <2>1. PICK cut \in BOOLEAN :
          LET r == [age |-> 0, data |-> 0, flagged |-> cut, complete |-> ~cut,
                    excused |-> TRUE] IN
          CacheRows(e, r) /\ AnswerAll(e, r)
    BY <1>6 DEF FromSnapshot
  <2> QED
    BY <1>4, <2>1, SnapshotGood
<1>7. ASSUME NEW e \in Envs, NotFound(e) PROVE CacheInv' /\ ShownInv'
  BY <1>2, <1>7, Answered DEF NotFound
<1>8. ASSUME NEW e \in Envs, FetchEnds(e) PROVE CacheInv' /\ ShownInv'
  <2>1. GoodRows(RowsOf(e, flight[e])) /\ RowsOf(e, flight[e]).age < TTL
    BY <1>8, RowsGood DEF FetchEnds, IInv, FlightInv
  <2> QED
    BY <1>4, <1>8, <2>1 DEF FetchEnds
<1>9. CASE Tick
  <2>1. \A e \in Envs : cache'[e] # Absent => cache[e] # Absent /\ cache'[e] = Older(cache[e])
    BY <1>9 DEF Tick
  <2>2. \A e \in Envs : cache'[e] # Absent => GoodRows(cache'[e])
    BY <2>1, AgedGood DEF IInv, CacheInv
  <2> QED
    BY <1>9, <2>2 DEF Tick, CacheInv, ShownInv, GoodRows
<1> QED
  BY <1>2, <1>3, <1>5, <1>6, <1>7, <1>8, <1>9
     DEF SubsNext, Connect, Disconnect, Do, Leave, Miss, RemoveEnvironment, BeginFetch, Page, PageFails
------------------------------------------------------------------------------
LEMMA Initially == ASSUME SubsInit PROVE IInv
<1>1. WorldInv
  <2>1. /\ open \in [AllServers -> SUBSET Nat] /\ \A s \in AllServers : IsFiniteSet(open[s])
    BY DEF SubsInit, SubsAssumption
  <2>2. nextCid \in [AllServers -> Nat]
    BY <2>1, FS_CardinalityType DEF SubsInit
  <2> QED
    BY <2>1, <2>2 DEF SubsInit, WorldInv
<1> QED
  BY <1>1 DEF SubsInit, IInv, FlightInv, CacheInv, ShownInv

LEMMA Inductive == ASSUME IInv, [SubsNext]_subsVars PROVE IInv'
<1>1. CASE SubsNext
  BY <1>1, WorldStep, FlightStep, AnswerStep DEF IInv
<1>2. CASE UNCHANGED subsVars
  BY <1>2 DEF IInv, WorldInv, FlightInv, FlightOK, Owed, FailedFor, Rank, CacheInv,
              ShownInv, GoodRows, subsVars
<1> QED
  BY <1>1, <1>2

LEMMA Invariance == SubsSpec => []IInv
<1>1. SubsInit => IInv
  BY Initially
<1>2. IInv /\ [SubsNext]_subsVars => IInv'
  BY Inductive
<1> QED
  BY <1>1, <1>2, PTL DEF SubsSpec

(* Nothing shown is from before the last subsCacheTTL + connzRequestTimeout,*)
(* for any times and any size of the cache.                                *)
THEOREM RecentRows == SubsSpec => []RowsNotStale
<1>1. IInv => RowsNotStale
  BY DEF IInv, ShownInv, GoodRows, RowsNotStale, SubsAssumption
<1> QED
  BY Invariance, <1>1, PTL

(* The truncated flag is honest although the pages of fetchConnzPages are  *)
(* cut from a list that shrinks between them, for any size of the pages and*)
(* any number of connections.                                              *)
THEOREM HonestFlag == SubsSpec => []CompleteOrFlagged
<1>1. IInv => CompleteOrFlagged
  BY DEF IInv, ShownInv, GoodRows, CompleteOrFlagged
<1> QED
  BY Invariance, <1>1, PTL

(* No caller that leaves takes a server from the answer of the others      *)
(* (the detached context of loadSubsRows).                                 *)
THEOREM NeverPoisoned == SubsSpec => []NotPoisoned
<1>1. IInv => NotPoisoned
  BY DEF IInv, ShownInv, GoodRows, NotPoisoned
<1> QED
  BY Invariance, <1>1, PTL

(***************************************************************************)
(* BridgeViews.                                                            *)
(***************************************************************************)

(* Induction along an interval, with a set in the place of a predicate.    *)
LEMMA Upward ==
  ASSUME NEW n \in Nat, NEW S, 0 \in S, \A i \in 1..n : i - 1 \in S => i \in S
  PROVE  0..n \subseteq S
<1> DEFINE T == (0..n) \ S
<1>1. SUFFICES ASSUME T # {} PROVE FALSE
  OBVIOUS
<1>2. T \in SUBSET Nat
  OBVIOUS
<1> DEFINE m == Min(T)
<1>3. m \in T /\ \A y \in T : m <= y
  BY <1>1, <1>2, Least
<1> HIDE DEF m
<1>4. m \in 1..n /\ m - 1 \in 0..n /\ ~(m <= m - 1)
  BY <1>3
<1>5. m - 1 \in S
  BY <1>3, <1>4
<1> QED
  BY <1>3, <1>4, <1>5

LEMMA FirstMatch ==
  ASSUME NEW n \in Nat, NEW I \in SUBSET (1..n)
  PROVE  LET i == IF I # {} THEN Min(I) ELSE 0 IN
         /\ i \in 0..n
         /\ i = 0 => I = {}
         /\ i # 0 => i \in I
<1>1. CASE I = {}
  BY <1>1
<1>2. CASE I # {}
  <2>1. I \in SUBSET Nat
    OBVIOUS
  <2>2. Min(I) \in I
    BY <1>2, <2>1, Least
  <2>3. \A i \in I : i \in 0..n /\ i # 0
    OBVIOUS
  <2> QED
    BY <1>2, <2>2, <2>3
<1> QED
  BY <1>1, <1>2
------------------------------------------------------------------------------
(* The loop of fleetBridges, one configured bridge at a time.              *)

LEMMA Unfolds ==
  ASSUME NEW found, NEW list, Len(list) \in Nat, NEW statuses
  PROVE  LET F == FleetSteps(found, list, statuses) IN
         /\ F[0] = [list |-> found, asked |-> {}]
         /\ \A i \in 1..Len(list) : F[i] = AddConfigured(F[i - 1], list[i], statuses)
<1> DEFINE n == Len(list)
           Start == [list |-> found, asked |-> {}]
           Add(acc, i) == AddConfigured(acc, list[i], statuses)
           Unfolding(f, m) == [i \in 0..m |-> IF i = 0 THEN Start ELSE Add(f[i - 1], i)]
           S == {m \in 0..n : \E f : f = Unfolding(f, m)}
<1> HIDE DEF Start, Add
<1>1. 0 \in S
  <2> DEFINE f == [i \in 0..0 |-> Start]
  <2>1. \A i \in 0..0 : Start = IF i = 0 THEN Start ELSE Add(f[i - 1], i)
    OBVIOUS
  <2>2. f = Unfolding(f, 0)
    BY <2>1
  <2> HIDE DEF f
  <2>3. \E h : h = Unfolding(h, 0)
    BY <2>2
  <2> QED
    BY <2>3
<1>2. ASSUME NEW m \in 1..n, m - 1 \in S PROVE m \in S
  <2>1. PICK f : f = Unfolding(f, m - 1)
    BY <1>2
  <2> DEFINE g == [i \in 0..m |-> IF i = m THEN Add(f[m - 1], m) ELSE f[i]]
  <2>2. ASSUME NEW i \in 0..m PROVE g[i] = IF i = 0 THEN Start ELSE Add(g[i - 1], i)
    <3>1. CASE i = m
      BY <3>1
    <3>2. CASE i # m
      <4>1. i \in 0..(m - 1) /\ g[i] = f[i] /\ (i # 0 => g[i - 1] = f[i - 1])
        BY <3>2
      <4>2. f[i] = IF i = 0 THEN Start ELSE Add(f[i - 1], i)
        <5> DEFINE h == Unfolding(f, m - 1)
        <5>1. h[i] = IF i = 0 THEN Start ELSE Add(f[i - 1], i)
          BY <4>1
        <5> HIDE DEF h
        <5>2. f = h
          BY <2>1 DEF h
        <5> QED
          BY <5>1, <5>2
      <4> QED
        BY <4>1, <4>2
    <3> QED
      BY <3>1, <3>2
  <2>3. g = [i \in 0..m |-> g[i]]
    OBVIOUS
  <2> HIDE DEF g
  <2>4. [i \in 0..m |-> g[i]] = Unfolding(g, m)
    BY <2>2
  <2>5. g = Unfolding(g, m)
    BY <2>3, <2>4
  <2> QED
    BY <2>5
<1>3. n \in S
  <2> HIDE DEF S
  <2>1. 0..n \subseteq S
    BY <1>1, <1>2, Upward
  <2> QED
    BY <2>1
<1> DEFINE F == FleetSteps(found, list, statuses)
<1>4. F = Unfolding(F, n)
  <2>1. F = CHOOSE f : f = Unfolding(f, n)
    BY DEF FleetSteps, Start, Add
  <2>2. \E f : f = Unfolding(f, n)
    BY <1>3
  <2> QED
    BY <2>1, <2>2
<1>5. ASSUME NEW i \in 0..n PROVE F[i] = IF i = 0 THEN Start ELSE Add(F[i - 1], i)
  <2> DEFINE h == Unfolding(F, n)
  <2>1. h[i] = IF i = 0 THEN Start ELSE Add(F[i - 1], i)
    OBVIOUS
  <2> HIDE DEF h
  <2>2. F = h
    BY <1>4 DEF h
  <2> QED
    BY <2>1, <2>2
<1> HIDE DEF F
<1>6. F[0] = Start /\ \A i \in 1..n : F[i] = Add(F[i - 1], i)
  BY <1>5
<1> QED
  BY <1>6 DEF Start, Add, F

LEMMA Configured ==
  ASSUME NEW list \in Seq(Instances), NEW b
  PROVE  LET i == IndexOfConfigured(list, b) IN
         /\ i \in 0..Len(list)
         /\ i # 0 => list[i].url = b.url \/ DisplayName(list[i]) = b.name
<1> DEFINE I == {i \in 1..Len(list) : list[i].url = b.url \/ DisplayName(list[i]) = b.name}
           first == IF I # {} THEN Min(I) ELSE 0
<1>1. IndexOfConfigured(list, b) = first
  BY DEF IndexOfConfigured, SelectInSeq
<1>2. first \in 0..Len(list) /\ (first # 0 => first \in I)
  <2>1. I \in SUBSET (1..Len(list)) /\ Len(list) \in Nat
    OBVIOUS
  <2> HIDE DEF I
  <2> QED
    BY <2>1, FirstMatch
<1> HIDE DEF first
<1> QED
  BY <1>1, <1>2

LEMMA ByIdentity ==
  ASSUME NEW list \in Seq(Instances), NEW id
  PROVE  LET i == FindByIdentity(list, id) IN
         /\ i \in 0..Len(list)
         /\ i # 0 => Identified(list[i], id)
         /\ i = 0 => \A k \in 1..Len(list) : ~Identified(list[k], id)
<1> DEFINE I == {i \in 1..Len(list) : Identified(list[i], id)}
           first == IF I # {} THEN Min(I) ELSE 0
<1>1. FindByIdentity(list, id) = first
  BY DEF FindByIdentity, SelectInSeq
<1>2. /\ first \in 0..Len(list)
      /\ first # 0 => first \in I
      /\ first = 0 => I = {}
  <2>1. I \in SUBSET (1..Len(list)) /\ Len(list) \in Nat
    OBVIOUS
  <2> HIDE DEF I
  <2> QED
    BY <2>1, FirstMatch
<1> HIDE DEF first
<1> QED
  BY <1>1, <1>2

LEMMA Added ==
  ASSUME NEW acc, acc = [list |-> acc.list, asked |-> acc.asked], acc.list \in Seq(Instances),
         NEW b, NEW statuses
  PROVE  LET L  == acc.list
             M  == AddConfigured(acc, b, statuses)
             id == ProbedIdentity(statuses[b.url])
         IN /\ M = [list |-> M.list, asked |-> M.asked]
            /\ M.asked \subseteq acc.asked \cup {b.url}
            /\ \/ \E k \in 1..Len(L) :
                    /\ M.list = [L EXCEPT ![k] = MergeConfigured(L[k], b)]
                    /\ L[k].url = b.url \/ DisplayName(L[k]) = b.name \/ Identified(L[k], id)
               \/ /\ M.list = Append(L, ConfiguredInstance(b, statuses[b.url]))
                  /\ \A k \in 1..Len(L) : ~Identified(L[k], id)
<1> DEFINE L  == acc.list
           M  == AddConfigured(acc, b, statuses)
           id == ProbedIdentity(statuses[b.url])
           into(k) == [L EXCEPT ![k] = MergeConfigured(L[k], b)]
           card == ConfiguredInstance(b, statuses[b.url])
<1>1. PICK i : i = IndexOfConfigured(L, b)
  OBVIOUS
<1>2. PICK j : j = FindByIdentity(L, id)
  OBVIOUS
<1>3. /\ i \in 0..Len(L)
      /\ i # 0 => L[i].url = b.url \/ DisplayName(L[i]) = b.name
  BY <1>1, Configured
<1>4. /\ j \in 0..Len(L)
      /\ j # 0 => Identified(L[j], id)
      /\ j = 0 => \A k \in 1..Len(L) : ~Identified(L[k], id)
  BY <1>2, ByIdentity
<1>5. M = IF i > 0 THEN [acc EXCEPT !.list = into(i)]
          ELSE [list |-> IF j > 0 THEN into(j) ELSE Append(L, card),
                asked |-> acc.asked \cup {b.url}]
  BY <1>1, <1>2 DEF AddConfigured
<1> HIDE DEF M, into, card, id
<1>6. CASE i > 0
  <2>1. M = [list |-> into(i), asked |-> acc.asked]
    BY <1>5, <1>6
  <2>2. i \in 1..Len(L)
    BY <1>3, <1>6
  <2>3. /\ M = [list |-> M.list, asked |-> M.asked] /\ M.list = into(i)
        /\ M.asked \subseteq acc.asked \cup {b.url}
    BY <2>1
  <2>4. L[i].url = b.url \/ DisplayName(L[i]) = b.name \/ Identified(L[i], id)
    BY <1>3, <1>6
  <2> QED
    BY <2>2, <2>3, <2>4 DEF M, into, id
<1>7. CASE i = 0 /\ j > 0
  <2>1. M = [list |-> into(j), asked |-> acc.asked \cup {b.url}]
    BY <1>5, <1>7
  <2>2. j \in 1..Len(L)
    BY <1>4, <1>7
  <2>3. /\ M = [list |-> M.list, asked |-> M.asked] /\ M.list = into(j)
        /\ M.asked \subseteq acc.asked \cup {b.url}
    BY <2>1
  <2>4. L[j].url = b.url \/ DisplayName(L[j]) = b.name \/ Identified(L[j], id)
    BY <1>4, <1>7
  <2> QED
    BY <2>2, <2>3, <2>4 DEF M, into, id
<1>8. CASE i = 0 /\ j = 0
  <2>1. M = [list |-> Append(L, card), asked |-> acc.asked \cup {b.url}]
    BY <1>5, <1>8
  <2> QED
    BY <1>4, <1>8, <2>1 DEF M, card, id
<1>9. i > 0 \/ (i = 0 /\ j > 0) \/ (i = 0 /\ j = 0)
  BY <1>3, <1>4
<1> QED
  BY <1>6, <1>7, <1>8, <1>9

LEMMA MergedFields ==
  ASSUME NEW inst \in Instances, NEW b \in [name : CardNames, url : BridgeUrls]
  PROVE  LET m == MergeConfigured(inst, b) IN
         /\ m \in Instances
         /\ m.ip = inst.ip /\ m.status = inst.status /\ m.up = inst.up
         /\ m.configured = IF inst.configured = Nil THEN b.name ELSE inst.configured
         /\ m.url = IF inst.url = Nil THEN b.url ELSE inst.url
BY DEF MergeConfigured, Instances

LEMMA AppendedFields ==
  ASSUME NEW b \in [name : CardNames, url : BridgeUrls],
         NEW s \in Statuses \cup {Nil, Failed}
  PROVE  LET c == ConfiguredInstance(b, s) IN
         /\ c \in Instances
         /\ c.configured = b.name /\ c.url = b.url /\ c.status # Nil
         /\ c.status.id = ProbedIdentity(s)
BY BridgeAssumption DEF ConfiguredInstance, ProbedIdentity, Instances, Statuses
------------------------------------------------------------------------------
(* What the loop keeps after m configured bridges of the list cfg.         *)

Stands(inst, b) ==
  \/ inst.url = b.url
  \/ inst.configured = b.name
  \/ b.url \in Urls /\ Identified(inst, Id[Serves[b.url]])

(* A discovered instance stays what it was; a name it lacked is that of a  *)
(* configured bridge that is meant by it.                                  *)
FromFound(inst, was, cfg) ==
  /\ inst.ip = was.ip /\ inst.status = was.status /\ inst.up = was.up
  /\ was.url # Nil => inst.url = was.url
  /\ \/ inst.configured = was.configured
     \/ /\ was.configured = Nil
        /\ \E c \in 1..Len(cfg) : /\ inst.configured = cfg[c].name
                                  /\ was.url = Nil \/ Represents(was, cfg[c])

(* An instance that was appended is a configured bridge and has the        *)
(* identity the broker at its URL reports, or none.                        *)
FromConfig(inst, cfg) ==
  \E c \in 1..Len(cfg) :
    /\ inst.configured = cfg[c].name /\ inst.url = cfg[c].url
    /\ inst.status # Nil /\ inst.status.id # Nil
         => inst.url \in Urls /\ inst.status.id = Id[Serves[inst.url]]

(* The discovered instances of an identity, or one appended for it.        *)
Counted(list, found, id) ==
  Times(list, id) <= 1 \/ Times(list, id) = Times(found, id)

Merge(list, found, cfg, m) ==
  /\ list \in Seq(Instances) /\ Len(found) <= Len(list)
  /\ \A k \in 1..Len(found) : FromFound(list[k], found[k], cfg)
  /\ \A k \in (Len(found) + 1)..Len(list) : FromConfig(list[k], cfg)
  /\ \A c \in 1..m : \E k \in 1..Len(list) : Stands(list[k], cfg[c])
  /\ \A id \in Range(Id) \ {Nil} : Counted(list, found, id)

(* The statuses known of the configured URLs are those of the brokers there*)
KnownOf(statuses, cfg) ==
  \A c \in 1..Len(cfg) :
    LET s == statuses[cfg[c].url] IN
    /\ s \in Statuses \cup {Nil, Failed}
    /\ ProbedIdentity(s) # Nil
         => cfg[c].url \in Urls /\ ProbedIdentity(s) = Id[Serves[cfg[c].url]]

LEMMA ConfigList ==
  ASSUME NEW cfg \in Configs
  PROVE  /\ Len(cfg) \in Nat /\ DOMAIN cfg = 1..Len(cfg)
         /\ \A c \in 1..Len(cfg) :
              /\ cfg[c] \in [name : CardNames, url : BridgeUrls] /\ cfg[c] \in Entries
              /\ cfg[c].name # Nil /\ cfg[c].url # Nil
<1> DEFINE B == [name : CardNames, url : BridgeUrls]
<1>1. cfg \in Seq(B)
  BY BridgeAssumption
<1> HIDE DEF B
<1>2. /\ Len(cfg) \in Nat /\ DOMAIN cfg = 1..Len(cfg)
      /\ \A c \in 1..Len(cfg) : cfg[c] \in B
  BY <1>1
<1>3. ASSUME NEW c \in 1..Len(cfg) PROVE cfg[c] \in Entries
  BY <1>2 DEF Entries, Range
<1>4. \A e \in Entries : e.name # Nil /\ e.url # Nil
  BY BridgeAssumption DEF BridgeUrls
<1> QED
  BY <1>2, <1>3, <1>4 DEF B

LEMMA SameTimes ==
  ASSUME NEW list, NEW other, DOMAIN list = DOMAIN other,
         \A k \in DOMAIN list : list[k].status = other[k].status, NEW id
  PROVE  Times(list, id) = Times(other, id)
<1> DEFINE I(s) == {k \in DOMAIN s : s[k].status # Nil /\ s[k].status.id = id}
<1>1. I(list) = I(other)
  OBVIOUS
<1> QED
  BY <1>1 DEF Times

LEMMA AppendTimes ==
  ASSUME NEW list \in Seq(Instances), NEW card \in Instances, NEW id
  PROVE  LET more == Append(list, card) IN
         /\ ~(card.status # Nil /\ card.status.id = id) => Times(more, id) = Times(list, id)
         /\ (\A k \in 1..Len(list) : ~(list[k].status # Nil /\ list[k].status.id = id))
              => Times(more, id) <= 1
<1> DEFINE more == Append(list, card)
           n == Len(list)
           Is(inst) == inst.status # Nil /\ inst.status.id = id
           I(s) == {k \in DOMAIN s : Is(s[k])}
<1>1. /\ n \in Nat /\ DOMAIN list = 1..n /\ DOMAIN more = 1..(n + 1)
      /\ more[n + 1] = card /\ \A k \in 1..n : more[k] = list[k]
  OBVIOUS
<1> HIDE DEF more, n, Is
<1>2. ASSUME ~Is(card) PROVE I(more) = I(list)
  <2>1. ASSUME NEW k \in 1..(n + 1), Is(more[k]) PROVE k \in 1..n
    BY <1>1, <1>2, <2>1
  <2> QED
    BY <1>1, <2>1
<1>3. ASSUME \A k \in 1..n : ~Is(list[k]) PROVE Cardinality(I(more)) <= 1
  <2>1. I(more) \in SUBSET {n + 1}
    BY <1>1, <1>3
  <2>2. IsFiniteSet({n + 1}) /\ Cardinality({n + 1}) = 1
    BY FS_Singleton
  <2> HIDE DEF I
  <2> QED
    BY <2>1, <2>2, FS_Subset
<1>4. Times(more, id) = Cardinality(I(more)) /\ Times(list, id) = Cardinality(I(list))
  BY DEF Times, Is
<1> QED
  BY <1>2, <1>3, <1>4 DEF more, n, Is

(* A configured bridge folded into an instance stands there, and whoever   *)
(* stood there still does.                                                 *)
LEMMA FoldedStands ==
  ASSUME NEW inst \in Instances, NEW b \in [name : CardNames, url : BridgeUrls],
         b.name # Nil, b.url # Nil, NEW id,
         inst.url = b.url \/ DisplayName(inst) = b.name \/ Identified(inst, id),
         id # Nil => b.url \in Urls /\ id = Id[Serves[b.url]]
  PROVE  LET m == MergeConfigured(inst, b) IN
         /\ Stands(m, b)
         /\ \A e : e.name # Nil /\ e.url # Nil /\ Stands(inst, e) => Stands(m, e)
<1> DEFINE m == MergeConfigured(inst, b)
<1>1. /\ m.status = inst.status
      /\ m.configured = IF inst.configured = Nil THEN b.name ELSE inst.configured
      /\ m.url = IF inst.url = Nil THEN b.url ELSE inst.url
  BY MergedFields
<1> HIDE DEF m
<1>2. \A x : Identified(inst, x) => Identified(m, x)
  BY <1>1 DEF Identified
<1>3. Stands(m, b)
  <2>1. CASE inst.url = b.url
    BY <1>1, <2>1 DEF Stands
  <2>2. CASE DisplayName(inst) = b.name
    BY <1>1, <2>2 DEF Stands, DisplayName
  <2>3. CASE Identified(inst, id)
    BY <1>2, <2>3 DEF Stands, Identified
  <2> QED
    BY <2>1, <2>2, <2>3
<1>4. ASSUME NEW e, e.name # Nil, e.url # Nil, Stands(inst, e) PROVE Stands(m, e)
  BY <1>1, <1>2, <1>4 DEF Stands
<1> QED
  BY <1>3, <1>4 DEF m

LEMMA FoldedFromFound ==
  ASSUME NEW inst \in Instances, NEW was \in Instances, NEW cfg \in Configs,
         FromFound(inst, was, cfg), NEW c \in 1..Len(cfg), NEW id,
         inst.url = cfg[c].url \/ DisplayName(inst) = cfg[c].name \/ Identified(inst, id),
         id # Nil => cfg[c].url \in Urls /\ id = Id[Serves[cfg[c].url]]
  PROVE  FromFound(MergeConfigured(inst, cfg[c]), was, cfg)
<1> DEFINE b == cfg[c]
           m == MergeConfigured(inst, b)
<1>1. /\ b \in [name : CardNames, url : BridgeUrls]
      /\ \A d \in 1..Len(cfg) : cfg[d].name # Nil /\ cfg[d].url # Nil
  BY ConfigList
<1>2. /\ m.ip = inst.ip /\ m.status = inst.status /\ m.up = inst.up
      /\ m.configured = IF inst.configured = Nil THEN b.name ELSE inst.configured
      /\ m.url = IF inst.url = Nil THEN b.url ELSE inst.url
  BY <1>1, MergedFields
<1> SUFFICES FromFound(m, was, cfg)
  OBVIOUS
<1> HIDE DEF m
<1>3. CASE inst.configured # Nil
  BY <1>2, <1>3 DEF FromFound
<1>4. CASE inst.configured = Nil
  <2>1. was.configured = Nil
    BY <1>1, <1>4 DEF FromFound
  <2>2. ASSUME was.url # Nil PROVE Represents(was, b)
    <3>1. inst.url = was.url /\ inst.status = was.status /\ inst.ip = was.ip
      BY <2>2 DEF FromFound
    <3>2. DisplayName(inst) = DisplayName(was)
      BY <1>4, <2>1, <3>1 DEF DisplayName
    <3>3. CASE Identified(inst, id)
      BY <3>1, <3>3 DEF Represents, Identified
    <3>4. CASE inst.url = b.url
      BY <3>1, <3>4 DEF Represents
    <3>5. CASE DisplayName(inst) = b.name
      BY <3>2, <3>5 DEF Represents
    <3> QED
      BY <3>3, <3>4, <3>5
  <2>3. m.configured = cfg[c].name
    BY <1>2, <1>4
  <2> QED
    BY <1>2, <2>1, <2>2, <2>3 DEF FromFound
<1> QED
  BY <1>3, <1>4

LEMMA FoldStep ==
  ASSUME NEW cfg \in Configs, NEW found \in Seq(Instances), NEW list,
         NEW c \in 1..Len(cfg), Merge(list, found, cfg, c - 1), NEW id,
         id # Nil => cfg[c].url \in Urls /\ id = Id[Serves[cfg[c].url]],
         NEW k \in 1..Len(list),
         \/ list[k].url = cfg[c].url
         \/ DisplayName(list[k]) = cfg[c].name
         \/ Identified(list[k], id)
  PROVE  Merge([list EXCEPT ![k] = MergeConfigured(list[k], cfg[c])], found, cfg, c)
<1> DEFINE b == cfg[c]
           m == MergeConfigured(list[k], b)
           new == [list EXCEPT ![k] = m]
<1>1. /\ list \in Seq(Instances) /\ Len(found) <= Len(list) /\ list[k] \in Instances
      /\ Len(found) \in Nat /\ Len(list) \in Nat
  BY DEF Merge
<1>2. /\ b \in [name : CardNames, url : BridgeUrls] /\ b.name # Nil /\ b.url # Nil
      /\ \A d \in 1..Len(cfg) : cfg[d].name # Nil /\ cfg[d].url # Nil
  BY ConfigList
<1>3. /\ m \in Instances /\ m.status = list[k].status
      /\ m.configured = IF list[k].configured = Nil THEN b.name ELSE list[k].configured
      /\ m.url = IF list[k].url = Nil THEN b.url ELSE list[k].url
  BY <1>1, <1>2, MergedFields
<1>4. /\ Stands(m, b)
      /\ \A e : e.name # Nil /\ e.url # Nil /\ Stands(list[k], e) => Stands(m, e)
  BY <1>1, <1>2, FoldedStands
<1>5. ASSUME k \in 1..Len(found) PROVE FromFound(m, found[k], cfg)
  <2>1. found[k] \in Instances /\ FromFound(list[k], found[k], cfg)
    BY <1>5 DEF Merge
  <2> QED
    BY <1>1, <2>1, FoldedFromFound
<1> HIDE DEF m
<1>6. /\ new \in Seq(Instances) /\ Len(new) = Len(list) /\ DOMAIN new = DOMAIN list
      /\ new[k] = m /\ \A j \in 1..Len(list) \ {k} : new[j] = list[j]
  BY <1>1, <1>3
<1> HIDE DEF new
<1>7. \A j \in 1..Len(found) : FromFound(new[j], found[j], cfg)
  <2>1. ASSUME NEW j \in 1..Len(found), j # k PROVE new[j] = list[j]
    BY <1>1, <1>6, <2>1
  <2> QED
    BY <1>5, <1>6, <2>1 DEF Merge
<1>8. ASSUME NEW j \in (Len(found) + 1)..Len(new) PROVE FromConfig(new[j], cfg)
  <2>1. FromConfig(list[j], cfg) /\ j \in 1..Len(list)
    BY <1>1, <1>6 DEF Merge
  <2>2. CASE j # k
    BY <1>6, <2>1, <2>2
  <2>3. CASE j = k
    <3>1. m.configured = list[k].configured /\ m.url = list[k].url
      BY <1>2, <1>3, <2>1, <2>3 DEF FromConfig
    <3> QED
      BY <1>3, <1>6, <2>1, <2>3, <3>1 DEF FromConfig
  <2> QED
    BY <2>2, <2>3
<1>9. ASSUME NEW d \in 1..c PROVE \E j \in 1..Len(new) : Stands(new[j], cfg[d])
  <2>1. CASE d = c
    BY <1>4, <1>6, <2>1
  <2>2. CASE d # c
    <3>1. d \in 1..(c - 1) /\ d \in 1..Len(cfg)
      BY <2>2
    <3>2. PICK j \in 1..Len(list) : Stands(list[j], cfg[d])
      BY <3>1 DEF Merge
    <3>3. CASE j = k
      BY <1>2, <1>4, <1>6, <3>1, <3>2, <3>3
    <3>4. CASE j # k
      BY <1>6, <3>2, <3>4
    <3> QED
      BY <3>3, <3>4
  <2> QED
    BY <2>1, <2>2
<1>10. ASSUME NEW x \in Range(Id) \ {Nil} PROVE Counted(new, found, x)
  <2>1. \A j \in DOMAIN new : new[j].status = list[j].status
    BY <1>1, <1>3, <1>6
  <2>2. Times(new, x) = Times(list, x)
    BY <1>6, <2>1, SameTimes
  <2> QED
    BY <2>2 DEF Merge, Counted
<1>11. Merge(new, found, cfg, c)
  BY <1>1, <1>6, <1>7, <1>8, <1>9, <1>10 DEF Merge
<1> QED
  BY <1>11 DEF new, m

LEMMA AppendStep ==
  ASSUME NEW cfg \in Configs, NEW found \in Seq(Instances), NEW list, NEW statuses,
         KnownOf(statuses, cfg),
         NEW c \in 1..Len(cfg), Merge(list, found, cfg, c - 1),
         \A k \in 1..Len(list) : ~Identified(list[k], ProbedIdentity(statuses[cfg[c].url]))
  PROVE  Merge(Append(list, ConfiguredInstance(cfg[c], statuses[cfg[c].url])), found, cfg, c)
<1> DEFINE b == cfg[c]
           s == statuses[b.url]
           id == ProbedIdentity(s)
           card == ConfiguredInstance(b, s)
           new == Append(list, card)
           n == Len(list)
<1>1. /\ list \in Seq(Instances) /\ Len(found) <= n /\ Len(found) \in Nat /\ n \in Nat
  BY DEF Merge
<1>2. b \in [name : CardNames, url : BridgeUrls]
  BY ConfigList
<1>3. /\ s \in Statuses \cup {Nil, Failed}
      /\ id # Nil => b.url \in Urls /\ id = Id[Serves[b.url]]
  BY DEF KnownOf
<1>4. /\ card \in Instances
      /\ card.configured = b.name /\ card.url = b.url /\ card.status # Nil
      /\ card.status.id = id
  BY <1>2, <1>3, AppendedFields
<1> HIDE DEF card, id
<1>5. /\ new \in Seq(Instances) /\ Len(new) = n + 1
      /\ new[n + 1] = card /\ \A k \in 1..n : new[k] = list[k]
  BY <1>1, <1>4
<1>6. FromConfig(card, cfg) /\ Stands(card, b)
  BY <1>3, <1>4 DEF FromConfig, Stands
<1>7. ASSUME NEW x \in Range(Id) \ {Nil} PROVE Counted(new, found, x)
  <2>1. Counted(list, found, x)
    BY DEF Merge
  <2>2. CASE x = id
    <3>1. \A k \in 1..n : ~Identified(list[k], x)
      BY <2>2 DEF id
    <3>2. \A k \in 1..n : ~(list[k].status # Nil /\ list[k].status.id = x)
      BY <3>1 DEF Identified
    <3>3. Times(new, x) <= 1
      BY <1>1, <1>4, <3>2, AppendTimes
    <3> QED
      BY <3>3 DEF Counted
  <2>3. CASE x # id
    <3>1. Times(new, x) = Times(list, x)
      BY <1>1, <1>4, <2>3, AppendTimes
    <3> QED
      BY <2>1, <3>1 DEF Counted
  <2> QED
    BY <2>2, <2>3
<1> HIDE DEF new
<1>8. \A k \in 1..Len(found) : FromFound(new[k], found[k], cfg)
  <2>1. \A k \in 1..Len(found) : new[k] = list[k]
    BY <1>1, <1>5
  <2> QED
    BY <2>1 DEF Merge
<1>9. ASSUME NEW k \in (Len(found) + 1)..Len(new) PROVE FromConfig(new[k], cfg)
  <2>1. k = n + 1 \/ (k \in 1..n /\ k \in (Len(found) + 1)..n)
    BY <1>1, <1>5
  <2> QED
    BY <1>5, <1>6, <2>1 DEF Merge
<1>10. ASSUME NEW d \in 1..c PROVE \E k \in 1..Len(new) : Stands(new[k], cfg[d])
  <2>1. CASE d = c
    <3>1. n + 1 \in 1..Len(new)
      BY <1>1, <1>5
    <3> QED
      BY <1>5, <1>6, <2>1, <3>1
  <2>2. CASE d # c
    <3>1. d \in 1..(c - 1)
      BY <2>2
    <3>2. PICK k \in 1..n : Stands(list[k], cfg[d])
      BY <3>1 DEF Merge
    <3>3. k \in 1..Len(new)
      BY <1>1, <1>5
    <3> QED
      BY <1>5, <3>2, <3>3
  <2> QED
    BY <2>1, <2>2
<1>11. Merge(new, found, cfg, c)
  BY <1>1, <1>5, <1>7, <1>8, <1>9, <1>10 DEF Merge
<1> QED
  BY <1>11 DEF new, card

(* The whole loop.                                                         *)
UrlsOf(cfg) == {cfg[c].url : c \in 1..Len(cfg)}

LEMMA FleetMerges ==
  ASSUME NEW cfg \in Configs, NEW found \in Seq(Instances), NEW statuses, KnownOf(statuses, cfg)
  PROVE  /\ Merge(Fleet(found, cfg, statuses).list, found, cfg, Len(cfg))
         /\ Fleet(found, cfg, statuses).asked \subseteq UrlsOf(cfg)
<1> DEFINE F == FleetSteps(found, cfg, statuses)
           n == Len(cfg)
           Good(acc) == acc = [list |-> acc.list, asked |-> acc.asked]
           S == {m \in 0..n : /\ Good(F[m]) /\ Merge(F[m].list, found, cfg, m)
                              /\ F[m].asked \subseteq UrlsOf(cfg)}
<1>1. n \in Nat
  BY ConfigList
<1>2. /\ F[0] = [list |-> found, asked |-> {}]
      /\ \A i \in 1..n : F[i] = AddConfigured(F[i - 1], cfg[i], statuses)
  BY <1>1, Unfolds
<1> HIDE DEF F, n
<1>3. 0 \in S
  <2>1. \A k \in 1..Len(found) : FromFound(found[k], found[k], cfg)
    BY DEF FromFound
  <2>2. \A k \in (Len(found) + 1)..Len(found) : FALSE
    OBVIOUS
  <2>3. \A id \in Range(Id) \ {Nil} : Counted(found, found, id)
    BY DEF Counted
  <2>4. Merge(found, found, cfg, 0)
    BY <2>1, <2>2, <2>3 DEF Merge
  <2> QED
    BY <1>1, <1>2, <2>4
<1>4. ASSUME NEW m \in 1..n, m - 1 \in S PROVE m \in S
  <2> DEFINE acc == F[m - 1]
             id == ProbedIdentity(statuses[cfg[m].url])
  <2>1. Good(acc) /\ Merge(acc.list, found, cfg, m - 1) /\ m \in 1..Len(cfg)
    BY <1>4 DEF n
  <2>2. acc.list \in Seq(Instances)
    BY <2>1 DEF Merge
  <2>3. id # Nil => cfg[m].url \in Urls /\ id = Id[Serves[cfg[m].url]]
    BY <2>1 DEF KnownOf
  <2>4. F[m] = AddConfigured(acc, cfg[m], statuses)
    BY <1>2
  <2> HIDE DEF acc
  <2>5. /\ Good(F[m]) /\ F[m].asked \subseteq acc.asked \cup {cfg[m].url}
        /\ \/ \E k \in 1..Len(acc.list) :
                /\ F[m].list = [acc.list EXCEPT ![k] = MergeConfigured(acc.list[k], cfg[m])]
                /\ \/ acc.list[k].url = cfg[m].url
                   \/ DisplayName(acc.list[k]) = cfg[m].name
                   \/ Identified(acc.list[k], id)
           \/ /\ F[m].list = Append(acc.list, ConfiguredInstance(cfg[m], statuses[cfg[m].url]))
              /\ \A k \in 1..Len(acc.list) : ~Identified(acc.list[k], id)
    <3> DEFINE M == AddConfigured(acc, cfg[m], statuses)
    <3>1. /\ Good(M) /\ M.asked \subseteq acc.asked \cup {cfg[m].url}
          /\ \/ \E k \in 1..Len(acc.list) :
                  /\ M.list = [acc.list EXCEPT ![k] = MergeConfigured(acc.list[k], cfg[m])]
                  /\ \/ acc.list[k].url = cfg[m].url
                     \/ DisplayName(acc.list[k]) = cfg[m].name
                     \/ Identified(acc.list[k], id)
             \/ /\ M.list = Append(acc.list, ConfiguredInstance(cfg[m], statuses[cfg[m].url]))
                /\ \A k \in 1..Len(acc.list) : ~Identified(acc.list[k], id)
      BY <2>1, <2>2, Added
    <3> HIDE DEF M, id
    <3>2. F[m] = M
      BY <2>4 DEF M
    <3> QED
      BY <3>1, <3>2
  <2>6. Merge(F[m].list, found, cfg, m)
    <3>1. CASE \E k \in 1..Len(acc.list) :
                /\ F[m].list = [acc.list EXCEPT ![k] = MergeConfigured(acc.list[k], cfg[m])]
                /\ \/ acc.list[k].url = cfg[m].url
                   \/ DisplayName(acc.list[k]) = cfg[m].name
                   \/ Identified(acc.list[k], id)
      <4> HIDE DEF id
      <4>1. PICK k \in 1..Len(acc.list) :
              /\ F[m].list = [acc.list EXCEPT ![k] = MergeConfigured(acc.list[k], cfg[m])]
              /\ \/ acc.list[k].url = cfg[m].url
                 \/ DisplayName(acc.list[k]) = cfg[m].name
                 \/ Identified(acc.list[k], id)
        BY <3>1
      <4>2. Merge([acc.list EXCEPT ![k] = MergeConfigured(acc.list[k], cfg[m])], found, cfg, m)
        BY <2>1, <2>3, <4>1, FoldStep
      <4> QED
        BY <4>1, <4>2
    <3>2. CASE /\ F[m].list = Append(acc.list, ConfiguredInstance(cfg[m], statuses[cfg[m].url]))
               /\ \A k \in 1..Len(acc.list) : ~Identified(acc.list[k], id)
      BY <2>1, <3>2, AppendStep
    <3> QED
      BY <2>5, <3>1, <3>2
  <2>7. F[m].asked \subseteq UrlsOf(cfg)
    BY <1>4, <2>1, <2>5 DEF UrlsOf, acc
  <2> QED
    BY <2>5, <2>6, <2>7
<1>5. n \in S
  <2> HIDE DEF S
  <2>1. 0..n \subseteq S
    BY <1>1, <1>3, <1>4, Upward
  <2> QED
    BY <1>1, <2>1
<1>6. Fleet(found, cfg, statuses) = F[n]
  BY DEF Fleet, F, n
<1> QED
  BY <1>5, <1>6 DEF n
------------------------------------------------------------------------------
(* What discovery can have found: pushed instances, or the scan of brokers *)
(* that ran at the same time.                                              *)

LEMMA ProbedFields ==
  ASSUME NEW seen \in SUBSET Brokers, NEW ip \in Ips
  PROVE  LET p == Probed(seen, ip) IN
         /\ p \in Instances /\ p.configured = Nil /\ p.ip = ip
         /\ \/ p.status = Nil /\ p.url = Nil /\ ~p.up
            \/ /\ p.url \in Urls /\ p.up /\ p.status # Nil
               /\ p.status = [name |-> ip, id |-> Id[Serves[p.url]]]
<1> DEFINE I == {i \in 1..Len(Ports) : Answers(seen, Url(ip, Ports[i]))}
           first == IF I # {} THEN Min(I) ELSE 0
           u == Url(ip, Ports[first])
<1>1. SelectInSeq(Ports, LAMBDA port : Answers(seen, Url(ip, port))) = first
  BY DEF SelectInSeq
<1>2. first # 0 => Answers(seen, u)
  <2>1. I \in SUBSET (1..Len(Ports)) /\ Len(Ports) \in Nat
    BY BridgeAssumption
  <2> HIDE DEF I
  <2>2. first # 0 => first \in I
    BY <2>1, FirstMatch
  <2> QED
    BY <2>2 DEF I
<1> HIDE DEF first
<1>3. Probed(seen, ip) =
        IF first = 0
        THEN [configured |-> Nil, ip |-> ip, url |-> Nil, status |-> Nil, up |-> FALSE]
        ELSE [configured |-> Nil, ip |-> ip, url |-> u, status |-> Status(ip, u), up |-> TRUE]
  BY <1>1 DEF Probed
<1>4. first # 0 => u \in Urls /\ Status(ip, u) \in Statuses
  <2>1. first # 0 => u \in Urls /\ Serves[u] \in Brokers
    BY <1>2 DEF Answers
  <2>2. first # 0 => Id[Serves[u]] \in Range(Id)
    BY <2>1 DEF Range, Brokers
  <2> QED
    BY <2>1, <2>2 DEF Status, Statuses, CardNames
<1> HIDE DEF u
<1>5. CASE first = 0
  BY <1>3, <1>5 DEF Instances
<1>6. CASE first # 0
  <2>1. Status(ip, u) # Nil
    BY <1>4, <1>6, BridgeAssumption
  <2> QED
    BY <1>3, <1>4, <1>6, <2>1 DEF Instances, Status
<1> QED
  BY <1>5, <1>6

LEMMA PushedFields ==
  ASSUME NEW b \in Brokers
  PROVE  LET p == PushInstance(b) IN
         /\ p \in Instances /\ p.url = Nil /\ p.status # Nil
         /\ p.configured = PushName[b] /\ p.configured # Nil
         /\ p.status.id = Id[b]
<1>1. PushName[b] \in Range(PushName) /\ Id[b] \in Range(Id)
  BY BridgeAssumption DEF Range, Brokers
<1>2. PushName[b] \in CardNames /\ [name |-> PushName[b], id |-> Id[b]] \in Statuses
  BY <1>1 DEF CardNames, Statuses
<1>3. [name |-> PushName[b], id |-> Id[b]] # Nil /\ PushName[b] # Nil
  BY <1>1, <1>2, BridgeAssumption
<1> QED
  BY <1>2, <1>3 DEF PushInstance, Instances

LEMMA Ordered ==
  ASSUME NEW S, IsFiniteSet(S)
  PROVE  SetToSeq(S) \in [1..Cardinality(S) -> S] /\ Cardinality(S) \in Nat
<1>1. Cardinality(S) \in Nat /\ ExistsBijection(1..Cardinality(S), S)
  BY FS_CardinalityType
<1>2. \E f \in [1..Cardinality(S) -> S] : IsInjective(f)
  BY <1>1 DEF ExistsBijection, Bijection, Injection
<1> QED
  BY <1>1, <1>2 DEF SetToSeq
------------------------------------------------------------------------------
(* The last scan found brokers that ran at one time; the status kept of a  *)
(* URL, if it names a broker, names the one that answers there.            *)
ScanInv ==
  \E seen \in SUBSET Brokers : \A k \in DOMAIN scanned :
    scanned[k].ip \in Ips /\ scanned[k] = Probed(seen, scanned[k].ip)

EntryInv ==
  \A u \in ConfigUrls :
    LET id == ProbedIdentity(entry[u].status) IN
    id # Nil => u \in Urls /\ id = Id[Serves[u]]

BridgesInv == BridgesTypeOK /\ ScanInv /\ EntryInv

(* The instances of one scan, or pushed instances.                         *)
Scanned(found) ==
  \E seen \in SUBSET Brokers : \A k \in 1..Len(found) :
    found[k].ip \in Ips /\ found[k] = Probed(seen, found[k].ip)

Pushed(found) == \A k \in 1..Len(found) : \E b \in Brokers : found[k] = PushInstance(b)

LEMMA Discovered ==
  ASSUME BridgesInv
  PROVE  LET found == Found(pushed, scanned) IN
         found \in Seq(Instances) /\ (Scanned(found) \/ Pushed(found))
<1> DEFINE found == Found(pushed, scanned)
<1>1. CASE pushed = {}
  <2>1. found = scanned /\ scanned \in Seq(Instances)
    BY <1>1 DEF Found, BridgesInv, BridgesTypeOK
  <2>2. DOMAIN scanned = 1..Len(scanned)
    BY <2>1
  <2>3. Scanned(scanned)
    BY <2>2 DEF Scanned, BridgesInv, ScanInv
  <2> QED
    BY <2>1, <2>3
<1>2. CASE pushed # {}
  <2>1. pushed \subseteq Brokers /\ IsFiniteSet(pushed)
    BY BridgeAssumption, FS_Subset DEF BridgesInv, BridgesTypeOK
  <2> DEFINE n == Cardinality(pushed)
             order == SetToSeq(pushed)
  <2>2. order \in [1..n -> pushed] /\ n \in Nat
    BY <2>1, Ordered
  <2>3. found = [i \in DOMAIN order |-> PushInstance(order[i])]
    BY <1>2 DEF Found
  <2> HIDE DEF n, order, found
  <2>4. found = [i \in 1..n |-> PushInstance(order[i])]
    BY <2>2, <2>3
  <2>5. \A i \in 1..n : order[i] \in Brokers /\ PushInstance(order[i]) \in Instances
    BY <2>1, <2>2, PushedFields
  <2>6. found \in Seq(Instances) /\ Len(found) = n
    BY <2>2, <2>4, <2>5
  <2>7. Pushed(found)
    BY <2>4, <2>5, <2>6 DEF Pushed
  <2> QED
    BY <2>6, <2>7 DEF found
<1> QED
  BY <1>1, <1>2

LEMMA KnownNow == ASSUME BridgesInv PROVE config \in Configs /\ KnownOf(Known, config)
<1>1. config \in Configs
  BY DEF BridgesInv, BridgesTypeOK
<1>2. ASSUME NEW c \in 1..Len(config)
      PROVE  config[c].url \in ConfigUrls /\ Known[config[c].url] = entry[config[c].url].status
  BY <1>1, ConfigList DEF ConfigUrls, Known
<1>3. \A u \in ConfigUrls : entry[u].status \in Statuses \cup {Nil, Failed}
  BY DEF BridgesInv, BridgesTypeOK
<1> QED
  BY <1>1, <1>2, <1>3 DEF KnownOf, BridgesInv, EntryInv

LEMMA MergeNow ==
  ASSUME BridgesInv
  PROVE  LET made == Fleet(Found(pushed, scanned), config, Known) IN
         /\ Merge(made.list, Found(pushed, scanned), config, Len(config))
         /\ made.asked \subseteq ConfigUrls
<1>1. config \in Configs /\ KnownOf(Known, config)
  BY KnownNow
<1>2. UrlsOf(config) = ConfigUrls
  BY <1>1, ConfigList DEF UrlsOf, ConfigUrls
<1> QED
  BY <1>1, <1>2, Discovered, FleetMerges

LEMMA MergedSoundly == BridgesInv => FleetMergeSound
<1> SUFFICES ASSUME BridgesInv PROVE FleetMergeSound
  OBVIOUS
<1> DEFINE found == Found(pushed, scanned)
<1>1. Merge(FleetNow, found, config, Len(config)) /\ found \in Seq(Instances)
  BY MergeNow, Discovered DEF FleetNow
<1>2. config \in Configs
  BY KnownNow
<1> HIDE DEF found
<1>3. FleetNow \in Seq(Instances)
  BY <1>1 DEF Merge
<1>4. \A i \in DOMAIN found : FleetNow[i].ip = found[i].ip
  BY <1>1 DEF Merge, FromFound
<1>5. ASSUME NEW i \in DOMAIN config
      PROVE  \E k \in DOMAIN FleetNow : Represents(FleetNow[k], config[i])
  <2>1. i \in 1..Len(config) /\ config[i].name # Nil
    BY <1>2, ConfigList
  <2>2. PICK k \in 1..Len(FleetNow) : Stands(FleetNow[k], config[i])
    BY <1>1, <2>1 DEF Merge
  <2>3. Represents(FleetNow[k], config[i])
    BY <2>1, <2>2 DEF Stands, Represents, DisplayName
  <2> QED
    BY <1>3, <2>3
<1>6. ASSUME NEW id \in Range(Id) \ {Nil}
      PROVE  Times(FleetNow, id) <= 1 \/ Times(FleetNow, id) <= Times(found, id)
  <2>1. Counted(FleetNow, found, id)
    BY <1>1 DEF Merge
  <2>2. IsFiniteSet(DOMAIN found)
    <3>1. DOMAIN found = 1..Len(found) /\ Len(found) \in Nat
      BY <1>1
    <3> QED
      BY <3>1, FS_Interval
  <2>3. Times(found, id) \in Nat
    BY <2>2, FS_Subset, FS_CardinalityType DEF Times
  <2> QED
    BY <2>1, <2>3 DEF Counted
<1> QED
  BY <1>4, <1>5, <1>6 DEF FleetMergeSound, found
------------------------------------------------------------------------------
(* The steps.                                                              *)

LEMMA ScanStep == ASSUME BridgesInv, Scan PROVE scanned' \in Seq(Instances) /\ ScanInv'
<1> DEFINE conns == {c \in Conns : c.broker \in up}
           C == {c \in conns : c.bridge}
           groups == {<<c.server, ResolveIP(c)>> : c \in C}
           g == [c \in C |-> <<c.server, ResolveIP(c)>>]
<1>1. C \subseteq Conns /\ IsFiniteSet(C)
  BY FS_Subset, BridgeAssumption
<1>2. Cardinality(groups) \in Nat
  <2>1. g \in Surjection(C, groups)
    BY DEF Surjection
  <2> HIDE DEF g, C, groups
  <2> QED
    BY <1>1, <2>1, FS_Surjection, FS_CardinalityType
<1> DEFINE n == Cardinality(groups)
<1>3. PICK s \in SetToSeqs(groups) : scanned' = [i \in DOMAIN s |-> Probed(up, s[i][2])]
  BY DEF Scan, Discoveries
<1>4. s \in [1..n -> groups]
  BY <1>3 DEF SetToSeqs
<1>5. \A e \in groups : e[2] \in Ips
  BY <1>1 DEF Ips
<1> HIDE DEF groups, n
<1>6. up \in SUBSET Brokers
  BY DEF BridgesInv, BridgesTypeOK
<1>7. scanned' = [i \in 1..n |-> Probed(up, s[i][2])]
  BY <1>3, <1>4
<1>8. ASSUME NEW i \in 1..n
      PROVE  /\ Probed(up, s[i][2]) \in Instances
             /\ Probed(up, s[i][2]).ip = s[i][2] /\ s[i][2] \in Ips
  <2>1. s[i][2] \in Ips
    BY <1>4, <1>5
  <2> QED
    BY <1>6, <2>1, ProbedFields
<1>9. scanned' \in Seq(Instances) /\ DOMAIN scanned' = 1..n
  <2>1. n \in Nat
    BY <1>2 DEF n
  <2> QED
    BY <1>7, <1>8, <2>1
<1>10. \A k \in DOMAIN scanned' : scanned'[k].ip \in Ips
                                  /\ scanned'[k] = Probed(up, scanned'[k].ip)
  BY <1>7, <1>8, <1>9
<1> QED
  BY <1>6, <1>9, <1>10 DEF ScanInv

(* A poll, and what fills and empties the caches.                          *)
LEMMA PollStep == ASSUME BridgesInv, Poll PROVE BridgesInv'
<1> DEFINE made == Fleet(Found(pushed, scanned), config, Known)
<1>1. made.list \in Seq(Instances) /\ made.asked \subseteq ConfigUrls
  BY MergeNow DEF Merge
<1>2. /\ cached' = made.list /\ fresh' = TRUE
      /\ entry' = [u \in ConfigUrls |->
                     IF u \in made.asked THEN GetAsync(entry[u]) ELSE entry[u]]
      /\ probes' = probes \cup {u \in made.asked : GetAsync(entry[u]) # entry[u]}
      /\ UNCHANGED <<up, config, panics, pushed, scanned>>
  BY DEF Poll, outside
<1> HIDE DEF made
<1>3. ASSUME NEW u \in ConfigUrls
      PROVE  /\ entry'[u] \in [status : Statuses \cup {Nil, Failed},
                               fresh : BOOLEAN, fetching : BOOLEAN]
             /\ entry'[u].status = entry[u].status
  <2>1. entry[u] \in [status : Statuses \cup {Nil, Failed},
                      fresh : BOOLEAN, fetching : BOOLEAN]
    BY DEF BridgesInv, BridgesTypeOK
  <2>2. GetAsync(entry[u]) \in [status : Statuses \cup {Nil, Failed},
                                fresh : BOOLEAN, fetching : BOOLEAN]
        /\ GetAsync(entry[u]).status = entry[u].status
    BY <2>1 DEF GetAsync
  <2> QED
    BY <1>2, <2>1, <2>2
<1>4. ConfigUrls' = ConfigUrls
  BY <1>2 DEF ConfigUrls
<1>5. BridgesTypeOK'
  BY <1>1, <1>2, <1>3, <1>4 DEF BridgesInv, BridgesTypeOK
<1>6. ScanInv'
  BY <1>2 DEF BridgesInv, ScanInv
<1>7. EntryInv'
  BY <1>3, <1>4 DEF BridgesInv, EntryInv
<1> QED
  BY <1>5, <1>6, <1>7 DEF BridgesInv

LEMMA EntrySteps ==
  ASSUME BridgesInv, NEW u \in ConfigUrls, ExpireStatus(u) \/ Panic(u) \/ Refresh(u)
  PROVE  BridgesInv'
<1> DEFINE E == [status : Statuses \cup {Nil, Failed}, fresh : BOOLEAN, fetching : BOOLEAN]
<1>1. /\ UNCHANGED <<up, config, pushed, scanned, cached, fresh>>
      /\ probes' \subseteq probes /\ panics' \in 0..MaxPanics
  <2>1. CASE ExpireStatus(u)
    BY <2>1 DEF ExpireStatus, outside, BridgesInv, BridgesTypeOK
  <2>2. CASE Panic(u)
    BY <2>2, BridgeAssumption DEF Panic, BridgesInv, BridgesTypeOK
  <2>3. CASE Refresh(u)
    BY <2>3 DEF Refresh, outside, BridgesInv, BridgesTypeOK
  <2> QED
    BY <2>1, <2>2, <2>3
<1>2. entry \in [ConfigUrls -> E] /\ ConfigUrls' = ConfigUrls
  BY <1>1 DEF BridgesInv, BridgesTypeOK, ConfigUrls
<1>3. PICK e \in E :
        /\ entry' = [entry EXCEPT ![u] = e]
        /\ ProbedIdentity(e.status) # Nil
             => u \in Urls /\ ProbedIdentity(e.status) = Id[Serves[u]]
  <2>1. CASE ExpireStatus(u)
    <3>1. entry' = [entry EXCEPT ![u] = [entry[u] EXCEPT !.fresh = FALSE]]
      BY <2>1 DEF ExpireStatus
    <3>2. [entry[u] EXCEPT !.fresh = FALSE] \in E
      BY <1>2
    <3>3. [entry[u] EXCEPT !.fresh = FALSE].status = entry[u].status
      BY <1>2
    <3> QED
      BY <3>1, <3>2, <3>3 DEF BridgesInv, EntryInv
  <2>2. CASE Panic(u)
    <3>1. entry' = [entry EXCEPT ![u] = [entry[u] EXCEPT !.fetching = FALSE]]
      BY <2>2 DEF Panic
    <3>2. [entry[u] EXCEPT !.fetching = FALSE] \in E
      BY <1>2
    <3>3. [entry[u] EXCEPT !.fetching = FALSE].status = entry[u].status
      BY <1>2
    <3> QED
      BY <3>1, <3>2, <3>3 DEF BridgesInv, EntryInv
  <2>3. CASE Refresh(u)
    <3> DEFINE b == CHOOSE i \in DOMAIN config : config[i].url = u
               st == IF Answers(up, u) THEN Status(config[b].name, u) ELSE Failed
               e == [status |-> st, fresh |-> TRUE, fetching |-> FALSE]
    <3>1. entry' = [entry EXCEPT ![u] = e]
      BY <2>3 DEF Refresh
    <3>2. b \in DOMAIN config
      BY DEF ConfigUrls
    <3> HIDE DEF b
    <3>3. config[b].name \in CardNames
      BY <3>2, KnownNow, ConfigList
    <3>4. CASE Answers(up, u)
      <4>1. u \in Urls /\ Id[Serves[u]] \in Range(Id)
        BY <3>4 DEF Answers, BridgesInv, BridgesTypeOK, Brokers, Range
      <4>2. st = [name |-> config[b].name, id |-> Id[Serves[u]]]
        BY <3>4 DEF Status
      <4>3. st \in Statuses /\ st.id = Id[Serves[u]]
        BY <3>3, <4>1, <4>2 DEF Statuses
      <4> HIDE DEF st
      <4>4. e \in E /\ e.status = st
        BY <4>3
      <4>5. ProbedIdentity(st) \in {Nil, Id[Serves[u]]}
        BY <4>3 DEF ProbedIdentity
      <4> QED
        BY <3>1, <4>1, <4>4, <4>5
    <3>5. CASE ~Answers(up, u)
      <4>1. e \in E /\ ProbedIdentity(e.status) = Nil
        BY <3>5 DEF ProbedIdentity
      <4> QED
        BY <3>1, <4>1
    <3> QED
      BY <3>4, <3>5
  <2> QED
    BY <2>1, <2>2, <2>3
<1> HIDE DEF E
<1>4. entry' \in [ConfigUrls -> E] /\ entry'[u] = e
      /\ \A v \in ConfigUrls \ {u} : entry'[v] = entry[v]
  BY <1>2, <1>3
<1>5. BridgesTypeOK'
  BY <1>1, <1>2, <1>4 DEF BridgesInv, BridgesTypeOK, E
<1>6. ScanInv'
  BY <1>1 DEF BridgesInv, ScanInv
<1>7. EntryInv'
  BY <1>2, <1>3, <1>4 DEF BridgesInv, EntryInv
<1> QED
  BY <1>5, <1>6, <1>7 DEF BridgesInv

LEMMA BridgesInductive == BridgesInv /\ [Next]_vars => BridgesInv'
<1> SUFFICES ASSUME BridgesInv, [Next]_vars PROVE BridgesInv'
  OBVIOUS
<1> USE DEF outside
<1>1. CASE Scan
  <2>1. scanned' \in Seq(Instances) /\ ScanInv'
    BY <1>1, ScanStep
  <2>2. UNCHANGED <<up, config, panics, pushed, entry, probes, cached, fresh>>
    BY <1>1 DEF Scan
  <2>3. BridgesTypeOK'
    BY <2>1, <2>2 DEF BridgesInv, BridgesTypeOK, ConfigUrls
  <2>4. EntryInv'
    BY <2>2 DEF BridgesInv, EntryInv, ConfigUrls
  <2> QED
    BY <2>1, <2>3, <2>4 DEF BridgesInv
<1>2. CASE Poll
  BY <1>2, PollStep
<1>3. CASE \E u \in ConfigUrls : ExpireStatus(u) \/ Panic(u) \/ Refresh(u)
  BY <1>3, EntrySteps
<1>4. CASE \E b \in Brokers : BrokerChange(b) \/ Publish(b) \/ SweepExpired(b)
  <2>1. /\ up' \subseteq Brokers /\ pushed' \subseteq Brokers
        /\ UNCHANGED <<config, scanned, entry, probes, cached, fresh, panics>>
    BY <1>4 DEF BrokerChange, Publish, SweepExpired, BridgesInv, BridgesTypeOK
  <2>2. BridgesTypeOK'
    BY <2>1 DEF BridgesInv, BridgesTypeOK, ConfigUrls
  <2> QED
    BY <2>1, <2>2 DEF BridgesInv, ScanInv, EntryInv, ConfigUrls
<1>5. CASE ExpireResponse
  <2>1. /\ fresh' = FALSE
        /\ UNCHANGED <<up, config, panics, pushed, scanned, entry, probes, cached>>
    BY <1>5 DEF ExpireResponse
  <2>2. ConfigUrls' = ConfigUrls
    BY <2>1 DEF ConfigUrls
  <2>3. BridgesTypeOK'
    BY <2>1, <2>2 DEF BridgesInv, BridgesTypeOK
  <2> QED
    BY <2>1, <2>2, <2>3 DEF BridgesInv, ScanInv, EntryInv
<1>6. CASE UNCHANGED vars
  <2>1. BridgesTypeOK'
    BY <1>6 DEF vars, BridgesInv, BridgesTypeOK, ConfigUrls
  <2> QED
    BY <1>6, <2>1 DEF vars, BridgesInv, ScanInv, EntryInv, ConfigUrls
<1> QED
  BY <1>1, <1>2, <1>3, <1>4, <1>5, <1>6 DEF Next

LEMMA BridgesInvariance == Spec => []BridgesInv
<1>1. Init => BridgesInv
  <2> SUFFICES ASSUME Init PROVE BridgesInv
    OBVIOUS
  <2>1. BridgesTypeOK
    <3>1. entry \in [ConfigUrls -> [status : Statuses \cup {Nil, Failed},
                                   fresh : BOOLEAN, fetching : BOOLEAN]]
      BY DEF Init
    <3>2. scanned \in Seq(Instances) /\ panics \in 0..MaxPanics
      BY BridgeAssumption DEF Init
    <3> QED
      BY <3>1, <3>2 DEF Init, BridgesTypeOK
  <2>2. ScanInv
    BY DEF Init, ScanInv
  <2>3. EntryInv
    BY DEF Init, EntryInv, ProbedIdentity
  <2> QED
    BY <2>1, <2>2, <2>3 DEF BridgesInv
<1> QED
  BY <1>1, BridgesInductive, PTL DEF Spec

(* Whatever is found, configured, probed, pushed or forgotten, the list of *)
(* the fleet loses nobody and lists no broker twice on its own account.    *)
THEOREM FleetIsMerged == Spec => []FleetMergeSound
BY BridgesInvariance, MergedSoundly, PTL
------------------------------------------------------------------------------
(* Cards.                                                                  *)

LEMMA LookedUp ==
  ASSUME NEW found \in Seq(Instances), NEW cfg \in Configs, NEW name
  PROVE  LET t == FindBridge(found, cfg, name)
             Admin(d) == BridgeMatchesName(found[d], name) /\ found[d].url # Nil
         IN \/ \E c \in 1..Len(cfg) : cfg[c].name = name /\ t = cfg[c].url
            \/ /\ \A c \in 1..Len(cfg) : cfg[c].name # name
               /\ \/ \E d \in 1..Len(found) : Admin(d) /\ t = found[d].url
                  \/ t = Nil /\ \A d \in 1..Len(found) : ~Admin(d)
<1> DEFINE Admin(d) == BridgeMatchesName(found[d], name) /\ found[d].url # Nil
           I == {i \in 1..Len(cfg) : cfg[i].name = name}
           J == {i \in 1..Len(found) : Admin(i)}
           c == IF I # {} THEN Min(I) ELSE 0
           d == IF J # {} THEN Min(J) ELSE 0
<1>1. FindBridge(found, cfg, name) =
        IF c > 0 THEN cfg[c].url ELSE IF d > 0 THEN found[d].url ELSE Nil
  BY DEF FindBridge, SelectInSeq
<1>2. c \in Nat /\ (c = 0 => I = {}) /\ (c # 0 => c \in I)
  <2>1. I \in SUBSET (1..Len(cfg)) /\ Len(cfg) \in Nat
    BY ConfigList
  <2> HIDE DEF I
  <2> QED
    BY <2>1, FirstMatch
<1>3. d \in Nat /\ (d = 0 => J = {}) /\ (d # 0 => d \in J)
  <2>1. J \in SUBSET (1..Len(found)) /\ Len(found) \in Nat
    OBVIOUS
  <2> HIDE DEF J
  <2> QED
    BY <2>1, FirstMatch
<1> HIDE DEF c, d, Admin
<1>4. CASE c # 0
  BY <1>1, <1>2, <1>4
<1>5. CASE c = 0 /\ d # 0
  BY <1>1, <1>2, <1>3, <1>5 DEF Admin
<1>6. CASE c = 0 /\ d = 0
  BY <1>1, <1>2, <1>3, <1>6 DEF Admin
<1> QED
  BY <1>4, <1>5, <1>6

LEMMA PushLookedUp ==
  ASSUME NEW found \in Seq(Instances), NEW name
  PROVE  LET p == FindBridgePush(found, name) IN
         \/ \E d \in 1..Len(found) : BridgeMatchesName(found[d], name) /\ p = found[d]
         \/ p = Nil /\ \A d \in 1..Len(found) : ~BridgeMatchesName(found[d], name)
<1> DEFINE J == {i \in 1..Len(found) : BridgeMatchesName(found[i], name)}
           d == IF J # {} THEN Min(J) ELSE 0
<1>1. FindBridgePush(found, name) = IF d > 0 THEN found[d] ELSE Nil
  BY DEF FindBridgePush, SelectInSeq
<1>2. d \in Nat /\ (d = 0 => J = {}) /\ (d # 0 => d \in J)
  <2>1. J \in SUBSET (1..Len(found)) /\ Len(found) \in Nat
    OBVIOUS
  <2> HIDE DEF J
  <2> QED
    BY <2>1, FirstMatch
<1> HIDE DEF d
<1>3. CASE d # 0
  BY <1>1, <1>2, <1>3
<1>4. CASE d = 0
  BY <1>1, <1>2, <1>4
<1> QED
  BY <1>3, <1>4

(* A card bears the name of a configured bridge, or the name under which   *)
(* the instance it shows was found.                                        *)
LEMMA Addressed ==
  ASSUME NEW found \in Seq(Instances), NEW cfg \in Configs, NEW list,
         Merge(list, found, cfg, Len(cfg)), NEW k \in 1..Len(list)
  PROVE  LET name == DisplayName(list[k]) IN
         \/ \E c \in 1..Len(cfg) : name = cfg[c].name
         \/ \E j \in 1..Len(found) :
              /\ DisplayName(found[j]) = name /\ list[k].up = found[j].up
              /\ list[k].status = found[j].status
<1>1. Len(found) \in Nat /\ Len(list) \in Nat /\ Len(found) <= Len(list)
  BY DEF Merge
<1>2. \A c \in 1..Len(cfg) : cfg[c].name # Nil
  BY ConfigList
<1>3. CASE k <= Len(found)
  <2>1. k \in 1..Len(found) /\ FromFound(list[k], found[k], cfg)
    BY <1>1, <1>3 DEF Merge
  <2>2. CASE list[k].configured = found[k].configured
    BY <2>1, <2>2 DEF FromFound, DisplayName
  <2>3. CASE list[k].configured # found[k].configured
    BY <1>2, <2>1, <2>3 DEF FromFound, DisplayName
  <2> QED
    BY <2>2, <2>3
<1>4. CASE k > Len(found)
  <2>1. FromConfig(list[k], cfg)
    BY <1>1, <1>4 DEF Merge
  <2> QED
    BY <1>2, <2>1 DEF FromConfig, DisplayName
<1> QED
  BY <1>1, <1>3, <1>4

LEMMA ReadsKnown ==
  ASSUME NEW read \in {"live", "no admin API"}, NEW code \in Codes
  PROVE  "not found" \notin CardReads(read, code)
BY DEF CardReads, ConnzRead, DiagRead, ReadyzRead, ClusterRead, InspectRead, AdminAction,
       ClientRead

(* A card under the name of a configured bridge leads to that bridge's URL,*)
(* which is the broker on the card.                                        *)
LEMMA ConfiguredTarget ==
  ASSUME NamesApart, NEW found \in Seq(Instances), Scanned(found) \/ Pushed(found),
         NEW cfg \in Configs, NEW list, Merge(list, found, cfg, Len(cfg)),
         NEW k \in 1..Len(list), NEW c \in 1..Len(cfg), cfg[c].name = DisplayName(list[k])
  PROVE  LeadsTo(list[k], cfg[c].url)
<1> DEFINE card == list[k]
           b == cfg[c]
<1>1. Len(found) \in Nat /\ Len(list) \in Nat /\ card \in Instances
  BY DEF Merge
<1>2. /\ b \in Entries /\ b.name # Nil
      /\ \A d \in 1..Len(cfg) : cfg[d].name # Nil /\ (cfg[d].name = b.name => d = c)
  BY ConfigList, BridgeAssumption
<1> SUFFICES ASSUME card.status # Nil, card.status.id # Nil
             PROVE  Id[Serves[b.url]] = card.status.id
  BY DEF LeadsTo
<1>3. CASE k \in (Len(found) + 1)..Len(list)
  <2>1. PICK d \in 1..Len(cfg) :
          /\ card.configured = cfg[d].name /\ card.url = cfg[d].url
          /\ card.status.id = Id[Serves[card.url]]
    BY <1>3 DEF Merge, FromConfig
  <2>2. d = c
    BY <1>2, <2>1 DEF DisplayName
  <2> QED
    BY <2>1, <2>2
<1>4. CASE k \in 1..Len(found)
  <2> DEFINE was == found[k]
  <2>1. FromFound(card, was, cfg) /\ was \in Instances
    BY <1>4 DEF Merge
  <2>2. ASSUME NEW x \in Brokers, was = PushInstance(x)
        PROVE  Id[Serves[b.url]] = card.status.id
    <3>1. card.configured = PushName[x] /\ PushName[x] # Nil /\ card.status.id = Id[x]
      BY <2>1, <2>2, PushedFields DEF FromFound
    <3>2. b.name = PushName[x]
      BY <3>1 DEF DisplayName
    <3>3. Serves[b.url] = x
      BY <1>2, <3>2 DEF NamesApart
    <3> QED
      BY <3>1, <3>3
  <2>3. ASSUME NEW seen \in SUBSET Brokers, was.ip \in Ips, was = Probed(seen, was.ip)
        PROVE  Id[Serves[b.url]] = card.status.id
    <3>1. was.configured = Nil /\ card.status = was.status
      <4>1. Probed(seen, was.ip).configured = Nil
        BY <2>3, ProbedFields
      <4>2. was.configured = Nil
        BY <2>3, <4>1
      <4> QED
        BY <2>1, <4>2 DEF FromFound
    <3>2. /\ was.url \in Urls /\ was.url # Nil
          /\ was.status.name = was.ip /\ was.status.id = Id[Serves[was.url]]
      <4>1. \/ was.status = Nil
            \/ /\ was.url \in Urls
               /\ was.status = [name |-> was.ip, id |-> Id[Serves[was.url]]]
        BY <2>3, ProbedFields
      <4> HIDE DEF was
      <4> QED
        BY <3>1, <4>1, BridgeAssumption
    <3>3. b.name # was.ip
      BY <1>2, <2>3 DEF NamesApart
    <3>4. DisplayName(was) = was.ip
      BY <3>1, <3>2 DEF DisplayName
    <3>5. card.configured # Nil
      BY <3>1, <3>2, <3>3 DEF DisplayName
    <3>6. PICK d \in 1..Len(cfg) : card.configured = cfg[d].name /\ Represents(was, cfg[d])
      BY <2>1, <3>1, <3>2, <3>5 DEF FromFound
    <3>7. d = c
      BY <1>2, <3>5, <3>6 DEF DisplayName
    <3>8. CASE was.url = b.url
      BY <3>1, <3>2, <3>8
    <3>9. CASE b.url \in Urls /\ Identified(was, Id[Serves[b.url]])
      <4>1. Id[Serves[b.url]] \in Range(Id)
        BY <3>9, BridgeAssumption DEF Range, Brokers, Urls
      <4>2. Id[Serves[b.url]] # was.ip
        BY <2>3, <4>1 DEF NamesApart
      <4> QED
        BY <3>1, <3>2, <3>9, <4>2 DEF Identified
    <3> QED
      BY <3>3, <3>4, <3>6, <3>7, <3>8, <3>9 DEF Represents
  <2> QED
    BY <1>4, <2>2, <2>3 DEF Scanned, Pushed
<1> QED
  BY <1>1, <1>3, <1>4

LEMMA ScannedTarget ==
  ASSUME NamesApart, NEW found \in Seq(Instances), Scanned(found) \/ Pushed(found),
         NEW cfg \in Configs, NEW list, Merge(list, found, cfg, Len(cfg)),
         NEW k \in 1..Len(list), \A c \in 1..Len(cfg) : cfg[c].name # DisplayName(list[k]),
         NEW d \in 1..Len(found),
         BridgeMatchesName(found[d], DisplayName(list[k])), found[d].url # Nil
  PROVE  LeadsTo(list[k], found[d].url)
<1> SUFFICES ASSUME list[k].status # Nil, list[k].status.id # Nil
             PROVE  Id[Serves[found[d].url]] = list[k].status.id
  BY DEF LeadsTo
<1>1. PICK j \in 1..Len(found) :
        DisplayName(found[j]) = DisplayName(list[k]) /\ list[k].status = found[j].status
  BY Addressed
<1>2. ~Pushed(found)
  BY PushedFields DEF Pushed
<1>3. PICK seen \in SUBSET Brokers :
        \A i \in 1..Len(found) : found[i].ip \in Ips /\ found[i] = Probed(seen, found[i].ip)
  BY <1>2 DEF Scanned
<1>4. ASSUME NEW i \in 1..Len(found), found[i].status # Nil \/ found[i].url # Nil
      PROVE  /\ found[i].url \in Urls /\ found[i].status.id = Id[Serves[found[i].url]]
             /\ DisplayName(found[i]) = found[i].ip /\ found[i].ip \in Ips
  <2>1. /\ found[i].ip \in Ips /\ found[i].configured = Nil
        /\ \/ found[i].status = Nil /\ found[i].url = Nil
           \/ /\ found[i].url \in Urls /\ found[i].status # Nil
              /\ found[i].status = [name |-> found[i].ip, id |-> Id[Serves[found[i].url]]]
    BY <1>3, ProbedFields
  <2> QED
    BY <1>4, <2>1 DEF DisplayName
<1>5. found[d].ip = found[j].ip
  <2>1. DisplayName(list[k]) = found[j].ip /\ found[j].ip \in Ips
    BY <1>1, <1>4
  <2>2. DisplayName(found[d]) = found[d].ip /\ found[d].url \notin Ips
    BY <1>4 DEF NamesApart
  <2> QED
    BY <2>1, <2>2 DEF BridgeMatchesName
<1>6. found[d] = found[j]
  BY <1>3, <1>5
<1> QED
  BY <1>1, <1>4, <1>6

LEMMA AllCardsOpen == ASSUME NamesApart, BridgesInv PROVE CardsOpen
<1> DEFINE found == Found(pushed, scanned)
           L == FleetNow
<1>1. /\ Merge(L, found, config, Len(config)) /\ found \in Seq(Instances)
      /\ Scanned(found) \/ Pushed(found)
  BY MergeNow, Discovered DEF FleetNow
<1>2. config \in Configs /\ \A c \in 1..Len(config) : config[c].url # Nil
  BY KnownNow, ConfigList
<1>3. L \in Seq(Instances)
  BY <1>1 DEF Merge
<1> SUFFICES ASSUME NEW k \in 1..Len(L) PROVE CardOpens(L[k], found)
  BY <1>3 DEF CardsOpen, Range
<1> DEFINE card == L[k]
           name == DisplayName(card)
           target == FindBridge(found, config, name)
           push == FindBridgePush(found, name)
<1>4. \/ \E c \in 1..Len(config) : config[c].name = name /\ target = config[c].url
      \/ /\ \A c \in 1..Len(config) : config[c].name # name
         /\ \/ \E d \in 1..Len(found) :
                 BridgeMatchesName(found[d], name) /\ found[d].url # Nil /\ target = found[d].url
            \/ /\ target = Nil
               /\ \A d \in 1..Len(found) :
                    ~(BridgeMatchesName(found[d], name) /\ found[d].url # Nil)
  BY <1>1, <1>2, LookedUp
<1>5. \/ \E d \in 1..Len(found) : BridgeMatchesName(found[d], name) /\ push = found[d]
      \/ push = Nil /\ \A d \in 1..Len(found) : ~BridgeMatchesName(found[d], name)
  BY <1>1, PushLookedUp
<1>6. \/ \E c \in 1..Len(config) : name = config[c].name
      \/ \E j \in 1..Len(found) :
           DisplayName(found[j]) = name /\ card.up = found[j].up /\ card.status = found[j].status
  BY <1>1, <1>2, Addressed
<1>7. LeadsTo(card, target)
  <2>1. CASE \E c \in 1..Len(config) : config[c].name = name /\ target = config[c].url
    BY <1>1, <1>2, <2>1, ConfiguredTarget
  <2>2. CASE /\ \A c \in 1..Len(config) : config[c].name # name
             /\ \E d \in 1..Len(found) :
                  BridgeMatchesName(found[d], name) /\ found[d].url # Nil /\ target = found[d].url
    BY <1>1, <1>2, <2>2, ScannedTarget
  <2>3. CASE target = Nil
    BY <2>3 DEF LeadsTo
  <2> QED
    BY <1>4, <2>1, <2>2, <2>3
<1> HIDE DEF target, push, name, L, found
<1>8. \A d \in 1..Len(found) : found[d] # Nil
  BY <1>1, BridgeAssumption
<1>9. target # Nil \/ push # Nil
  <2>1. CASE \E c \in 1..Len(config) : name = config[c].name
    BY <1>2, <1>4, <2>1
  <2>2. CASE \E j \in 1..Len(found) : DisplayName(found[j]) = name
    BY <1>5, <1>8, <2>2 DEF BridgeMatchesName
  <2> QED
    BY <1>6, <2>1, <2>2
<1>10. ASSUME NEW code \in Codes
       PROVE  "not found" \notin CardReads(AdminRead(found, config, name), code)
  <2>1. AdminRead(found, config, name) \in {"live", "no admin API"}
    BY <1>9 DEF AdminRead, target, push
  <2> QED
    BY <2>1, ReadsKnown
<1>11. card.up => PushRead(found, config, name) \in {"pushed", "live"}
  <2>1. ASSUME card.up PROVE target # Nil \/ (push # Nil /\ push.status # Nil)
    <3>1. CASE \E c \in 1..Len(config) : name = config[c].name
      BY <1>2, <1>4, <3>1
    <3>2. CASE \E j \in 1..Len(found) :
                 DisplayName(found[j]) = name /\ card.up = found[j].up
      <4>1. PICK j \in 1..Len(found) : BridgeMatchesName(found[j], name) /\ found[j].up
        BY <2>1, <3>2 DEF BridgeMatchesName
      <4>2. CASE Pushed(found)
        <5>1. \A d \in 1..Len(found) : found[d].status # Nil
          BY <4>2, PushedFields DEF Pushed
        <5> QED
          BY <1>5, <1>8, <4>1, <5>1
      <4>3. CASE Scanned(found)
        <5>1. found[j].url # Nil
          <6>1. PICK seen \in SUBSET Brokers : \E ip \in Ips : found[j] = Probed(seen, ip)
            BY <4>3 DEF Scanned
          <6>2. PICK ip \in Ips : found[j] = Probed(seen, ip)
            BY <6>1
          <6>3. ~Probed(seen, ip).up \/ Probed(seen, ip).url \in Urls
            BY ProbedFields
          <6> QED
            BY <4>1, <6>2, <6>3, BridgeAssumption
        <5>2. Len(config) \in Nat
          BY <1>2, ConfigList
        <5> QED
          BY <1>2, <1>4, <4>1, <5>1
      <4> QED
        BY <1>1, <4>2, <4>3
    <3> QED
      BY <1>6, <3>1, <3>2
  <2> QED
    BY <2>1 DEF PushRead, target, push
<1> QED
  BY <1>7, <1>10, <1>11 DEF CardOpens, target, name, L, found

(* Whatever happens to the brokers and to the caches, every card opens,    *)
(* and its live reads go to the broker it shows, provided bridges are      *)
(* configured under names that say what they are.                          *)
THEOREM EveryCardOpens == ASSUME NamesApart PROVE Spec => []CardsOpen
<1>1. BridgesInv => CardsOpen
  BY AllCardsOpen
<1> QED
  BY <1>1, BridgesInvariance, PTL
===============================================================================
