------------------------------ MODULE ClusterEdit -----------------------------
(***************************************************************************)
(* What an edit of one cluster does to its row: the redacted view the API  *)
(* returns, the form the page ClustersPage makes of it, the request the    *)
(* form becomes, and the merge of that request with the stored row. Tabs   *)
(* may hold forms that are older than the row. Values are abstract: a      *)
(* secret, a host, a CA bundle; None is blank, null or unset.              *)
(***************************************************************************)
EXTENDS Integers, Sequences, SequencesExt

CONSTANTS
  Cases,    \* bound: clusters the configuration file may declare, with the
            \* parts of the form that are edited
  Hosts,    \* hosts of monitoring URLs
  Names,    \* names of MQTT bridges
  Secrets,  \* credentials an administrator may type
  Paths,    \* host paths a client may name
  CAs,      \* contents the CA file may have, one after the other
  MaxList,  \* bound: monitoring URLs or bridges in a form
  Tabs,     \* open pages
  None

VARIABLES
  edited,  \* the parts of the form that are edited, one of Cases
  stored,  \* the row
  form,    \* the edit form of each tab; None: not open
  file,    \* contents of the CA file on the dashboard host
  live     \* the CA of the running collector

editVars == <<edited, stored, form, file, live>>

Maybe(s) == s \cup {None}
ServerUrl == [host : Hosts, cred : Maybe(Secrets)]
Bridge == [name : Names, token : Maybe(Secrets)]
TLS == [path : Maybe(Paths), pem : Maybe(CAs)]
AuthTypes == {"none", "username_password", "token", "nkey", "creds_file"}
Nats == [username : Maybe(Secrets), password : Maybe(Secrets), token : Maybe(Secrets),
         nkey : Maybe(Secrets), creds : Maybe(Paths), tls : Maybe(TLS)]
Cluster == [servers : Seq(ServerUrl), bridges : Seq(Bridge), tls : Maybe(TLS), nats : Maybe(Nats)]
Form == [servers : Seq(ServerUrl), bridges : Seq(Bridge), tls : BOOLEAN, pem : Maybe(CAs),
         nats : BOOLEAN, auth : AuthTypes, username : Maybe(Secrets), secret : Maybe(Secrets)]
Parts == {"servers", "bridges", "tls", "nats"}

(* No value is None, and every cluster of the configuration has a server.  *)
ASSUME EditAssumption ==
  /\ None \notin Secrets \cup Paths \cup CAs \cup TLS \cup Nats /\ None \notin Form
  /\ \A c \in Cases : /\ c.parts \subseteq Parts
                      /\ c.cluster \in Cluster /\ c.cluster.servers # <<>>

EditTypeOK ==
  /\ stored \in Cluster /\ stored.servers # <<>>
  /\ file \in CAs /\ live \in Maybe(CAs) /\ edited \in SUBSET Parts
  /\ form \in [Tabs -> Form \cup {None}]
------------------------------------------------------------------------------
(* ResolveCAFile: a path is read into the bundle, unless there is one.     *)
Resolve(tls) ==
  IF tls = None \/ tls.path = None \/ tls.pem # None THEN tls
  ELSE [tls EXCEPT !.pem = file]

(* A row or a configured cluster with its CA paths resolved.               *)
Resolved(c) ==
  [c EXCEPT !.tls = Resolve(c.tls),
            !.nats = IF c.nats = None THEN None ELSE [c.nats EXCEPT !.tls = Resolve(c.nats.tls)]]

CAOf(c) == IF c.tls = None THEN None ELSE c.tls.pem

(* The configuration is loaded, its paths resolved, and the cluster        *)
(* seeded; its collector runs.                                             *)
EditInit ==
  /\ file \in CAs
  /\ \E c \in Cases : edited = c.parts /\ stored = Resolved(c.cluster)
  /\ form = [t \in Tabs |-> None] /\ live = CAOf(stored)
------------------------------------------------------------------------------
(* toClusterView and clusterToForm: credentials and tokens are blank, the  *)
(* type of authentication is guessed from what is set.                     *)
AuthType(n) ==
  IF n = None THEN "none"
  ELSE IF n.username # None \/ n.password # None THEN "username_password"
  ELSE IF n.token # None THEN "token"
  ELSE IF n.nkey # None THEN "nkey"
  ELSE IF n.creds # None THEN "creds_file" ELSE "none"

ClusterToForm(c) ==
  [servers |-> [i \in DOMAIN c.servers |-> [c.servers[i] EXCEPT !.cred = None]],
   bridges |-> [i \in DOMAIN c.bridges |-> [c.bridges[i] EXCEPT !.token = None]],
   tls |-> c.tls # None, pem |-> CAOf(c),
   nats |-> c.nats # None, auth |-> AuthType(c.nats),
   username |-> IF c.nats = None THEN None ELSE c.nats.username, secret |-> None]

(* formToRequest. ca_file is never sent, and the form has no TLS options   *)
(* for NATS.                                                               *)
FormToRequest(f) ==
  LET Of(type) == IF f.auth = type THEN f.secret ELSE None IN
  [servers |-> f.servers, bridges |-> f.bridges,
   tls |-> IF f.tls THEN [path |-> None, pem |-> f.pem] ELSE None,
   nats |-> IF ~f.nats THEN None
            ELSE [username |-> IF f.auth = "username_password" THEN f.username ELSE None,
                  password |-> Of("username_password"), token |-> Of("token"),
                  nkey |-> Of("nkey"), creds |-> None, tls |-> None]]

(* A faulty variant: a path is compared only with a path.                  *)
SanitizedTLSLoose(incoming, old) ==
  IF incoming = None THEN {None}
  ELSE LET before == IF old = None THEN [path |-> None, pem |-> None] ELSE old IN
    IF before.path # None /\ incoming.path \notin {None, before.path} THEN {}
    ELSE {[path |-> IF before.path = None THEN incoming.path ELSE before.path,
           pem |-> IF incoming.pem = None THEN before.pem ELSE incoming.pem]}

(* sanitizedTLS: the path is the stored one, a blank bundle keeps the      *)
(* stored one. The set is empty when the request is refused.               *)
SanitizedTLS(incoming, old) ==
  IF incoming = None THEN {None}
  ELSE LET before == IF old = None THEN [path |-> None, pem |-> None] ELSE old IN
    IF incoming.path \notin {None, before.path} THEN {}
    ELSE {[path |-> before.path,
           pem |-> IF incoming.pem = None THEN before.pem ELSE incoming.pem]}

Or(value, old) == IF value = None THEN old ELSE value

(* A faulty variant: the hosts are not compared.                           *)
RestoreCredsOfAny(url, old) ==
  LET has == {k \in DOMAIN old : old[k].cred # None} IN
  IF url.cred # None \/ has = {} THEN url ELSE [url EXCEPT !.cred = old[Min(has)].cred]

(* restoreURLCreds: the first stored URL of the same host that has         *)
(* credentials.                                                            *)
RestoreCreds(url, old) ==
  LET has == {k \in DOMAIN old : old[k].cred # None /\ old[k].host = url.host} IN
  IF url.cred # None \/ has = {} THEN url ELSE [url EXCEPT !.cred = old[Min(has)].cred]

(* Bearer tokens by the bridge's name, the last stored one.                *)
RestoreToken(bridge, old) ==
  LET has == {k \in DOMAIN old : old[k].token # None /\ old[k].name = bridge.name} IN
  IF bridge.token # None \/ has = {} THEN bridge
  ELSE [bridge EXCEPT !.token = old[Max(has)].token]

MergedNats(nats, old) ==
  IF nats = None \/ old = None THEN nats
  ELSE [nats EXCEPT !.password = Or(@, old.password), !.token = Or(@, old.token),
                    !.nkey = Or(@, old.nkey), !.creds = Or(@, old.creds)]

(* mergeClusterSecrets of a request whose TLS options are those.           *)
MergedRow(r, old, tls, natsTLS) ==
  [servers |-> [i \in DOMAIN r.servers |-> RestoreCreds(r.servers[i], old.servers)],
   bridges |-> [i \in DOMAIN r.bridges |-> RestoreToken(r.bridges[i], old.bridges)],
   tls |-> tls,
   nats |-> IF r.nats = None THEN None
            ELSE MergedNats([r.nats EXCEPT !.tls = natsTLS], old.nats)]

NatsTLS(c) == IF c.nats = None THEN None ELSE c.nats.tls

(* sanitizeHostPaths before it: what a request for the cluster old becomes;*)
(* empty when it is refused.                                               *)
Merged(r, old) ==
  {MergedRow(r, old, tls, natsTLS) :
     tls \in SanitizedTLS(r.tls, old.tls),
     natsTLS \in IF r.nats = None THEN {None} ELSE SanitizedTLS(r.nats.tls, NatsTLS(old))}

(* handleUpdateCluster: GetCluster, merge, UpdateCluster, and the running  *)
(* collector follows. A request that is refused changes nothing.           *)
Update(r) ==
  LET old == Resolved(stored) IN
  IF r.servers = <<>> \/ Merged(r, old) = {} THEN UNCHANGED <<stored, live>>
  ELSE /\ stored' \in Merged(r, old) /\ live' = CAOf(stored')
------------------------------------------------------------------------------
(* handleEdit, from the list the page has.                                 *)
HandleEdit(t) ==
  /\ form[t] = None
  /\ form' = [form EXCEPT ![t] = ClusterToForm(Resolved(stored))]
  /\ UNCHANGED <<stored, file, live>>

(* What an administrator can do to one field. A bundle is not typed.       *)
ServerChanges(f) ==
  {[f EXCEPT !.servers = RemoveAt(@, i)] : i \in DOMAIN f.servers}
  \cup {[f EXCEPT !.servers = s] :
          s \in IF Len(f.servers) < MaxList THEN {Append(f.servers, u) : u \in ServerUrl} ELSE {}}

BridgeChanges(f) ==
  {[f EXCEPT !.bridges = RemoveAt(@, i)] : i \in DOMAIN f.bridges}
  \cup {[f EXCEPT !.bridges = s] :
          s \in IF Len(f.bridges) < MaxList THEN {Append(f.bridges, b) : b \in Bridge} ELSE {}}

(* Another type of authentication, another user or another secret.         *)
WithAuth(f, type, secret) ==
  [f EXCEPT !.auth = type, !.secret = secret,
            !.username = IF type = "username_password" THEN Or(secret, f.username)
                         ELSE f.username]

NatsChanges(f) ==
  {[f EXCEPT !.nats = ~@]}
  \cup {WithAuth(f, type, secret) : type \in AuthTypes \ {"none", "creds_file"},
                                   secret \in Maybe(Secrets)}

Changes(f) ==
  UNION {CASE part = "servers" -> ServerChanges(f)
           [] part = "bridges" -> BridgeChanges(f)
           [] part = "tls" -> {[f EXCEPT !.tls = ~@]}
           [] part = "nats" -> NatsChanges(f) : part \in edited}

Edit(t) ==
  /\ form[t] # None /\ \E f \in Changes(form[t]) : form' = [form EXCEPT ![t] = f]
  /\ UNCHANGED <<stored, file, live>>

(* handleSave. A form whose request fails stays open.                      *)
HandleSave(t) ==
  /\ form[t] # None /\ form[t].servers # <<>> /\ Update(FormToRequest(form[t]))
  /\ form' = [form EXCEPT ![t] = None] /\ UNCHANGED file

(* Another client of the API, which sends back what it was shown but may   *)
(* name host paths, or no servers.                                         *)
ApiUpdate(path) ==
  LET r == FormToRequest(ClusterToForm(Resolved(stored))) IN
  /\ \/ Update([r EXCEPT !.servers = <<>>])
     \/ Update([r EXCEPT !.tls = [path |-> path, pem |-> None]])
     \/ r.nats # None /\ Update([r EXCEPT !.nats.tls = [path |-> path, pem |-> None]])
  /\ UNCHANGED <<form, file>>

(* The operator replaces the file on the host.                             *)
ReplaceFile(ca) == file' = ca /\ UNCHANGED <<stored, form, live>>

(* The process restarts: rows are read, their paths resolved.              *)
Restart == live' = CAOf(Resolved(stored)) /\ UNCHANGED <<stored, form, file>>

EditNext ==
  /\ UNCHANGED edited
  /\ \/ \E t \in Tabs : HandleEdit(t) \/ Edit(t) \/ HandleSave(t)
     \/ \E path \in Maybe(Paths) : ApiUpdate(path)
     \/ \E ca \in CAs : ReplaceFile(ca)
     \/ Restart

EditSpec == EditInit /\ [][EditNext]_editVars
------------------------------------------------------------------------------
(* Only a save that the server accepted closes a form.                     *)
Saved(t) == form[t] # None /\ form'[t] = None

(* The credentials of every URL that was not given new ones, if its host   *)
(* is stored once.                                                         *)
CredsKept(t) ==
  \A i \in DOMAIN form[t].servers, j \in DOMAIN stored.servers :
    LET url == form[t].servers[i] IN
    (/\ url.cred = None /\ url.host = stored.servers[j].host
     /\ \A k \in DOMAIN stored.servers \ {j} : stored.servers[k].host # url.host)
    => stored'.servers[i] = stored.servers[j]

(* The bearer token of every bridge, if its name is stored once.           *)
TokensKept(t) ==
  \A i \in DOMAIN form[t].bridges, j \in DOMAIN stored.bridges :
    LET bridge == form[t].bridges[i] IN
    (/\ bridge.token = None /\ bridge.name = stored.bridges[j].name
     /\ \A k \in DOMAIN stored.bridges \ {j} : stored.bridges[k].name # bridge.name)
    => stored'.bridges[i] = stored.bridges[j]

(* The NATS secret, by an edit that leaves NATS alone.                     *)
NatsSecretKept(t) ==
  form[t].nats /\ form[t].secret = None /\ stored.nats # None =>
    \A field \in {"password", "token", "nkey", "creds"} :
      stored'.nats[field] = stored.nats[field]

(* A save keeps the secrets the view does not show, however old the form   *)
(* is and whatever else was added or removed since ("an edit that          *)
(* round-trips a redacted URL keeps its creds").                           *)
SecretsKept ==
  [][\A t \in Tabs :
       Saved(t) => CredsKept(t) /\ TokensKept(t) /\ NatsSecretKept(t)]_editVars

(* The host paths of a row are those of the configuration file, or gone:   *)
(* no request brings in another path, not after any sequence of edits.     *)
HostPathsFixed ==
  LET Configs == {c.cluster : c \in Cases}
      Declared == {c.tls.path : c \in {d \in Configs : d.tls # None}}
        \cup {c.nats.tls.path : c \in {d \in Configs : d.nats # None /\ d.nats.tls # None}} IN
  /\ stored.tls # None => stored.tls.path \in Maybe(Declared)
  /\ stored.nats # None /\ stored.nats.tls # None => stored.nats.tls.path \in Maybe(Declared)
===============================================================================
