------------------------------- MODULE SubsReads -------------------------------
(***************************************************************************)
(* The table of subscriptions of a cluster, internal/api/handlers_env.go:  *)
(* a cache with a time to live (subsCacheData), one fetch for all callers  *)
(* that miss it (subsGroup), and the fetch, which reads the connections of *)
(* every server page by page while clients connect and disconnect.         *)
(*                                                                         *)
(* A connection has one subscription, so that rows stand for connections;  *)
(* of a row set the model keeps its age, the truncated flag, and what is   *)
(* true of it: has it every connection that stayed open (complete), does   *)
(* it lack only servers that failed (excused). Ages are counted as far as  *)
(* they matter; a fetch takes at most Timeout.                             *)
(***************************************************************************)
EXTENDS Integers, Sequences, FiniteSets

CONSTANTS
  Servers,       \* Servers[env]: the monitored servers of a cluster
  Callers,       \* requests in flight
  Absent,          \* no cache entry, no fetch
  SysEnvs,       \* the clusters whose snapshot carries the subscriptions
  SysLimit,      \* the connections of one server in a snapshot
  PageSize,      \* connzPageSize: 1024
  MaxPerServer,  \* connzMaxPerServer: 50000
  MaxRows,       \* maxRows: 50000
  TTL, Timeout,  \* subsCacheTTL: 15 s, connzRequestTimeout: 20 s
  MaxEntries,    \* subsCacheMaxEntries: 50
  Outages,       \* the sets of servers that may not answer
  Initial,       \* the connections each server may have at first
  Churning,      \* the servers whose clients come and go
  MaxCid         \* bound on the connections such a server ever has

VARIABLES
  open,     \* open[srv]: the open connections, by their cid
  nextCid,  \* nextCid[srv]: cids are never used again
  broken,   \* the servers that do not answer
  known,    \* the clusters the manager has
  cache,    \* subsCacheData
  flight,   \* flight[env]: the fetch that is running for the cluster
  pc, env,  \* where the caller is, and the cluster it asks for
  shown     \* the rows the last step has answered with, Absent if it has not

subsVars == <<open, nextCid, broken, known, cache, flight, pc, env, shown>>
world == <<open, nextCid, broken>>
callerVars == <<pc, env>>

Envs == DOMAIN Servers
AllServers == UNION {Servers[e] : e \in Envs}

ASSUME SubsAssumption ==
  /\ PageSize \in Nat \ {0} /\ TTL \in Nat \ {0} /\ Timeout \in Nat \ {0}
  /\ MaxEntries \in Nat \ {0} /\ SysEnvs \subseteq Envs
  /\ Initial \subseteq [AllServers -> SUBSET Nat]
  /\ \A o \in Initial, s \in AllServers : IsFiniteSet(o[s])

Fresh(e) == cache[e] # Absent /\ cache[e].age < TTL

SubsInit ==
  /\ open \in Initial
  /\ nextCid = [s \in AllServers |-> Cardinality(open[s]) + 1]
  /\ broken \in Outages /\ known = Envs
  /\ cache = [e \in Envs |-> Absent] /\ flight = [e \in Envs |-> Absent]
  /\ pc = [c \in Callers |-> "idle"] /\ env = [c \in Callers |-> Absent] /\ shown = Absent
------------------------------------------------------------------------------
(* The servers and the administrator. What a fetch owes (due) is what was  *)
(* open when it began, still is, and was in no page; on a server where a   *)
(* client connects meanwhile it owes nothing.                              *)

Owing(f, s, due) == [f EXCEPT !.due = [@ EXCEPT ![s] = due]]

Connect(s) ==
  /\ s \in Churning /\ nextCid[s] <= MaxCid /\ nextCid' = [nextCid EXCEPT ![s] = @ + 1]
  /\ open' = [open EXCEPT ![s] = @ \cup {nextCid[s]}]
  /\ flight' = [e \in Envs |-> IF flight[e] # Absent /\ s \in Servers[e]
                               THEN Owing(flight[e], s, {}) ELSE flight[e]]
  /\ UNCHANGED <<broken, known, cache, callerVars>> /\ shown' = Absent

Disconnect(s, cid) ==
  /\ s \in Churning /\ cid \in open[s] /\ open' = [open EXCEPT ![s] = @ \ {cid}]
  /\ flight' = [e \in Envs |-> IF flight[e] # Absent /\ s \in Servers[e]
                               THEN Owing(flight[e], s, flight[e].due[s] \ {cid})
                               ELSE flight[e]]
  /\ UNCHANGED <<nextCid, broken, known, cache, callerVars>> /\ shown' = Absent

(* Manager.RemoveEnvironment: what is cached stays cached.                 *)
RemoveEnvironment(e) ==
  /\ e \in known /\ known' = known \ {e}
  /\ UNCHANGED <<world, cache, flight, callerVars>> /\ shown' = Absent
------------------------------------------------------------------------------
(* The answers of a row set, and the cache.                                *)

Answer(rows) ==
  shown' = rows

(* The value of the flight goes to every caller that waits behind it.      *)
AnswerAll(e, rows) ==
  LET waiting == {c \in Callers : pc[c] \in {"waiting", "left"} /\ env[c] = e} IN
  /\ pc' = [c \in Callers |-> IF c \in waiting THEN "idle" ELSE pc[c]]
  /\ IF rows # Absent /\ \E c \in waiting : pc[c] = "waiting"
     THEN Answer(rows) ELSE shown' = Absent
  /\ env' = [c \in Callers |-> IF c \in waiting THEN Absent ELSE env[c]]
  /\ flight' = [flight EXCEPT ![e] = Absent]

(* cacheSubsRows: the oldest entry makes room; of two as old, either one.  *)
CacheRows(e, rows) ==
  LET put == [cache EXCEPT ![e] = rows]
      held == {f \in Envs : put[f] # Absent}
      oldest == {f \in held : \A g \in held : put[g].age <= put[f].age}
  IN IF Cardinality(held) <= MaxEntries THEN cache' = put
     ELSE \E f \in oldest : cache' = [put EXCEPT ![f] = Absent]
------------------------------------------------------------------------------
(* getSubsRows.                                                            *)

(* A faulty variant: a hit starts the time to live again.                  *)
HitRenews(c, e) ==
  /\ pc[c] = "idle" /\ Fresh(e) /\ Answer(cache[e])
  /\ cache' = [cache EXCEPT ![e].age = 0]
  /\ UNCHANGED <<world, known, flight, pc, env>>

Hit(c, e) ==
  /\ pc[c] = "idle" /\ Fresh(e) /\ Answer(cache[e])
  /\ UNCHANGED <<world, known, cache, flight, pc, env>>

Miss(c, e) ==
  /\ pc[c] = "idle" /\ ~Fresh(e)
  /\ pc' = [pc EXCEPT ![c] = "missed"] /\ env' = [env EXCEPT ![c] = e]
  /\ UNCHANGED <<world, known, cache, flight>> /\ shown' = Absent

(* subsGroup.Do: the first caller starts a flight, the others wait for it. *)
Do(c) ==
  /\ pc[c] = "missed" /\ pc' = [pc EXCEPT ![c] = "waiting"]
  /\ LET e == env[c] IN
     flight' = IF flight[e] # Absent THEN flight
               ELSE [flight EXCEPT ![e] =
                 [age |-> 0, fetching |-> FALSE,
                  due    |-> [s \in Servers[e] |-> open[s]],
                  offset |-> [s \in Servers[e] |-> 0],
                  total  |-> [s \in Servers[e] |-> 0],
                  at     |-> [s \in Servers[e] |-> "paging"]]]
  /\ UNCHANGED <<world, known, cache, env>> /\ shown' = Absent

(* A faulty variant: the fetch runs on the context of a request.           *)
LeaveCancels(c) ==
  /\ pc[c] = "waiting" /\ pc' = [pc EXCEPT ![c] = "left"]
  /\ flight' = [flight EXCEPT ![env[c]].at =
                 [s \in DOMAIN @ |-> IF @[s] = "paging" THEN "failed" ELSE @[s]]]
  /\ UNCHANGED <<world, known, cache, env>> /\ shown' = Absent

(* The client disconnects; the fetch is detached from its context.         *)
Leave(c) ==
  /\ pc[c] = "waiting" /\ pc' = [pc EXCEPT ![c] = "left"]
  /\ UNCHANGED <<world, known, cache, flight, env>> /\ shown' = Absent
------------------------------------------------------------------------------
(* loadSubsRows.                                                           *)

(* A request may have populated the cache meanwhile.                       *)
Populated(e) ==
  /\ flight[e] # Absent /\ ~flight[e].fetching /\ Fresh(e)
  /\ AnswerAll(e, cache[e]) /\ UNCHANGED <<world, known, cache>>

(* The snapshot of $SYS, when it has any row.                              *)
HasSnapshotRows(e) == e \in SysEnvs \cap known /\ \E s \in Servers[e] : open[s] # {}

FromSnapshot(e) ==
  /\ flight[e] # Absent /\ ~flight[e].fetching /\ ~Fresh(e) /\ HasSnapshotRows(e)
  /\ LET cut == \E s \in Servers[e] : Cardinality(open[s]) > SysLimit
         rows == [age |-> 0, data |-> 0, flagged |-> cut, complete |-> ~cut,
                  excused |-> TRUE]
     IN CacheRows(e, rows) /\ AnswerAll(e, rows)
  /\ UNCHANGED <<world, known>>

(* No fetcher, no servers: an answer without rows, and nothing is cached.  *)
NotFound(e) ==
  /\ flight[e] # Absent /\ ~flight[e].fetching /\ ~Fresh(e) /\ e \notin known
  /\ AnswerAll(e, Absent) /\ UNCHANGED <<world, known, cache>>

BeginFetch(e) ==
  /\ flight[e] # Absent /\ ~flight[e].fetching /\ ~Fresh(e)
  /\ e \in known /\ ~HasSnapshotRows(e)
  /\ flight' = [flight EXCEPT ![e].fetching = TRUE]
  /\ UNCHANGED <<world, known, cache, callerVars>> /\ shown' = Absent

(* fetchConnzPages: the page at an offset of the list, sorted by cid, and  *)
(* the stop at an empty, a short or the last page and at the bound.        *)
Rank(s, cid) == Cardinality({k \in open[s] : k < cid})

PageOf(s, offset) ==
  {cid \in open[s] : Rank(s, cid) \in offset..(offset + PageSize - 1)}

PageRead(f, s, page) ==
  LET next == f.offset[s] + Cardinality(page)
      last == \/ Cardinality(page) < PageSize \/ next >= Cardinality(open[s])
              \/ next >= MaxPerServer
  IN [age |-> f.age, fetching |-> TRUE, due |-> [f.due EXCEPT ![s] = @ \ page],
      offset |-> [f.offset EXCEPT ![s] = next],
      total |-> [f.total EXCEPT ![s] = IF f.offset[s] = 0 THEN Cardinality(open[s]) ELSE @],
      at |-> [f.at EXCEPT ![s] = IF last THEN "done" ELSE @]]

Paging(e, s) ==
  flight[e] # Absent /\ flight[e].fetching /\ flight[e].at[s] = "paging"

Page(e, s) ==
  /\ Paging(e, s) /\ s \notin broken
  /\ flight' = [flight EXCEPT ![e] = PageRead(@, s, PageOf(s, @.offset[s]))]
  /\ UNCHANGED <<world, known, cache, callerVars>> /\ shown' = Absent

(* A request of the fetch fails, or its deadline is over.                  *)
PageFails(e, s) ==
  /\ Paging(e, s) /\ (s \in broken \/ flight[e].age = Timeout)
  /\ flight' = [flight EXCEPT ![e].at[s] = "failed"]
  /\ UNCHANGED <<world, known, cache, callerVars>> /\ shown' = Absent

(* A faulty variant: the total of a server is not compared.                *)
UncutPages(f, s) == f.offset[s] >= MaxPerServer

(* offset counts the rows that were appended.                              *)
Truncated(f, s) == f.total[s] > f.offset[s] \/ f.offset[s] >= MaxPerServer

RowCount(f, up) == Cardinality(UNION {{<<s, i>> : i \in 1..f.offset[s]} : s \in up})

(* The rows of the servers that answered, and the flag.                    *)
RowsOf(e, f) ==
  LET up == {s \in Servers[e] : f.at[s] = "done"}
      full == RowCount(f, up) >= MaxRows
  IN [age |-> 0, data |-> f.age,
      flagged |-> up # Servers[e] \/ full \/ \E s \in up : Truncated(f, s),
      complete |-> ~full /\ \A s \in Servers[e] : s \in up /\ f.due[s] = {},
      excused |-> Servers[e] \ up \subseteq broken \/ f.age = Timeout]

FetchEnds(e) ==
  /\ flight[e] # Absent /\ flight[e].fetching
  /\ \A s \in Servers[e] : flight[e].at[s] # "paging"
  /\ CacheRows(e, RowsOf(e, flight[e])) /\ AnswerAll(e, RowsOf(e, flight[e]))
  /\ UNCHANGED <<world, known>>

(* Time passes; a fetch ends when its deadline does. Of an entry whose time*)
(* to live is over only that is kept, and the worst is assumed of its rows.*)
Expired == [age |-> TTL, data |-> TTL + Timeout, flagged |-> FALSE, complete |-> FALSE,
            excused |-> FALSE]

Older(entry) ==
  IF entry.age + 1 >= TTL THEN Expired
  ELSE [entry EXCEPT !.age = @ + 1, !.data = @ + 1]

Tick ==
  /\ \A e \in Envs : flight[e] # Absent => flight[e].age < Timeout
  /\ cache' = [e \in Envs |-> IF cache[e] = Absent THEN Absent ELSE Older(cache[e])]
  /\ flight' = [e \in Envs |-> IF flight[e] = Absent THEN Absent
                               ELSE [flight[e] EXCEPT !.age = @ + 1]]
  /\ UNCHANGED <<world, known, callerVars>> /\ shown' = Absent

SubsNext ==
  \/ \E s \in AllServers : Connect(s) \/ \E cid \in open[s] : Disconnect(s, cid)
  \/ \E c \in Callers : Do(c) \/ Leave(c) \/ \E e \in Envs : Hit(c, e) \/ Miss(c, e)
  \/ \E e \in Envs :
       \/ RemoveEnvironment(e) \/ Populated(e) \/ FromSnapshot(e) \/ NotFound(e)
       \/ BeginFetch(e) \/ FetchEnds(e)
       \/ \E s \in Servers[e] : Page(e, s) \/ PageFails(e, s)
  \/ Tick

SubsSpec == SubsInit /\ [][SubsNext]_subsVars
------------------------------------------------------------------------------
(* No request is shown rows from before the last TTL + Timeout, however    *)
(* hits, flights, waiting callers and evictions follow each other.         *)
RowsNotStale == shown # Absent => shown.data < TTL + Timeout

(* "truncated ... true when a server reported more connections than the    *)
(* fetch returned": an answer without the flag has every connection that   *)
(* stayed open during the fetch, although others were closed between two   *)
(* pages, on every server where none was opened meanwhile.                 *)
CompleteOrFlagged == shown # Absent => shown.flagged \/ shown.complete

(* An answer lacks a server only when that server or the fetch ran out of  *)
(* time, never because a caller left ("Using the winner's request context  *)
(* would let one client disconnecting cancel the fetch for every caller    *)
(* waiting behind it, and poison the cache").                             *)
NotPoisoned == shown # Absent => shown.excused
==============================================================================
