----------------------------- MODULE LoginLimiter -----------------------------
(***************************************************************************)
(* LoginRateLimiter of internal/auth/ratelimit.go: login attempts per      *)
(* client address. Every operation holds the mutex, so it is an operator   *)
(* on the table: it returns the next table, or the set of the next tables  *)
(* there may be. LoginGate has one table for the ordered route and one for *)
(* the local route. An attempt is its age in ticks; ages above Window are  *)
(* equal to the code, so they stop at Window + 1.                          *)
(***************************************************************************)
EXTENDS Integers, FiniteSets, FiniteSetsExt, Sequences

CONSTANTS
  Window,   \* the window, in ticks
  Limit,    \* rl.max
  MaxKeys   \* rl.maxKeys

ASSUME LimiterAssumption == Window \in Nat /\ {Limit, MaxKeys} \subseteq Nat \ {0}

(* A table: the attempts of each client, oldest first; none: no key.       *)
Ages == 0..(Window + 1)
IsTable(table, clients) ==
  table \in [clients -> Seq(Ages)] /\ \A k \in clients : Len(table[k]) <= Limit

NewTable(clients) == [k \in clients |-> <<>>]

(* What is left of a list when its expired beginning is cut.               *)
LiveAt(list) == {i \in DOMAIN list : list[i] <= Window}
Live(list) ==
  IF LiveAt(list) = {} THEN <<>> ELSE SubSeq(list, Min(LiveAt(list)), Len(list))

Blocked(list) == Len(Live(list)) >= Limit

Keys(table) == {k \in DOMAIN table : table[k] # <<>>}
LastOf(list) == list[Len(list)]
Expired(table) == {k \in Keys(table) : LastOf(table[k]) > Window}

(* The clients shed of those that may be, the least recently active first. *)
Shed(table, evictable, count) ==
  {shed \in SUBSET evictable :
     /\ Cardinality(shed) = Min({count, Cardinality(evictable)})
     /\ \A k \in shed, j \in evictable \ shed : LastOf(table[k]) >= LastOf(table[j])}

ToDrop(kept) ==
  IF Cardinality(kept) < MaxKeys THEN 0
  ELSE Cardinality(kept) - MaxKeys + MaxKeys \div 10 + 1

(* A faulty variant: clients at their limit go as well.                    *)
EvictStaleAny(table) ==
  LET kept == Keys(table) \ Expired(table) IN
  {Expired(table) \cup shed : shed \in Shed(table, kept, ToDrop(kept))}

(* evictStaleLocked: the expired clients go; if the table is still full,   *)
(* so do the least recently active ones that are not at their limit.       *)
EvictStale(table) ==
  LET kept == Keys(table) \ Expired(table)
      evictable == {k \in kept : Cardinality(LiveAt(table[k])) < Limit} IN
  {Expired(table) \cup shed : shed \in Shed(table, evictable, ToDrop(kept))}

(* Who goes when a client tries.                                           *)
Evicted(table, k) ==
  IF table[k] = <<>> /\ Cardinality(Keys(table)) >= MaxKeys THEN EvictStale(table) ELSE {{}}

(* A faulty variant: a rejected attempt counts as well.                    *)
AdmitRecordsRejected(recent) ==
  IF Len(recent) >= Limit THEN Append(Tail(recent), 0) ELSE Append(recent, 0)

(* An attempt within the limit is recorded.                                *)
Admit(recent) == IF Len(recent) >= Limit THEN recent ELSE Append(recent, 0)

Allow(table, k) ==
  {[c \in DOMAIN table |-> IF c = k THEN Admit(Live(table[k]))
                           ELSE IF c \in gone THEN <<>> ELSE table[c]] :
   gone \in Evicted(table, k)}

(* cleanup, every five minutes.                                            *)
Prune(table) == [k \in DOMAIN table |-> Live(table[k])]

(* Time passes.                                                            *)
Older(age) == IF age > Window THEN age ELSE age + 1
Aged(table) == [k \in DOMAIN table |-> [i \in DOMAIN table[k] |-> Older(table[k][i])]]
===============================================================================
