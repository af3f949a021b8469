------------------------------ MODULE LoginProofs -----------------------------
(***************************************************************************)
(* LoginGate for any addresses, any limits, windows and sizes of a table,  *)
(* and any finite number of logins in flight: only time unblocks a client, *)
(* and the lockout counts every failure.                                   *)
(***************************************************************************)
EXTENDS LoginGate, FiniteSetTheorems, SequenceTheorems, WellFoundedInduction, TLAPS

(* Some element of a set of numbers is the least, some element of a set    *)
(* with a bound is the greatest.                                           *)
LEMMA Least ==
  ASSUME NEW T \in SUBSET Nat, T # {}
  PROVE  Min(T) \in T /\ \A y \in T : Min(T) <= y
<1> DEFINE Less == OpToRel(<, Nat)
<1>1. \E x \in T : \A y \in T : ~ (<<y, x>> \in Less)
  <2>1. IsWellFoundedOn(Less, Nat)
    BY NatLessThanWellFounded
  <2> HIDE DEF Less
  <2> QED
    BY <2>1, WFMin
<1>2. \A y, x \in Nat : y < x => <<y, x>> \in Less
  BY DEF OpToRel
<1> HIDE DEF Less
<1>3. PICK x \in T : \A y \in T : ~ (<<y, x>> \in Less)
  BY <1>1
<1>4. ASSUME NEW y \in T PROVE x <= y
  <2>1. ~(y < x)
    BY <1>2, <1>3
  <2> QED
    BY <2>1
<1> QED
  BY <1>4 DEF Min

LEMMA Greatest ==
  ASSUME NEW n \in Nat, NEW T \in SUBSET (0..n), T # {}
  PROVE  Max(T) \in T /\ \A y \in T : y <= Max(T)
<1> DEFINE Below == {n - y : y \in T}
<1>1. Below \in SUBSET Nat /\ Below # {}
  <2>1. \A y \in T : y \in Nat /\ y <= n
    OBVIOUS
  <2>2. \A y \in T : n - y \in Nat
    BY <2>1
  <2> QED
    BY <2>2
<1>2. Min(Below) \in Below /\ \A z \in Below : Min(Below) <= z
  BY <1>1, Least
<1>3. PICK x \in T : Min(Below) = n - x
  BY <1>2
<1>4. ASSUME NEW y \in T PROVE y <= x
  <2>1. n - y \in Below /\ y \in Nat /\ x \in Nat
    OBVIOUS
  <2>2. n - x <= n - y
    BY <1>2, <1>3, <2>1
  <2> QED
    BY <2>1, <2>2
<1> QED
  BY <1>3, <1>4 DEF Max
------------------------------------------------------------------------------
(* The lists of a limiter: attempts in the order they were made, no more   *)
(* than the limit.                                                         *)
OldestFirst(list) == \A i, j \in 1..Len(list) : i <= j => list[i] >= list[j]
IsList(list) == list \in Seq(Ages) /\ Len(list) <= Limit /\ OldestFirst(list)
Recorded(table, clients) == table \in [clients -> Seq(Ages)] /\ \A k \in clients : IsList(table[k])

LEMMA Constants == Window \in Nat /\ Limit \in Nat \ {0} /\ MaxKeys \in Nat \ {0}
BY LimiterAssumption

(* What is cut off are the expired attempts.                               *)
LEMMA LiveList ==
  ASSUME NEW list, IsList(list)
  PROVE  /\ IsList(Live(list)) /\ \A i \in 1..Len(Live(list)) : Live(list)[i] <= Window
         /\ Len(Live(list)) = Cardinality(LiveAt(list))
         /\ Live(list) # <<>> => list # <<>> /\ LastOf(list) <= Window
<1>1. /\ list \in Seq(Ages) /\ Len(list) \in Nat /\ DOMAIN list = 1..Len(list)
      /\ \A i \in 1..Len(list) : list[i] \in Ages
      /\ Window \in Nat /\ Limit \in Nat
  BY Constants, LenProperties, ElementOfSeq DEF IsList
<1>2. CASE LiveAt(list) = {}
  <2>1. Live(list) = <<>> /\ Len(<<>>) = 0 /\ <<>> \in Seq(Ages)
    BY <1>2 DEF Live
  <2>2. Cardinality(LiveAt(list)) = 0
    BY <1>2, FS_EmptySet
  <2> QED
    BY <1>1, <2>1, <2>2 DEF IsList, OldestFirst
<1>3. CASE LiveAt(list) # {}
  <2> DEFINE m == Min(LiveAt(list))
  <2>1. m \in LiveAt(list) /\ \A i \in LiveAt(list) : m <= i
    <3>1. LiveAt(list) \in SUBSET Nat
      BY <1>1 DEF LiveAt
    <3> QED
      BY <1>3, <3>1, Least
  <2>2. m \in 1..Len(list) /\ list[m] <= Window
    BY <1>1, <2>1 DEF LiveAt
  <2> HIDE DEF m
  <2>3. \A i \in m..Len(list) : list[i] <= list[m] /\ list[i] <= Window
    BY <1>1, <2>2 DEF IsList, OldestFirst, Ages
  <2>4. LiveAt(list) = m..Len(list)
    <3>1. \A i \in m..Len(list) : i \in LiveAt(list)
      BY <1>1, <2>2, <2>3 DEF LiveAt
    <3>2. \A i \in LiveAt(list) : i \in m..Len(list)
      BY <1>1, <2>1, <2>2 DEF LiveAt
    <3> QED
      BY <3>1, <3>2
  <2>5. Live(list) = SubSeq(list, m, Len(list))
    BY <1>3 DEF Live, m
  <2>6. /\ Live(list) \in Seq(Ages) /\ Len(Live(list)) = Len(list) - m + 1
        /\ \A i \in 1..(Len(list) - m + 1) : Live(list)[i] = list[m + i - 1]
    BY <1>1, <2>2, <2>5, SubSeqProperties
  <2>7. IsList(Live(list)) /\ \A i \in 1..Len(Live(list)) : Live(list)[i] <= Window
    <3>1. Len(Live(list)) <= Limit
      BY <1>1, <2>2, <2>6 DEF IsList
    <3>2. ASSUME NEW i \in 1..Len(Live(list)), NEW j \in 1..Len(Live(list)), i <= j
          PROVE  Live(list)[i] >= Live(list)[j] /\ Live(list)[i] <= Window
      <4>1. /\ m + i - 1 \in m..Len(list) /\ m + j - 1 \in m..Len(list)
            /\ m + i - 1 <= m + j - 1
            /\ Live(list)[i] = list[m + i - 1] /\ Live(list)[j] = list[m + j - 1]
        BY <1>1, <2>2, <2>6, <3>2
      <4>2. m + i - 1 \in 1..Len(list) /\ m + j - 1 \in 1..Len(list)
        BY <1>1, <2>2, <4>1
      <4> QED
        BY <2>3, <4>1, <4>2 DEF IsList, OldestFirst
    <3>3. \A i \in 1..Len(Live(list)) : i <= i
      OBVIOUS
    <3> QED
      BY <2>6, <3>1, <3>2, <3>3 DEF IsList, OldestFirst
  <2>8. Cardinality(LiveAt(list)) = Len(list) - m + 1
    BY <1>1, <2>2, <2>4, FS_Interval
  <2>9. list # <<>> /\ LastOf(list) <= Window
    BY <1>1, <2>2, <2>3 DEF LastOf
  <2> QED
    BY <2>6, <2>7, <2>8, <2>9
<1> QED
  BY <1>2, <1>3

(* A list without expired attempts is left as it is.                       *)
LEMMA LiveOfLive ==
  ASSUME NEW list, IsList(list), \A i \in 1..Len(list) : list[i] <= Window
  PROVE  Live(list) = list
<1>1. list \in Seq(Ages) /\ Len(list) \in Nat /\ DOMAIN list = 1..Len(list)
  BY LenProperties DEF IsList
<1>2. LiveAt(list) = 1..Len(list)
  BY <1>1 DEF LiveAt
<1>3. CASE Len(list) = 0
  <2>1. list = <<>> /\ LiveAt(list) = {}
    BY <1>1, <1>2, <1>3, EmptySeq
  <2> QED
    BY <2>1 DEF Live
<1>4. CASE Len(list) > 0
  <2>1. LiveAt(list) # {} /\ LiveAt(list) \in SUBSET Nat /\ 1 \in LiveAt(list)
    BY <1>1, <1>2, <1>4
  <2>2. Min(LiveAt(list)) = 1
    BY <1>1, <1>2, <2>1, Least
  <2>3. Live(list) = SubSeq(list, 1, Len(list))
    BY <2>1, <2>2 DEF Live
  <2>4. SubSeq(list, 1, Len(list)) = list
    BY <1>1, SubSeqFull
  <2> QED
    BY <2>3, <2>4
<1> QED
  BY <1>1, <1>3, <1>4
------------------------------------------------------------------------------
(* One attempt at a limiter: whoever is at the limit stays at it.          *)

LEMMA Admitted ==
  ASSUME NEW list, IsList(list)
  PROVE  /\ IsList(Admit(Live(list)))
         /\ Blocked(list) => Blocked(Admit(Live(list)))
<1> DEFINE live == Live(list)
<1>1. /\ IsList(live) /\ \A i \in 1..Len(live) : live[i] <= Window
      /\ live \in Seq(Ages) /\ Len(live) \in Nat /\ Limit \in Nat
      /\ \A i \in 1..Len(live) : live[i] \in Ages
  BY LiveList, Constants, LenProperties, ElementOfSeq DEF IsList
<1> HIDE DEF live
<1>2. CASE Len(live) >= Limit
  <2>1. Admit(live) = live /\ Live(live) = live
    BY <1>1, <1>2, LiveOfLive DEF Admit
  <2> QED
    BY <1>1, <1>2, <2>1 DEF Blocked, live
<1>3. CASE ~(Len(live) >= Limit)
  <2>1. Admit(live) = Append(live, 0)
    BY <1>3 DEF Admit
  <2>2. 0 \in Ages
    BY Constants DEF Ages
  <2>3. /\ Append(live, 0) \in Seq(Ages) /\ Len(Append(live, 0)) = Len(live) + 1
        /\ \A i \in 1..Len(live) : Append(live, 0)[i] = live[i]
        /\ Append(live, 0)[Len(live) + 1] = 0
    BY <1>1, <2>2, AppendProperties
  <2>4. ASSUME NEW i \in 1..(Len(live) + 1), NEW j \in 1..(Len(live) + 1), i <= j
        PROVE  Append(live, 0)[i] >= Append(live, 0)[j]
    <3>1. CASE j <= Len(live)
      <4>1. i \in 1..Len(live) /\ j \in 1..Len(live)
        BY <1>1, <2>4, <3>1
      <4> QED
        BY <1>1, <2>3, <2>4, <4>1 DEF IsList, OldestFirst
    <3>2. CASE j = Len(live) + 1
      <4>1. CASE i = Len(live) + 1
        BY <2>3, <3>2, <4>1
      <4>2. CASE i \in 1..Len(live)
        BY <1>1, <2>3, <3>2, <4>2 DEF Ages
      <4> QED
        BY <1>1, <2>4, <4>1, <4>2
    <3> QED
      BY <1>1, <2>4, <3>1, <3>2
  <2>5. Len(Append(live, 0)) <= Limit
    BY <1>1, <1>3, <2>3
  <2>6. IsList(Append(live, 0))
    BY <2>3, <2>4, <2>5 DEF IsList, OldestFirst
  <2>7. ~Blocked(list)
    BY <1>3 DEF Blocked, live
  <2> QED
    BY <2>1, <2>6, <2>7 DEF live
<1> QED
  BY <1>2, <1>3 DEF live

(* evictStaleLocked drops no client at its limit.                          *)
LEMMA BlockedStays ==
  ASSUME NEW clients, NEW table, Recorded(table, clients), NEW k \in clients,
         NEW gone \in Evicted(table, k), NEW c \in clients, Blocked(table[c])
  PROVE  c \notin gone
<1>1. /\ IsList(table[c]) /\ Live(table[c]) # <<>> /\ LastOf(table[c]) <= Window
      /\ Cardinality(LiveAt(table[c])) >= Limit
  <2>1. IsList(table[c])
    BY DEF Recorded
  <2>2. Len(Live(table[c])) >= Limit /\ Limit > 0
    BY Constants DEF Blocked
  <2>3. Len(Live(table[c])) \in Nat /\ Len(<<>>) = 0
    BY <2>1, LiveList, LenProperties DEF IsList
  <2>4. Live(table[c]) # <<>>
    BY <2>2, <2>3, Constants
  <2> QED
    BY <2>1, <2>2, <2>4, LiveList
<1>2. CASE gone = {}
  BY <1>2
<1>3. CASE gone \in EvictStale(table)
  <2> DEFINE kept == Keys(table) \ Expired(table)
             evictable == {d \in kept : Cardinality(LiveAt(table[d])) < Limit}
  <2>1. PICK shed \in SUBSET evictable : gone = Expired(table) \cup shed
    BY <1>3 DEF EvictStale, Shed
  <2>2. c \notin Expired(table)
    <3>1. table[c] \in Seq(Ages) /\ table[c] # <<>>
      BY <1>1, LiveList DEF IsList
    <3>2. LastOf(table[c]) \in Ages
      BY <3>1, EmptySeq, LenProperties, ElementOfSeq DEF LastOf
    <3> QED
      BY <1>1, <3>2, Constants DEF Expired, Ages
  <2>3. c \notin evictable
    <3>1. Cardinality(LiveAt(table[c])) = Len(Live(table[c])) /\ Live(table[c]) \in Seq(Ages)
      BY <1>1, LiveList DEF IsList
    <3>2. ~(Cardinality(LiveAt(table[c])) < Limit)
      BY <1>1, <3>1, LenProperties, Constants
    <3> QED
      BY <3>2
  <2> QED
    BY <2>1, <2>2, <2>3
<1> QED
  BY <1>2, <1>3 DEF Evicted

LEMMA Empty == IsList(<<>>)
<1>1. <<>> \in Seq(Ages) /\ Len(<<>>) = 0
  OBVIOUS
<1> QED
  BY <1>1, Constants DEF IsList, OldestFirst

LEMMA Allowed ==
  ASSUME NEW clients, NEW table, Recorded(table, clients), NEW k \in clients,
         NEW next \in Allow(table, k)
  PROVE  /\ Recorded(next, clients)
         /\ \A c \in clients : Blocked(table[c]) => Blocked(next[c])
<1>1. DOMAIN table = clients /\ \A c \in clients : IsList(table[c])
  BY DEF Recorded
<1>2. PICK gone \in Evicted(table, k) :
        next = [c \in clients |-> IF c = k THEN Admit(Live(table[k]))
                                  ELSE IF c \in gone THEN <<>> ELSE table[c]]
  BY <1>1 DEF Allow
<1>3. ASSUME NEW c \in clients
      PROVE  IsList(next[c]) /\ (Blocked(table[c]) => Blocked(next[c]))
  <2>1. CASE c = k
    BY <1>1, <1>2, <2>1, Admitted
  <2>2. CASE c # k /\ c \in gone
    BY <1>2, <2>2, Empty, BlockedStays
  <2>3. CASE c # k /\ c \notin gone
    BY <1>1, <1>2, <2>3
  <2> QED
    BY <2>1, <2>2, <2>3
<1>4. next \in [clients -> Seq(Ages)]
  BY <1>2, <1>3 DEF IsList
<1> QED
  BY <1>3, <1>4 DEF Recorded

LEMMA Pruned ==
  ASSUME NEW clients, NEW table, Recorded(table, clients)
  PROVE  /\ Recorded(Prune(table), clients)
         /\ \A c \in clients : Blocked(table[c]) => Blocked(Prune(table)[c])
<1>1. /\ \A c \in clients : IsList(table[c])
      /\ Prune(table) = [c \in clients |-> Live(table[c])]
  BY DEF Recorded, Prune
<1>2. ASSUME NEW c \in clients
      PROVE  /\ IsList(Live(table[c])) /\ Live(table[c]) \in Seq(Ages)
             /\ Live(Live(table[c])) = Live(table[c])
  BY <1>1, LiveList, LiveOfLive DEF IsList
<1> QED
  BY <1>1, <1>2 DEF Recorded, Blocked

LEMMA GetsOlder ==
  ASSUME NEW clients, NEW table, Recorded(table, clients)
  PROVE  Recorded(Aged(table), clients)
<1>1. Aged(table) = [c \in clients |-> [i \in DOMAIN table[c] |-> Older(table[c][i])]]
  BY DEF Recorded, Aged
<1>2. ASSUME NEW c \in clients PROVE IsList(Aged(table)[c])
  <2> DEFINE list == table[c]
             aged == [i \in 1..Len(list) |-> Older(list[i])]
  <2>1. /\ IsList(list) /\ list \in Seq(Ages) /\ Len(list) \in Nat /\ DOMAIN list = 1..Len(list)
        /\ \A i \in 1..Len(list) : list[i] \in Ages
    BY LenProperties, ElementOfSeq DEF Recorded, IsList
  <2>2. Aged(table)[c] = aged
    BY <1>1, <2>1
  <2> HIDE DEF list
  <2>3. \A a \in Ages : Older(a) \in Ages
    BY Constants DEF Older, Ages
  <2>4. aged \in Seq(Ages) /\ Len(aged) = Len(list)
    BY <2>1, <2>3, IsASeq
  <2>5. \A a, b \in Ages : a >= b => Older(a) >= Older(b)
    BY Constants DEF Older, Ages
  <2>6. \A i, j \in 1..Len(list) : i <= j => aged[i] >= aged[j]
    BY <2>1, <2>5 DEF IsList, OldestFirst
  <2> HIDE DEF aged
  <2> QED
    BY <2>1, <2>2, <2>4, <2>6 DEF IsList, OldestFirst
<1>3. Aged(table) \in [clients -> Seq(Ages)]
  <2>1. \A c \in clients : Aged(table)[c] \in Seq(Ages)
    BY <1>2 DEF IsList
  <2> QED
    BY <1>1, <2>1
<1> QED
  BY <1>2, <1>3 DEF Recorded
------------------------------------------------------------------------------
(* The lockout. Logins that compare a password were let in while the count *)
(* was below the policy, or after the last failure stopped counting.       *)
Verifying == {l \in Logins : login[l] = "verify"}

LatestFirst == \A i, j \in 1..Len(recent) : i <= j => recent[i] <= recent[j]

CountedInv ==
  /\ Len(recent) + Cardinality(Verifying) < MaxFailed + Cardinality(Logins)
  /\ failed < MaxFailed => Len(recent) <= failed
  /\ \A i \in 1..Len(recent) : stamp <= recent[i]

AccountInv == AccountTypeOK /\ LatestFirst /\ CountedInv

IInv == Recorded(ordered, Clients) /\ Recorded(local, LocalClients) /\ AccountInv

LEMMA Policy ==
  /\ MaxFailed \in Nat \ {0} /\ Lock \in Nat \ {0}
  /\ IsFiniteSet(Logins) /\ Cardinality(Logins) \in Nat
BY LockoutAssumption, FS_CardinalityType

LEMMA Failures ==
  ASSUME AccountInv
  PROVE  /\ recent \in Seq(0..(Lock - 1)) /\ Len(recent) \in Nat /\ DOMAIN recent = 1..Len(recent)
         /\ \A i \in 1..Len(recent) : recent[i] \in 0..(Lock - 1)
         /\ IsFiniteSet(Verifying) /\ Cardinality(Verifying) \in Nat
         /\ Cardinality(Verifying) <= Cardinality(Logins)
         /\ ~Locked => Len(recent) < MaxFailed
<1>1. /\ recent \in Seq(0..(Lock - 1)) /\ Len(recent) \in Nat /\ DOMAIN recent = 1..Len(recent)
      /\ \A i \in 1..Len(recent) : recent[i] \in 0..(Lock - 1)
  BY LenProperties, ElementOfSeq DEF AccountInv, AccountTypeOK
<1>2. /\ IsFiniteSet(Verifying) /\ Cardinality(Verifying) \in Nat
      /\ Cardinality(Verifying) <= Cardinality(Logins)
  <2>1. Verifying \subseteq Logins
    BY DEF Verifying
  <2> QED
    BY <2>1, Policy, FS_Subset, FS_CardinalityType
<1>3. ASSUME ~Locked PROVE Len(recent) < MaxFailed
  <2>1. failed \in Nat /\ stamp \in 0..Lock
    BY DEF AccountInv, AccountTypeOK
  <2>2. CASE failed < MaxFailed
    BY <1>1, <2>1, <2>2, Policy DEF AccountInv, CountedInv
  <2>3. CASE ~(stamp < Lock)
    <3>1. \A i \in 1..Len(recent) : FALSE
      BY <1>1, <2>1, <2>3, Policy DEF AccountInv, CountedInv
    <3> QED
      BY <1>1, <3>1, Policy
  <2> QED
    BY <1>3, <2>1, <2>2, <2>3, Policy DEF Locked
<1> QED
  BY <1>1, <1>2, <1>3

(* A login that moves to "verify" is one more, one that leaves it one less.*)
LEMMA Moved ==
  ASSUME AccountInv, NEW l \in Logins, NEW from, NEW to, Moves(l, from, to),
         to \in {"idle", "provider", "read", "verify"}, from # to
  PROVE  /\ login' \in [Logins -> {"idle", "provider", "read", "verify"}]
         /\ to = "verify" => Cardinality(Verifying') = Cardinality(Verifying) + 1
         /\ from = "verify" => Cardinality(Verifying') = Cardinality(Verifying) - 1
         /\ from # "verify" /\ to # "verify" => Verifying' = Verifying
         /\ Cardinality(Verifying') <= Cardinality(Logins)
<1>1. /\ login \in [Logins -> {"idle", "provider", "read", "verify"}]
      /\ login[l] = from /\ login' = [login EXCEPT ![l] = to]
  BY DEF AccountInv, AccountTypeOK, Moves
<1>2. login' \in [Logins -> {"idle", "provider", "read", "verify"}]
  BY <1>1
<1>3. /\ \A k \in Logins : k # l => login'[k] = login[k]
      /\ login'[l] = to
  BY <1>1
<1>4. Verifying' = {k \in Logins : login'[k] = "verify"}
  BY DEF Verifying
<1>5. CASE to = "verify"
  <2>1. l \notin Verifying /\ Verifying' = Verifying \cup {l}
    BY <1>1, <1>3, <1>4, <1>5 DEF Verifying
  <2> QED
    BY <1>2, <1>4, <1>5, <2>1, Failures, FS_AddElement, FS_Subset, Policy
<1>6. CASE from = "verify"
  <2>1. l \in Verifying /\ Verifying' = Verifying \ {l}
    BY <1>1, <1>3, <1>4, <1>6 DEF Verifying
  <2> QED
    BY <1>2, <1>4, <1>6, <2>1, Failures, FS_RemoveElement, FS_Subset, Policy
<1>7. CASE from # "verify" /\ to # "verify"
  <2>1. Verifying' = Verifying
    BY <1>1, <1>3, <1>4, <1>7 DEF Verifying
  <2> QED
    BY <1>2, <1>7, <2>1, Failures
<1> QED
  BY <1>2, <1>5, <1>6, <1>7

(* Steps that only move a login.                                           *)
LEMMA Waits ==
  ASSUME AccountInv, NEW l \in Logins, NEW first \in {"provider", "read"},
         Attempt(l, first) \/ AuthenticatePassword(l) \/ ReadRow(l)
  PROVE  AccountInv'
<1>1. UNCHANGED <<failed, stamp, recent>>
  BY DEF Attempt, AuthenticatePassword, ReadRow
<1>2. /\ login' \in [Logins -> {"idle", "provider", "read", "verify"}]
      /\ Len(recent) + Cardinality(Verifying') < MaxFailed + Cardinality(Logins)
  <2>1. CASE \E from, to \in {"idle", "provider", "read"} : from # to /\ Moves(l, from, to)
    <3>1. Verifying' = Verifying /\ login' \in [Logins -> {"idle", "provider", "read", "verify"}]
      BY <2>1, Moved
    <3> QED
      BY <3>1 DEF AccountInv, CountedInv
  <2>2. CASE Moves(l, "read", "verify") /\ ~Locked
    <3>1. /\ Cardinality(Verifying') = Cardinality(Verifying) + 1
          /\ Cardinality(Verifying') <= Cardinality(Logins)
          /\ login' \in [Logins -> {"idle", "provider", "read", "verify"}]
      BY <2>2, Moved
    <3> QED
      BY <2>2, <3>1, Failures, Policy
  <2> QED
    BY <2>1, <2>2 DEF Attempt, AuthenticatePassword, ReadRow
<1>3. AccountTypeOK'
  BY <1>1, <1>2 DEF AccountInv, AccountTypeOK
<1>4. LatestFirst' /\ CountedInv'
  BY <1>1, <1>2 DEF AccountInv, LatestFirst, CountedInv
<1> QED
  BY <1>3, <1>4 DEF AccountInv

LEMMA Failure == ASSUME AccountInv, NEW l \in Logins, RecordFailure(l) PROVE AccountInv'
<1>1. /\ Cardinality(Verifying') = Cardinality(Verifying) - 1
      /\ login' \in [Logins -> {"idle", "provider", "read", "verify"}]
  BY Moved DEF RecordFailure
<1>2. /\ recent \in Seq(0..(Lock - 1)) /\ Len(recent) \in Nat
      /\ \A i \in 1..Len(recent) : recent[i] \in 0..(Lock - 1)
      /\ Cardinality(Verifying) \in Nat
  BY Failures
<1>3. CASE UNCHANGED <<failed, stamp, recent>>
  BY <1>1, <1>2, <1>3, Policy DEF AccountInv, AccountTypeOK, LatestFirst, CountedInv
<1>4. CASE failed' = More(failed) /\ stamp' = 0 /\ recent' = <<0>> \o recent
  <2>1. /\ recent' \in Seq(0..(Lock - 1)) /\ Len(recent') = Len(recent) + 1
        /\ recent'[1] = 0 /\ \A i \in 2..(Len(recent) + 1) : recent'[i] = recent[i - 1]
    <3>1. <<0>> \in Seq(0..(Lock - 1)) /\ Len(<<0>>) = 1 /\ <<0>>[1] = 0
      BY Policy
    <3>2. /\ recent' \in Seq(0..(Lock - 1)) /\ Len(recent') = 1 + Len(recent)
          /\ \A i \in 1..(1 + Len(recent)) :
               recent'[i] = IF i <= 1 THEN <<0>>[i] ELSE recent[i - 1]
      BY <1>2, <1>4, <3>1, ConcatProperties
    <3> QED
      BY <1>2, <3>1, <3>2
  <2>2. AccountTypeOK'
    BY <1>1, <1>4, <2>1, Policy DEF AccountInv, AccountTypeOK, More
  <2>3. LatestFirst'
    <3>1. ASSUME NEW i \in 1..(Len(recent) + 1), NEW j \in 1..(Len(recent) + 1), i <= j
          PROVE  recent'[i] <= recent'[j]
      <4>1. CASE i = 1
        <5>1. recent'[j] \in 0..(Lock - 1)
          BY <1>2, <2>1, ElementOfSeq
        <5> QED
          BY <2>1, <4>1, <5>1, Policy
      <4>2. CASE i # 1
        <5>1. /\ i - 1 \in 1..Len(recent) /\ j - 1 \in 1..Len(recent) /\ i - 1 <= j - 1
              /\ recent'[i] = recent[i - 1] /\ recent'[j] = recent[j - 1]
          BY <1>2, <2>1, <3>1, <4>2
        <5> QED
          BY <5>1 DEF AccountInv, LatestFirst
      <4> QED
        BY <4>1, <4>2
    <3> QED
      BY <2>1, <3>1 DEF LatestFirst
  <2>4. CountedInv'
    <3>1. Len(recent') + Cardinality(Verifying') < MaxFailed + Cardinality(Logins)
      BY <1>1, <1>2, <2>1, Policy DEF AccountInv, CountedInv
    <3>2. failed' < MaxFailed => Len(recent') <= failed'
      BY <1>2, <1>4, <2>1, Policy DEF AccountInv, AccountTypeOK, CountedInv, More
    <3>3. \A i \in 1..Len(recent') : recent'[i] >= 0
      <4>1. recent' \in Seq(0..(Lock - 1))
        BY <2>1
      <4> QED
        BY <4>1, ElementOfSeq, Policy
    <3>4. \A i \in 1..Len(recent') : stamp' <= recent'[i]
      BY <1>4, <3>3
    <3> QED
      BY <3>1, <3>2, <3>4 DEF CountedInv
  <2> QED
    BY <2>2, <2>3, <2>4 DEF AccountInv
<1> QED
  BY <1>3, <1>4 DEF RecordFailure

LEMMA Success == ASSUME AccountInv, NEW l \in Logins, RecordSuccess(l) PROVE AccountInv'
<1>1. /\ Cardinality(Verifying') = Cardinality(Verifying) - 1
      /\ login' \in [Logins -> {"idle", "provider", "read", "verify"}]
  BY Moved DEF RecordSuccess
<1>2. /\ Len(recent) \in Nat /\ Cardinality(Verifying) \in Nat
      /\ Cardinality(Verifying) <= Cardinality(Logins)
  BY Failures
<1>3. CASE UNCHANGED <<failed, stamp, recent>>
  BY <1>1, <1>2, <1>3, Policy DEF AccountInv, AccountTypeOK, LatestFirst, CountedInv
<1>4. CASE failed' = 0 /\ recent' = <<>> /\ stamp' = stamp
  <2>1. Len(recent') = 0 /\ recent' \in Seq(0..(Lock - 1))
    BY <1>4
  <2> QED
    BY <1>1, <1>2, <1>4, <2>1, Policy
    DEF AccountInv, AccountTypeOK, LatestFirst, CountedInv
<1> QED
  BY <1>3, <1>4 DEF RecordSuccess

(* The failures that still count are the first ones.                       *)
LEMMA AccountAges == ASSUME AccountInv, AccountTick PROVE AccountInv'
<1> DEFINE old == {0} \cup {i \in DOMAIN recent : recent[i] < Lock - 1}
           n == Max(old)
<1>1. /\ Len(recent) \in Nat /\ DOMAIN recent = 1..Len(recent)
      /\ \A i \in 1..Len(recent) : recent[i] \in 0..(Lock - 1)
      /\ Cardinality(Verifying) \in Nat /\ Lock \in Nat \ {0}
  BY Failures, Policy
<1>2. n \in old /\ n \in 0..Len(recent)
  <2>1. old \in SUBSET (0..Len(recent)) /\ old # {}
    BY <1>1
  <2> HIDE DEF old
  <2> QED
    BY <1>1, <2>1, Greatest
<1>3. /\ recent' = [i \in 1..n |-> recent[i] + 1] /\ UNCHANGED <<failed, login>>
      /\ stamp' = IF stamp < Lock THEN stamp + 1 ELSE stamp
  BY DEF AccountTick
<1>4. \A i \in 1..n : i \in 1..Len(recent) /\ recent[i] < Lock - 1
  <2>1. ASSUME NEW i \in 1..n PROVE i \in 1..Len(recent) /\ recent[i] < Lock - 1
    <3>1. n # 0 /\ n \in 1..Len(recent) /\ recent[n] < Lock - 1 /\ i <= n
      BY <1>1, <1>2, <2>1
    <3> HIDE DEF n
    <3>2. i \in 1..Len(recent)
      BY <1>1, <2>1, <3>1
    <3>3. recent[i] <= recent[n]
      BY <3>1, <3>2 DEF AccountInv, LatestFirst
    <3> QED
      BY <1>1, <3>1, <3>2, <3>3
  <2> QED
    BY <2>1
<1> HIDE DEF n, old
<1>5. /\ \A i \in 1..n : recent[i] + 1 \in 0..(Lock - 1) /\ recent'[i] = recent[i] + 1
      /\ n \in Nat
  BY <1>1, <1>2, <1>3, <1>4
<1>6. recent' \in Seq(0..(Lock - 1)) /\ Len(recent') = n
  BY <1>3, <1>5, IsASeq
<1>7. Verifying' = Verifying
  BY <1>3 DEF Verifying
<1>8. AccountTypeOK'
  BY <1>3, <1>6, Policy DEF AccountInv, AccountTypeOK
<1>9. LatestFirst'
  BY <1>1, <1>4, <1>5, <1>6 DEF AccountInv, LatestFirst
<1>10. CountedInv'
  <2>1. Len(recent') <= Len(recent)
    BY <1>1, <1>2, <1>6
  <2>2. ASSUME NEW i \in 1..Len(recent') PROVE stamp' <= recent'[i]
    <3>1. i \in 1..Len(recent) /\ recent'[i] = recent[i] + 1 /\ recent[i] \in 0..(Lock - 1)
      BY <1>1, <1>4, <1>5, <1>6
    <3>2. stamp \in 0..Lock /\ stamp <= recent[i]
      BY <3>1 DEF AccountInv, AccountTypeOK, CountedInv
    <3> QED
      BY <1>1, <1>3, <3>1, <3>2
  <2>3. Len(recent') + Cardinality(Verifying') < MaxFailed + Cardinality(Logins)
    BY <1>1, <1>6, <1>5, <1>7, <2>1, Policy DEF AccountInv, CountedInv
  <2>4. failed' < MaxFailed => Len(recent') <= failed'
    BY <1>1, <1>3, <1>5, <1>6, <2>1, Policy DEF AccountInv, AccountTypeOK, CountedInv
  <2> QED
    BY <2>2, <2>3, <2>4 DEF CountedInv
<1> QED
  BY <1>8, <1>9, <1>10 DEF AccountInv
------------------------------------------------------------------------------
LEMMA AccountFrame == ASSUME AccountInv, UNCHANGED account PROVE AccountInv'
<1>1. Verifying' = Verifying
  BY DEF account, Verifying
<1> QED
  BY <1>1 DEF account, AccountInv, AccountTypeOK, LatestFirst, CountedInv

LEMMA Inductive == IInv /\ [Next]_vars => IInv'
<1> SUFFICES ASSUME IInv, [Next]_vars PROVE IInv'
  OBVIOUS
<1>1. Recorded(ordered, Clients) /\ Recorded(local, LocalClients) /\ AccountInv
  BY DEF IInv
<1>2. ASSUME NEW k \in Clients, HandleOIDCLogin(k) PROVE IInv'
  BY <1>1, <1>2, Allowed, AccountFrame DEF HandleOIDCLogin, IInv
<1>3. ASSUME NEW k \in Clients, NEW l \in Logins, HandleLogin(l, k) PROVE IInv'
  BY <1>1, <1>3, Allowed, AccountFrame, Waits DEF HandleLogin, IInv
<1>4. ASSUME NEW k \in LocalClients, NEW l \in Logins, HandleLocalLogin(l, k) PROVE IInv'
  BY <1>1, <1>4, Allowed, AccountFrame, Waits DEF HandleLocalLogin, IInv
<1>5. ASSUME NEW l \in Logins, Verify(l) PROVE IInv'
  <2>1. AccountInv'
    BY <1>1, <1>5, Waits, Failure, Success DEF Verify
  <2> QED
    BY <1>1, <1>5, <2>1 DEF Verify, IInv
<1>6. CASE PruneOrdered \/ PruneLocal
  BY <1>1, <1>6, Pruned, AccountFrame DEF PruneOrdered, PruneLocal, IInv
<1>7. CASE Tick
  BY <1>1, <1>7, GetsOlder, AccountAges DEF Tick, IInv
<1>8. CASE UNCHANGED vars
  BY <1>1, <1>8, AccountFrame DEF vars, IInv
<1> QED
  BY <1>2, <1>3, <1>4, <1>5, <1>6, <1>7, <1>8 DEF Next

LEMMA Invariance == FairSpec => []IInv
<1>1. Init => IInv
  <2>1. SUFFICES ASSUME Init PROVE IInv
    OBVIOUS
  <2>2. \A clients : Recorded(NewTable(clients), clients)
    BY Empty DEF Recorded, NewTable, IsList
  <2>3. Len(recent) = 0 /\ recent \in Seq(0..(Lock - 1))
    BY <2>1 DEF Init, AccountInit
  <2>4. Verifying = {}
    BY <2>1 DEF Init, AccountInit, Verifying
  <2>5. Cardinality(Verifying) = 0
    BY <2>4, FS_EmptySet
  <2>6. AccountInv
    BY <2>1, <2>3, <2>5, Policy
    DEF Init, AccountInit, AccountInv, AccountTypeOK, LatestFirst, CountedInv
  <2> QED
    BY <2>1, <2>2, <2>6 DEF Init, IInv
<1> QED
  BY <1>1, Inductive, PTL DEF FairSpec

(* The tables keep their limits and the account its types, whoever logs in *)
(* over which route (LoginRateLimiter, Store.Authenticate).                *)
THEOREM TypeCorrect == FairSpec => []TypeOK
<1>1. IInv => TypeOK
  BY DEF IInv, Recorded, IsList, IsTable, AccountInv, TypeOK
<1> QED
  BY <1>1, Invariance, PTL

(* evictStaleLocked and prune: no eviction, cleanup or attempt of another  *)
(* client gives a client at its limit its budget back.                     *)
THEOREM NoneUnblocked == FairSpec => OnlyTimeUnblocks
<1>1. IInv /\ [Next]_vars =>
        [/\ \A k \in Clients : Blocked(ordered[k]) /\ ~Blocked(ordered'[k]) => Tick
         /\ \A k \in LocalClients : Blocked(local[k]) /\ ~Blocked(local'[k]) => Tick]_vars
  <2> SUFFICES ASSUME IInv, Next
               PROVE  /\ \A k \in Clients :
                           Blocked(ordered[k]) /\ ~Blocked(ordered'[k]) => Tick
                      /\ \A k \in LocalClients :
                           Blocked(local[k]) /\ ~Blocked(local'[k]) => Tick
    OBVIOUS
  <2>1. Recorded(ordered, Clients) /\ Recorded(local, LocalClients)
    BY DEF IInv
  <2>2. \/ Tick \/ UNCHANGED ordered \/ ordered' = Prune(ordered)
        \/ \E c \in Clients : ordered' \in Allow(ordered, c)
    BY DEF Next, HandleOIDCLogin, HandleLogin, HandleLocalLogin, Verify, PruneOrdered, PruneLocal
  <2>3. \/ Tick \/ UNCHANGED local \/ local' = Prune(local)
        \/ \E c \in LocalClients : local' \in Allow(local, c)
    BY DEF Next, HandleOIDCLogin, HandleLogin, HandleLocalLogin, Verify, PruneOrdered, PruneLocal
  <2>4. ASSUME NEW k \in Clients, Blocked(ordered[k]), ~Blocked(ordered'[k]) PROVE Tick
    BY <2>1, <2>2, <2>4, Allowed, Pruned
  <2>5. ASSUME NEW k \in LocalClients, Blocked(local[k]), ~Blocked(local'[k]) PROVE Tick
    BY <2>1, <2>3, <2>5, Allowed, Pruned
  <2> QED
    BY <2>4, <2>5
<1> QED
  BY Invariance, <1>1, PTL DEF FairSpec, OnlyTimeUnblocks

(* Authenticate: however many comparisons overlap, no failure is lost from *)
(* the count, so the failures of a window stay within the policy.          *)
THEOREM LockoutHolds == FairSpec => []FailuresBounded
<1>1. IInv => FailuresBounded
  <2>1. SUFFICES ASSUME IInv PROVE FailuresBounded
    OBVIOUS
  <2>2. AccountInv
    BY <2>1 DEF IInv
  <2> QED
    BY <2>2, Failures, Policy DEF AccountInv, CountedInv, FailuresBounded
<1> QED
  BY <1>1, Invariance, PTL
===============================================================================
