--------------------------- MODULE CollectorProofs ---------------------------
(***************************************************************************)
(* The poll loop of Collector for every set of servers and bridges, every  *)
(* configuration, every grace period and TTL and any number of panics.     *)
(***************************************************************************)
EXTENDS Collector, TLAPS

(* While $SYS is the source the snapshot shows a server, also between its  *)
(* publication and the bookkeeping that ends the fallback.                 *)
SysSource ==
  /\ SysNeverBlank
  /\ pc = "ok" => snap.varz # {}
  /\ pc = "http" => ~SYSCollection \/ fellBack
  /\ pc \in {"try", "sys", "ping", "cache", "ok", "fail"} => SYSCollection

(* sysFirstFail was stamped after the last success of $SYS.                *)
FirstFailAfterSuccess ==
  everHealthy /\ failAge # Never /\ pc # "ok" => failAge <= quiet

(* The age of the carried slow tier follows the tick counter.              *)
SlowTierFollowsTick ==
  ~SYSCollection =>
    /\ snap.lag <= 2
    /\ pc \in {"idle", "discover", "notify"} => snap.lag <= tick
    /\ pc = "http" /\ ~slow => snap.lag < tick

IInv == TypeOK /\ SysSource /\ FirstFailAfterSuccess /\ SlowTierFollowsTick

USE DEF Never, Goto

(***************************************************************************)
(* Type correctness, one lemma per group of variables.                     *)
(***************************************************************************)
LEMMA GraceRange ==
  ASSUME CollectorAssumption
  PROVE  Grace \in Nat /\ 0 \in 0..Grace /\ Never \in Never..Grace /\ 0 \in Never..Grace
BY DEF CollectorAssumption

LEMMA PublishSysType ==
  ASSUME CollectorAssumption, TypeOK, NEW s \in Snapshots, PublishSys(s)
  PROVE  snap' \in Snapshots /\ pc' \in {"ok", "fail"} /\ quiet' \in 0..Grace
<1>1. CASE s.varz = {}
  BY <1>1 DEF PublishSys, TypeOK, PollTypeOK
<1>2. CASE s.varz # {}
  BY <1>2, GraceRange DEF PublishSys
<1> QED
  BY <1>1, <1>2

LEMMA PollType ==
  ASSUME CollectorAssumption, TypeOK, [Next]_vars
  PROVE  PollTypeOK'
<1> USE DEF CollectorAssumption, TypeOK, PollTypeOK
<1>1. CASE StartPoll
  <2>1. tick' \in 0..2
    BY <1>1 DEF StartPoll
  <2>2. slow' \in BOOLEAN
    BY <1>1, Zenon DEF StartPoll
  <2>3. pc' \in {"try", "http"}
    BY <1>1 DEF StartPoll
  <2> QED
    BY <1>1, <2>1, <2>2, <2>3 DEF StartPoll
<1>2. CASE TrySys
  BY <1>2 DEF TrySys
<1>3. CASE SysPoll
  BY <1>3 DEF SysPoll
<1>4. CASE SysPing
  <2>1. snap' \in Snapshots /\ pc' \in {"ok", "fail"} /\ quiet' \in 0..Grace
    <3>1. PICK conns \in SUBSET Bridges :
            PublishSys([taken |-> TRUE, varz |-> replies, conns |-> conns, lag |-> 0])
      BY <1>4 DEF SysPing
    <3>2. [taken |-> TRUE, varz |-> replies, conns |-> conns, lag |-> 0] \in Snapshots
      BY DEF Snapshots, LinkTypeOK
    <3> QED
      BY <3>1, <3>2, PublishSysType
  <2> QED
    BY <1>4, <2>1 DEF SysPing
<1>5. CASE SysCache
  <2>1. Cached("sys") \subseteq Servers
    BY DEF Cached, Keys
  <2>2. snap.conns \subseteq Bridges /\ Older(snap.lag) \in 0..3
    BY DEF Snapshots, Older
  <2>3. [taken |-> TRUE, varz |-> Cached("sys"), conns |-> snap.conns,
         lag |-> Older(snap.lag)] \in Snapshots
    BY <2>1, <2>2 DEF Snapshots
  <2>4. PublishSys([taken |-> TRUE, varz |-> Cached("sys"), conns |-> snap.conns,
                    lag |-> Older(snap.lag)])
    BY <1>5 DEF SysCache
  <2>5. snap' \in Snapshots /\ pc' \in {"ok", "fail"} /\ quiet' \in 0..Grace
    BY <2>3, <2>4, PublishSysType
  <2> QED
    BY <1>5, <2>5 DEF SysCache
<1>6. CASE SysOk
  <2>1. pc' = "discover" /\ UNCHANGED <<tick, slow, snap, quiet>>
    BY <1>6 DEF SysOk
  <2>2. fellBack' \in BOOLEAN /\ everHealthy' \in BOOLEAN
    BY <1>6 DEF SysOk
  <2>3. failAge' \in Never..Grace
    BY <1>6, GraceRange DEF SysOk
  <2> QED
    BY <2>1, <2>2, <2>3
<1>7. CASE SysFail
  <2>1. pc' \in {"discover", "http"}
    BY <1>7 DEF SysFail
  <2>2. fellBack' \in BOOLEAN
    BY <1>7, Zenon DEF SysFail
  <2>3. failAge' \in Never..Grace
    BY <1>7, GraceRange DEF SysFail
  <2> QED
    BY <1>7, <2>1, <2>2, <2>3 DEF SysFail
<1>8. CASE HttpPoll
  <2>1. Older(snap.lag) \in 0..3
    BY DEF Snapshots, Older
  <2>2. snap' \in Snapshots
    BY <1>8, <2>1 DEF HttpPoll, Snapshots
  <2> QED
    BY <1>8, <2>2 DEF HttpPoll
<1>9. CASE MaybeDiscover
  BY <1>9 DEF MaybeDiscover
<1>10. CASE Notify
  BY <1>10 DEF Notify
<1>11. CASE PollPanic
  BY <1>11 DEF PollPanic
<1>12. CASE StopPolling
  BY <1>12 DEF StopPolling
<1>13. CASE Tick
  BY <1>13 DEF Tick, Aged
<1>14. CASE UNCHANGED pollVars
  BY <1>14 DEF pollVars
<1> QED
  BY <1>1, <1>2, <1>3, <1>4, <1>5, <1>6, <1>7, <1>8, <1>9, <1>10, <1>11, <1>12,
     <1>13, <1>14
     DEF Next, PollStep, DiscoveryStep, vars, ReadConnz, PersistBridges,
         PublishBridges, DiscoveryPanic, Connect, Subscribe, LinkChange, Receive, Reply,
         SweepExpired, LinkExit, HttpChange, Cancel

LEMMA LinkType ==
  ASSUME CollectorAssumption, TypeOK, [Next]_vars
  PROVE  LinkTypeOK'
<1> USE DEF CollectorAssumption, TypeOK, LinkTypeOK
<1>1. \A k \in Servers \cup Bridges : LinkOf(k) \in Links /\ TTL[LinkOf(k)] \in Nat \ {0}
  BY DEF LinkOf, Links
<1>2. ASSUME NEW l \in Links, Connect(l) PROVE LinkTypeOK'
  BY <1>2 DEF Connect
<1>3. ASSUME NEW l \in Links, Subscribe(l) PROVE LinkTypeOK'
  BY <1>3 DEF Subscribe
<1>4. ASSUME NEW l \in Links, LinkChange(l) PROVE LinkTypeOK'
  BY <1>4 DEF LinkChange
<1>5. ASSUME NEW l \in Links, SweepExpired(l) PROVE LinkTypeOK'
  BY <1>1, <1>5 DEF SweepExpired
<1>6. ASSUME NEW l \in Links, LinkExit(l) PROVE LinkTypeOK'
  BY <1>6 DEF LinkExit
<1>7. ASSUME NEW k \in Servers \cup Bridges, Receive(k) PROVE LinkTypeOK'
  BY <1>1, <1>7 DEF Receive
<1>8. CASE Tick
  BY <1>1, <1>8 DEF Tick, Aged
<1>9. ASSUME NEW s \in Servers, Reply(s) PROVE LinkTypeOK'
  BY <1>9 DEF Reply
<1>10. CASE SysPing \/ PollPanic
  BY <1>10 DEF SysPing, PollPanic
<1>11. CASE UNCHANGED linkVars
  BY <1>11 DEF linkVars
<1> QED
  BY <1>2, <1>3, <1>4, <1>5, <1>6, <1>7, <1>8, <1>9, <1>10, <1>11
     DEF Next, PollStep, DiscoveryStep, vars, StartPoll, TrySys, SysPoll,
         SysCache, SysOk, SysFail, HttpPoll, MaybeDiscover, Notify,
         StopPolling, ReadConnz, PersistBridges, PublishBridges, DiscoveryPanic,
         HttpChange, Cancel

LEMMA DiscoveryType ==
  ASSUME CollectorAssumption, TypeOK, [Next]_vars
  PROVE  DiscoveryTypeOK'
<1> USE DEF CollectorAssumption, TypeOK, DiscoveryTypeOK
<1>1. CASE SysOk
  BY <1>1 DEF SysOk
<1>2. CASE MaybeDiscover
  BY <1>2 DEF MaybeDiscover
<1>3. CASE ReadConnz
  BY <1>3 DEF ReadConnz, PollTypeOK, Snapshots
<1>4. CASE PersistBridges
  BY <1>4 DEF PersistBridges
<1>5. CASE PublishBridges
  BY <1>5 DEF PublishBridges
<1>6. CASE DiscoveryPanic
  BY <1>6 DEF DiscoveryPanic
<1>7. CASE UNCHANGED discVars
  BY <1>7 DEF discVars
<1> QED
  BY <1>1, <1>2, <1>3, <1>4, <1>5, <1>6, <1>7
     DEF Next, PollStep, DiscoveryStep, vars, StartPoll, TrySys, SysPoll, SysPing,
         SysCache, SysFail, HttpPoll, Notify, PollPanic, StopPolling, Connect,
         Subscribe, LinkChange, Receive, Reply, SweepExpired, LinkExit, HttpChange, Cancel,
         Tick

LEMMA EnvironmentType ==
  ASSUME CollectorAssumption, TypeOK, [Next]_vars
  PROVE  httpUp' \subseteq Servers /\ cancelled' \in BOOLEAN /\ panics' \in 0..MaxPanics
<1> USE DEF CollectorAssumption, TypeOK
<1>1. CASE HttpChange
  BY <1>1 DEF HttpChange
<1>2. CASE Cancel
  BY <1>2 DEF Cancel
<1>3. CASE PollPanic \/ DiscoveryPanic \/ \E l \in Links : LinkExit(l)
  BY <1>3 DEF PollPanic, DiscoveryPanic, LinkExit
<1>4. CASE UNCHANGED <<httpUp, cancelled, panics>>
  BY <1>4
<1> QED
  BY <1>1, <1>2, <1>3, <1>4
     DEF Next, PollStep, DiscoveryStep, vars, StartPoll, TrySys, SysPoll, SysPing,
         SysCache, SysOk, SysFail, HttpPoll, MaybeDiscover, Notify, StopPolling,
         ReadConnz, PersistBridges, PublishBridges, Connect, Subscribe, LinkChange,
         Receive, Reply, SweepExpired, Tick

LEMMA InitType == Init => TypeOK
<1> SUFFICES ASSUME Init PROVE TypeOK
  OBVIOUS
<1> USE CollectorAssumption DEF CollectorAssumption, Init
<1>1. PollTypeOK
  <2>1. snap \in Snapshots
    BY DEF Snapshots
  <2>2. pc = "boot" /\ slow \in BOOLEAN /\ fellBack \in BOOLEAN /\ everHealthy \in BOOLEAN
    OBVIOUS
  <2>3. tick \in 0..2 /\ failAge \in Never..Grace /\ quiet \in 0..Grace
    BY GraceRange
  <2> QED
    BY <2>1, <2>2, <2>3 DEF PollTypeOK
<1>2. LinkTypeOK
  BY DEF LinkTypeOK, Links, LinkOf
<1>3. DiscoveryTypeOK
  BY DEF DiscoveryTypeOK
<1>4. panics \in 0..MaxPanics
  OBVIOUS
<1>5. httpUp \subseteq Servers /\ cancelled \in BOOLEAN
  OBVIOUS
<1> QED
  BY <1>1, <1>2, <1>3, <1>4, <1>5 DEF TypeOK

LEMMA StepType == TypeOK /\ [Next]_vars => TypeOK'
BY CollectorAssumption, PollType, LinkType, DiscoveryType, EnvironmentType DEF TypeOK

(* Every variable keeps its type: the steps of the poll loop, of the       *)
(* discovery, of the push links and of the environment.                    *)
THEOREM TypeCorrect == Spec => []TypeOK
BY InitType, StepType, PTL DEF Spec

(***************************************************************************)
(* The inductive invariant.                                                *)
(***************************************************************************)
LEMMA InitIInv == Init => IInv
<1> SUFFICES ASSUME Init PROVE IInv
  OBVIOUS
<1>1. TypeOK
  BY InitType
<1>2. SysSource /\ FirstFailAfterSuccess /\ SlowTierFollowsTick
  BY DEF Init, SysSource, SysNeverBlank, FirstFailAfterSuccess, SlowTierFollowsTick
<1> QED
  BY <1>1, <1>2 DEF IInv

LEMMA StepSysSource ==
  ASSUME CollectorAssumption, IInv, [Next]_vars
  PROVE  SysSource'
<1> USE DEF SysSource, SysNeverBlank
<1>1. SYSCollection \in BOOLEAN
  BY DEF CollectorAssumption
<1>2. SysSource /\ fellBack \in BOOLEAN
  BY DEF IInv, TypeOK, PollTypeOK
<1>3. CASE StartPoll
  BY <1>1, <1>2, <1>3 DEF StartPoll
<1>4. CASE TrySys
  BY <1>1, <1>2, <1>4 DEF TrySys
<1>5. CASE SysPoll
  BY <1>1, <1>2, <1>5 DEF SysPoll
<1>6. CASE SysPing
  BY <1>1, <1>2, <1>6 DEF SysPing, PublishSys
<1>7. CASE SysCache
  BY <1>1, <1>2, <1>7 DEF SysCache, PublishSys
<1>8. CASE SysOk
  BY <1>1, <1>2, <1>8 DEF SysOk
<1>9. CASE SysFail
  BY <1>1, <1>2, <1>9 DEF SysFail
<1>10. CASE HttpPoll
  BY <1>1, <1>2, <1>10 DEF HttpPoll
<1>11. CASE MaybeDiscover
  BY <1>1, <1>2, <1>11 DEF MaybeDiscover
<1>12. CASE Notify \/ PollPanic \/ StopPolling
  BY <1>1, <1>2, <1>12 DEF Notify, PollPanic, StopPolling
<1>13. CASE UNCHANGED <<pc, snap, fellBack>>
  BY <1>1, <1>2, <1>13
<1> QED
  BY <1>3, <1>4, <1>5, <1>6, <1>7, <1>8, <1>9, <1>10, <1>11, <1>12, <1>13
     DEF Next, PollStep, DiscoveryStep, vars, pollVars, ReadConnz, PersistBridges,
         PublishBridges, DiscoveryPanic, Connect, Subscribe, LinkChange, Receive, Reply,
         SweepExpired, LinkExit, HttpChange, Cancel, Tick

LEMMA StepFirstFail ==
  ASSUME CollectorAssumption, IInv, [Next]_vars
  PROVE  FirstFailAfterSuccess'
<1> USE DEF FirstFailAfterSuccess
<1>1. FirstFailAfterSuccess
  BY DEF IInv
<1>2. failAge \in Never..Grace /\ quiet \in 0..Grace /\ Grace \in Nat
  BY DEF IInv, TypeOK, PollTypeOK, CollectorAssumption
<1>3. CASE SysPing
  BY <1>1, <1>3 DEF SysPing, PublishSys
<1>4. CASE SysCache
  BY <1>1, <1>4 DEF SysCache, PublishSys
<1>5. CASE SysOk
  BY <1>5 DEF SysOk
<1>6. CASE SysFail
  BY <1>1, <1>2, <1>6 DEF SysFail
<1>7. CASE Tick
  BY <1>1, <1>2, <1>7 DEF Tick, Aged
<1>8. CASE UNCHANGED <<everHealthy, failAge, quiet>> /\ pc # "ok"
  BY <1>1, <1>8
<1>9. CASE UNCHANGED <<everHealthy, failAge, quiet, pc>>
  BY <1>1, <1>9
<1> QED
  BY <1>3, <1>4, <1>5, <1>6, <1>7, <1>8, <1>9
     DEF Next, PollStep, DiscoveryStep, vars, pollVars, StartPoll, TrySys, SysPoll,
         HttpPoll, MaybeDiscover, Notify, PollPanic, StopPolling, ReadConnz,
         PersistBridges, PublishBridges, DiscoveryPanic, Connect, Subscribe,
         LinkChange, Receive, Reply, SweepExpired, LinkExit, HttpChange, Cancel

LEMMA StepSlowTier ==
  ASSUME CollectorAssumption, IInv, [Next]_vars
  PROVE  SlowTierFollowsTick'
<1> SUFFICES ASSUME ~SYSCollection PROVE SlowTierFollowsTick'
  BY DEF SlowTierFollowsTick
<1> USE DEF SlowTierFollowsTick
<1>1. SlowTierFollowsTick
  BY DEF IInv
<1>2. tick \in 0..2 /\ slow \in BOOLEAN /\ snap.lag \in 0..3
  BY DEF IInv, TypeOK, PollTypeOK, Snapshots
<1>3. pc \notin {"try", "sys", "ping", "cache", "ok", "fail"}
  BY DEF IInv, SysSource
<1>4. CASE StartPoll
  <2>1. pc' \in {"try", "http"} /\ snap' = snap
    BY <1>4 DEF StartPoll
  <2>2. CASE slow'
    BY <1>1, <1>2, <2>1, <2>2
  <2>3. CASE ~slow'
    <3>1. pc = "idle" /\ tick' = (tick + 1) % 3
      BY <1>4, <2>3 DEF StartPoll
    <3>2. tick' # 0
      BY <1>4, <2>3 DEF StartPoll
    <3>3. tick' = tick + 1
      BY <1>2, <3>1, <3>2
    <3> QED
      BY <1>1, <1>2, <2>1, <3>1, <3>3
  <2> QED
    BY <2>2, <2>3
<1>5. CASE HttpPoll
  <2>1. tick' = tick /\ slow' = slow /\ pc' = "discover"
    BY <1>5 DEF HttpPoll
  <2>2. snap'.lag = IF slow THEN 0 ELSE Older(snap.lag)
    BY <1>5 DEF HttpPoll
  <2>3. pc = "http"
    BY <1>5 DEF HttpPoll
  <2> QED
    BY <1>1, <1>2, <2>1, <2>2, <2>3 DEF Older
<1>6. CASE MaybeDiscover
  BY <1>1, <1>6 DEF MaybeDiscover
<1>7. CASE Notify
  BY <1>1, <1>7 DEF Notify
<1>8. CASE PollPanic \/ StopPolling
  BY <1>1, <1>8 DEF PollPanic, StopPolling
<1>9. CASE UNCHANGED <<pc, tick, slow, snap>>
  BY <1>1, <1>9
<1> QED
  BY <1>3, <1>4, <1>5, <1>6, <1>7, <1>8, <1>9
     DEF Next, PollStep, DiscoveryStep, vars, pollVars, TrySys, SysPoll, SysPing,
         SysCache, SysOk, SysFail, ReadConnz, PersistBridges, PublishBridges,
         DiscoveryPanic, Connect, Subscribe, LinkChange, Receive, Reply, SweepExpired,
         LinkExit, HttpChange, Cancel, Tick

LEMMA StepIInv == IInv /\ [Next]_vars => IInv'
<1> SUFFICES ASSUME IInv, [Next]_vars PROVE IInv'
  OBVIOUS
<1>1. TypeOK'
  BY StepType DEF IInv
<1> QED
  BY <1>1, CollectorAssumption, StepSysSource, StepFirstFail, StepSlowTier DEF IInv

(* While $SYS is the source, no published snapshot is blank: neither an    *)
(* empty answer nor the switch back from the HTTP fallback publishes one.  *)
THEOREM SourceNeverBlank == Spec => []SysNeverBlank
<1>1. IInv => SysNeverBlank
  BY DEF IInv, SysSource
<1>2. QED
  BY <1>1, InitIInv, StepIInv, PTL DEF Spec

(* On an HTTP-only cluster the slow tier carried forward is at most two    *)
(* publications old, whatever panics restarted the poll loop.              *)
THEOREM CarriedTierFresh == Spec => []SlowTierFresh
<1>1. IInv => SlowTierFresh
  BY DEF IInv, SlowTierFollowsTick, SlowTierFresh
<1>2. QED
  BY <1>1, InitIInv, StepIInv, PTL DEF Spec

(* The HTTP fallback is engaged only after sysFallbackGrace without one    *)
(* successful $SYS poll, once $SYS has worked at all.                      *)
THEOREM FallbackRidesOutGrace == Spec => GraceHonoured
<1> DEFINE Honoured == ~fellBack /\ fellBack' => ~everHealthy \/ quiet = Grace
<1>1. IInv /\ [Next]_vars => [Honoured]_vars
  <2> SUFFICES ASSUME IInv, Next PROVE Honoured
    BY DEF vars, pollVars
  <2>1. CASE SysFail
    <3>1. failAge \in Never..Grace /\ quiet \in 0..Grace /\ Grace \in Nat \ {0}
      BY CollectorAssumption DEF IInv, TypeOK, PollTypeOK, CollectorAssumption
    <3>2. SUFFICES ASSUME ~fellBack, fellBack', everHealthy PROVE quiet = Grace
      OBVIOUS
    <3>3. failAge' = IF failAge = Never THEN 0 ELSE failAge
      BY <2>1 DEF SysFail
    <3>4. ~(failAge' < Grace)
      BY <2>1, <3>2 DEF SysFail
    <3>5. failAge # Never /\ failAge >= Grace
      BY <3>1, <3>3, <3>4
    <3>6. failAge <= quiet
      BY <2>1, <3>2, <3>5 DEF SysFail, IInv, FirstFailAfterSuccess
    <3> QED
      BY <3>1, <3>5, <3>6
  <2>2. CASE SysOk
    BY <2>2 DEF SysOk
  <2>3. CASE UNCHANGED fellBack
    BY <2>3
  <2> QED
    BY <2>1, <2>2, <2>3
       DEF Next, PollStep, DiscoveryStep, StartPoll, TrySys, SysPoll, SysPing,
           SysCache, HttpPoll, MaybeDiscover, Notify, PollPanic, StopPolling,
           ReadConnz, PersistBridges, PublishBridges, DiscoveryPanic, Connect,
           Subscribe, LinkChange, Receive, Reply, SweepExpired, LinkExit, HttpChange,
           Cancel, Tick, pollVars
<1>2. Spec => [][Honoured]_vars
  BY <1>1, InitIInv, StepIInv, PTL DEF Spec
<1>3. QED
  BY <1>2 DEF GraceHonoured
==============================================================================
