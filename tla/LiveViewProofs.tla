---------------------------- MODULE LiveViewProofs ----------------------------
(***************************************************************************)
(* LiveView for any clusters, any number of effects with something in      *)
(* flight and any lengths: types, and one socket to the active cluster.    *)
(***************************************************************************)
EXTENDS LiveView, SequenceTheorems, TLAPS

USE LiveViewAssumption

(* One effect is not cancelled, that of the active cluster, and only it    *)
(* has a socket. The others wait for a timer or for their seed.            *)
OwnInv ==
  \A i \in Effects :
    /\ ~effect[i].cancelled => effect[i].env = activeEnv /\ activeEnv # None
    /\ effect[i].ws \in {"connecting", "open"} => ~effect[i].cancelled
    /\ effect[i].env = None => effect[i] = Gone

SingleInv ==
  \A i, j \in Effects : ~effect[i].cancelled /\ ~effect[j].cancelled => i = j

IInv == TypeOK /\ OwnInv /\ SingleInv
------------------------------------------------------------------------------
(* Messages in flight: a queue that grows within MaxQueue, loses its head  *)
(* or gets older stays one.                                                *)
Queues == UNION {[1..n -> Ages] : n \in 0..MaxQueue}

LEMMA QueueIsSeq ==
  ASSUME NEW q \in Queues
  PROVE  q \in Seq(Ages) /\ Len(q) <= MaxQueue
<1>1. PICK n \in 0..MaxQueue : q \in [1..n -> Ages]
  BY DEF Queues
<1> QED
  BY <1>1 DEF LiveViewAssumption

LEMMA SeqIsQueue ==
  ASSUME NEW q \in Seq(Ages), Len(q) <= MaxQueue
  PROVE  q \in Queues
<1>1. q \in [1..Len(q) -> Ages] /\ Len(q) \in 0..MaxQueue
  BY LenProperties DEF LiveViewAssumption
<1> QED
  BY <1>1 DEF Queues

LEMMA ShortQueues == <<>> \in Queues /\ <<0>> \in Queues /\ 0 \in Ages
<1>1. 0 \in Ages /\ MaxQueue \in Nat \ {0}
  BY DEF Ages, LiveViewAssumption
<1>2. <<>> \in Seq(Ages) /\ Len(<<>>) = 0 /\ <<0>> \in Seq(Ages) /\ Len(<<0>>) = 1
  BY <1>1
<1>3. <<>> \in Queues
  <2>1. Len(<<>>) <= MaxQueue
    BY <1>1, <1>2
  <2> QED
    BY <1>2, <2>1, SeqIsQueue
<1>4. <<0>> \in Queues
  <2>1. Len(<<0>>) <= MaxQueue
    BY <1>1, <1>2
  <2> QED
    BY <1>2, <2>1, SeqIsQueue
<1> QED
  BY <1>1, <1>3, <1>4

LEMMA OlderAge == ASSUME NEW a \in Ages PROVE Older(a) \in Ages /\ 0 \in Ages
<1>1. MaxAge \in Nat \ {0} /\ a \in Nat
  BY DEF LiveViewAssumption, Ages
<1>2. \E x \in {a + 1, MaxAge} : \A y \in {a + 1, MaxAge} : x <= y
  <2>1. CASE a + 1 <= MaxAge
    BY <1>1, <2>1
  <2>2. CASE MaxAge <= a + 1
    BY <1>1, <2>2
  <2> QED
    BY <1>1, <2>1, <2>2
<1>3. Older(a) \in {a + 1, MaxAge} /\ \A y \in {a + 1, MaxAge} : Older(a) <= y
  BY <1>2 DEF Older, Min
<1> QED
  BY <1>1, <1>3 DEF Ages

LEMMA QueueSteps ==
  ASSUME NEW q \in Queues
  PROVE  /\ q # <<>> => Head(q) \in Ages /\ Tail(q) \in Queues
         /\ LET aged == [n \in DOMAIN q |-> Older(q[n])] IN
              aged \in Queues /\ (Len(aged) < MaxQueue => Append(aged, 0) \in Queues)
<1>1. q \in Seq(Ages) /\ Len(q) <= MaxQueue /\ MaxQueue \in Nat \ {0} /\ 0 \in Ages
  BY QueueIsSeq, ShortQueues DEF LiveViewAssumption
<1>3. q # <<>> => Head(q) \in Ages /\ Tail(q) \in Queues
  <2>1. SUFFICES ASSUME q # <<>> PROVE Head(q) \in Ages /\ Tail(q) \in Queues
    OBVIOUS
  <2>2. Tail(q) \in Seq(Ages) /\ Len(Tail(q)) = Len(q) - 1 /\ Head(q) \in Ages
    BY <1>1, <2>1, HeadTailProperties
  <2>3. Len(Tail(q)) <= MaxQueue
    BY <1>1, <2>2, LenProperties
  <2> QED
    BY <2>2, <2>3, SeqIsQueue
<1> DEFINE aged == [n \in DOMAIN q |-> Older(q[n])]
<1>4. DOMAIN q = 1..Len(q) /\ Len(q) \in Nat /\ \A n \in 1..Len(q) : Older(q[n]) \in Ages
  BY <1>1, OlderAge, LenProperties, ElementOfSeq
<1>5. aged \in Seq(Ages) /\ Len(aged) = Len(q)
  BY <1>4, IsASeq
<1>6. Append(aged, 0) \in Seq(Ages) /\ Len(Append(aged, 0)) = Len(aged) + 1
  BY <1>1, <1>5, AppendProperties
<1>7. aged \in Queues
  BY <1>1, <1>5, SeqIsQueue
<1>8. ASSUME Len(aged) < MaxQueue PROVE Append(aged, 0) \in Queues
  <2>1. Len(Append(aged, 0)) <= MaxQueue
    BY <1>1, <1>4, <1>5, <1>6, <1>8
  <2> QED
    BY <1>6, <2>1, SeqIsQueue
<1> QED
  BY <1>3, <1>7, <1>8
------------------------------------------------------------------------------
LEMMA Types ==
  /\ Effect = [env : Envs \cup {None}, cancelled : BOOLEAN,
               seed : {"none", "fetch", "served", "overview", "topology"}, age : Ages,
               ws : {"none", "connecting", "open", "retry"}, queue : Queues]
  /\ /\ Gone \in Effect /\ Gone.cancelled /\ Gone.env = None
     /\ Gone.ws = "none" /\ Gone.seed = "none" /\ Gone.queue = <<>>
  /\ \A e \in Envs : /\ Fresh(e) \in Effect /\ ~Fresh(e).cancelled /\ Fresh(e).env = e
                     /\ e # None
<1>1. Effect = [env : Envs \cup {None}, cancelled : BOOLEAN,
                seed : {"none", "fetch", "served", "overview", "topology"}, age : Ages,
                ws : {"none", "connecting", "open", "retry"}, queue : Queues]
  BY DEF Effect, Queues
<1>2. 0 \in Ages /\ <<>> \in Queues
  BY ShortQueues
<1>3. /\ Gone \in Effect /\ Gone.cancelled /\ Gone.env = None
      /\ Gone.ws = "none" /\ Gone.seed = "none" /\ Gone.queue = <<>>
  BY <1>1, <1>2 DEF Gone
<1>4. ASSUME NEW e \in Envs
      PROVE  Fresh(e) \in Effect /\ ~Fresh(e).cancelled /\ Fresh(e).env = e /\ e # None
  BY <1>1, <1>2 DEF Gone, Fresh, LiveViewAssumption
<1> QED
  BY <1>1, <1>3, <1>4

(* What is left of an effect is the effect or nothing.                     *)
LEMMA Rests ==
  ASSUME NEW r \in Effect
  PROVE  /\ Rest(r) \in Effect
         /\ ~Rest(r).cancelled => Rest(r) = r
         /\ Rest(r).ws \in {"connecting", "open"} => Rest(r) = r
         /\ Rest(r) \in {r, Gone}
BY Types DEF Rest

(* An effect of which something is left is that of a cluster.              *)
LEMMA Busy ==
  ASSUME IInv, NEW i \in Effects,
         effect[i].seed # "none" \/ effect[i].ws # "none" \/ effect[i].queue # <<>>
  PROVE  effect[i] \in Effect /\ effect[i].env \in Envs
<1>1. effect[i] \in Effect /\ effect[i] # Gone
  BY Types DEF IInv, TypeOK
<1> QED
  BY <1>1, Types DEF IInv, OwnInv

(* A step on one effect that keeps its cluster and whether it is cancelled,*)
(* and connects it only if it is not.                                      *)
LEMMA OneEffect ==
  ASSUME IInv, NEW i \in Effects, NEW r \in Effect, Becomes(i, r), UNCHANGED activeEnv,
         r.env = effect[i].env, r.env # None, r.cancelled = effect[i].cancelled,
         r.ws \in {"connecting", "open"} => ~r.cancelled
  PROVE  effect' \in [Effects -> Effect] /\ OwnInv' /\ SingleInv'
<1>1. /\ effect \in [Effects -> Effect] /\ effect' = [effect EXCEPT ![i] = Rest(r)]
      /\ Rest(r) \in Effect
  BY Rests DEF Becomes, IInv, TypeOK
<1>2. effect'[i] = Rest(r) /\ \A j \in Effects \ {i} : effect'[j] = effect[j]
  BY <1>1
<1>3. \A j \in Effects : ~effect'[j].cancelled =>
        ~effect[j].cancelled /\ effect'[j].env = effect[j].env
  BY <1>2, Rests
<1>4. effect'[i].ws \in {"connecting", "open"} => ~effect'[i].cancelled
  BY <1>2, Rests
<1>5. effect'[i].env = None => effect'[i] = Gone
  BY <1>2, Rests
<1>6. OwnInv'
  BY <1>2, <1>3, <1>4, <1>5 DEF IInv, OwnInv
<1>7. SingleInv'
  BY <1>2, <1>3 DEF IInv, SingleInv
<1> QED
  BY <1>1, <1>6, <1>7
------------------------------------------------------------------------------
LEMMA Awaits == \A v : \A n \in ThenTopology(v) : n.seed \in {"none", "topology"}
BY DEF ThenTopology

LEMMA SeedSteps ==
  ASSUME IInv, NEW i \in Effects,
         SeedServed(i) \/ SeedChecked(i) \/ SeedOverview(i) \/ SeedTopology(i)
  PROVE  IInv'
<1> DEFINE Seeds == {"none", "fetch", "served", "overview", "topology"}
<1>1. /\ effect \in [Effects -> Effect] /\ effect[i] \in Effect /\ UNCHANGED activeEnv
      /\ 0 \in Ages /\ effect[i].seed # "none" /\ effect[i].env \in Envs
  BY ShortQueues, Busy
  DEF IInv, TypeOK, SeedServed, SeedChecked, SeedOverview, SeedTopology
<1>2. ASSUME NEW s \in Seeds, NEW a \in Ages
      PROVE  LET r == [effect[i] EXCEPT !.seed = s, !.age = a] IN
               /\ r \in Effect /\ r.env = effect[i].env /\ r.cancelled = effect[i].cancelled
               /\ r.ws = effect[i].ws
  BY <1>1, <1>2, Types
<1>3. /\ effect[i].age \in Ages
      /\ \A s : [effect[i] EXCEPT !.seed = s]
                = [effect[i] EXCEPT !.seed = s, !.age = effect[i].age]
  BY <1>1, Types
<1> DEFINE Step(s, a) == Becomes(i, [effect[i] EXCEPT !.seed = s, !.age = a])
<1>a. \A s : Becomes(i, [effect[i] EXCEPT !.seed = s]) <=> Step(s, effect[i].age)
  BY <1>3 DEF Becomes
<1>4. \E s \in Seeds, a \in Ages : Step(s, a)
  <2>1. CASE SeedServed(i)
    <3>1. Step("served", 0) \/ Step("none", 0)
      BY <2>1 DEF SeedServed
    <3> HIDE DEF Step
    <3> QED
      BY <1>1, <3>1
  <2>2. CASE SeedChecked(i)
    <3>1. \/ Step("none", 0) \/ Becomes(i, [effect[i] EXCEPT !.seed = "overview"])
          \/ \E n \in ThenTopology(view) : Becomes(i, [effect[i] EXCEPT !.seed = n.seed])
      BY <2>2 DEF SeedChecked
    <3> HIDE DEF Step
    <3> QED
      BY <1>1, <1>3, <1>a, <3>1, Awaits
  <2>3. CASE SeedOverview(i)
    <3>1. \/ Becomes(i, [effect[i] EXCEPT !.seed = "none"])
          \/ \E n \in ThenTopology(view') : Becomes(i, [effect[i] EXCEPT !.seed = n.seed])
      BY <2>3 DEF SeedOverview
    <3> HIDE DEF Step
    <3> QED
      BY <1>1, <1>3, <1>a, <3>1, Awaits
  <2>4. CASE SeedTopology(i)
    <3>1. Becomes(i, [effect[i] EXCEPT !.seed = "none"])
      BY <2>4 DEF SeedTopology
    <3> HIDE DEF Step
    <3> QED
      BY <1>1, <1>3, <1>a, <3>1
  <2> QED
    BY <2>1, <2>2, <2>3, <2>4
<1>5. effect' \in [Effects -> Effect] /\ OwnInv' /\ SingleInv'
  <2>1. PICK s \in Seeds, a \in Ages : Step(s, a)
    BY <1>4
  <2> DEFINE r == [effect[i] EXCEPT !.seed = s, !.age = a]
  <2>2. /\ r \in Effect /\ r.env = effect[i].env /\ r.cancelled = effect[i].cancelled
        /\ r.ws \in {"connecting", "open"} => ~r.cancelled
    BY <1>2 DEF IInv, OwnInv
  <2>3. Becomes(i, r) /\ r.env # None
    BY <1>1, <2>1, <2>2 DEF LiveViewAssumption
  <2> HIDE DEF r, Step
  <2> QED
    BY <1>1, <2>2, <2>3, OneEffect
<1>6. view' \in [Fields -> Shown \cup {None}]
  <2>1. view' = view \/ \E f \in Fields : view' = Fill(i, f)
    BY DEF SeedServed, SeedChecked, SeedOverview, SeedTopology, Fields
  <2>2. [env |-> effect[i].env, age |-> effect[i].age] \in Shown
    BY <1>1, <1>3 DEF Shown
  <2> QED
    BY <2>1, <2>2 DEF IInv, TypeOK, Fill
<1> QED
  BY <1>1, <1>5, <1>6 DEF IInv, TypeOK

LEMMA SocketSteps ==
  ASSUME IInv, NEW i \in Effects, Open(i) \/ OnMessage(i) \/ OnClose(i) \/ Connect(i)
  PROVE  IInv'
<1> DEFINE States == {"none", "connecting", "open", "retry"}
<1>1. /\ effect[i] \in Effect /\ UNCHANGED activeEnv /\ effect[i].env \in Envs
      /\ effect[i].env # None
  BY Busy DEF LiveViewAssumption, Open, OnMessage, OnClose, Connect
<1>2. effect[i].queue \in Queues /\ effect[i].ws \in States /\ effect[i].cancelled \in BOOLEAN
  BY <1>1, Types
<1> DEFINE Socket(w, q) == [effect[i] EXCEPT !.ws = w, !.queue = q]
<1>3. ASSUME NEW w \in States, NEW q \in Queues
      PROVE  /\ Socket(w, q) \in Effect /\ Socket(w, q).env = effect[i].env
             /\ Socket(w, q).cancelled = effect[i].cancelled /\ Socket(w, q).ws = w
  BY <1>1, <1>3, Types
<1>4. /\ \A w : [effect[i] EXCEPT !.ws = w] = Socket(w, effect[i].queue)
      /\ \A q : [effect[i] EXCEPT !.queue = q] = Socket(effect[i].ws, q)
  BY <1>1, Types
<1>5. \E w \in States, q \in Queues :
        Becomes(i, Socket(w, q)) /\ (w \in {"connecting", "open"} => ~effect[i].cancelled)
  <2>1. CASE Open(i)
    <3>1. Becomes(i, Socket("open", <<0>>)) /\ ~effect[i].cancelled
      BY <2>1 DEF Open, IInv, OwnInv
    <3> HIDE DEF Socket
    <3> QED
      BY <3>1, ShortQueues
  <2>2. CASE OnMessage(i)
    <3>1. /\ Becomes(i, Socket(effect[i].ws, Tail(effect[i].queue)))
          /\ effect[i].ws \in {"connecting", "open"} => ~effect[i].cancelled
      BY <1>4, <2>2 DEF OnMessage, IInv, OwnInv
    <3>2. Tail(effect[i].queue) \in Queues
      BY <1>2, <2>2, QueueSteps DEF OnMessage
    <3> HIDE DEF Socket
    <3> QED
      BY <1>2, <3>1, <3>2
  <2>3. CASE OnClose(i)
    <3>1. Becomes(i, Socket("retry", <<>>))
      BY <2>3 DEF OnClose
    <3> HIDE DEF Socket
    <3> QED
      BY <3>1, ShortQueues
  <2>4. CASE Connect(i)
    <3>1. PICK w \in {"none", "connecting"} :
            Becomes(i, [effect[i] EXCEPT !.ws = w]) /\ (w = "connecting" => ~effect[i].cancelled)
      BY <2>4 DEF Connect
    <3>2. Becomes(i, Socket(w, effect[i].queue))
      BY <1>4, <3>1
    <3> HIDE DEF Socket
    <3> QED
      BY <1>2, <3>1, <3>2
  <2> QED
    BY <2>1, <2>2, <2>3, <2>4
<1>6. effect' \in [Effects -> Effect] /\ OwnInv' /\ SingleInv'
  <2>1. PICK w \in States, q \in Queues :
          Becomes(i, Socket(w, q)) /\ (w \in {"connecting", "open"} => ~effect[i].cancelled)
    BY <1>5
  <2> HIDE DEF Socket
  <2>2. /\ Socket(w, q) \in Effect /\ Socket(w, q).env = effect[i].env
        /\ Socket(w, q).cancelled = effect[i].cancelled /\ Socket(w, q).ws = w
    BY <1>3
  <2> QED
    BY <1>1, <2>1, <2>2, OneEffect
<1>7. view' \in [Fields -> Shown \cup {None}]
  <2>1. CASE OnMessage(i)
    <3>1. [env |-> effect[i].env, age |-> Head(effect[i].queue)] \in Shown
      BY <1>1, <1>2, <2>1, QueueSteps DEF OnMessage, Shown
    <3> QED
      BY <2>1, <3>1 DEF OnMessage
  <2>2. CASE view' = view
    BY <2>2 DEF IInv, TypeOK
  <2> QED
    BY <2>1, <2>2 DEF Open, OnClose, Connect
<1> QED
  BY <1>1, <1>6, <1>7 DEF IInv, TypeOK
------------------------------------------------------------------------------
(* A new snapshot changes ages and queues only.                            *)
LEMMA PublishStep == ASSUME IInv, NEW e \in Envs, Publish(e) PROVE IInv'
<1> DEFINE Aged(r) == [n \in DOMAIN r.queue |-> Older(r.queue[n])]
           Sent(r) == [r EXCEPT
             !.age = IF r.seed \in {"none", "fetch"} THEN @ ELSE Older(@),
             !.queue = IF r.ws = "open" /\ Len(Aged(r)) < MaxQueue THEN Append(Aged(r), 0)
                                                                  ELSE Aged(r)]
<1>1. /\ effect' = [i \in Effects |-> IF effect[i].env # e THEN effect[i] ELSE Sent(effect[i])]
      /\ UNCHANGED activeEnv /\ effect \in [Effects -> Effect] /\ e # None
  BY DEF Publish, IInv, TypeOK, LiveViewAssumption
<1>2. ASSUME NEW r \in Effect
      PROVE  /\ Sent(r) \in Effect /\ Sent(r).env = r.env /\ Sent(r).ws = r.ws
             /\ Sent(r).cancelled = r.cancelled
  <2>1. r.age \in Ages /\ r.queue \in Queues
    BY <1>2, Types
  <2>2. PICK a \in Ages : a = IF r.seed \in {"none", "fetch"} THEN r.age ELSE Older(r.age)
    BY <2>1, OlderAge
  <2>3. PICK q \in Queues : q = IF r.ws = "open" /\ Len(Aged(r)) < MaxQueue
                                THEN Append(Aged(r), 0) ELSE Aged(r)
    BY <2>1, QueueSteps
  <2>4. Sent(r) = [r EXCEPT !.age = a, !.queue = q]
    BY <2>2, <2>3
  <2> HIDE DEF Sent
  <2> QED
    BY <2>4, <1>2, Types
<1> HIDE DEF Sent
<1>3. ASSUME NEW i \in Effects
      PROVE  /\ effect'[i] \in Effect /\ effect'[i].env = effect[i].env
             /\ effect'[i].ws = effect[i].ws /\ effect'[i].cancelled = effect[i].cancelled
             /\ effect[i].env = None => effect'[i] = effect[i]
  BY <1>1, <1>2
<1>4. effect' \in [Effects -> Effect]
  BY <1>1, <1>3
<1>5. OwnInv' /\ SingleInv'
  BY <1>1, <1>3 DEF IInv, OwnInv, SingleInv
<1>6. view' \in [Fields -> Shown \cup {None}]
  <2>1. ASSUME NEW v \in Shown PROVE [v EXCEPT !.age = Older(@)] \in Shown
    BY <2>1, OlderAge DEF Shown
  <2>2. ASSUME NEW f \in Fields PROVE view'[f] \in Shown \cup {None}
    BY <2>1 DEF Publish, IInv, TypeOK
  <2> QED
    BY <2>2 DEF Publish
<1> QED
  BY <1>1, <1>4, <1>5, <1>6 DEF IInv, TypeOK

(* The cleanup leaves no effect that is not cancelled, and no socket.      *)
LEMMA SwitchStep == ASSUME IInv, NEW e \in Envs \cup {None}, SetActiveEnv(e) PROVE IInv'
<1> DEFINE left == [i \in Effects |-> IF effect[i].cancelled THEN effect[i]
                                     ELSE Rest(Cancelled(effect[i]))]
<1>1. ASSUME NEW r \in Effect
      PROVE  /\ Cancelled(r) \in Effect /\ Cancelled(r).cancelled /\ Cancelled(r).env = r.env
             /\ Cancelled(r).ws \notin {"connecting", "open"}
  BY <1>1, Types, ShortQueues DEF Cancelled
<1>2. ASSUME NEW i \in Effects
      PROVE  /\ left[i] \in Effect /\ left[i].cancelled /\ left[i].ws \notin {"connecting", "open"}
             /\ left[i].env = None => left[i] = Gone
  <2>1. effect[i] \in Effect
    BY DEF IInv, TypeOK
  <2>2. CASE effect[i].cancelled
    BY <2>1, <2>2 DEF IInv, OwnInv
  <2>3. CASE ~effect[i].cancelled
    <3>1. left[i] = Rest(Cancelled(effect[i])) /\ effect[i].env # None
      BY <2>3 DEF IInv, OwnInv
    <3>2. /\ Cancelled(effect[i]) \in Effect /\ Cancelled(effect[i]).cancelled
          /\ Cancelled(effect[i]).env = effect[i].env
          /\ Cancelled(effect[i]).ws \notin {"connecting", "open"}
      BY <1>1, <2>1
    <3> HIDE DEF left
    <3> QED
      BY <3>1, <3>2, Rests, Types
  <2> QED
    BY <2>2, <2>3
<1>3. /\ activeEnv' = e /\ view' = Nothing
      /\ \/ effect' = left
         \/ \E i \in Effects : effect' = [left EXCEPT ![i] = Fresh(e)] /\ e \in Envs
  BY DEF SetActiveEnv
<1>4. left \in [Effects -> Effect]
  BY <1>2
<1>5. TypeOK'
  <2>1. effect' \in [Effects -> Effect]
    <3> HIDE DEF left
    <3> QED
      BY <1>3, <1>4, Types
  <2>2. view' \in [Fields -> Shown \cup {None}]
    BY <1>3 DEF Nothing
  <2> QED
    BY <1>3, <2>1, <2>2 DEF TypeOK
<1> HIDE DEF left
<1>6. CASE effect' = left
  BY <1>2, <1>5, <1>6 DEF OwnInv, SingleInv, IInv
<1>7. CASE \E i \in Effects : effect' = [left EXCEPT ![i] = Fresh(e)] /\ e \in Envs
  <2>1. PICK i \in Effects : effect' = [left EXCEPT ![i] = Fresh(e)] /\ e \in Envs
    BY <1>7
  <2>2. effect'[i] = Fresh(e) /\ \A j \in Effects \ {i} : effect'[j] = left[j]
    BY <1>4, <2>1
  <2>3. ~Fresh(e).cancelled /\ Fresh(e).env = e /\ e # None
    BY <2>1, Types
  <2>4. OwnInv'
    BY <1>2, <1>3, <2>2, <2>3 DEF OwnInv
  <2>5. SingleInv'
    BY <1>2, <2>2 DEF SingleInv
  <2> QED
    BY <1>5, <2>4, <2>5 DEF IInv
<1> QED
  BY <1>3, <1>5, <1>6, <1>7 DEF IInv
------------------------------------------------------------------------------
LEMMA Inductive == IInv /\ [Next]_vars => IInv'
<1> SUFFICES ASSUME IInv, [Next]_vars PROVE IInv'
  OBVIOUS
<1>1. ASSUME NEW e \in Envs, Publish(e) PROVE IInv'
  BY <1>1, PublishStep
<1>2. ASSUME NEW e \in Envs \cup {None}, SetActiveEnv(e) PROVE IInv'
  BY <1>2, SwitchStep
<1>3. ASSUME NEW i \in Effects,
             SeedServed(i) \/ SeedChecked(i) \/ SeedOverview(i) \/ SeedTopology(i)
      PROVE  IInv'
  BY <1>3, SeedSteps
<1>4. ASSUME NEW i \in Effects, Open(i) \/ OnMessage(i) \/ OnClose(i) \/ Connect(i)
      PROVE  IInv'
  BY <1>4, SocketSteps
<1>5. CASE UNCHANGED vars
  BY <1>5 DEF vars, IInv, TypeOK, OwnInv, SingleInv
<1> QED
  BY <1>1, <1>2, <1>3, <1>4, <1>5 DEF Next

LEMMA Invariance == Spec => []IInv
<1>1. Init => IInv
  BY Types DEF Init, Nothing, IInv, TypeOK, OwnInv, SingleInv
<1> QED
  BY <1>1, Inductive, PTL DEF Spec

(* The states of the store, of the hook's effects and of their sockets     *)
(* keep their types, whatever the number of clusters and of effects.       *)
THEOREM TypeCorrect == Spec => []TypeOK
<1>1. IInv => TypeOK
  BY DEF IInv
<1> QED
  BY <1>1, Invariance, PTL

(* Closings, reconnect timers and switches in any order: a tab has at most *)
(* one socket, to the active cluster (the cleanup of useWebSocket).        *)
THEOREM SingleSocket == Spec => []OneSocket
<1>1. IInv => OneSocket
  BY DEF IInv, OwnInv, SingleInv, OneSocket
<1> QED
  BY <1>1, Invariance, PTL
===============================================================================
