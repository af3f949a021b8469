------------------------------- MODULE HubProofs ------------------------------
(***************************************************************************)
(* Hub for any number of clients and clusters and any lengths of queues    *)
(* and drops: the types with the bound of the queues, and that the race of *)
(* a subscription with a broadcast loses no snapshot.                      *)
(***************************************************************************)
EXTENDS Hub, TLAPS

(* What a broadcast holds and sends from Poll to EndBroadcast.             *)
BroadcastInv ==
  \A e \in Envs :
    /\ locked[e] => polling[e]
    /\ ~locked[e] => todo[e] = {} /\ target[e] = None
    /\ polling[e] => sending[e] = version[e]

(* No client was offered, nor is about to be seeded with, more than there  *)
(* is.                                                                     *)
OfferInv ==
  \A c \in Clients :
    /\ env[c] # None => offered[c] <= version[env[c]]
    /\ reader[c] \in {"seed", "push"} => env[c] # None
    /\ reader[c] = "push" => seed[c] <= version[env[c]]

(* A subscribed client has been offered the newest snapshot, or its seed is*)
(* that snapshot, or the broadcast of it will still come to the client.    *)
Covered(c) ==
  c \in registered /\ env[c] # None /\ reader[c] \in {"read", "push"} =>
    \/ offered[c] = version[env[c]]
    \/ reader[c] = "push" /\ seed[c] = version[env[c]]
    \/ /\ polling[env[c]]
       /\ ~locked[env[c]] \/ c \in todo[env[c]] \/ target[env[c]] = c

IInv == TypeOK /\ BroadcastInv /\ OfferInv /\ \A c \in Clients : Covered(c)

USE HubAssumption DEF HubAssumption
------------------------------------------------------------------------------
(* Types.                                                                  *)

LEMMA DeliverTypes ==
  ASSUME TypeOK, NEW c \in Clients, NEW m \in Messages, Deliver(c, m)
  PROVE  /\ queue' \in [Clients -> Seq(Messages)]
         /\ \A d \in Clients : Len(queue'[d]) <= BufLen
         /\ streak' \in [Clients -> 0..DropLimit] /\ closed' \in [Clients -> BOOLEAN]
         /\ offered' \in [Clients -> -1..MaxVersion] /\ registered' = registered
<1>1. /\ queue \in [Clients -> Seq(Messages)] /\ streak \in [Clients -> 0..DropLimit]
      /\ \A d \in Clients : Len(queue[d]) <= BufLen
      /\ closed \in [Clients -> BOOLEAN] /\ offered \in [Clients -> -1..MaxVersion]
      /\ m.v \in Versions
  BY DEF TypeOK, Messages
<1>2. offered' \in [Clients -> -1..MaxVersion] /\ registered' = registered
  BY <1>1 DEF Deliver, Offer, Versions
<1>3. CASE Len(queue[c]) < BufLen
  <2>1. queue' = [queue EXCEPT ![c] = Append(@, m)]
    BY <1>3 DEF Deliver
  <2>2. /\ Append(queue[c], m) \in Seq(Messages)
        /\ Len(Append(queue[c], m)) = Len(queue[c]) + 1 /\ Len(queue[c]) \in Nat
    BY <1>1
  <2>3. /\ queue' \in [Clients -> Seq(Messages)]
        /\ \A d \in Clients : Len(queue'[d]) <= BufLen
    BY <1>1, <1>3, <2>1, <2>2
  <2>4. streak' = [streak EXCEPT ![c] = 0] /\ closed' = closed
    BY <1>3 DEF Deliver
  <2>5. 0 \in 0..DropLimit
    OBVIOUS
  <2> QED
    BY <1>1, <1>2, <2>3, <2>4, <2>5
<1>4. CASE ~(Len(queue[c]) < BufLen)
  <2>1. streak' \in [Clients -> 0..DropLimit] /\ queue' = queue
    BY <1>1, <1>4 DEF Deliver
  <2>2. closed' \in [Clients -> BOOLEAN]
    BY <1>1, <1>4 DEF Deliver
  <2> QED
    BY <1>1, <1>2, <2>1, <2>2
<1> QED
  BY <1>3, <1>4

LEMMA ClusterTypes ==
  ASSUME TypeOK, NEW e \in Envs,
         \/ Poll(e) \/ Broadcast(e) \/ DeliverTo(e) \/ EndBroadcast(e)
         \/ \E c \in Clients : Visit(e, c)
  PROVE  TypeOK'
<1>1. CASE Poll(e)
  BY <1>1 DEF Poll, TypeOK, clientVars
<1>2. CASE Broadcast(e)
  BY <1>2 DEF Broadcast, TypeOK, clientVars
<1>3. CASE \E c \in Clients : Visit(e, c)
  BY <1>3 DEF Visit, TypeOK, clientVars
<1>4. CASE EndBroadcast(e)
  BY <1>4 DEF EndBroadcast, TypeOK, clientVars
<1>5. CASE DeliverTo(e)
  <2>1. /\ target[e] \in Clients /\ [env |-> e, v |-> sending[e]] \in Messages
        /\ Deliver(target[e], [env |-> e, v |-> sending[e]])
    BY <1>5 DEF DeliverTo, TypeOK, Messages
  <2> HIDE DEF Messages
  <2>2. /\ queue' \in [Clients -> Seq(Messages)]
        /\ \A d \in Clients : Len(queue'[d]) <= BufLen
        /\ streak' \in [Clients -> 0..DropLimit] /\ closed' \in [Clients -> BOOLEAN]
        /\ offered' \in [Clients -> -1..MaxVersion] /\ registered' = registered
    BY <2>1, DeliverTypes
  <2> QED
    BY <1>5, <2>2 DEF DeliverTo, TypeOK
<1> QED
  BY <1>1, <1>2, <1>3, <1>4, <1>5

LEMMA ClientTypes ==
  ASSUME TypeOK, OfferInv, NEW c \in Clients,
         \/ Connect(c) \/ ReadSeed(c) \/ PushSeed(c) \/ ReadFails(c) \/ Unregister(c)
         \/ Write(c) \/ WriterExits(c) \/ \E e \in Envs : Subscribe(c, e)
  PROVE  TypeOK'
<1>1. CASE Connect(c)
  <2>1. <<>> \in Seq(Messages) /\ Len(<<>>) = 0 /\ 0 \in Versions
    BY DEF Versions
  <2> QED
    BY <1>1, <2>1 DEF Connect, TypeOK, envVars
<1>2. CASE \E e \in Envs : Subscribe(c, e)
  BY <1>2 DEF Subscribe, TypeOK, envVars
<1>3. CASE ReadFails(c)
  BY <1>3 DEF ReadFails, TypeOK, envVars
<1>4. CASE Unregister(c)
  BY <1>4 DEF Unregister, TypeOK, envVars
<1>5. CASE WriterExits(c)
  BY <1>5 DEF WriterExits, TypeOK, envVars
<1>6. CASE Write(c)
  <2>1. /\ queue[c] \in Seq(Messages) /\ queue[c] # <<>> /\ Len(queue[c]) <= BufLen
    BY <1>6 DEF Write, TypeOK
  <2>2. /\ Tail(queue[c]) \in Seq(Messages) /\ Head(queue[c]) \in Messages
        /\ Len(Tail(queue[c])) <= BufLen
    BY <2>1
  <2>3. /\ queue' \in [Clients -> Seq(Messages)]
        /\ \A d \in Clients : Len(queue'[d]) <= BufLen
    BY <1>6, <2>2 DEF Write, TypeOK
  <2>4. \/ /\ shown' = [shown EXCEPT ![c] = Head(queue[c])]
           /\ UNCHANGED <<writing, closed>>
        \/ /\ writing' = [writing EXCEPT ![c] = FALSE] /\ UNCHANGED shown
           /\ closed' = [closed EXCEPT ![c] = TRUE]
    BY <1>6 DEF Write
  <2>5. /\ shown \in [Clients -> Messages \cup {None}]
        /\ writing \in [Clients -> BOOLEAN] /\ closed \in [Clients -> BOOLEAN]
    BY DEF TypeOK
  <2>6. /\ shown' \in [Clients -> Messages \cup {None}]
        /\ writing' \in [Clients -> BOOLEAN] /\ closed' \in [Clients -> BOOLEAN]
    BY <2>2, <2>4, <2>5
  <2> QED
    BY <1>6, <2>3, <2>6 DEF Write, TypeOK, envVars
<1>7. CASE ReadSeed(c)
  <2>1. env[c] \in Envs /\ version[env[c]] \in Versions
    BY <1>7 DEF ReadSeed, OfferInv, TypeOK
  <2> QED
    BY <1>7, <2>1 DEF ReadSeed, TypeOK, envVars
<1>8. CASE PushSeed(c)
  <2>1. /\ [env |-> env[c], v |-> seed[c]] \in Messages
        /\ Deliver(c, [env |-> env[c], v |-> seed[c]])
    BY <1>8 DEF PushSeed, OfferInv, TypeOK, Messages
  <2> HIDE DEF Messages
  <2>2. /\ queue' \in [Clients -> Seq(Messages)]
        /\ \A d \in Clients : Len(queue'[d]) <= BufLen
        /\ streak' \in [Clients -> 0..DropLimit] /\ closed' \in [Clients -> BOOLEAN]
        /\ offered' \in [Clients -> -1..MaxVersion] /\ registered' = registered
    BY <2>1, DeliverTypes
  <2> QED
    BY <1>8, <2>2 DEF PushSeed, TypeOK, envVars
<1> QED
  BY <1>1, <1>2, <1>3, <1>4, <1>5, <1>6, <1>7, <1>8
------------------------------------------------------------------------------
(* Broadcasts and offers.                                                  *)

LEMMA BroadcastStep ==
  ASSUME TypeOK, BroadcastInv, Next PROVE BroadcastInv'
<1>1. /\ polling \in [Envs -> BOOLEAN] /\ locked \in [Envs -> BOOLEAN]
      /\ todo \in [Envs -> SUBSET Clients] /\ target \in [Envs -> Clients \cup {None}]
      /\ sending \in [Envs -> Versions] /\ version \in [Envs -> Versions]
  BY DEF TypeOK
<1>2. ASSUME NEW e \in Envs, Poll(e) PROVE BroadcastInv'
  BY <1>1, <1>2 DEF Poll, BroadcastInv
<1>3. ASSUME NEW e \in Envs, Broadcast(e) PROVE BroadcastInv'
  BY <1>1, <1>3 DEF Broadcast, BroadcastInv
<1>4. ASSUME NEW e \in Envs, EndBroadcast(e) PROVE BroadcastInv'
  BY <1>1, <1>4 DEF EndBroadcast, BroadcastInv
<1>5. ASSUME NEW e \in Envs, DeliverTo(e) PROVE BroadcastInv'
  BY <1>1, <1>5 DEF DeliverTo, BroadcastInv
<1>6. ASSUME NEW e \in Envs, NEW c \in Clients, Visit(e, c) PROVE BroadcastInv'
  BY <1>1, <1>6 DEF Visit, BroadcastInv
<1>7. CASE UNCHANGED envVars
  BY <1>7 DEF envVars, BroadcastInv
<1> QED
  BY <1>2, <1>3, <1>4, <1>5, <1>6, <1>7
     DEF Next, Subscribe, Connect, ReadSeed, PushSeed, ReadFails, Unregister, Write,
         WriterExits

(* What Deliver makes of the offer.                                        *)
LEMMA DeliverOffers ==
  ASSUME TypeOK, NEW c \in Clients, NEW m \in Messages, Deliver(c, m)
  PROVE  /\ \A d \in Clients \ {c} : offered'[d] = offered[d]
         /\ m.env # env[c] => offered'[c] = offered[c]
         /\ m.env = env[c] => offered'[c] = IF m.v > offered[c] THEN m.v ELSE offered[c]
BY DEF Deliver, Offer, TypeOK

LEMMA OfferStep ==
  ASSUME TypeOK, BroadcastInv, OfferInv, Next PROVE OfferInv'
<1>1. /\ version \in [Envs -> Versions] /\ env \in [Clients -> Envs \cup {None}]
      /\ offered \in [Clients -> -1..MaxVersion] /\ seed \in [Clients -> Versions]
      /\ sending \in [Envs -> Versions] /\ None \notin Envs
      /\ reader \in [Clients -> {"off", "read", "seed", "push", "exit", "gone"}]
      /\ \A v \in Versions : v \in Nat
      /\ \A i \in Clients : offered[i] \in Int
  BY DEF TypeOK, Versions
<1>2. ASSUME NEW e \in Envs, Poll(e) PROVE OfferInv'
  <2>1. \A i \in Envs : version'[i] >= version[i]
    <3>1. PICK v \in {version[e], version[e] + 1} :
            v \in Versions /\ version' = [version EXCEPT ![e] = v]
      BY <1>2 DEF Poll
    <3>2. v >= version[e] /\ \A i \in Envs : version[i] \in Nat
      BY <1>1, <3>1
    <3> QED
      BY <1>1, <3>1, <3>2
  <2>2. version' \in [Envs -> Versions] /\ UNCHANGED <<env, offered, reader, seed>>
    BY <1>1, <1>2 DEF Poll, clientVars
  <2>3. ASSUME NEW c \in Clients, env[c] # None
        PROVE  /\ version[env[c]] \in Nat /\ version'[env[c]] \in Nat
               /\ version'[env[c]] >= version[env[c]]
               /\ offered[c] \in Int /\ seed[c] \in Nat
    BY <1>1, <2>1, <2>2, <2>3
  <2> QED
    BY <2>2, <2>3 DEF OfferInv
<1>3. ASSUME NEW e \in Envs, DeliverTo(e) PROVE OfferInv'
  <2>1. /\ target[e] \in Clients /\ [env |-> e, v |-> sending[e]] \in Messages
        /\ sending[e] = version[e]
    BY <1>3 DEF DeliverTo, TypeOK, Messages, BroadcastInv
  <2>2. \A d \in Clients : offered'[d] = offered[d]
                           \/ (env[d] = e /\ offered'[d] = version[e])
    BY <1>3, <2>1, DeliverOffers DEF DeliverTo
  <2> QED
    BY <1>1, <1>3, <2>2 DEF DeliverTo, OfferInv
<1>4. ASSUME NEW c \in Clients, PushSeed(c) PROVE OfferInv'
  <2>1. /\ env[c] \in Envs /\ [env |-> env[c], v |-> seed[c]] \in Messages
        /\ seed[c] <= version[env[c]]
    BY <1>1, <1>4 DEF PushSeed, TypeOK, Messages, OfferInv
  <2>2. \A d \in Clients : offered'[d] = offered[d]
                           \/ (d = c /\ offered'[d] = seed[c])
    BY <1>4, <2>1, DeliverOffers DEF PushSeed
  <2>3. /\ version' = version /\ env' = env /\ seed' = seed
        /\ reader' = [reader EXCEPT ![c] = "read"]
    BY <1>4 DEF PushSeed, envVars
  <2> QED
    BY <1>1, <2>1, <2>2, <2>3 DEF OfferInv
<1>5. ASSUME NEW c \in Clients, NEW e \in Envs, Subscribe(c, e) PROVE OfferInv'
  <2>1. /\ env' = [env EXCEPT ![c] = e] /\ offered' = [offered EXCEPT ![c] = -1]
        /\ reader' = [reader EXCEPT ![c] = "seed"] /\ UNCHANGED <<version, seed>>
        /\ version[e] \in Nat
    BY <1>1, <1>5 DEF Subscribe, envVars
  <2> QED
    BY <1>1, <2>1 DEF OfferInv
<1>6. ASSUME NEW c \in Clients, Connect(c) PROVE OfferInv'
  BY <1>1, <1>6 DEF Connect, OfferInv, envVars
<1>7. ASSUME NEW c \in Clients, ReadSeed(c) PROVE OfferInv'
  <2>1. /\ seed' = [seed EXCEPT ![c] = version[env[c]]]
        /\ reader' = [reader EXCEPT ![c] = "push"] /\ reader[c] = "seed"
        /\ UNCHANGED <<version, env, offered>>
    BY <1>7 DEF ReadSeed, envVars
  <2>2. env[c] \in Envs /\ version[env[c]] \in Nat
    BY <1>1, <2>1 DEF OfferInv
  <2> QED
    BY <1>1, <2>1, <2>2 DEF OfferInv
<1>8. ASSUME NEW c \in Clients, ReadFails(c) \/ Unregister(c) PROVE OfferInv'
  BY <1>1, <1>8 DEF ReadFails, Unregister, OfferInv, envVars
<1>9. CASE UNCHANGED <<version, env, offered, reader, seed>>
  BY <1>9 DEF OfferInv
<1> QED
  BY <1>2, <1>3, <1>4, <1>5, <1>6, <1>7, <1>8, <1>9
     DEF Next, Broadcast, EndBroadcast, Visit, Write, WriterExits, clientVars, envVars
------------------------------------------------------------------------------
(* The race.                                                               *)

LEMMA CoveredStep ==
  ASSUME TypeOK, BroadcastInv, OfferInv, Next, NEW c \in Clients, Covered(c)
  PROVE  Covered(c)'
<1>1. /\ version \in [Envs -> Versions] /\ env \in [Clients -> Envs \cup {None}]
      /\ offered \in [Clients -> -1..MaxVersion] /\ seed \in [Clients -> Versions]
      /\ reader \in [Clients -> {"off", "read", "seed", "push", "exit", "gone"}]
      /\ polling \in [Envs -> BOOLEAN] /\ locked \in [Envs -> BOOLEAN]
      /\ todo \in [Envs -> SUBSET Clients] /\ target \in [Envs -> Clients \cup {None}]
      /\ None \notin Envs \cup Clients /\ \A v \in Versions : v \in Nat
      /\ \A i \in Clients : offered[i] \in Int
  BY DEF TypeOK, Versions
<1>2. ASSUME NEW e \in Envs, Poll(e) PROVE Covered(c)'
  <2>1. /\ polling' = [polling EXCEPT ![e] = TRUE] /\ ~locked[e] /\ locked' = locked
        /\ \A i \in Envs \ {e} : version'[i] = version[i]
        /\ UNCHANGED <<todo, target, registered, env, reader, seed, offered>>
    BY <1>1, <1>2 DEF Poll, BroadcastInv, clientVars
  <2> QED
    BY <1>1, <2>1 DEF Covered
<1>3. ASSUME NEW e \in Envs, Broadcast(e) PROVE Covered(c)'
  <2>1. /\ locked' = [locked EXCEPT ![e] = TRUE] /\ todo' = [todo EXCEPT ![e] = registered]
        /\ UNCHANGED <<version, polling, target, registered, env, reader, seed, offered>>
    BY <1>3 DEF Broadcast, clientVars
  <2> QED
    BY <1>1, <2>1 DEF Covered
<1>4. ASSUME NEW e \in Envs, NEW d \in Clients, Visit(e, d) PROVE Covered(c)'
  <2>1. /\ todo' = [todo EXCEPT ![e] = @ \ {d}] /\ target[e] = None
        /\ target' = [target EXCEPT ![e] = IF env[d] = e THEN d ELSE None]
        /\ UNCHANGED <<version, polling, locked, registered, env, reader, seed, offered>>
    BY <1>4 DEF Visit, clientVars
  <2> QED
    BY <1>1, <2>1 DEF Covered
<1>5. ASSUME NEW e \in Envs, DeliverTo(e) PROVE Covered(c)'
  <2>1. /\ target[e] \in Clients /\ [env |-> e, v |-> sending[e]] \in Messages
        /\ sending[e] = version[e] /\ registered' = registered
        /\ target' = [target EXCEPT ![e] = None]
        /\ UNCHANGED <<version, polling, locked, todo, env, reader, seed>>
    BY <1>1, <1>5 DEF DeliverTo, TypeOK, Messages, BroadcastInv, Deliver
  <2>2. /\ \A d \in Clients \ {target[e]} : offered'[d] = offered[d]
        /\ env[target[e]] # e => offered'[target[e]] = offered[target[e]]
        /\ env[target[e]] = e =>
             offered'[target[e]] = IF version[e] > offered[target[e]] THEN version[e]
                                   ELSE offered[target[e]]
    BY <1>5, <2>1, DeliverOffers DEF DeliverTo
  <2>3. env[target[e]] = e => offered'[target[e]] = version[e]
    <3>1. env[target[e]] = e => offered[target[e]] <= version[e]
      BY <1>1, <2>1 DEF OfferInv
    <3>2. version[e] \in Nat /\ offered[target[e]] \in Int
      BY <1>1, <2>1
    <3> QED
      BY <2>2, <3>1, <3>2
  <2> QED
    BY <1>1, <2>1, <2>2, <2>3 DEF Covered
<1>6. ASSUME NEW e \in Envs, EndBroadcast(e) PROVE Covered(c)'
  <2>1. /\ locked[e] /\ target[e] = None /\ todo[e] = {}
        /\ polling' = [polling EXCEPT ![e] = FALSE]
        /\ locked' = [locked EXCEPT ![e] = FALSE]
        /\ UNCHANGED <<version, todo, target, registered, env, reader, seed, offered>>
    BY <1>6 DEF EndBroadcast, clientVars
  <2> QED
    BY <1>1, <2>1 DEF Covered
<1>7. ASSUME NEW d \in Clients, PushSeed(d) PROVE Covered(c)'
  <2>1. /\ env[d] \in Envs /\ [env |-> env[d], v |-> seed[d]] \in Messages
        /\ seed[d] <= version[env[d]] /\ offered[d] <= version[env[d]]
        /\ version[env[d]] \in Nat /\ offered[d] \in Int /\ seed[d] \in Nat
    BY <1>1, <1>7 DEF PushSeed, TypeOK, Messages, OfferInv
  <2>2. /\ \A i \in Clients \ {d} : offered'[i] = offered[i]
        /\ offered'[d] = IF seed[d] > offered[d] THEN seed[d] ELSE offered[d]
    BY <1>7, <2>1, DeliverOffers DEF PushSeed
  <2>3. /\ reader' = [reader EXCEPT ![d] = "read"] /\ registered' = registered
        /\ UNCHANGED <<version, polling, locked, todo, target, env, seed>>
        /\ reader[d] = "push"
    BY <1>7 DEF PushSeed, envVars, Deliver
  <2>4. offered[d] = version[env[d]] \/ seed[d] = version[env[d]]
           => offered'[d] = version[env[d]]
    BY <2>1, <2>2
  <2> QED
    BY <1>1, <2>1, <2>2, <2>3, <2>4 DEF Covered
<1>8. ASSUME NEW d \in Clients, ReadSeed(d) PROVE Covered(c)'
  <2>1. /\ seed' = [seed EXCEPT ![d] = version[env[d]]]
        /\ reader' = [reader EXCEPT ![d] = "push"]
        /\ UNCHANGED <<version, polling, locked, todo, target, registered, env, offered>>
    BY <1>8 DEF ReadSeed, envVars
  <2> QED
    BY <1>1, <2>1 DEF Covered
<1>9. ASSUME NEW d \in Clients, NEW e \in Envs, Subscribe(d, e) PROVE Covered(c)'
  BY <1>1, <1>9 DEF Subscribe, Covered, envVars
<1>10. ASSUME NEW d \in Clients, Connect(d) PROVE Covered(c)'
  BY <1>1, <1>10 DEF Connect, Covered, envVars
<1>11. ASSUME NEW d \in Clients, ReadFails(d) \/ Unregister(d) PROVE Covered(c)'
  BY <1>1, <1>11 DEF ReadFails, Unregister, Covered, envVars
<1>12. ASSUME NEW d \in Clients, Write(d) \/ WriterExits(d) PROVE Covered(c)'
  BY <1>12 DEF Write, WriterExits, Covered, envVars
<1> QED
  BY <1>2, <1>3, <1>4, <1>5, <1>6, <1>7, <1>8, <1>9, <1>10, <1>11, <1>12 DEF Next
------------------------------------------------------------------------------
LEMMA Initially == Init => IInv
<1> SUFFICES ASSUME Init PROVE IInv
  OBVIOUS
<1>1. TypeOK
  <2>1. <<>> \in Seq(Messages) /\ Len(<<>>) = 0 /\ 0 \in Versions
    BY DEF Versions
  <2> QED
    BY <2>1 DEF Init, TypeOK
<1>2. BroadcastInv /\ OfferInv /\ \A c \in Clients : Covered(c)
  BY DEF Init, BroadcastInv, OfferInv, Covered
<1> QED
  BY <1>1, <1>2 DEF IInv

LEMMA Inductive == ASSUME IInv, [Next]_vars PROVE IInv'
<1>1. CASE Next
  <2>1. TypeOK'
    BY <1>1, ClusterTypes, ClientTypes DEF Next, IInv
  <2>2. BroadcastInv' /\ OfferInv'
    BY <1>1, BroadcastStep, OfferStep DEF IInv
  <2>3. \A c \in Clients : Covered(c)'
    BY <1>1, CoveredStep DEF IInv
  <2> QED
    BY <2>1, <2>2, <2>3 DEF IInv
<1>2. CASE UNCHANGED vars
  BY <1>2 DEF IInv, TypeOK, BroadcastInv, OfferInv, Covered, vars, envVars, clientVars
<1> QED
  BY <1>1, <1>2

LEMMA Invariance == Spec => []IInv
<1>1. IInv /\ [Next]_vars => IInv'
  BY Inductive
<1> QED
  BY Initially, <1>1, PTL DEF Spec

(* Types, with the bound of every client's queue (sendBufLen).             *)
THEOREM TypeCorrect == Spec => []TypeOK
<1>1. IInv => TypeOK
  BY DEF IInv
<1> QED
  BY Invariance, <1>1, PTL

(* However subscriptions, seeds and broadcasts overtake each other, a      *)
(* client that is at rest has been offered its cluster's newest snapshot   *)
(* (the subscribe hook of main.go reads after setEnv).                     *)
THEOREM SubscribersCurrent == Spec => []LatestOffered
<1>1. IInv => LatestOffered
  BY DEF IInv, Covered, LatestOffered, TypeOK
<1> QED
  BY Invariance, <1>1, PTL
==============================================================================
