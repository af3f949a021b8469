---------------------------- MODULE ProcessProofs -----------------------------
(***************************************************************************)
(* MetricsWriter for every set of samples, every capacity and every number *)
(* of cleanup ticks: types, the drained queue, the implementation of       *)
(* SampleLedger, and the count of drops. Process for any number of         *)
(* processes and database files, and for every pipeline: the process runs  *)
(* that pipeline, and what start, crashes and shutdown promise about the   *)
(* database.                                                               *)
(***************************************************************************)
EXTENDS Process, FiniteSetTheorems, TLAPS

Drained(s) == s \in stored \cup lost

(* The queue holds a sample at most once.                                  *)
QueuedOnce ==
  \A i, j \in 1..Len(queue) : queue[i] = queue[j] => i = j

(* A sample is in at most one of the queue, the writer's hands, the        *)
(* database and the failures.                                              *)
OnePlace ==
  /\ stored \cap lost = {}
  /\ \A s \in Samples : Queued(s) => s # current /\ ~Drained(s)
  /\ current \in Samples => ~Drained(current)

(* Those are the samples whose Submit passed the send.                     *)
SentSamples ==
  \A s \in Samples :
    /\ Queued(s) \/ s = current \/ Drained(s) => sub[s] \in {"sent", "returned"}
    /\ sub[s] = "sent" => Queued(s) \/ s = current \/ Drained(s)

(* stopped is set, and nobody is about to send, once the drain has begun.  *)
DrainIsClosed ==
  /\ stopped <=> wpc \in {"drain", "drainPersist", "done"}
  /\ stopped => \A s \in Samples : sub[s] # "locked"
  /\ wpc = "done" => queue = <<>>
  /\ current # None <=> wpc \in {"persist", "drainPersist"}

IInv == TypeOK /\ QueuedOnce /\ OnePlace /\ SentSamples /\ DrainIsClosed

USE DEF SubGoto

(***************************************************************************)
(* The queue: what an append and a removal do to its elements.             *)
(***************************************************************************)
LEMMA AppendElements ==
  ASSUME NEW S, NEW q \in Seq(S), NEW s \in S,
         \A i, j \in 1..Len(q) : q[i] = q[j] => i = j,
         \A i \in 1..Len(q) : q[i] # s
  PROVE  /\ Append(q, s) \in Seq(S) /\ Len(Append(q, s)) = Len(q) + 1
         /\ \A i, j \in 1..Len(Append(q, s)) :
              Append(q, s)[i] = Append(q, s)[j] => i = j
         /\ \A t : (\E i \in 1..Len(Append(q, s)) : Append(q, s)[i] = t)
                     <=> (\E i \in 1..Len(q) : q[i] = t) \/ t = s
OBVIOUS

LEMMA TailElements ==
  ASSUME NEW S, NEW q \in Seq(S), q # <<>>,
         \A i, j \in 1..Len(q) : q[i] = q[j] => i = j
  PROVE  /\ Tail(q) \in Seq(S) /\ Len(Tail(q)) = Len(q) - 1 /\ Head(q) \in S
         /\ \A i, j \in 1..Len(Tail(q)) : Tail(q)[i] = Tail(q)[j] => i = j
         /\ \A t : (\E i \in 1..Len(q) : q[i] = t)
                     <=> (\E i \in 1..Len(Tail(q)) : Tail(q)[i] = t) \/ t = Head(q)
         /\ \A i \in 1..Len(Tail(q)) : Tail(q)[i] # Head(q)
<1>1. Len(q) \in Nat \ {0} /\ Head(q) = q[1]
  OBVIOUS
<1>2. Tail(q) \in Seq(S) /\ Len(Tail(q)) = Len(q) - 1
      /\ \A i \in 1..Len(Tail(q)) : Tail(q)[i] = q[i + 1]
  OBVIOUS
<1>3. ASSUME NEW t
      PROVE  (\E i \in 1..Len(q) : q[i] = t)
               <=> (\E i \in 1..Len(Tail(q)) : Tail(q)[i] = t) \/ t = Head(q)
  <2>1. ASSUME NEW i \in 1..Len(q), q[i] = t, t # Head(q)
        PROVE  \E j \in 1..Len(Tail(q)) : Tail(q)[j] = t
    <3>1. i - 1 \in 1..Len(Tail(q)) /\ Tail(q)[i - 1] = t
      BY <1>1, <1>2, <2>1
    <3> QED
      BY <3>1
  <2>2. ASSUME NEW i \in 1..Len(Tail(q)), Tail(q)[i] = t
        PROVE  \E j \in 1..Len(q) : q[j] = t
    <3>1. i + 1 \in 1..Len(q) /\ q[i + 1] = t
      BY <1>1, <1>2, <2>2
    <3> QED
      BY <3>1
  <2>3. 1 \in 1..Len(q)
    BY <1>1
  <2> QED
    BY <1>1, <2>1, <2>2, <2>3
<1>4. \A i, j \in 1..Len(Tail(q)) : Tail(q)[i] = Tail(q)[j] => i = j
  BY <1>1, <1>2
<1>5. \A i \in 1..Len(Tail(q)) : Tail(q)[i] # Head(q)
  BY <1>1, <1>2
<1> QED
  BY <1>1, <1>2, <1>3, <1>4, <1>5

(***************************************************************************)
(* Types.                                                                  *)
(***************************************************************************)
LEMMA InitType == Init => TypeOK
<1> SUFFICES ASSUME Init PROVE TypeOK
  OBVIOUS
<1> USE WriterAssumption DEF Init, WriterAssumption
<1>1. SubmitTypeOK
  BY DEF SubmitTypeOK
<1>2. WriterTypeOK
  BY DEF WriterTypeOK
<1>3. CleanupTypeOK
  <2>1. cleanups \in 0..MaxCleanups
    OBVIOUS
  <2> QED
    BY <2>1 DEF CleanupTypeOK
<1> QED
  BY <1>1, <1>2, <1>3 DEF TypeOK

LEMMA SubmitType ==
  ASSUME WriterAssumption, TypeOK, [Next]_vars
  PROVE  SubmitTypeOK'
<1> USE DEF WriterAssumption, TypeOK, SubmitTypeOK
<1>1. ASSUME NEW s \in Samples, Enter(s) PROVE SubmitTypeOK'
  BY <1>1 DEF Enter
<1>2. ASSUME NEW s \in Samples, Send(s) PROVE SubmitTypeOK'
  <2>1. CASE Len(queue) < Capacity
    <3>1. queue' \in Seq(Samples) /\ Len(queue') <= Capacity
      BY <1>2, <2>1 DEF Send
    <3>2. sub' \in [Samples -> {"new", "locked", "sent", "rejected", "counted", "returned"}]
      BY <1>2, <2>1 DEF Send
    <3> QED
      BY <1>2, <3>1, <3>2 DEF Send
  <2>2. CASE ~(Len(queue) < Capacity)
    BY <1>2, <2>2 DEF Send
  <2> QED
    BY <2>1, <2>2
<1>3. ASSUME NEW s \in Samples, Stamp(s) PROVE SubmitTypeOK'
  BY <1>3 DEF Stamp
<1>4. ASSUME NEW s \in Samples, CountDrop(s) \/ CountTotal(s) PROVE SubmitTypeOK'
  BY <1>4 DEF CountDrop, CountTotal
<1>5. CASE Receive
  <2>1. queue' \in Seq(Samples) /\ Len(queue') <= Capacity
    BY <1>5 DEF Receive
  <2> QED
    BY <1>5, <2>1 DEF Receive, submitVars
<1>6. CASE ResetOldest \/ Report
  BY <1>6 DEF ResetOldest, Report
<1>7. CASE UNCHANGED <<submitVars, queue>>
  BY <1>7 DEF submitVars
<1> QED
  BY <1>1, <1>2, <1>3, <1>4, <1>5, <1>6, <1>7
     DEF Next, SubmitStep, WriterStep, vars, Persist, CheckEmpty, SetStopped, Finish,
         Cleanup, SeeCancel, PruneEnds, Cancel

LEMMA WriterType ==
  ASSUME WriterAssumption, TypeOK, DrainIsClosed, [Next]_vars
  PROVE  WriterTypeOK'
<1> USE DEF WriterAssumption, TypeOK, WriterTypeOK
<1>1. CASE Receive
  <2>1. Head(queue) \in Samples
    BY <1>1 DEF Receive, SubmitTypeOK
  <2> QED
    BY <1>1, <2>1 DEF Receive
<1>2. CASE Persist
  <2>1. current \in Samples
    BY <1>2 DEF Persist, DrainIsClosed
  <2> QED
    BY <1>2, <2>1 DEF Persist
<1>3. CASE CheckEmpty \/ ResetOldest \/ Cleanup \/ Report \/ SeeCancel
  BY <1>3 DEF CheckEmpty, ResetOldest, Cleanup, Report, SeeCancel
<1>4. CASE SetStopped \/ Finish \/ Cancel
  BY <1>4 DEF SetStopped, Finish, Cancel, writerVars
<1>5. CASE UNCHANGED <<writerVars, cancelled>>
  BY <1>5 DEF writerVars
<1> QED
  BY <1>1, <1>2, <1>3, <1>4, <1>5
     DEF Next, SubmitStep, WriterStep, vars, Enter, Send, Stamp, CountDrop, CountTotal,
         PruneEnds

LEMMA CleanupType ==
  ASSUME WriterAssumption, TypeOK, [Next]_vars
  PROVE  CleanupTypeOK'
<1> USE DEF WriterAssumption, TypeOK, CleanupTypeOK
<1>1. CASE Cleanup
  <2>1. cleanups' \in 0..MaxCleanups
    BY <1>1 DEF Cleanup
  <2>2. pruning' \in BOOLEAN /\ reported' = reported
    BY <1>1 DEF Cleanup
  <2>3. pruners' \in Nat
    BY <1>1 DEF Cleanup
  <2> QED
    BY <2>1, <2>2, <2>3
<1>2. CASE Report
  <2>1. reported' \in Nat
    BY <1>2 DEF Report, SubmitTypeOK
  <2> QED
    BY <1>2, <2>1 DEF Report
<1>3. CASE PruneEnds
  <2>1. pruners' \in Nat
    BY <1>3 DEF PruneEnds
  <2> QED
    BY <1>3, <2>1 DEF PruneEnds
<1>4. CASE UNCHANGED cleanupVars
  BY <1>4 DEF cleanupVars
<1> QED
  BY <1>1, <1>2, <1>3, <1>4
     DEF Next, SubmitStep, WriterStep, vars, Enter, Send, Stamp, CountDrop, CountTotal,
         Receive, Persist, CheckEmpty, ResetOldest, SetStopped, Finish, SeeCancel, Cancel

(***************************************************************************)
(* Where the samples are.                                                  *)
(***************************************************************************)
LEMMA StepPlaces ==
  ASSUME WriterAssumption, IInv, [Next]_vars
  PROVE  (QueuedOnce /\ OnePlace /\ SentSamples)'
<1>0. /\ sub \in [Samples -> {"new", "locked", "sent", "rejected", "counted", "returned"}]
      /\ queue \in Seq(Samples) /\ None \notin Samples /\ current \in Samples \cup {None}
      /\ QueuedOnce /\ OnePlace /\ SentSamples
  BY DEF IInv, TypeOK, SubmitTypeOK, WriterTypeOK, WriterAssumption
<1> USE DEF Drained
<1>1. ASSUME UNCHANGED <<queue, current, stored, lost>>, NEW s \in Samples,
             NEW step, sub' = [sub EXCEPT ![s] = step],
             sub[s] = "sent" => step = "returned",
             sub[s] \notin {"sent", "returned"} => step # "sent",
             sub[s] # "returned"
      PROVE  (QueuedOnce /\ OnePlace /\ SentSamples)'
  <2>1. QueuedOnce' /\ OnePlace' /\ \A t \in Samples : Queued(t)' <=> Queued(t)
    BY <1>0, <1>1 DEF QueuedOnce, OnePlace, Queued
  <2>2. SentSamples'
    BY <1>0, <1>1, <2>1 DEF SentSamples
  <2> QED
    BY <2>1, <2>2
<1>2. ASSUME NEW s \in Samples, Enter(s) PROVE (QueuedOnce /\ OnePlace /\ SentSamples)'
  BY <1>1, <1>2 DEF Enter, writerVars
<1>3. ASSUME NEW s \in Samples, Send(s) PROVE (QueuedOnce /\ OnePlace /\ SentSamples)'
  <2>1. CASE ~(Len(queue) < Capacity)
    BY <1>1, <1>3, <2>1 DEF Send, writerVars
  <2>2. CASE Len(queue) < Capacity
    <3>1. /\ sub[s] = "locked" /\ UNCHANGED <<current, stored, lost>>
          /\ queue' = Append(queue, s) /\ sub' = [sub EXCEPT ![s] = "sent"]
      BY <1>3, <2>2 DEF Send, writerVars
    <3>2. ~Queued(s) /\ s # current /\ ~Drained(s)
      BY <1>0, <3>1 DEF SentSamples
    <3>3. /\ QueuedOnce'
          /\ \A t \in Samples : Queued(t)' <=> Queued(t) \/ t = s
      BY <1>0, <3>1, <3>2, AppendElements DEF QueuedOnce, Queued
    <3>4. OnePlace'
      BY <1>0, <3>1, <3>2, <3>3 DEF OnePlace
    <3>5. SentSamples'
      BY <1>0, <3>1, <3>3 DEF SentSamples
    <3> QED
      BY <3>3, <3>4, <3>5
  <2> QED
    BY <2>1, <2>2
<1>4. ASSUME NEW s \in Samples, Stamp(s) \/ CountDrop(s) \/ CountTotal(s)
      PROVE  (QueuedOnce /\ OnePlace /\ SentSamples)'
  BY <1>1, <1>4 DEF Stamp, CountDrop, CountTotal, writerVars
<1>5. CASE Receive
  <2>1. /\ queue # <<>> /\ queue' = Tail(queue) /\ current' = Head(queue)
        /\ UNCHANGED <<sub, stored, lost>>
        /\ current = None
    BY <1>5 DEF Receive, submitVars, IInv, DrainIsClosed
  <2>2. /\ \A i, j \in 1..Len(queue') : queue'[i] = queue'[j] => i = j
        /\ \A t : (\E i \in 1..Len(queue) : queue[i] = t)
                    <=> (\E i \in 1..Len(queue') : queue'[i] = t) \/ t = current'
        /\ current' \in Samples
        /\ \A i \in 1..Len(queue') : queue'[i] # current'
    <3>1. queue \in Seq(Samples) /\ \A i, j \in 1..Len(queue) : queue[i] = queue[j] => i = j
      BY <1>0 DEF QueuedOnce
    <3>2. /\ Head(queue) \in Samples
          /\ \A i, j \in 1..Len(Tail(queue)) : Tail(queue)[i] = Tail(queue)[j] => i = j
          /\ \A t : (\E i \in 1..Len(queue) : queue[i] = t)
                      <=> (\E i \in 1..Len(Tail(queue)) : Tail(queue)[i] = t)
                          \/ t = Head(queue)
          /\ \A i \in 1..Len(Tail(queue)) : Tail(queue)[i] # Head(queue)
      BY <2>1, <3>1, TailElements, Zenon
    <3> QED
      BY <2>1, <3>2, Zenon
  <2>3. QueuedOnce'
    BY <2>2 DEF QueuedOnce
  <2>4. \A t \in Samples : /\ Queued(t) <=> Queued(t)' \/ t = current'
                           /\ Queued(t)' => t # current'
    BY <2>2 DEF Queued
  <2>5. OnePlace'
    BY <1>0, <2>1, <2>2, <2>4 DEF OnePlace
  <2>6. SentSamples'
    BY <1>0, <2>1, <2>2, <2>4 DEF SentSamples
  <2> QED
    BY <2>3, <2>5, <2>6
<1>6. CASE Persist
  <2>1. /\ current \in Samples /\ current' = None /\ UNCHANGED <<sub, queue>>
    BY <1>0, <1>6 DEF Persist, submitVars, IInv, DrainIsClosed
  <2>2. \/ stored' = stored \cup {current} /\ lost' = lost
        \/ lost' = lost \cup {current} /\ stored' = stored
    BY <1>6 DEF Persist
  <2>3. QueuedOnce' /\ \A t \in Samples : Queued(t)' <=> Queued(t)
    BY <1>0, <2>1 DEF QueuedOnce, Queued
  <2>4. OnePlace'
    BY <1>0, <2>1, <2>2, <2>3 DEF OnePlace
  <2>5. SentSamples'
    BY <1>0, <2>1, <2>2, <2>3 DEF SentSamples
  <2> QED
    BY <2>3, <2>4, <2>5
<1>7. CASE UNCHANGED <<sub, queue, current, stored, lost>>
  <2>1. \A t \in Samples : Queued(t)' <=> Queued(t)
    BY <1>7 DEF Queued
  <2> QED
    BY <1>0, <1>7, <2>1 DEF QueuedOnce, OnePlace, SentSamples
<1> QED
  BY <1>2, <1>3, <1>4, <1>5, <1>6, <1>7
     DEF Next, SubmitStep, WriterStep, vars, submitVars, writerVars, CheckEmpty,
         ResetOldest, Cleanup, Report, SeeCancel, SetStopped, Finish, PruneEnds, Cancel

(***************************************************************************)
(* The shutdown.                                                           *)
(***************************************************************************)
LEMMA StepDrain ==
  ASSUME WriterAssumption, IInv, [Next]_vars
  PROVE  DrainIsClosed'
<1>0. /\ sub \in [Samples -> {"new", "locked", "sent", "rejected", "counted", "returned"}]
      /\ queue \in Seq(Samples) /\ None \notin Samples /\ stopped \in BOOLEAN
      /\ DrainIsClosed
  BY DEF IInv, TypeOK, SubmitTypeOK, WriterTypeOK, WriterAssumption
<1> USE DEF DrainIsClosed
<1>1. ASSUME NEW s \in Samples, Enter(s) PROVE DrainIsClosed'
  BY <1>0, <1>1 DEF Enter, writerVars
<1>2. ASSUME NEW s \in Samples, Send(s) PROVE DrainIsClosed'
  BY <1>0, <1>2 DEF Send, writerVars
<1>3. ASSUME NEW s \in Samples, Stamp(s) \/ CountDrop(s) \/ CountTotal(s)
      PROVE  DrainIsClosed'
  BY <1>0, <1>3 DEF Stamp, CountDrop, CountTotal, writerVars
<1>4. CASE Receive
  <2>1. Head(queue) \in Samples
    BY <1>0, <1>4 DEF Receive
  <2> QED
    BY <1>0, <1>4, <2>1 DEF Receive, submitVars
<1>5. CASE Persist
  BY <1>0, <1>5 DEF Persist, submitVars
<1>6. CASE CheckEmpty \/ ResetOldest \/ Cleanup \/ Report \/ SeeCancel
  BY <1>0, <1>6 DEF CheckEmpty, ResetOldest, Cleanup, Report, SeeCancel, submitVars
<1>7. CASE SetStopped
  BY <1>0, <1>7 DEF SetStopped, submitVars, Reading
<1>8. CASE Finish
  BY <1>0, <1>8 DEF Finish, submitVars
<1>9. CASE UNCHANGED <<sub, queue, stopped, wpc, current>>
  BY <1>0, <1>9
<1> QED
  BY <1>1, <1>2, <1>3, <1>4, <1>5, <1>6, <1>7, <1>8, <1>9
     DEF Next, SubmitStep, WriterStep, vars, submitVars, writerVars, PruneEnds, Cancel

LEMMA InitIInv == Init => IInv
<1> SUFFICES ASSUME Init PROVE IInv
  OBVIOUS
<1>1. TypeOK
  BY InitType
<1>2. \A s \in Samples : ~Queued(s) /\ s # current /\ ~Drained(s) /\ sub[s] = "new"
  BY WriterAssumption DEF Init, Queued, Drained, WriterAssumption
<1>3. QueuedOnce /\ OnePlace /\ SentSamples
  BY <1>2 DEF Init, QueuedOnce, OnePlace, SentSamples
<1>4. DrainIsClosed
  BY DEF Init, DrainIsClosed
<1> QED
  BY <1>1, <1>3, <1>4 DEF IInv

LEMMA StepIInv == IInv /\ [Next]_vars => IInv'
BY WriterAssumption, SubmitType, WriterType, CleanupType, StepPlaces, StepDrain
   DEF IInv, TypeOK

(* Every variable of the pipeline keeps its type, the queue its capacity.  *)
THEOREM TypeCorrect == Spec => []TypeOK
<1>1. IInv => TypeOK
  BY DEF IInv
<1>2. QED
  BY <1>1, InitIInv, StepIInv, PTL DEF Spec

CallPlaces == {"new", "locked", "sent", "rejected", "counted", "returned"}

(* The calls between their two increments: one enters, one leaves, or the  *)
(* set stays as it is.                                                     *)
LEMMA CountedMoves ==
  ASSUME NEW s \in Samples, sub \in [Samples -> CallPlaces], NEW place \in CallPlaces,
         sub' = [sub EXCEPT ![s] = place]
  PROVE  {r \in Samples : sub'[r] = "counted"}
           = IF place = "counted" THEN {r \in Samples : sub[r] = "counted"} \cup {s}
             ELSE {r \in Samples : sub[r] = "counted"} \ {s}
OBVIOUS

LEMMA StepDrops ==
  ASSUME TypeOK, DropsReportedOnce, [Next]_vars
  PROVE  DropsReportedOnce'
<1> DEFINE Counted == {r \in Samples : sub[r] = "counted"}
<1>1. /\ dropped \in Nat /\ droppedTotal \in Nat /\ reported \in Nat
      /\ sub \in [Samples -> CallPlaces]
  BY DEF CallPlaces, TypeOK, SubmitTypeOK, CleanupTypeOK
<1>2. IsFiniteSet(Counted) /\ Cardinality(Counted) \in Nat
  BY WriterAssumption, FS_Subset, FS_CardinalityType
<1>3. reported + dropped = droppedTotal + Cardinality(Counted)
  BY DEF DropsReportedOnce
<1> SUFFICES reported' + dropped' = droppedTotal' + Cardinality(Counted')
  BY DEF DropsReportedOnce
<1>4. CASE UNCHANGED <<sub, dropped, droppedTotal, reported>>
  BY <1>3, <1>4
<1>5. CASE Report
  <2>1. reported' = reported + dropped /\ dropped' = 0 /\ UNCHANGED <<sub, droppedTotal>>
    BY <1>5 DEF Report
  <2>2. Counted' = Counted
    BY <2>1
  <2> HIDE DEF Counted
  <2> QED
    BY <1>1, <1>2, <1>3, <2>1, <2>2
<1>6. ASSUME NEW s \in Samples, Enter(s) \/ Send(s) \/ Stamp(s)
      PROVE  reported' + dropped' = droppedTotal' + Cardinality(Counted')
  <2>1. /\ s \notin Counted /\ UNCHANGED <<dropped, droppedTotal, reported>>
    BY <1>6 DEF Enter, Send, Stamp, cleanupVars
  <2>2. PICK p \in CallPlaces \ {"counted"} : sub' = [sub EXCEPT ![s] = p]
    <3>1. {"locked", "rejected", "sent", "returned"} \subseteq CallPlaces \ {"counted"}
      BY DEF CallPlaces
    <3>2. CASE Enter(s)
      BY <3>1, <3>2 DEF Enter
    <3>3. CASE Send(s)
      BY <3>1, <3>3 DEF Send
    <3>4. CASE Stamp(s)
      BY <3>1, <3>4 DEF Stamp
    <3> QED
      BY <1>6, <3>2, <3>3, <3>4
  <2>3. Counted' = Counted
    BY <1>1, <2>1, <2>2, CountedMoves
  <2> HIDE DEF Counted
  <2> QED
    BY <1>3, <2>1, <2>3
<1>7. ASSUME NEW s \in Samples, CountDrop(s)
      PROVE  reported' + dropped' = droppedTotal' + Cardinality(Counted')
  <2>1. /\ s \notin Counted /\ dropped' = dropped + 1
        /\ UNCHANGED <<droppedTotal, reported>> /\ sub' = [sub EXCEPT ![s] = "counted"]
    BY <1>7 DEF CountDrop, cleanupVars
  <2>2. Counted' = Counted \cup {s}
    BY <1>1, <2>1, CountedMoves DEF CallPlaces
  <2> HIDE DEF Counted
  <2>3. Cardinality(Counted') = Cardinality(Counted) + 1
    BY <1>2, <2>1, <2>2, FS_AddElement
  <2> QED
    BY <1>1, <1>2, <1>3, <2>1, <2>3
<1>8. ASSUME NEW s \in Samples, CountTotal(s)
      PROVE  reported' + dropped' = droppedTotal' + Cardinality(Counted')
  <2>1. /\ s \in Counted /\ droppedTotal' = droppedTotal + 1
        /\ UNCHANGED <<dropped, reported>> /\ sub' = [sub EXCEPT ![s] = "returned"]
    BY <1>8 DEF CountTotal, cleanupVars
  <2>2. Counted' = Counted \ {s}
    BY <1>1, <2>1, CountedMoves DEF CallPlaces
  <2> HIDE DEF Counted
  <2>3. Cardinality(Counted') = Cardinality(Counted) - 1
    BY <1>2, <2>1, <2>2, FS_RemoveElement
  <2> QED
    BY <1>1, <1>2, <1>3, <2>1, <2>3
<1>9. Next \/ UNCHANGED vars
  OBVIOUS
<1> HIDE DEF Counted
<1> QED
  BY <1>4, <1>5, <1>6, <1>7, <1>8, <1>9
     DEF Next, SubmitStep, WriterStep, Receive, Persist, CheckEmpty, ResetOldest, SetStopped,
         Finish, Cleanup, SeeCancel, PruneEnds, Cancel, vars, submitVars, writerVars, cleanupVars

(* No drop is reported twice and none is forgotten, although the cleanup   *)
(* tick swaps the counter while calls are raising it, for any number of    *)
(* calls and ticks.                                                        *)
THEOREM DropsCounted == Spec => []DropsReportedOnce
<1>1. Init => DropsReportedOnce
  <2> SUFFICES ASSUME Init PROVE DropsReportedOnce
    OBVIOUS
  <2>1. {s \in Samples : sub[s] = "counted"} = {}
    BY DEF Init
  <2> QED
    BY <2>1, FS_EmptySet DEF Init, DropsReportedOnce
<1>2. DropsReportedOnce /\ TypeOK /\ [Next]_vars => DropsReportedOnce'
  BY StepDrops
<1>3. QED
  BY <1>1, <1>2, TypeCorrect, PTL DEF Spec

(* Run returns with an empty queue, and no Submit can add to it afterwards,*)
(* for any number of clusters that are still polling.                      *)
THEOREM DrainLosesNothing == Spec => []NothingStranded
<1>1. IInv => NothingStranded
  <2> SUFFICES ASSUME DrainIsClosed PROVE NothingStranded
    BY DEF IInv
  <2>1. wpc = "done" => stopped /\ queue = <<>>
    BY DEF DrainIsClosed
  <2> QED
    BY <2>1 DEF DrainIsClosed, NothingStranded
<1>2. QED
  BY <1>1, InitIInv, StepIInv, PTL DEF Spec

(***************************************************************************)
(* The implementation of SampleLedger.                                     *)
(***************************************************************************)
FateMap == [s \in Samples |-> Fate(s)]
Phase == IF wpc = "done" THEN "closed" ELSE IF stopped THEN "closing" ELSE "open"

LEMMA LedgerInit == Init => Ledger!Init
<1> SUFFICES ASSUME Init PROVE Ledger!Init
  OBVIOUS
<1>1. \A s \in Samples : Fate(s) = "new"
  BY WriterAssumption DEF Init, Fate, Queued, WriterAssumption
<1>2. Phase = "open"
  BY DEF Init, Phase
<1> QED
  BY <1>1, <1>2 DEF Ledger!Init, Phase

LEMMA LedgerStep == IInv /\ [Next]_vars => [Ledger!Next]_<<FateMap, Phase>>
<1> SUFFICES ASSUME IInv, [Next]_vars PROVE [Ledger!Next]_<<FateMap, Phase>>
  OBVIOUS
<1>0. /\ sub \in [Samples -> {"new", "locked", "sent", "rejected", "counted", "returned"}]
      /\ queue \in Seq(Samples) /\ None \notin Samples /\ current \in Samples \cup {None}
      /\ QueuedOnce /\ OnePlace /\ SentSamples /\ DrainIsClosed
  BY WriterAssumption DEF IInv, TypeOK, SubmitTypeOK, WriterTypeOK, WriterAssumption
<1> DEFINE Ledger_Move(s, from, to) ==
      /\ Fate(s) = from /\ Fate(s)' = to
      /\ \A t \in Samples \ {s} : Fate(t)' = Fate(t)
<1>1. ASSUME NEW s \in Samples, NEW from, NEW to, Ledger_Move(s, from, to)
      PROVE  Ledger!Move(s, from, to)
  BY <1>1 DEF Ledger!Move
<1>2. ASSUME \A t \in Samples : Fate(t)' = Fate(t), UNCHANGED Phase
      PROVE  [Ledger!Next]_<<FateMap, Phase>>
  <2>1. FateMap' = FateMap
    BY <1>2 DEF FateMap
  <2> QED
    BY <1>2, <2>1
<1>3. ASSUME NEW s \in Samples, Enter(s) PROVE [Ledger!Next]_<<FateMap, Phase>>
  <2>1. \A t \in Samples : Queued(t)' <=> Queued(t)
    BY <1>3 DEF Enter, Queued
  <2>2. CASE stopped
    <3>1. Ledger_Move(s, "new", "dropped")
      BY <1>0, <1>3, <2>1, <2>2 DEF Enter, writerVars, Fate, SentSamples, Drained
    <3>2. UNCHANGED Phase
      BY <1>3 DEF Enter, writerVars, Phase
    <3> QED
      BY <1>1, <3>1, <3>2 DEF Ledger!Next, Ledger!Drop, Phase
  <2>3. CASE ~stopped
    BY <1>0, <1>2, <1>3, <2>1, <2>3 DEF Enter, writerVars, Fate, Phase
  <2> QED
    BY <2>2, <2>3
<1>4. ASSUME NEW s \in Samples, Send(s) PROVE [Ledger!Next]_<<FateMap, Phase>>
  <2>1. sub[s] = "locked" /\ UNCHANGED <<current, stored, lost, wpc, stopped>>
    BY <1>4 DEF Send, writerVars
  <2>2. ~Queued(s) /\ s # current /\ ~Drained(s) /\ Fate(s) = "new"
    BY <1>0, <2>1 DEF SentSamples, Fate, Drained
  <2>3. UNCHANGED Phase /\ Phase = "open"
    BY <1>0, <2>1 DEF Phase, DrainIsClosed
  <2>4. CASE Len(queue) < Capacity
    <3>1. queue' = Append(queue, s) /\ sub' = [sub EXCEPT ![s] = "sent"]
      BY <1>4, <2>4 DEF Send
    <3>2. \A t \in Samples : Queued(t)' <=> Queued(t) \/ t = s
      BY <1>0, <2>2, <3>1, AppendElements DEF QueuedOnce, Queued
    <3>3. Ledger_Move(s, "new", "queued")
      BY <1>0, <2>1, <2>2, <3>1, <3>2 DEF Fate, Drained
    <3> QED
      BY <1>1, <2>3, <3>3 DEF Ledger!Next, Ledger!Accept, Phase
  <2>5. CASE ~(Len(queue) < Capacity)
    <3>1. queue' = queue /\ sub' = [sub EXCEPT ![s] = "rejected"]
      BY <1>4, <2>5 DEF Send
    <3>2. \A t \in Samples : Queued(t)' <=> Queued(t)
      BY <3>1 DEF Queued
    <3>3. Ledger_Move(s, "new", "dropped")
      BY <1>0, <2>1, <2>2, <3>1, <3>2 DEF Fate, Drained
    <3> QED
      BY <1>1, <2>3, <3>3 DEF Ledger!Next, Ledger!Drop, Phase
  <2> QED
    BY <2>4, <2>5
<1>5. ASSUME NEW s \in Samples, Stamp(s) \/ CountDrop(s) \/ CountTotal(s)
      PROVE  [Ledger!Next]_<<FateMap, Phase>>
  <2>1. UNCHANGED <<queue, current, stored, lost, wpc, stopped>>
    BY <1>5 DEF Stamp, CountDrop, CountTotal, writerVars
  <2>2. \A t \in Samples : Queued(t)' <=> Queued(t)
    BY <2>1 DEF Queued
  <2>3. \A t \in Samples : Fate(t)' = Fate(t)
    BY <1>0, <1>5, <2>1, <2>2
       DEF Stamp, CountDrop, CountTotal, Fate, SentSamples, Drained
  <2> QED
    BY <1>2, <2>1, <2>3 DEF Phase
<1>6. CASE Receive
  <2>1. /\ queue # <<>> /\ queue' = Tail(queue) /\ current' = Head(queue)
        /\ UNCHANGED <<sub, stored, lost, stopped>> /\ current = None
        /\ wpc # "done" /\ wpc' # "done"
    BY <1>0, <1>6 DEF Receive, submitVars, DrainIsClosed
  <2>2. \A t : (\E i \in 1..Len(queue) : queue[i] = t)
               <=> (\E i \in 1..Len(queue') : queue'[i] = t) \/ t = current'
    <3>1. queue \in Seq(Samples) /\ \A i, j \in 1..Len(queue) : queue[i] = queue[j] => i = j
      BY <1>0 DEF QueuedOnce
    <3>2. \A t : (\E i \in 1..Len(queue) : queue[i] = t)
                 <=> (\E i \in 1..Len(Tail(queue)) : Tail(queue)[i] = t)
                     \/ t = Head(queue)
      BY <2>1, <3>1, TailElements
    <3> QED
      BY <2>1, <3>2
  <2>3. \A t \in Samples : Queued(t) \/ t = current <=> Queued(t)' \/ t = current'
    BY <1>0, <2>1, <2>2 DEF Queued
  <2>4. \A t \in Samples : Fate(t)' = Fate(t)
    BY <2>1, <2>3 DEF Fate
  <2> QED
    BY <1>2, <2>1, <2>4 DEF Phase
<1>7. CASE Persist
  <2>0. PICK s \in Samples : s = current
    BY <1>0, <1>7 DEF Persist, DrainIsClosed
  <2>1. /\ current' = None /\ UNCHANGED <<sub, queue, stopped>>
        /\ wpc # "done" /\ wpc' # "done"
    BY <1>0, <1>7 DEF Persist, submitVars, DrainIsClosed
  <2>2. \A t \in Samples : Queued(t)' <=> Queued(t)
    BY <2>1 DEF Queued
  <2>3. UNCHANGED Phase /\ Phase # "closed"
    BY <2>1 DEF Phase
  <2>4. Fate(s) = "queued"
    BY <1>0, <2>0, <2>1 DEF OnePlace, Fate, Drained
  <2>5. CASE stored' = stored \cup {current} /\ lost' = lost
    <3>1. Ledger_Move(s, "queued", "written")
      BY <1>0, <2>0, <2>1, <2>2, <2>4, <2>5 DEF Fate
    <3> QED
      BY <1>1, <2>1, <2>3, <3>1 DEF Ledger!Next, Ledger!Settle, Phase
  <2>6. CASE lost' = lost \cup {current} /\ stored' = stored
    <3>1. Ledger_Move(s, "queued", "failed")
      BY <1>0, <2>0, <2>1, <2>2, <2>4, <2>6 DEF Fate, OnePlace, Drained
    <3> QED
      BY <1>1, <2>1, <2>3, <3>1 DEF Ledger!Next, Ledger!Settle, Phase
  <2> QED
    BY <1>7, <2>5, <2>6 DEF Persist
<1>8. CASE UNCHANGED <<sub, queue, current, stored, lost>>
  <2>1. \A t \in Samples : Queued(t)' <=> Queued(t)
    BY <1>8 DEF Queued
  <2>2. \A t \in Samples : Fate(t)' = Fate(t)
    BY <1>8, <2>1 DEF Fate
  <2>3. CASE SetStopped
    <3>1. Phase = "open" /\ Phase' = "closing"
      BY <1>0, <2>3 DEF SetStopped, Phase, DrainIsClosed
    <3>2. FateMap' = FateMap
      BY <2>2 DEF FateMap
    <3> QED
      BY <3>1, <3>2 DEF Ledger!Next, Ledger!Close, Phase, FateMap
  <2>4. CASE Finish
    <3>1. Phase = "closing" /\ Phase' = "closed"
      BY <1>0, <2>4 DEF Finish, Phase, DrainIsClosed
    <3>2. \A t \in Samples : ~Queued(t) /\ t # current
      BY <1>0, <2>4 DEF Finish, Queued, DrainIsClosed
    <3>3. FateMap' = FateMap /\ \A t \in Samples : FateMap[t] # "queued"
      BY <2>2, <3>2 DEF FateMap, Fate
    <3> QED
      BY <3>1, <3>3 DEF Ledger!Next, Ledger!Finish, Phase, FateMap
  <2>5. CASE UNCHANGED <<stopped, wpc>> \/ (stopped' = stopped /\ wpc # "done" /\ wpc' # "done")
    BY <1>2, <2>2, <2>5 DEF Phase
  <2> QED
    BY <1>8, <2>3, <2>4, <2>5
       DEF Next, SubmitStep, WriterStep, vars, submitVars, writerVars, Enter, Send,
           Stamp, CountDrop, CountTotal, Receive, Persist, CheckEmpty, ResetOldest,
           Cleanup, Report, SeeCancel, PruneEnds, Cancel
<1> QED
  BY <1>3, <1>4, <1>5, <1>6, <1>7, <1>8
     DEF Next, SubmitStep, WriterStep, vars, submitVars, writerVars, CheckEmpty,
         ResetOldest, Cleanup, Report, SeeCancel, SetStopped, Finish, PruneEnds, Cancel

(* The pipeline implements SampleLedger: whatever the interleaving of polls*)
(* and shutdown, a sample has one fate, and none is queued at the end.     *)
THEOREM ImplementsLedger == Spec => KeepsLedger
<1>1. Init => Ledger!Init
  BY LedgerInit
<1>2. IInv /\ [Next]_vars => [Ledger!Next]_<<FateMap, Phase>>
  BY LedgerStep
<1>3. Spec => Ledger!Init /\ [][Ledger!Next]_<<FateMap, Phase>>
  BY <1>1, <1>2, InitIInv, StepIInv, PTL DEF Spec
<1>4. QED
  BY <1>3, PTL DEF KeepsLedger, Ledger!Spec, FateMap, Phase

(***************************************************************************)
(* The process.                                                            *)
(***************************************************************************)

(* What the ledger names has been applied, and who is past Open found every*)
(* version in it.                                                          *)
SchemaInv ==
  /\ ledger \subseteq Versions /\ parts \subseteq Schema
  /\ \A v \in ledger : Adds[v] \subseteq parts
  /\ \A p \in Procs : at[p] \notin {"down", "migrate"} => Versions \subseteq ledger

(* From Open to the end of Close a process holds the lock.                 *)
LockInv == \A p \in Procs : at[p] \notin {"down", "closed"} => lock = p

(* No call is under way once the loops have returned, and a drained        *)
(* shutdown has seen loops and writer return.                              *)
StopInv ==
  /\ polling \/ \A s \in Samples : sub[s] \in {"new", "returned"}
  /\ exit = "drained" => ~polling /\ wpc = "done"

PInv ==
  /\ IInv
  /\ at \in [Procs -> Places] /\ SchemaInv /\ LockInv /\ StopInv

USE DEF Goto

(***************************************************************************)
(* The pipeline inside the process.                                        *)
(***************************************************************************)
LEMMA RunsPipeline ==
  ASSUME IInv, [ProcessNext]_pvars
  PROVE  [Next]_vars
<1>1. cancelled \in BOOLEAN
  BY DEF IInv, TypeOK, WriterTypeOK
<1>2. CASE HttpDown \/ ServeFails
  <2>1. cancelled' = TRUE /\ UNCHANGED <<submitVars, queue, writerVars, cleanupVars>>
    BY <1>2 DEF HttpDown, ServeFails
  <2>2. CASE cancelled
    BY <1>1, <2>1, <2>2 DEF vars
  <2>3. CASE ~cancelled
    BY <2>1, <2>3 DEF Next, Cancel
  <2> QED
    BY <2>2, <2>3
<1>3. CASE Pipeline
  BY <1>3 DEF Pipeline, Calls, Writes, Next, WriterStep
<1>4. CASE UNCHANGED vars
  BY <1>4
<1> QED
  BY <1>2, <1>3, <1>4
     DEF ProcessNext, pvars, Open, Migrate, Migrated, StartFails, Serve, Kill,
         HandlerBegins, HandlerEnds, Signal, Timeout, LoopsEnd, DrainDone, GiveUp,
         CloseStore, Exit

(* The writer never leaves its end.                                        *)
LEMMA DoneStays ==
  ASSUME wpc = "done", [Next]_vars
  PROVE  wpc' = "done" /\ stored' = stored
BY DEF Next, SubmitStep, WriterStep, vars, submitVars, writerVars, Enter, Send, Stamp,
       CountDrop, CountTotal, Receive, Persist, CheckEmpty, ResetOldest, Cleanup, Report,
       SeeCancel, SetStopped, Finish, PruneEnds, Cancel

(* Once the loops have returned the calls stay as they are.                *)
LEMMA CallsOver ==
  ASSUME ~polling, \A s \in Samples : sub[s] \in {"new", "returned"}, [ProcessNext]_pvars
  PROVE  sub' = sub
<1>1. CASE Pipeline
  <2>1. ASSUME NEW s \in Samples PROVE ~Calls(s)
    BY DEF Calls, SubmitStep, Enter, Send, Stamp, CountDrop, CountTotal
  <2> QED
    BY <1>1, <2>1
       DEF Pipeline, Writes, submitVars, Receive, Persist, CheckEmpty, ResetOldest, Report,
           SetStopped, Finish, Cleanup, SeeCancel, PruneEnds
<1>2. CASE HttpDown \/ ServeFails
  BY <1>2 DEF HttpDown, ServeFails, submitVars
<1>3. CASE UNCHANGED vars
  BY <1>3 DEF vars, submitVars
<1> QED
  BY <1>1, <1>2, <1>3
     DEF ProcessNext, pvars, Open, Migrate, Migrated, StartFails, Serve, Kill,
         HandlerBegins, HandlerEnds, Signal, Timeout, LoopsEnd, DrainDone, GiveUp,
         CloseStore, Exit

(***************************************************************************)
(* The invariant.                                                          *)
(***************************************************************************)
LEMMA InitPInv == ProcessInit => PInv
<1> SUFFICES ASSUME ProcessInit PROVE PInv
  OBVIOUS
<1>1. IInv
  BY InitIInv DEF ProcessInit
<1>2. at \in [Procs -> Places] /\ \A p \in Procs : at[p] = "down"
  BY DEF ProcessInit, Places
<1>3. SchemaInv
  <2>1. PICK f \in Files : ledger = f.ledger /\ parts = f.parts
    BY DEF ProcessInit
  <2>2. /\ f.ledger \subseteq Versions /\ f.parts \subseteq Schema
        /\ \A v \in f.ledger : Adds[v] \subseteq f.parts
    BY ProcessAssumption
  <2> QED
    BY <1>2, <2>1, <2>2 DEF SchemaInv
<1>4. LockInv
  BY <1>2 DEF LockInv
<1>5. StopInv
  BY DEF StopInv, ProcessInit
<1> QED
  BY <1>1, <1>2, <1>3, <1>4, <1>5 DEF PInv

LEMMA StepAt ==
  ASSUME at \in [Procs -> Places], [ProcessNext]_pvars
  PROVE  at' \in [Procs -> Places]
BY ProcessAssumption
   DEF Places, ProcessNext, pvars, procVars, Open, Migrate, Migrated, StartFails, Serve,
       Kill, HandlerBegins, HandlerEnds, Signal, Timeout, HttpDown, LoopsEnd, DrainDone,
       GiveUp, ServeFails, CloseStore, Exit, Pipeline, Running

LEMMA StepSchema ==
  ASSUME at \in [Procs -> Places], SchemaInv, [ProcessNext]_pvars
  PROVE  SchemaInv'
<1>1. ASSUME NEW p \in Procs, Migrate(p) PROVE SchemaInv'
  <2>1. PICK v \in Versions \ ledger : ledger' = ledger \cup {v} /\ parts' = parts \cup Adds[v]
    BY <1>1 DEF Migrate
  <2>2. Adds[v] \subseteq Schema
    BY DEF Schema
  <2>3. at' = at
    BY <1>1 DEF Migrate
  <2> QED
    BY <2>1, <2>2, <2>3 DEF SchemaInv
<1>2. ASSUME NEW p \in Procs, Migrated(p) PROVE SchemaInv'
  BY <1>2 DEF Migrated, SchemaInv
<1>3. ASSUME NEW p \in Procs, Open(p) \/ StartFails(p) \/ Serve(p) \/ Kill(p) PROVE SchemaInv'
  BY <1>3 DEF Open, StartFails, Serve, Kill, SchemaInv
<1>4. CASE Signal \/ HttpDown \/ DrainDone \/ GiveUp \/ ServeFails \/ CloseStore \/ Exit
  BY <1>4, ProcessAssumption
     DEF Signal, HttpDown, DrainDone, GiveUp, ServeFails, CloseStore, Exit, SchemaInv
<1>5. CASE UNCHANGED <<at, ledger, parts>>
  BY <1>5 DEF SchemaInv
<1> QED
  BY <1>1, <1>2, <1>3, <1>4, <1>5
     DEF ProcessNext, pvars, procVars, HandlerBegins, HandlerEnds, Timeout, LoopsEnd,
         Pipeline, Running

LEMMA StepLock ==
  ASSUME at \in [Procs -> Places], LockInv, [ProcessNext]_pvars
  PROVE  LockInv'
<1> USE ProcessAssumption DEF LockInv
<1>1. ASSUME NEW p \in Procs, Open(p) PROVE LockInv'
  BY <1>1 DEF Open
<1>2. ASSUME NEW p \in Procs, Migrate(p) \/ Migrated(p) \/ Serve(p) PROVE LockInv'
  BY <1>2 DEF Migrate, Migrated, Serve
<1>3. ASSUME NEW p \in Procs, StartFails(p) \/ Kill(p) PROVE LockInv'
  BY <1>3 DEF StartFails, Kill
<1>4. CASE Signal \/ HttpDown \/ DrainDone \/ GiveUp \/ ServeFails
  BY <1>4 DEF Signal, HttpDown, DrainDone, GiveUp, ServeFails
<1>5. CASE CloseStore \/ Exit
  BY <1>5 DEF CloseStore, Exit
<1>6. CASE UNCHANGED <<at, lock>>
  BY <1>6
<1> QED
  BY <1>1, <1>2, <1>3, <1>4, <1>5, <1>6
     DEF ProcessNext, pvars, procVars, HandlerBegins, HandlerEnds, Timeout, LoopsEnd,
         Pipeline, Running

LEMMA StepStop ==
  ASSUME IInv, StopInv, [ProcessNext]_pvars
  PROVE  StopInv'
<1>1. [Next]_vars
  BY RunsPipeline
<1>2. wpc = "done" => wpc' = "done"
  BY <1>1, DoneStays
<1>3. ~polling => sub' = sub
  BY CallsOver DEF StopInv
<1>4. CASE LoopsEnd
  BY <1>2, <1>4 DEF LoopsEnd, StopInv, vars, submitVars
<1>5. CASE DrainDone
  BY <1>2, <1>3, <1>5 DEF DrainDone, StopInv
<1>6. CASE GiveUp \/ ServeFails
  BY <1>2, <1>3, <1>6 DEF GiveUp, ServeFails, StopInv
<1>7. CASE UNCHANGED <<polling, exit>>
  BY <1>2, <1>3, <1>7 DEF StopInv
<1> QED
  BY <1>4, <1>5, <1>6, <1>7
     DEF ProcessNext, pvars, procVars, Open, Migrate, Migrated, StartFails, Serve, Kill,
         HandlerBegins, HandlerEnds, Signal, Timeout, HttpDown, CloseStore, Exit, Pipeline,
         Running

LEMMA StepPInv == PInv /\ [ProcessNext]_pvars => PInv'
BY RunsPipeline, StepIInv, StepAt, StepSchema, StepLock, StepStop DEF PInv

(***************************************************************************)
(* The theorems.                                                           *)
(***************************************************************************)

(* The process runs the pipeline of MetricsWriter and nothing else on its  *)
(* variables: what is proved of the pipeline holds of the process.         *)
THEOREM ImplementsPipeline == ProcessSpec => Spec
<1>1. ProcessInit => Init
  BY DEF ProcessInit
<1>2. PInv /\ [ProcessNext]_pvars => [Next]_vars
  BY RunsPipeline DEF PInv
<1>3. QED
  BY <1>1, <1>2, InitPInv, StepPInv, PTL DEF ProcessSpec, Spec

(* ... such as the ledger of the samples, in a process that is signalled,  *)
(* that gives up its wait, and that closes its store under the writer.     *)
THEOREM ProcessKeepsLedger == ProcessSpec => KeepsLedger
BY ImplementsPipeline, ImplementsLedger

(* ... and the drop report.                                                *)
THEOREM ProcessCountsDrops == ProcessSpec => []DropsReportedOnce
BY ImplementsPipeline, DropsCounted, PTL

(* Whatever file was found and wherever earlier starts stopped, a process  *)
(* past Open works on the whole schema.                                    *)
THEOREM WholeSchema == ProcessSpec => []ServesWholeSchema
<1>1. PInv => ServesWholeSchema
  BY DEF PInv, SchemaInv, ServesWholeSchema, Schema
<1>2. QED
  BY <1>1, InitPInv, StepPInv, PTL DEF ProcessSpec

(* A shutdown that reports no incomplete wait has lost no accepted sample, *)
(* for any number of samples, handlers and processes.                      *)
THEOREM CleanStop == ProcessSpec => []CleanStopDrains
<1>1. PInv => CleanStopDrains
  <2> SUFFICES ASSUME PInv, exit = "drained"
               PROVE  /\ wpc = "done" /\ queue = <<>> /\ current = None
                      /\ \A s \in Samples : ~Reading(s)
    BY DEF CleanStopDrains
  <2>1. wpc = "done" /\ \A s \in Samples : sub[s] \in {"new", "returned"}
    BY DEF PInv, StopInv
  <2> QED
    BY <2>1 DEF PInv, IInv, DrainIsClosed, Reading
<1>2. QED
  BY <1>1, InitPInv, StepPInv, PTL DEF ProcessSpec

(* Only the process that holds dashboard.lock changes the database, but    *)
(* for the transaction that an unclean shutdown left open.                 *)
THEOREM OneOwner == ProcessSpec => OwnerWrites
<1> DEFINE Owned ==
  /\ (ledger # ledger' \/ parts # parts') => lock # Free /\ at[lock] = "migrate"
  /\ stored # stored' => \/ lock = Main
                         \/ exit # "drained" /\ stored' = stored \cup {openTx}
<1>1. PInv /\ [ProcessNext]_pvars => [Owned]_pvars
  <2> SUFFICES ASSUME PInv, ProcessNext PROVE Owned
    OBVIOUS
  <2>1. ASSUME NEW p \in Procs, Migrate(p) PROVE Owned
    <3>1. at[p] = "migrate" /\ stored' = stored
      BY <2>1 DEF Migrate, vars, writerVars
    <3>2. lock = p /\ lock # Free
      BY <3>1, ProcessAssumption DEF PInv, LockInv
    <3> QED
      BY <3>1, <3>2
  <2>2. CASE Pipeline /\ stored' # stored
    <3>1. ledger' = ledger /\ parts' = parts /\ Alive
      BY <2>2 DEF Pipeline, Running, procVars
    <3>2. wpc # "done"
      BY <2>2, DoneStays, RunsPipeline DEF PInv
    <3>3. exit # "drained"
      BY <3>2 DEF PInv, StopInv
    <3>4. Persist /\ (StoreOpen \/ current = openTx \/ stored' = stored)
      BY <2>2
         DEF Pipeline, Calls, SubmitStep, Writes, writerVars, Enter, Send, Stamp, CountDrop,
             CountTotal, Receive, CheckEmpty, ResetOldest, Report, SetStopped, Finish,
             Cleanup, SeeCancel, PruneEnds
    <3>5. CASE StoreOpen
      BY <3>1, <3>5, ProcessAssumption DEF Alive, StoreOpen, PInv, LockInv
    <3>6. CASE current = openTx
      BY <2>2, <3>1, <3>3, <3>4, <3>6 DEF Persist
    <3> QED
      BY <2>2, <3>1, <3>4, <3>5, <3>6
  <2>3. CASE UNCHANGED <<ledger, parts, stored>>
    BY <2>3
  <2> QED
    BY <2>1, <2>2, <2>3
       DEF ProcessNext, vars, writerVars, procVars, Open, Migrated, StartFails, Serve, Kill,
           HandlerBegins, HandlerEnds, Signal, Timeout, HttpDown, LoopsEnd, DrainDone,
           GiveUp, ServeFails, CloseStore, Exit, Pipeline, Running
<1>2. QED
  BY <1>1, InitPInv, StepPInv, PTL DEF ProcessSpec, OwnerWrites
===============================================================================
