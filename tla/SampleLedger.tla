---------------------------- MODULE SampleLedger ----------------------------
(***************************************************************************)
(* What the metrics pipeline promises about samples, without its queue, its*)
(* locks and its goroutines: a sample that is handed in is either dropped  *)
(* at once or queued; a queued one is written or fails, once; none is taken*)
(* after the shutdown began; and the shutdown ends with nothing queued.    *)
(***************************************************************************)
CONSTANT Samples
VARIABLES fate, phase

Fates == {"new", "queued", "dropped", "written", "failed"}

LedgerTypeOK ==
  /\ fate \in [Samples -> Fates]
  /\ phase \in {"open", "closing", "closed"}

Init == fate = [s \in Samples |-> "new"] /\ phase = "open"

Move(s, from, to) == fate[s] = from /\ fate' = [fate EXCEPT ![s] = to]

Accept(s) == phase = "open" /\ Move(s, "new", "queued") /\ UNCHANGED phase
Drop(s)   == Move(s, "new", "dropped") /\ UNCHANGED phase
Settle(s) ==
  /\ phase # "closed"
  /\ Move(s, "queued", "written") \/ Move(s, "queued", "failed")
  /\ UNCHANGED phase
Close  == phase = "open" /\ phase' = "closing" /\ UNCHANGED fate
Finish ==
  /\ phase = "closing" /\ phase' = "closed"
  /\ \A s \in Samples : fate[s] # "queued"
  /\ UNCHANGED fate

Next == Close \/ Finish \/ \E s \in Samples : Accept(s) \/ Drop(s) \/ Settle(s)

Spec == Init /\ [][Next]_<<fate, phase>>
==============================================================================
