---------------------------- MODULE MetricsWriter ----------------------------
(***************************************************************************)
(* The metrics pipeline of internal/store/metrics.go: the poll goroutines  *)
(* of the clusters hand samples to MetricsWriter.Submit, the goroutine     *)
(* MetricsWriter.Run writes them to SQLite one by one and, when the context*)
(* is done, refuses new ones and drains the queue. A retention prune runs  *)
(* beside it.                                                              *)
(*                                                                         *)
(* A sample is a model value that is handed in once, by a call of Submit   *)
(* of its own: one poll of one cluster.                                    *)
(***************************************************************************)
EXTENDS Integers, Sequences, FiniteSets

CONSTANTS
  Samples,     \* the samples handed in during one behaviour
  None,        \* no sample
  Capacity,    \* cap(w.ch): 256 in NewMetricsWriter
  MaxCleanups  \* bound on the ticks of the cleanup ticker

ASSUME WriterAssumption ==
  /\ IsFiniteSet(Samples) /\ None \notin Samples
  /\ Capacity \in Nat \ {0} /\ MaxCleanups \in Nat

VARIABLES
  sub,          \* sub[s]: where the call Submit(s) is
  queue,        \* w.ch
  oldest,       \* the sample whose time w.oldestNS holds, None when it is 0
  stopped,      \* w.stopped
  cancelled,    \* ctx is done
  wpc,          \* where Run is
  current,      \* the sample Run is persisting
  stored,       \* the samples whose rows are committed
  lost,         \* the samples whose transaction failed
  written, failed,        \* w.written, w.failed
  dropped, droppedTotal,  \* w.dropped, w.droppedTotal
  reported,     \* history: the sum of the counts logged by the cleanup tick
  pruning,      \* w.pruning
  pruners,      \* goroutines inside deleteOld
  cleanups      \* cleanup ticks so far

submitVars  == <<sub, oldest, dropped, droppedTotal>>
writerVars  == <<wpc, current, stored, lost, written, failed, stopped>>
cleanupVars == <<reported, pruning, pruners, cleanups>>
vars == <<submitVars, queue, writerVars, cleanupVars, cancelled>>

Queued(s) == \E i \in 1..Len(queue) : queue[i] = s

(* Submit holds submitMu for reading.                                      *)
Reading(s) == sub[s] \notin {"new", "returned"}

SubmitTypeOK ==
  /\ sub \in [Samples -> {"new", "locked", "sent", "rejected", "counted", "returned"}]
  /\ queue \in Seq(Samples) /\ Len(queue) <= Capacity
  /\ oldest \in Samples \cup {None}
  /\ dropped \in Nat /\ droppedTotal \in Nat

WriterTypeOK ==
  /\ wpc \in {"select", "persist", "check", "reset", "report", "lock", "drain",
             "drainPersist", "done"}
  /\ current \in Samples \cup {None}
  /\ stored \subseteq Samples /\ lost \subseteq Samples
  /\ written \in Nat /\ failed \in Nat
  /\ stopped \in BOOLEAN /\ cancelled \in BOOLEAN

CleanupTypeOK ==
  /\ reported \in Nat /\ pruning \in BOOLEAN
  /\ pruners \in Nat /\ cleanups \in 0..MaxCleanups

TypeOK == SubmitTypeOK /\ WriterTypeOK /\ CleanupTypeOK

(* NewMetricsWriter.                                                       *)
Init ==
  /\ sub = [s \in Samples |-> "new"] /\ queue = <<>> /\ oldest = None
  /\ dropped = 0 /\ droppedTotal = 0
  /\ wpc = "select" /\ current = None /\ stored = {} /\ lost = {}
  /\ written = 0 /\ failed = 0 /\ stopped = FALSE /\ cancelled = FALSE
  /\ reported = 0 /\ pruning = FALSE /\ pruners = 0 /\ cleanups = 0
------------------------------------------------------------------------------
(* Submit, called by a poll goroutine through onChange.                    *)

SubGoto(s, step) == sub' = [sub EXCEPT ![s] = step]

(* RLock, which a writer waiting for submitMu holds up, and the test of    *)
(* w.stopped.                                                              *)
Enter(s) ==
  /\ sub[s] = "new" /\ wpc # "lock"
  /\ SubGoto(s, IF stopped THEN "rejected" ELSE "locked")
  /\ UNCHANGED <<queue, oldest, dropped, droppedTotal, writerVars, cleanupVars,
                 cancelled>>

(* The non-blocking send.                                                  *)
Send(s) ==
  /\ sub[s] = "locked"
  /\ IF Len(queue) < Capacity
     THEN queue' = Append(queue, s) /\ SubGoto(s, "sent")
     ELSE UNCHANGED queue /\ SubGoto(s, "rejected")
  /\ UNCHANGED <<oldest, dropped, droppedTotal, writerVars, cleanupVars, cancelled>>

(* oldestNS.CompareAndSwap(0, now), and RUnlock.                           *)
Stamp(s) ==
  /\ sub[s] = "sent" /\ SubGoto(s, "returned")
  /\ oldest' = IF oldest = None THEN s ELSE oldest
  /\ UNCHANGED <<queue, dropped, droppedTotal, writerVars, cleanupVars, cancelled>>

CountDrop(s) ==
  /\ sub[s] = "rejected" /\ SubGoto(s, "counted")
  /\ dropped' = dropped + 1
  /\ UNCHANGED <<queue, oldest, droppedTotal, writerVars, cleanupVars, cancelled>>

(* A faulty variant: the rejecting return forgets to unlock.               *)
CountTotalKeepsLock(s) ==
  /\ sub[s] = "counted" /\ SubGoto(s, "never unlocked")
  /\ droppedTotal' = droppedTotal + 1
  /\ UNCHANGED <<queue, oldest, dropped, writerVars, cleanupVars, cancelled>>

(* droppedTotal.Add(1), and RUnlock.                                       *)
CountTotal(s) ==
  /\ sub[s] = "counted" /\ SubGoto(s, "returned")
  /\ droppedTotal' = droppedTotal + 1
  /\ UNCHANGED <<queue, oldest, dropped, writerVars, cleanupVars, cancelled>>
------------------------------------------------------------------------------
(* Run.                                                                    *)

(* s := <-w.ch, from the select of the loop or from the draining one.      *)
Receive ==
  /\ wpc \in {"select", "drain"} /\ queue # <<>>
  /\ current' = Head(queue) /\ queue' = Tail(queue)
  /\ wpc' = IF wpc = "select" THEN "persist" ELSE "drainPersist"
  /\ UNCHANGED <<submitVars, stored, lost, written, failed, stopped, cleanupVars,
                 cancelled>>

(* persist: one transaction for all the rows of the sample.                *)
Persist ==
  /\ wpc \in {"persist", "drainPersist"}
  /\ \/ stored' = stored \cup {current} /\ written' = written + 1
        /\ UNCHANGED <<lost, failed>>
     \/ lost' = lost \cup {current} /\ failed' = failed + 1
        /\ UNCHANGED <<stored, written>>
  /\ current' = None
  /\ wpc' = IF wpc = "persist" THEN "check" ELSE "drain"
  /\ UNCHANGED <<submitVars, queue, stopped, cleanupVars, cancelled>>

(* if len(w.ch) == 0 then oldestNS.Store(0): a send may come in between.   *)
CheckEmpty ==
  /\ wpc = "check"
  /\ IF queue = <<>> THEN wpc' = "reset" ELSE wpc' = "select"
  /\ UNCHANGED <<submitVars, queue, current, stored, lost, written, failed, stopped,
                 cleanupVars, cancelled>>

ResetOldest ==
  /\ wpc = "reset" /\ wpc' = "select" /\ oldest' = None
  /\ UNCHANGED <<sub, dropped, droppedTotal, queue, current, stored, lost, written,
                 failed, stopped, cleanupVars, cancelled>>

(* case <-cleanup.C: start a prune unless one is running ...               *)
Cleanup ==
  /\ wpc = "select" /\ cleanups < MaxCleanups /\ cleanups' = cleanups + 1
  /\ IF pruning THEN UNCHANGED <<pruning, pruners>>
     ELSE pruning' = TRUE /\ pruners' = pruners + 1
  /\ wpc' = "report"
  /\ UNCHANGED <<submitVars, queue, current, stored, lost, written, failed, stopped,
                 reported, cancelled>>

(* A faulty variant: the count is read and not swapped.                    *)
ReportLoads ==
  /\ wpc = "report" /\ wpc' = "select"
  /\ reported' = reported + dropped /\ UNCHANGED dropped
  /\ UNCHANGED <<sub, oldest, droppedTotal, queue, current, stored, lost, written,
                 failed, stopped, pruning, pruners, cleanups, cancelled>>

(* ... and log how many samples were dropped since the last report.        *)
Report ==
  /\ wpc = "report" /\ wpc' = "select"
  /\ reported' = reported + dropped /\ dropped' = 0
  /\ UNCHANGED <<sub, oldest, droppedTotal, queue, current, stored, lost, written,
                 failed, stopped, pruning, pruners, cleanups, cancelled>>

(* case <-ctx.Done(): ask for submitMu.                                    *)
SeeCancel ==
  /\ wpc = "select" /\ cancelled /\ wpc' = "lock"
  /\ UNCHANGED <<submitVars, queue, current, stored, lost, written, failed, stopped,
                 cleanupVars, cancelled>>

(* A faulty variant: stopped is set without waiting for the readers.       *)
SetStoppedUnlocked ==
  /\ wpc = "lock"
  /\ stopped' = TRUE /\ wpc' = "drain"
  /\ UNCHANGED <<submitVars, queue, current, stored, lost, written, failed,
                 cleanupVars, cancelled>>

(* submitMu.Lock waits until no Submit holds it; stopped = true; Unlock.   *)
SetStopped ==
  /\ wpc = "lock" /\ \A s \in Samples : ~Reading(s)
  /\ stopped' = TRUE /\ wpc' = "drain"
  /\ UNCHANGED <<submitVars, queue, current, stored, lost, written, failed,
                 cleanupVars, cancelled>>

(* The draining select takes its default, and close(w.done).               *)
Finish ==
  /\ wpc = "drain" /\ queue = <<>> /\ wpc' = "done"
  /\ UNCHANGED <<submitVars, queue, current, stored, lost, written, failed, stopped,
                 cleanupVars, cancelled>>
------------------------------------------------------------------------------
(* deleteOld, and the deferred pruning.Store(false).                       *)
PruneEnds ==
  /\ pruners > 0 /\ pruners' = pruners - 1 /\ pruning' = FALSE
  /\ UNCHANGED <<submitVars, queue, writerVars, reported, cleanups, cancelled>>

(* main cancels the context.                                               *)
Cancel ==
  /\ ~cancelled /\ cancelled' = TRUE
  /\ UNCHANGED <<submitVars, queue, writerVars, cleanupVars>>

SubmitStep(s) == Enter(s) \/ Send(s) \/ Stamp(s) \/ CountDrop(s) \/ CountTotal(s)

WriterStep ==
  Receive \/ Persist \/ CheckEmpty \/ ResetOldest \/ Report \/ SetStopped \/ Finish

Next ==
  \/ \E s \in Samples : SubmitStep(s)
  \/ WriterStep \/ Cleanup \/ SeeCancel \/ PruneEnds \/ Cancel

Spec == Init /\ [][Next]_vars
------------------------------------------------------------------------------
(* When Run has returned no accepted sample is left in the queue, although *)
(* polls that are still running may call Submit at any time                *)
(* ("Account for and persist every sample already accepted").              *)
NothingStranded == wpc = "done" => queue = <<>> /\ \A s \in Samples : sub[s] # "locked"

(* Every dropped sample appears once in the periodic reports or is still   *)
(* due in the next one, and both counters agree up to the calls that are   *)
(* between their two increments.                                           *)
DropsReportedOnce ==
  reported + dropped = droppedTotal + Cardinality({s \in Samples : sub[s] = "counted"})

(* Refinement: the fate of a sample, and the phase of the shutdown.        *)
Fate(s) ==
  IF s \in stored THEN "written"
  ELSE IF s \in lost THEN "failed"
  ELSE IF Queued(s) \/ s = current THEN "queued"
  ELSE IF sub[s] \in {"rejected", "counted", "returned"} THEN "dropped" ELSE "new"

Ledger == INSTANCE SampleLedger WITH
  fate <- [s \in Samples |-> Fate(s)],
  phase <- IF wpc = "done" THEN "closed" ELSE IF stopped THEN "closing" ELSE "open"

(* The pipeline keeps the promise of SampleLedger: one fate per sample, no *)
(* sample accepted after the shutdown began, none queued when it is over.  *)
KeepsLedger == Ledger!Spec
==============================================================================
