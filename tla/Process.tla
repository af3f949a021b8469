-------------------------------- MODULE Process -------------------------------
(***************************************************************************)
(* The life of the process around the metrics pipeline: run of             *)
(* cmd/machmqtt-dashboard/main.go, and the instance lock and the migration *)
(* ledger of internal/store/store.go, with crashes, failing starts, a      *)
(* second process on the same data directory, and a shutdown whose waits   *)
(* share one deadline of ten seconds.                                      *)
(*                                                                         *)
(* Process Main owns the pipeline of MetricsWriter. A file of the database *)
(* is the set of its schema parts and the versions its ledger names. Main  *)
(* restarts only after a run that handed in no sample (Pristine): what a   *)
(* crash takes from the pipeline is gone with the process.                 *)
(***************************************************************************)
EXTENDS MetricsWriter

CONSTANTS
  Procs, Main,  \* processes on one data directory
  Free,         \* nobody holds the lock
  Files         \* the database files a start may find: [ledger, parts]

VARIABLES
  at,       \* where run of each process is
  lock,     \* who holds dashboard.lock
  ledger,   \* schema_migrations
  parts,    \* tables and columns of the database
  slow,     \* what the shutdown waits for may take longer than its deadline
  expired,  \* shutdownCtx is done
  busy,     \* an HTTP handler is running
  polling,  \* collectors have not all returned: manager.Wait would wait
  openTx,   \* the sample whose transaction was open when the store was closed
  exit      \* how run ended

procVars == <<at, lock, ledger, parts, slow, expired, busy, polling, openTx, exit>>
pvars == <<vars, procVars>>

(* schemaMigrations: what each version creates or adds when it is missing. *)
AccountParts == {"users", "token_version", "identity"}
Adds == <<AccountParts, {"mqtt_bridges"}, {"metrics"}, {"topology"},
          {"clusters", "nats_conn"}, {"gauges"}>>
Versions == DOMAIN Adds
Schema == UNION {Adds[v] : v \in Versions}

ASSUME ProcessAssumption ==
  /\ Main \in Procs /\ Free \notin Procs
  /\ \A f \in Files : /\ f.ledger \subseteq Versions /\ f.parts \subseteq Schema
                      /\ \A v \in f.ledger : Adds[v] \subseteq f.parts

Places == {"down", "migrate", "start", "serving", "http", "wait", "closing", "closed"}

ProcessTypeOK ==
  /\ at \in [Procs -> Places] /\ lock \in Procs \cup {Free}
  /\ ledger \subseteq Versions /\ parts \subseteq Schema
  /\ {slow, expired, busy, polling} \subseteq BOOLEAN
  /\ openTx \in Samples \cup {None}
  /\ exit \in {"none", "drained", "incomplete", "failed"}

ProcessInit ==
  /\ Init
  /\ at = [p \in Procs |-> "down"] /\ lock = Free
  /\ \E f \in Files : ledger = f.ledger /\ parts = f.parts
  /\ slow \in BOOLEAN /\ expired = FALSE /\ busy = FALSE /\ polling = TRUE
  /\ openTx = None /\ exit = "none"

Pristine == wpc = "select" /\ ~cancelled /\ cleanups = 0 /\ \A s \in Samples : sub[s] = "new"
Goto(p, place) == at' = [at EXCEPT ![p] = place]
------------------------------------------------------------------------------
(* Open: the lock, then the migrations, one transaction each.              *)
Open(p) ==
  /\ at[p] = "down" /\ lock = Free /\ (p = Main => Pristine)
  /\ lock' = p /\ Goto(p, "migrate")
  /\ UNCHANGED <<vars, ledger, parts, slow, expired, busy, polling, openTx, exit>>

(* A faulty variant: the version is recorded, and applied afterwards.      *)
MigrateRecordsFirst(p) ==
  /\ at[p] = "migrate"
  /\ \E v \in Versions : /\ v \notin ledger \/ ~(Adds[v] \subseteq parts)
                         /\ \A w \in 1..(v - 1) : w \in ledger
                         /\ IF v \in ledger THEN parts' = parts \cup Adds[v] /\ UNCHANGED ledger
                            ELSE ledger' = ledger \cup {v} /\ UNCHANGED parts
  /\ UNCHANGED <<vars, at, lock, slow, expired, busy, polling, openTx, exit>>

(* The lowest version that is not recorded is applied and recorded.        *)
Migrate(p) ==
  /\ at[p] = "migrate"
  /\ \E v \in Versions \ ledger :
       /\ 1..(v - 1) \subseteq ledger
       /\ ledger' = ledger \cup {v} /\ parts' = parts \cup Adds[v]
  /\ UNCHANGED <<vars, at, lock, slow, expired, busy, polling, openTx, exit>>

Migrated(p) ==
  /\ at[p] = "migrate" /\ Versions \subseteq ledger /\ Goto(p, "start")
  /\ UNCHANGED <<vars, lock, ledger, parts, slow, expired, busy, polling, openTx, exit>>

(* A statement of Open or of the rest of the start fails: run returns, and *)
(* the lock is released.                                                   *)
StartFails(p) ==
  /\ at[p] \in {"migrate", "start"} /\ Goto(p, "down") /\ lock' = Free
  /\ UNCHANGED <<vars, ledger, parts, slow, expired, busy, polling, openTx, exit>>

(* The break-glass account, the seed, the writer, the manager, the server. *)
Serve(p) ==
  /\ at[p] = "start" /\ Goto(p, "serving")
  /\ UNCHANGED <<vars, lock, ledger, parts, slow, expired, busy, polling, openTx, exit>>

(* A crash; the kernel releases the lock. A stop of the other process is   *)
(* as good as one.                                                         *)
Kill(p) ==
  /\ at[p] # "down" /\ (p = Main => Pristine) /\ Goto(p, "down")
  /\ lock' = IF lock = p THEN Free ELSE lock
  /\ IF p = Main THEN busy' = FALSE /\ expired' = FALSE ELSE UNCHANGED <<busy, expired>>
  /\ UNCHANGED <<vars, ledger, parts, slow, polling, openTx, exit>>
------------------------------------------------------------------------------
Alive == at[Main] \in {"serving", "http", "wait", "closing", "closed"}
StoreOpen == at[Main] # "closed"

HandlerBegins ==
  /\ at[Main] = "serving" /\ ~busy /\ busy' = TRUE
  /\ UNCHANGED <<vars, at, lock, ledger, parts, slow, expired, polling, openTx, exit>>

HandlerEnds ==
  /\ Alive /\ busy /\ busy' = FALSE
  /\ UNCHANGED <<vars, at, lock, ledger, parts, slow, expired, polling, openTx, exit>>

(* The signal: SetReady(false), and httpServer.Shutdown begins.            *)
Signal ==
  /\ at[Main] = "serving" /\ Goto(Main, "http")
  /\ UNCHANGED <<vars, lock, ledger, parts, slow, expired, busy, polling, openTx, exit>>

(* The ten seconds that Shutdown and the wait have together are over.      *)
Timeout ==
  /\ at[Main] \in {"http", "wait"} /\ slow /\ ~expired /\ expired' = TRUE
  /\ UNCHANGED <<vars, at, lock, ledger, parts, slow, busy, polling, openTx, exit>>

(* Shutdown returns when no handler runs, or fails and Close is forced;    *)
(* then cancel.                                                            *)
HttpDown ==
  /\ at[Main] = "http" /\ (~busy \/ expired) /\ Goto(Main, "wait")
  /\ cancelled' = TRUE
  /\ UNCHANGED <<submitVars, queue, writerVars, cleanupVars, lock, ledger, parts, slow,
                 expired, busy, polling, openTx, exit>>

(* The last poll loop returns.                                             *)
LoopsEnd ==
  /\ Alive /\ cancelled /\ polling /\ polling' = FALSE
  /\ \A s \in Samples : sub[s] \in {"new", "returned"}
  /\ UNCHANGED <<vars, at, lock, ledger, parts, slow, expired, busy, openTx, exit>>

(* A faulty variant: only the collectors are waited for.                   *)
DoneLoopsOnly ==
  /\ at[Main] = "wait" /\ ~polling /\ Goto(Main, "closing") /\ exit' = "drained"
  /\ UNCHANGED <<vars, lock, ledger, parts, slow, expired, busy, polling, openTx>>

(* manager.Wait and background.Wait have returned.                         *)
DrainDone ==
  /\ at[Main] = "wait" /\ ~polling /\ wpc = "done"
  /\ Goto(Main, "closing") /\ exit' = "drained"
  /\ UNCHANGED <<vars, lock, ledger, parts, slow, expired, busy, polling, openTx>>

(* "background shutdown incomplete".                                       *)
GiveUp ==
  /\ at[Main] = "wait" /\ expired /\ Goto(Main, "closing") /\ exit' = "incomplete"
  /\ UNCHANGED <<vars, lock, ledger, parts, slow, expired, busy, polling, openTx>>

(* Listen or Serve fails: cancel, and run returns without waiting.         *)
ServeFails ==
  /\ at[Main] = "serving" /\ Goto(Main, "closing") /\ exit' = "failed"
  /\ cancelled' = TRUE
  /\ UNCHANGED <<submitVars, queue, writerVars, cleanupVars, lock, ledger, parts, slow,
                 expired, busy, polling, openTx>>

(* A faulty variant: the lock is released and the database stays open.     *)
CloseReleasesOnly ==
  /\ at[Main] = "closing" /\ lock = Main /\ lock' = Free
  /\ UNCHANGED <<vars, at, ledger, parts, slow, expired, busy, polling, openTx, exit>>

(* The deferred Store.Close: a transaction that is open can still commit,  *)
(* no other can begin; then the lock is released.                          *)
CloseStore ==
  /\ at[Main] = "closing" /\ Goto(Main, "closed") /\ lock' = Free
  /\ openTx' \in {None, current}
  /\ UNCHANGED <<vars, ledger, parts, slow, expired, busy, polling, exit>>

Exit ==
  /\ at[Main] = "closed" /\ Goto(Main, "down")
  /\ UNCHANGED <<vars, lock, ledger, parts, slow, expired, busy, polling, openTx, exit>>

(* The pipeline runs as long as the process does: polls until the loops    *)
(* have returned, commits until the store is closed.                       *)
Running == Alive /\ UNCHANGED procVars

Calls(s) == SubmitStep(s) /\ (polling \/ sub[s] # "new")

Writes ==
  \/ Receive \/ CheckEmpty \/ ResetOldest \/ Report \/ SetStopped \/ Finish
  \/ Persist /\ (StoreOpen \/ current = openTx \/ stored' = stored)

Pipeline ==
  Running /\ ((\E s \in Samples : Calls(s)) \/ Writes \/ Cleanup \/ SeeCancel \/ PruneEnds)

ProcessNext ==
  \/ \E p \in Procs :
       Open(p) \/ Migrate(p) \/ Migrated(p) \/ StartFails(p) \/ Serve(p) \/ Kill(p)
  \/ HandlerBegins \/ HandlerEnds \/ Signal \/ Timeout \/ HttpDown \/ LoopsEnd
  \/ DrainDone \/ GiveUp \/ ServeFails \/ CloseStore \/ Exit \/ Pipeline

ProcessSpec == ProcessInit /\ [][ProcessNext]_pvars

(* Fairness while the process runs: Submit never waits once it holds the   *)
(* lock, SQLite's busy timeout bounds a transaction, Run's select picks a  *)
(* ready ctx.Done() with probability 1/2; run itself, and a timer that was *)
(* started. Writer, handlers and poll loops end in time only in a shutdown *)
(* that is not slow. Nothing obliges a cluster to poll or a tick to come.  *)
ProcessFairness ==
  /\ \A s \in Samples : WF_pvars(Running /\ sub[s] # "new" /\ SubmitStep(s))
  /\ WF_pvars(~slow /\ Running /\ Writes) /\ SF_pvars(~slow /\ Running /\ SeeCancel)
  /\ WF_pvars(~slow /\ HandlerEnds) /\ WF_pvars(~slow /\ LoopsEnd) /\ WF_pvars(Timeout)
  /\ WF_pvars(HttpDown) /\ WF_pvars(DrainDone \/ GiveUp) /\ WF_pvars(CloseStore)
  /\ WF_pvars(Exit)

ProcessFairSpec == ProcessSpec /\ ProcessFairness
------------------------------------------------------------------------------
(* A process that goes on past Open works on the whole schema, whatever    *)
(* file it found and wherever earlier starts stopped: a version in the     *)
(* ledger has been applied.                                                *)
ServesWholeSchema ==
  \A p \in Procs : at[p] \notin {"down", "migrate"} => parts = Schema

(* A shutdown that did not log "background shutdown incomplete" has        *)
(* brought every sample it accepted to the database before it closed it.   *)
CleanStopDrains ==
  exit = "drained" =>
    /\ wpc = "done" /\ queue = <<>> /\ current = None
    /\ \A s \in Samples : ~Reading(s)

(* The holder of dashboard.lock is the only writer of the database, in its *)
(* own migrations and its own pipeline; what a shutdown that gave up left  *)
(* behind commits at most the transaction that was open.                   *)
OwnerWrites ==
  [][ /\ (ledger # ledger' \/ parts # parts') => lock # Free /\ at[lock] = "migrate"
      /\ stored # stored' => \/ lock = Main
                             \/ exit # "drained" /\ stored' = stored \cup {openTx} ]_pvars

(* A signal ends the process: through the drain when handlers, loops and   *)
(* writer end in time, through the deadline when they do not.              *)
StopEnds == at[Main] = "http" ~> at[Main] = "down"
==============================================================================
