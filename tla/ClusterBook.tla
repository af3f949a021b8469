------------------------------ MODULE ClusterBook ------------------------------
(***************************************************************************)
(* What the admin requests promise of the clusters, without the Manager,   *)
(* its generations, and the steps of a request: a row is created under a   *)
(* new ID, changed, and erased; what runs follows the row, is halted before*)
(* the row is erased, and is brought in line with all rows by a restart.   *)
(* Of a cluster on which requests contend it is promised only that what    *)
(* runs is halted or replaced, and that an erased row stays away.          *)
(***************************************************************************)
CONSTANTS Ids, Configs, None

VARIABLES
  row,        \* what is stored, None: nothing
  runs,       \* the configuration that is polled, None: none
  taken,      \* the IDs that were given to a cluster
  contended   \* the clusters on which two requests have met

bookVars == <<row, runs, taken, contended>>

Init ==
  /\ row \in [Ids -> Configs \cup {None}] /\ runs = row
  /\ taken = {id \in Ids : row[id] # None} /\ contended = {}

Create(id, c) ==
  /\ id \notin taken /\ taken' = taken \cup {id}
  /\ row' = [row EXCEPT ![id] = c] /\ UNCHANGED <<runs, contended>>

Change(id, c) ==
  /\ row[id] # None /\ row' = [row EXCEPT ![id] = c]
  /\ UNCHANGED <<runs, taken, contended>>

Follow(id) ==
  /\ row[id] # None /\ runs' = [runs EXCEPT ![id] = row[id]]
  /\ UNCHANGED <<row, taken, contended>>

Halt(id) ==
  /\ runs' = [runs EXCEPT ![id] = None]
  /\ contended' \in {contended, contended \cup {id}} /\ UNCHANGED <<row, taken>>

Erase(id) ==
  /\ runs[id] = None \/ id \in contended
  /\ row' = [row EXCEPT ![id] = None] /\ UNCHANGED <<runs, taken, contended>>

Contend(id) == contended' = contended \cup {id} /\ UNCHANGED <<row, runs, taken>>

(* What an earlier request had read decides over a later one.              *)
Overtake(id, c) ==
  /\ id \in contended /\ runs' = [runs EXCEPT ![id] = c]
  /\ UNCHANGED <<row, taken, contended>>

(* Rows stay; the configuration file may add rows under new IDs.           *)
Restart ==
  /\ \E new \in [Ids -> Configs \cup {None}] :
       /\ \A id \in Ids : id \in taken => new[id] = row[id]
       /\ row' = new /\ runs' = new /\ taken' = taken \cup {id \in Ids : new[id] # None}
  /\ contended' = {}

Next ==
  \/ \E id \in Ids :
       \/ Follow(id) \/ Halt(id) \/ Erase(id) \/ Contend(id)
       \/ \E c \in Configs : Create(id, c) \/ Change(id, c) \/ Overtake(id, c)
  \/ Restart

Spec == Init /\ [][Next]_bookVars
------------------------------------------------------------------------------
(* Nothing runs for a cluster that is not stored, unless requests on it    *)
(* contend.                                                                *)
ErasedIsSilent == \A id \in Ids \ contended : row[id] = None => runs[id] = None

(* An erased cluster does not come back, not by a restart either: its name *)
(* may, under another ID.                                                  *)
StaysErased == \A id \in taken : row[id] = None => row'[id] = None
ErasedForGood == [][StaysErased]_bookVars
==============================================================================
