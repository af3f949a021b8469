------------------------------ MODULE AuthProofs ------------------------------
(***************************************************************************)
(* Sessions for any number of accounts, tokens and requests: how a step    *)
(* changes a row, and what follows for administrators and tokens.          *)
(* OidcFlows for any number of flows, browsers and callbacks in flight and *)
(* any size of the table: the table keeps its cap, no login is completed   *)
(* twice or in a browser that did not begin it, and a fresh one is kept.   *)
(***************************************************************************)
EXTENDS Sessions, OidcFlows, FiniteSetTheorems, TLAPS

(***************************************************************************)
(* Sessions.                                                               *)
(***************************************************************************)

(* What is kept of a row that was read: the row is not older, and while it *)
(* has the same version it has the same role ...                           *)
Agrees(r) ==
  users[r.id] # None =>
    /\ r.version <= users[r.id].version
    /\ r.version = users[r.id].version => r.admin = users[r.id].admin

(* ... and the same password.                                              *)
Proved(r) ==
  users[r.id] # None /\ r.version = users[r.id].version => r.era = users[r.id].era

RequestInv ==
  \A h \in Requests :
    /\ req[h].pc # "idle" => server = "up"
    /\ req[h].pc = "verify" => req[h].id < nextId /\ Agrees(req[h]) /\ Proved(req[h])

TokenInv ==
  \A t \in tokens : t.id < nextId /\ Agrees(t) /\ (t.login => Proved(t))

AdminInv == server # "down" => LocalAdmins # {}

IInv == TypeOK /\ RequestInv /\ TokenInv /\ AdminInv

USE SessionsAssumption
------------------------------------------------------------------------------
(* How a step may change the row of an ID: not at all, remove it, insert it*)
(* as the next one, or change it; a change of role or password comes with a*)
(* new version.                                                            *)
RowStep(id) ==
  \/ users'[id] = users[id]
  \/ users'[id] = None
  \/ id = nextId /\ users[id] = None
  \/ /\ users[id] # None /\ users'[id] # None
     /\ \/ users'[id].version > users[id].version
        \/ /\ users'[id].version = users[id].version
           /\ users'[id].admin = users[id].admin /\ users'[id].era = users[id].era

RowsStep ==
  /\ users' \in [Ids -> Row \cup {None}]
  /\ nextId' \in {nextId, nextId + 1} /\ nextId' \in 1..(MaxId + 1)
  /\ \A id \in Ids : RowStep(id)
  /\ \A id \in Ids : id >= nextId' => users'[id] = None

(* A local administrator stays one, or another one is left.                *)
AdminsStay == LocalAdmins # {} => LocalAdmins' # {}

LEMMA InsertStep ==
  ASSUME TypeOK, NEW name \in Names, NEW admin \in BOOLEAN, NEW boot \in BOOLEAN,
         Insert(name, admin, boot)
  PROVE  /\ RowsStep /\ AdminsStay
         /\ name \in LocalNames /\ admin => LocalAdmins' # {}
<1> DEFINE r == [name |-> name, admin |-> admin, version |-> 0, must |-> FALSE,
                 era |-> 0, boot |-> boot]
<1>1. r \in Row /\ r # None
  <2>1. 0 \in 0..MaxVersion /\ FALSE \in BOOLEAN
    OBVIOUS
  <2>2. r \in Row
    BY <2>1, Zenon DEF Row
  <2> QED
    BY <2>2
<1>2. /\ nextId \in Ids /\ nextId' = nextId + 1 /\ users[nextId] = None
      /\ users' = [users EXCEPT ![nextId] = r] /\ users \in [Ids -> Row \cup {None}]
  BY DEF Insert, TypeOK, Ids
<1>3. users'[nextId] = r /\ \A id \in Ids \ {nextId} : users'[id] = users[id]
  BY <1>2
<1> HIDE DEF r
<1>4. RowsStep
  BY <1>1, <1>2, <1>3 DEF RowsStep, RowStep, TypeOK, Ids
<1>5. LocalAdmins \subseteq LocalAdmins'
  BY <1>2, <1>3 DEF LocalAdmins, Exist, Local
<1>6. ASSUME name \in LocalNames, admin PROVE nextId \in LocalAdmins'
  BY <1>1, <1>2, <1>3, <1>6 DEF LocalAdmins, Exist, Local, r
<1> QED
  BY <1>4, <1>5, <1>6 DEF AdminsStay

(* One row changes in place.                                               *)
LEMMA ChangeStep ==
  ASSUME TypeOK, NEW id \in Exist, NEW r \in Row, nextId' = nextId,
         users' = [users EXCEPT ![id] = r],
         \/ r.version > users[id].version
         \/ r.version = users[id].version /\ r.admin = users[id].admin
            /\ r.era = users[id].era
  PROVE  /\ RowsStep
         /\ r.name = users[id].name /\ (Local(id) => r.admin = users[id].admin) => AdminsStay
         /\ r.name \in LocalNames /\ r.admin => LocalAdmins' # {}
<1>1. /\ id \in Ids /\ users[id] # None /\ users \in [Ids -> Row \cup {None}]
      /\ nextId \in 1..(MaxId + 1) /\ \A i \in Ids : i >= nextId => users[i] = None
  BY DEF Exist, TypeOK
<1>2. users'[id] = r /\ r # None /\ \A i \in Ids \ {id} : users'[i] = users[i]
  BY <1>1
<1>3. RowsStep
  BY <1>1, <1>2 DEF RowsStep, RowStep
<1>4. ASSUME r.name = users[id].name, Local(id) => r.admin = users[id].admin
      PROVE  LocalAdmins \subseteq LocalAdmins'
  BY <1>1, <1>2, <1>4 DEF LocalAdmins, Exist, Local
<1>5. ASSUME r.name \in LocalNames, r.admin PROVE id \in LocalAdmins'
  BY <1>1, <1>2, <1>5 DEF LocalAdmins, Exist, Local
<1> QED
  BY <1>3, <1>4, <1>5 DEF AdminsStay

(* The row that a statement with another version stores.                   *)
LEMMA NewVersion ==
  ASSUME TypeOK, NEW id \in Exist
  PROVE  /\ users[id] \in Row /\ users[id].version \in 0..MaxVersion
         /\ users[id].era \in 0..MaxVersion /\ users[id].name \in Names
BY DEF TypeOK, Exist, Row

(* Every step changes rows so, and leaves a local administrator.           *)
StepGoal == RowsStep /\ AdminInv'

LEMMA RowsUnchanged ==
  ASSUME IInv, users' = users, nextId' = nextId, server' = server \/ server' = "down"
  PROVE  StepGoal
<1>1. RowsStep
  BY DEF IInv, TypeOK, RowsStep, RowStep
<1>2. LocalAdmins' = LocalAdmins
  BY DEF LocalAdmins, Exist, Local
<1> QED
  BY <1>1, <1>2 DEF StepGoal, IInv, AdminInv

LEMMA PromotedRow ==
  ASSUME NEW u \in Row, u.version < MaxVersion
  PROVE  /\ Promoted(u) \in Row /\ Promoted(u).version > u.version
         /\ Promoted(u).name = u.name /\ Promoted(u).admin
<1>1. u.version + 1 \in 0..MaxVersion /\ u.version + 1 > u.version
  BY DEF Row
<1>2. Promoted(u) \in Row
  BY <1>1, Zenon DEF Row, Promoted
<1>3. /\ Promoted(u).version = u.version + 1 /\ Promoted(u).name = u.name
      /\ Promoted(u).admin = TRUE
  BY Zenon DEF Row, Promoted
<1> QED
  BY <1>1, <1>2, <1>3

LEMMA NewPasswordRow ==
  ASSUME NEW u \in Row, u.version < MaxVersion, u.era < MaxVersion
  PROVE  /\ NewPassword(u) \in Row /\ NewPassword(u).version > u.version
         /\ NewPassword(u).name = u.name /\ NewPassword(u).admin = u.admin
<1>1. /\ u.version + 1 \in 0..MaxVersion /\ u.version + 1 > u.version
      /\ u.era + 1 \in 0..MaxVersion
  BY DEF Row
<1>2. NewPassword(u) \in Row
  BY <1>1, Zenon DEF Row, NewPassword
<1>3. /\ NewPassword(u).version = u.version + 1 /\ NewPassword(u).name = u.name
      /\ NewPassword(u).admin = u.admin
  BY Zenon DEF Row, NewPassword
<1> QED
  BY <1>1, <1>2, <1>3

LEMMA WithRoleRow ==
  ASSUME NEW u \in Row, u.version < MaxVersion, NEW admin \in BOOLEAN
  PROVE  /\ WithRole(u, admin) \in Row /\ WithRole(u, admin).version > u.version
         /\ WithRole(u, admin).name = u.name
<1>1. u.version + 1 \in 0..MaxVersion /\ u.version + 1 > u.version
  BY DEF Row
<1>2. WithRole(u, admin) \in Row
  BY <1>1, Zenon DEF Row, WithRole
<1>3. WithRole(u, admin).version = u.version + 1 /\ WithRole(u, admin).name = u.name
  BY Zenon DEF Row, WithRole
<1> QED
  BY <1>1, <1>2, <1>3

LEMMA BootstrapRows == IInv /\ Bootstrap => StepGoal
<1> SUFFICES ASSUME IInv, Bootstrap PROVE StepGoal
  OBVIOUS
<1>1. TypeOK /\ TRUE \in BOOLEAN /\ Admin \in LocalNames /\ Admin \in Names
  BY DEF IInv, Names
<1>2. CASE LocalAdmins # {} /\ UNCHANGED <<users, nextId>>
  <2>1. LocalAdmins' = LocalAdmins
    BY <1>2 DEF LocalAdmins, Exist, Local
  <2>2. RowsStep
    BY <1>1, <1>2 DEF TypeOK, RowsStep, RowStep
  <2> QED
    BY <1>2, <2>1, <2>2 DEF StepGoal, AdminInv
<1>3. ASSUME NEW id \in Exist, users[id].name = Admin, users[id].version < MaxVersion,
             users' = [users EXCEPT ![id] = Promoted(@)],
             nextId' = nextId
      PROVE  StepGoal
  <2> DEFINE r == Promoted(users[id])
  <2>1. users[id] \in Row
    BY <1>1, NewVersion
  <2>2. /\ r \in Row /\ r.version > users[id].version /\ r.name = Admin /\ r.admin
        /\ users' = [users EXCEPT ![id] = r]
    BY <1>3, <2>1, PromotedRow
  <2> HIDE DEF r
  <2>3. RowsStep /\ LocalAdmins' # {}
    BY <1>1, <1>3, <2>2, ChangeStep
  <2> QED
    BY <2>3 DEF StepGoal, AdminInv
<1>4. CASE Insert(Admin, TRUE, TRUE)
  <2>1. RowsStep /\ LocalAdmins' # {}
    BY <1>1, <1>4, InsertStep
  <2> QED
    BY <2>1 DEF StepGoal, AdminInv
<1> QED
  BY <1>2, <1>3, <1>4 DEF Bootstrap

LEMMA BootstrapMustRows == IInv /\ BootstrapMust => StepGoal
<1> SUFFICES ASSUME IInv, BootstrapMust PROVE StepGoal
  OBVIOUS
<1>1. PICK id \in LocalAdmins : users' = [users EXCEPT ![id].must = TRUE]
  BY DEF BootstrapMust
<1> DEFINE r == [users[id] EXCEPT !.must = TRUE]
<1>2. id \in Exist /\ Local(id) /\ users[id].admin
  BY DEF LocalAdmins
<1>3. TypeOK /\ users[id] \in Row
  BY <1>2, NewVersion DEF IInv
<1>4. /\ r \in Row /\ r.version = users[id].version /\ r.admin = users[id].admin
      /\ r.era = users[id].era /\ r.name = users[id].name
      /\ users' = [users EXCEPT ![id] = r] /\ nextId' = nextId
  BY <1>1, <1>3 DEF Row, BootstrapMust
<1> HIDE DEF r
<1>5. RowsStep /\ LocalAdmins' # {}
  BY <1>2, <1>3, <1>4, ChangeStep DEF Local
<1> QED
  BY <1>5 DEF StepGoal, AdminInv

LEMMA LogoutRows == \A h \in Requests : IInv /\ Logout(h) => StepGoal
<1> SUFFICES ASSUME NEW h \in Requests, IInv, Logout(h) PROVE StepGoal
  OBVIOUS
<1> DEFINE id == req[h].id
           r == [users[id] EXCEPT !.version = @ + 1]
<1>1. server' = server /\ nextId' = nextId /\ Bump(id)
  BY DEF Logout
<1>2. CASE id \notin Exist
  BY <1>1, <1>2, RowsUnchanged DEF Bump
<1>3. CASE id \in Exist
  <2>1. TypeOK /\ users[id] \in Row /\ users[id].version < MaxVersion
    BY <1>1, <1>3, NewVersion DEF IInv, Bump
  <2>2. /\ r \in Row /\ r.version > users[id].version /\ r.admin = users[id].admin
        /\ r.name = users[id].name /\ users' = [users EXCEPT ![id] = r]
    BY <1>1, <1>3, <2>1 DEF Row, Bump
  <2> HIDE DEF r, id
  <2>3. RowsStep /\ AdminsStay
    BY <1>1, <1>3, <2>1, <2>2, ChangeStep
  <2> QED
    BY <1>1, <2>3 DEF StepGoal, AdminInv, AdminsStay, IInv
<1> QED
  BY <1>2, <1>3

LEMMA StorePasswordRows == \A h \in Requests : IInv /\ StorePassword(h) => StepGoal
<1> SUFFICES ASSUME NEW h \in Requests, IInv, StorePassword(h) PROVE StepGoal
  OBVIOUS
<1> DEFINE id == req[h].id
           r == NewPassword(users[id])
<1>1. server' = server /\ nextId' = nextId
  BY DEF StorePassword
<1>2. CASE id \notin Exist
  BY <1>1, <1>2, RowsUnchanged DEF StorePassword
<1>3. CASE id \in Exist
  <2>1. /\ TypeOK /\ users[id] \in Row /\ users[id].version < MaxVersion
        /\ users[id].era < MaxVersion
    BY <1>3, NewVersion DEF IInv, StorePassword
  <2>2. /\ r \in Row /\ r.version > users[id].version /\ r.admin = users[id].admin
        /\ r.name = users[id].name /\ users' = [users EXCEPT ![id] = r]
    BY <1>3, <2>1, NewPasswordRow DEF StorePassword
  <2> HIDE DEF r, id
  <2>3. RowsStep /\ AdminsStay
    BY <1>1, <1>3, <2>1, <2>2, ChangeStep
  <2> QED
    BY <1>1, <2>3 DEF StepGoal, AdminInv, AdminsStay, IInv
<1> QED
  BY <1>2, <1>3

LEMMA CreateUserRows ==
  \A h \in Requests, name \in LocalNames, admin \in BOOLEAN :
    IInv /\ CreateUser(h, name, admin) => StepGoal
<1> SUFFICES ASSUME NEW h \in Requests, NEW name \in LocalNames, NEW admin \in BOOLEAN,
                    IInv, CreateUser(h, name, admin)
             PROVE  StepGoal
  OBVIOUS
<1>1. CASE UNCHANGED <<users, nextId>>
  BY <1>1, RowsUnchanged DEF CreateUser
<1>2. CASE Insert(name, admin, FALSE)
  <2>1. RowsStep /\ AdminsStay
    BY <1>2, InsertStep DEF IInv, Names
  <2> QED
    BY <2>1 DEF StepGoal, AdminInv, AdminsStay, IInv, CreateUser
<1> QED
  BY <1>1, <1>2 DEF CreateUser

(* The statement sees every deletion that was committed before it.         *)
LEMMA DeleteUserRows ==
  \A h \in Requests, id \in Ids : IInv /\ DeleteUser(h, id) => StepGoal
<1> SUFFICES ASSUME NEW h \in Requests, NEW id \in Ids, IInv, DeleteUser(h, id)
             PROVE  StepGoal
  OBVIOUS
<1>1. CASE LocalAdmins = {id}
  BY <1>1, RowsUnchanged DEF DeleteUser
<1>2. CASE LocalAdmins # {id}
  <2>1. /\ users' = [users EXCEPT ![id] = None] /\ nextId' = nextId /\ server' = server
        /\ users \in [Ids -> Row \cup {None}]
    BY <1>2 DEF DeleteUser, IInv, TypeOK
  <2>2. RowsStep
    BY <2>1 DEF RowsStep, RowStep, IInv, TypeOK
  <2>3. LocalAdmins \ {id} \subseteq LocalAdmins'
    BY <2>1 DEF LocalAdmins, Exist, Local
  <2>4. LocalAdmins # {} => LocalAdmins' # {}
    BY <1>2, <2>3
  <2> QED
    BY <2>1, <2>2, <2>4 DEF StepGoal, AdminInv, IInv
<1> QED
  BY <1>1, <1>2

LEMMA UpsertRows ==
  \A h \in Requests, s \in Subjects, admin \in BOOLEAN :
    IInv /\ UpsertExternalUser(h, s, admin) => StepGoal
<1> SUFFICES ASSUME NEW h \in Requests, NEW s \in Subjects, NEW admin \in BOOLEAN,
                    IInv, UpsertExternalUser(h, s, admin)
             PROVE  StepGoal
  OBVIOUS
<1>1. server' = server /\ s \in Names /\ s \notin LocalNames
  BY DEF UpsertExternalUser, Names
<1>2. CASE Insert(s, admin, FALSE)
  <2>1. RowsStep /\ AdminsStay
    BY <1>1, <1>2, InsertStep DEF IInv
  <2> QED
    BY <1>1, <2>1 DEF StepGoal, AdminInv, AdminsStay, IInv
<1>3. CASE UNCHANGED <<users, nextId>>
  BY <1>1, <1>3, RowsUnchanged
<1>4. ASSUME NEW id \in Exist, users[id].name = s, nextId' = nextId,
             users[id].version < MaxVersion,
             users' = [users EXCEPT ![id] = WithRole(@, admin)]
      PROVE  StepGoal
  <2> DEFINE r == WithRole(users[id], admin)
  <2>1. TypeOK /\ users[id] \in Row
    BY NewVersion DEF IInv
  <2>2. /\ r \in Row /\ r.version > users[id].version /\ r.name = users[id].name
        /\ users' = [users EXCEPT ![id] = r] /\ ~Local(id)
    BY <1>1, <1>4, <2>1, WithRoleRow DEF Local
  <2> HIDE DEF r
  <2>3. RowsStep /\ AdminsStay
    BY <1>4, <2>1, <2>2, ChangeStep
  <2> QED
    BY <1>1, <2>3 DEF StepGoal, AdminInv, AdminsStay, IInv
<1> QED
  BY <1>2, <1>3, <1>4 DEF UpsertExternalUser

LEMMA StepRows == ASSUME IInv, [Next]_vars PROVE StepGoal
<1>1. CASE UNCHANGED vars \/ Crash \/ \E t \in tokens : Expire(t)
  BY <1>1, RowsUnchanged DEF vars, Crash, Expire
<1>2. ASSUME NEW h \in Requests,
             \/ \E id \in Ids : LoginRead(h, id)
             \/ \E t \in tokens, pc \in Pcs : Admit(h, t, pc)
             \/ LoginIssue(h) \/ CheckOldPassword(h) \/ Reissue(h) \/ IssueExternal(h)
      PROVE  StepGoal
  <2>1. UNCHANGED <<users, nextId, server>>
    BY <1>2 DEF LoginRead, Admit, LoginIssue, CheckOldPassword, Reissue, IssueExternal
  <2> QED
    BY <2>1, RowsUnchanged
<1> QED
  BY <1>1, <1>2, BootstrapRows, BootstrapMustRows, LogoutRows, StorePasswordRows,
     CreateUserRows, DeleteUserRows, UpsertRows DEF Next
------------------------------------------------------------------------------
(* The requests and the tokens.                                            *)

RequestRecord ==
  [pc : Pcs, id : Ids, version : 0..MaxVersion, admin : BOOLEAN, era : 0..MaxVersion,
   subject : Subjects \cup {None}]

(* A row that was read stays so after any change of the table.             *)
LEMMA RowKept ==
  ASSUME TypeOK, RowsStep, NEW r, r.id \in Ids, r.version \in 0..MaxVersion,
         r.id < nextId, Agrees(r)
  PROVE  Agrees(r)' /\ (r.id < nextId)' /\ (Proved(r) => Proved(r)')
<1>1. /\ users \in [Ids -> Row \cup {None}] /\ users' \in [Ids -> Row \cup {None}]
      /\ nextId \in Nat /\ nextId' \in {nextId, nextId + 1} /\ r.id \in Int
      /\ RowStep(r.id) /\ r.version \in Int
  BY DEF TypeOK, RowsStep, Ids
<1>2. /\ users[r.id] # None => users[r.id].version \in Int
      /\ users'[r.id] # None => users'[r.id].version \in Int
  BY <1>1 DEF Row
<1>3. (r.id < nextId)' /\ r.id # nextId
  BY <1>1
<1>4. CASE users'[r.id] = users[r.id] \/ users'[r.id] = None
  BY <1>3, <1>4 DEF Agrees, Proved
<1>5. CASE /\ users[r.id] # None /\ users'[r.id] # None
           /\ users'[r.id].version > users[r.id].version
  BY <1>1, <1>2, <1>3, <1>5 DEF Agrees, Proved
<1>6. CASE /\ users[r.id] # None /\ users'[r.id] # None
           /\ users'[r.id].version = users[r.id].version
           /\ users'[r.id].admin = users[r.id].admin /\ users'[r.id].era = users[r.id].era
  BY <1>3, <1>6 DEF Agrees, Proved
<1> QED
  BY <1>1, <1>3, <1>4, <1>5, <1>6 DEF RowStep

(* A request that is started, moved on or ended; server may not change but *)
(* to go up.                                                               *)
ReadAgrees(r) == r.id < nextId /\ Agrees(r) /\ Proved(r)

RequestsStep ==
  /\ req' \in [Requests -> RequestRecord] /\ server' \in {"down", "boot", "up"}
  /\ \A h \in Requests :
       /\ req'[h].pc # "idle" => server' = "up"
       /\ req'[h].pc = "verify" =>
            \/ req'[h] = req[h]
            \/ UNCHANGED <<users, nextId>> /\ ReadAgrees(req'[h])

LEMMA OneRequest ==
  ASSUME IInv, NEW h \in Requests, NEW r \in RequestRecord, req' = [req EXCEPT ![h] = r],
         server' = server, r.pc # "idle" => server = "up",
         r.pc = "verify" => UNCHANGED <<users, nextId>> /\ ReadAgrees(r)
  PROVE  RequestsStep
BY DEF IInv, TypeOK, RequestInv, RequestsStep, RequestRecord

LEMMA RequestTypes ==
  ASSUME TypeOK, NEW h \in Requests
  PROVE  /\ req[h] \in RequestRecord /\ Idle \in RequestRecord /\ Idle.pc = "idle"
         /\ \A pc \in Pcs : /\ [req[h] EXCEPT !.pc = pc] \in RequestRecord
                            /\ [req[h] EXCEPT !.pc = pc].pc = pc
         /\ "idle" \in Pcs /\ "verified" \in Pcs /\ "reissue" \in Pcs /\ "external" \in Pcs
<1>1. 1 \in Ids /\ 0 \in 0..MaxVersion
  BY DEF Ids
<1> QED
  BY <1>1 DEF TypeOK, RequestRecord, Idle, Pcs

LEMMA MoveStep ==
  ASSUME IInv, NEW h \in Requests, NEW from \in Pcs \ {"idle"},
         NEW to \in Pcs \ {"idle", "verify"}, Moves(h, from, to), server' = server
  PROVE  RequestsStep
<1>1. [req[h] EXCEPT !.pc = to] \in RequestRecord /\ [req[h] EXCEPT !.pc = to].pc = to
  BY RequestTypes DEF IInv
<1>2. server = "up"
  BY DEF IInv, RequestInv, Moves
<1>3. req' = [req EXCEPT ![h] = [req[h] EXCEPT !.pc = to]]
  BY DEF Moves, IInv, TypeOK
<1> QED
  BY <1>1, <1>2, <1>3, OneRequest

LEMMA EndStep ==
  ASSUME IInv, NEW h \in Requests, NEW from \in Pcs, Ends(h, from), server' = server
  PROVE  RequestsStep
BY RequestTypes, OneRequest DEF IInv, Ends

LEMMA StartStep ==
  ASSUME IInv, NEW h \in Requests, NEW r \in RequestRecord, Starts(h, r), server' = server,
         r.pc # "verify"
  PROVE  RequestsStep
BY OneRequest DEF Starts

LEMMA LoginReadStep ==
  \A h \in Requests, id \in Ids : IInv /\ LoginRead(h, id) => RequestsStep
<1> SUFFICES ASSUME NEW h \in Requests, NEW id \in Ids, IInv, LoginRead(h, id)
             PROVE  RequestsStep
  OBVIOUS
<1> DEFINE r == [pc |-> "verify", id |-> id, version |-> users[id].version,
                 admin |-> users[id].admin, era |-> users[id].era, subject |-> None]
<1>1. users[id] \in Row /\ users[id] # None /\ id < nextId
  BY DEF LoginRead, Exist, IInv, TypeOK, Ids
<1>2. /\ r \in RequestRecord /\ r.pc = "verify" /\ r.id = id
      /\ r.version = users[id].version /\ r.admin = users[id].admin
      /\ r.era = users[id].era /\ users[id].version \in Nat
  BY <1>1 DEF RequestRecord, Row, Pcs
<1>3. server = "up" /\ req' = [req EXCEPT ![h] = r] /\ UNCHANGED <<users, nextId, server>>
  BY DEF LoginRead, Starts
<1> HIDE DEF r
<1>4. ReadAgrees(r)
  BY <1>1, <1>2 DEF ReadAgrees, Agrees, Proved
<1> QED
  BY <1>2, <1>3, <1>4, OneRequest

LEMMA StepRequests == ASSUME IInv, [Next]_vars PROVE RequestsStep
<1>1. TypeOK /\ \A h \in Requests : req[h].pc # "idle" => server = "up"
  BY DEF IInv, RequestInv
<1>2. CASE Crash
  <2>1. \A h \in Requests : Idle \in RequestRecord /\ Idle.pc = "idle"
    BY <1>1, RequestTypes
  <2> QED
    BY <1>2, <2>1 DEF Crash, RequestsStep
<1>3. CASE UNCHANGED vars \/ Bootstrap \/ BootstrapMust \/ \E t \in tokens : Expire(t)
  <2>1. /\ req' = req /\ server' \in {"down", "boot", "up"}
        /\ server = "up" => server' = "up"
    BY <1>1, <1>3 DEF vars, Bootstrap, BootstrapMust, Expire, TypeOK
  <2> QED
    BY <1>1, <2>1 DEF RequestsStep, TypeOK, RequestRecord
<1>4. ASSUME NEW h \in Requests, NEW t \in tokens, NEW pc \in Pcs, Admit(h, t, pc)
      PROVE  RequestsStep
  <2>1. /\ [Idle EXCEPT !.pc = pc, !.id = t.id] \in RequestRecord
        /\ [Idle EXCEPT !.pc = pc, !.id = t.id].pc = pc /\ pc # "verify"
    BY <1>1, <1>4, RequestTypes DEF Admit, Token, TypeOK, RequestRecord, Idle
  <2> QED
    BY <1>4, <2>1, StartStep DEF Admit
<1>5. ASSUME NEW h \in Requests, NEW s \in Subjects, NEW admin \in BOOLEAN,
             UpsertExternalUser(h, s, admin)
      PROVE  RequestsStep
  <2>1. /\ [Idle EXCEPT !.pc = "external", !.subject = s] \in RequestRecord
        /\ [Idle EXCEPT !.pc = "external", !.subject = s].pc = "external"
    BY <1>1, RequestTypes DEF RequestRecord, Idle
  <2> QED
    BY <1>5, <2>1, StartStep DEF UpsertExternalUser
<1>6. ASSUME NEW h \in Requests, LoginIssue(h) \/ Logout(h) \/ Reissue(h) \/ IssueExternal(h)
      PROVE  RequestsStep
  BY <1>6, EndStep DEF LoginIssue, Logout, Reissue, IssueExternal, Pcs
<1>7. ASSUME NEW h \in Requests, CheckOldPassword(h) \/ StorePassword(h)
      PROVE  RequestsStep
  BY <1>7, EndStep, MoveStep DEF CheckOldPassword, StorePassword, Pcs
<1>8. ASSUME NEW h \in Requests,
             \/ \E id \in Ids : DeleteUser(h, id)
             \/ \E name \in LocalNames, admin \in BOOLEAN : CreateUser(h, name, admin)
      PROVE  RequestsStep
  BY <1>8, EndStep DEF DeleteUser, CreateUser, Pcs
<1> QED
  BY <1>2, <1>3, <1>4, <1>5, <1>6, <1>7, <1>8, LoginReadStep DEF Next

(* A token that is issued is made from the row as it is, or, by a login,   *)
(* from the row that was read before the password was compared.            *)
NewToken(t) ==
  /\ t \in Token /\ UNCHANGED <<users, nextId>>
  /\ t.id < nextId /\ Agrees(t) /\ (t.login => Proved(t))

LEMMA CurrentRowIssue ==
  ASSUME TypeOK, NEW id \in Exist, Issue(id, users[id], users[id].era, FALSE),
         UNCHANGED <<users, nextId>>, NEW t \in tokens', t \notin tokens
  PROVE  NewToken(t)
<1>1. id \in Ids /\ users[id] \in Row /\ id < nextId
  BY DEF TypeOK, Exist, Ids
<1>2. /\ users[id].version \in 0..MaxVersion /\ users[id].admin \in BOOLEAN
      /\ users[id].era \in 0..MaxVersion
  BY <1>1 DEF Row
<1>3. t = [id |-> id, version |-> users[id].version, admin |-> users[id].admin,
           era |-> users[id].era, login |-> FALSE]
  BY DEF Issue
<1>4. t \in Token
  BY <1>1, <1>2, <1>3, Zenon DEF Token
<1> QED
  BY <1>1, <1>2, <1>3, <1>4 DEF NewToken, Agrees

LEMMA StepTokens ==
  ASSUME IInv, [Next]_vars, NEW t \in tokens', t \notin tokens
  PROVE  NewToken(t)
<1>1. TypeOK
  BY DEF IInv
<1>2. ASSUME NEW h \in Requests, LoginIssue(h) PROVE NewToken(t)
  <2>1. /\ req[h] \in RequestRecord /\ req[h].pc = "verify"
        /\ Issue(req[h].id, req[h], req[h].era, TRUE) /\ UNCHANGED <<users, nextId>>
    BY <1>1, <1>2, RequestTypes DEF LoginIssue, Ends
  <2>2. req[h].id < nextId /\ Agrees(req[h]) /\ Proved(req[h])
    BY <2>1 DEF IInv, RequestInv
  <2>3. t = [id |-> req[h].id, version |-> req[h].version, admin |-> req[h].admin,
             era |-> req[h].era, login |-> TRUE]
    BY <2>1 DEF Issue
  <2>4. t \in Token
    <3>1. /\ req[h].id \in Ids /\ req[h].version \in 0..MaxVersion
          /\ req[h].admin \in BOOLEAN /\ req[h].era \in 0..MaxVersion
      BY <2>1 DEF RequestRecord
    <3> QED
      BY <2>3, <3>1, Zenon DEF Token
  <2> QED
    BY <2>1, <2>2, <2>3, <2>4 DEF NewToken, Agrees, Proved
<1>3. ASSUME NEW h \in Requests, Reissue(h) PROVE NewToken(t)
  BY <1>1, <1>3, CurrentRowIssue DEF Reissue
<1>4. ASSUME NEW h \in Requests, IssueExternal(h) PROVE NewToken(t)
  BY <1>1, <1>4, CurrentRowIssue DEF IssueExternal
<1> QED
  BY <1>2, <1>3, <1>4
     DEF Next, vars, Bootstrap, BootstrapMust, Crash, Expire, LoginRead, DeleteUser, Admit,
         Logout, CheckOldPassword, StorePassword, CreateUser, UpsertExternalUser
------------------------------------------------------------------------------
(* The invariant.                                                          *)

LEMMA Initially == Init => IInv
<1> SUFFICES ASSUME Init PROVE IInv
  OBVIOUS
<1>1. 1 \in Ids /\ 0 \in 0..MaxVersion
  BY DEF Ids
<1>2. TypeOK
  BY <1>1 DEF Init, TypeOK, Idle, Pcs
<1>3. RequestInv /\ TokenInv /\ AdminInv
  BY DEF Init, RequestInv, TokenInv, AdminInv, Idle
<1> QED
  BY <1>2, <1>3 DEF IInv

LEMMA Inductive == ASSUME IInv, [Next]_vars PROVE IInv'
<1>1. RowsStep /\ AdminInv' /\ RequestsStep /\ TypeOK
  BY StepRows, StepRequests DEF StepGoal, IInv
<1>2. tokens' \subseteq Token
  BY <1>1, StepTokens DEF NewToken, TypeOK
<1>3. TypeOK'
  BY <1>1, <1>2 DEF RowsStep, RequestsStep, RequestRecord, TypeOK
<1>4. ASSUME NEW h \in Requests, req'[h].pc = "verify"
      PROVE  (req[h].id < nextId /\ Agrees(req[h]) /\ Proved(req[h]))'
  <2> PICK r : r = req'[h]
    OBVIOUS
  <2>1. r.id \in Ids /\ r.version \in 0..MaxVersion
    BY <1>1 DEF RequestsStep, RequestRecord
  <2>2. CASE req'[h] = req[h]
    <3>1. r.id < nextId /\ Agrees(r) /\ Proved(r)
      BY <1>4, <2>2 DEF IInv, RequestInv
    <3>2. r.id < nextId' /\ Agrees(r)' /\ Proved(r)'
      BY <1>1, <2>1, <3>1, RowKept
    <3> QED
      BY <3>2 DEF Agrees, Proved
  <2>3. CASE UNCHANGED <<users, nextId>> /\ ReadAgrees(req'[h])
    BY <2>3 DEF ReadAgrees, Agrees, Proved
  <2> QED
    BY <1>1, <1>4, <2>2, <2>3 DEF RequestsStep
<1>5. RequestInv'
  BY <1>1, <1>4 DEF RequestsStep, RequestInv
<1>6. ASSUME NEW t \in tokens' PROVE t.id < nextId' /\ Agrees(t)' /\ (t.login => Proved(t)')
  <2>1. CASE t \in tokens
    <3>1. /\ t.id \in Ids /\ t.version \in 0..MaxVersion /\ t.id < nextId /\ Agrees(t)
          /\ t.login => Proved(t)
      BY <1>1, <2>1 DEF IInv, TokenInv, TypeOK, Token
    <3> QED
      BY <1>1, <3>1, RowKept
  <2>2. CASE t \notin tokens
    BY <2>2, StepTokens DEF NewToken, Agrees, Proved
  <2> QED
    BY <2>1, <2>2
<1>7. TokenInv'
  BY <1>6 DEF TokenInv
<1> QED
  BY <1>1, <1>3, <1>5, <1>7 DEF IInv

LEMMA Invariance == Spec => []IInv
<1>1. IInv /\ UNCHANGED vars => IInv'
  BY Inductive
<1>2. IInv /\ [Next]_vars => IInv'
  BY Inductive
<1> QED
  BY Initially, <1>2, PTL DEF Spec
------------------------------------------------------------------------------
(* Whatever administrators delete together, a local one remains            *)
(* (DeleteUser's one statement).                                           *)
THEOREM AdminRemains == Spec => []LocalAdminRemains
<1>1. IInv => LocalAdminRemains
  BY DEF IInv, AdminInv, LocalAdminRemains
<1> QED
  BY Invariance, <1>1, PTL

(* A token is accepted only with the role and, after a login, the password *)
(* of the account as it is (the version in claims and row).                *)
THEOREM OnlyCurrent == Spec => []ValidIsCurrent
<1>1. IInv => ValidIsCurrent
  BY DEF IInv, TokenInv, ValidIsCurrent, Valid, Agrees, Proved
<1> QED
  BY Invariance, <1>1, PTL

(* A token that was revoked is never accepted again (versions grow and     *)
(* AUTOINCREMENT gives no ID twice).                                       *)
THEOREM NeverAgain == Spec => RevokedForGood
<1>1. ASSUME IInv, [Next]_vars, NEW t \in tokens, ~Valid(t) PROVE ~Valid(t)'
  <2>1. /\ t.id \in Ids /\ t.version \in 0..MaxVersion /\ t.id < nextId /\ Agrees(t)
        /\ users \in [Ids -> Row \cup {None}] /\ nextId \in Int
    BY <1>1 DEF IInv, TokenInv, TypeOK, Token
  <2>2. RowStep(t.id) /\ users' \in [Ids -> Row \cup {None}]
    BY <1>1, <2>1, StepRows DEF StepGoal, RowsStep
  <2>3. /\ users[t.id] # None => users[t.id].version \in Int
        /\ users'[t.id] # None => users'[t.id].version \in Int
        /\ t.version \in Int /\ t.id \in Int
    BY <2>1, <2>2 DEF Row, Ids
  <2>4. users[t.id] = None => users'[t.id] = None
    BY <2>1, <2>2, <2>3 DEF RowStep
  <2> QED
    BY <1>1, <2>1, <2>2, <2>3, <2>4 DEF RowStep, Valid, Agrees
<1>2. IInv /\ [Next]_vars => [\A t \in tokens : ~Valid(t) => ~Valid(t)']_vars
  BY <1>1
<1> QED
  BY Invariance, <1>2, PTL DEF Spec, RevokedForGood

(***************************************************************************)
(* OidcFlows.                                                              *)
(***************************************************************************)

(* A callback in flight has consumed the flow of its own browser, alone,   *)
(* and before any completion of it.                                        *)
CallInv ==
  \A h \in Handlers : call[h] # Absent =>
    /\ begun[call[h][1]] = call[h][2] /\ flows[call[h][1]] = Absent /\ done[call[h]] = 0
    /\ \A k \in Handlers \ {h} : call[k] # Absent => call[k][1] # call[h][1]

(* A completed flow was begun by that browser and has left the table.      *)
DoneInv ==
  \A p \in Flows \X Browsers :
    /\ done[p] \in {0, 1}
    /\ done[p] = 1 => begun[p[1]] = p[2] /\ flows[p[1]] = Absent

(* A binding is only in the browser that began the flow, and only a begun  *)
(* flow is in the table.                                                   *)
BindingInv ==
  /\ \A f \in Flows, b \in Browsers : cookie[b] = f => begun[f] = b
  /\ \A f \in Flows : begun[f] = Absent => flows[f] = Absent

OidcInv == FlowsTypeOK /\ CallInv /\ DoneInv /\ BindingInv

USE OidcAssumption
------------------------------------------------------------------------------
(* Types and the cap.                                                      *)

LEMMA SmallerTable ==
  ASSUME NEW S, NEW T, IsFiniteSet(T), S \subseteq T, Cardinality(T) <= MaxFlows,
         MaxFlows \in Nat
  PROVE  Cardinality(S) <= MaxFlows
BY FS_Subset, FS_CardinalityType

LEMMA AddOne ==
  ASSUME NEW S, IsFiniteSet(S), NEW x, NEW n \in Nat, Cardinality(S) + 1 <= n
  PROVE  IsFiniteSet(S \cup {x}) /\ Cardinality(S \cup {x}) <= n
<1>1. Cardinality(S) \in Nat
  BY FS_CardinalityType
<1>2. IsFiniteSet(S \cup {x}) /\ Cardinality(S \cup {x}) \in {Cardinality(S), Cardinality(S) + 1}
  BY FS_AddElement
<1> QED
  BY <1>1, <1>2

LEMMA MinOfTwo == ASSUME NEW m \in Nat, NEW n \in Nat PROVE Min({m, n}) \in 0..n
<1>1. \E x \in {m, n} : \A y \in {m, n} : x <= y
  <2>1. CASE m <= n
    BY <2>1
  <2>2. CASE n <= m
    BY <2>2
  <2> QED
    BY <2>1, <2>2
<1>2. Min({m, n}) \in {m, n} /\ \A y \in {m, n} : Min({m, n}) <= y
  BY <1>1 DEF Min
<1> QED
  BY <1>2

(* storeFlow keeps the cap: what is left has room for one more.            *)
LEMMA BeginKeepsCap ==
  ASSUME FlowsTypeOK, NEW b \in Browsers, NEW f \in Flows, BeginLogin(b, f)
  PROVE  Cardinality(Active') <= MaxFlows
<1> DEFINE expired == IF Sweeps THEN Expired ELSE {}
           left    == Active \ expired
<1>1. /\ IsFiniteSet(Active) /\ IsFiniteSet(left) /\ Cardinality(Active) <= MaxFlows
      /\ Cardinality(left) <= Cardinality(Active) /\ MaxFlows \in Nat \ {0}
      /\ Cardinality(left) \in Nat /\ Cardinality(Active) \in Nat
  BY FS_Subset, FS_CardinalityType DEF OidcAssumption, FlowsTypeOK, Active
<1>2. PICK gone \in Gone :
        flows' = [g \in Flows |-> IF g = f THEN 0 ELSE IF g \in gone THEN Absent ELSE flows[g]]
  BY DEF BeginLogin
<1>3. PICK over : /\ gone = expired \cup over
                  /\ IF Cardinality(left) >= MaxFlows THEN \E g \in left : over = {g}
                     ELSE over = {}
  <2>1. CASE Cardinality(left) >= MaxFlows
    BY <1>2, <2>1 DEF Gone
  <2>2. CASE ~(Cardinality(left) >= MaxFlows)
    BY <1>2, <2>2 DEF Gone
  <2> QED
    BY <2>1, <2>2
<1>4. Active' \subseteq (left \ over) \cup {f}
  BY <1>2, <1>3 DEF Active
<1> HIDE DEF left, expired
<1>5. IsFiniteSet(left \ over) /\ Cardinality(left \ over) + 1 <= MaxFlows
  <2>1. CASE Cardinality(left) >= MaxFlows
    <3>1. PICK g \in left : over = {g}
      BY <1>3, <2>1
    <3>2. IsFiniteSet(left \ {g}) /\ Cardinality(left \ {g}) = Cardinality(left) - 1
      BY <1>1, FS_RemoveElement
    <3> QED
      BY <1>1, <3>1, <3>2
  <2>2. CASE ~(Cardinality(left) >= MaxFlows)
    <3>1. over = {} /\ left \ over = left
      BY <1>3, <2>2
    <3> QED
      BY <1>1, <2>2, <3>1
  <2> QED
    BY <2>1, <2>2
<1>6. IsFiniteSet((left \ over) \cup {f}) /\ Cardinality((left \ over) \cup {f}) <= MaxFlows
  BY <1>1, <1>5, AddOne
<1> QED
  BY <1>1, <1>4, <1>6, SmallerTable

LEMMA TypeStep ==
  ASSUME OidcInv, FlowsNext PROVE FlowsTypeOK'
<1> DEFINE Ages == 0..(TTL + 1) \cup {Absent}
<1>1. /\ flows \in [Flows -> Ages] /\ begun \in [Flows -> Browsers \cup {Absent}]
      /\ swept \in 0..Interval /\ cookie \in [Browsers -> Flows \cup {Absent}]
      /\ call \in [Handlers -> (Flows \X Browsers) \cup {Absent}]
      /\ done \in [Flows \X Browsers -> Nat] /\ Absent \notin Flows \X Browsers
      /\ TTL \in Nat /\ Interval \in Nat /\ MaxFlows \in Nat
      /\ IsFiniteSet(Active) /\ Cardinality(Active) <= MaxFlows
  BY FS_Subset DEF OidcAssumption, OidcInv, FlowsTypeOK, Active
<1>2. CASE Tick
  <2>1. flows' \in [Flows -> Ages] /\ swept' \in 0..Interval
    <3>1. swept + 1 \in Nat /\ swept' = Min({swept + 1, Interval})
      BY <1>1, <1>2 DEF Tick
    <3>2. swept' \in 0..Interval
      BY <1>1, <3>1, MinOfTwo
    <3>3. ASSUME NEW g \in Flows, flows[g] # Absent PROVE flows'[g] \in Ages
      <4>1. flows[g] + 1 \in Nat /\ TTL + 1 \in Nat
        BY <1>1, <3>3
      <4>2. flows'[g] = Min({flows[g] + 1, TTL + 1})
        BY <1>2, <3>3 DEF Tick
      <4> QED
        BY <4>1, <4>2, MinOfTwo
    <3> QED
      BY <1>1, <1>2, <3>2, <3>3 DEF Tick
  <2>2. Cardinality(Active') <= MaxFlows
    BY <1>1, <1>2, SmallerTable DEF Tick, Active
  <2> QED
    BY <1>2, <2>1, <2>2 DEF Tick, OidcInv, FlowsTypeOK, Active
<1>3. ASSUME NEW b \in Browsers, NEW f \in Flows, BeginLogin(b, f) PROVE FlowsTypeOK'
  <2>1. PICK gone : flows' = [g \in Flows |-> IF g = f THEN 0
                                              ELSE IF g \in gone THEN Absent ELSE flows[g]]
    BY <1>3 DEF BeginLogin
  <2>2. flows' \in [Flows -> Ages] /\ swept' \in 0..Interval
    BY <1>1, <1>3, <2>1 DEF BeginLogin
  <2>3. \A h \in Handlers : call'[h] # Absent => flows'[call'[h][1]] = Absent
    <3> SUFFICES ASSUME NEW h \in Handlers, call[h] # Absent PROVE flows'[call[h][1]] = Absent
      BY <1>3 DEF BeginLogin
    <3>1. call[h][1] \in Flows /\ call[h][2] \in Browsers
      BY <1>1
    <3>2. /\ begun[call[h][1]] = call[h][2] /\ flows[call[h][1]] = Absent
          /\ call[h][2] # Absent /\ begun[f] = Absent
      BY <1>3, <3>1 DEF OidcInv, CallInv, BeginLogin, OidcAssumption
    <3>3. call[h][1] # f
      BY <3>2
    <3> QED
      BY <2>1, <3>1, <3>2, <3>3
  <2>4. Cardinality(Active') <= MaxFlows
    BY <1>3, BeginKeepsCap DEF OidcInv
  <2> QED
    BY <1>1, <1>3, <2>2, <2>3, <2>4 DEF BeginLogin, FlowsTypeOK, Active
<1>4. ASSUME NEW h \in Handlers, NEW b \in Browsers, NEW f \in Flows, Callback(h, b, f)
      PROVE  FlowsTypeOK'
  <2>1. flows' = [flows EXCEPT ![f] = Absent] /\ UNCHANGED <<begun, swept, done>>
    BY <1>4 DEF Callback
  <2>2. \/ /\ call' = [call EXCEPT ![h] = <<f, b>>] /\ cookie' = cookie
        \/ /\ call' = call /\ cookie' = [cookie EXCEPT ![b] = Absent]
    BY <1>4 DEF Callback
  <2>3. Cardinality(Active') <= MaxFlows
    BY <1>1, <2>1, SmallerTable DEF Active
  <2>4. <<f, b>> \in Flows \X Browsers /\ <<f, b>>[1] = f
    OBVIOUS
  <2>5. /\ call' \in [Handlers -> (Flows \X Browsers) \cup {Absent}]
        /\ cookie' \in [Browsers -> Flows \cup {Absent}]
        /\ flows' \in [Flows -> Ages]
    <3>1. flows' \in [Flows -> Ages]
      BY <1>1, <2>1
    <3>2. call' \in [Handlers -> (Flows \X Browsers) \cup {Absent}]
      BY <1>1, <2>2, <2>4
    <3>3. cookie' \in [Browsers -> Flows \cup {Absent}]
      BY <1>1, <2>2
    <3> QED
      BY <3>1, <3>2, <3>3
  <2>6. \A k \in Handlers : call'[k] # Absent => flows'[call'[k][1]] = Absent
    <3> SUFFICES ASSUME NEW k \in Handlers, call'[k] # Absent PROVE flows'[call'[k][1]] = Absent
      OBVIOUS
    <3>1. CASE call'[k] = <<f, b>>
      BY <1>1, <2>1, <2>4, <3>1
    <3>2. CASE call'[k] = call[k]
      <4>1. call[k][1] \in Flows /\ flows[call[k][1]] = Absent
        BY <1>1, <3>2 DEF OidcInv, FlowsTypeOK
      <4> QED
        BY <1>1, <2>1, <3>2, <4>1
    <3> QED
      BY <1>1, <2>2, <3>1, <3>2
  <2> QED
    BY <1>1, <2>1, <2>3, <2>5, <2>6 DEF FlowsTypeOK, Active
<1>5. ASSUME NEW h \in Handlers, Exchange(h) PROVE FlowsTypeOK'
  <2>1. call[h] \in Flows \X Browsers /\ call[h][2] \in Browsers /\ done[call[h]] + 1 \in Nat
    BY <1>1, <1>5 DEF Exchange
  <2>2. /\ call' \in [Handlers -> (Flows \X Browsers) \cup {Absent}]
        /\ cookie' \in [Browsers -> Flows \cup {Absent}]
        /\ done' \in [Flows \X Browsers -> Nat]
    BY <1>1, <1>5, <2>1 DEF Exchange
  <2>3. \A k \in Handlers : call'[k] # Absent => call'[k] = call[k]
    BY <1>1, <1>5 DEF Exchange
  <2> QED
    BY <1>1, <1>5, <2>2, <2>3 DEF Exchange, OidcInv, FlowsTypeOK, Active
<1> QED
  BY <1>2, <1>3, <1>4, <1>5 DEF FlowsNext
------------------------------------------------------------------------------
(* Who holds a flow.                                                       *)

LEMMA CallStep == ASSUME OidcInv, FlowsNext PROVE CallInv'
<1>1. /\ begun \in [Flows -> Browsers \cup {Absent}] /\ DOMAIN flows = Flows
      /\ flows = [f \in Flows |-> flows[f]]
      /\ call \in [Handlers -> (Flows \X Browsers) \cup {Absent}]
      /\ done \in [Flows \X Browsers -> Nat]
      /\ Absent \notin Flows \cup Browsers
  BY DEF OidcAssumption, OidcInv, FlowsTypeOK
<1>2. \A h \in Handlers : call[h] # Absent =>
        /\ call[h] \in Flows \X Browsers /\ call[h][1] \in Flows /\ call[h][2] \in Browsers
  BY <1>1
<1>3. CASE Tick
  <2>1. /\ UNCHANGED <<begun, call, done>>
        /\ \A f \in Flows : flows[f] = Absent => flows'[f] = Absent
    BY <1>1, <1>3 DEF Tick
  <2> QED
    BY <1>2, <2>1 DEF OidcInv, CallInv
<1>4. ASSUME NEW b \in Browsers, NEW f \in Flows, BeginLogin(b, f) PROVE CallInv'
  <2>1. /\ begun[f] = Absent /\ begun' = [begun EXCEPT ![f] = b]
        /\ \A g \in Flows \ {f} : flows[g] = Absent => flows'[g] = Absent
        /\ call' = call /\ done' = done
    BY <1>1, <1>4 DEF BeginLogin
  <2>2. \A h \in Handlers : call[h] # Absent => call[h][1] # f
    BY <1>1, <1>2, <2>1 DEF OidcInv, CallInv
  <2> QED
    BY <1>1, <1>2, <2>1, <2>2 DEF OidcInv, CallInv
<1>5. ASSUME NEW h \in Handlers, NEW b \in Browsers, NEW f \in Flows, Callback(h, b, f)
      PROVE  CallInv'
  <2>1. /\ flows' = [flows EXCEPT ![f] = Absent] /\ begun' = begun /\ done' = done
        /\ call[h] = Absent
    BY <1>5 DEF Callback
  <2>2. CASE call' = call
    BY <1>1, <1>2, <2>1, <2>2 DEF OidcInv, CallInv
  <2>3. CASE call' = [call EXCEPT ![h] = <<f, b>>] /\ flows[f] # Absent /\ cookie[b] = f
    <3> DEFINE q == <<f, b>>
    <3>1. q \in Flows \X Browsers /\ q[1] = f /\ q[2] = b
      OBVIOUS
    <3>2. begun[f] = b
      BY <2>3 DEF OidcInv, BindingInv
    <3>3. done[q] = 0
      BY <2>3, <3>1 DEF OidcInv, DoneInv
    <3>4. \A k \in Handlers : call[k] # Absent => call[k][1] # f
      BY <2>3 DEF OidcInv, CallInv
    <3>5. call'[h] = q /\ \A k \in Handlers \ {h} : call'[k] = call[k]
      BY <1>1, <2>3
    <3> HIDE DEF q
    <3>6. ASSUME NEW k \in Handlers \ {h}, call[k] # Absent
          PROVE  /\ begun[call[k][1]] = call[k][2] /\ flows'[call[k][1]] = Absent
                 /\ done[call[k]] = 0 /\ call[k][1] # f
                 /\ \A j \in Handlers \ {k} : call[j] # Absent => call[j][1] # call[k][1]
      BY <1>1, <1>2, <2>1, <3>4, <3>6 DEF OidcInv, CallInv
    <3> QED
      BY <1>1, <2>1, <3>1, <3>2, <3>3, <3>4, <3>5, <3>6 DEF CallInv
  <2> QED
    BY <1>5, <2>2, <2>3 DEF Callback, Active
<1>6. ASSUME NEW h \in Handlers, Exchange(h) PROVE CallInv'
  <2>1. /\ call[h] # Absent /\ call' = [call EXCEPT ![h] = Absent]
        /\ UNCHANGED <<flows, begun>>
        /\ \A p \in Flows \X Browsers : p # call[h] => done'[p] = done[p]
    BY <1>1, <1>6 DEF Exchange
  <2>2. \A k \in Handlers \ {h} : call[k] # Absent => call[k] # call[h]
    BY <2>1 DEF OidcInv, CallInv
  <2> QED
    BY <1>1, <1>2, <2>1, <2>2 DEF OidcInv, CallInv
<1> QED
  BY <1>3, <1>4, <1>5, <1>6 DEF FlowsNext

LEMMA DoneStep == ASSUME OidcInv, FlowsNext PROVE DoneInv'
<1>1. /\ begun \in [Flows -> Browsers \cup {Absent}] /\ DOMAIN flows = Flows
      /\ flows = [f \in Flows |-> flows[f]]
      /\ call \in [Handlers -> (Flows \X Browsers) \cup {Absent}]
      /\ done \in [Flows \X Browsers -> Nat] /\ Absent \notin Browsers
      /\ \A p \in Flows \X Browsers : p[1] \in Flows /\ p[2] \in Browsers
  BY DEF OidcAssumption, OidcInv, FlowsTypeOK
<1>2. CASE Tick
  <2>1. /\ UNCHANGED <<begun, done>>
        /\ \A f \in Flows : flows[f] = Absent => flows'[f] = Absent
    BY <1>1, <1>2 DEF Tick
  <2> QED
    BY <1>1, <2>1 DEF OidcInv, DoneInv
<1>3. ASSUME NEW b \in Browsers, NEW f \in Flows, BeginLogin(b, f) PROVE DoneInv'
  <2>1. /\ begun[f] = Absent /\ begun' = [begun EXCEPT ![f] = b]
        /\ \A g \in Flows \ {f} : flows[g] = Absent => flows'[g] = Absent
        /\ done' = done
    BY <1>1, <1>3 DEF BeginLogin
  <2> QED
    BY <1>1, <2>1 DEF OidcInv, DoneInv
<1>4. ASSUME NEW h \in Handlers, NEW b \in Browsers, NEW f \in Flows, Callback(h, b, f)
      PROVE  DoneInv'
  <2>1. /\ flows' = [flows EXCEPT ![f] = Absent] /\ UNCHANGED <<begun, done>>
    BY <1>4 DEF Callback
  <2> QED
    BY <1>1, <2>1 DEF OidcInv, DoneInv
<1>5. ASSUME NEW h \in Handlers, Exchange(h) PROVE DoneInv'
  <2>1. /\ call[h] \in Flows \X Browsers /\ UNCHANGED <<flows, begun>>
        /\ \A p \in Flows \X Browsers :
             done'[p] = done[p] \/ (p = call[h] /\ done'[p] = done[p] + 1)
    BY <1>1, <1>5 DEF Exchange
  <2>2. /\ begun[call[h][1]] = call[h][2] /\ flows[call[h][1]] = Absent /\ done[call[h]] = 0
    BY <1>5 DEF Exchange, OidcInv, CallInv
  <2> QED
    BY <2>1, <2>2 DEF OidcInv, DoneInv
<1> QED
  BY <1>2, <1>3, <1>4, <1>5 DEF FlowsNext

LEMMA BindingStep == ASSUME OidcInv, FlowsNext PROVE BindingInv'
<1>1. /\ begun \in [Flows -> Browsers \cup {Absent}] /\ DOMAIN flows = Flows
      /\ flows = [f \in Flows |-> flows[f]]
      /\ cookie \in [Browsers -> Flows \cup {Absent}]
      /\ call \in [Handlers -> (Flows \X Browsers) \cup {Absent}]
      /\ Absent \notin Flows \cup Browsers
  BY DEF OidcAssumption, OidcInv, FlowsTypeOK
<1>2. CASE Tick
  BY <1>1, <1>2 DEF Tick, OidcInv, BindingInv
<1>3. ASSUME NEW b \in Browsers, NEW f \in Flows, BeginLogin(b, f) PROVE BindingInv'
  <2>1. /\ begun[f] = Absent /\ begun' = [begun EXCEPT ![f] = b]
        /\ \A g \in Flows \ {f} : flows[g] = Absent => flows'[g] = Absent
        /\ cookie' = [cookie EXCEPT ![b] = f]
    BY <1>1, <1>3 DEF BeginLogin
  <2> QED
    BY <1>1, <2>1 DEF OidcInv, BindingInv
<1>4. ASSUME NEW h \in Handlers, NEW b \in Browsers, NEW f \in Flows, Callback(h, b, f)
      PROVE  BindingInv'
  BY <1>1, <1>4 DEF Callback, OidcInv, BindingInv
<1>5. ASSUME NEW h \in Handlers, Exchange(h) PROVE BindingInv'
  <2>1. call[h][2] \in Browsers
    BY <1>1, <1>5 DEF Exchange
  <2> QED
    BY <1>1, <1>5, <2>1 DEF Exchange, OidcInv, BindingInv
<1> QED
  BY <1>2, <1>3, <1>4, <1>5 DEF FlowsNext
------------------------------------------------------------------------------
LEMMA OidcInitially == ASSUME FlowsInit PROVE OidcInv
<1>1. FlowsTypeOK
  <2>1. {f \in Flows : flows[f] # Absent} = {}
    BY DEF FlowsInit
  <2>2. Cardinality({f \in Flows : flows[f] # Absent}) = 0
    BY <2>1, FS_EmptySet
  <2>3. Cardinality({f \in Flows : flows[f] # Absent}) <= MaxFlows
    BY <2>2 DEF OidcAssumption
  <2> QED
    BY <2>3 DEF FlowsInit, OidcAssumption, FlowsTypeOK
<1>2. CallInv /\ DoneInv /\ BindingInv
  BY DEF FlowsInit, OidcAssumption, CallInv, DoneInv, BindingInv
<1> QED
  BY <1>1, <1>2 DEF OidcInv

LEMMA OidcInductive == ASSUME OidcInv, [FlowsNext]_flowVars PROVE OidcInv'
<1>1. CASE FlowsNext
  BY <1>1, TypeStep, CallStep, DoneStep, BindingStep DEF OidcInv
<1>2. CASE UNCHANGED flowVars
  BY <1>2 DEF OidcInv, FlowsTypeOK, CallInv, DoneInv, BindingInv, flowVars
<1> QED
  BY <1>1, <1>2

LEMMA OidcInvariance == FlowsSpec => []OidcInv
<1>1. FlowsInit => OidcInv
  BY OidcInitially
<1>2. OidcInv /\ [FlowsNext]_flowVars => OidcInv'
  BY OidcInductive
<1> QED
  BY <1>1, <1>2, PTL DEF FlowsSpec

(* Types, and the cap of the table of flows (oidcMaxFlows): storeFlow makes*)
(* room before it adds, whatever is expired and however often it sweeps.   *)
THEOREM TypeCorrect == FlowsSpec => []FlowsTypeOK
<1>1. OidcInv => FlowsTypeOK
  BY DEF OidcInv
<1> QED
  BY OidcInvariance, <1>1, PTL

(* A login is completed at most once and only in the browser that began it,*)
(* for any number of callbacks that come twice, together or crossed.       *)
THEOREM OwnLogins == FlowsSpec => []LoginsAreOwn
<1>1. OidcInv => LoginsAreOwn
  <2> SUFFICES ASSUME OidcInv, NEW f \in Flows, NEW b \in Browsers
               PROVE  done[<<f, b>>] <= IF begun[f] = b THEN 1 ELSE 0
    BY DEF LoginsAreOwn
  <2>1. <<f, b>> \in Flows \X Browsers /\ <<f, b>>[1] = f /\ <<f, b>>[2] = b
    OBVIOUS
  <2> QED
    BY <2>1 DEF OidcInv, DoneInv
<1> QED
  BY OidcInvariance, <1>1, PTL

(* What a step of a full table may take: the cap is checked after the      *)
(* sweep, so a flow goes with it only when nothing was expired.            *)
LEMMA BeginTakesOldest ==
  ASSUME FlowsTypeOK, NEW b \in Browsers, NEW e \in Flows, BeginLogin(b, e),
         NEW f \in Active \ Expired, flows'[f] = Absent
  PROVE  /\ Cardinality(Active) >= MaxFlows /\ \A g \in Active : flows[g] <= flows[f]
         /\ Expired = {}
<1> DEFINE expired == IF Sweeps THEN Expired ELSE {}
           left    == Active \ expired
<1>1. /\ IsFiniteSet(Active) /\ IsFiniteSet(left) /\ Cardinality(Active) <= MaxFlows
      /\ left \subseteq Active /\ MaxFlows \in Nat /\ f \in Flows
      /\ Cardinality(left) \in Nat /\ Cardinality(Active) \in Nat
  BY FS_Subset, FS_CardinalityType DEF OidcAssumption, FlowsTypeOK, Active
<1>2. PICK gone \in Gone :
        flows' = [g \in Flows |-> IF g = e THEN 0 ELSE IF g \in gone THEN Absent ELSE flows[g]]
  BY DEF BeginLogin
<1>3. f \in gone
  <2>1. flows[f] # Absent
    BY DEF Active
  <2>2. f # e
    <3>1. 0 # Absent
      BY OidcAssumption DEF OidcAssumption
    <3> QED
      BY <1>1, <1>2, <3>1
  <2> QED
    BY <1>1, <1>2, <2>1, <2>2
<1>4. f \notin expired
  OBVIOUS
<1>5. Cardinality(left) >= MaxFlows /\ \A g \in left : flows[f] >= flows[g]
  <2>1. CASE ~(Cardinality(left) >= MaxFlows)
    BY <1>2, <1>3, <1>4, <2>1 DEF Gone
  <2>2. CASE Cardinality(left) >= MaxFlows
    BY <1>2, <1>3, <1>4, <2>2 DEF Gone
  <2> QED
    BY <2>1, <2>2
<1> HIDE DEF left
<1>6. left = Active /\ Cardinality(Active) >= MaxFlows
  <2>1. Cardinality(left) <= Cardinality(Active)
        /\ (left # Active => Cardinality(left) < Cardinality(Active))
    BY <1>1, FS_Subset
  <2> QED
    BY <1>1, <1>5, <2>1
<1>7. Expired = {}
  <2>1. Sweeps /\ Active \cap Expired = {}
    BY <1>6 DEF left, Sweeps
  <2> QED
    BY <2>1 DEF Expired
<1> QED
  BY <1>5, <1>6, <1>7

(* A flow that is not expired waits for its callback, whatever other       *)
(* logins begin: only a table that is full of unexpired flows gives up its *)
(* oldest (storeFlow).                                                     *)
THEOREM FreshWait == FlowsSpec => FreshFlowsWait
<1>1. OidcInv /\ [FlowsNext]_flowVars =>
        [\A f \in Active \ Expired :
           flows'[f] = Absent =>
             \/ \E h \in Handlers, b \in Browsers : Callback(h, b, f)
             \/ /\ Cardinality(Active) >= MaxFlows /\ \A e \in Active : flows[e] <= flows[f]
                /\ Expired = {}]_flowVars
  <2> SUFFICES ASSUME OidcInv, FlowsNext, NEW f \in Active \ Expired, flows'[f] = Absent
               PROVE  \/ \E h \in Handlers, b \in Browsers : Callback(h, b, f)
                      \/ /\ Cardinality(Active) >= MaxFlows
                         /\ \A e \in Active : flows[e] <= flows[f]
                         /\ Expired = {}
    OBVIOUS
  <2>0. f \in Flows /\ flows[f] # Absent /\ FlowsTypeOK
    BY DEF Active, OidcInv
  <2>1. CASE Tick
    <3>1. flows[f] + 1 \in Nat /\ TTL + 1 \in Nat /\ flows'[f] = Min({flows[f] + 1, TTL + 1})
      BY <2>0, <2>1 DEF Tick, FlowsTypeOK, OidcAssumption
    <3>2. flows'[f] # Absent
      <4>1. Absent \notin 0..(TTL + 1)
        BY OidcAssumption DEF OidcAssumption
      <4> QED
        BY <3>1, <4>1, MinOfTwo
    <3> QED
      BY <3>2
  <2>2. ASSUME NEW b \in Browsers, NEW e \in Flows, BeginLogin(b, e)
        PROVE  /\ Cardinality(Active) >= MaxFlows /\ \A g \in Active : flows[g] <= flows[f]
               /\ Expired = {}
    BY <2>0, <2>2, BeginTakesOldest
  <2>3. ASSUME NEW h \in Handlers, NEW b \in Browsers, NEW e \in Flows, Callback(h, b, e)
        PROVE  e = f
    BY <2>0, <2>3 DEF Callback, FlowsTypeOK
  <2>4. ASSUME NEW h \in Handlers, Exchange(h) PROVE FALSE
    BY <2>0, <2>4 DEF Exchange
  <2> QED
    BY <2>1, <2>2, <2>3, <2>4 DEF FlowsNext
<1> QED
  BY OidcInvariance, <1>1, PTL DEF FlowsSpec, FreshFlowsWait
===============================================================================
