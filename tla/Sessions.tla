------------------------------- MODULE Sessions -------------------------------
(***************************************************************************)
(* Accounts and sessions: the users table of internal/store and the        *)
(* handlers of internal/auth, with requests that interleave between their  *)
(* statements, and the bootstrap of the break-glass administrator at every *)
(* start. A session is a self-contained token; what makes it valid is the  *)
(* account's row, read again by Middleware on every request.               *)
(***************************************************************************)
EXTENDS Integers, FiniteSets

CONSTANTS
  MaxId,       \* bound: accounts ever created
  MaxVersion,  \* bound: changes of one account's session version
  MaxTokens,   \* bound: sessions that have not expired
  LocalNames,  \* usernames of local accounts
  Admin,       \* "admin", the name the bootstrap uses
  Subjects,    \* subjects at the external provider
  Requests,    \* requests in flight together
  None         \* no row

VARIABLES
  users,   \* the users table
  nextId,  \* AUTOINCREMENT: the ID the next insert gets
  tokens,  \* sessions issued and not expired
  req,     \* the requests
  server   \* the server: down, in the middle of the bootstrap, or up

vars == <<users, nextId, tokens, req, server>>

Ids == 1..MaxId
Names == LocalNames \cup Subjects
(* era counts the account's passwords; boot: it still has the bootstrap    *)
(* password (both history).                                                *)
Row == [name : Names, admin : BOOLEAN, version : 0..MaxVersion,
        must : BOOLEAN, era : 0..MaxVersion, boot : BOOLEAN]

ASSUME SessionsAssumption ==
  /\ MaxId \in Nat \ {0} /\ MaxVersion \in Nat /\ MaxTokens \in Nat
  /\ None \notin Subjects /\ None \notin Row
  /\ Admin \in LocalNames /\ LocalNames \cap Subjects = {}

(* era: of the password that was proved (history); login: by a login.      *)
Token == [id : Ids, version : 0..MaxVersion, admin : BOOLEAN, era : 0..MaxVersion,
          login : BOOLEAN]
Pcs == {"idle", "verify", "logout", "password", "verified", "reissue", "create",
        "delete", "external"}

TypeOK ==
  /\ users \in [Ids -> Row \cup {None}] /\ nextId \in 1..(MaxId + 1)
  /\ tokens \subseteq Token
  /\ req \in [Requests -> [pc : Pcs, id : Ids, version : 0..MaxVersion,
                           admin : BOOLEAN, era : 0..MaxVersion,
                           subject : Subjects \cup {None}]]
  /\ server \in {"down", "boot", "up"}
  /\ \A id \in Ids : id >= nextId => users[id] = None

Exist == {id \in Ids : users[id] # None}
Local(id) == users[id].name \in LocalNames
LocalAdmins == {id \in Exist : Local(id) /\ users[id].admin}
Idle == [pc |-> "idle", id |-> 1, version |-> 0, admin |-> FALSE, era |-> 0,
         subject |-> None]

Init ==
  /\ users = [id \in Ids |-> None] /\ nextId = 1 /\ tokens = {}
  /\ req = [h \in Requests |-> Idle] /\ server = "down"

(* A faulty variant: without AUTOINCREMENT, a deleted account's ID is used *)
(* again.                                                                  *)
InsertReuses(name, admin, boot) ==
  \E n \in Ids \ Exist :
    /\ \A id \in Ids \ Exist : n <= id
    /\ users' = [users EXCEPT ![n] =
         [name |-> name, admin |-> admin, version |-> 0, must |-> FALSE, era |-> 0,
          boot |-> boot]]
    /\ UNCHANGED nextId

Insert(name, admin, boot) ==
  /\ nextId \in Ids /\ nextId' = nextId + 1
  /\ users' = [users EXCEPT ![nextId] =
       [name |-> name, admin |-> admin, version |-> 0, must |-> FALSE, era |-> 0,
        boot |-> boot]]
------------------------------------------------------------------------------
(* EnsureBreakGlassAdmin. The bootstrap password is configured.            *)

Promoted(row) == [row EXCEPT !.admin = TRUE, !.must = TRUE, !.version = @ + 1]

Bootstrap ==
  /\ server = "down" /\ UNCHANGED <<tokens, req>>
  /\ \/ /\ LocalAdmins # {} /\ server' = "up" /\ UNCHANGED <<users, nextId>>
     \/ \E id \in Exist :
          /\ LocalAdmins = {} /\ users[id].name = Admin
          /\ users[id].version < MaxVersion
          /\ users' = [users EXCEPT ![id] = Promoted(@)]
          /\ server' = "up" /\ UNCHANGED nextId
     \/ /\ LocalAdmins = {} /\ \A id \in Exist : users[id].name # Admin
        /\ Insert(Admin, TRUE, TRUE) /\ server' = "boot"

(* The second statement of a fresh bootstrap.                              *)
BootstrapMust ==
  /\ server = "boot" /\ server' = "up"
  /\ \E id \in LocalAdmins : users' = [users EXCEPT ![id].must = TRUE]
  /\ UNCHANGED <<nextId, tokens, req>>

(* Requests die with the process; the browsers keep their cookies.         *)
Crash ==
  /\ server' = "down" /\ req' = [h \in Requests |-> Idle]
  /\ UNCHANGED <<users, nextId, tokens>>
------------------------------------------------------------------------------
(* A session is accepted while its account exists in its version.          *)
Valid(t) == users[t.id] # None /\ users[t.id].version = t.version

Issue(id, r, era, login) ==
  /\ tokens' = tokens \cup {[id |-> id, version |-> r.version, admin |-> r.admin,
                             era |-> era, login |-> login]}
  /\ Cardinality(tokens') <= MaxTokens

Starts(h, r) == server = "up" /\ req[h].pc = "idle" /\ req' = [req EXCEPT ![h] = r]
Moves(h, from, to) == req[h].pc = from /\ req' = [req EXCEPT ![h].pc = to]
Ends(h, from) == req[h].pc = from /\ req' = [req EXCEPT ![h] = Idle]

(* Authenticate reads the whole row, then compares the password, which     *)
(* takes long; the token is made from the row it read.                     *)
LoginRead(h, id) ==
  /\ id \in Exist /\ Local(id)
  /\ Starts(h, [pc |-> "verify", id |-> id, version |-> users[id].version,
                admin |-> users[id].admin, era |-> users[id].era, subject |-> None])
  /\ UNCHANGED <<users, nextId, tokens, server>>

(* A faulty variant: the token is made from the row as it is now.          *)
LoginIssueRereads(h) ==
  /\ Ends(h, "verify")
  /\ IF users[req[h].id] # None THEN Issue(req[h].id, users[req[h].id], req[h].era, TRUE)
                               ELSE UNCHANGED tokens
  /\ UNCHANGED <<users, nextId, server>>

LoginIssue(h) ==
  /\ Ends(h, "verify")
  /\ \/ Issue(req[h].id, req[h], req[h].era, TRUE)
     \/ UNCHANGED tokens                              \* wrong password
  /\ UNCHANGED <<users, nextId, server>>

(* Middleware, AdminMiddleware and passwordRotationAllowed: the request is *)
(* let through with the account's current role.                            *)
Admit(h, t, pc) ==
  /\ t \in tokens /\ Valid(t)
  /\ pc \in {"logout", "password"} \/ (pc \in {"create", "delete"} /\ users[t.id].admin)
  /\ Local(t.id) /\ users[t.id].must => pc \in {"logout", "password"}
  /\ Starts(h, [Idle EXCEPT !.pc = pc, !.id = t.id])
  /\ UNCHANGED <<users, nextId, tokens, server>>

Bump(id) ==
  IF id \in Exist
  THEN users[id].version < MaxVersion /\ users' = [users EXCEPT ![id].version = @ + 1]
  ELSE UNCHANGED users

Logout(h) ==
  /\ Ends(h, "logout") /\ Bump(req[h].id) /\ UNCHANGED <<nextId, tokens, server>>

(* ChangePassword checks the old password ...                              *)
CheckOldPassword(h) ==
  /\ LET id == req[h].id IN
     \/ id \in Exist /\ Local(id) /\ Moves(h, "password", "verified")
     \/ Ends(h, "password")                           \* wrong, or no such user
  /\ UNCHANGED <<users, nextId, tokens, server>>

(* ... and stores the new one.                                             *)
NewPassword(row) ==
  [row EXCEPT !.version = @ + 1, !.era = @ + 1, !.must = FALSE, !.boot = FALSE]

StorePassword(h) ==
  LET id == req[h].id IN
  /\ Moves(h, "verified", "reissue")
  /\ IF id \in Exist
     THEN /\ users[id].version < MaxVersion /\ users[id].era < MaxVersion
          /\ users' = [users EXCEPT ![id] = NewPassword(@)]
     ELSE UNCHANGED users
  /\ UNCHANGED <<nextId, tokens, server>>

(* HandleChangePassword issues a new session from the row as it is now.    *)
Reissue(h) ==
  LET id == req[h].id IN
  /\ Ends(h, "reissue")
  /\ IF id \in Exist THEN Issue(id, users[id], users[id].era, FALSE)
                     ELSE UNCHANGED tokens
  /\ UNCHANGED <<users, nextId, server>>

(* The name of a local account is unique.                                  *)
CreateUser(h, name, admin) ==
  /\ Ends(h, "create") /\ name \in LocalNames
  /\ IF \E id \in Exist : users[id].name = name THEN UNCHANGED <<users, nextId>>
                                               ELSE Insert(name, admin, FALSE)
  /\ UNCHANGED <<tokens, server>>

(* A faulty variant: the last administrator is looked for before another   *)
(* request's deletion.                                                     *)
DeleteUserUnchecked(h, id) ==
  /\ Ends(h, "delete") /\ id \in Exist \ {req[h].id}
  /\ users' = [users EXCEPT ![id] = None] /\ UNCHANGED <<nextId, tokens, server>>

(* One statement checks for the last local administrator and deletes.      *)
DeleteUser(h, id) ==
  /\ Ends(h, "delete") /\ id \in Exist \ {req[h].id}
  /\ users' = IF LocalAdmins = {id} THEN users ELSE [users EXCEPT ![id] = None]
  /\ UNCHANGED <<nextId, tokens, server>>

WithRole(row, admin) == [row EXCEPT !.admin = admin, !.version = @ + 1]

(* An external identity logs in: its row is inserted or takes its current  *)
(* role, with a new session version when that differs ...                  *)
UpsertExternalUser(h, s, admin) ==
  /\ Starts(h, [Idle EXCEPT !.pc = "external", !.subject = s])
  /\ \/ \E id \in Exist :
          /\ users[id].name = s /\ UNCHANGED nextId
          /\ IF users[id].admin = admin THEN UNCHANGED users
             ELSE /\ users[id].version < MaxVersion
                  /\ users' = [users EXCEPT ![id] = WithRole(@, admin)]
     \/ (\A id \in Exist : users[id].name # s) /\ Insert(s, admin, FALSE)
  /\ UNCHANGED <<tokens, server>>

(* ... and is read again for the token.                                    *)
IssueExternal(h) ==
  LET s == req[h].subject IN
  /\ Ends(h, "external")
  /\ \/ \E id \in Exist :
          users[id].name = s /\ Issue(id, users[id], users[id].era, FALSE)
     \/ (\A id \in Exist : users[id].name # s) /\ UNCHANGED tokens
  /\ UNCHANGED <<users, nextId, server>>

(* ExpiresAt, 24 hours after the login.                                    *)
Expire(t) ==
  /\ tokens' = tokens \ {t} /\ UNCHANGED <<users, nextId, req, server>>

Next ==
  \/ Bootstrap \/ BootstrapMust \/ Crash
  \/ \E t \in tokens : Expire(t)
  \/ \E h \in Requests :
       \/ \E id \in Ids : LoginRead(h, id) \/ DeleteUser(h, id)
       \/ \E t \in tokens, pc \in Pcs : Admit(h, t, pc)
       \/ LoginIssue(h) \/ Logout(h) \/ CheckOldPassword(h) \/ StorePassword(h)
       \/ Reissue(h) \/ IssueExternal(h)
       \/ \E name \in LocalNames, admin \in BOOLEAN : CreateUser(h, name, admin)
       \/ \E s \in Subjects, admin \in BOOLEAN : UpsertExternalUser(h, s, admin)

Spec == Init /\ [][Next]_vars
------------------------------------------------------------------------------
(* While the server is up there is a local administrator, whatever the     *)
(* concurrent deletions ("concurrent admin requests cannot both pass").    *)
LocalAdminRemains == server = "up" => LocalAdmins # {}

(* A session that is no longer accepted never is again: not after further  *)
(* password changes, a new account of the same name or a restart.          *)
RevokedForGood == [][\A t \in tokens : ~Valid(t) => ~Valid(t)']_vars

(* A session is accepted only with the role it was issued for, so changing *)
(* a role signs the account out; and one obtained by a login only while the*)
(* password it proved is the current one, although the comparison is slow. *)
ValidIsCurrent ==
  \A t \in tokens : Valid(t) =>
    t.admin = users[t.id].admin /\ (t.login => t.era = users[t.id].era)

(* An administrator created by the bootstrap has to change the bootstrap   *)
(* password ("must ... rotate it on first login").                         *)
BootstrapIsRotated ==
  server = "up" => \A id \in Exist : users[id].boot => users[id].must
===============================================================================
