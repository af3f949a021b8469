------------------------------- MODULE LoginGate ------------------------------
(***************************************************************************)
(* Password logins (handlePasswordLogin of internal/auth/handlers.go): the *)
(* ordered route and the start of an OIDC login share one rate limiter,    *)
(* the local route has its own, and both password routes end at the        *)
(* lockout of the local account. One clock ages everything.                *)
(***************************************************************************)
EXTENDS LoginLimiter, Lockout

CONSTANTS
  Clients,      \* client addresses
  LocalClients  \* bound: clients that use the local route

VARIABLES
  ordered,  \* loginLimiter
  local     \* localLoginLimiter

vars == <<ordered, local, account>>

TypeOK == IsTable(ordered, Clients) /\ IsTable(local, LocalClients) /\ AccountTypeOK

Init == ordered = NewTable(Clients) /\ local = NewTable(LocalClients) /\ AccountInit

(* HandleLogin: an attempt above the limit is answered with 429, a request *)
(* without a JSON body with 400; both end before the account is asked.     *)
HandleLogin(l, k) ==
  /\ ordered' \in Allow(ordered, k) /\ UNCHANGED local
  /\ \/ ~Blocked(ordered[k]) /\ Attempt(l, "provider")
     \/ UNCHANGED account

HandleLocalLogin(l, k) ==
  /\ local' \in Allow(local, k) /\ UNCHANGED ordered
  /\ \/ ~Blocked(local[k]) /\ Attempt(l, "read")
     \/ UNCHANGED account

(* HandleOIDCLogin; the flow it starts is OidcFlows.                       *)
HandleOIDCLogin(k) == ordered' \in Allow(ordered, k) /\ UNCHANGED <<local, account>>

(* What a login does after its limiter.                                    *)
Verify(l) ==
  /\ AuthenticatePassword(l) \/ ReadRow(l) \/ RecordFailure(l) \/ RecordSuccess(l)
  /\ UNCHANGED <<ordered, local>>

PruneOrdered == ordered' = Prune(ordered) /\ UNCHANGED <<local, account>>
PruneLocal == local' = Prune(local) /\ UNCHANGED <<ordered, account>>

Tick == ordered' = Aged(ordered) /\ local' = Aged(local) /\ AccountTick

Next ==
  \/ Tick \/ PruneOrdered \/ PruneLocal
  \/ \E k \in Clients :
       HandleOIDCLogin(k) \/ \E l \in Logins : HandleLogin(l, k)
  \/ \E l \in Logins : Verify(l) \/ \E k \in LocalClients : HandleLocalLogin(l, k)

(* Time passes.                                                            *)
FairSpec == Init /\ [][Next]_vars /\ WF_vars(Tick)
------------------------------------------------------------------------------
(* A client at its limit gets budget back only when its attempts get old,  *)
(* whatever other clients do to a full table, on either route ("evicting a *)
(* blocked key would reset its budget").                                   *)
OnlyTimeUnblocks ==
  [][/\ \A k \in Clients : Blocked(ordered[k]) /\ ~Blocked(ordered'[k]) => Tick
     /\ \A k \in LocalClients : Blocked(local[k]) /\ ~Blocked(local'[k]) => Tick]_vars

(* A client at its limit is let in again, even when it never stops trying, *)
(* by password or by OIDC.                                                 *)
BlockEnds ==
  /\ \A k \in Clients : Blocked(ordered[k]) ~> ~Blocked(ordered[k])
  /\ \A k \in LocalClients : Blocked(local[k]) ~> ~Blocked(local[k])
===============================================================================
