-------------------------------- MODULE Lockout -------------------------------
(***************************************************************************)
(* The lockout of one local account: Store.Authenticate behind the chain   *)
(* of providers (internal/auth/providers.go), with logins that overlap     *)
(* while a password is compared. LoginGate puts the rate limiters in front *)
(* of it. Ages are in ticks and stop at Lock, where they no longer count.  *)
(***************************************************************************)
EXTENDS Integers, FiniteSets, FiniteSetsExt, Sequences

CONSTANTS
  MaxFailed,  \* maxFailedAttempts
  Lock,       \* lockoutWindow, in ticks
  Logins      \* logins in flight together

ASSUME LockoutAssumption == {MaxFailed, Lock} \subseteq Nat \ {0} /\ IsFiniteSet(Logins)

VARIABLES
  failed,  \* failed_attempts; MaxFailed stands for every larger number
  stamp,   \* age of last_failed_at; Lock: older, or NULL
  login,   \* where each login is
  recent   \* history: failures since the last success or for Lock, the ages,
           \* latest first

account == <<failed, stamp, login, recent>>

AccountTypeOK ==
  /\ failed \in 0..MaxFailed /\ stamp \in 0..Lock
  /\ login \in [Logins -> {"idle", "provider", "read", "verify"}]
  /\ recent \in Seq(0..(Lock - 1))

AccountInit ==
  /\ failed = 0 /\ stamp = Lock /\ recent = <<>>
  /\ login = [l \in Logins |-> "idle"]

Locked == failed >= MaxFailed /\ stamp < Lock
More(count) == IF count < MaxFailed THEN count + 1 ELSE count

Moves(l, from, to) == login[l] = from /\ login' = [login EXCEPT ![l] = to]

(* A password login past its limiter: on the ordered route it asks the     *)
(* providers first, on the local route it goes to the account.             *)
Attempt(l, first) == Moves(l, "idle", first) /\ UNCHANGED <<failed, stamp, recent>>

(* AuthenticatePassword: a provider is unavailable or owns the identity,   *)
(* so the login ends, or none does.                                        *)
AuthenticatePassword(l) ==
  /\ Moves(l, "provider", "read") \/ Moves(l, "provider", "idle")
  /\ UNCHANGED <<failed, stamp, recent>>

(* Authenticate reads the row: a locked account ends the login, and so     *)
(* does a database that fails.                                             *)
ReadRow(l) ==
  /\ Moves(l, "read", "idle") \/ (~Locked /\ Moves(l, "read", "verify"))
  /\ UNCHANGED <<failed, stamp, recent>>

(* A faulty variant: comparisons that overlap write the same count.        *)
RecordFailureLost(l) ==
  /\ Moves(l, "verify", "idle") /\ stamp' = 0 /\ recent' = <<0>> \o recent
  /\ failed' = IF \E other \in Logins \ {l} : login[other] = "verify" THEN failed
                                                                    ELSE More(failed)

(* A wrong password: one UPDATE counts it and stamps it; when that fails   *)
(* it is only logged.                                                      *)
RecordFailure(l) ==
  /\ Moves(l, "verify", "idle")
  /\ \/ /\ failed' = More(failed) /\ stamp' = 0
        /\ recent' = <<0>> \o recent
     \/ UNCHANGED <<failed, stamp, recent>>

(* The right password resets the count.                                    *)
RecordSuccess(l) ==
  /\ Moves(l, "verify", "idle") /\ UNCHANGED stamp
  /\ \/ failed' = 0 /\ recent' = <<>>
     \/ UNCHANGED <<failed, recent>>

(* A tick later the oldest failures may no longer count.                   *)
AccountTick ==
  /\ stamp' = IF stamp < Lock THEN stamp + 1 ELSE stamp
  /\ LET count == Max({0} \cup {i \in DOMAIN recent : recent[i] < Lock - 1}) IN
     recent' = [i \in 1..count |-> recent[i] + 1]
  /\ UNCHANGED <<failed, login>>
------------------------------------------------------------------------------
(* Within a lockout window there are at most as many failures as the       *)
(* policy says, and one more for each login that was under way when the    *)
(* account was locked: logins that overlap do not hide each other, by      *)
(* whichever route and limiter they came.                                  *)
FailuresBounded == Len(recent) < MaxFailed + Cardinality(Logins)
===============================================================================
