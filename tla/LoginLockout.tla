---------------------------- MODULE LoginLockout ----------------------------
(***************************************************************************)
(* The lockout of one e-mail address after failed logins: the Redis key    *)
(* login_attempts:<email> and the login() calls of authService.ts that     *)
(* read, count up and delete it.                                           *)
(*                                                                         *)
(* Redis executes one command at a time; between two commands of a login   *)
(* (and while bcrypt compares the password) other logins run.  A counted   *)
(* failure is two commands, INCR and, for the first one, EXPIRE.  Errors   *)
(* of Redis are caught by login(), which goes on without the lockout.      *)
(***************************************************************************)
EXTENDS Integers, FiniteSets

CONSTANTS
    Calls,              \* logins that can be in flight at once
    MaxAttempts,        \* AUTH.MAX_LOGIN_ATTEMPTS
    LockoutDuration,    \* AUTH.LOCKOUT_DURATION, in ticks
    MaxFaults           \* bound on lost Redis answers and process exits

ASSUME LimitsAssumption ==
    /\ IsFiniteSet(Calls)
    /\ MaxAttempts \in Nat \ {0}
    /\ LockoutDuration \in Nat \ {0}
    /\ MaxFaults \in Nat

VARIABLES
    attempts,   \* the value of the key, 0 when it does not exist
    ttl,        \* ticks until the key expires, 0 when it never does
    call,       \* the next thing each login does
    stranded,   \* history: a fault kept the key from getting its expiry
    faults      \* history: faults so far

vars == <<attempts, ttl, call, stranded, faults>>

\* A login past its lockout check verifies the password; one that counted the
\* first failure has yet to set the expiry of the key.
Step == {"idle", "verify", "expire"}

Locked == attempts >= MaxAttempts

TypeOK ==
    /\ attempts \in Nat
    /\ ttl \in 0..LockoutDuration
    /\ call \in [Calls -> Step]
    /\ stranded \in BOOLEAN
    /\ faults \in 0..MaxFaults

Init ==
    /\ attempts = 0
    /\ ttl = 0
    /\ call = [c \in Calls |-> "idle"]
    /\ stranded = FALSE
    /\ faults = 0

Fault == faults < MaxFaults /\ faults' = faults + 1

Goto(c, step) == call' = [call EXCEPT ![c] = step]

Remove == attempts' = 0 /\ ttl' = 0 /\ stranded' = FALSE

(***************************************************************************)
(* The steps of login().                                                   *)
(***************************************************************************)
\* Mutant of CheckAccountLockout: `>` for `>=`.
CheckAccountLockoutLate(c) ==
    /\ call[c] = "idle"
    /\ attempts <= MaxAttempts
    /\ Goto(c, "verify")
    /\ UNCHANGED <<attempts, ttl, stranded, faults>>

\* Mutant of CheckAccountLockout: a refused login starts the lockout over.
CheckAccountLockoutSliding(c) ==
    /\ call[c] = "idle"
    /\ Goto(c, IF Locked THEN "expire" ELSE "verify")
    /\ UNCHANGED <<attempts, ttl, stranded, faults>>

\* checkAccountLockout: a locked address is refused, and that changes nothing.
\* When Redis does not answer the login goes on.
CheckAccountLockout(c) ==
    /\ call[c] = "idle"
    /\ \/ ~Locked /\ UNCHANGED faults
       \/ Locked /\ Fault
    /\ Goto(c, "verify")
    /\ UNCHANGED <<attempts, ttl, stranded>>

\* Mutant of RecordFailedLogin: the expiry set by the failure that locks.
RecordFailedLoginAtLimit(c) ==
    /\ call[c] = "verify"
    /\ attempts' = attempts + 1
    /\ Goto(c, IF attempts' = MaxAttempts THEN "expire" ELSE "idle")
    /\ UNCHANGED <<ttl, stranded, faults>>

\* recordFailedLogin up to the answer of INCR, after a wrong password or for an
\* unknown address.  INCR keeps the expiry of the key; when its answer is
\* lost, executed or not, EXPIRE is not sent.
RecordFailedLogin(c) ==
    /\ call[c] = "verify"
    /\ \/ /\ attempts' = attempts + 1
          /\ Goto(c, IF attempts' = 1 THEN "expire" ELSE "idle")
          /\ UNCHANGED <<stranded, faults>>
       \/ /\ attempts' \in {attempts, attempts + 1}
          /\ stranded' = (stranded \/ (attempts = 0 /\ attempts' = 1))
          /\ Goto(c, "idle")
          /\ Fault
    /\ UNCHANGED ttl

\* Its EXPIRE, which does nothing when the key is gone by then.
SetExpiry(c) ==
    /\ call[c] = "expire"
    /\ \/ /\ ttl' = IF attempts > 0 THEN LockoutDuration ELSE 0
          /\ stranded' = FALSE
          /\ UNCHANGED faults
       \/ /\ stranded' = (stranded \/ (attempts > 0 /\ ttl = 0))
          /\ UNCHANGED ttl
          /\ Fault
    /\ Goto(c, "idle")
    /\ UNCHANGED attempts

\* The right password; a DEL that fails is ignored.
ResetLoginAttempts(c) ==
    /\ call[c] = "verify"
    /\ \/ Remove /\ UNCHANGED faults
       \/ UNCHANGED <<attempts, ttl, stranded>> /\ Fault
    /\ Goto(c, "idle")

\* The user lookup fails, and with it the login.
Abort(c) ==
    /\ call[c] = "verify"
    /\ Goto(c, "idle")
    /\ UNCHANGED <<attempts, ttl, stranded, faults>>

(***************************************************************************)
(* What else happens to the key and to the logins.                         *)
(***************************************************************************)
\* Clearing the cache is FLUSHDB: it takes the counters along.
Flush ==
    /\ Remove
    /\ UNCHANGED <<call, faults>>

\* The process ends; the key stays.
Exit ==
    /\ Fault
    /\ call' = [c \in Calls |-> "idle"]
    /\ stranded' = (stranded \/ (/\ attempts > 0 /\ ttl = 0
                                 /\ \E c \in Calls : call[c] = "expire"))
    /\ UNCHANGED <<attempts, ttl>>

\* Time passes for a key that has an expiry.
Tick ==
    /\ ttl > 0
    /\ \/ ttl > 1 /\ ttl' = ttl - 1 /\ UNCHANGED <<attempts, stranded>>
       \/ ttl = 1 /\ Remove
    /\ UNCHANGED <<call, faults>>

Next ==
    \/ \E c \in Calls : \/ CheckAccountLockout(c) \/ RecordFailedLogin(c)
                        \/ SetExpiry(c) \/ ResetLoginAttempts(c) \/ Abort(c)
    \/ Flush \/ Exit \/ Tick

\* Keys expire, and a command that was sent is executed or fails.
Fairness == WF_vars(Tick) /\ \A c \in Calls : WF_vars(SetExpiry(c))

Spec == Init /\ [][Next]_vars /\ Fairness

(***************************************************************************)
(* Properties.                                                             *)
(***************************************************************************)
\* Concurrent logins get past the limit by no more than the calls in flight:
\* those that read the counter before the failure that locks was counted.
\* Each fault lets one more through (authService.ts:77-99, 215-224).
AttemptsBound == attempts <= MaxAttempts - 1 + Cardinality(Calls) + faults

\* However logins, resets and expiries interleave, a counter has an expiry or
\* a login about to set one, unless a fault struck just between the INCR that
\* created it and its EXPIRE (authService.ts:92-96).
CounterWillExpire ==
    attempts > 0 /\ ttl = 0 => \/ \E c \in Calls : call[c] = "expire"
                               \/ stranded

\* But for that fault a locked address becomes free again: refused logins do
\* not prolong the lockout, and the late EXPIRE of a login whose counter was
\* deleted meanwhile does so only so often (authService.ts:77-105).
LockoutEnds == Locked ~> ~Locked \/ stranded

\* A lockout is temporary, "15 minutes" (constants.ts:12), "Account temporarily
\* locked" (authService.ts:226).
LockoutIsTemporary == Locked ~> ~Locked
=============================================================================
