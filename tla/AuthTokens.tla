----------------------------- MODULE AuthTokens -----------------------------
(***************************************************************************)
(* The refresh tokens of one account: the table refresh_tokens             *)
(* (services/auth/refreshTokenService.ts) and the calls of authService.ts  *)
(* that issue, rotate and revoke its rows.  Every statement of the code    *)
(* filters by the user or by the token, so accounts do not interact.       *)
(*                                                                         *)
(* Each SQL statement is atomic and no two of them share a transaction:    *)
(* what a call does next rests on what an earlier statement of it read.    *)
(* A call is kept from the read that decides it (the password hash, the    *)
(* token row) on; the awaits that change nothing here (bcrypt, the audit   *)
(* log, the session row, checkSuspiciousActivity) are not told apart.      *)
(* Passwords are versions: 0 at registration, one more with every change.  *)
(***************************************************************************)
EXTENDS Integers, FiniteSets

CONSTANTS
    Calls,          \* requests that can be in flight at once
    MaxTokens,      \* bound on the tokens ever issued
    MaxChanges,     \* bound on the password changes
    MaxFaults       \* bound on calls cut short between two of their writes

ASSUME BoundsAssumption ==
    /\ IsFiniteSet(Calls)
    /\ MaxTokens \in Nat
    /\ MaxChanges \in Nat
    /\ MaxFaults \in Nat

VARIABLES
    registered, \* whether the row of the user exists
    password,   \* the version users.password_hash is the hash of
    serial,     \* the number of tokens issued so far
    token,      \* refresh_tokens, by id
    call,       \* the requests in flight
    origin,     \* history: where each token stems from
    successors, \* history: how many tokens were issued in exchange for each
    ended,      \* history: logins some event other than a refresh put an end to
    faults      \* history: faults so far

vars == <<registered, password, serial, token, call, origin, successors, ended,
          faults>>

Tokens == 1..MaxTokens
NoToken == 0

\* A row of refresh_tokens.  A dead one is revoked or, after that or after its
\* expiry, deleted: no statement of the code tells the two apart.
Row == {"unissued", "live", "expired", "dead"}

\* The login a token or a call stems from, by the token it began with; the
\* password it was made with; whether a revocation of all tokens came after
\* it; and whether it got past one in a call that was then in flight.
Origin == [login : Tokens \cup {NoToken}, password : 0..MaxChanges,
           old : BOOLEAN, escaped : BOOLEAN]
BlankOrigin == [login |-> NoToken, password |-> 0, old |-> FALSE,
                escaped |-> FALSE]

\* A request: what it does next, the token it exchanges if it is a refresh,
\* and what the token it may issue stems from.
Call == [pc : {"idle", "insert", "rotate", "issue", "change", "revoke"},
         using : Tokens \cup {NoToken}, from : Origin]
IdleCall == [pc |-> "idle", using |-> NoToken, from |-> BlankOrigin]

TypeOK ==
    /\ registered \in BOOLEAN
    /\ password \in 0..MaxChanges
    /\ serial \in 0..MaxTokens
    /\ token \in [Tokens -> Row]
    /\ call \in [Calls -> Call]
    /\ origin \in [Tokens -> Origin]
    /\ successors \in [Tokens -> Nat]
    /\ ended \subseteq Tokens
    /\ faults \in 0..MaxFaults

Init ==
    /\ registered = FALSE
    /\ password = 0
    /\ serial = 0
    /\ token = [t \in Tokens |-> "unissued"]
    /\ call = [c \in Calls |-> IdleCall]
    /\ origin = [t \in Tokens |-> BlankOrigin]
    /\ successors = [t \in Tokens |-> 0]
    /\ ended = {}
    /\ faults = 0

Live(t) == token[t] = "live"
Issued(t) == token[t] # "unissued"

Fault == faults < MaxFaults /\ faults' = faults + 1

Begin(c, pc, t, from) ==
    /\ call[c].pc = "idle"
    /\ call' = [call EXCEPT ![c] = [pc |-> pc, using |-> t, from |-> from]]

Goto(c, pc) == call' = [call EXCEPT ![c].pc = pc]
Return(c) == call' = [call EXCEPT ![c] = IdleCall]

(***************************************************************************)
(* Requests that end with a new token.                                     *)
(***************************************************************************)
\* register() up to its duplicate check.
Register(c) ==
    /\ ~registered
    /\ Begin(c, "insert", NoToken, BlankOrigin)
    /\ UNCHANGED <<registered, password, serial, token, origin, successors, ended, faults>>

\* users.email is UNIQUE: the second of two registrations that both found no
\* row fails here.
InsertUser(c) ==
    /\ call[c].pc = "insert"
    /\ \/ ~registered /\ Goto(c, "issue")
       \/ registered /\ Return(c)
    /\ registered' = TRUE
    /\ UNCHANGED <<password, serial, token, origin, successors, ended, faults>>

\* login() with the right password, from the read of the hash on.
Login(c) ==
    /\ registered
    /\ Begin(c, "issue", NoToken, [BlankOrigin EXCEPT !.password = password])
    /\ UNCHANGED <<registered, password, serial, token, origin, successors, ended, faults>>

\* Mutant of ValidateRefreshToken: the check of the revoked column forgotten.
ValidateRefreshTokenRevoked(c, t) ==
    /\ token[t] \in {"live", "dead"}
    /\ Begin(c, "rotate", t, origin[t])
    /\ UNCHANGED <<registered, password, serial, token, origin, successors, ended, faults>>

\* refreshAccessToken() as far as it only reads.
ValidateRefreshToken(c, t) ==
    /\ Live(t)
    /\ Begin(c, "rotate", t, origin[t])
    /\ UNCHANGED <<registered, password, serial, token, origin, successors, ended, faults>>

Revoke(t) == [token EXCEPT ![t] = "dead"]

\* Mutant of Rotate: the old token stays good.
RotateKeepingOld(c) ==
    /\ call[c].pc = "rotate"
    /\ Goto(c, "issue")
    /\ UNCHANGED <<registered, password, serial, token, origin, successors, ended, faults>>

\* The old token goes first.
Rotate(c) ==
    /\ call[c].pc = "rotate"
    /\ token' = Revoke(call[c].using)
    /\ Goto(c, "issue")
    /\ UNCHANGED <<registered, password, serial, origin, successors, ended, faults>>

\* generateRefreshToken.
GenerateRefreshToken(c) ==
    LET new  == serial + 1
        used == call[c].using
    IN  /\ call[c].pc = "issue"
        /\ serial < MaxTokens
        /\ serial' = new
        /\ token' = [token EXCEPT ![new] = "live"]
        /\ origin' = [origin EXCEPT
                        ![new] = IF used = NoToken
                                 THEN [call[c].from EXCEPT !.login = new]
                                 ELSE call[c].from]
        /\ successors' = IF used = NoToken
                         THEN successors
                         ELSE [successors EXCEPT ![used] = @ + 1]
        /\ Return(c)
        /\ UNCHANGED <<registered, password, ended, faults>>

(***************************************************************************)
(* Requests that revoke.                                                   *)
(***************************************************************************)
\* logout() with any token of the account; one that is dead already, such as
\* the token of an earlier refresh, ends nothing.
Logout(t) ==
    /\ Issued(t)
    /\ token' = Revoke(t)
    /\ ended' = IF Live(t) THEN ended \cup {origin[t].login} ELSE ended
    /\ UNCHANGED <<registered, password, serial, call, origin, successors, faults>>

\* revokeAllUserTokens.  Calls that are past their read of the token or of
\* the password do not notice.
RevokeAllUserTokens(calls) ==
    /\ token' = [t \in Tokens |-> IF Issued(t) THEN "dead" ELSE token[t]]
    /\ origin' = [t \in Tokens |-> [origin[t] EXCEPT !.old = Issued(t)]]
    /\ call' = [c \in Calls |->
                  IF calls[c].pc \in {"rotate", "issue"}
                  THEN [calls[c] EXCEPT !.from.old = TRUE, !.from.escaped = TRUE]
                  ELSE calls[c]]
    /\ ended' = {origin[t].login : t \in 1..serial}
    /\ UNCHANGED <<registered, password, serial, successors, faults>>

\* logoutAll() on its own; its later statements do not touch the tokens.
LogoutAll == registered /\ RevokeAllUserTokens(call)

\* changePassword() with the right password, from the read of the hash on.
ChangePassword(c) ==
    /\ registered
    /\ Begin(c, "change", NoToken, BlankOrigin)
    /\ UNCHANGED <<registered, password, serial, token, origin, successors, ended, faults>>

\* Mutant of UpdatePassword: the tokens left alone.
UpdatePasswordOnly(c) ==
    /\ call[c].pc = "change"
    /\ password < MaxChanges
    /\ password' = password + 1
    /\ Return(c)
    /\ UNCHANGED <<registered, serial, token, origin, successors, ended, faults>>

UpdatePassword(c) ==
    /\ call[c].pc = "change"
    /\ password < MaxChanges
    /\ password' = password + 1
    /\ Goto(c, "revoke")
    /\ UNCHANGED <<registered, serial, token, origin, successors, ended, faults>>

FinishChange(c) ==
    /\ call[c].pc = "revoke"
    /\ RevokeAllUserTokens([call EXCEPT ![c] = IdleCall])

(***************************************************************************)
(* Time, clean-up and failures.                                            *)
(***************************************************************************)
Expire(t) ==
    /\ Live(t)
    /\ token' = [token EXCEPT ![t] = "expired"]
    /\ ended' = ended \cup {origin[t].login}
    /\ UNCHANGED <<registered, password, serial, call, origin, successors, faults>>

\* Mutant of Cleanup: the two conditions on the wrong side of a NOT.
CleanupLive ==
    /\ token' = [t \in Tokens |-> IF Live(t) THEN "dead" ELSE token[t]]
    /\ UNCHANGED <<registered, password, serial, call, origin, successors, ended, faults>>

\* The hourly maintenance job deletes expired rows and those revoked long ago,
\* the daily security clean-up expired and revoked ones.
Cleanup ==
    /\ token' = [t \in Tokens |-> IF token[t] = "expired" THEN "dead" ELSE token[t]]
    /\ UNCHANGED <<registered, password, serial, call, origin, successors, ended, faults>>

\* A call at this point has made one of two writes that belong together.
Midway(c) ==
    \/ call[c].pc = "issue" /\ call[c].using # NoToken
    \/ call[c].pc = "revoke"

\* A statement fails before the call has changed anything.
Abort(c) ==
    /\ call[c].pc # "idle"
    /\ ~Midway(c)
    /\ Return(c)
    /\ UNCHANGED <<registered, password, serial, token, origin, successors, ended, faults>>

AbortMidway(c) ==
    /\ Midway(c)
    /\ Fault
    /\ Return(c)
    /\ ended' = ended \cup ({call[c].from.login} \ {NoToken})
    /\ UNCHANGED <<registered, password, serial, token, origin, successors>>

\* The process ends, and with it every request.
Exit ==
    /\ Fault
    /\ call' = [c \in Calls |-> IdleCall]
    /\ ended' = ended \cup ({call[c].from.login : c \in {d \in Calls : Midway(d)}}
                              \ {NoToken})
    /\ UNCHANGED <<registered, password, serial, token, origin, successors>>

Next ==
    \/ \E c \in Calls : \/ Register(c) \/ InsertUser(c) \/ Login(c)
                        \/ Rotate(c) \/ GenerateRefreshToken(c)
                        \/ ChangePassword(c) \/ UpdatePassword(c) \/ FinishChange(c)
                        \/ Abort(c) \/ AbortMidway(c)
    \/ \E c \in Calls, t \in Tokens : ValidateRefreshToken(c, t)
    \/ \E t \in Tokens : Logout(t) \/ Expire(t)
    \/ LogoutAll \/ Cleanup \/ Exit

Spec == Init /\ [][Next]_vars

(***************************************************************************)
(* Properties.                                                             *)
(***************************************************************************)
\* After a revocation of all tokens nothing older works again: a live token
\* stems from a later login, or from a call that was in flight when the
\* revocation ran (refreshTokenService.ts:123-129, authService.ts:343-374).
LogoutAllSticks ==
    \A t \in Tokens : Live(t) /\ origin[t].old => origin[t].escaped

\* Once the password is changed, tokens made with an earlier one are dead, or
\* about to be: what is left are those of calls in flight at the revocation
\* and of a change that was cut short before it (authService.ts:476-483).
PasswordChangeCutsOff ==
    \A t \in Tokens :
       Live(t) /\ ~origin[t].escaped =>
          \/ origin[t].password = password
          \/ \E c \in Calls : call[c].pc = "revoke"
          \/ faults > 0

\* A token is exchanged at most once per request that can be in flight: the
\* requests that get past the check before the first of them revokes it
\* (authService.ts:337-374).
SuccessorBound == \A t \in Tokens : successors[t] <= Cardinality(Calls)

\* A login that was neither logged out, nor cut short by a fault, nor left to
\* expire keeps a live token, or a refresh about to issue one: concurrent
\* refreshes and clean-ups never lose it (authService.ts:369-374,
\* securityCleanupJob.ts:95-97).
LoginSurvives ==
    \A t \in Tokens :
       t <= serial /\ origin[t].login = t /\ t \notin ended =>
          \/ \E u \in Tokens : Live(u) /\ origin[u].login = t
          \/ \E c \in Calls : call[c].pc = "issue" /\ call[c].from.login = t
=============================================================================
