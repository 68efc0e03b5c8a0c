------------------------------ MODULE OwnerMode ------------------------------
(***************************************************************************)
(* Owner mode: the session that ownerModeService keeps in Redis under a    *)
(* random id, the middleware requireOwnerMode that looks it up, and the    *)
(* requests that arrive with that id.  The module follows one id, from its *)
(* activation on.                                                          *)
(*                                                                         *)
(* The session expires twice, by the expiresAt it holds and by the expiry  *)
(* of its key.  Deactivating reads it, writes an audit entry and deletes   *)
(* it, and answers success whatever throws; extending reads it and writes  *)
(* it back.  extendSession is an operation of the service that no route    *)
(* calls yet.                                                              *)
(***************************************************************************)
EXTENDS Naturals

CONSTANTS
    Calls,          \* requests in flight at once
    SessionLife     \* SESSION_DURATION, in ticks

VARIABLES
    session,        \* ticks until the key expires, 0 when there is none; in the
                    \* last of them the session is past its expiresAt
    activated,      \* whether the id was ever given out
    call,           \* what each request does next
    ended,          \* history: a deactivation of the session was answered success
    excused         \* history: a deactivation failed, or an extension was under
                    \* way when the session was deleted

vars == <<session, activated, call, ended, excused>>

Live == 2..(SessionLife + 1)
Step == {"idle", "granted", "extend",
         "expired_get", "expired_audit", "expired_del", "get", "audit", "del"}

TypeOK ==
    /\ session \in 0..(SessionLife + 1)
    /\ activated \in BOOLEAN
    /\ call \in [Calls -> Step]
    /\ ended \in BOOLEAN
    /\ excused \in BOOLEAN

Init ==
    /\ session = 0
    /\ activated = FALSE
    /\ call = [c \in Calls |-> "idle"]
    /\ ended = FALSE
    /\ excused = FALSE

Goto(c, step) == call' = [call EXCEPT ![c] = step]

Extending == \E c \in Calls : call[c] = "extend"

\* setEx of the session with a new expiresAt.
Store == session' = SessionLife + 1

-----------------------------------------------------------------------------
\* activateOwnerMode, past the role and the code: the session is stored.  The
\* audit entry that follows may fail without effect.
ActivateOwnerMode ==
    /\ ~activated
    /\ activated' = TRUE
    /\ Store
    /\ UNCHANGED <<call, ended, excused>>

\* validateOwnerSession within requireOwnerMode.  A session past its expiresAt is
\* deactivated before the request is refused; a live one grants the request.
ValidateOwnerSession(c) ==
    /\ call[c] = "idle"
    /\ \/ session \in Live /\ Goto(c, "granted")
       \/ session = 1 /\ Goto(c, "expired_get")
    /\ UNCHANGED <<session, activated, ended, excused>>

\* The request that was granted is one for deactivation, or any other.
Route(c) ==
    /\ call[c] = "granted"
    /\ \E next \in {"get", "idle"} : Goto(c, next)
    /\ UNCHANGED <<session, activated, ended, excused>>

\* extendSession holds the session it has validated.
ReadSession(c) ==
    /\ call[c] = "idle"
    /\ session \in Live
    /\ Goto(c, "extend")
    /\ UNCHANGED <<session, activated, ended, excused>>

ExtendSession(c) ==
    /\ call[c] = "extend"
    /\ Store
    /\ Goto(c, "idle")
    /\ UNCHANGED <<activated, ended, excused>>

\* deactivateOwnerMode: the session is looked up, for the audit entry, which is
\* left out when there is none.
LookUp(c) ==
    /\ call[c] \in {"get", "expired_get"}
    /\ Goto(c, IF call[c] = "get"
               THEN IF session = 0 THEN "del" ELSE "audit"
               ELSE IF session = 0 THEN "expired_del" ELSE "expired_audit")
    /\ UNCHANGED <<session, activated, ended, excused>>

Audit(c) ==
    /\ call[c] \in {"audit", "expired_audit"}
    /\ Goto(c, IF call[c] = "audit" THEN "del" ELSE "expired_del")
    /\ UNCHANGED <<session, activated, ended, excused>>

\* Mutant of Delete: the session is deleted when it has expired, and otherwise
\* left to its expiry.
DeleteExpired(c) ==
    /\ call[c] \in {"del", "expired_del"}
    /\ session' = IF session = 1 THEN 0 ELSE session
    /\ ended' = (ended \/ call[c] = "del")
    /\ excused' = (excused \/ Extending)
    /\ Goto(c, "idle")
    /\ UNCHANGED activated

Delete(c) ==
    /\ call[c] \in {"del", "expired_del"}
    /\ session' = 0
    /\ ended' = (ended \/ call[c] = "del")
    /\ excused' = (excused \/ Extending)
    /\ Goto(c, "idle")
    /\ UNCHANGED activated

\* A command of a deactivation throws: it is swallowed, nothing more is sent, and
\* the route answers success.
Swallow(c) ==
    /\ call[c] \in Step \ {"idle", "granted", "extend"}
    /\ ended' = (ended \/ call[c] \in {"get", "audit", "del"})
    /\ excused' = TRUE
    /\ Goto(c, "idle")
    /\ UNCHANGED <<session, activated>>

\* An extension throws, or the process ends, and nothing is answered.
Abort(c) ==
    /\ call[c] # "idle"
    /\ Goto(c, "idle")
    /\ UNCHANGED <<session, activated, ended, excused>>

\* Time passes; the key outlives the expiresAt by less than a tick.
Tick ==
    /\ session # 0
    /\ session' = session - 1
    /\ UNCHANGED <<activated, call, ended, excused>>

-----------------------------------------------------------------------------
CallStep(c) ==
    \/ Route(c) \/ ExtendSession(c) \/ LookUp(c) \/ Audit(c) \/ Delete(c)

Next ==
    \/ ActivateOwnerMode
    \/ \E c \in Calls :
          ValidateOwnerSession(c) \/ ReadSession(c) \/ CallStep(c) \/ Swallow(c) \/ Abort(c)
    \/ Tick

Spec == Init /\ [][Next]_vars

-----------------------------------------------------------------------------
\* A session whose deactivation was answered success grants no request any more
\* (ownerModeService.ts:181-206), unless a command failed, which the answer does
\* not tell, or an extension that had read the session wrote it back (:246).
DeactivationSticks == ended /\ session # 0 => excused
=============================================================================
