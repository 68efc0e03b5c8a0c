--------------------------- MODULE CircuitBreaker ---------------------------
(***************************************************************************)
(* utils/circuitBreaker.ts: one CircuitBreaker object and the calls of     *)
(* execute() that share it.  execute() decides, awaits the protected       *)
(* function and then books its result; between the two other calls run, so *)
(* a result may arrive in another state than the one it was admitted in.   *)
(*                                                                         *)
(* Times are kept relative to Date.now(): wait is what is left until       *)
(* nextAttempt and calm what has passed since lastFailureTime.             *)
(***************************************************************************)
EXTENDS Integers, FiniteSets

CONSTANTS
    Calls,              \* calls of execute() that can be in flight at once
    FailureThreshold, SuccessThreshold,
    Timeout,            \* options.timeout, in ticks
    ResetTimeout,       \* options.resetTimeout, in ticks
    MaxFailures         \* failureCount is counted up to here

ASSUME ThresholdsAssumption ==
    /\ FailureThreshold \in Nat \ {0}
    /\ SuccessThreshold \in Nat \ {0}
    /\ MaxFailures \in Nat
    /\ MaxFailures >= FailureThreshold
ASSUME TimesAssumption == Timeout \in Nat \ {0} /\ ResetTimeout \in Nat

VARIABLES
    state, failureCount, successCount,
    wait,       \* nextAttempt - Date.now(), 0 once it has passed
    calm,       \* Date.now() - lastFailureTime, counted up to ResetTimeout + 1
    flight,     \* the calls that await the protected function
    healthy,    \* whether the protected service works (not part of the object)
    exposed,    \* the calls in flight that met the service when it did not
    age,        \* history: time since the circuit last opened, up to Timeout
    epoch       \* history: flips with every reset()

vars == <<state, failureCount, successCount, wait, calm, flight, healthy,
          exposed, age, epoch>>
serviceVars == <<flight, healthy, exposed>>
breakerVars == <<state, failureCount, successCount, wait, calm, age>>

TypeOK ==
    /\ state \in {"CLOSED", "OPEN", "HALF_OPEN"}
    /\ failureCount \in 0..MaxFailures
    /\ successCount \in 0..(SuccessThreshold - 1)
    /\ wait \in 0..Timeout
    /\ calm \in 0..(ResetTimeout + 1)
    /\ flight \subseteq Calls
    /\ healthy \in BOOLEAN
    /\ exposed \subseteq flight
    /\ age \in 0..Timeout
    /\ epoch \in {0, 1}

\* A new breaker: nextAttempt is now, and lastFailureTime long ago.
Init ==
    /\ state = "CLOSED"
    /\ failureCount = 0
    /\ successCount = 0
    /\ wait = 0
    /\ calm = ResetTimeout + 1
    /\ flight = {}
    /\ healthy \in BOOLEAN
    /\ exposed = {}
    /\ age = 0
    /\ epoch = 0

(***************************************************************************)
(* execute() up to the protected call.                                     *)
(***************************************************************************)
\* Mutant of Reject: a refused call counts as a failed attempt and prolongs
\* the time the circuit stays open.
RejectAndProlong(c) ==
    /\ c \notin flight
    /\ state = "OPEN"
    /\ wait > 0
    /\ wait' = Timeout
    /\ UNCHANGED <<state, failureCount, successCount, calm, serviceVars, age, epoch>>

\* Answered by the fallback, or by an exception, without a call.
Reject(c) ==
    /\ c \notin flight
    /\ state = "OPEN"
    /\ wait > 0
    /\ UNCHANGED vars

Launch(c) ==
    /\ flight' = flight \cup {c}
    /\ exposed' = IF healthy THEN exposed ELSE exposed \cup {c}
    /\ UNCHANGED healthy

Admit(c) ==
    /\ c \notin flight
    /\ state # "OPEN"
    /\ Launch(c)
    /\ UNCHANGED <<breakerVars, epoch>>

\* The first call after nextAttempt opens the test phase.
AdmitProbe(c) ==
    /\ c \notin flight
    /\ state = "OPEN"
    /\ wait = 0
    /\ state' = "HALF_OPEN"
    /\ Launch(c)
    /\ UNCHANGED <<failureCount, successCount, wait, calm, age, epoch>>

Execute(c) == Reject(c) \/ Admit(c) \/ AdmitProbe(c)

(***************************************************************************)
(* The result of a protected call.                                         *)
(***************************************************************************)
\* Mutant of OnSuccess: every success starts the count over.
OnSuccessRestarting ==
    /\ failureCount' = 0
    /\ state' = IF state = "HALF_OPEN" /\ 1 >= SuccessThreshold THEN "CLOSED" ELSE state
    /\ successCount' = 0
    /\ UNCHANGED <<wait, calm, age>>

OnSuccess ==
    /\ failureCount' = 0
    /\ \/ state # "HALF_OPEN" /\ UNCHANGED <<state, successCount>>
       \/ /\ state = "HALF_OPEN"
          /\ successCount + 1 < SuccessThreshold
          /\ successCount' = successCount + 1
          /\ UNCHANGED state
       \/ /\ state = "HALF_OPEN"
          /\ successCount + 1 >= SuccessThreshold
          /\ state' = "CLOSED"
          /\ successCount' = 0
    /\ UNCHANGED <<wait, calm, age>>

Bump(n) == IF n < MaxFailures THEN n + 1 ELSE n

Open ==
    /\ state' = "OPEN"
    /\ wait' = Timeout
    /\ age' = 0

\* Mutant of OnFailure: the successes of a failed test phase not forgotten.
OnFailureKeepingSuccesses ==
    /\ calm' = 0
    /\ failureCount' = Bump(failureCount)
    /\ \/ /\ state = "HALF_OPEN" \/ failureCount' >= FailureThreshold
          /\ Open
       \/ /\ state # "HALF_OPEN"
          /\ failureCount' < FailureThreshold
          /\ UNCHANGED <<state, wait, age>>
    /\ UNCHANGED successCount

\* Mutant of OnFailure: a failed test phase does not move nextAttempt.
OnFailureAtOnce ==
    /\ calm' = 0
    /\ failureCount' = Bump(failureCount)
    /\ \/ /\ state = "HALF_OPEN"
          /\ state' = "OPEN"
          /\ age' = 0
          /\ successCount' = 0
          /\ UNCHANGED wait
       \/ /\ state # "HALF_OPEN"
          /\ failureCount' >= FailureThreshold
          /\ Open
          /\ UNCHANGED successCount
       \/ /\ state # "HALF_OPEN"
          /\ failureCount' < FailureThreshold
          /\ UNCHANGED <<state, wait, age, successCount>>

\* lastFailureTime is set first, so that the reset of the counter at the end
\* compares a difference of zero with resetTimeout.
OnFailure ==
    LET failures == Bump(failureCount)
    IN  /\ calm' = 0
        /\ \/ /\ state = "HALF_OPEN"
              /\ failureCount' = failures
              /\ successCount' = 0
              /\ Open
           \/ /\ state # "HALF_OPEN"
              /\ \/ failures >= FailureThreshold /\ Open
                 \/ failures < FailureThreshold /\ UNCHANGED <<state, wait, age>>
              /\ failureCount' = IF calm' > ResetTimeout THEN 0 ELSE failures
              /\ UNCHANGED successCount

Land(c) ==
    /\ c \in flight
    /\ flight' = flight \ {c}
    /\ exposed' = exposed \ {c}
    /\ UNCHANGED healthy

Succeed(c) == Land(c) /\ OnSuccess /\ UNCHANGED epoch

\* A call can fail late, when the service works again.
Fail(c) == c \in exposed /\ Land(c) /\ OnFailure /\ UNCHANGED epoch

Settle(c) == Succeed(c) \/ Fail(c)

(***************************************************************************)
(* The rest of the object, and its environment.                            *)
(***************************************************************************)
\* reset(): by hand, whatever is in flight.
Reset ==
    /\ state' = "CLOSED"
    /\ failureCount' = 0
    /\ successCount' = 0
    /\ wait' = 0
    /\ epoch' = 1 - epoch
    /\ UNCHANGED <<calm, serviceVars, age>>

ServiceChanges ==
    /\ healthy' = ~healthy
    /\ exposed' = IF healthy THEN flight ELSE exposed
    /\ UNCHANGED <<breakerVars, flight, epoch>>

Tick ==
    /\ wait' = IF wait > 0 THEN wait - 1 ELSE 0
    /\ calm' = IF calm <= ResetTimeout THEN calm + 1 ELSE calm
    /\ age' = IF age < Timeout THEN age + 1 ELSE age
    /\ UNCHANGED <<state, failureCount, successCount, serviceVars, epoch>>

Next ==
    \/ \E c \in Calls : Execute(c) \/ Settle(c)
    \/ Reset \/ ServiceChanges \/ Tick

\* Time passes, every protected call settles, and callers keep calling.
Fairness ==
    /\ WF_vars(Tick)
    /\ \A c \in Calls : WF_vars(Execute(c)) /\ WF_vars(Settle(c))

Spec == Init /\ [][Next]_vars /\ Fairness

(***************************************************************************)
(* Properties.                                                             *)
(***************************************************************************)
\* Successes are on the books only during a test phase, and a closed circuit
\* is always short of the threshold: results that arrive after the state has
\* moved on leave no count behind that would close the next test phase early
\* or keep a broken circuit closed (circuitBreaker.ts:72-105).
CountersFitState ==
    /\ successCount > 0 => state = "HALF_OPEN"
    /\ state = "CLOSED" => failureCount < FailureThreshold

\* The breaker implements its contract: in particular, no interleaving of
\* late failures, probes and resets lets it go to HALF_OPEN sooner than
\* Timeout after it opened, or from OPEN to CLOSED without a test phase.
Contract == INSTANCE BreakerContract WITH mode <- state
ImplementsContract == Contract!Spec

\* While callers keep calling, an open circuit does not stay open for ever:
\* late failures prolong it, refused calls do not (circuitBreaker.ts:43-54).
OpenIsLeft == state = "OPEN" ~> state # "OPEN"

\* Once the service works for good, the circuit closes for good, whatever
\* results of earlier calls are still to come (circuitBreaker.ts:72-84).
Recovers == <>[]healthy => <>[](state = "CLOSED")

\* A failure that comes more than resetTimeout after the one before it starts
\* the count over ("error counter reset time", circuitBreaker.ts:18 and 107).
CounterExpires ==
    [][calm > ResetTimeout /\ failureCount' > failureCount => failureCount' = 1]_vars
=============================================================================
