---------------------------- MODULE PriceAlerts ----------------------------
(***************************************************************************)
(* The price-alert component of the SmartPrice backend: the table          *)
(* price_tracking, the REST and GraphQL operations that write it           *)
(* (services/priceTracking/priceTrackingService.ts, graphql/resolvers.ts)  *)
(* and the background job that scans it and mails users                    *)
(* (services/jobs/priceCheckJob.ts).                                       *)
(*                                                                         *)
(* The server is one Node.js process: code between two awaits is atomic,   *)
(* everything else interleaves.  Every await of the job and of createAlert *)
(* is therefore a control point here.  The order in which a pass visits    *)
(* its snapshot (ORDER BY updated_at) is left open.                        *)
(***************************************************************************)
EXTENDS Integers, FiniteSets, DecimalText

CONSTANTS
    AlertIds,   \* values the SERIAL primary key takes
    Keys,       \* (user, product, marketplace) triples
    Prices,     \* amounts, in whole roubles
    Requests,   \* REST createAlert calls that can be in flight at once
    Passes,     \* invocations of checkPrices that could be in flight at once
    NoKey, NoAlert, NoRequest,
    MaxFaults   \* bound on process exits and lost database or mail answers

ASSUME PricesAssumption == Prices \subseteq Nat \ {0}
ASSUME SentinelAssumption ==
    /\ NoKey \notin Keys
    /\ NoAlert \notin AlertIds
    /\ NoRequest \notin [key : Keys, target : Prices, current : Prices]
ASSUME FaultsAssumption == MaxFaults \in Nat

VARIABLES
    rows,       \* price_tracking, by id; a deleted or unissued id says so
    creating,   \* createAlert calls between their SELECT and their INSERT
    server,     \* the process: down, starting or running
    timer,      \* priceCheckJob.intervalId # null
    isRunning,  \* priceCheckJob.isRunning
    pass,       \* the invocations of checkPrices
    mailed,     \* history: price alert mails delivered, per alert
    late,       \* history: those delivered when the alert was not active
    faults      \* history: faults so far

vars == <<rows, creating, server, timer, isRunning, pass, mailed, late, faults>>
jobVars == <<timer, isRunning, pass>>
historyVars == <<mailed, late, faults>>

Amount == Prices \cup {0}

Row == [state : {"unissued", "active", "inactive", "deleted"},
        key : Keys \cup {NoKey}, target : Amount, current : Amount,
        notified : BOOLEAN]

Request == [key : Keys, target : Prices, current : Prices]

\* What a pass keeps of a row of its snapshot.
Snapshot == [target : Amount, current : Amount]
BlankSnapshot == [target |-> 0, current |-> 0]

\* One invocation of checkPrices: the alerts it still has to visit, its
\* snapshot, and for the alert at hand the price it was observed at and
\* whether that is a computed number or the text of the column.
Pass == [pc : {"idle", "select", "scan", "update", "record", "user", "mail",
               "recheck", "mark"},
         todo : SUBSET AlertIds, seen : [AlertIds -> Snapshot],
         alert : AlertIds \cup {NoAlert}, price : Amount, fresh : BOOLEAN]

BlankRow == [state |-> "unissued", key |-> NoKey, target |-> 0, current |-> 0,
             notified |-> FALSE]

IdlePass == [pc |-> "idle", todo |-> {}, seen |-> [a \in AlertIds |-> BlankSnapshot],
             alert |-> NoAlert, price |-> 0, fresh |-> FALSE]

TypeOK ==
    /\ rows \in [AlertIds -> Row]
    /\ creating \in [Requests -> Request \cup {NoRequest}]
    /\ server \in {"down", "starting", "running"}
    /\ timer \in BOOLEAN
    /\ isRunning \in BOOLEAN
    /\ pass \in [Passes -> Pass]
    /\ mailed \in [AlertIds -> Nat]
    /\ late \in [AlertIds -> Nat]
    /\ faults \in 0..MaxFaults

Init ==
    /\ rows = [a \in AlertIds |-> BlankRow]
    /\ creating = [r \in Requests |-> NoRequest]
    /\ server = "down"
    /\ timer = FALSE
    /\ isRunning = FALSE
    /\ pass = [p \in Passes |-> IdlePass]
    /\ mailed = [a \in AlertIds |-> 0]
    /\ late = [a \in AlertIds |-> 0]
    /\ faults = 0

Fault == faults < MaxFaults /\ faults' = faults + 1

(***************************************************************************)
(* The operations of users.                                                *)
(***************************************************************************)
Serving == server # "down"

Stored(a) == rows[a].state \in {"active", "inactive"}

Insert(a, req) ==
    /\ rows[a].state = "unissued"
    /\ rows' = [rows EXCEPT ![a] =
                  [state |-> "active", key |-> req.key, target |-> req.target,
                   current |-> req.current, notified |-> FALSE]]

\* createAlert up to the answer of its duplicate check.  With an active row
\* for the key it throws and nothing changes.
CheckDuplicate(r, k, t, c) ==
    /\ Serving
    /\ creating[r] = NoRequest
    /\ t < c
    /\ ~ \E a \in AlertIds : rows[a].state = "active" /\ rows[a].key = k
    /\ creating' = [creating EXCEPT
                      ![r] = [key |-> k, target |-> t, current |-> c]]
    /\ UNCHANGED <<rows, server, jobVars, historyVars>>

\* The INSERT of createAlert; it may fail, and the call with it.
FinishCreate(r) ==
    /\ Serving
    /\ creating[r] # NoRequest
    /\ \/ \E a \in AlertIds : Insert(a, creating[r])
       \/ UNCHANGED rows
    /\ creating' = [creating EXCEPT ![r] = NoRequest]
    /\ UNCHANGED <<server, jobVars, historyVars>>

\* The GraphQL mutation inserts at once: it compares neither the prices nor
\* the rows that exist.
CreatePriceAlert(a, k, t, c) ==
    /\ Serving
    /\ Insert(a, [key |-> k, target |-> t, current |-> c])
    /\ UNCHANGED <<creating, server, jobVars, historyVars>>

DeactivateAlert(a) ==
    /\ Serving
    /\ Stored(a)
    /\ rows' = [rows EXCEPT ![a].state = "inactive"]
    /\ UNCHANGED <<creating, server, jobVars, historyVars>>

\* The GraphQL mutation of that name only deactivates.
DeletePriceAlert(a) == DeactivateAlert(a)

DeleteAlert(a) ==
    /\ Serving
    /\ Stored(a)
    /\ rows' = [rows EXCEPT ![a] = [BlankRow EXCEPT !.state = "deleted"]]
    /\ UNCHANGED <<creating, server, jobVars, historyVars>>

(***************************************************************************)
(* The process and the timer of the job.                                   *)
(***************************************************************************)
\* An invocation that is not in flight; which one stands for the next call
\* makes no difference.
FreePass == CHOOSE p \in Passes : pass[p].pc = "idle"

\* checkPrices up to its first await.
CheckPrices ==
    \/ /\ isRunning
       /\ UNCHANGED <<isRunning, pass>>
    \/ /\ ~isRunning
       /\ isRunning' = TRUE
       /\ \E p \in Passes : pass[p].pc = "idle"
       /\ pass' = [pass EXCEPT ![FreePass].pc = "select"]

\* The process listens before its background initialization runs.
Boot ==
    /\ server = "down"
    /\ server' = "starting"
    /\ UNCHANGED <<rows, creating, jobVars, historyVars>>

\* The end of the initialization: start() scans at once and sets the timer.
Start ==
    /\ server = "starting"
    /\ server' = "running"
    /\ ~timer
    /\ timer' = TRUE
    /\ CheckPrices
    /\ UNCHANGED <<rows, creating, historyVars>>

Tick ==
    /\ timer
    /\ CheckPrices
    /\ UNCHANGED <<rows, creating, server, timer, historyVars>>

\* stop(), at the start of a graceful shutdown.  A pass that runs goes on.
Stop ==
    /\ Serving
    /\ timer' = FALSE
    /\ UNCHANGED <<rows, creating, server, isRunning, pass, historyVars>>

\* The process ends, after a shutdown or without one, wherever it is.
Exit ==
    /\ Serving
    /\ Fault
    /\ server' = "down"
    /\ timer' = FALSE
    /\ isRunning' = FALSE
    /\ pass' = [p \in Passes |-> IdlePass]
    /\ creating' = [r \in Requests |-> NoRequest]
    /\ UNCHANGED <<rows, mailed, late>>

(***************************************************************************)
(* The rest of checkPrices, one action per await.                          *)
(***************************************************************************)
Goto(p, pc) == pass' = [pass EXCEPT ![p].pc = pc]

\* On to the next alert of the snapshot: the end of the loop body, and where
\* its catch block leads.
Continue(p) ==
    pass' = [pass EXCEPT
               ![p] = [IdlePass EXCEPT
                         !.pc = "scan",
                         !.todo = pass[p].todo,
                         !.seen = [pass[p].seen EXCEPT
                                     ![pass[p].alert] = BlankSnapshot]]]

\* Mutants of Due: one condition of the WHERE clause forgotten.
DueEvenIfInactive ==
    {a \in AlertIds : rows[a].state \in {"active", "inactive"} /\ ~rows[a].notified}
DueEvenIfNotified == {a \in AlertIds : rows[a].state = "active"}

\* getAlertsToCheck, which answers with no rows when the query fails.
Due == {a \in AlertIds : rows[a].state = "active" /\ ~rows[a].notified}

Snap(found) ==
    [a \in AlertIds |->
       IF a \in found
       THEN [target |-> rows[a].target, current |-> rows[a].current]
       ELSE BlankSnapshot]

Select(p) ==
    /\ pass[p].pc = "select"
    /\ \E found \in {Due, {}} :
          pass' = [pass EXCEPT ![p] = [IdlePass EXCEPT !.pc = "scan",
                                                      !.todo = found,
                                                      !.seen = Snap(found)]]
    /\ UNCHANGED <<rows, creating, server, timer, isRunning, historyVars>>

\* A simulated price change of at most a tenth.
Nearby(price) ==
    {q \in Prices : 9 * price <= 10 * q /\ 10 * q <= 11 * price}

\* Takes one alert of the snapshot and observes its price.
Observe(p) ==
    /\ pass[p].pc = "scan"
    /\ \E a \in pass[p].todo :
          \/ pass' = [pass EXCEPT ![p].pc = "record", ![p].todo = @ \ {a},
                                  ![p].alert = a, ![p].price = pass[p].seen[a].current]
          \/ \E q \in Nearby(pass[p].seen[a].current) :
                pass' = [pass EXCEPT ![p].pc = "update", ![p].todo = @ \ {a},
                                     ![p].alert = a, ![p].price = q,
                                     ![p].fresh = TRUE]
    /\ UNCHANGED <<rows, creating, server, timer, isRunning, historyVars>>

UpdatePrice(p) ==
    LET a == pass[p].alert
    IN  /\ pass[p].pc = "update"
        /\ \/ /\ Goto(p, "record")
              /\ rows' = IF Stored(a)
                         THEN [rows EXCEPT ![a].current = pass[p].price]
                         ELSE rows
           \/ Continue(p) /\ UNCHANGED rows
        /\ UNCHANGED <<creating, server, timer, isRunning, historyVars>>

\* `currentPrice <= alert.target_price`: a computed number is compared as a
\* number, the text of the column as text.
TargetReached(p) ==
    LET target == pass[p].seen[pass[p].alert].target
    IN  IF pass[p].fresh THEN pass[p].price <= target
                         ELSE TextLeq(pass[p].price, target)

\* The price goes to price_history; when that fails the alert is skipped.
RecordPrice(p) ==
    /\ pass[p].pc = "record"
    /\ \/ TargetReached(p) /\ Goto(p, "user")
       \/ Continue(p)
    /\ UNCHANGED <<rows, creating, server, timer, isRunning, historyVars>>

FindUser(p) ==
    /\ pass[p].pc = "user"
    /\ Goto(p, "mail") \/ Continue(p)
    /\ UNCHANGED <<rows, creating, server, timer, isRunning, historyVars>>

Deliver(a) ==
    /\ mailed' = [mailed EXCEPT ![a] = @ + 1]
    /\ late' = [late EXCEPT ![a] = IF rows[a].state = "active" THEN @ ELSE @ + 1]

\* Mutant of SendMail: the answer of sendPriceAlert ignored.
SendMailUnchecked(p) ==
    /\ pass[p].pc = "mail"
    /\ \/ Deliver(pass[p].alert) /\ UNCHANGED faults
       \/ UNCHANGED historyVars
    /\ Goto(p, "recheck")
    /\ UNCHANGED <<rows, creating, server, timer, isRunning>>

\* sendPriceAlert never throws: it answers true or false, and a mail whose
\* confirmation got lost was delivered although the answer is false.
SendMail(p) ==
    /\ pass[p].pc = "mail"
    /\ \/ Deliver(pass[p].alert) /\ Goto(p, "recheck") /\ UNCHANGED faults
       \/ Deliver(pass[p].alert) /\ Continue(p) /\ Fault
       \/ Continue(p) /\ UNCHANGED historyVars
    /\ UNCHANGED <<rows, creating, server, timer, isRunning>>

\* Mutant of CheckAndNotify: `<` for `<=`.
CheckAndNotifyBelow(p) ==
    LET a == pass[p].alert
        confirmed == /\ Stored(a)
                     /\ ~TextLeq(rows[a].target, rows[a].current)
                     /\ ~rows[a].notified
    IN  /\ pass[p].pc = "recheck"
        /\ \/ confirmed /\ Goto(p, "mark") /\ UNCHANGED faults
           \/ ~confirmed /\ Continue(p) /\ UNCHANGED faults
           \/ Continue(p) /\ Fault
        /\ UNCHANGED <<rows, creating, server, timer, isRunning, mailed, late>>

\* checkAndNotify compares two columns, and answers false when its query fails.
CheckAndNotify(p) ==
    LET a == pass[p].alert
        confirmed == /\ Stored(a)
                     /\ TextLeq(rows[a].current, rows[a].target)
                     /\ ~rows[a].notified
    IN  /\ pass[p].pc = "recheck"
        /\ \/ confirmed /\ Goto(p, "mark") /\ UNCHANGED faults
           \/ ~confirmed /\ Continue(p) /\ UNCHANGED faults
           \/ Continue(p) /\ Fault
        /\ UNCHANGED <<rows, creating, server, timer, isRunning, mailed, late>>

MarkNotified(p) ==
    LET a == pass[p].alert
    IN  /\ pass[p].pc = "mark"
        /\ \/ /\ rows' = IF Stored(a)
                         THEN [rows EXCEPT ![a].notified = TRUE]
                         ELSE rows
              /\ UNCHANGED faults
           \/ UNCHANGED rows /\ Fault
        /\ Continue(p)
        /\ UNCHANGED <<creating, server, timer, isRunning, mailed, late>>

\* Mutant of Finish: isRunning reset at the end of the try block only, which a
\* failure leaves early.
FinishWithoutFinally(p) ==
    /\ pass[p].pc = "scan"
    /\ pass[p].todo = {}
    /\ pass' = [pass EXCEPT ![p] = IdlePass]
    /\ isRunning' \in BOOLEAN
    /\ UNCHANGED <<rows, creating, server, timer, historyVars>>

\* The finally block.
Finish(p) ==
    /\ pass[p].pc = "scan"
    /\ pass[p].todo = {}
    /\ pass' = [pass EXCEPT ![p] = IdlePass]
    /\ isRunning' = FALSE
    /\ UNCHANGED <<rows, creating, server, timer, historyVars>>

PassStep(p) ==
    \/ Select(p) \/ Observe(p) \/ UpdatePrice(p) \/ RecordPrice(p)
    \/ FindUser(p) \/ SendMail(p) \/ CheckAndNotify(p) \/ MarkNotified(p)
    \/ Finish(p)

UserStep ==
    \/ \E r \in Requests, k \in Keys, t, c \in Prices : CheckDuplicate(r, k, t, c)
    \/ \E r \in Requests : FinishCreate(r)
    \/ \E a \in AlertIds, k \in Keys, t, c \in Prices : CreatePriceAlert(a, k, t, c)
    \/ \E a \in AlertIds : DeactivateAlert(a)
    \/ \E a \in AlertIds : DeletePriceAlert(a)
    \/ \E a \in AlertIds : DeleteAlert(a)

Next ==
    \/ UserStep
    \/ Boot \/ Start \/ Tick \/ Stop \/ Exit
    \/ \E p \in Passes : PassStep(p)

\* Every await of a pass settles, and setInterval keeps firing.
Fairness ==
    /\ \A p \in Passes : WF_vars(PassStep(p))
    /\ WF_vars(Tick)

Spec == Init /\ [][Next]_vars /\ Fairness

(***************************************************************************)
(* Properties.                                                             *)
(***************************************************************************)
\* isRunning tells the truth: a pass is in flight exactly when it is set, and
\* then only one is, across timer ticks, a start in the middle of a pass and
\* exits (priceCheckJob.ts:37-42 and 126-127).
OnePass ==
    /\ isRunning <=> \E p \in Passes : pass[p].pc # "idle"
    /\ \A p, q \in Passes : pass[p].pc # "idle" /\ pass[q].pc # "idle" => p = q

\* An alert leaves the scan for good only after its user was mailed: no
\* failed delivery, failed query or exit marks it (priceCheckJob.ts:107-109).
MarkedAfterMail == \A a \in AlertIds : rows[a].notified => mailed[a] > 0

\* No step delivers a mail for an alert that is marked already, though the
\* pass works on a snapshot (priceCheckJob.ts:88, priceTrackingService.ts:177).
NoMailAfterMark ==
    [][\A a \in AlertIds : rows[a].notified => mailed'[a] = mailed[a]]_vars

\* Switching an alert off, or deleting it, lets at most one more mail out: the
\* one of a pass whose snapshot still holds it (priceCheckJob.ts:46).
LateMailBound == \A a \in AlertIds : late[a] <= 1

\* The amounts in use all have the same number of digits, so that comparing
\* their texts compares the amounts.
SameWidth == \A p, q \in Prices : TextLeq(p, q) <=> p <= q

\* Then an alert is mailed once, and once more at most for each fault that
\* kept a delivered mail from being marked (priceCheckJob.ts:99-109).
MailedOncePerFault ==
    SameWidth => \A a \in AlertIds : mailed[a] <= 1 + faults

\* While the timer is set, scans keep coming: no failure inside a pass leaves
\* isRunning set for ever (priceCheckJob.ts:126-128).
JobKeepsScanning ==
    timer ~> (~timer \/ \E p \in Passes : pass[p].pc = "select")

\* A mail goes out only when the observed price is at or below the target
\* ("check whether the target price is reached", priceCheckJob.ts:87).
MailOnlyWhenReached ==
    \A p \in Passes :
       pass[p].pc = "mail" => pass[p].price <= pass[p].seen[pass[p].alert].target

\* A user never has two active alerts on one product of one marketplace
\* ("duplicate check", priceTrackingService.ts:37).
NoDuplicateAlerts ==
    \A a, b \in AlertIds :
       /\ rows[a].state = "active"
       /\ rows[b].state = "active"
       /\ rows[a].key = rows[b].key
       => a = b
=============================================================================
