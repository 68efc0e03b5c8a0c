----------------------------- MODULE PriceHistory -----------------------------
(***************************************************************************)
(* The history of prices, which three writers append to without knowing of *)
(* each other: the price check, which changes the price of an alert and    *)
(* records it; the price history job, which selects the prices of the      *)
(* active alerts once and then records them one by one; and the route for  *)
(* posting a price.  Readers take the newest entry for the price of now    *)
(* (getLatestPrice) or draw the entries as a curve.                        *)
(*                                                                         *)
(* Every alert here has a product of its own.  PriceAlerts has the mail of *)
(* the price check in full; here the rest of an alert's turn is that it    *)
(* may be marked.  Entries are kept for a year: the clean-up takes nothing *)
(* of an alert that is still recorded every day.                           *)
(***************************************************************************)
EXTENDS Naturals, FiniteSets

CONSTANTS
    Tracked,        \* alerts
    Prices,         \* the values of current_price
    None,           \* no entry
    HistoryFaults   \* bound on failing statements and process exits

VARIABLES
    price,          \* current_price of each alert
    active,         \* the column of that name, FALSE too when the row is gone
    notified,       \* the column of that name
    newest,         \* the newest history entry of each alert's product
    checking,       \* the price check: where it is, the alert whose turn it is, the
                    \* price it has found, and the alerts to come with the prices
                    \* selected for all
    collecting,     \* the price history job, likewise
    lag,            \* history: entries of the history job since the price last
                    \* changed that are not the price
    historyFaults   \* history: faults so far

vars == <<price, active, notified, newest, checking, collecting, lag, historyFaults>>

Idle == [at |-> "idle", todo |-> {}, seen |-> [a \in Tracked |-> None]]
Snapshot == [Tracked -> Prices \cup {None}]

TypeOK ==
    /\ price \in [Tracked -> Prices]
    /\ active \in [Tracked -> BOOLEAN]
    /\ notified \in [Tracked -> BOOLEAN]
    /\ newest \in [Tracked -> Prices \cup {None}]
    /\ checking \in [at : {"idle", "scan"} \cup Tracked, todo : SUBSET Tracked, seen : Snapshot]
    /\ collecting \in [at : {"idle", "scan"}, todo : SUBSET Tracked, seen : Snapshot]
    /\ lag \in [Tracked -> Nat]
    /\ historyFaults \in 0..HistoryFaults

Init ==
    /\ price \in [Tracked -> Prices]
    /\ active = [a \in Tracked |-> TRUE]
    /\ notified = [a \in Tracked |-> FALSE]
    /\ newest = [a \in Tracked |-> None]
    /\ checking = Idle
    /\ collecting = Idle
    /\ lag = [a \in Tracked |-> 0]
    /\ historyFaults = 0

Fault == historyFaults < HistoryFaults /\ historyFaults' = historyFaults + 1

\* The rows a pass selects, with their prices.
Select(rows) ==
    [at |-> "scan", todo |-> rows,
     seen |-> [a \in Tracked |-> IF a \in rows THEN price[a] ELSE None]]

\* recordPrice.
RecordPrice(a, value) == newest' = [newest EXCEPT ![a] = value]

-----------------------------------------------------------------------------
\* A tick of the timer: checkPrices does nothing while a pass is running.
CheckPrices ==
    /\ checking.at = "idle"
    /\ checking' = Select({a \in Tracked : active[a] /\ ~notified[a]})
    /\ UNCHANGED <<price, active, notified, newest, collecting, lag, historyFaults>>

\* The turn of an alert begins: its price is the one selected, or another, which
\* is stored.
FindPrice(a) ==
    /\ checking.at = "scan"
    /\ a \in checking.todo
    /\ \E found \in Prices :
          /\ checking' = [at |-> a, todo |-> checking.todo \ {a},
                          seen |-> [checking.seen EXCEPT ![a] = found]]
          /\ IF found # checking.seen[a]
             THEN price' = [price EXCEPT ![a] = found] /\ lag' = [lag EXCEPT ![a] = 0]
             ELSE UNCHANGED <<price, lag>>
    /\ UNCHANGED <<active, notified, newest, collecting, historyFaults>>

\* Mutant of RecordFound: a price is recorded only where there is no entry yet.
RecordSelected(a) ==
    /\ checking.at = a
    /\ IF newest[a] = None THEN RecordPrice(a, checking.seen[a]) ELSE UNCHANGED newest
    /\ \/ notified' = [notified EXCEPT ![a] = TRUE]
       \/ UNCHANGED notified
    /\ checking' = [checking EXCEPT !.at = "scan"]
    /\ UNCHANGED <<price, active, collecting, lag, historyFaults>>

\* The price is recorded; the rest of the alert's turn may mark it.
RecordFound(a) ==
    /\ checking.at = a
    /\ RecordPrice(a, checking.seen[a])
    /\ \/ notified' = [notified EXCEPT ![a] = TRUE]
       \/ UNCHANGED notified
    /\ checking' = [checking EXCEPT !.at = "scan"]
    /\ UNCHANGED <<price, active, collecting, lag, historyFaults>>

FinishCheck ==
    /\ checking.at = "scan" /\ checking.todo = {}
    /\ checking' = Idle
    /\ UNCHANGED <<price, active, notified, newest, collecting, lag, historyFaults>>

\* A statement throws, and with it the turn of an alert ends.
TurnFails(a) ==
    /\ Fault
    /\ \/ checking.at = "scan" /\ a \in checking.todo
       \/ checking.at = a
    /\ checking' = [checking EXCEPT !.at = "scan", !.todo = @ \ {a}]
    /\ UNCHANGED <<price, active, notified, newest, collecting, lag>>

-----------------------------------------------------------------------------
\* collectPriceHistory, at the start and every day, if none is running.
CollectPriceHistory ==
    /\ collecting.at = "idle"
    /\ collecting' = Select({a \in Tracked : active[a]})
    /\ UNCHANGED <<price, active, notified, newest, checking, lag, historyFaults>>

\* Mutant of RecordCollected: an INSERT whose answer was lost is repeated.
RecordCollectedAgain(a) ==
    /\ collecting.at = "scan"
    /\ a \in collecting.todo
    /\ RecordPrice(a, collecting.seen[a])
    /\ lag' = [lag EXCEPT ![a] = IF collecting.seen[a] # price[a] THEN @ + 1 ELSE @]
    /\ collecting' \in {collecting, [collecting EXCEPT !.todo = @ \ {a}]}
    /\ UNCHANGED <<price, active, notified, checking, historyFaults>>

RecordCollected(a) ==
    /\ collecting.at = "scan"
    /\ a \in collecting.todo
    /\ RecordPrice(a, collecting.seen[a])
    /\ lag' = [lag EXCEPT ![a] = IF collecting.seen[a] # price[a] THEN @ + 1 ELSE @]
    /\ collecting' = [collecting EXCEPT !.todo = @ \ {a}]
    /\ UNCHANGED <<price, active, notified, checking, historyFaults>>

\* cleanOldHistory, of which an error is an answer of 0.
CleanOldHistory ==
    /\ collecting.at = "scan" /\ collecting.todo = {}
    /\ \E gone \in SUBSET {a \in Tracked : ~active[a]} :
          newest' = [a \in Tracked |-> IF a \in gone THEN None ELSE newest[a]]
    /\ collecting' = Idle
    /\ UNCHANGED <<price, active, notified, checking, lag, historyFaults>>

CollectFails(a) ==
    /\ Fault
    /\ collecting.at = "scan"
    /\ a \in collecting.todo
    /\ collecting' = [collecting EXCEPT !.todo = @ \ {a}]
    /\ UNCHANGED <<price, active, notified, newest, checking, lag>>

-----------------------------------------------------------------------------
\* POST /price-history: any price, for any product.
PostPrice ==
    /\ \E a \in Tracked, value \in Prices : RecordPrice(a, value)
    /\ UNCHANGED <<price, active, notified, checking, collecting, lag, historyFaults>>

\* The user deactivates or deletes an alert.
DeactivateAlert ==
    /\ \E a \in Tracked : active[a] /\ active' = [active EXCEPT ![a] = FALSE]
    /\ UNCHANGED <<price, notified, newest, checking, collecting, lag, historyFaults>>

\* The process ends; the next one starts both jobs.
ExitOfJobs ==
    /\ Fault
    /\ checking' = Idle
    /\ collecting' = Idle
    /\ UNCHANGED <<price, active, notified, newest, lag>>

CheckStep == (\E a \in Tracked : FindPrice(a) \/ RecordFound(a)) \/ FinishCheck
CollectStep == (\E a \in Tracked : RecordCollected(a)) \/ CleanOldHistory

Next ==
    \/ CheckPrices \/ CheckStep \/ (\E a \in Tracked : TurnFails(a))
    \/ CollectPriceHistory \/ CollectStep \/ (\E a \in Tracked : CollectFails(a))
    \/ PostPrice \/ DeactivateAlert \/ ExitOfJobs

\* The timers fire, and what they begin goes on.
Fairness ==
    /\ WF_vars(CheckPrices) /\ WF_vars(CheckStep)
    /\ WF_vars(CollectPriceHistory) /\ WF_vars(CollectStep)

Spec == Init /\ [][Next]_vars /\ Fairness

-----------------------------------------------------------------------------
\* The history job records prices that it selected at its start
\* (priceHistoryJob.ts:45-49), after the price check may have recorded newer
\* ones: an alert's curve jumps back.  It does so at most once for a change.
LagBound == \A a \in Tracked : lag[a] <= 1

\* Whatever was recorded late or posted, the newest entry of an active alert
\* (priceHistoryService.ts:46-52) comes to be its price again and again.
IsPrice(a) == active[a] => newest[a] = price[a]
NewestIsPrice == \A a \in Tracked : []<>IsPrice(a)
=============================================================================
