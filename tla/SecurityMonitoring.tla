------------------------- MODULE SecurityMonitoring -------------------------
(***************************************************************************)
(* The security check that startMonitoring runs at once and then every     *)
(* minute: four looks at what the other services have counted, each of     *)
(* which may raise an alert, and last the scaling of the protection, which *)
(* sets or deletes the Redis key ddos:emergency_mode by the load.          *)
(*                                                                         *)
(* The interval does not wait for a check to end, so checks overlap.  An   *)
(* alert is raised by asking for one of its type within the hour and then  *)
(* inserting; a check that throws on the way never comes to the scaling.   *)
(* The table of the alerts is that of migration 002, which nothing but an  *)
(* operator runs: where initSchema alone has made the tables, every check  *)
(* with something to report throws.                                        *)
(*                                                                         *)
(* The load is read from ddos:global, a counter of a minute: the level it  *)
(* amounts to climbs as requests come and is none again when the minute is *)
(* over, however heavy the load.                                           *)
(*                                                                         *)
(* The module follows the rows of one type of alert.  The key              *)
(* ddos:tight_limits is written and deleted here and read nowhere; it is   *)
(* left out, and so are the statuses of alerts and incidents, which no     *)
(* check looks at.                                                         *)
(***************************************************************************)
EXTENDS Naturals, FiniteSets

CONSTANTS
    Rounds,         \* security checks in flight at once
    AlertType,      \* the type of alert whose rows are followed
    AlertLife,      \* the hour an alert counts as recent, in ticks
    EmergencyLife,  \* the expiry of ddos:emergency_mode, in ticks
    MonitorFaults   \* bound on failing commands and process exits

\* The looks of a check, in order, and the types of alert each may report.
Look == <<{"ddos_attack", "ddos_warning"}, {"critical_anomalies"},
          {"intrusion_spike"}, {"mass_blocking"}>>

VARIABLES
    alertTable,     \* whether there is a table security_alerts
    load,           \* the threat level that the counters amount to now
    running,        \* whether the interval is set
    round,          \* each check: what it does next
    recent,         \* the alerts of the type that count as recent: for how many ticks
    emergency,      \* ticks until ddos:emergency_mode expires, 0 when there is no key
    monitorFaults   \* history: faults so far

vars == <<alertTable, load, running, round, recent, emergency, monitorFaults>>

\* The levels "none" and "low", which autoScale treats alike, are "calm".
Level == {"calm", "medium", "high", "critical"}

\* The level above, which the counter reaches next.
Above == [calm |-> "medium", medium |-> "high", high |-> "critical"]

\* A check is idle, at one of the looks, about to ask for or to insert the alert
\* of a look, or at the scaling.
Step == [at : {"look", "ask", "insert"}, look : 1..4]
            \cup [at : {"idle", "scale", "enable", "normalize"}, look : {0}]
At(step, i) == [at |-> step, look |-> i]

\* An alert that no longer counts is forgotten, and its id may be that of a later one.
TypeOK ==
    /\ alertTable \in BOOLEAN
    /\ load \in Level
    /\ running \in BOOLEAN
    /\ round \in [Rounds -> Step]
    /\ DOMAIN recent \subseteq Nat
    /\ \A id \in DOMAIN recent : recent[id] \in 1..AlertLife
    /\ emergency \in 0..EmergencyLife
    /\ monitorFaults \in 0..MonitorFaults

Init ==
    /\ alertTable \in BOOLEAN
    /\ load = "calm"
    /\ running = FALSE
    /\ round = [r \in Rounds |-> At("idle", 0)]
    /\ recent = [id \in {} |-> 0]
    /\ emergency = 0
    /\ monitorFaults = 0

Fault == monitorFaults < MonitorFaults /\ monitorFaults' = monitorFaults + 1

Goto(r, step) == round' = [round EXCEPT ![r] = step]

\* What follows a look: the next one, or the scaling.
After(i) == IF i < 4 THEN At("look", i + 1) ELSE At("scale", 0)

Recent == DOMAIN recent
HasRecent == Recent # {}

-----------------------------------------------------------------------------
\* startMonitoring, with its first check; it does nothing when it is running.  A
\* process calls it once, when it starts.
StartMonitoring(r) ==
    /\ ~running
    /\ \A other \in Rounds : round[other].at = "idle"
    /\ running' = TRUE
    /\ Goto(r, At("look", 1))
    /\ UNCHANGED <<alertTable, load, recent, emergency, monitorFaults>>

\* stopMonitoring, when the process shuts down: checks under way go on.
StopMonitoring ==
    /\ running
    /\ running' = FALSE
    /\ Fault
    /\ UNCHANGED <<alertTable, load, round, recent, emergency>>

\* The interval begins a check, whatever the others are at.
BeginCheck(r) ==
    /\ running
    /\ round[r].at = "idle"
    /\ Goto(r, At("look", 1))
    /\ UNCHANGED <<alertTable, load, running, recent, emergency, monitorFaults>>

\* What a look may have to report.  The first one goes by the load; what the
\* others count may be either way.
Reports(i) ==
    IF i = 1
    THEN {CASE load = "critical" -> "ddos_attack"
            [] load = "high" -> "ddos_warning"
            [] OTHER -> "nothing"}
    ELSE Look[i] \cup {"nothing"}

\* One look.  An alert of another type than the one followed is asked for and
\* inserted without a trace here, but for the end of the check when there is no table.
LookAround(r) ==
    LET i == round[r].look
    IN  /\ round[r].at = "look"
        /\ \E type \in Reports(i) :
              Goto(r, IF type = AlertType THEN At("ask", i)
                      ELSE IF type = "nothing" \/ alertTable THEN After(i)
                      ELSE At("idle", 0))
        /\ UNCHANGED <<alertTable, load, running, recent, emergency, monitorFaults>>

\* Mutant of AskForAlert: alerts that were acknowledged are not asked for.
AskForNewAlert(r) ==
    /\ round[r].at = "ask"
    /\ \/ HasRecent /\ Goto(r, After(round[r].look))
       \/ alertTable /\ Goto(r, At("insert", round[r].look))
    /\ UNCHANGED <<alertTable, load, running, recent, emergency, monitorFaults>>

\* createAlert asks for an alert of the type within the hour.  Without a table that
\* throws, and the check is over.
AskForAlert(r) ==
    /\ round[r].at = "ask"
    /\ Goto(r, IF ~alertTable THEN At("idle", 0)
               ELSE IF HasRecent THEN After(round[r].look)
               ELSE At("insert", round[r].look))
    /\ UNCHANGED <<alertTable, load, running, recent, emergency, monitorFaults>>

InsertAlert(r) ==
    /\ round[r].at = "insert"
    /\ \E new \in (1..(Cardinality(Recent) + 1)) \ Recent :
          recent' = [id \in Recent \cup {new} |-> IF id = new THEN AlertLife ELSE recent[id]]
    /\ Goto(r, After(round[r].look))
    /\ UNCHANGED <<alertTable, load, running, emergency, monitorFaults>>

\* Mutant of AutoScale: the two upper levels are taken for each other.
AutoScaleSwapped(r) ==
    /\ round[r].at = "scale"
    /\ Goto(r, At(CASE load = "high" -> "enable"
                    [] load = "calm" -> "normalize"
                    [] OTHER -> "idle", 0))
    /\ UNCHANGED <<alertTable, load, running, recent, emergency, monitorFaults>>

\* autoScale reads the counters once more.  A medium or high level leaves the
\* emergency mode as it is.
AutoScale(r) ==
    /\ round[r].at = "scale"
    /\ Goto(r, At(CASE load = "critical" -> "enable"
                    [] load = "calm" -> "normalize"
                    [] OTHER -> "idle", 0))
    /\ UNCHANGED <<alertTable, load, running, recent, emergency, monitorFaults>>

\* enableEmergencyMode: a SET with an expiry.
EnableEmergencyMode(r) ==
    /\ round[r].at = "enable"
    /\ emergency' = EmergencyLife
    /\ Goto(r, At("idle", 0))
    /\ UNCHANGED <<alertTable, load, running, recent, monitorFaults>>

\* normalizeRateLimits, which acts on what autoScale has read.
NormalizeRateLimits(r) ==
    /\ round[r].at = "normalize"
    /\ emergency' = 0
    /\ Goto(r, At("idle", 0))
    /\ UNCHANGED <<alertTable, load, running, recent, monitorFaults>>

\* A command throws; performSecurityCheck catches it, and the check is over.
CheckThrows(r) ==
    /\ Fault
    /\ round[r].at # "idle"
    /\ Goto(r, At("idle", 0))
    /\ UNCHANGED <<alertTable, load, running, recent, emergency>>

\* The process ends; the next one starts to monitor again.
ExitDuringCheck ==
    /\ Fault
    /\ running' = FALSE
    /\ round' = [r \in Rounds |-> At("idle", 0)]
    /\ UNCHANGED <<alertTable, load, recent, emergency>>

\* ddos:global grows to the next level, or expires.
LoadChanges ==
    /\ \/ load # "critical" /\ load' = Above[load]
       \/ load # "calm" /\ load' = "calm"
    /\ UNCHANGED <<alertTable, running, round, recent, emergency, monitorFaults>>

\* Clearing the cache is FLUSHDB, on the database that holds both keys.
ClearCache ==
    /\ load # "calm" \/ emergency > 0
    /\ load' = "calm"
    /\ emergency' = 0
    /\ UNCHANGED <<alertTable, running, round, recent, monitorFaults>>

Older == [id \in {i \in Recent : recent[i] > 1} |-> recent[id] - 1]

\* Time passes, for the alerts and for the key.
Age ==
    /\ HasRecent \/ emergency > 0
    /\ recent' = Older
    /\ emergency' = IF emergency > 0 THEN emergency - 1 ELSE 0
    /\ UNCHANGED <<alertTable, load, running, round, monitorFaults>>

-----------------------------------------------------------------------------
RoundStep(r) ==
    \/ LookAround(r) \/ AskForAlert(r) \/ InsertAlert(r)
    \/ AutoScale(r) \/ EnableEmergencyMode(r) \/ NormalizeRateLimits(r)

Next ==
    \/ \E r \in Rounds : StartMonitoring(r) \/ BeginCheck(r) \/ RoundStep(r) \/ CheckThrows(r)
    \/ StopMonitoring \/ ExitDuringCheck
    \/ LoadChanges \/ ClearCache \/ Age

\* The server starts to monitor whenever it starts, the interval begins checks,
\* and a check goes on; time passes.
Fairness ==
    /\ WF_vars(\E r \in Rounds : StartMonitoring(r))
    /\ WF_vars(\E r \in Rounds : BeginCheck(r))
    /\ \A r \in Rounds : WF_vars(RoundStep(r))
    /\ WF_vars(Age)

Spec == Init /\ [][Next]_vars /\ Fairness

-----------------------------------------------------------------------------
\* Within an hour a type of alert is raised once (securityMonitoringService.ts:
\* 178-188), or once for each check that asked before another had inserted.
AlertBound == Cardinality(Recent) <= Cardinality(Rounds)

\* The emergency mode, in which the guard refuses all but two paths
\* (ddosProtection.ts:58-70), ends when the load stays below critical: the checks
\* that have read an older load set its key anew only so often, and it is deleted or
\* expires, also when nothing is monitored and no check comes to the scaling
\* (ddosProtectionService.ts:307-334, 354-357).
EmergencyEnds == <>[](load # "critical") => <>[](emergency = 0)

\* What does not hold: that a load which is critical in window after window turns the
\* emergency mode on.  A check can find the counter at the start of a window
\* (ddosProtectionService.ts:252), and without a table no check that finds it
\* critical comes to the scaling.
EmergencyStarts == []<>(load = "critical") => []<>(emergency > 0)
=============================================================================
