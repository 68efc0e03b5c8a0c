------------------------------ MODULE MCServices ------------------------------
(***************************************************************************)
(* Eight components that keep their state apart, checked in one run:       *)
(* e-mail verification, two-factor authentication, owner mode, the         *)
(* catalogue of backups, the instant backup, the price history, the        *)
(* favorites and the security monitoring.  They share neither a key nor a  *)
(* row, so that no step of one is seen by another; the run takes them one  *)
(* at a time, each from its initial states, and its states are the sum of  *)
(* theirs rather than the product.                                         *)
(***************************************************************************)
EXTENDS Naturals, FiniteSets

CONSTANTS
    Parts,          \* the components to check
    Checks, MaxAttempts, AttemptsLife, VerifyFaults,
    Uses, NCodes, MaxLists,
    Calls, SessionLife,
    Jobs, MaxKept, MaxMade, BackupFaults,
    Users, DumpFaults,
    Tracked, Prices, None, HistoryFaults,
    Products, PageLimit, MaxChanges,
    Rounds, AlertType, AlertLife, EmergencyLife, MonitorFaults

ASSUME ServicesAssumption ==
    /\ Parts \subseteq {"email", "factor", "owner", "backup", "dump", "history",
                    "favorites", "monitor"}
    /\ {MaxAttempts, AttemptsLife, NCodes, SessionLife, PageLimit, AlertLife, EmergencyLife} \subseteq Nat \ {0}
    /\ {VerifyFaults, MaxLists, MaxKept, MaxMade, BackupFaults, DumpFaults,
        HistoryFaults, MaxChanges, MonitorFaults} \subseteq Nat
    /\ \A actors \in {Checks, Uses, Calls, Jobs, Users, Tracked, Products, Rounds} : IsFiniteSet(actors)
    /\ None \notin Prices

VARIABLES
    part,           \* the component this behaviour is about
    code, attempts, attemptsLife, check, mailed, wrong, refused, verifyFaults,
    newest, enabled, backupCodes, use, accepted, overtaken,
    session, activated, call, ended, excused,
    table, catalogue, archives, partial, made, job, inserted, withdrawn, backupFaults,
    users, rows, reading, dump, parts, dumpFaults,
    price, active, notified, latest, checking, collecting, lag, historyFaults,
    favorites, reader, got, steady, changes,
    alertTable, load, running, round, recent, emergency, monitorFaults

Email == INSTANCE EmailVerification WITH MaxFaults <- VerifyFaults
Factor == INSTANCE TwoFactor
Owner == INSTANCE OwnerMode
Backup == INSTANCE BackupCatalogue
\* Two of the tables that refer to users.
Dump == INSTANCE InstantBackup WITH Tables <- <<"favorites", "user_sessions">>
History == INSTANCE PriceHistory WITH newest <- latest
Favorite == INSTANCE Favorites
Monitor == INSTANCE SecurityMonitoring

emailVars == <<code, attempts, attemptsLife, check, mailed, wrong, refused, verifyFaults>>
factorVars == <<newest, enabled, backupCodes, use, accepted, overtaken>>
ownerVars == <<session, activated, call, ended, excused>>
backupVars == <<table, catalogue, archives, partial, made, job, inserted, withdrawn, backupFaults>>
dumpVars == <<users, rows, reading, dump, parts, dumpFaults>>
historyVars == <<price, active, notified, latest, checking, collecting, lag, historyFaults>>
favoriteVars == <<favorites, reader, got, steady, changes>>
monitorVars == <<alertTable, load, running, round, recent, emergency, monitorFaults>>
vars == <<part, emailVars, factorVars, ownerVars, backupVars, dumpVars, historyVars,
          favoriteVars, monitorVars>>

Init ==
    /\ part \in Parts
    /\ Email!Init
    /\ Factor!Init
    /\ Owner!Init
    /\ Backup!Init /\ (part = "backup" \/ table = "init")
    /\ Dump!Init
    /\ History!Init /\ (part = "history" \/ price = CHOOSE p \in [Tracked -> Prices] : TRUE)
    /\ Favorite!Init
    /\ Monitor!Init /\ (part = "monitor" \/ alertTable)

\* All but the component at hand stay as they are.
Next ==
    /\ \/ /\ part = "email" /\ Email!Next
          /\ UNCHANGED <<factorVars, ownerVars, backupVars, dumpVars, historyVars,
                         favoriteVars, monitorVars>>
       \/ /\ part = "factor" /\ Factor!Next
          /\ UNCHANGED <<emailVars, ownerVars, backupVars, dumpVars, historyVars,
                         favoriteVars, monitorVars>>
       \/ /\ part = "owner" /\ Owner!Next
          /\ UNCHANGED <<emailVars, factorVars, backupVars, dumpVars, historyVars,
                         favoriteVars, monitorVars>>
       \/ /\ part = "backup" /\ Backup!Next
          /\ UNCHANGED <<emailVars, factorVars, ownerVars, dumpVars, historyVars,
                         favoriteVars, monitorVars>>
       \/ /\ part = "dump" /\ Dump!Next
          /\ UNCHANGED <<emailVars, factorVars, ownerVars, backupVars, historyVars,
                         favoriteVars, monitorVars>>
       \/ /\ part = "history" /\ History!Next
          /\ UNCHANGED <<emailVars, factorVars, ownerVars, backupVars, dumpVars,
                         favoriteVars, monitorVars>>
       \/ /\ part = "favorites" /\ Favorite!Next
          /\ UNCHANGED <<emailVars, factorVars, ownerVars, backupVars, dumpVars,
                         historyVars, monitorVars>>
       \/ /\ part = "monitor" /\ Monitor!Next
          /\ UNCHANGED <<emailVars, factorVars, ownerVars, backupVars, dumpVars,
                         historyVars, favoriteVars>>
    /\ UNCHANGED part

\* The component at hand is fair as its module says.
Fairness ==
    /\ Email!Fairness
    /\ WF_historyVars(part = "history" /\ History!CheckPrices)
    /\ WF_historyVars(part = "history" /\ History!CheckStep)
    /\ WF_historyVars(part = "history" /\ History!CollectPriceHistory)
    /\ WF_historyVars(part = "history" /\ History!CollectStep)
    /\ WF_monitorVars(part = "monitor" /\ \E r \in Rounds : Monitor!StartMonitoring(r))
    /\ WF_monitorVars(part = "monitor" /\ \E r \in Rounds : Monitor!BeginCheck(r))
    /\ \A r \in Rounds : WF_monitorVars(part = "monitor" /\ Monitor!RoundStep(r))
    /\ WF_monitorVars(part = "monitor" /\ Monitor!Age)

Spec == Init /\ [][Next]_vars /\ Fairness

-----------------------------------------------------------------------------
\* Wrong codes answered while the counter lives (EmailVerification).
GuessBound == Email!GuessBound

\* The counter that refuses every code ends (EmailVerification).
LockEnds == Email!LockEnds

\* Backup codes accepted of one list (TwoFactor).
AcceptedBound == Factor!AcceptedBound

\* The newest list of backup codes is the one that is stored (TwoFactor).
RegenerationSticks == Factor!RegenerationSticks

\* A session that was deactivated is gone (OwnerMode).
DeactivationSticks == Owner!DeactivationSticks

\* The archive of a listed backup is there and holds its components
\* (BackupCatalogue).
RowHasFile == Backup!RowHasFile

\* The retention spares the newest rows (BackupCatalogue).
NewestKept == Backup!NewestKept

\* The rows of a dump refer to users of it (InstantBackup).
DumpIsClosed == Dump!DumpIsClosed

\* A price is recorded late at most once for a change (PriceHistory).
LagBound == History!LagBound

\* The newest entry comes to be the price (PriceHistory).
NewestIsPrice == \A a \in Tracked : []<>(part = "history" => History!IsPrice(a))

\* Rows a client that reads page by page misses (Favorites).
MissedBound == Favorite!MissedBound

\* Alerts of one type within the hour (SecurityMonitoring).
AlertBound == Monitor!AlertBound

\* The emergency mode ends when the load is below critical (SecurityMonitoring).
EmergencyEnds == Monitor!EmergencyEnds
=============================================================================
