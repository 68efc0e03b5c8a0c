--------------------------- MODULE BackupCatalogue ---------------------------
(***************************************************************************)
(* The backups that backupService keeps: the archives in BACKUP_DIR, the   *)
(* table of that name, and the requests that make and delete them.         *)
(*                                                                         *)
(* A full backup writes its archive, inserts its row, and deletes what is  *)
(* older than the newest MAX_BACKUPS rows, archive first and row second,   *)
(* each by a command of its own; requests overlap.  (The route that made   *)
(* full backups answers 400 today; createFullBackup is still the service's *)
(* operation for them.)  An instant backup is streamed to the client and   *)
(* leaves a row only.                                                      *)
(*                                                                         *)
(* Two files define the table.  The one of initSchema has a column         *)
(* "components" NOT NULL, which the row of a full backup does not give;    *)
(* the one of migration 007 has no such column, and the row of an instant  *)
(* backup names it.  Under each of them one of the two INSERTs fails, and  *)
(* both are swallowed.                                                     *)
(***************************************************************************)
EXTENDS Naturals, FiniteSets, Sequences, SequencesExt

CONSTANTS
    Jobs,           \* requests in flight at once
    MaxKept,        \* MAX_BACKUPS
    MaxMade,        \* bound on the backups made
    BackupFaults    \* bound on failing commands and process exits

VARIABLES
    table,          \* whose definition of the table is in use
    catalogue,      \* the rows, in the order of created_at
    archives,       \* the archives in BACKUP_DIR
    partial,        \* the backups one of whose components failed
    made,           \* the number of backups begun; each is named by its number
    job,            \* each request: what it does next, to which backup, and the
                    \* rows it has yet to delete
    inserted,       \* history: every row ever inserted, in order
    withdrawn,      \* history: the rows whose deletion was asked for
    backupFaults    \* history: faults so far

vars == <<table, catalogue, archives, partial, made, job, inserted, withdrawn, backupFaults>>

Backups == 1..MaxMade
Step == {"idle", "collect", "zip", "save", "retain", "select", "file", "row"}
Idle == [at |-> "idle", backup |-> 0, doomed |-> <<>>]

TypeOK ==
    /\ table \in {"init", "migration"}
    /\ catalogue \in Seq(Backups) /\ IsInjective(catalogue)
    /\ archives \subseteq Backups
    /\ partial \subseteq 1..made
    /\ made \in 0..MaxMade
    /\ \A j \in Jobs :
          /\ job[j].at \in Step
          /\ job[j].backup \in 0..MaxMade
          /\ job[j].doomed \in Seq(Backups)
          /\ job[j].at \in {"select", "file", "row"} => job[j].doomed # <<>>
    /\ inserted \in Seq(Backups) /\ IsInjective(inserted)
    /\ withdrawn \subseteq ToSet(inserted)
    /\ backupFaults \in 0..BackupFaults

Init ==
    /\ table \in {"init", "migration"}
    /\ catalogue = <<>>
    /\ archives = {}
    /\ partial = {}
    /\ made = 0
    /\ job = [j \in Jobs |-> Idle]
    /\ inserted = <<>>
    /\ withdrawn = {}
    /\ backupFaults = 0

Fault == backupFaults < BackupFaults /\ backupFaults' = backupFaults + 1

Goto(j, step) == job' = [job EXCEPT ![j].at = step]

\* The deletion of the rows in turn, and the end of the request after the last.
DeleteEach(j, rows) ==
    job' = [job EXCEPT ![j] = IF rows = <<>> THEN Idle
                              ELSE [Idle EXCEPT !.at = "select", !.doomed = rows]]
Doomed(j) == Head(job[j].doomed)

Insert(backup) ==
    /\ catalogue' = Append(catalogue, backup)
    /\ inserted' = Append(inserted, backup)

-----------------------------------------------------------------------------
\* createFullBackup makes its directory.
CreateFullBackup(j) ==
    /\ job[j].at = "idle"
    /\ made < MaxMade
    /\ made' = made + 1
    /\ job' = [job EXCEPT ![j] = [at |-> "collect", backup |-> made + 1, doomed |-> <<>>]]
    /\ UNCHANGED <<table, catalogue, archives, partial, inserted, withdrawn, backupFaults>>

\* The backups of the database, Redis, the uploaded files, the configuration and
\* the logs, one after the other.  Each answers whether it succeeded, and no
\* answer ends the request.
BackupComponents(j) ==
    /\ job[j].at = "collect"
    /\ \/ UNCHANGED <<partial, backupFaults>>
       \/ Fault /\ partial' = partial \cup {job[j].backup}
    /\ Goto(j, "zip")
    /\ UNCHANGED <<table, catalogue, archives, made, inserted, withdrawn>>

CreateZipArchive(j) ==
    /\ job[j].at = "zip"
    /\ archives' = archives \cup {job[j].backup}
    /\ Goto(j, "save")
    /\ UNCHANGED <<table, catalogue, partial, made, inserted, withdrawn, backupFaults>>

\* The directory, the archive or a command around it fails, and the archive is
\* removed, if that does not fail too.
CleanUpFailedBackup(j) ==
    /\ Fault
    /\ job[j].at \in {"collect", "zip"}
    /\ \/ UNCHANGED archives
       \/ job[j].at = "zip" /\ archives' = archives \cup {job[j].backup}
    /\ DeleteEach(j, <<>>)
    /\ UNCHANGED <<table, catalogue, partial, made, inserted, withdrawn>>

\* Mutant of SaveBackupInfo: what the failed backup does in the end, the one
\* that succeeded does too.
SaveBackupInfoFinally(j) ==
    /\ job[j].at = "save"
    /\ IF table = "migration" THEN Insert(job[j].backup) ELSE UNCHANGED <<catalogue, inserted>>
    /\ archives' = archives \ {job[j].backup}
    /\ Goto(j, "retain")
    /\ UNCHANGED <<table, partial, made, withdrawn, backupFaults>>

\* saveBackupInfo, which the table of initSchema refuses.
SaveBackupInfo(j) ==
    /\ job[j].at = "save"
    /\ IF table = "migration" THEN Insert(job[j].backup) ELSE UNCHANGED <<catalogue, inserted>>
    /\ Goto(j, "retain")
    /\ UNCHANGED <<table, archives, partial, made, withdrawn, backupFaults>>

SaveFails(j) ==
    /\ Fault
    /\ job[j].at = "save"
    /\ Goto(j, "retain")
    /\ UNCHANGED <<table, catalogue, archives, partial, made, inserted, withdrawn>>

\* Mutant of OldBackups: the rows are sorted the other way round.
OldBackupsAscending ==
    IF Len(catalogue) > MaxKept THEN SubSeq(catalogue, MaxKept + 1, Len(catalogue)) ELSE <<>>

\* The rows beyond the newest MAX_BACKUPS, newest first.
OldBackups ==
    IF Len(catalogue) > MaxKept
    THEN Reverse(SubSeq(catalogue, 1, Len(catalogue) - MaxKept)) ELSE <<>>

\* cleanupOldBackups selects them once, and deletes them in turn.
CleanupOldBackups(j) ==
    /\ job[j].at = "retain"
    /\ DeleteEach(j, OldBackups)
    /\ UNCHANGED <<table, catalogue, archives, partial, made, inserted, withdrawn, backupFaults>>

\* createInstantBackup, and the row its route inserts, which the table of
\* migration 007 refuses.
InstantBackup ==
    /\ table = "init"
    /\ made < MaxMade
    /\ made' = made + 1
    /\ Insert(made + 1)
    /\ UNCHANGED <<table, archives, partial, job, withdrawn, backupFaults>>

\* The owner has a row deleted.
DeleteRequest(j) ==
    /\ job[j].at = "idle"
    /\ \E backup \in ToSet(catalogue) :
          /\ DeleteEach(j, <<backup>>)
          /\ withdrawn' = withdrawn \cup {backup}
    /\ UNCHANGED <<table, catalogue, archives, partial, made, inserted, backupFaults>>

\* deleteBackup: the row is looked up, its archive removed, and the row deleted.
SelectBackup(j) ==
    /\ job[j].at = "select"
    /\ IF Doomed(j) \in ToSet(catalogue)
       THEN Goto(j, "file")
       ELSE DeleteEach(j, Tail(job[j].doomed))
    /\ UNCHANGED <<table, catalogue, archives, partial, made, inserted, withdrawn, backupFaults>>

RemoveFile(j) ==
    /\ job[j].at = "file"
    /\ archives' = archives \ {Doomed(j)}
    /\ Goto(j, "row")
    /\ UNCHANGED <<table, catalogue, partial, made, inserted, withdrawn, backupFaults>>

RemoveRow(j) ==
    /\ job[j].at = "row"
    /\ \/ \E i \in DOMAIN catalogue :
             catalogue[i] = Doomed(j) /\ catalogue' = RemoveAt(catalogue, i)
       \/ Doomed(j) \notin ToSet(catalogue) /\ UNCHANGED catalogue
    /\ DeleteEach(j, Tail(job[j].doomed))
    /\ UNCHANGED <<table, archives, partial, made, inserted, withdrawn, backupFaults>>

\* A command of deleteBackup throws; it answers FALSE, and the next row follows.
DeleteFails(j) ==
    /\ Fault
    /\ job[j].at \in {"select", "file", "row"}
    /\ DeleteEach(j, Tail(job[j].doomed))
    /\ UNCHANGED <<table, catalogue, archives, partial, made, inserted, withdrawn>>

\* The process ends, by an error of the archive's output stream, which has no
\* listener, or for another reason.
ExitDuringBackup ==
    /\ Fault
    /\ job' = [j \in Jobs |-> Idle]
    /\ UNCHANGED <<table, catalogue, archives, partial, made, inserted, withdrawn>>

-----------------------------------------------------------------------------
Next ==
    \/ \E j \in Jobs :
          \/ CreateFullBackup(j) \/ BackupComponents(j) \/ CreateZipArchive(j)
          \/ CleanUpFailedBackup(j)
          \/ SaveBackupInfo(j) \/ SaveFails(j) \/ CleanupOldBackups(j)
          \/ DeleteRequest(j) \/ SelectBackup(j) \/ RemoveFile(j) \/ RemoveRow(j)
          \/ DeleteFails(j)
    \/ InstantBackup
    \/ ExitDuringBackup

Spec == Init /\ [][Next]_vars

-----------------------------------------------------------------------------
\* A full backup that listBackups lists with all five components
\* (backupService.ts:576-579) has an archive that holds them, but for one whose
\* row is about to be deleted, and for those a fault left: a component that
\* failed, a deletion that ended between the archive and the row (:630-633), or,
\* when the process exits, as many deletions as were in flight.
RowHasFile ==
    table = "migration" =>
        Cardinality({b \in ToSet(catalogue) \ (archives \ partial) :
                        \A j \in Jobs : ~(job[j].at = "row" /\ Doomed(j) = b)})
            <= Cardinality(Jobs) * backupFaults

\* The newest MAX_BACKUPS rows (backupService.ts:648-658) are never deleted but
\* by the owner, although the requests that clean up overlap with others that
\* insert and delete.
NewestKept ==
    \A i \in DOMAIN inserted :
        i > Len(inserted) - MaxKept => inserted[i] \in ToSet(catalogue) \cup withdrawn
=============================================================================
