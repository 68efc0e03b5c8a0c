---------------------------- MODULE InstantBackup ----------------------------
(***************************************************************************)
(* The instant backup: an archive put together in memory and streamed to   *)
(* the owner.  Its parts are a dump of the database, the keys of Redis,    *)
(* the configuration and the schema; a part that fails is left out, while  *)
(* the metadata name all four.                                             *)
(*                                                                         *)
(* The dump selects one table after the other, in the order of their       *)
(* names, each by a statement of its own, while the program goes on        *)
(* writing.  Many tables refer to users, and the names of all of them come *)
(* before that one, byte by byte, as PostgreSQL orders the type name: also *)
(* those of the migrations, of which only vulnerability_scans and          *)
(* waf_blocks come after it and refer to no table.  The program deletes    *)
(* rows of those tables, and never a user.                                 *)
(***************************************************************************)
EXTENDS Naturals, Sequences, SequencesExt, FiniteSets

CONSTANTS
    Tables,         \* the tables that refer to users, in the order of their names
    Users,          \* the users there can be
    DumpFaults      \* bound on failing commands and process exits

VARIABLES
    users,          \* the rows of users
    rows,           \* for each other table, the users its rows refer to
    reading,        \* which part the backup is at: 0 for no backup, then the
                    \* tables in turn, and the three other parts
    dump,           \* the rows selected so far
    parts,          \* the parts the archive holds
    dumpFaults      \* history: faults so far

vars == <<users, rows, reading, dump, parts, dumpFaults>>

\* pg_tables ordered by name.
TableOrder == Append(Tables, "users")
OtherParts == <<"redis", "config", "schema">>
Empty == [t \in ToSet(TableOrder) |-> {}]
Contents(t) == IF t = "users" THEN users ELSE rows[t]

TypeOK ==
    /\ users \subseteq Users
    /\ rows \in [ToSet(Tables) -> SUBSET users]
    /\ reading \in 0..(Len(TableOrder) + Len(OtherParts))
    /\ dump \in [ToSet(TableOrder) -> SUBSET Users]
    /\ parts \subseteq {"database"} \cup ToSet(OtherParts)
    /\ dumpFaults \in 0..DumpFaults

Init ==
    /\ users = {}
    /\ rows = [t \in ToSet(Tables) |-> {}]
    /\ reading = 0
    /\ dump = Empty
    /\ parts = {}
    /\ dumpFaults = 0

Fault == dumpFaults < DumpFaults /\ dumpFaults' = dumpFaults + 1

-----------------------------------------------------------------------------
\* The program writes, whatever the backup is at.
RegisterUser ==
    /\ \E u \in Users \ users : users' = users \cup {u}
    /\ UNCHANGED <<rows, reading, dump, parts, dumpFaults>>

InsertRow ==
    /\ \E t \in ToSet(Tables), u \in users : rows' = [rows EXCEPT ![t] = @ \cup {u}]
    /\ UNCHANGED <<users, reading, dump, parts, dumpFaults>>

DeleteRow ==
    /\ \E t \in ToSet(Tables) : \E u \in rows[t] : rows' = [rows EXCEPT ![t] = @ \ {u}]
    /\ UNCHANGED <<users, reading, dump, parts, dumpFaults>>

-----------------------------------------------------------------------------
CreateInstantBackup ==
    /\ reading = 0
    /\ reading' = 1
    /\ dump' = Empty
    /\ parts' = {}
    /\ UNCHANGED <<users, rows, dumpFaults>>

\* Mutant of GetDatabaseDump: the tables are read the other way round, users
\* first.
GetDatabaseDumpReversed ==
    LET t == Reverse(TableOrder)[reading]
    IN  /\ reading \in DOMAIN TableOrder
        /\ dump' = [dump EXCEPT ![t] = Contents(t)]
        /\ parts' = IF reading = Len(TableOrder) THEN {"database"} ELSE {}
        /\ reading' = reading + 1
        /\ UNCHANGED <<users, rows, dumpFaults>>

\* One table of getDatabaseDump; after the last the dump is added to the archive.
GetDatabaseDump ==
    LET t == TableOrder[reading]
    IN  /\ reading \in DOMAIN TableOrder
        /\ dump' = [dump EXCEPT ![t] = Contents(t)]
        /\ parts' = IF reading = Len(TableOrder) THEN {"database"} ELSE {}
        /\ reading' = reading + 1
        /\ UNCHANGED <<users, rows, dumpFaults>>

\* A table cannot be read: the dump is NULL, and the other parts follow.
DumpIsNull ==
    /\ Fault
    /\ reading \in DOMAIN TableOrder
    /\ dump' = Empty
    /\ reading' = Len(TableOrder) + 1
    /\ UNCHANGED <<users, rows, parts>>

OtherPart == reading - Len(TableOrder)
NextPart == reading' = IF OtherPart = Len(OtherParts) THEN 0 ELSE reading + 1

\* getRedisData, getConfigData and getDatabaseSchema; with the last of them the
\* archive is complete.
AddPart ==
    /\ OtherPart \in DOMAIN OtherParts
    /\ parts' = parts \cup {OtherParts[OtherPart]}
    /\ NextPart
    /\ UNCHANGED <<users, rows, dump, dumpFaults>>

PartIsNull ==
    /\ Fault
    /\ OtherPart \in DOMAIN OtherParts
    /\ OtherParts[OtherPart] # "config"
    /\ NextPart
    /\ UNCHANGED <<users, rows, dump, parts>>

\* The process ends while the archive is being made.
ExitDuringDump ==
    /\ Fault
    /\ reading > 0
    /\ reading' = 0
    /\ dump' = Empty
    /\ parts' = {}
    /\ UNCHANGED <<users, rows>>

Next ==
    \/ RegisterUser \/ InsertRow \/ DeleteRow
    \/ CreateInstantBackup \/ GetDatabaseDump \/ DumpIsNull
    \/ AddPart \/ PartIsNull \/ ExitDuringDump

Spec == Init /\ [][Next]_vars

-----------------------------------------------------------------------------
\* Although the tables of a dump are read at different times
\* (backupService.ts:138-151), every row of it refers to a user of it.
DumpIsClosed ==
    "database" \in parts => \A t \in ToSet(Tables) : dump[t] \subseteq dump["users"]
=============================================================================
