------------------------------ MODULE TwoFactor ------------------------------
(***************************************************************************)
(* Two-factor authentication of one account: its row of user_2fa_settings, *)
(* and the requests that work on it.  Every list of backup codes that was  *)
(* handed to the user is a generation, numbered in the order of the        *)
(* statements that stored them.                                            *)
(*                                                                         *)
(* A backup code is used by reading the list, and writing back what is     *)
(* left of it; a token is checked against the secret read by an earlier    *)
(* statement.  verifyBackupCode is an operation of the service that no     *)
(* route calls yet.                                                        *)
(***************************************************************************)
EXTENDS Naturals, FiniteSets, Combinatorics

CONSTANTS
    Uses,           \* requests in flight at once
    NCodes,         \* how many backup codes a list has
    MaxLists        \* bound on the lists handed out

VARIABLES
    newest,         \* the number of lists stored so far
    enabled,        \* the column of that name
    backupCodes,    \* the stored list: its generation, 0 for no row, and its size
    use,            \* each request: what it does next, and the list it read
    accepted,       \* history: backup codes accepted of each generation
    overtaken       \* history: a code was being used when the newest list was stored

vars == <<newest, enabled, backupCodes, use, accepted, overtaken>>

List == [gen : 0..MaxLists, left : 0..NCodes]
NoList == [gen |-> 0, left |-> 0]
Idle == [at |-> "idle", list |-> NoList]

TypeOK ==
    /\ newest \in 0..MaxLists
    /\ enabled \in BOOLEAN
    /\ backupCodes \in List
    /\ use \in [Uses -> [at : {"idle", "enable", "disable", "accept"}, list : List]]
    /\ accepted \in [0..MaxLists -> Nat]
    /\ overtaken \in BOOLEAN

Init ==
    /\ newest = 0
    /\ enabled = FALSE
    /\ backupCodes = NoList
    /\ use = [u \in Uses |-> Idle]
    /\ accepted = [g \in 0..MaxLists |-> 0]
    /\ overtaken = FALSE

HasRow == backupCodes.gen > 0

Begin(u, step, list) ==
    /\ use[u].at = "idle"
    /\ use' = [use EXCEPT ![u] = [at |-> step, list |-> list]]
End(u) == use' = [use EXCEPT ![u] = Idle]

\* generateBackupCodes, and the statement that stores them.
StoreNewList ==
    /\ newest < MaxLists
    /\ newest' = newest + 1
    /\ backupCodes' = [gen |-> newest + 1, left |-> NCodes]
    /\ overtaken' = \E u \in Uses : use[u].at = "accept"

-----------------------------------------------------------------------------
\* generateSecret: one statement inserts the row, not enabled, or replaces its
\* secret and codes and leaves enabled as it is.
GenerateSecret ==
    /\ StoreNewList
    /\ UNCHANGED <<enabled, use, accepted>>

\* enable2FA reads the secret; without a row it throws, and a token that does
\* not fit answers FALSE.
CheckSecret(u) ==
    /\ HasRow
    /\ Begin(u, "enable", NoList)
    /\ UNCHANGED <<newest, enabled, backupCodes, accepted, overtaken>>

Enable(u) ==
    /\ use[u].at = "enable"
    /\ enabled' = TRUE
    /\ End(u)
    /\ UNCHANGED <<newest, backupCodes, accepted, overtaken>>

\* disable2FA after verifyToken, which answers TRUE when it finds no enabled row.
CheckToken(u) ==
    /\ Begin(u, "disable", NoList)
    /\ UNCHANGED <<newest, enabled, backupCodes, accepted, overtaken>>

Disable(u) ==
    /\ use[u].at = "disable"
    /\ enabled' = FALSE
    /\ End(u)
    /\ UNCHANGED <<newest, backupCodes, accepted, overtaken>>

\* verifyBackupCode reads the list of an enabled row, and finds the code in it.
ReadBackupCodes(u) ==
    /\ HasRow /\ enabled
    /\ backupCodes.left > 0
    /\ Begin(u, "accept", backupCodes)
    /\ UNCHANGED <<newest, enabled, backupCodes, accepted, overtaken>>

\* Mutant of RemoveBackupCode: the list is written back with the code in it.
RemoveNothing(u) ==
    /\ use[u].at = "accept"
    /\ backupCodes' = use[u].list
    /\ accepted' = [accepted EXCEPT ![use[u].list.gen] = @ + 1]
    /\ End(u)
    /\ UNCHANGED <<newest, enabled, overtaken>>

\* It writes the list it read, less the code, over whatever is there by now.
RemoveBackupCode(u) ==
    /\ use[u].at = "accept"
    /\ backupCodes' = [use[u].list EXCEPT !.left = @ - 1]
    /\ accepted' = [accepted EXCEPT ![use[u].list.gen] = @ + 1]
    /\ End(u)
    /\ UNCHANGED <<newest, enabled, overtaken>>

\* Mutant of RegenerateBackupCodes: only an enabled row is updated, and the new
\* codes are handed out all the same.
RegenerateEnabledOnly ==
    /\ HasRow
    /\ newest < MaxLists
    /\ newest' = newest + 1
    /\ backupCodes' = IF enabled THEN [gen |-> newest + 1, left |-> NCodes] ELSE backupCodes
    /\ overtaken' = \E u \in Uses : use[u].at = "accept"
    /\ UNCHANGED <<enabled, use, accepted>>

\* regenerateBackupCodes; without a row the statement changes nothing.
RegenerateBackupCodes ==
    /\ HasRow
    /\ StoreNewList
    /\ UNCHANGED <<enabled, use, accepted>>

\* A statement throws, or the process ends: the request has no further effect.
Abort(u) ==
    /\ use[u].at # "idle"
    /\ End(u)
    /\ UNCHANGED <<newest, enabled, backupCodes, accepted, overtaken>>

-----------------------------------------------------------------------------
Next ==
    \/ GenerateSecret \/ RegenerateBackupCodes
    \/ \E u \in Uses :
          \/ CheckSecret(u) \/ Enable(u)
          \/ CheckToken(u) \/ Disable(u)
          \/ ReadBackupCodes(u) \/ RemoveBackupCode(u)
          \/ Abort(u)

Spec == Init /\ [][Next]_vars

-----------------------------------------------------------------------------
\* A list of n backup codes is good for n uses when they come one at a time
\* (twoFactorAuthService.ts:183-212); a use that was overtaken by others restores
\* the codes they removed, so with k at a time up to the number below.
AcceptedBound ==
    LET k == Cardinality(Uses)
    IN  \A g \in 1..MaxLists : accepted[g] < choose(NCodes + k, k)

\* The list that is stored is the newest one handed out, unless a code of an
\* older list was being used when the newest was stored: that use writes the
\* older list back.
RegenerationSticks == backupCodes.gen # newest => overtaken
=============================================================================
