---------------------------- MODULE ServicesProofs ----------------------------
(***************************************************************************)
(* Proofs about eight of the components of MCServices, for any number of   *)
(* requests, alerts, users, codes, backups, products and checks.  Each has *)
(* an invariant of its own, kept by its steps; the steps of the others     *)
(* leave its variables alone.  In order: owner mode, the codes of the      *)
(* second factor, the dump, the price history, the catalogue of backups,   *)
(* the favorites, the security monitoring and, over Pascal's triangle, the *)
(* uses of a list of codes and the wrong codes of the verification.        *)
(***************************************************************************)
EXTENDS MCServices, SequenceTheorems, FiniteSetTheorems, WellFoundedInduction, TLAPS

-----------------------------------------------------------------------------
(***************************************************************************)
(* Owner mode.                                                             *)
(***************************************************************************)
\* Nothing is known of an id before it is given out; and after an answered
\* deactivation, unless excused, there is neither a session nor an extension that
\* could bring it back.
OwnerInv ==
    /\ call \in [Calls -> Owner!Step]
    /\ session # 0 \/ ended \/ (\E c \in Calls : call[c] # "idle") => activated
    /\ ended /\ ~excused => session = 0 /\ ~Owner!Extending

LEMMA OwnerInit == Init => OwnerInv
  BY DEF Init, Owner!Init, OwnerInv, Owner!Step, Owner!Extending

LEMMA OwnerStep == ASSUME OwnerInv, Owner!Next PROVE OwnerInv'
<1> USE DEF OwnerInv, Owner!Extending
<1>1. CASE Owner!ActivateOwnerMode
  BY <1>1 DEF Owner!ActivateOwnerMode, Owner!Store
<1>2. CASE Owner!Tick
  BY <1>2 DEF Owner!Tick
<1>3. ASSUME NEW c \in Calls, Owner!ValidateOwnerSession(c) PROVE OwnerInv'
  BY <1>3 DEF Owner!ValidateOwnerSession, Owner!Goto, Owner!Step, Owner!Live
<1>4. ASSUME NEW c \in Calls, Owner!ReadSession(c) PROVE OwnerInv'
  BY <1>4 DEF Owner!ReadSession, Owner!Goto, Owner!Step, Owner!Live
<1>5. ASSUME NEW c \in Calls, Owner!Route(c) PROVE OwnerInv'
  BY <1>5 DEF Owner!Route, Owner!Goto, Owner!Step
<1>6. ASSUME NEW c \in Calls, Owner!ExtendSession(c) PROVE OwnerInv'
  BY <1>6 DEF Owner!ExtendSession, Owner!Goto, Owner!Step, Owner!Store
<1>7. ASSUME NEW c \in Calls, Owner!LookUp(c) \/ Owner!Audit(c) PROVE OwnerInv'
  BY <1>7 DEF Owner!LookUp, Owner!Audit, Owner!Goto, Owner!Step
<1>8. ASSUME NEW c \in Calls, Owner!Delete(c) PROVE OwnerInv'
  BY <1>8 DEF Owner!Delete, Owner!Goto, Owner!Step
<1>9. ASSUME NEW c \in Calls, Owner!Swallow(c) \/ Owner!Abort(c) PROVE OwnerInv'
  BY <1>9 DEF Owner!Swallow, Owner!Abort, Owner!Goto, Owner!Step
<1> QED
  BY <1>1, <1>2, <1>3, <1>4, <1>5, <1>6, <1>7, <1>8, <1>9 DEF Owner!Next, Owner!CallStep

\* A session whose deactivation was answered success grants no request any more,
\* but for a failed command or an extension under way (ownerModeService.ts:181-206).
THEOREM DeactivationHolds == Spec => []DeactivationSticks
<1>1. OwnerInv /\ [Next]_vars => OwnerInv'
  <2> SUFFICES ASSUME OwnerInv, [Next]_vars PROVE OwnerInv'
    OBVIOUS
  <2>1. CASE Owner!Next
    BY <2>1, OwnerStep
  <2>2. CASE UNCHANGED ownerVars
    BY <2>2 DEF OwnerInv, ownerVars, Owner!Extending
  <2> QED
    BY <2>1, <2>2 DEF Next, vars
<1>2. OwnerInv => DeactivationSticks
  BY DEF OwnerInv, DeactivationSticks, Owner!DeactivationSticks
<1> QED
  BY OwnerInit, <1>1, <1>2, PTL DEF Spec

-----------------------------------------------------------------------------
(***************************************************************************)
(* Two-factor authentication.                                              *)
(***************************************************************************)
\* Unless a use was overtaken, the stored list and those held by uses under way
\* are of the newest generation.
FactorInv ==
    /\ newest \in Nat
    /\ backupCodes \in [gen : Nat, left : Nat]
    /\ use \in [Uses -> [at : {"idle", "enable", "disable", "accept"},
                         list : [gen : Nat, left : Nat]]]
    /\ \A u \in Uses : use[u].at = "accept" => use[u].list.left > 0
    /\ ~overtaken =>
          /\ backupCodes.gen = newest
          /\ \A u \in Uses : use[u].at = "accept" => use[u].list.gen = newest

LEMMA FactorInit == Init => FactorInv
  BY DEF Init, Factor!Init, FactorInv, Factor!Idle, Factor!NoList

\* A request that comes to a step without a list changes nothing else of it.
LEMMA FactorMoves ==
    ASSUME FactorInv, NEW u \in Uses, NEW step \in {"idle", "enable", "disable"},
           use' = [use EXCEPT ![u] = [at |-> step, list |-> Factor!NoList]],
           UNCHANGED <<newest, backupCodes, overtaken>>
    PROVE  FactorInv'
<1>1. [at |-> step, list |-> Factor!NoList] \in
        [at : {"idle", "enable", "disable", "accept"}, list : [gen : Nat, left : Nat]]
  BY DEF Factor!NoList
<1>2. /\ use' \in [Uses -> [at : {"idle", "enable", "disable", "accept"},
                           list : [gen : Nat, left : Nat]]]
      /\ \A v \in Uses : use'[v].at = "accept" => use'[v] = use[v]
  BY <1>1 DEF FactorInv
<1> QED
  BY <1>2 DEF FactorInv

LEMMA FactorStep == ASSUME FactorInv, Factor!Next PROVE FactorInv'
<1> USE ServicesAssumption DEF FactorInv, Factor!Begin, Factor!End, Factor!Idle, Factor!NoList
<1>1. CASE Factor!GenerateSecret
  BY <1>1 DEF Factor!GenerateSecret, Factor!StoreNewList
<1>2. CASE Factor!RegenerateBackupCodes
  BY <1>2 DEF Factor!RegenerateBackupCodes, Factor!StoreNewList
<1>3. ASSUME NEW u \in Uses, Factor!CheckSecret(u) \/ Factor!CheckToken(u) PROVE FactorInv'
  <2>1. PICK step \in {"enable", "disable"} :
            use' = [use EXCEPT ![u] = [at |-> step, list |-> Factor!NoList]]
    BY <1>3 DEF Factor!CheckSecret, Factor!CheckToken
  <2>2. UNCHANGED <<newest, backupCodes, overtaken>>
    BY <1>3 DEF Factor!CheckSecret, Factor!CheckToken
  <2> QED
    BY <2>1, <2>2, FactorMoves
<1>4. ASSUME NEW u \in Uses, Factor!Enable(u) \/ Factor!Disable(u) \/ Factor!Abort(u)
      PROVE  FactorInv'
  <2>1. use' = [use EXCEPT ![u] = Factor!Idle] /\ UNCHANGED <<newest, backupCodes, overtaken>>
    BY <1>4 DEF Factor!Enable, Factor!Disable, Factor!Abort
  <2> QED
    BY <2>1, FactorMoves
<1>5. ASSUME NEW u \in Uses, Factor!ReadBackupCodes(u) PROVE FactorInv'
  BY <1>5 DEF Factor!ReadBackupCodes
<1>6. ASSUME NEW u \in Uses, Factor!RemoveBackupCode(u) PROVE FactorInv'
  <2>1. /\ use[u].at = "accept"
        /\ use' = [use EXCEPT ![u] = Factor!Idle]
        /\ backupCodes' = [use[u].list EXCEPT !.left = @ - 1]
        /\ UNCHANGED <<newest, overtaken>>
    BY <1>6 DEF Factor!RemoveBackupCode
  <2>2. use[u].list \in [gen : Nat, left : Nat] /\ use[u].list.left > 0
    BY <2>1
  <2>3. /\ backupCodes' \in [gen : Nat, left : Nat]
        /\ backupCodes'.gen = use[u].list.gen
    BY <2>1, <2>2
  <2> QED
    BY <2>1, <2>2, <2>3
<1> QED
  BY <1>1, <1>2, <1>3, <1>4, <1>5, <1>6 DEF Factor!Next

\* The stored list of backup codes is the newest one handed out, unless a use was
\* under way when that was stored (twoFactorAuthService.ts:183-212).
THEOREM RegenerationHolds == Spec => []RegenerationSticks
<1>1. FactorInv /\ [Next]_vars => FactorInv'
  <2> SUFFICES ASSUME FactorInv, [Next]_vars PROVE FactorInv'
    OBVIOUS
  <2>1. CASE Factor!Next
    BY <2>1, FactorStep
  <2>2. CASE UNCHANGED factorVars
    BY <2>2 DEF FactorInv, factorVars
  <2> QED
    BY <2>1, <2>2 DEF Next, vars
<1>2. FactorInv => RegenerationSticks
  BY DEF FactorInv, RegenerationSticks, Factor!RegenerationSticks
<1> QED
  BY FactorInit, <1>1, <1>2, PTL DEF Spec

-----------------------------------------------------------------------------
(***************************************************************************)
(* The instant backup.                                                     *)
(***************************************************************************)
Referring == {"favorites", "user_sessions"}

LEMMA AppendThird ==
  ASSUME NEW x, NEW y, NEW z
  PROVE  Append(<<x, y>>, z) = <<x, y, z>>
<1>1. <<x, y>> \in Seq({x, y, z}) /\ <<x, y, z>> \in Seq({x, y, z})
  OBVIOUS
<1>2. Len(<<x, y>>) = 2 /\ Len(<<x, y, z>>) = 3
  OBVIOUS
<1>3. /\ Append(<<x, y>>, z) \in Seq({x, y, z})
      /\ Len(Append(<<x, y>>, z)) = 3
      /\ \A i \in 1..2 : Append(<<x, y>>, z)[i] = <<x, y>>[i]
      /\ Append(<<x, y>>, z)[3] = z
  BY <1>1, <1>2, AppendProperties
<1>4. \A i \in 1..3 : Append(<<x, y>>, z)[i] = <<x, y, z>>[i]
  BY <1>3
<1> QED
  BY <1>1, <1>2, <1>3, <1>4, SeqEqual

LEMMA TheTables ==
  /\ Dump!TableOrder = <<"favorites", "user_sessions", "users">>
  /\ Dump!ToSet(<<"favorites", "user_sessions">>) = Referring
  /\ Dump!ToSet(Dump!TableOrder) = Referring \cup {"users"}
<1>1. Dump!TableOrder = <<"favorites", "user_sessions", "users">>
  <2>1. Dump!TableOrder = Append(<<"favorites", "user_sessions">>, "users")
    BY DEF Dump!TableOrder
  <2> QED
    BY <2>1, AppendThird
<1>2. ASSUME NEW x, NEW y PROVE Dump!ToSet(<<x, y>>) = {x, y}
  <2>1. DOMAIN <<x, y>> = {1, 2}
    OBVIOUS
  <2> QED
    BY <2>1 DEF Dump!ToSet
<1>3. ASSUME NEW x, NEW y, NEW z PROVE Dump!ToSet(<<x, y, z>>) = {x, y, z}
  <2>1. DOMAIN <<x, y, z>> = {1, 2, 3}
    OBVIOUS
  <2> QED
    BY <2>1 DEF Dump!ToSet
<1> QED
  BY <1>1, <1>2, <1>3 DEF Referring

\* Since users stay, whatever was selected before them refers to users that are
\* still there when theirs is the table to select.
DumpInv ==
    /\ DOMAIN rows = Referring
    /\ DOMAIN dump = Referring \cup {"users"}
    /\ \A t \in Referring :
          /\ rows[t] \subseteq users
          /\ dump[t] \subseteq users
          /\ "database" \in parts => dump[t] \subseteq dump["users"]

LEMMA DumpInit == Init => DumpInv
  BY TheTables DEF Init, Dump!Init, DumpInv, Dump!Empty, Referring

LEMMA DumpStep == ASSUME DumpInv, Dump!Next PROVE DumpInv'
<1>1. CASE Dump!RegisterUser
  BY <1>1 DEF DumpInv, Dump!RegisterUser
<1>2. CASE Dump!InsertRow \/ Dump!DeleteRow
  BY <1>2, TheTables DEF DumpInv, Dump!InsertRow, Dump!DeleteRow
<1>3. CASE Dump!CreateInstantBackup \/ Dump!ExitDuringDump \/ Dump!DumpIsNull
  BY <1>3, TheTables DEF DumpInv, Dump!CreateInstantBackup, Dump!ExitDuringDump,
     Dump!DumpIsNull, Dump!Empty
<1>4. CASE Dump!GetDatabaseDump
  <2>1. PICK i \in {1, 2, 3} : i = reading
    BY <1>4, TheTables DEF Dump!GetDatabaseDump
  <2>2. /\ dump' = [dump EXCEPT ![Dump!TableOrder[i]] = Dump!Contents(Dump!TableOrder[i])]
        /\ parts' = IF i = 3 THEN {"database"} ELSE {}
        /\ UNCHANGED <<users, rows>>
    BY <1>4, <2>1, TheTables DEF Dump!GetDatabaseDump
  <2>3. CASE i = 3
    BY <2>2, <2>3, TheTables DEF DumpInv, Referring, Dump!Contents
  <2>4. CASE i \in {1, 2}
    BY <2>2, <2>4, TheTables DEF DumpInv, Referring, Dump!Contents
  <2> QED
    BY <2>1, <2>3, <2>4
<1>5. CASE Dump!AddPart \/ Dump!PartIsNull
  <2>1. "database" \in parts' => "database" \in parts
    BY <1>5 DEF Dump!AddPart, Dump!PartIsNull, Dump!OtherParts, Dump!OtherPart
  <2> QED
    BY <1>5, <2>1 DEF DumpInv, Dump!AddPart, Dump!PartIsNull
<1> QED
  BY <1>1, <1>2, <1>3, <1>4, <1>5 DEF Dump!Next

\* Every row of a dump refers to a user of it, although its tables are selected
\* one after the other (backupService.ts:138-151).
THEOREM DumpHolds == Spec => []DumpIsClosed
<1>1. DumpInv /\ [Next]_vars => DumpInv'
  <2> SUFFICES ASSUME DumpInv, [Next]_vars PROVE DumpInv'
    OBVIOUS
  <2>1. CASE Dump!Next
    BY <2>1, DumpStep
  <2>2. CASE UNCHANGED dumpVars
    BY <2>2 DEF DumpInv, dumpVars
  <2> QED
    BY <2>1, <2>2 DEF Next, vars
<1>2. DumpInv => DumpIsClosed
  BY TheTables DEF DumpInv, DumpIsClosed, Dump!DumpIsClosed
<1> QED
  BY DumpInit, <1>1, <1>2, PTL DEF Spec

-----------------------------------------------------------------------------
(***************************************************************************)
(* The price history.                                                      *)
(***************************************************************************)
\* A price that was selected and is no longer the price has not been recorded
\* since the price changed.
HistoryInv ==
    /\ price \in [Tracked -> Prices]
    /\ lag \in [Tracked -> {0, 1}]
    /\ collecting.todo \subseteq Tracked
    /\ \A a \in collecting.todo : collecting.seen[a] # price[a] => lag[a] = 0

LEMMA HistoryInit == Init => HistoryInv
  BY DEF Init, History!Init, HistoryInv, History!Idle

LEMMA HistoryStep == ASSUME HistoryInv, History!Next PROVE HistoryInv'
<1> USE DEF HistoryInv
<1>1. CASE History!CheckPrices \/ History!FinishCheck
  BY <1>1 DEF History!CheckPrices, History!FinishCheck
<1>2. ASSUME NEW a \in Tracked, History!FindPrice(a) PROVE HistoryInv'
  BY <1>2 DEF History!FindPrice
<1>3. ASSUME NEW a \in Tracked, History!RecordFound(a) \/ History!TurnFails(a) PROVE HistoryInv'
  BY <1>3 DEF History!RecordFound, History!TurnFails
<1>4. CASE History!CollectPriceHistory
  BY <1>4 DEF History!CollectPriceHistory, History!Select
<1>5. ASSUME NEW a \in Tracked, History!RecordCollected(a) PROVE HistoryInv'
  BY <1>5 DEF History!RecordCollected
<1>6. CASE History!CleanOldHistory
  BY <1>6 DEF History!CleanOldHistory, History!Idle
<1>7. ASSUME NEW a \in Tracked, History!CollectFails(a) PROVE HistoryInv'
  BY <1>7 DEF History!CollectFails
<1>8. CASE History!PostPrice \/ History!DeactivateAlert
  BY <1>8 DEF History!PostPrice, History!DeactivateAlert
<1>9. CASE History!ExitOfJobs
  BY <1>9 DEF History!ExitOfJobs, History!Idle
<1> QED
  BY <1>1, <1>2, <1>3, <1>4, <1>5, <1>6, <1>7, <1>8, <1>9
  DEF History!Next, History!CheckStep, History!CollectStep

\* The history job puts at most one entry that is no longer the price between two
\* changes of it (priceHistoryJob.ts:45-60).
THEOREM LagHolds == Spec => []LagBound
<1>1. HistoryInv /\ [Next]_vars => HistoryInv'
  <2> SUFFICES ASSUME HistoryInv, [Next]_vars PROVE HistoryInv'
    OBVIOUS
  <2>1. CASE History!Next
    BY <2>1, HistoryStep
  <2>2. CASE UNCHANGED historyVars
    BY <2>2 DEF HistoryInv, historyVars
  <2> QED
    BY <2>1, <2>2 DEF Next, vars
<1>2. HistoryInv => LagBound
  BY DEF HistoryInv, LagBound, History!LagBound
<1> QED
  BY HistoryInit, <1>1, <1>2, PTL DEF Spec

-----------------------------------------------------------------------------
(***************************************************************************)
(* Pages.                                                                  *)
(***************************************************************************)
LEMMA ParsedLimit ==
  ASSUME NEW value
  PROVE  Favorite!ParseLimit(value) \in 1..Favorite!MaxLimit
  BY DEF Favorite!ParseLimit, Favorite!MaxLimit, Favorite!DefaultLimit, Favorite!Smaller,
     Favorite!Larger

\* The page of a row: dividing by the limit, and one page further for the rest.
LEMMA PageOfRow ==
  ASSUME NEW limit \in Nat \ {0}, NEW i \in Nat, NEW page \in Nat \ {0}
  PROVE  page = (i \div limit) + 1 <=>
           Favorite!Offset(page, limit) <= i /\ i < Favorite!Offset(page, limit) + limit
<1> DEFINE q == i \div limit
<1>1. q \in Nat /\ q * limit <= i /\ i < q * limit + limit
  BY Z3
<1>2. Favorite!Offset(page, limit) = (page - 1) * limit
  BY DEF Favorite!Offset
<1>3. CASE page - 1 = q
  BY <1>1, <1>2, <1>3
<1>4. CASE page - 1 < q
  <2>1. (page - 1) * limit + limit <= q * limit
    BY <1>1, <1>4
  <2> QED
    BY <1>1, <1>2, <1>4, <2>1
<1>5. CASE page - 1 > q
  <2>1. q * limit + limit <= (page - 1) * limit
    BY <1>1, <1>5
  <2> QED
    BY <1>1, <1>2, <1>5, <2>1
<1> QED
  BY <1>1, <1>3, <1>4, <1>5

LEMMA PageExists ==
  ASSUME NEW limit \in Nat \ {0}, NEW total \in Nat, NEW i \in 0..(total - 1)
  PROVE  (i \div limit) + 1 \in 1..Favorite!TotalPages(total, limit)
<1> DEFINE q == i \div limit
           n == (total + limit - 1) \div limit
<1>1. q \in Nat /\ q * limit <= i /\ i < q * limit + limit
  BY Z3
<1>2. n \in Nat /\ n * limit <= total + limit - 1 /\ total + limit - 1 < n * limit + limit
  <2> DEFINE m == total + limit - 1
  <2>1. m \in Nat
    OBVIOUS
  <2>2. m \div limit \in Nat /\ (m \div limit) * limit <= m /\ m < (m \div limit) * limit + limit
    <3> HIDE DEF m
    <3> QED
      BY <2>1, Z3
  <2> QED
    BY <2>1, <2>2
<1>3. q < n
  <2> SUFFICES ASSUME q >= n PROVE FALSE
    BY <1>1, <1>2
  <2>1. n * limit <= q * limit
    BY <1>1, <1>2
  <2> QED
    BY <1>1, <1>2, <2>1
<1> QED
  BY <1>1, <1>2, <1>3 DEF Favorite!TotalPages

\* Whatever limit a query asks for, the pages there are hold every row of a list
\* that does not change, and each row once (pagination.ts:22-48).
THEOREM PagesPartition ==
  ASSUME NEW value, NEW total \in Nat, NEW i \in 0..(total - 1)
  PROVE  LET limit == Favorite!ParseLimit(value)
             Holds(page) == i \in Favorite!PageRows(page, total, limit)
         IN  \E page \in 1..Favorite!TotalPages(total, limit) :
               /\ Holds(page)
               /\ \A other \in Nat \ {0} : Holds(other) => other = page
<1> DEFINE limit == Favorite!ParseLimit(value)
           found == (i \div limit) + 1
<1>1. limit \in Nat \ {0}
  BY ParsedLimit DEF Favorite!MaxLimit
<1> HIDE DEF limit
<1>2. found \in 1..Favorite!TotalPages(total, limit)
  BY <1>1, PageExists
<1>3. i \in Nat /\ found \in Nat \ {0}
  <2>1. i \in Nat
    OBVIOUS
  <2>2. i \div limit \in Nat
    BY <1>1, <2>1, Z3
  <2> QED
    BY <2>1, <2>2
<1>4. i \in Favorite!PageRows(found, total, limit)
  <2>1. Favorite!Offset(found, limit) <= i /\ i < Favorite!Offset(found, limit) + limit
    <3> HIDE DEF found
    <3>1. found = (i \div limit) + 1
      BY DEF found
    <3> QED
      BY <1>1, <1>3, <3>1, PageOfRow
  <2> QED
    BY <2>1 DEF Favorite!PageRows
<1>5. ASSUME NEW other \in Nat \ {0}, i \in Favorite!PageRows(other, total, limit)
      PROVE  other = found
  <2>1. Favorite!Offset(other, limit) <= i /\ i < Favorite!Offset(other, limit) + limit
    BY <1>5 DEF Favorite!PageRows
  <2> QED
    BY <1>1, <1>3, <2>1, PageOfRow
<1> QED
  BY <1>2, <1>3, <1>4, <1>5 DEF limit

-----------------------------------------------------------------------------
(***************************************************************************)
(* The catalogue of backups.                                               *)
(***************************************************************************)
\* A sequence without its i-th element.
LEMMA WithoutOne ==
  ASSUME NEW S, NEW s \in Seq(S), NEW i \in 1..Len(s)
  PROVE  LET t == SubSeq(s, 1, i - 1) \o SubSeq(s, i + 1, Len(s))
         IN  /\ t \in Seq(S)
             /\ Len(t) = Len(s) - 1
             /\ \A k \in 1..(Len(s) - 1) : t[k] = IF k < i THEN s[k] ELSE s[k + 1]
<1>1. Len(s) \in Nat /\ i \in 1..Len(s) /\ \A k \in 1..Len(s) : s[k] \in S
  BY LenProperties
<1> DEFINE a == SubSeq(s, 1, i - 1)
           b == SubSeq(s, i + 1, Len(s))
<1>2. /\ a \in Seq(S) /\ Len(a) = i - 1
      /\ \A k \in 1..(i - 1) : a[k] = s[k]
  <2>1. /\ a \in Seq(S)
        /\ Len(a) = IF 1 <= i - 1 THEN (i - 1) - 1 + 1 ELSE 0
        /\ \A k \in 1..((i - 1) - 1 + 1) : a[k] = s[1 + k - 1]
    BY <1>1, SubSeqProperties
  <2> HIDE DEF a
  <2> QED
    BY <1>1, <2>1
<1>3. /\ b \in Seq(S) /\ Len(b) = Len(s) - i
      /\ \A k \in 1..(Len(s) - i) : b[k] = s[i + k]
  <2>1. /\ b \in Seq(S)
        /\ Len(b) = IF i + 1 <= Len(s) THEN Len(s) - (i + 1) + 1 ELSE 0
        /\ \A k \in 1..(Len(s) - (i + 1) + 1) : b[k] = s[(i + 1) + k - 1]
    BY <1>1, SubSeqProperties
  <2> HIDE DEF b
  <2> QED
    BY <1>1, <2>1
<1> HIDE DEF a, b
<1>4. /\ a \o b \in Seq(S)
      /\ Len(a \o b) = Len(a) + Len(b)
      /\ \A k \in 1..(Len(a) + Len(b)) :
            (a \o b)[k] = IF k <= Len(a) THEN a[k] ELSE b[k - Len(a)]
  BY <1>2, <1>3, ConcatProperties
<1>5. ASSUME NEW k \in 1..(Len(s) - 1)
      PROVE  (a \o b)[k] = IF k < i THEN s[k] ELSE s[k + 1]
  <2>1. CASE k < i
    BY <1>1, <1>2, <1>3, <1>4, <2>1
  <2>2. CASE ~(k < i)
    <3>1. k - Len(a) \in 1..(Len(s) - i) /\ k \in 1..(Len(a) + Len(b)) /\ ~(k <= Len(a))
      BY <1>1, <1>2, <1>3, <2>2
    <3>2. (a \o b)[k] = b[k - Len(a)] /\ b[k - Len(a)] = s[i + (k - Len(a))]
      BY <1>3, <1>4, <3>1
    <3>3. i + (k - Len(a)) = k + 1
      BY <1>1, <1>2
    <3> QED
      BY <2>2, <3>2, <3>3
  <2> QED
    BY <2>1, <2>2
<1>6. Len(a \o b) = Len(s) - 1
  BY <1>1, <1>2, <1>3, <1>4
<1>7. a \o b = SubSeq(s, 1, i - 1) \o SubSeq(s, i + 1, Len(s))
  BY DEF a, b
<1> QED
  BY <1>4, <1>5, <1>6, <1>7

Making == {"collect", "zip", "save"}
Deleting == {"select", "file", "row"}
BackupRequest == [at : Backup!Step, backup : Nat, doomed : Seq(Nat)]
Rows(s) == {s[i] : i \in DOMAIN s}

\* As many rows were inserted after it as the retention keeps.
Outlived(b) == \A k \in DOMAIN inserted : inserted[k] = b => k <= Len(inserted) - MaxKept

BackupTypes ==
    /\ made \in Nat
    /\ inserted \in Seq(Nat)
    /\ catalogue \in Seq(Nat)
    /\ job \in [Jobs -> BackupRequest]

\* A number names one backup.
Numbered ==
    /\ Rows(inserted) \subseteq 1..made
    /\ Backup!IsInjective(inserted)
    /\ \A j \in Jobs : job[j].at \in Making =>
          /\ job[j].backup \in 1..made
          /\ job[j].backup \notin Rows(inserted)
          /\ \A other \in Jobs \ {j} :
                job[other].at \in Making => job[other].backup # job[j].backup

\* After each row come at least as many of those inserted as of those listed.
Listed ==
    /\ Backup!IsInjective(catalogue)
    /\ \A i \in DOMAIN catalogue : \E k \in DOMAIN inserted :
          inserted[k] = catalogue[i] /\ k + Len(catalogue) - i <= Len(inserted)

\* What is to be deleted is so for the owner, or has been outlived.
DoomedRows ==
    /\ withdrawn \subseteq Rows(inserted)
    /\ \A j \in Jobs :
          /\ job[j].at \in Deleting => job[j].doomed # <<>>
          /\ \A b \in Rows(job[j].doomed) :
                b \in Rows(inserted) /\ (b \in withdrawn \/ Outlived(b))

CatalogueInv ==
    /\ BackupTypes
    /\ Numbered
    /\ Listed
    /\ DoomedRows
    /\ NewestKept

LEMMA RowsAre == \A s : Backup!ToSet(s) = Rows(s)
  BY DEF Backup!ToSet, Rows

LEMMA SeqDomain == ASSUME NEW S, NEW s \in Seq(S)
  PROVE Len(s) \in Nat /\ DOMAIN s = 1..Len(s) /\ \A i \in 1..Len(s) : s[i] \in S
  BY LenProperties

LEMMA BackupGoto ==
  ASSUME BackupTypes, NEW j \in Jobs, NEW step \in Backup!Step, Backup!Goto(j, step)
  PROVE  /\ job' \in [Jobs -> BackupRequest]
         /\ job'[j].at = step /\ job'[j].backup = job[j].backup
         /\ job'[j].doomed = job[j].doomed
         /\ \A other \in Jobs \ {j} : job'[other] = job[other]
  BY DEF BackupTypes, BackupRequest, Backup!Goto

LEMMA BackupDelete ==
  ASSUME BackupTypes, NEW j \in Jobs, NEW rs \in Seq(Nat), Backup!DeleteEach(j, rs)
  PROVE  /\ job' \in [Jobs -> BackupRequest]
         /\ job'[j].at = IF rs = <<>> THEN "idle" ELSE "select"
         /\ job'[j].doomed = rs
         /\ \A other \in Jobs \ {j} : job'[other] = job[other]
<1> DEFINE new == IF rs = <<>> THEN Backup!Idle
                  ELSE [Backup!Idle EXCEPT !.at = "select", !.doomed = rs]
<1>1. job' = [job EXCEPT ![j] = new]
  BY DEF Backup!DeleteEach
<1>2. /\ new \in BackupRequest
      /\ new.at = IF rs = <<>> THEN "idle" ELSE "select"
      /\ new.doomed = rs
  BY EmptySeq DEF Backup!Idle, BackupRequest, Backup!Step
<1> HIDE DEF new
<1> QED
  BY <1>1, <1>2 DEF BackupTypes

\* A request goes on, and the rows stay.
LEMMA RequestMoves ==
  ASSUME CatalogueInv, NEW j \in Jobs, job' \in [Jobs -> BackupRequest],
         \A other \in Jobs \ {j} : job'[other] = job[other],
         made' \in Nat, made' >= made,
         inserted' = inserted, withdrawn \subseteq withdrawn', withdrawn' \subseteq Rows(inserted),
         job'[j].at \in Making =>
            \/ job[j].at \in Making /\ job'[j].backup = job[j].backup
            \/ job'[j].backup = made' /\ made' = made + 1,
         job'[j].at \in Deleting => job'[j].doomed # <<>>,
         \A b \in Rows(job'[j].doomed) :
            b \in Rows(inserted) /\ (b \in withdrawn' \/ Outlived(b))
  PROVE  Numbered' /\ DoomedRows'
<1>1. Rows(inserted') = Rows(inserted) /\ \A b : Outlived(b)' <=> Outlived(b)
  BY DEF Outlived
<1>2. Rows(inserted) \subseteq 1..made' /\ Backup!IsInjective(inserted')
  BY DEF CatalogueInv, BackupTypes, Numbered, Backup!IsInjective
<1>3. ASSUME NEW i \in Jobs, job'[i].at \in Making
      PROVE  /\ job'[i].backup \in 1..made'
             /\ job'[i].backup \notin Rows(inserted)
             /\ \A other \in Jobs \ {i} :
                   job'[other].at \in Making => job'[other].backup # job'[i].backup
  <2>1. ASSUME NEW k \in Jobs, job'[k].at \in Making
        PROVE  \/ job[k].at \in Making /\ job'[k].backup = job[k].backup
               \/ k = j /\ job'[k].backup = made' /\ made' = made + 1
    BY <2>1
  <2>2. ASSUME NEW k \in Jobs, job[k].at \in Making
        PROVE  job[k].backup \in 1..made /\ job[k].backup \notin Rows(inserted)
    BY <2>2 DEF CatalogueInv, Numbered
  <2>3. made \in Nat /\ made + 1 \notin 1..made /\ 1..made \subseteq 1..made'
    BY DEF CatalogueInv, BackupTypes
  <2>4. job'[i].backup \in 1..made' /\ job'[i].backup \notin Rows(inserted)
    <3>1. CASE job[i].at \in Making /\ job'[i].backup = job[i].backup
      BY <3>1, <2>2, <2>3
    <3>2. CASE job'[i].backup = made' /\ made' = made + 1
      BY <3>2, <2>3 DEF CatalogueInv, Numbered
    <3> QED
      BY <1>3, <2>1, <3>1, <3>2
  <2>5. ASSUME NEW k \in Jobs \ {i}, job'[k].at \in Making
        PROVE  job'[k].backup # job'[i].backup
    <3>1. CASE /\ job[i].at \in Making /\ job'[i].backup = job[i].backup
               /\ job[k].at \in Making /\ job'[k].backup = job[k].backup
      BY <3>1 DEF CatalogueInv, Numbered
    <3>2. CASE /\ job[k].at \in Making /\ job'[k].backup = job[k].backup
               /\ job'[i].backup = made' /\ made' = made + 1
      BY <3>2, <2>2, <2>3
    <3>3. CASE /\ job[i].at \in Making /\ job'[i].backup = job[i].backup
               /\ job'[k].backup = made' /\ made' = made + 1
      BY <3>3, <2>2, <2>3
    <3>4. ~(k = j /\ i = j)
      BY <2>5
    <3> QED
      BY <1>3, <2>1, <2>5, <3>1, <3>2, <3>3, <3>4
  <2> QED
    BY <2>4, <2>5
<1>4. Numbered'
  BY <1>1, <1>2, <1>3 DEF Numbered
<1>5. ASSUME NEW i \in Jobs
      PROVE  /\ job'[i].at \in Deleting => job'[i].doomed # <<>>
             /\ \A b \in Rows(job'[i].doomed) :
                   b \in Rows(inserted) /\ (b \in withdrawn' \/ Outlived(b))
  <2>1. CASE i = j
    BY <2>1
  <2>2. CASE i # j
    BY <2>2 DEF CatalogueInv, DoomedRows
  <2> QED
    BY <2>1, <2>2
<1>6. DoomedRows'
  BY <1>1, <1>5 DEF DoomedRows
<1> QED
  BY <1>4, <1>6

\* Rows that stay as they are.
LEMMA RowsStay ==
  ASSUME CatalogueInv, UNCHANGED <<catalogue, inserted>>, withdrawn \subseteq withdrawn'
  PROVE  Listed' /\ NewestKept'
<1>1. Listed'
  BY DEF CatalogueInv, Listed, Backup!IsInjective
<1>2. NewestKept'
  BY RowsAre DEF CatalogueInv, NewestKept, Backup!NewestKept
<1> QED
  BY <1>1, <1>2

\* One row is deleted: it is none of the newest, or the owner's wish.
LEMMA RowRemoved ==
  ASSUME CatalogueInv, UNCHANGED <<inserted, withdrawn>>, NEW i \in DOMAIN catalogue,
         catalogue' = Backup!RemoveAt(catalogue, i),
         catalogue[i] \in withdrawn \/ Outlived(catalogue[i])
  PROVE  /\ catalogue' \in Seq(Nat) /\ Listed' /\ NewestKept'
         /\ Rows(catalogue') = Rows(catalogue) \ {catalogue[i]}
<1>1. /\ Len(catalogue) \in Nat /\ DOMAIN catalogue = 1..Len(catalogue)
      /\ Len(inserted) \in Nat /\ DOMAIN inserted = 1..Len(inserted)
  BY SeqDomain DEF CatalogueInv, BackupTypes
<1>2. /\ catalogue' \in Seq(Nat)
      /\ Len(catalogue') = Len(catalogue) - 1
      /\ \A k \in 1..(Len(catalogue) - 1) :
            catalogue'[k] = IF k < i THEN catalogue[k] ELSE catalogue[k + 1]
  <2>1. catalogue \in Seq(Nat) /\ i \in 1..Len(catalogue)
    BY <1>1 DEF CatalogueInv, BackupTypes
  <2> QED
    BY <2>1, WithoutOne DEF Backup!RemoveAt
<1>3. DOMAIN catalogue' = 1..(Len(catalogue) - 1)
  BY <1>1, <1>2, SeqDomain
<1>4. ASSUME NEW k \in 1..(Len(catalogue) - 1)
      PROVE  \E old \in 1..Len(catalogue) :
                /\ old # i /\ (k < i => old = k) /\ (~(k < i) => old = k + 1)
                /\ catalogue'[k] = catalogue[old]
  <2>1. CASE k < i
    <3>1. catalogue'[k] = catalogue[k]
      BY <1>2, <2>1, Zenon
    <3>2. k \in 1..Len(catalogue) /\ k # i
      BY <1>1, <2>1
    <3> QED
      BY <2>1, <3>1, <3>2
  <2>2. CASE ~(k < i)
    <3>1. k + 1 \in 1..Len(catalogue) /\ k + 1 # i
      BY <1>1, <2>2
    <3> QED
      BY <1>2, <2>2, <3>1
  <2> QED
    BY <2>1, <2>2
<1>5. ASSUME NEW old \in 1..Len(catalogue), old # i
      PROVE  \E k \in 1..(Len(catalogue) - 1) : catalogue'[k] = catalogue[old]
  <2>1. CASE old < i
    <3>1. old \in 1..(Len(catalogue) - 1)
      BY <1>1, <2>1
    <3> QED
      BY <1>2, <2>1, <3>1, Zenon
  <2>2. CASE old > i
    <3>1. old - 1 \in 1..(Len(catalogue) - 1) /\ ~(old - 1 < i) /\ (old - 1) + 1 = old
      BY <1>1, <2>2
    <3> QED
      BY <1>2, <3>1
  <2> QED
    BY <1>1, <1>5, <2>1, <2>2
<1>6. ASSUME NEW a \in 1..Len(catalogue), NEW b \in 1..Len(catalogue),
             catalogue[a] = catalogue[b]
      PROVE  a = b
  BY <1>1, <1>6 DEF CatalogueInv, Listed, Backup!IsInjective
<1>7. Listed'
  <2>1. ASSUME NEW a \in DOMAIN catalogue', NEW b \in DOMAIN catalogue',
               catalogue'[a] = catalogue'[b]
        PROVE  a = b
    BY <1>1, <1>3, <1>4, <1>6, <2>1
  <2>2. ASSUME NEW k \in DOMAIN catalogue'
        PROVE  \E n \in DOMAIN inserted :
                  inserted[n] = catalogue'[k] /\ n + Len(catalogue') - k <= Len(inserted)
    <3>1. PICK old \in 1..Len(catalogue) :
             /\ (k < i => old = k) /\ (~(k < i) => old = k + 1)
             /\ catalogue'[k] = catalogue[old]
      BY <1>3, <1>4
    <3>2. PICK n \in DOMAIN inserted :
             inserted[n] = catalogue[old] /\ n + Len(catalogue) - old <= Len(inserted)
      BY <1>1 DEF CatalogueInv, Listed
    <3>3. n + Len(catalogue') - k <= Len(inserted)
      BY <1>1, <1>2, <1>3, <3>1, <3>2, SMTT(30)
    <3> QED
      BY <3>1, <3>2, <3>3
  <2> QED
    BY <2>1, <2>2 DEF Listed, Backup!IsInjective
<1>8. Rows(catalogue') = Rows(catalogue) \ {catalogue[i]}
  <2>1. ASSUME NEW k \in DOMAIN catalogue'
        PROVE  catalogue'[k] \in Rows(catalogue) \ {catalogue[i]}
    <3>1. PICK old \in 1..Len(catalogue) : old # i /\ catalogue'[k] = catalogue[old]
      BY <1>3, <1>4
    <3> QED
      BY <1>1, <1>6, <3>1 DEF Rows
  <2>2. ASSUME NEW old \in DOMAIN catalogue, catalogue[old] # catalogue[i]
        PROVE  catalogue[old] \in Rows(catalogue')
    BY <1>1, <1>3, <1>5, <2>2 DEF Rows
  <2> QED
    BY <2>1, <2>2 DEF Rows
<1>9. NewestKept'
  <2>1. ASSUME NEW k \in DOMAIN inserted, k > Len(inserted) - MaxKept
        PROVE  inserted[k] \in Rows(catalogue') \cup withdrawn
    <3>1. inserted[k] \in Rows(catalogue) \cup withdrawn
      BY <2>1, RowsAre DEF CatalogueInv, NewestKept, Backup!NewestKept
    <3>2. CASE inserted[k] = catalogue[i]
      <4>1. MaxKept \in Nat /\ k \in Nat
        <5>1. MaxKept \in Nat
          BY ServicesAssumption
        <5> QED
          BY <1>1, <5>1
      <4>2. ~Outlived(catalogue[i])
        BY <1>1, <2>1, <3>2, <4>1 DEF Outlived
      <4> QED
        BY <3>2, <4>2
    <3> QED
      BY <1>8, <3>1, <3>2
  <2> QED
    BY <2>1, RowsAre DEF NewestKept, Backup!NewestKept
<1> QED
  BY <1>2, <1>7, <1>8, <1>9

\* A new row comes last in both.
LEMMA RowInserted ==
  ASSUME CatalogueInv, NEW b \in Nat, b \notin Rows(inserted), Backup!Insert(b),
         UNCHANGED withdrawn
  PROVE  /\ catalogue' \in Seq(Nat) /\ inserted' \in Seq(Nat)
         /\ Rows(inserted') = Rows(inserted) \cup {b}
         /\ Rows(catalogue') = Rows(catalogue) \cup {b}
         /\ Backup!IsInjective(inserted')
         /\ \A r \in Rows(inserted) : Outlived(r) => Outlived(r)'
         /\ Listed' /\ NewestKept'
<1>1. /\ Len(catalogue) \in Nat /\ DOMAIN catalogue = 1..Len(catalogue)
      /\ Len(inserted) \in Nat /\ DOMAIN inserted = 1..Len(inserted)
  BY SeqDomain DEF CatalogueInv, BackupTypes
<1>2. /\ catalogue' \in Seq(Nat) /\ Len(catalogue') = Len(catalogue) + 1
      /\ \A i \in 1..Len(catalogue) : catalogue'[i] = catalogue[i]
      /\ catalogue'[Len(catalogue) + 1] = b
  BY AppendProperties DEF Backup!Insert, CatalogueInv, BackupTypes
<1>3. /\ inserted' \in Seq(Nat) /\ Len(inserted') = Len(inserted) + 1
      /\ \A i \in 1..Len(inserted) : inserted'[i] = inserted[i]
      /\ inserted'[Len(inserted) + 1] = b
  BY AppendProperties DEF Backup!Insert, CatalogueInv, BackupTypes
<1>4. /\ DOMAIN catalogue' = 1..(Len(catalogue) + 1)
      /\ DOMAIN inserted' = 1..(Len(inserted) + 1)
  BY <1>2, <1>3, SeqDomain
<1>5. /\ Rows(inserted') = Rows(inserted) \cup {b}
      /\ Rows(catalogue') = Rows(catalogue) \cup {b}
  <2>1. /\ 1..(Len(inserted) + 1) = 1..Len(inserted) \cup {Len(inserted) + 1}
        /\ 1..(Len(catalogue) + 1) = 1..Len(catalogue) \cup {Len(catalogue) + 1}
    BY <1>1
  <2>2. Rows(inserted') = Rows(inserted) \cup {b}
    BY <1>1, <1>3, <1>4, <2>1 DEF Rows
  <2>3. Rows(catalogue') = Rows(catalogue) \cup {b}
    BY <1>1, <1>2, <1>4, <2>1, SMTT(30) DEF Rows
  <2> QED
    BY <2>2, <2>3
<1>6. ASSUME NEW i \in DOMAIN catalogue
      PROVE  \E k \in DOMAIN inserted :
                inserted[k] = catalogue[i] /\ k + Len(catalogue) - i <= Len(inserted)
  BY DEF CatalogueInv, Listed
<1>7. \A k \in 1..Len(inserted) : inserted[k] # b
  BY <1>1 DEF Rows
<1>8. \A i \in 1..Len(catalogue) : catalogue[i] # b
  BY <1>1, <1>6, <1>7
<1>9. Backup!IsInjective(inserted')
  <2>1. ASSUME NEW i \in 1..(Len(inserted) + 1), NEW k \in 1..(Len(inserted) + 1),
               inserted'[i] = inserted'[k]
        PROVE  i = k
    <3>1. i \in 1..Len(inserted) \/ i = Len(inserted) + 1
      BY <1>1
    <3>2. k \in 1..Len(inserted) \/ k = Len(inserted) + 1
      BY <1>1
    <3>3. \A m, n \in 1..Len(inserted) : inserted[m] = inserted[n] => m = n
      BY <1>1 DEF CatalogueInv, Numbered, Backup!IsInjective
    <3> QED
      BY <1>3, <1>7, <2>1, <3>1, <3>2, <3>3
  <2> QED
    BY <1>4, <2>1 DEF Backup!IsInjective
<1>10. Listed'
  <2>1. ASSUME NEW i \in 1..(Len(catalogue) + 1), NEW k \in 1..(Len(catalogue) + 1),
               catalogue'[i] = catalogue'[k]
        PROVE  i = k
    <3>1. i \in 1..Len(catalogue) \/ i = Len(catalogue) + 1
      BY <1>1
    <3>2. k \in 1..Len(catalogue) \/ k = Len(catalogue) + 1
      BY <1>1
    <3>3. \A m, n \in 1..Len(catalogue) : catalogue[m] = catalogue[n] => m = n
      BY <1>1 DEF CatalogueInv, Listed, Backup!IsInjective
    <3> QED
      BY <1>2, <1>8, <2>1, <3>1, <3>2, <3>3
  <2>2. ASSUME NEW i \in 1..(Len(catalogue) + 1)
        PROVE  \E k \in DOMAIN inserted' :
                  inserted'[k] = catalogue'[i] /\ k + Len(catalogue') - i <= Len(inserted')
    <3>1. CASE i = Len(catalogue) + 1
      <4>1. Len(inserted) + 1 \in DOMAIN inserted'
        BY <1>1, <1>4
      <4> QED
        BY <1>1, <1>2, <1>3, <3>1, <4>1, SMTT(30)
    <3>2. CASE i \in 1..Len(catalogue)
      <4>1. PICK k \in 1..Len(inserted) :
               inserted[k] = catalogue[i] /\ k + Len(catalogue) - i <= Len(inserted)
        BY <1>1, <1>6, <3>2
      <4>2. k \in DOMAIN inserted' /\ inserted'[k] = catalogue'[i]
        BY <1>1, <1>2, <1>3, <1>4, <3>2, <4>1
      <4>3. k + Len(catalogue') - i <= Len(inserted')
        BY <1>1, <1>2, <1>3, <3>2, <4>1
      <4> QED
        BY <4>2, <4>3
    <3> QED
      BY <1>1, <3>1, <3>2
  <2> QED
    BY <1>4, <2>1, <2>2 DEF Listed, Backup!IsInjective
<1>11. MaxKept \in Nat
  BY ServicesAssumption
<1>12. \A r \in Rows(inserted) : Outlived(r) => Outlived(r)'
  <2> SUFFICES ASSUME NEW r \in Rows(inserted), Outlived(r), NEW k \in DOMAIN inserted',
                      inserted'[k] = r
               PROVE  k <= Len(inserted') - MaxKept
    BY DEF Outlived
  <2>1. k \in 1..Len(inserted)
    <3>1. k \in 1..Len(inserted) \/ k = Len(inserted) + 1
      BY <1>1, <1>4
    <3> QED
      BY <1>3, <3>1
  <2>2. k <= Len(inserted) - MaxKept
    BY <1>1, <1>3, <2>1 DEF Outlived
  <2> QED
    BY <1>1, <1>3, <1>11, <2>1, <2>2
<1>13. NewestKept'
  <2>1. ASSUME NEW k \in DOMAIN inserted', k > Len(inserted') - MaxKept
        PROVE  inserted'[k] \in Rows(catalogue') \cup withdrawn'
    <3>1. CASE k = Len(inserted) + 1
      BY <1>3, <1>5, <3>1
    <3>2. CASE k \in 1..Len(inserted)
      <4>1. k > Len(inserted) - MaxKept
        BY <1>1, <1>3, <1>11, <2>1, <3>2
      <4>2. inserted[k] \in Rows(catalogue) \cup withdrawn
        BY <1>1, <3>2, <4>1, RowsAre DEF CatalogueInv, NewestKept, Backup!NewestKept
      <4> QED
        BY <1>3, <1>5, <3>2, <4>2
    <3> QED
      BY <1>1, <1>4, <3>1, <3>2
  <2> QED
    BY <2>1, RowsAre DEF NewestKept, Backup!NewestKept
<1> QED
  BY <1>2, <1>3, <1>5, <1>9, <1>10, <1>12, <1>13

\* Goto and DeleteEach, which end most steps, when the rows stay.
LEMMA RequestGoes ==
  ASSUME CatalogueInv, NEW j \in Jobs, NEW step \in Backup!Step, Backup!Goto(j, step),
         step \in Making => job[j].at \in Making,
         step \in Deleting => job[j].at \in Deleting,
         UNCHANGED <<made, catalogue, inserted, withdrawn>>
  PROVE  CatalogueInv'
<1>1. /\ job' \in [Jobs -> BackupRequest]
      /\ job'[j].at = step /\ job'[j].backup = job[j].backup
      /\ job'[j].doomed = job[j].doomed
      /\ \A other \in Jobs \ {j} : job'[other] = job[other]
  BY BackupGoto DEF CatalogueInv
<1>2. /\ step \in Deleting => job[j].doomed # <<>>
      /\ withdrawn \subseteq Rows(inserted)
      /\ \A b \in Rows(job[j].doomed) : b \in Rows(inserted) /\ (b \in withdrawn \/ Outlived(b))
  BY DEF CatalogueInv, DoomedRows
<1>3. made \in Nat /\ BackupTypes'
  BY <1>1 DEF CatalogueInv, BackupTypes
<1>4. Numbered' /\ DoomedRows'
  BY <1>1, <1>2, <1>3, RequestMoves
<1> QED
  BY <1>3, <1>4, RowsStay DEF CatalogueInv

LEMMA RequestDeletes ==
  ASSUME CatalogueInv, NEW j \in Jobs, NEW rs \in Seq(Nat), Backup!DeleteEach(j, rs),
         UNCHANGED <<made, inserted>>,
         withdrawn \subseteq withdrawn', withdrawn' \subseteq Rows(inserted),
         \A b \in Rows(rs) : b \in Rows(inserted) /\ (b \in withdrawn' \/ Outlived(b)),
         catalogue' \in Seq(Nat), Listed', NewestKept'
  PROVE  CatalogueInv'
<1>1. /\ job' \in [Jobs -> BackupRequest]
      /\ job'[j].at = IF rs = <<>> THEN "idle" ELSE "select"
      /\ job'[j].doomed = rs
      /\ \A other \in Jobs \ {j} : job'[other] = job[other]
  BY BackupDelete DEF CatalogueInv
<1>2. job'[j].at \notin Making /\ (job'[j].at \in Deleting => job'[j].doomed # <<>>)
  BY <1>1 DEF Making, Deleting
<1>3. made \in Nat /\ BackupTypes'
  BY <1>1 DEF CatalogueInv, BackupTypes
<1>4. Numbered' /\ DoomedRows'
  BY <1>1, <1>2, <1>3, RequestMoves
<1> QED
  BY <1>3, <1>4 DEF CatalogueInv

\* What a deletion has yet to do after the row at hand.
LEMMA TheRestOfDoomed ==
  ASSUME CatalogueInv, NEW j \in Jobs, job[j].at \in Deleting
  PROVE  /\ Backup!Doomed(j) \in Rows(inserted)
         /\ Backup!Doomed(j) \in withdrawn \/ Outlived(Backup!Doomed(j))
         /\ Tail(job[j].doomed) \in Seq(Nat)
         /\ \A b \in Rows(Tail(job[j].doomed)) :
               b \in Rows(inserted) /\ (b \in withdrawn \/ Outlived(b))
<1> DEFINE rs == job[j].doomed
<1>1. /\ rs \in Seq(Nat) /\ rs # <<>>
      /\ \A b \in Rows(rs) : b \in Rows(inserted) /\ (b \in withdrawn \/ Outlived(b))
  BY DEF CatalogueInv, BackupTypes, BackupRequest, DoomedRows
<1>2. Backup!Doomed(j) = Head(rs)
  BY DEF Backup!Doomed
<1> HIDE DEF rs
<1>3. /\ Tail(rs) \in Seq(Nat) /\ Len(Tail(rs)) = Len(rs) - 1
      /\ \A i \in 1..Len(Tail(rs)) : Tail(rs)[i] = rs[i + 1]
  BY <1>1, HeadTailProperties
<1>4. Len(rs) \in Nat /\ Len(rs) > 0 /\ DOMAIN rs = 1..Len(rs)
      /\ DOMAIN Tail(rs) = 1..Len(Tail(rs))
  BY <1>1, <1>3, SeqDomain, EmptySeq
<1>5. Head(rs) = rs[1]
  BY <1>1
<1>6. Head(rs) \in Rows(rs) /\ Rows(Tail(rs)) \subseteq Rows(rs)
  <2>1. 1 \in DOMAIN rs /\ \A i \in DOMAIN Tail(rs) : i + 1 \in DOMAIN rs
    BY <1>3, <1>4
  <2> QED
    BY <1>3, <1>4, <1>5, <2>1 DEF Rows
<1> QED
  BY <1>1, <1>2, <1>3, <1>6 DEF rs

\* What the retention selects has been outlived.
LEMMA OldBackupsOutlived ==
  ASSUME CatalogueInv
  PROVE  /\ Backup!OldBackups \in Seq(Nat)
         /\ \A b \in Rows(Backup!OldBackups) : b \in Rows(inserted) /\ Outlived(b)
<1>1. /\ Len(catalogue) \in Nat /\ DOMAIN catalogue = 1..Len(catalogue)
      /\ Len(inserted) \in Nat /\ DOMAIN inserted = 1..Len(inserted)
      /\ \A i \in 1..Len(catalogue) : catalogue[i] \in Nat
      /\ MaxKept \in Nat
  BY SeqDomain, ServicesAssumption DEF CatalogueInv, BackupTypes
<1>2. CASE ~(Len(catalogue) > MaxKept)
  BY <1>2, EmptySeq DEF Backup!OldBackups, Rows
<1>3. CASE Len(catalogue) > MaxKept
  <2> DEFINE n == Len(catalogue) - MaxKept
             old == SubSeq(catalogue, 1, n)
  <2>1. /\ old \in Seq(Nat) /\ Len(old) = n
        /\ \A i \in 1..n : old[i] = catalogue[i]
    <3>1. n \in Nat /\ n > 0 /\ n <= Len(catalogue)
      BY <1>1, <1>3
    <3> HIDE DEF n
    <3>2. /\ old \in Seq(Nat)
          /\ Len(old) = IF 1 <= n THEN n - 1 + 1 ELSE 0
          /\ \A i \in 1..(n - 1 + 1) : old[i] = catalogue[1 + i - 1]
      BY <1>1, <3>1, SubSeqProperties
    <3> HIDE DEF old
    <3> QED
      BY <3>1, <3>2
  <2>2. Backup!OldBackups = [i \in 1..Len(old) |-> old[Len(old) - i + 1]]
    BY <1>3 DEF Backup!OldBackups, Backup!Reverse
  <2>3. n \in Nat /\ n <= Len(catalogue) /\ n + MaxKept = Len(catalogue)
    BY <1>1, <1>3
  <2> HIDE DEF n, old
  <2>4. Backup!OldBackups = [i \in 1..n |-> catalogue[n - i + 1]]
    BY <2>1, <2>2, <2>3
  <2>5. ASSUME NEW i \in 1..n
        PROVE  catalogue[n - i + 1] \in Rows(inserted) /\ Outlived(catalogue[n - i + 1])
    <3>1. n - i + 1 \in 1..Len(catalogue)
      BY <1>1, <2>3
    <3>2. PICK k \in 1..Len(inserted) :
             /\ inserted[k] = catalogue[n - i + 1]
             /\ k + Len(catalogue) - (n - i + 1) <= Len(inserted)
      BY <1>1, <3>1 DEF CatalogueInv, Listed
    <3>3. k <= Len(inserted) - MaxKept
      BY <1>1, <2>3, <3>2
    <3>4. \A m \in 1..Len(inserted) : inserted[m] = inserted[k] => m = k
      BY <1>1 DEF CatalogueInv, Numbered, Backup!IsInjective
    <3> QED
      BY <1>1, <3>2, <3>3, <3>4 DEF Outlived, Rows
  <2>6. Backup!OldBackups \in Seq(Nat)
    <3>1. \A i \in 1..n : n - i + 1 \in 1..Len(catalogue)
      BY <1>1, <2>3
    <3>2. Backup!OldBackups \in [1..n -> Nat]
      BY <1>1, <2>4, <3>1
    <3> QED
      BY <2>3, <3>2, SeqDef
  <2> QED
    BY <2>4, <2>5, <2>6 DEF Rows
<1> QED
  BY <1>2, <1>3

LEMMA CatalogueStep == ASSUME CatalogueInv, Backup!Next PROVE CatalogueInv'
<1> USE DEF Making, Deleting, Backup!Step
<1>1. ASSUME NEW j \in Jobs, Backup!CreateFullBackup(j) PROVE CatalogueInv'
  <2> DEFINE new == [at |-> "collect", backup |-> made + 1, doomed |-> <<>>]
  <2>1. made \in Nat /\ new \in BackupRequest /\ new.at = "collect" /\ new.backup = made + 1
        /\ Rows(new.doomed) = {}
    BY EmptySeq DEF CatalogueInv, BackupTypes, BackupRequest, Rows
  <2>2. job' = [job EXCEPT ![j] = new] /\ made' = made + 1
        /\ UNCHANGED <<catalogue, inserted, withdrawn>>
    BY <1>1 DEF Backup!CreateFullBackup
  <2> HIDE DEF new
  <2>3. /\ job' \in [Jobs -> BackupRequest] /\ job'[j] = new
        /\ \A other \in Jobs \ {j} : job'[other] = job[other]
    BY <2>1, <2>2 DEF CatalogueInv, BackupTypes
  <2>4. withdrawn \subseteq Rows(inserted)
    BY DEF CatalogueInv, DoomedRows
  <2>5. Numbered' /\ DoomedRows'
    BY <2>1, <2>2, <2>3, <2>4, RequestMoves
  <2>6. BackupTypes'
    BY <2>1, <2>2, <2>3 DEF CatalogueInv, BackupTypes
  <2> QED
    BY <2>2, <2>5, <2>6, RowsStay DEF CatalogueInv
<1>2. ASSUME NEW j \in Jobs, Backup!BackupComponents(j) \/ Backup!CreateZipArchive(j)
      PROVE  CatalogueInv'
  BY <1>2, RequestGoes DEF Backup!BackupComponents, Backup!CreateZipArchive
<1>3. ASSUME NEW j \in Jobs, Backup!CleanUpFailedBackup(j) PROVE CatalogueInv'
  <2>1. <<>> \in Seq(Nat) /\ Rows(<<>>) = {} /\ withdrawn \subseteq Rows(inserted)
        /\ catalogue \in Seq(Nat)
    BY EmptySeq DEF Rows, CatalogueInv, DoomedRows, BackupTypes
  <2>2. Backup!DeleteEach(j, <<>>) /\ UNCHANGED <<made, catalogue, inserted, withdrawn>>
    BY <1>3 DEF Backup!CleanUpFailedBackup
  <2> QED
    BY <2>1, <2>2, RequestDeletes, RowsStay
<1>4. ASSUME NEW j \in Jobs, Backup!SaveBackupInfo(j) PROVE CatalogueInv'
  <2>1. Backup!Goto(j, "retain") /\ job[j].at = "save" /\ UNCHANGED <<made, withdrawn>>
    BY <1>4 DEF Backup!SaveBackupInfo
  <2>2. CASE UNCHANGED <<catalogue, inserted>>
    BY <2>1, <2>2, RequestGoes
  <2>3. CASE Backup!Insert(job[j].backup)
    <3> DEFINE b == job[j].backup
    <3>1. b \in 1..made /\ b \notin Rows(inserted) /\ b \in Nat /\ Backup!Insert(b)
      BY <2>1, <2>3 DEF CatalogueInv, Numbered
    <3>2. \A other \in Jobs \ {j} : job[other].at \in Making => job[other].backup # b
      BY <2>1 DEF CatalogueInv, Numbered
    <3>3. /\ job' \in [Jobs -> BackupRequest]
          /\ job'[j].at = "retain" /\ job'[j].doomed = job[j].doomed
          /\ \A other \in Jobs \ {j} : job'[other] = job[other]
      BY <2>1, BackupGoto DEF CatalogueInv
    <3> HIDE DEF b
    <3>4. /\ catalogue' \in Seq(Nat) /\ inserted' \in Seq(Nat)
          /\ Rows(inserted') = Rows(inserted) \cup {b}
          /\ Backup!IsInjective(inserted')
          /\ \A r \in Rows(inserted) : Outlived(r) => Outlived(r)'
          /\ Listed' /\ NewestKept'
      BY <2>1, <3>1, RowInserted
    <3>5. Numbered'
      <4>1. Rows(inserted) \subseteq 1..made
            /\ \A k \in Jobs : job[k].at \in Making =>
                  job[k].backup \in 1..made /\ job[k].backup \notin Rows(inserted)
        BY DEF CatalogueInv, Numbered
      <4>2. \A k \in Jobs : job'[k].at \in Making => k # j /\ job'[k] = job[k]
        BY <3>3
      <4>3. \A k \in Jobs : \A other \in Jobs \ {k} :
               job[k].at \in Making /\ job[other].at \in Making => job[other].backup # job[k].backup
        BY DEF CatalogueInv, Numbered
      <4> QED
        BY <2>1, <3>1, <3>2, <3>4, <4>1, <4>2, <4>3 DEF Numbered
    <3>6. DoomedRows'
      BY <2>1, <3>3, <3>4 DEF CatalogueInv, DoomedRows
    <3>7. BackupTypes'
      BY <2>1, <3>3, <3>4 DEF CatalogueInv, BackupTypes
    <3> QED
      BY <3>4, <3>5, <3>6, <3>7 DEF CatalogueInv
  <2> QED
    BY <1>4, <2>2, <2>3 DEF Backup!SaveBackupInfo
<1>5. ASSUME NEW j \in Jobs, Backup!SaveFails(j) PROVE CatalogueInv'
  BY <1>5, RequestGoes DEF Backup!SaveFails
<1>6. ASSUME NEW j \in Jobs, Backup!CleanupOldBackups(j) PROVE CatalogueInv'
  <2>1. withdrawn \subseteq Rows(inserted) /\ catalogue \in Seq(Nat)
    BY DEF CatalogueInv, DoomedRows, BackupTypes
  <2> QED
    BY <1>6, <2>1, OldBackupsOutlived, RequestDeletes, RowsStay DEF Backup!CleanupOldBackups
<1>7. ASSUME NEW j \in Jobs, Backup!DeleteRequest(j) PROVE CatalogueInv'
  <2>1. PICK b \in Rows(catalogue) : Backup!DeleteEach(j, <<b>>) /\ withdrawn' = withdrawn \cup {b}
    BY <1>7, RowsAre DEF Backup!DeleteRequest
  <2>2. Rows(catalogue) \subseteq Rows(inserted) /\ catalogue \in Seq(Nat)
    BY DEF CatalogueInv, Listed, Rows, BackupTypes
  <2>3. b \in Nat
    BY <2>2, SeqDomain DEF Rows
  <2>4. <<b>> \in Seq(Nat) /\ Rows(<<b>>) = {b}
    BY <2>3 DEF Rows
  <2>5. withdrawn' \subseteq Rows(inserted)
    BY <2>1, <2>2 DEF CatalogueInv, DoomedRows
  <2>6. UNCHANGED <<made, catalogue, inserted>>
    BY <1>7 DEF Backup!DeleteRequest
  <2>7. Listed' /\ NewestKept'
    BY <2>1, <2>6, RowsStay
  <2>8. \A r \in Rows(<<b>>) : r \in Rows(inserted) /\ r \in withdrawn'
    BY <2>1, <2>2, <2>4
  <2> QED
    BY <2>1, <2>2, <2>4, <2>5, <2>6, <2>7, <2>8, RequestDeletes
<1>8. ASSUME NEW j \in Jobs, Backup!SelectBackup(j) PROVE CatalogueInv'
  <2>1. job[j].at \in Deleting /\ UNCHANGED <<made, catalogue, inserted, withdrawn>>
    BY <1>8 DEF Backup!SelectBackup
  <2>2. CASE Backup!Goto(j, "file")
    BY <2>1, <2>2, RequestGoes
  <2>3. CASE Backup!DeleteEach(j, Tail(job[j].doomed))
    BY <2>1, <2>3, TheRestOfDoomed, RequestDeletes, RowsStay DEF CatalogueInv, DoomedRows, BackupTypes
  <2> QED
    BY <1>8, <2>2, <2>3 DEF Backup!SelectBackup
<1>9. ASSUME NEW j \in Jobs, Backup!RemoveFile(j) PROVE CatalogueInv'
  BY <1>9, RequestGoes DEF Backup!RemoveFile
<1>10. ASSUME NEW j \in Jobs, Backup!RemoveRow(j) PROVE CatalogueInv'
  <2>1. /\ job[j].at \in Deleting /\ UNCHANGED <<made, inserted, withdrawn>>
        /\ Backup!DeleteEach(j, Tail(job[j].doomed))
    BY <1>10 DEF Backup!RemoveRow
  <2>2. catalogue' \in Seq(Nat) /\ Listed' /\ NewestKept'
    <3>1. ASSUME NEW i \in DOMAIN catalogue, catalogue[i] = Backup!Doomed(j),
                 catalogue' = Backup!RemoveAt(catalogue, i)
          PROVE  catalogue' \in Seq(Nat) /\ Listed' /\ NewestKept'
      BY <2>1, <3>1, TheRestOfDoomed, RowRemoved
    <3>2. CASE UNCHANGED catalogue
      BY <2>1, <3>2, RowsStay DEF CatalogueInv, BackupTypes
    <3> QED
      BY <1>10, <3>1, <3>2 DEF Backup!RemoveRow
  <2>3. withdrawn \subseteq Rows(inserted)
    BY DEF CatalogueInv, DoomedRows
  <2> QED
    BY <2>1, <2>2, <2>3, TheRestOfDoomed, RequestDeletes
<1>11. ASSUME NEW j \in Jobs, Backup!DeleteFails(j) PROVE CatalogueInv'
  <2>1. /\ job[j].at \in Deleting /\ UNCHANGED <<made, catalogue, inserted, withdrawn>>
        /\ Backup!DeleteEach(j, Tail(job[j].doomed))
    BY <1>11 DEF Backup!DeleteFails
  <2> QED
    BY <2>1, TheRestOfDoomed, RequestDeletes, RowsStay DEF CatalogueInv, DoomedRows, BackupTypes
<1>12. CASE Backup!InstantBackup
  <2>1. made \in Nat /\ Rows(inserted) \subseteq 1..made
        /\ \A k \in Jobs : job[k].at \in Making => job[k].backup \in 1..made
    BY DEF CatalogueInv, BackupTypes, Numbered
  <2>2. /\ made + 1 \in Nat /\ made + 1 \notin Rows(inserted) /\ 1..made \subseteq 1..(made + 1)
        /\ made + 1 \in 1..(made + 1)
    BY <2>1
  <2>3. Backup!Insert(made + 1) /\ made' = made + 1 /\ UNCHANGED <<job, withdrawn>>
    BY <1>12 DEF Backup!InstantBackup
  <2>4. /\ catalogue' \in Seq(Nat) /\ inserted' \in Seq(Nat)
        /\ Rows(inserted') = Rows(inserted) \cup {made + 1}
        /\ Backup!IsInjective(inserted')
        /\ \A r \in Rows(inserted) : Outlived(r) => Outlived(r)'
        /\ Listed' /\ NewestKept'
    BY <2>2, <2>3, RowInserted
  <2>5. Numbered'
    <3>1. \A k \in Jobs : job[k].at \in Making =>
             job[k].backup \in 1..(made + 1) /\ job[k].backup \notin Rows(inserted')
      BY <2>1, <2>2, <2>4 DEF CatalogueInv, Numbered
    <3> QED
      BY <2>1, <2>2, <2>3, <2>4, <3>1 DEF CatalogueInv, Numbered
  <2>6. DoomedRows'
    BY <2>3, <2>4 DEF CatalogueInv, DoomedRows
  <2>7. BackupTypes'
    BY <2>2, <2>3, <2>4 DEF CatalogueInv, BackupTypes
  <2> QED
    BY <2>4, <2>5, <2>6, <2>7 DEF CatalogueInv
<1>13. CASE Backup!ExitDuringBackup
  <2>1. job' = [j \in Jobs |-> Backup!Idle] /\ UNCHANGED <<made, catalogue, inserted, withdrawn>>
    BY <1>13 DEF Backup!ExitDuringBackup
  <2>2. Backup!Idle \in BackupRequest /\ Backup!Idle.at = "idle" /\ Rows(Backup!Idle.doomed) = {}
    BY EmptySeq DEF Backup!Idle, BackupRequest, Rows
  <2>3. BackupTypes'
    BY <2>1, <2>2 DEF CatalogueInv, BackupTypes
  <2>4. Numbered'
    BY <2>1, <2>2 DEF CatalogueInv, Numbered, Backup!IsInjective
  <2>5. DoomedRows'
    BY <2>1, <2>2 DEF CatalogueInv, DoomedRows
  <2> QED
    BY <2>1, <2>3, <2>4, <2>5, RowsStay DEF CatalogueInv
<1> QED
  BY <1>1, <1>2, <1>3, <1>4, <1>5, <1>6, <1>7, <1>8, <1>9, <1>10, <1>11, <1>12, <1>13
  DEF Backup!Next

LEMMA CatalogueInit == Init => CatalogueInv
<1> SUFFICES ASSUME Init PROVE CatalogueInv
  OBVIOUS
<1>1. /\ catalogue = <<>> /\ inserted = <<>> /\ made = 0 /\ withdrawn = {}
      /\ job = [j \in Jobs |-> Backup!Idle]
  BY DEF Init, Backup!Init
<1>2. Backup!Idle \in BackupRequest /\ Backup!Idle.at = "idle" /\ Rows(Backup!Idle.doomed) = {}
  BY EmptySeq DEF Backup!Idle, BackupRequest, Rows, Backup!Step
<1>3. BackupTypes
  BY <1>1, <1>2, EmptySeq DEF BackupTypes
<1>4. Numbered /\ DoomedRows
  <2>1. Rows(inserted) = {} /\ Backup!IsInjective(inserted)
    BY <1>1 DEF Rows, Backup!IsInjective
  <2>2. \A j \in Jobs : job[j].at \notin Making \cup Deleting /\ Rows(job[j].doomed) = {}
    BY <1>1, <1>2 DEF Making, Deleting
  <2> QED
    BY <1>1, <2>1, <2>2 DEF Numbered, DoomedRows
<1>5. Listed /\ NewestKept
  BY <1>1 DEF Listed, NewestKept, Backup!NewestKept, Backup!IsInjective
<1> QED
  BY <1>3, <1>4, <1>5 DEF CatalogueInv

LEMMA CatalogueStays == ASSUME CatalogueInv, UNCHANGED backupVars PROVE CatalogueInv'
<1>1. UNCHANGED <<made, catalogue, inserted, withdrawn, job>>
  BY DEF backupVars
<1>2. Listed' /\ NewestKept'
  BY <1>1, RowsStay
<1>3. BackupTypes' /\ Numbered'
  BY <1>1 DEF CatalogueInv, BackupTypes, Numbered, Backup!IsInjective
<1>4. DoomedRows'
  BY <1>1 DEF CatalogueInv, DoomedRows, Outlived
<1> QED
  BY <1>2, <1>3, <1>4 DEF CatalogueInv

\* The newest MAX_BACKUPS rows are deleted by nobody but the owner, however many
\* requests insert, delete and clean up at the same time (backupService.ts:
\* 648-658).
THEOREM NewestHolds == Spec => []NewestKept
<1>1. CatalogueInv /\ [Next]_vars => CatalogueInv'
  <2> SUFFICES ASSUME CatalogueInv, [Next]_vars PROVE CatalogueInv'
    OBVIOUS
  <2>1. CASE Backup!Next
    BY <2>1, CatalogueStep
  <2>2. CASE UNCHANGED backupVars
    BY <2>2, CatalogueStays
  <2> QED
    BY <2>1, <2>2 DEF Next, vars
<1>2. CatalogueInv => NewestKept
  BY DEF CatalogueInv
<1> QED
  BY CatalogueInit, <1>1, <1>2, PTL DEF Spec

\* The backups whose archive is there only in part, or whose row has outlived it
\* though nobody is about to delete that row.
AboutToGo(b) == \E j \in Jobs : job[j].at = "row" /\ Backup!Doomed(j) = b
Bereft == partial \cup {b \in Rows(catalogue) \ archives : ~AboutToGo(b)}

\* A fault leaves as many of them as there are requests at the most; and until
\* its row is inserted, nobody deletes the archive of a backup.
ArchiveInv ==
    /\ \A j \in Jobs : job[j].at = "save" => job[j].backup \in archives
    /\ backupFaults \in Nat
    /\ IsFiniteSet(partial)
    /\ table = "migration" => 
          /\ IsFiniteSet(Bereft)
          /\ Cardinality(Bereft) <= Cardinality(Jobs) * backupFaults

LEMMA JobsAreCounted == IsFiniteSet(Jobs) /\ Cardinality(Jobs) \in Nat
  BY ServicesAssumption, FS_CardinalityType

\* Without a fault there are none that there were not.
LEMMA NoMoreBereft ==
  ASSUME ArchiveInv, UNCHANGED <<table, backupFaults>>,
         IsFiniteSet(partial'), table = "migration" => Bereft' \subseteq Bereft,
         \A j \in Jobs : job'[j].at = "save" => job'[j].backup \in archives'
  PROVE  ArchiveInv'
<1>1. ASSUME table = "migration"
      PROVE  IsFiniteSet(Bereft') /\ Cardinality(Bereft') <= Cardinality(Jobs) * backupFaults
  <2>1. IsFiniteSet(Bereft) /\ Cardinality(Bereft) <= Cardinality(Jobs) * backupFaults
    BY <1>1 DEF ArchiveInv
  <2>2. /\ IsFiniteSet(Bereft') /\ Cardinality(Bereft') <= Cardinality(Bereft)
        /\ Cardinality(Bereft) \in Nat /\ Cardinality(Bereft') \in Nat
    BY <1>1, <2>1, FS_Subset, FS_CardinalityType
  <2>3. Cardinality(Jobs) * backupFaults \in Nat
    BY JobsAreCounted DEF ArchiveInv
  <2> QED
    BY <2>1, <2>2, <2>3
<1> QED
  BY <1>1 DEF ArchiveInv

\* With one there are at most as many more as there are requests.
LEMMA MoreBereft ==
  ASSUME ArchiveInv, UNCHANGED table, Backup!Fault,
         IsFiniteSet(partial'),
         NEW More, IsFiniteSet(More), Cardinality(More) <= Cardinality(Jobs),
         table = "migration" => Bereft' \subseteq Bereft \cup More,
         \A j \in Jobs : job'[j].at = "save" => job'[j].backup \in archives'
  PROVE  ArchiveInv'
<1>1. backupFaults \in Nat /\ backupFaults' = backupFaults + 1
  BY DEF ArchiveInv, Backup!Fault
<1>2. ASSUME table = "migration"
      PROVE  IsFiniteSet(Bereft') /\ Cardinality(Bereft') <= Cardinality(Jobs) * backupFaults'
  <2>1. IsFiniteSet(Bereft) /\ Cardinality(Bereft) <= Cardinality(Jobs) * backupFaults
    BY <1>2 DEF ArchiveInv
  <2>2. /\ IsFiniteSet(Bereft \cup More)
        /\ Cardinality(Bereft \cup More) =
              Cardinality(Bereft) + Cardinality(More) - Cardinality(Bereft \cap More)
        /\ Cardinality(Bereft) \in Nat /\ Cardinality(More) \in Nat
        /\ IsFiniteSet(Bereft \cap More) /\ Cardinality(Bereft \cap More) \in Nat
    BY <2>1, FS_Union, FS_CardinalityType, FS_Intersection
  <2>3. /\ IsFiniteSet(Bereft') /\ Cardinality(Bereft') <= Cardinality(Bereft \cup More)
        /\ Cardinality(Bereft') \in Nat
    BY <1>2, <2>2, FS_Subset, FS_CardinalityType
  <2>4. ASSUME NEW n \in Nat, NEW f \in Nat
        PROVE  n * f \in Nat /\ n * (f + 1) = n * f + n
    BY Z3
  <2>5. /\ Cardinality(Jobs) * backupFaults \in Nat
        /\ Cardinality(Jobs) * (backupFaults + 1) = Cardinality(Jobs) * backupFaults + Cardinality(Jobs)
    BY <1>1, <2>4, JobsAreCounted
  <2> QED
    BY <1>1, <2>1, <2>2, <2>3, <2>5, JobsAreCounted
<1> QED
  BY <1>1, <1>2 DEF ArchiveInv

LEMMA OneMore == ASSUME NEW j \in Jobs, NEW b
                 PROVE  IsFiniteSet({b}) /\ Cardinality({b}) <= Cardinality(Jobs)
<1>1. {j} \subseteq Jobs /\ Cardinality({j}) = 1 /\ IsFiniteSet({b}) /\ Cardinality({b}) = 1
  BY FS_Singleton
<1>2. Cardinality({j}) <= Cardinality(Jobs)
  BY <1>1, JobsAreCounted, FS_Subset
<1> QED
  BY <1>1, <1>2

LEMMA ArchiveStep == ASSUME CatalogueInv, ArchiveInv, Backup!Next PROVE ArchiveInv'
<1> USE DEF Making, Deleting, Backup!Step
<1>0. /\ BackupTypes /\ IsFiniteSet(partial)
      /\ \A j \in Jobs : job[j].at = "save" => job[j].backup \in archives
      /\ \A j \in Jobs : job[j].at = "save" => job[j].backup \notin Rows(inserted)
      /\ Rows(catalogue) \subseteq Rows(inserted)
  BY DEF CatalogueInv, ArchiveInv, Numbered, Listed, Rows
<1>a. ASSUME NEW j \in Jobs, NEW step \in Backup!Step, Backup!Goto(j, step)
      PROVE  /\ job'[j].at = step /\ job'[j].backup = job[j].backup
             /\ Backup!Doomed(j)' = Backup!Doomed(j)
             /\ \A other \in Jobs \ {j} :
                   job'[other] = job[other] /\ Backup!Doomed(other)' = Backup!Doomed(other)
  BY <1>0, <1>a, BackupGoto DEF Backup!Doomed
<1>b. ASSUME NEW j \in Jobs, NEW rs \in Seq(Nat), Backup!DeleteEach(j, rs)
      PROVE  /\ job'[j].at \in {"idle", "select"}
             /\ \A other \in Jobs \ {j} :
                   job'[other] = job[other] /\ Backup!Doomed(other)' = Backup!Doomed(other)
  BY <1>0, <1>b, BackupDelete DEF Backup!Doomed
<1>c. ASSUME NEW j \in Jobs, NEW rs \in Seq(Nat), Backup!DeleteEach(j, rs),
             job[j].at # "row",
             UNCHANGED <<table, backupFaults, catalogue, partial>>, archives \subseteq archives'
      PROVE  ArchiveInv'
  <2>1. \A b : AboutToGo(b) => AboutToGo(b)'
    BY <1>b, <1>c DEF AboutToGo
  <2>2. \A i \in Jobs : job'[i].at = "save" => job'[i].backup \in archives'
    BY <1>0, <1>b, <1>c
  <2> QED
    BY <1>0, <1>c, <2>1, <2>2, NoMoreBereft DEF Bereft
<1>d. ASSUME NEW j \in Jobs, NEW step \in Backup!Step, Backup!Goto(j, step),
             job[j].at # "row",
             UNCHANGED <<table, backupFaults, catalogue, partial>>, archives \subseteq archives',
             step = "save" => job[j].backup \in archives'
      PROVE  ArchiveInv'
  <2>1. \A b : AboutToGo(b) => AboutToGo(b)'
    BY <1>a, <1>d DEF AboutToGo
  <2>2. \A i \in Jobs : job'[i].at = "save" => job'[i].backup \in archives'
    BY <1>0, <1>a, <1>d
  <2> QED
    BY <1>0, <1>d, <2>1, <2>2, NoMoreBereft DEF Bereft
<1>e. <<>> \in Seq(Nat) /\ \A j \in Jobs : job[j].doomed \in Seq(Nat)
  BY <1>0, EmptySeq DEF BackupTypes, BackupRequest
<1>1. ASSUME NEW j \in Jobs, Backup!CreateFullBackup(j) PROVE ArchiveInv'
  <2>1. /\ job'[j].at = "collect"
        /\ \A other \in Jobs \ {j} :
              job'[other] = job[other] /\ Backup!Doomed(other)' = Backup!Doomed(other)
        /\ job[j].at = "idle"
        /\ UNCHANGED <<table, backupFaults, catalogue, archives, partial>>
    BY <1>0, <1>1 DEF Backup!CreateFullBackup, Backup!Doomed, BackupTypes
  <2>2. \A b : AboutToGo(b) => AboutToGo(b)'
    BY <2>1 DEF AboutToGo
  <2> QED
    BY <1>0, <2>1, <2>2, NoMoreBereft DEF Bereft
<1>2. ASSUME NEW j \in Jobs, Backup!BackupComponents(j) PROVE ArchiveInv'
  <2>1. job[j].at = "collect" /\ Backup!Goto(j, "zip") /\ UNCHANGED <<table, catalogue, archives>>
    BY <1>2 DEF Backup!BackupComponents
  <2>2. CASE UNCHANGED <<partial, backupFaults>>
    BY <1>d, <2>1, <2>2
  <2>3. CASE Backup!Fault /\ partial' = partial \cup {job[j].backup}
    <3>1. \A b : AboutToGo(b) => AboutToGo(b)'
      BY <1>a, <2>1 DEF AboutToGo
    <3>2. Bereft' \subseteq Bereft \cup {job[j].backup}
      BY <2>1, <2>3, <3>1 DEF Bereft
    <3>3. IsFiniteSet(partial')
      BY <1>0, <2>3, FS_AddElement
    <3>4. \A i \in Jobs : job'[i].at = "save" => job'[i].backup \in archives'
      BY <1>0, <1>a, <2>1
    <3>5. IsFiniteSet({job[j].backup}) /\ Cardinality({job[j].backup}) <= Cardinality(Jobs)
      BY OneMore
    <3> QED
      BY <2>1, <2>3, <3>2, <3>3, <3>4, <3>5, MoreBereft
  <2> QED
    BY <1>2, <2>2, <2>3 DEF Backup!BackupComponents
<1>3. ASSUME NEW j \in Jobs, Backup!CreateZipArchive(j) PROVE ArchiveInv'
  BY <1>3, <1>d DEF Backup!CreateZipArchive
<1>4. ASSUME NEW j \in Jobs, Backup!CleanUpFailedBackup(j) PROVE ArchiveInv'
  <2>1. /\ Backup!Fault /\ Backup!DeleteEach(j, <<>>) /\ job[j].at # "row"
        /\ UNCHANGED <<table, catalogue, partial>> /\ archives \subseteq archives'
    BY <1>4 DEF Backup!CleanUpFailedBackup
  <2>2. \A b : AboutToGo(b) => AboutToGo(b)'
    BY <1>b, <1>e, <2>1 DEF AboutToGo
  <2>3. \A i \in Jobs : job'[i].at = "save" => job'[i].backup \in archives'
    BY <1>0, <1>b, <1>e, <2>1
  <2>4. Bereft' \subseteq Bereft \cup {}
    BY <2>1, <2>2 DEF Bereft
  <2>5. IsFiniteSet({}) /\ Cardinality({}) <= Cardinality(Jobs)
    BY FS_EmptySet, JobsAreCounted
  <2> QED
    BY <1>0, <2>1, <2>3, <2>4, <2>5, MoreBereft
<1>5. ASSUME NEW j \in Jobs, Backup!SaveBackupInfo(j) PROVE ArchiveInv'
  <2>1. /\ job[j].at = "save" /\ Backup!Goto(j, "retain")
        /\ UNCHANGED <<table, archives, partial, backupFaults>>
    BY <1>5 DEF Backup!SaveBackupInfo
  <2>2. CASE UNCHANGED catalogue
    BY <1>d, <2>1, <2>2
  <2>3. CASE Backup!Insert(job[j].backup)
    <3>1. \A b : AboutToGo(b) => AboutToGo(b)'
      BY <1>a, <2>1 DEF AboutToGo
    <3>2. Rows(catalogue') = Rows(catalogue) \cup {job[j].backup}
      <4>1. job[j].backup \in Nat /\ job[j].backup \notin Rows(inserted) /\ UNCHANGED withdrawn
        BY <1>0, <1>5, <2>1 DEF BackupTypes, BackupRequest, Backup!SaveBackupInfo
      <4> QED
        BY <2>3, <4>1, RowInserted
    <3>3. \A i \in Jobs : job'[i].at = "save" => job'[i].backup \in archives'
      BY <1>0, <1>a, <2>1
    <3>4. Bereft' \subseteq Bereft
      BY <1>0, <2>1, <3>1, <3>2 DEF Bereft
    <3> QED
      BY <1>0, <2>1, <3>3, <3>4, NoMoreBereft
  <2> QED
    BY <1>5, <2>2, <2>3 DEF Backup!SaveBackupInfo
<1>6. ASSUME NEW j \in Jobs, Backup!SaveFails(j) PROVE ArchiveInv'
  <2>1. /\ Backup!Fault /\ Backup!Goto(j, "retain") /\ job[j].at # "row"
        /\ UNCHANGED <<table, catalogue, archives, partial>>
    BY <1>6 DEF Backup!SaveFails
  <2>2. \A b : AboutToGo(b) => AboutToGo(b)'
    BY <1>a, <2>1 DEF AboutToGo
  <2>3. \A i \in Jobs : job'[i].at = "save" => job'[i].backup \in archives'
    BY <1>0, <1>a, <2>1
  <2>4. Bereft' \subseteq Bereft \cup {}
    BY <2>1, <2>2 DEF Bereft
  <2>5. IsFiniteSet({}) /\ Cardinality({}) <= Cardinality(Jobs)
    BY FS_EmptySet, JobsAreCounted
  <2> QED
    BY <1>0, <2>1, <2>3, <2>4, <2>5, MoreBereft
<1>7. ASSUME NEW j \in Jobs, Backup!CleanupOldBackups(j) PROVE ArchiveInv'
  BY <1>7, <1>c, OldBackupsOutlived DEF Backup!CleanupOldBackups
<1>8. ASSUME NEW j \in Jobs, Backup!DeleteRequest(j) PROVE ArchiveInv'
  <2>1. PICK b \in Rows(catalogue) : Backup!DeleteEach(j, <<b>>)
    BY <1>8, RowsAre DEF Backup!DeleteRequest
  <2>2. b \in Nat
    BY <1>0, SeqDomain DEF Rows, BackupTypes
  <2>3. <<b>> \in Seq(Nat)
    BY <2>2
  <2> QED
    BY <1>8, <1>c, <2>1, <2>3 DEF Backup!DeleteRequest
<1>9. ASSUME NEW j \in Jobs, Backup!SelectBackup(j) PROVE ArchiveInv'
  <2>1. /\ job[j].at = "select" /\ Tail(job[j].doomed) \in Seq(Nat)
        /\ UNCHANGED <<table, catalogue, archives, partial, backupFaults>>
    BY <1>9, TheRestOfDoomed DEF Backup!SelectBackup
  <2> QED
    BY <1>9, <1>c, <1>d, <2>1 DEF Backup!SelectBackup
<1>10. ASSUME NEW j \in Jobs, Backup!RemoveFile(j) PROVE ArchiveInv'
  <2>1. /\ job[j].at = "file" /\ Backup!Goto(j, "row")
        /\ archives' = archives \ {Backup!Doomed(j)}
        /\ UNCHANGED <<table, catalogue, partial, backupFaults>>
        /\ Backup!Doomed(j) \in Rows(inserted)
    BY <1>10, TheRestOfDoomed DEF Backup!RemoveFile
  <2>2. \A b : AboutToGo(b) \/ b = Backup!Doomed(j) => AboutToGo(b)'
    BY <1>a, <2>1 DEF AboutToGo
  <2>3. \A i \in Jobs : job'[i].at = "save" => job'[i].backup \in archives'
    BY <1>0, <1>a, <2>1
  <2>4. Bereft' \subseteq Bereft
    BY <2>1, <2>2 DEF Bereft
  <2> QED
    BY <1>0, <2>1, <2>3, <2>4, NoMoreBereft
<1>11. ASSUME NEW j \in Jobs, Backup!RemoveRow(j) PROVE ArchiveInv'
  <2>1. /\ job[j].at = "row" /\ Backup!DeleteEach(j, Tail(job[j].doomed))
        /\ Tail(job[j].doomed) \in Seq(Nat)
        /\ UNCHANGED <<table, archives, partial, inserted, withdrawn, backupFaults>>
    BY <1>11, TheRestOfDoomed DEF Backup!RemoveRow
  <2>2. \A b : AboutToGo(b) => AboutToGo(b)' \/ b = Backup!Doomed(j)
    BY <1>b, <2>1 DEF AboutToGo
  <2>3. Rows(catalogue') = Rows(catalogue) \ {Backup!Doomed(j)}
    <3>1. ASSUME NEW i \in DOMAIN catalogue, catalogue[i] = Backup!Doomed(j),
                 catalogue' = Backup!RemoveAt(catalogue, i)
          PROVE  Rows(catalogue') = Rows(catalogue) \ {Backup!Doomed(j)}
      BY <2>1, <3>1, TheRestOfDoomed, RowRemoved
    <3>2. CASE Backup!Doomed(j) \notin Rows(catalogue) /\ UNCHANGED catalogue
      BY <3>2
    <3> QED
      BY <1>11, <3>1, <3>2, RowsAre DEF Backup!RemoveRow
  <2>4. \A i \in Jobs : job'[i].at = "save" => job'[i].backup \in archives'
    BY <1>0, <1>b, <2>1
  <2>5. Bereft' \subseteq Bereft
    BY <2>1, <2>2, <2>3 DEF Bereft
  <2> QED
    BY <1>0, <2>1, <2>4, <2>5, NoMoreBereft
<1>12. ASSUME NEW j \in Jobs, Backup!DeleteFails(j) PROVE ArchiveInv'
  <2>1. /\ job[j].at \in Deleting /\ Backup!DeleteEach(j, Tail(job[j].doomed))
        /\ Tail(job[j].doomed) \in Seq(Nat) /\ Backup!Fault
        /\ UNCHANGED <<table, catalogue, archives, partial>>
    BY <1>12, TheRestOfDoomed DEF Backup!DeleteFails
  <2>2. \A b : AboutToGo(b) => AboutToGo(b)' \/ b = Backup!Doomed(j)
    BY <1>b, <2>1 DEF AboutToGo
  <2>3. \A i \in Jobs : job'[i].at = "save" => job'[i].backup \in archives'
    BY <1>0, <1>b, <2>1
  <2>4. Bereft' \subseteq Bereft \cup {Backup!Doomed(j)}
    BY <2>1, <2>2 DEF Bereft
  <2>5. IsFiniteSet({Backup!Doomed(j)}) /\ Cardinality({Backup!Doomed(j)}) <= Cardinality(Jobs)
    BY OneMore
  <2> QED
    BY <1>0, <2>1, <2>3, <2>4, <2>5, MoreBereft
<1>13. CASE Backup!InstantBackup
  <2>1. table = "init" /\ UNCHANGED <<table, archives, partial, job, backupFaults>>
    BY <1>13 DEF Backup!InstantBackup
  <2> QED
    BY <1>0, <2>1, NoMoreBereft
<1>14. CASE Backup!ExitDuringBackup
  <2> DEFINE More == {Backup!Doomed(j) : j \in Jobs}
  <2>1. /\ Backup!Fault /\ job' = [j \in Jobs |-> Backup!Idle]
        /\ UNCHANGED <<table, catalogue, archives, partial>>
    BY <1>14 DEF Backup!ExitDuringBackup
  <2>2. \A b : AboutToGo(b) => b \in More
    BY DEF AboutToGo
  <2>3. Bereft' \subseteq Bereft \cup More
    BY <2>1, <2>2 DEF Bereft
  <2>4. IsFiniteSet(More) /\ Cardinality(More) <= Cardinality(Jobs)
    <3> DEFINE f == [j \in Jobs |-> Backup!Doomed(j)]
    <3>1. f \in Surjection(Jobs, More)
      BY DEF Surjection
    <3> QED
      BY <3>1, JobsAreCounted, FS_Surjection
  <2>5. \A i \in Jobs : job'[i].at = "save" => job'[i].backup \in archives'
    BY <2>1 DEF Backup!Idle
  <2> HIDE DEF More
  <2> QED
    BY <1>0, <2>1, <2>3, <2>4, <2>5, MoreBereft
<1> QED
  BY <1>1, <1>2, <1>3, <1>4, <1>5, <1>6, <1>7, <1>8, <1>9, <1>10, <1>11, <1>12, <1>13, <1>14
  DEF Backup!Next

LEMMA ArchiveInit == Init => ArchiveInv
<1> SUFFICES ASSUME Init PROVE ArchiveInv
  OBVIOUS
<1>1. /\ job = [j \in Jobs |-> Backup!Idle] /\ backupFaults = 0
      /\ catalogue = <<>> /\ partial = {}
  BY DEF Init, Backup!Init
<1>2. Bereft = {}
  BY <1>1 DEF Bereft, Rows
<1>3. Cardinality(Jobs) * backupFaults = 0
  BY <1>1, JobsAreCounted
<1> QED
  BY <1>1, <1>2, <1>3, FS_EmptySet DEF ArchiveInv, Backup!Idle

LEMMA BackupCardinality == \A S : Backup!Cardinality(S) = Cardinality(S)
  BY DEF Backup!Cardinality, Cardinality

\* A listed full backup has its archive, whole, but for the rows about to be
\* deleted and at most one per request for every fault (backupService.ts:576-579,
\* 630-633).
THEOREM ArchiveHolds == Spec => []RowHasFile
<1>1. CatalogueInv /\ ArchiveInv /\ [Next]_vars => CatalogueInv' /\ ArchiveInv'
  <2> SUFFICES ASSUME CatalogueInv, ArchiveInv, [Next]_vars PROVE CatalogueInv' /\ ArchiveInv'
    OBVIOUS
  <2>1. CASE Backup!Next
    BY <2>1, CatalogueStep, ArchiveStep
  <2>2. CASE UNCHANGED backupVars
    BY <2>2, CatalogueStays
    DEF backupVars, ArchiveInv, Bereft, AboutToGo, Backup!Doomed
  <2> QED
    BY <2>1, <2>2 DEF Next, vars
<1>2. ArchiveInv => RowHasFile
  <2> SUFFICES ASSUME ArchiveInv, table = "migration" PROVE RowHasFile
    BY DEF RowHasFile, Backup!RowHasFile
  <2> DEFINE lost == {b \in Rows(catalogue) \ (archives \ partial) :
                        \A j \in Jobs : ~(job[j].at = "row" /\ Backup!Doomed(j) = b)}
  <2>1. RowHasFile <=> Cardinality(lost) <= Cardinality(Jobs) * backupFaults
    BY RowsAre, BackupCardinality DEF RowHasFile, Backup!RowHasFile
  <2>2. lost \subseteq Bereft
    BY DEF Bereft, AboutToGo
  <2> HIDE DEF lost
  <2>3. /\ IsFiniteSet(Bereft) /\ Cardinality(Bereft) <= Cardinality(Jobs) * backupFaults
        /\ Cardinality(Jobs) * backupFaults \in Nat
    BY JobsAreCounted DEF ArchiveInv
  <2>4. /\ Cardinality(lost) <= Cardinality(Bereft)
        /\ Cardinality(lost) \in Nat /\ Cardinality(Bereft) \in Nat
    BY <2>2, <2>3, FS_Subset, FS_CardinalityType
  <2> QED
    BY <2>1, <2>3, <2>4
<1> QED
  BY CatalogueInit, ArchiveInit, <1>1, <1>2, PTL DEF Spec

-----------------------------------------------------------------------------
(***************************************************************************)
(* The favorites.                                                          *)
(***************************************************************************)
\* The rows the client has missed so far: those before the page it is at.
Passed == Favorite!Offset(reader.page, PageLimit)
Missed == {p \in steady \ got : \E i \in DOMAIN favorites : favorites[i] = p /\ i <= Passed}

\* Every row missed costs a change, and so does every row by which the list has
\* outgrown the last count.
FavoritesInv ==
    /\ favorites \in Seq(Products) /\ Favorite!IsInjective(favorites)
    /\ steady \subseteq Rows(favorites)
    /\ changes \in Nat
    /\ reader \in [at : {"idle", "count", "select"}, page : Nat, total : Nat]
    /\ reader.at # "idle" => reader.page > 0
    /\ reader.at = "idle" => Cardinality(steady \ got) <= changes
    /\ reader.at # "idle" => Cardinality(Missed) <= changes
    /\ reader.at = "select" => Cardinality(Missed) + Len(favorites) - reader.total <= changes

LEMMA FavoriteRows == \A s : Favorite!ToSet(s) = Rows(s)
  BY DEF Favorite!ToSet, Rows

LEMMA PageLimitType == PageLimit \in Nat \ {0} /\ IsFiniteSet(Products)
  BY ServicesAssumption

LEMMA FavoriteSets ==
  ASSUME FavoritesInv
  PROVE  /\ Len(favorites) \in Nat /\ DOMAIN favorites = 1..Len(favorites)
         /\ Rows(favorites) \subseteq Products
         /\ IsFiniteSet(steady \ got) /\ Cardinality(steady \ got) \in Nat
         /\ IsFiniteSet(Missed) /\ Cardinality(Missed) \in Nat
         /\ Passed \in Int
<1>1. Len(favorites) \in Nat /\ DOMAIN favorites = 1..Len(favorites) /\ Rows(favorites) \subseteq Products
  BY SeqDomain DEF FavoritesInv, Rows
<1>2. steady \ got \subseteq Products /\ Missed \subseteq Products
  BY <1>1 DEF FavoritesInv, Missed
<1>3. Passed \in Int
  <2>1. reader.page - 1 \in Int /\ PageLimit \in Int
    BY PageLimitType DEF FavoritesInv
  <2> QED
    BY <2>1 DEF Passed, Favorite!Offset
<1> QED
  BY <1>1, <1>2, <1>3, PageLimitType, FS_Subset, FS_CardinalityType

\* Adding a product moves rows away from the pages that were read.
LEMMA FavoriteAdded ==
  ASSUME FavoritesInv, NEW p \in Products, Favorite!AddFavorite(p)
  PROVE  /\ favorites' \in Seq(Products) /\ Favorite!IsInjective(favorites')
         /\ Len(favorites') = Len(favorites) + 1
         /\ steady' \subseteq Rows(favorites')
         /\ Missed' \subseteq Missed
<1>1. p \notin Rows(favorites) /\ favorites' = <<p>> \o favorites /\ UNCHANGED <<reader, got, steady>>
  BY FavoriteRows DEF Favorite!AddFavorite
<1>2. /\ Len(favorites) \in Nat /\ DOMAIN favorites = 1..Len(favorites) /\ Passed \in Int
      /\ favorites \in Seq(Products)
  BY FavoriteSets DEF FavoritesInv
<1>3. /\ favorites' \in Seq(Products) /\ Len(favorites') = Len(favorites) + 1
      /\ favorites'[1] = p
      /\ \A i \in 1..Len(favorites) : favorites'[i + 1] = favorites[i]
  <2>1. <<p>> \in Seq(Products) /\ Len(<<p>>) = 1 /\ <<p>>[1] = p
    OBVIOUS
  <2> DEFINE one == <<p>>
  <2> HIDE DEF one
  <2>2. /\ one \o favorites \in Seq(Products)
        /\ Len(one \o favorites) = 1 + Len(favorites)
        /\ \A i \in 1..(1 + Len(favorites)) :
              (one \o favorites)[i] = IF i <= 1 THEN one[i] ELSE favorites[i - 1]
    BY <1>2, <2>1, ConcatProperties DEF one
  <2>3. favorites' = one \o favorites /\ one[1] = p
    BY <1>1, <2>1 DEF one
  <2>4. ASSUME NEW i \in 1..Len(favorites)
        PROVE  favorites'[i + 1] = favorites[i]
    <3>1. i + 1 \in 1..(1 + Len(favorites)) /\ ~(i + 1 <= 1) /\ (i + 1) - 1 = i
      BY <1>2
    <3> QED
      BY <2>2, <2>3, <3>1
  <2>5. 1 \in 1..(1 + Len(favorites))
    BY <1>2
  <2> QED
    BY <1>2, <2>2, <2>3, <2>4, <2>5
<1>4. DOMAIN favorites' = 1..(Len(favorites) + 1)
  BY <1>3, SeqDomain
<1>5. ASSUME NEW i \in DOMAIN favorites'
      PROVE  i = 1 \/ (i - 1 \in 1..Len(favorites) /\ favorites'[i] = favorites[i - 1])
  <2>1. i = 1 \/ i - 1 \in 1..Len(favorites)
    BY <1>2, <1>4
  <2>2. (i - 1) + 1 = i
    BY <1>4
  <2> QED
    BY <1>3, <2>1, <2>2
<1>6. Favorite!IsInjective(favorites')
  <2> SUFFICES ASSUME NEW i \in DOMAIN favorites', NEW k \in DOMAIN favorites',
                      favorites'[i] = favorites'[k]
               PROVE  i = k
    BY DEF Favorite!IsInjective
  <2>1. \A m, n \in 1..Len(favorites) : favorites[m] = favorites[n] => m = n
    BY <1>2 DEF FavoritesInv, Favorite!IsInjective
  <2>2. \A m \in 1..Len(favorites) : favorites[m] # p
    BY <1>1, <1>2 DEF Rows
  <2>3. i \in Int /\ k \in Int
    BY <1>4
  <2> QED
    BY <1>3, <1>5, <2>1, <2>2, <2>3, SMTT(30)
<1>7. steady' \subseteq Rows(favorites')
  <2>1. \A i \in 1..Len(favorites) : i + 1 \in DOMAIN favorites'
    BY <1>2, <1>4
  <2>2. Rows(favorites) \subseteq Rows(favorites')
    BY <1>2, <1>3, <2>1 DEF Rows
  <2> QED
    BY <1>1, <2>2 DEF FavoritesInv
<1>8. Missed' \subseteq Missed
  <2> SUFFICES ASSUME NEW q \in steady \ got, NEW i \in DOMAIN favorites',
                      favorites'[i] = q, i <= Passed
               PROVE  \E k \in DOMAIN favorites : favorites[k] = q /\ k <= Passed
    BY <1>1 DEF Missed, Passed
  <2>1. q # p
    BY <1>1 DEF FavoritesInv
  <2>2. i - 1 \in 1..Len(favorites) /\ favorites[i - 1] = q
    BY <1>3, <1>5, <2>1
  <2>3. i - 1 <= Passed
    BY <1>2, <1>4
  <2> QED
    BY <1>2, <2>2, <2>3
<1> QED
  BY <1>3, <1>6, <1>7, <1>8

\* Removing one moves at most one row to the pages that were read.
LEMMA FavoriteRemoved ==
  ASSUME FavoritesInv, NEW p \in Products, Favorite!RemoveFavorite(p)
  PROVE  /\ favorites' \in Seq(Products) /\ Favorite!IsInjective(favorites')
         /\ Len(favorites') = Len(favorites) - 1
         /\ steady' \subseteq Rows(favorites')
         /\ \E x : Missed' \subseteq Missed \cup {x}
<1>1. PICK d \in DOMAIN favorites : favorites[d] = p /\ favorites' = Favorite!RemoveAt(favorites, d)
  BY DEF Favorite!RemoveFavorite
<1>2. /\ Len(favorites) \in Nat /\ DOMAIN favorites = 1..Len(favorites) /\ Passed \in Int
      /\ favorites \in Seq(Products)
      /\ steady' = steady \ {p} /\ UNCHANGED <<reader, got>>
  BY FavoriteSets DEF FavoritesInv, Favorite!RemoveFavorite
<1>3. /\ favorites' \in Seq(Products)
      /\ Len(favorites') = Len(favorites) - 1
      /\ \A k \in 1..(Len(favorites) - 1) :
            favorites'[k] = IF k < d THEN favorites[k] ELSE favorites[k + 1]
  <2>1. d \in 1..Len(favorites)
    BY <1>2
  <2> QED
    BY <1>1, <1>2, <2>1, WithoutOne DEF Favorite!RemoveAt
<1>4. DOMAIN favorites' = 1..(Len(favorites) - 1)
  BY <1>2, <1>3, SeqDomain
<1>5. \A m, n \in 1..Len(favorites) : favorites[m] = favorites[n] => m = n
  BY <1>2 DEF FavoritesInv, Favorite!IsInjective
<1>6. ASSUME NEW k \in DOMAIN favorites'
      PROVE  /\ k \in 1..Len(favorites) /\ k + 1 \in 1..Len(favorites)
             /\ k < d => favorites'[k] = favorites[k]
             /\ ~(k < d) => favorites'[k] = favorites[k + 1]
  BY <1>2, <1>3, <1>4
<1>7. Favorite!IsInjective(favorites')
  <2> SUFFICES ASSUME NEW i \in DOMAIN favorites', NEW k \in DOMAIN favorites',
                      favorites'[i] = favorites'[k]
               PROVE  i = k
    BY DEF Favorite!IsInjective
  <2>1. i \in Int /\ k \in Int /\ d \in Int
    BY <1>2, <1>4
  <2>2. CASE i < d /\ k < d
    BY <1>5, <1>6, <2>2
  <2>3. CASE ~(i < d) /\ ~(k < d)
    <3>1. i + 1 = k + 1
      BY <1>5, <1>6, <2>3
    <3> QED
      BY <2>1, <3>1
  <2>4. CASE i < d /\ ~(k < d)
    <3>1. i = k + 1
      BY <1>5, <1>6, <2>4
    <3> QED
      BY <2>1, <2>4, <3>1
  <2>5. CASE ~(i < d) /\ k < d
    <3>1. i + 1 = k
      BY <1>5, <1>6, <2>5
    <3> QED
      BY <2>1, <2>5, <3>1
  <2> QED
    BY <2>2, <2>3, <2>4, <2>5
<1>8. steady' \subseteq Rows(favorites')
  <2> SUFFICES ASSUME NEW q \in steady, q # p PROVE q \in Rows(favorites')
    BY <1>2
  <2>1. PICK i \in 1..Len(favorites) : favorites[i] = q
    BY <1>2 DEF FavoritesInv, Rows
  <2>2. i # d
    BY <1>1, <2>1
  <2>3. CASE i < d
    <3>1. i \in DOMAIN favorites'
      BY <1>2, <1>4, <2>3
    <3> QED
      BY <1>6, <2>1, <2>3, <3>1 DEF Rows
  <2>4. CASE i > d
    <3>1. i - 1 \in DOMAIN favorites' /\ ~(i - 1 < d) /\ (i - 1) + 1 = i
      BY <1>2, <1>4, <2>4
    <3>2. favorites'[i - 1] = q
      BY <1>6, <2>1, <3>1
    <3> QED
      BY <3>1, <3>2 DEF Rows
  <2> QED
    BY <1>2, <2>1, <2>2, <2>3, <2>4
<1>9. \E x : Missed' \subseteq Missed \cup {x}
  <2> WITNESS favorites[Passed + 1]
  <2> SUFFICES ASSUME NEW q \in (steady \ {p}) \ got, NEW i \in DOMAIN favorites',
                      favorites'[i] = q, i <= Passed, q # favorites[Passed + 1]
               PROVE  \E k \in DOMAIN favorites : favorites[k] = q /\ k <= Passed
    BY <1>2 DEF Missed, Passed
  <2>1. CASE i < d
    BY <1>2, <1>6, <2>1
  <2>2. CASE ~(i < d)
    <3>1. favorites[i + 1] = q /\ i + 1 \in DOMAIN favorites
      BY <1>2, <1>6, <2>2
    <3>2. i + 1 # Passed + 1
      BY <3>1
    <3>3. i + 1 <= Passed
      BY <1>2, <1>4, <3>2
    <3> QED
      BY <3>1, <3>3
  <2> QED
    BY <2>1, <2>2
<1> QED
  BY <1>3, <1>7, <1>8, <1>9

LEMMA CardinalityGrows ==
  ASSUME NEW S, NEW T, NEW x, IsFiniteSet(S), T \subseteq S \cup {x}
  PROVE  IsFiniteSet(T) /\ Cardinality(T) \in Nat /\ Cardinality(S) \in Nat
         /\ Cardinality(T) <= Cardinality(S) + 1
<1>1. /\ IsFiniteSet(S \cup {x}) /\ Cardinality(S) \in Nat
      /\ Cardinality(S \cup {x}) \in {Cardinality(S), Cardinality(S) + 1}
  BY FS_AddElement, FS_CardinalityType
<1>2. IsFiniteSet(T) /\ Cardinality(T) <= Cardinality(S \cup {x}) /\ Cardinality(T) \in Nat
  BY <1>1, FS_Subset, FS_CardinalityType
<1> QED
  BY <1>1, <1>2

\* The pages up to one without a next hold as many rows as were counted.
LEMMA LastPage ==
  ASSUME NEW limit \in Nat \ {0}, NEW page \in Nat \ {0}, NEW total \in Nat,
         ~Favorite!HasNext(page, total, limit)
  PROVE  total <= page * limit /\ page * limit \in Nat
<1> DEFINE m == total + limit - 1
           n == m \div limit
<1>1. m \in Nat /\ n <= page
  <2>1. m \div limit \in Nat
    <3>1. m \in Nat
      OBVIOUS
    <3> HIDE DEF m
    <3> QED
      BY <3>1, Z3
  <2> QED
    BY <2>1 DEF Favorite!HasNext, Favorite!TotalPages
<1>2. n \in Nat /\ m < n * limit + limit /\ n * limit \in Nat
  <2> HIDE DEF m
  <2> QED
    BY <1>1, Z3
<1> HIDE DEF n
<1>3. page * limit \in Nat /\ n * limit <= page * limit
  BY <1>1, <1>2
<1> QED
  BY <1>2, <1>3

\* The rows from a position on.
LEMMA RowsBeyond ==
  ASSUME NEW S, NEW s \in Seq(S), NEW n \in Nat
  PROVE  LET beyond == {s[i] : i \in (n + 1)..Len(s)}
         IN  /\ IsFiniteSet(beyond) /\ Cardinality(beyond) \in Nat
             /\ Cardinality(beyond) <= IF Len(s) <= n THEN 0 ELSE Len(s) - n
<1> DEFINE I == (n + 1)..Len(s)
           beyond == {s[i] : i \in I}
           f == [i \in I |-> s[i]]
<1>1. Len(s) \in Nat
  BY SeqDomain
<1>2. f \in Surjection(I, beyond)
  BY DEF Surjection
<1>3. IsFiniteSet(I) /\ Cardinality(I) = IF n + 1 > Len(s) THEN 0 ELSE Len(s) - (n + 1) + 1
  <2> DEFINE a == n + 1
             b == Len(s)
  <2>1. a \in Int /\ b \in Int
    BY <1>1
  <2> HIDE DEF a, b
  <2>2. IsFiniteSet(a..b) /\ Cardinality(a..b) = IF a > b THEN 0 ELSE b - a + 1
    BY <2>1, FS_Interval
  <2> QED
    BY <2>2 DEF a, b
<1>4. IsFiniteSet(beyond) /\ Cardinality(beyond) <= Cardinality(I)
  BY <1>2, <1>3, FS_Surjection
<1>5. Cardinality(beyond) \in Nat
  BY <1>4, FS_CardinalityType
<1>6. Cardinality(I) <= IF Len(s) <= n THEN 0 ELSE Len(s) - n
  BY <1>1, <1>3
<1> QED
  <2> HIDE DEF I
  <2>1. /\ IsFiniteSet(beyond) /\ Cardinality(beyond) \in Nat
        /\ Cardinality(beyond) <= IF Len(s) <= n THEN 0 ELSE Len(s) - n
    <3> HIDE DEF beyond
    <3> QED
      BY <1>1, <1>3, <1>4, <1>5, <1>6
  <2> QED
    BY <2>1 DEF I

LEMMA FavoritesStep == ASSUME FavoritesInv, Favorite!Next PROVE FavoritesInv'
<1>0. /\ IsFiniteSet(Missed) /\ Cardinality(Missed) \in Nat
      /\ IsFiniteSet(steady \ got) /\ Cardinality(steady \ got) \in Nat
      /\ Len(favorites) \in Nat /\ DOMAIN favorites = 1..Len(favorites)
      /\ reader.page \in Nat /\ reader.total \in Nat /\ changes \in Nat
  BY FavoriteSets DEF FavoritesInv
<1>1. ASSUME NEW p \in Products, Favorite!AddFavorite(p) PROVE FavoritesInv'
  <2>1. /\ favorites' \in Seq(Products) /\ Favorite!IsInjective(favorites')
        /\ Len(favorites') = Len(favorites) + 1
        /\ steady' \subseteq Rows(favorites')
        /\ Missed' \subseteq Missed
    BY <1>1, FavoriteAdded
  <2>2. Cardinality(Missed') <= Cardinality(Missed) /\ Cardinality(Missed') \in Nat
    BY <1>0, <2>1, FS_Subset, FS_CardinalityType
  <2>3. /\ UNCHANGED <<reader, got, steady>>
        /\ IF reader.at = "idle" THEN changes' = changes ELSE changes' = changes + 1
    BY <1>1 DEF Favorite!AddFavorite, Favorite!Change
  <2>4. CASE reader.at = "idle"
    BY <1>0, <2>1, <2>3, <2>4 DEF FavoritesInv
  <2>5. CASE reader.at # "idle"
    <3>1. changes' \in Nat /\ Cardinality(Missed') <= changes'
      BY <1>0, <2>2, <2>3, <2>5 DEF FavoritesInv
    <3>2. reader.at = "select" => Cardinality(Missed') + Len(favorites') - reader.total <= changes'
      BY <1>0, <2>1, <2>2, <2>3, <2>5 DEF FavoritesInv
    <3> QED
      BY <2>1, <2>3, <2>5, <3>1, <3>2 DEF FavoritesInv
  <2> QED
    BY <2>4, <2>5
<1>2. ASSUME NEW p \in Products, Favorite!RemoveFavorite(p) PROVE FavoritesInv'
  <2>1. /\ favorites' \in Seq(Products) /\ Favorite!IsInjective(favorites')
        /\ Len(favorites') = Len(favorites) - 1
        /\ steady' \subseteq Rows(favorites')
        /\ \E x : Missed' \subseteq Missed \cup {x}
    BY <1>2, FavoriteRemoved
  <2>2. Cardinality(Missed') <= Cardinality(Missed) + 1 /\ Cardinality(Missed') \in Nat
    BY <1>0, <2>1, CardinalityGrows
  <2>3. /\ UNCHANGED <<reader, got>> /\ steady' = steady \ {p}
        /\ IF reader.at = "idle" THEN changes' = changes ELSE changes' = changes + 1
    BY <1>2 DEF Favorite!RemoveFavorite, Favorite!Change
  <2>4. CASE reader.at = "idle"
    <3>1. Cardinality(steady' \ got') <= Cardinality(steady \ got) /\ Cardinality(steady' \ got') \in Nat
      <4>1. steady' \ got' \subseteq steady \ got
        BY <2>3
      <4> QED
        BY <1>0, <4>1, FS_Subset, FS_CardinalityType
    <3>2. Cardinality(steady' \ got') <= changes'
      BY <1>0, <2>3, <2>4, <3>1 DEF FavoritesInv
    <3> QED
      BY <1>0, <2>1, <2>3, <2>4, <3>2 DEF FavoritesInv
  <2>5. CASE reader.at # "idle"
    <3>1. changes' \in Nat /\ Cardinality(Missed') <= changes'
      BY <1>0, <2>2, <2>3, <2>5 DEF FavoritesInv
    <3>2. reader.at = "select" => Cardinality(Missed') + Len(favorites') - reader.total <= changes'
      BY <1>0, <2>1, <2>2, <2>3, <2>5, SMTT(30) DEF FavoritesInv
    <3> QED
      BY <2>1, <2>3, <2>5, <3>1, <3>2 DEF FavoritesInv
  <2> QED
    BY <2>4, <2>5
<1>3. CASE Favorite!BeginReading
  <2>1. /\ reader' = [at |-> "count", page |-> 1, total |-> 0]
        /\ got' = {} /\ steady' = Rows(favorites) /\ changes' = 0 /\ UNCHANGED favorites
    BY <1>3, FavoriteRows DEF Favorite!BeginReading
  <2>2. Passed' = 0
    <3>1. PageLimit \in Nat
      BY PageLimitType
    <3> QED
      BY <2>1, <3>1 DEF Passed, Favorite!Offset
  <2>3. Missed' = {}
    BY <1>0, <2>1, <2>2 DEF Missed
  <2>4. Cardinality(Missed') = 0
    BY <2>3, FS_EmptySet
  <2> QED
    BY <2>1, <2>4 DEF FavoritesInv, Favorite!IsInjective
<1>4. CASE Favorite!CountFavorites
  <2>1. /\ reader.at = "count"
        /\ reader' = [reader EXCEPT !.at = "select", !.total = Len(favorites)]
        /\ UNCHANGED <<favorites, got, steady, changes>>
    BY <1>4 DEF Favorite!CountFavorites
  <2>2. /\ reader'.at = "select" /\ reader'.page = reader.page /\ reader'.total = Len(favorites)
        /\ reader' \in [at : {"idle", "count", "select"}, page : Nat, total : Nat]
    BY <1>0, <2>1 DEF FavoritesInv
  <2>3. Missed' = Missed
    BY <2>1, <2>2 DEF Missed, Passed
  <2> QED
    BY <1>0, <2>1, <2>2, <2>3 DEF FavoritesInv, Favorite!IsInjective
<1>5. CASE Favorite!SelectFavorites
  <2>1. /\ reader.at = "select" /\ got' = got \cup Favorite!PageOf
        /\ UNCHANGED <<favorites, steady, changes>>
        /\ reader' = IF Favorite!HasNext(reader.page, reader.total, PageLimit)
                     THEN [reader EXCEPT !.at = "count", !.page = @ + 1]
                     ELSE Favorite!NotReading
    BY <1>5 DEF Favorite!SelectFavorites
  <2> DEFINE P == reader.page
             L == PageLimit
             next == P * L
  <2>2. /\ P \in Nat \ {0} /\ L \in Nat \ {0} /\ next \in Nat
        /\ Passed = (P - 1) * L /\ (P - 1) * L + L = next
    <3>1. P \in Nat \ {0} /\ L \in Nat \ {0}
      BY <1>0, <2>1, PageLimitType DEF FavoritesInv
    <3>2. Passed = (P - 1) * L
      BY DEF Passed, Favorite!Offset
    <3>3. ASSUME NEW x \in Nat \ {0}, NEW y \in Nat \ {0}
          PROVE  x * y \in Nat /\ (x - 1) * y + y = x * y
      BY Z3
    <3> QED
      BY <3>1, <3>2, <3>3
  <2> HIDE DEF P, L, next
  <2>3. ASSUME NEW i \in 1..Len(favorites), Passed < i, i <= next
        PROVE  favorites[i] \in got'
    <3>1. Favorite!Offset(reader.page, PageLimit) = Passed
      BY DEF Passed
    <3>2. /\ Passed \in Int
          /\ i - 1 \in 0..(Len(favorites) - 1) /\ Passed <= i - 1 /\ i - 1 < Passed + L
      BY <1>0, <2>2, <2>3, FavoriteSets
    <3>3. i - 1 \in Favorite!PageRows(reader.page, Len(favorites), PageLimit)
      BY <3>1, <3>2 DEF Favorite!PageRows, L
    <3>4. favorites[(i - 1) + 1] \in Favorite!PageOf
      BY <3>3 DEF Favorite!PageOf
    <3>5. (i - 1) + 1 = i
      BY <1>0
    <3> QED
      BY <2>1, <3>4, <3>5
  <2>4. Cardinality(Missed) <= changes /\ Cardinality(Missed) + Len(favorites) - reader.total <= changes
    BY <2>1 DEF FavoritesInv
  <2>5. CASE Favorite!HasNext(reader.page, reader.total, PageLimit)
    <3>1. /\ reader'.at = "count" /\ reader'.page = P + 1
          /\ reader' \in [at : {"idle", "count", "select"}, page : Nat, total : Nat]
      <4>1. reader' = [reader EXCEPT !.at = "count", !.page = @ + 1]
        BY <2>1, <2>5
      <4>2. reader \in [at : {"idle", "count", "select"}, page : Nat, total : Nat]
        BY DEF FavoritesInv
      <4>3. reader.page \in Nat /\ reader.page + 1 \in Nat /\ reader.total \in Nat
        BY <4>2
      <4>4. reader' = [at |-> "count", page |-> reader.page + 1, total |-> reader.total]
        BY <4>1, <4>2
      <4>5. /\ reader'.at = "count" /\ reader'.page = reader.page + 1
            /\ reader' \in [at : {"idle", "count", "select"}, page : Nat, total : Nat]
        BY <4>3, <4>4
      <4> QED
        BY <4>5 DEF P
    <3>2. Passed' = next
      <4>1. Passed' = ((P + 1) - 1) * L
        BY <3>1 DEF Passed, Favorite!Offset, L
      <4>2. (P + 1) - 1 = P
        BY <2>2
      <4> QED
        BY <4>1, <4>2 DEF next
    <3>3. Missed' \subseteq Missed
      <4> SUFFICES ASSUME NEW q \in steady \ got', NEW i \in DOMAIN favorites,
                          favorites[i] = q, i <= next
                   PROVE  i <= Passed
        BY <2>1, <3>2 DEF Missed
      <4>1. Passed \in Int
        BY FavoriteSets
      <4> QED
        BY <1>0, <2>2, <2>3, <4>1
    <3>4. Cardinality(Missed') <= Cardinality(Missed) /\ Cardinality(Missed') \in Nat
      BY <1>0, <3>3, FS_Subset, FS_CardinalityType
    <3>5. Cardinality(Missed') <= changes
      BY <1>0, <2>4, <3>4
    <3> QED
      BY <2>1, <2>2, <3>1, <3>5, SMTT(30) DEF FavoritesInv, Favorite!IsInjective
  <2>6. CASE ~Favorite!HasNext(reader.page, reader.total, PageLimit)
    <3> DEFINE beyond == {favorites[i] : i \in (next + 1)..Len(favorites)}
    <3>1. reader' = [at |-> "idle", page |-> 0, total |-> 0]
      BY <2>1, <2>6 DEF Favorite!NotReading
    <3>2. reader.total <= next
      BY <1>0, <2>2, <2>6, LastPage DEF P, L, next
    <3>3. steady' \ got' \subseteq Missed \cup beyond
      <4> SUFFICES ASSUME NEW q \in steady \ got', q \notin beyond PROVE q \in Missed
        BY <2>1
      <4>1. PICK i \in 1..Len(favorites) : favorites[i] = q
        BY <1>0 DEF FavoritesInv, Rows
      <4>2. ~(next < i)
        <5>1. CASE next < i
          <6>1. i \in (next + 1)..Len(favorites)
            BY <1>0, <2>2, <5>1
          <6> QED
            BY <4>1, <6>1
        <5> QED
          BY <5>1
      <4>3. Passed \in Int
        BY FavoriteSets
      <4>4. i <= Passed
        BY <1>0, <2>2, <2>3, <4>1, <4>2, <4>3
      <4>5. q \in steady \ got
        BY <2>1
      <4> QED
        BY <1>0, <4>1, <4>4, <4>5 DEF Missed
    <3>4. /\ IsFiniteSet(beyond) /\ Cardinality(beyond) \in Nat
          /\ Cardinality(beyond) <= IF Len(favorites) <= next THEN 0 ELSE Len(favorites) - next
      BY <2>2, RowsBeyond, SMTT(30) DEF FavoritesInv
    <3> HIDE DEF beyond
    <3>5. /\ IsFiniteSet(Missed \cup beyond)
          /\ Cardinality(Missed \cup beyond) <= Cardinality(Missed) + Cardinality(beyond)
      <4>1. /\ IsFiniteSet(Missed \cup beyond)
            /\ Cardinality(Missed \cup beyond) =
                  Cardinality(Missed) + Cardinality(beyond) - Cardinality(Missed \cap beyond)
            /\ Cardinality(Missed \cap beyond) \in Nat
        BY <1>0, <3>4, FS_Union, FS_Intersection, FS_CardinalityType
      <4> QED
        BY <1>0, <3>4, <4>1
    <3>6. /\ Cardinality(steady' \ got') <= Cardinality(Missed \cup beyond)
          /\ Cardinality(steady' \ got') \in Nat /\ Cardinality(Missed \cup beyond) \in Nat
      BY <3>3, <3>5, FS_Subset, FS_CardinalityType
    <3>7. Cardinality(Missed) + Cardinality(beyond) <= changes
      BY <1>0, <2>2, <2>4, <3>2, <3>4
    <3>8. Cardinality(steady' \ got') <= changes'
      BY <1>0, <2>1, <3>4, <3>5, <3>6, <3>7
    <3>9. /\ reader'.at = "idle"
          /\ reader' \in [at : {"idle", "count", "select"}, page : Nat, total : Nat]
      BY <3>1
    <3>10. favorites' = favorites /\ steady' = steady /\ changes' = changes
      BY <2>1
    <3>11. /\ favorites' \in Seq(Products) /\ Favorite!IsInjective(favorites')
           /\ steady' \subseteq Rows(favorites') /\ changes' \in Nat
      BY <3>10 DEF FavoritesInv, Favorite!IsInjective
    <3> QED
      BY <3>8, <3>9, <3>11 DEF FavoritesInv
  <2> QED
    BY <2>5, <2>6
<1>6. CASE Favorite!GetFavoritesFails
  <2>1. /\ reader.at = "select" /\ reader' = [reader EXCEPT !.at = "count"]
        /\ UNCHANGED <<favorites, got, steady, changes>>
    BY <1>6 DEF Favorite!GetFavoritesFails
  <2>2. /\ reader'.at = "count" /\ reader'.page = reader.page
        /\ reader' \in [at : {"idle", "count", "select"}, page : Nat, total : Nat]
    BY <1>0, <2>1 DEF FavoritesInv
  <2>3. Missed' = Missed
    BY <2>1, <2>2 DEF Missed, Passed
  <2> QED
    BY <1>0, <2>1, <2>2, <2>3 DEF FavoritesInv, Favorite!IsInjective
<1> QED
  BY <1>1, <1>2, <1>3, <1>4, <1>5, <1>6 DEF Favorite!Next

LEMMA FavoritesInit == Init => FavoritesInv
<1> SUFFICES ASSUME Init PROVE FavoritesInv
  OBVIOUS
<1>1. /\ favorites = <<>> /\ got = {} /\ steady = {} /\ changes = 0
      /\ reader = [at |-> "idle", page |-> 0, total |-> 0]
  BY DEF Init, Favorite!Init, Favorite!NotReading
<1>2. favorites \in Seq(Products) /\ Favorite!IsInjective(favorites)
  BY <1>1, EmptySeq DEF Favorite!IsInjective
<1>3. Cardinality(steady \ got) = 0
  BY <1>1, FS_EmptySet
<1> QED
  BY <1>1, <1>2, <1>3 DEF FavoritesInv

LEMMA FavoriteCardinality == \A S : Favorite!Cardinality(S) = Cardinality(S)
  BY DEF Favorite!Cardinality, Cardinality

\* A client that reads the favorites page by page misses no more rows than were
\* added and removed meanwhile, at any number of rows and any size of a page
\* (favoritesService.ts:79-93).
THEOREM MissedHolds == Spec => []MissedBound
<1>1. FavoritesInv /\ [Next]_vars => FavoritesInv'
  <2> SUFFICES ASSUME FavoritesInv, [Next]_vars PROVE FavoritesInv'
    OBVIOUS
  <2>1. CASE Favorite!Next
    BY <2>1, FavoritesStep
  <2>2. CASE UNCHANGED favoriteVars
    BY <2>2 DEF FavoritesInv, favoriteVars, Missed, Passed, Favorite!IsInjective
  <2> QED
    BY <2>1, <2>2 DEF Next, vars
<1>2. FavoritesInv => MissedBound
  BY FavoriteCardinality DEF FavoritesInv, MissedBound, Favorite!MissedBound
<1> QED
  BY FavoritesInit, <1>1, <1>2, PTL DEF Spec

-----------------------------------------------------------------------------
(***************************************************************************)
(* The security monitoring.                                                *)
(***************************************************************************)
\* The checks that have asked for a recent alert, have found none, and are about
\* to insert one.
Inserting == {r \in Rounds : round[r].at = "insert"}

\* Once there is a recent alert nobody comes to insert another: what there will
\* be within the hour is there or about to be inserted.
MonitorInv ==
    /\ DOMAIN round = Rounds
    /\ IsFiniteSet(Monitor!Recent)
    /\ Monitor!HasRecent => Cardinality(Monitor!Recent) + Cardinality(Inserting) <= Cardinality(Rounds)

LEMMA MonitorCardinality == \A S : Monitor!Cardinality(S) = Cardinality(S)
  BY DEF Monitor!Cardinality, Cardinality

LEMMA InsertingIsFinite ==
  /\ IsFiniteSet(Inserting) /\ Cardinality(Inserting) \in Nat
  /\ Cardinality(Rounds) \in Nat
  /\ Cardinality(Inserting) <= Cardinality(Rounds)
<1>1. IsFiniteSet(Rounds) /\ Inserting \in SUBSET Rounds
  BY ServicesAssumption DEF Inserting
<1> QED
  BY <1>1, FS_Subset, FS_CardinalityType

\* Fewer checks about to insert, and no alert that was not there.
LEMMA MonitorKeeps ==
  ASSUME MonitorInv, DOMAIN round' = Rounds, Inserting' \subseteq Inserting,
         Monitor!Recent' \subseteq Monitor!Recent
  PROVE  MonitorInv'
<1>1. IsFiniteSet(Monitor!Recent) /\ IsFiniteSet(Inserting)
  BY InsertingIsFinite DEF MonitorInv
<1>2. /\ IsFiniteSet(Monitor!Recent')
      /\ Cardinality(Monitor!Recent') <= Cardinality(Monitor!Recent)
      /\ Cardinality(Inserting') <= Cardinality(Inserting)
      /\ Cardinality(Monitor!Recent) \in Nat /\ Cardinality(Inserting) \in Nat
      /\ Cardinality(Monitor!Recent') \in Nat /\ Cardinality(Inserting') \in Nat
  BY <1>1, FS_Subset, FS_CardinalityType
<1>3. Monitor!HasRecent' => Monitor!HasRecent
  BY DEF Monitor!HasRecent
<1> QED
  BY <1>2, <1>3, InsertingIsFinite DEF MonitorInv

\* A check that goes to another step than the insertion.
LEMMA MonitorGoes ==
  ASSUME MonitorInv, NEW r \in Rounds, NEW step, step.at # "insert", Monitor!Goto(r, step),
         UNCHANGED recent
  PROVE  MonitorInv'
<1>1. DOMAIN round' = Rounds /\ \A s \in Rounds : round'[s] = round[s] \/ round'[s] = step
  BY DEF Monitor!Goto, MonitorInv
<1>2. Inserting' \subseteq Inserting
  BY <1>1 DEF Inserting
<1> QED
  BY <1>1, <1>2, MonitorKeeps DEF Monitor!Recent

LEMMA MonitorAfter == \A i : Monitor!After(i).at # "insert"
  BY DEF Monitor!After, Monitor!At

LEMMA MonitorInsert ==
  ASSUME MonitorInv, NEW r \in Rounds, Monitor!InsertAlert(r)
  PROVE  MonitorInv'
<1>1. PICK new : 
         /\ new \notin Monitor!Recent
         /\ recent' = [id \in Monitor!Recent \cup {new} |->
                           IF id = new THEN AlertLife ELSE recent[id]]
  BY DEF Monitor!InsertAlert
<1>2. /\ Monitor!Recent' = Monitor!Recent \cup {new}
      /\ new \notin Monitor!Recent
  BY <1>1 DEF Monitor!Recent
<1>3. /\ IsFiniteSet(Monitor!Recent')
      /\ Cardinality(Monitor!Recent') = Cardinality(Monitor!Recent) + 1
      /\ Cardinality(Monitor!Recent) \in Nat
  BY <1>2, FS_AddElement, FS_CardinalityType DEF MonitorInv
<1>4. DOMAIN round' = Rounds /\ r \in Inserting /\ Inserting' \subseteq Inserting \ {r}
  <2>1. round' = [round EXCEPT ![r] = Monitor!After(round[r].look)]
    BY DEF Monitor!InsertAlert, Monitor!Goto
  <2>2. Monitor!After(round[r].look).at # "insert"
    BY MonitorAfter
  <2> QED
    BY <2>1, <2>2 DEF Inserting, Monitor!InsertAlert, MonitorInv
<1>5. /\ Cardinality(Inserting \ {r}) = Cardinality(Inserting) - 1
      /\ Cardinality(Inserting') <= Cardinality(Inserting \ {r})
      /\ Cardinality(Inserting') \in Nat
  BY <1>4, InsertingIsFinite, FS_RemoveElement, FS_Subset, FS_CardinalityType
<1>6. Cardinality(Monitor!Recent) = 0 \/ Monitor!HasRecent
  BY FS_EmptySet DEF Monitor!HasRecent, MonitorInv
<1> QED
  BY <1>3, <1>4, <1>5, <1>6, InsertingIsFinite DEF MonitorInv

LEMMA MonitorStep == ASSUME MonitorInv, Monitor!Next PROVE MonitorInv'
<1> USE DEF Monitor!At
<1>1. ASSUME NEW r \in Rounds, Monitor!StartMonitoring(r) \/ Monitor!BeginCheck(r)
      PROVE  MonitorInv'
  BY <1>1, MonitorGoes DEF Monitor!StartMonitoring, Monitor!BeginCheck
<1>2. ASSUME NEW r \in Rounds, Monitor!LookAround(r) PROVE MonitorInv'
  <2>1. PICK step : Monitor!Goto(r, step) /\ step.at # "insert"
    BY <1>2, MonitorAfter DEF Monitor!LookAround
  <2> QED
    BY <1>2, <2>1, MonitorGoes DEF Monitor!LookAround
<1>3. ASSUME NEW r \in Rounds, Monitor!AskForAlert(r) PROVE MonitorInv'
  <2>1. CASE Monitor!HasRecent
    <3>1. PICK step : Monitor!Goto(r, step) /\ step.at # "insert"
      BY <1>3, <2>1, MonitorAfter DEF Monitor!AskForAlert
    <3> QED
      BY <1>3, <3>1, MonitorGoes DEF Monitor!AskForAlert
  <2>2. CASE ~Monitor!HasRecent
    <3>1. DOMAIN round' = Rounds /\ Monitor!Recent' = Monitor!Recent
      BY <1>3 DEF Monitor!AskForAlert, Monitor!Goto, MonitorInv, Monitor!Recent
    <3> QED
      BY <2>2, <3>1 DEF MonitorInv, Monitor!HasRecent
  <2> QED
    BY <2>1, <2>2
<1>4. ASSUME NEW r \in Rounds, Monitor!InsertAlert(r) PROVE MonitorInv'
  BY <1>4, MonitorInsert
<1>5. ASSUME NEW r \in Rounds, Monitor!AutoScale(r) PROVE MonitorInv'
  <2>1. PICK at \in {"enable", "normalize", "idle"} : Monitor!Goto(r, Monitor!At(at, 0))
    BY <1>5 DEF Monitor!AutoScale
  <2> QED
    BY <1>5, <2>1, MonitorGoes DEF Monitor!AutoScale
<1>6. ASSUME NEW r \in Rounds,
             \/ Monitor!EnableEmergencyMode(r) \/ Monitor!NormalizeRateLimits(r)
             \/ Monitor!CheckThrows(r)
      PROVE  MonitorInv'
  BY <1>6, MonitorGoes
  DEF Monitor!EnableEmergencyMode, Monitor!NormalizeRateLimits, Monitor!CheckThrows
<1>7. CASE Monitor!StopMonitoring \/ Monitor!LoadChanges \/ Monitor!ClearCache
  BY <1>7, MonitorKeeps
  DEF Monitor!StopMonitoring, Monitor!LoadChanges, Monitor!ClearCache, MonitorInv, Inserting, Monitor!Recent
<1>8. CASE Monitor!ExitDuringCheck
  <2>1. DOMAIN round' = Rounds /\ Inserting' = {} /\ Monitor!Recent' = Monitor!Recent
    BY <1>8 DEF Monitor!ExitDuringCheck, Inserting, Monitor!Recent
  <2> QED
    BY <2>1, MonitorKeeps
<1>9. CASE Monitor!Age
  <2>1. /\ UNCHANGED round
        /\ Monitor!Recent' \subseteq Monitor!Recent
    BY <1>9 DEF Monitor!Age, Monitor!Older, Monitor!Recent
  <2> QED
    BY <2>1, MonitorKeeps DEF MonitorInv, Inserting
<1> QED
  BY <1>1, <1>2, <1>3, <1>4, <1>5, <1>6, <1>7, <1>8, <1>9 DEF Monitor!Next, Monitor!RoundStep

LEMMA MonitorInit == Init => MonitorInv
<1> SUFFICES ASSUME Init PROVE MonitorInv
  OBVIOUS
<1>1. round = [r \in Rounds |-> Monitor!At("idle", 0)] /\ Monitor!Recent = {}
  BY DEF Init, Monitor!Init, Monitor!Recent
<1> QED
  BY <1>1, FS_EmptySet DEF MonitorInv, Monitor!HasRecent

\* An alert of one type is inserted at most once per check in flight within the
\* hour, although asking and inserting are two statements and checks overlap
\* (securityMonitoringService.ts:178-194).
THEOREM AlertHolds == Spec => []AlertBound
<1>1. MonitorInv /\ [Next]_vars => MonitorInv'
  <2> SUFFICES ASSUME MonitorInv, [Next]_vars PROVE MonitorInv'
    OBVIOUS
  <2>1. CASE Monitor!Next
    BY <2>1, MonitorStep
  <2>2. CASE UNCHANGED monitorVars
    BY <2>2 DEF MonitorInv, monitorVars, Inserting, Monitor!Recent, Monitor!HasRecent
  <2> QED
    BY <2>1, <2>2 DEF Next, vars
<1>2. MonitorInv => AlertBound
  <2> SUFFICES ASSUME MonitorInv PROVE AlertBound
    OBVIOUS
  <2>1. AlertBound <=> Cardinality(Monitor!Recent) <= Cardinality(Rounds)
    BY MonitorCardinality DEF AlertBound, Monitor!AlertBound
  <2>2. Cardinality(Monitor!Recent) \in Nat /\ (Cardinality(Monitor!Recent) = 0 \/ Monitor!HasRecent)
    BY FS_EmptySet, FS_CardinalityType DEF MonitorInv, Monitor!HasRecent
  <2> QED
    BY <2>1, <2>2, InsertingIsFinite DEF MonitorInv
<1> QED
  BY MonitorInit, <1>1, <1>2, PTL DEF Spec

-----------------------------------------------------------------------------
(***************************************************************************)
(* Induction, factorials and the table that Pascal's rule builds.          *)
(***************************************************************************)
\* Induction, for the set of the numbers that have the property.
LEMMA Induct ==
  ASSUME NEW S, 0 \in S, \A n \in Nat : n \in S => n + 1 \in S
  PROVE  Nat \subseteq S
<1> DEFINE T == Nat \ S
           R == OpToRel(<, Nat)
<1> SUFFICES ASSUME NEW n \in T PROVE FALSE
  OBVIOUS
<1>1. IsWellFoundedOn(R, Nat)
  BY NatLessThanWellFounded
<1>2. \A x, y \in Nat : x < y => <<x, y>> \in R
  BY DEF OpToRel
<1> HIDE DEF R
<1>3. PICK m \in T : \A k \in T : ~(<<k, m>> \in R)
  BY <1>1, WFMin
<1>4. m \in Nat \ {0} /\ m - 1 \in Nat /\ m - 1 < m /\ (m - 1) + 1 = m
  BY <1>3
<1>5. m - 1 \notin T
  BY <1>2, <1>3, <1>4
<1> QED
  BY <1>3, <1>4, <1>5

\* The beginning of the table of factorials.
Table(g, n) == g \in [0..n -> Nat] /\ g[0] = 1 /\ \A i \in 1..n : g[i] = i * g[i - 1]

LEMMA TableGrows ==
  ASSUME NEW n \in Nat, NEW g, Table(g, n)
  PROVE  \E h : Table(h, n + 1)
<1> DEFINE h == [i \in 0..(n + 1) |-> IF i <= n THEN g[i] ELSE (n + 1) * g[n]]
<1>1. g[n] \in Nat /\ g \in [0..n -> Nat] /\ g[0] = 1 /\ \A i \in 1..n : g[i] = i * g[i - 1]
  BY DEF Table
<1>2. (n + 1) * g[n] \in Nat
  <2>1. ASSUME NEW x \in Nat, NEW y \in Nat PROVE x * y \in Nat
    OBVIOUS
  <2> QED
    BY <1>1, <2>1
<1>3. \A i \in 0..n : h[i] = g[i]
  OBVIOUS
<1>4. h[n + 1] = (n + 1) * g[n]
  OBVIOUS
<1>5. h \in [0..(n + 1) -> Nat]
  BY <1>1, <1>2
<1> HIDE DEF h
<1>6. ASSUME NEW i \in 1..(n + 1) PROVE h[i] = i * h[i - 1]
  <2>1. CASE i <= n
    <3>1. i \in 0..n /\ i \in 1..n /\ i - 1 \in 0..n
      BY <2>1
    <3> QED
      BY <1>1, <1>3, <3>1
  <2>2. CASE i = n + 1
    <3>1. n \in 0..n /\ i - 1 = n
      BY <2>2
    <3> QED
      BY <1>3, <1>4, <2>2, <3>1
  <2> QED
    BY <2>1, <2>2
<1>7. h[0] = 1
  BY <1>1, <1>3
<1> QED
  BY <1>5, <1>6, <1>7 DEF Table

LEMMA Tables == \A n \in Nat : \E g : Table(g, n)
<1> DEFINE S == {n \in Nat : \E g : Table(g, n)}
<1>1. 0 \in S
  <2>1. Table([i \in 0..0 |-> 1], 0)
    BY DEF Table
  <2> QED
    BY <2>1
<1>2. \A n \in Nat : n \in S => n + 1 \in S
  BY TableGrows
<1> QED
  BY <1>1, <1>2, Induct

LEMMA TablesAgree ==
  ASSUME NEW n \in Nat, NEW g, Table(g, n), NEW m \in Nat, NEW h, Table(h, m)
  PROVE  \A i \in Nat : i <= n /\ i <= m => g[i] = h[i]
<1> DEFINE S == {i \in Nat : i <= n /\ i <= m => g[i] = h[i]}
<1>1. 0 \in S
  BY DEF Table
<1>2. ASSUME NEW i \in Nat, i \in S, i + 1 <= n, i + 1 <= m
      PROVE  g[i + 1] = h[i + 1]
  <2>1. g[i] = h[i] /\ i + 1 \in 1..n /\ i + 1 \in 1..m /\ (i + 1) - 1 = i
    BY <1>2
  <2> QED
    BY <2>1 DEF Table
<1>3. \A i \in Nat : i \in S => i + 1 \in S
  <2> SUFFICES ASSUME NEW i \in Nat, i \in S, i + 1 <= n, i + 1 <= m
               PROVE  g[i + 1] = h[i + 1]
    OBVIOUS
  <2> QED
    BY <1>2
<1> HIDE DEF S
<1>4. Nat \subseteq S
  BY <1>1, <1>3, Induct
<1> QED
  BY <1>4 DEF S

\* The recursion of the factorial defines a function.
LEMMA FactorialExists ==
  \E f : f = [n \in Nat |-> IF n = 0 THEN 1 ELSE n * f[n - 1]]
<1> DEFINE begun(n) == CHOOSE g : Table(g, n)
           f == [n \in Nat |-> begun(n)[n]]
<1>1. \A n \in Nat : Table(begun(n), n)
  BY Tables
<1> HIDE DEF begun
<1>2. ASSUME NEW n \in Nat \ {0}
      PROVE  begun(n)[n] = n * begun(n - 1)[n - 1]
  <2>1. n - 1 \in Nat /\ n - 1 <= n /\ n \in 1..n
    OBVIOUS
  <2>2. begun(n)[n - 1] = begun(n - 1)[n - 1]
    BY <1>1, <2>1, TablesAgree
  <2>3. begun(n)[n] = n * begun(n)[n - 1]
    BY <1>1, <2>1 DEF Table
  <2> QED
    BY <2>2, <2>3
<1>3. begun(0)[0] = 1
  BY <1>1 DEF Table
<1>4. f = [n \in Nat |-> IF n = 0 THEN 1 ELSE n * f[n - 1]]
  <2>1. ASSUME NEW n \in Nat PROVE f[n] = IF n = 0 THEN 1 ELSE n * f[n - 1]
    <3>1. CASE n = 0
      BY <1>3, <3>1
    <3>2. CASE n # 0
      <4>1. n - 1 \in Nat
        BY <3>2
      <4> QED
        BY <1>2, <3>2, <4>1
    <3> QED
      BY <3>1, <3>2
  <2> QED
    BY <2>1
<1> QED
  BY <1>4

LEMMA FactorialDef ==
  ASSUME NEW f, f = [n \in Nat |-> IF n = 0 THEN 1 ELSE n * f[n - 1]]
  PROVE  /\ f \in [Nat -> Nat \ {0}]
         /\ f[0] = 1
         /\ \A n \in Nat : f[n + 1] = (n + 1) * f[n]
<1>1. \A n \in Nat : f[n] = IF n = 0 THEN 1 ELSE n * f[n - 1]
  OBVIOUS
<1>2. DOMAIN f = Nat /\ f = [n \in Nat |-> f[n]]
  OBVIOUS
<1>3. ASSUME NEW n \in Nat PROVE f[n + 1] = (n + 1) * f[n]
  <2>1. n + 1 \in Nat /\ n + 1 # 0 /\ (n + 1) - 1 = n
    OBVIOUS
  <2> QED
    BY <1>1, <2>1
<1>4. f[0] = 1
  BY <1>1
<1>5. Nat \subseteq {n \in Nat : f[n] \in Nat \ {0}}
  <2> DEFINE S == {n \in Nat : f[n] \in Nat \ {0}}
  <2>1. 0 \in S
    BY <1>4
  <2>2. ASSUME NEW n \in Nat, n \in S PROVE n + 1 \in S
    <3>1. ASSUME NEW x \in Nat \ {0}, NEW y \in Nat \ {0} PROVE x * y \in Nat \ {0}
      BY Z3
    <3>2. n + 1 \in Nat \ {0} /\ f[n] \in Nat \ {0}
      BY <2>2
    <3>3. (n + 1) * f[n] \in Nat \ {0}
      BY <3>1, <3>2
    <3> QED
      BY <1>3, <3>3
  <2> HIDE DEF S
  <2>3. Nat \subseteq S
    BY <2>1, <2>2, Induct
  <2> QED
    BY <2>3 DEF S
<1> QED
  BY <1>2, <1>3, <1>4, <1>5

LEMMA TheFactorials ==
  /\ Factor!factorial = [n \in Nat |-> IF n = 0 THEN 1 ELSE n * Factor!factorial[n - 1]]
  /\ Email!factorial = [n \in Nat |-> IF n = 0 THEN 1 ELSE n * Email!factorial[n - 1]]
  BY FactorialExists DEF Factor!factorial, Email!factorial

-----------------------------------------------------------------------------
\* f is the function of the factorials.
Factorials(f) == f \in [Nat -> Nat \ {0}] /\ f[0] = 1 /\ \A n \in Nat : f[n + 1] = (n + 1) * f[n]

\* b is the binomial coefficient: what choose computes by a division is exact.
Binomial(f, n, c, b) == b \in Nat \ {0} /\ f[n] = b * (f[c] * f[n - c])

LEMMA ExactQuotient ==
  ASSUME NEW b \in Nat, NEW d \in Nat \ {0} PROVE (b * d) \div d = b
  BY Z3

\* The sides of Pascal's triangle.
LEMMA BinomialSides ==
  ASSUME NEW f, Factorials(f), NEW n \in Nat
  PROVE  Binomial(f, n, 0, 1) /\ Binomial(f, n, n, 1)
<1>1. f[n] \in Nat \ {0} /\ f[0] = 1
  BY DEF Factorials
<1>2. n - 0 = n /\ n - n = 0
  OBVIOUS
<1>3. \A y \in Nat : y = 1 * (1 * y) /\ y = 1 * (y * 1)
  OBVIOUS
<1> QED
  BY <1>1, <1>2, <1>3 DEF Binomial

\* And its rule.
LEMMA BinomialRule ==
  ASSUME NEW f, Factorials(f), NEW x \in Nat, NEW c \in Nat,
         NEW a, Binomial(f, x + (c + 1), c + 1, a), NEW b, Binomial(f, (x + 1) + c, c, b)
  PROVE  Binomial(f, (x + 1) + (c + 1), c + 1, a + b)
<1> DEFINE n == x + c + 1
           p == f[c]
           q == f[x]
           r == f[n]
<1>1. /\ (x + 1) + (c + 1) = n + 1 /\ x + (c + 1) = n /\ (x + 1) + c = n /\ n \in Nat
      /\ n - (c + 1) = x /\ n - c = x + 1 /\ (n + 1) - (c + 1) = x + 1
  OBVIOUS
<1>2. /\ p \in Nat /\ q \in Nat /\ r \in Nat /\ a \in Nat \ {0} /\ b \in Nat \ {0}
      /\ f[c + 1] = (c + 1) * p /\ f[x + 1] = (x + 1) * q /\ f[n + 1] = (n + 1) * r
  BY <1>1 DEF Factorials, Binomial
<1>3. r = a * (((c + 1) * p) * q) /\ r = b * (p * ((x + 1) * q))
  BY <1>1, <1>2 DEF Binomial
<1>4. n = x + c + 1
  OBVIOUS
<1> HIDE DEF n, p, q, r
<1>5. ASSUME NEW p1 \in Nat, NEW q1 \in Nat, NEW r1 \in Nat, NEW a1 \in Nat, NEW b1 \in Nat,
             r1 = a1 * (((c + 1) * p1) * q1), r1 = b1 * (p1 * ((x + 1) * q1))
      PROVE  ((x + c + 1) + 1) * r1 = (a1 + b1) * (((c + 1) * p1) * ((x + 1) * q1))
  <2>1. (x + 1) * r1 = a1 * (((c + 1) * p1) * ((x + 1) * q1))
    BY <1>5, Z3
  <2>2. (c + 1) * r1 = b1 * (((c + 1) * p1) * ((x + 1) * q1))
    BY <1>5, Z3
  <2>3. ((x + c + 1) + 1) * r1 = (x + 1) * r1 + (c + 1) * r1
    BY <1>5, Z3
  <2>4. ASSUME NEW z \in Nat PROVE (a1 + b1) * z = a1 * z + b1 * z
    BY Z3
  <2>5. ((c + 1) * p1) * ((x + 1) * q1) \in Nat
    BY Z3
  <2> QED
    BY <2>1, <2>2, <2>3, <2>4, <2>5
<1>6. (n + 1) * r = (a + b) * (((c + 1) * p) * ((x + 1) * q))
  BY <1>2, <1>3, <1>4, <1>5
<1>7. f[n + 1] = (a + b) * (f[c + 1] * f[(n + 1) - (c + 1)])
  BY <1>1, <1>2, <1>6
<1>8. a + b \in Nat \ {0}
  BY <1>2
<1> QED
  BY <1>1, <1>7, <1>8 DEF Binomial

LEMMA BinomialExists ==
  ASSUME NEW f, Factorials(f)
  PROVE  \A n \in Nat : \A c \in 0..n : \E b : Binomial(f, n, c, b)
<1> DEFINE S == {n \in Nat : \A c \in 0..n : \E b : Binomial(f, n, c, b)}
<1>1. 0 \in S
  <2>1. ASSUME NEW c \in 0..0 PROVE \E b : Binomial(f, 0, c, b)
    <3>1. c = 0
      OBVIOUS
    <3> QED
      BY <3>1, BinomialSides
  <2> QED
    BY <2>1
<1>2. ASSUME NEW n \in Nat, n \in S PROVE n + 1 \in S
  <2> SUFFICES ASSUME NEW c \in 0..(n + 1) PROVE \E b : Binomial(f, n + 1, c, b)
    OBVIOUS
  <2>1. CASE c = 0 \/ c = n + 1
    BY <2>1, BinomialSides
  <2>2. CASE c # 0 /\ c # n + 1
    <3>1. c \in 0..n /\ c - 1 \in 0..n /\ c - 1 \in Nat /\ n - c \in Nat
      BY <2>2
    <3>2. PICK a : Binomial(f, n, c, a)
      BY <1>2, <3>1
    <3>3. PICK b : Binomial(f, n, c - 1, b)
      BY <1>2, <3>1
    <3>4. /\ (n - c) + ((c - 1) + 1) = n /\ ((n - c) + 1) + (c - 1) = n
          /\ (c - 1) + 1 = c /\ ((n - c) + 1) + ((c - 1) + 1) = n + 1
      BY <3>1
    <3>5. Binomial(f, n + 1, c, a + b)
      BY <3>1, <3>2, <3>3, <3>4, BinomialRule
    <3> QED
      BY <3>5
  <2> QED
    BY <2>1, <2>2
<1> HIDE DEF S
<1>3. Nat \subseteq S
  BY <1>1, <1>2, Induct
<1> QED
  BY <1>3 DEF S

\* Pascal's triangle, by diagonals: H[x][c] is what choose(x + c, c) computes.
Pascal(H) ==
    /\ H \in [Nat -> [Nat -> Nat \ {0}]]
    /\ \A x \in Nat : H[x][0] = 1 /\ H[0][x] = 1
    /\ \A x, c \in Nat : H[x + 1][c + 1] = H[x][c + 1] + H[x + 1][c]

LEMMA ChoosePascal ==
  ASSUME NEW f, Factorials(f)
  PROVE  Pascal([x \in Nat |-> [c \in Nat |-> f[x + c] \div (f[c] * f[(x + c) - c])]])
<1> DEFINE H == [x \in Nat |-> [c \in Nat |-> f[x + c] \div (f[c] * f[(x + c) - c])]]
<1>1. ASSUME NEW x \in Nat, NEW c \in Nat, NEW b, Binomial(f, x + c, c, b)
      PROVE  H[x][c] = b /\ b \in Nat \ {0}
  <2>1. b \in Nat \ {0} /\ f[x + c] = b * (f[c] * f[(x + c) - c])
    BY <1>1 DEF Binomial
  <2>2. f[c] \in Nat \ {0} /\ f[(x + c) - c] \in Nat \ {0}
    <3>1. (x + c) - c = x
      OBVIOUS
    <3> QED
      BY <3>1 DEF Factorials
  <2>3. f[c] * f[(x + c) - c] \in Nat \ {0}
    <3> DEFINE p == f[c]
               q == f[(x + c) - c]
    <3>1. p \in Nat \ {0} /\ q \in Nat \ {0}
      BY <2>2
    <3> HIDE DEF p, q
    <3>2. p \in Nat /\ q \in Nat /\ p # 0 /\ q # 0
      BY <3>1
    <3>3. p * q \in Nat /\ p * q # 0
      BY <3>2, Z3
    <3> QED
      BY <3>3 DEF p, q
  <2>4. f[x + c] \div (f[c] * f[(x + c) - c]) = b
    BY <2>1, <2>3, ExactQuotient
  <2> QED
    BY <2>1, <2>4
<1>2. ASSUME NEW x \in Nat, NEW c \in Nat
      PROVE  Binomial(f, x + c, c, H[x][c]) /\ H[x][c] \in Nat \ {0}
  <2>1. x + c \in Nat /\ c \in 0..(x + c)
    OBVIOUS
  <2>2. PICK b : Binomial(f, x + c, c, b)
    BY <2>1, BinomialExists
  <2> HIDE DEF H
  <2>3. H[x][c] = b /\ b \in Nat \ {0}
    BY <1>1, <2>2
  <2> QED
    BY <2>2, <2>3
<1>3. H \in [Nat -> [Nat -> Nat \ {0}]]
  <2>1. ASSUME NEW x \in Nat PROVE H[x] \in [Nat -> Nat \ {0}]
    BY <1>2
  <2> QED
    BY <2>1
<1> HIDE DEF H
<1>4. ASSUME NEW x \in Nat PROVE H[x][0] = 1 /\ H[0][x] = 1
  <2>1. x + 0 = x /\ 0 + x = x
    OBVIOUS
  <2>2. Binomial(f, x + 0, 0, 1) /\ Binomial(f, 0 + x, x, 1)
    BY <2>1, BinomialSides
  <2> QED
    BY <1>1, <2>2
<1>5. ASSUME NEW x \in Nat, NEW c \in Nat
      PROVE  H[x + 1][c + 1] = H[x][c + 1] + H[x + 1][c]
  <2>1. x + 1 \in Nat /\ c + 1 \in Nat
    OBVIOUS
  <2>2. Binomial(f, (x + 1) + (c + 1), c + 1, H[x][c + 1] + H[x + 1][c])
    BY <1>2, <2>1, BinomialRule
  <2> QED
    BY <1>1, <2>1, <2>2
<1>6. Pascal(H)
  BY <1>3, <1>4, <1>5 DEF Pascal
<1> QED
  BY <1>6 DEF H

-----------------------------------------------------------------------------
(***************************************************************************)
(* Requests that overtake one another.  Each holds a number, and one that  *)
(* ends writes back a smaller one, which those that come after it start    *)
(* from.                                                                   *)
(***************************************************************************)
Within(val, x) == {u \in DOMAIN val : val[u] <= x}

Growth(H, x, c) == IF c = 0 THEN 0 ELSE H[x + 1][c - 1]

\* There is a budget for n ends: a function that starts at 0 and rises, from x to
\* x + 1, by no more than the number of requests that hold at most x allows.
Affordable(H, val, N, n) ==
    \E f \in [0..N -> Nat] :
       /\ f[0] = 0
       /\ \A x \in 0..(N - 1) : f[x + 1] <= f[x] + Growth(H, x, Cardinality(Within(val, x)))
       /\ n <= f[N]

LEMMA GrowthRises ==
  ASSUME NEW H, Pascal(H), NEW x \in Nat, NEW c \in Nat, NEW d \in Nat, c <= d
  PROVE  Growth(H, x, c) \in Nat /\ Growth(H, x, d) \in Nat /\ Growth(H, x, c) <= Growth(H, x, d)
<1>1. \A b \in Nat : H[x + 1][b] \in Nat
  BY DEF Pascal
<1>2. ASSUME NEW b \in Nat, NEW j \in Nat PROVE H[x + 1][b] <= H[x + 1][b + j]
  <2> DEFINE S == {i \in Nat : H[x + 1][b] <= H[x + 1][b + i]}
  <2>1. 0 \in S
    BY <1>1
  <2>2. ASSUME NEW i \in Nat, i \in S PROVE i + 1 \in S
    <3>1. H[x + 1][(b + i) + 1] = H[x][(b + i) + 1] + H[x + 1][b + i]
      BY DEF Pascal
    <3>2. H[x][(b + i) + 1] \in Nat /\ b + (i + 1) = (b + i) + 1 /\ b + i \in Nat
      BY DEF Pascal
    <3> QED
      BY <1>1, <2>2, <3>1, <3>2
  <2> HIDE DEF S
  <2>3. Nat \subseteq S
    BY <2>1, <2>2, Induct
  <2> QED
    BY <2>3 DEF S
<1>3. CASE c = 0
  <2>1. d # 0 => d - 1 \in Nat
    OBVIOUS
  <2> QED
    BY <1>1, <1>3, <2>1 DEF Growth
<1>4. CASE c # 0
  <2>1. c - 1 \in Nat /\ d - c \in Nat /\ (c - 1) + (d - c) = d - 1 /\ d # 0 /\ d - 1 \in Nat
    BY <1>4
  <2>2. H[x + 1][c - 1] <= H[x + 1][(c - 1) + (d - c)]
    BY <1>2, <2>1
  <2> QED
    BY <1>1, <1>4, <2>1, <2>2 DEF Growth
<1> QED
  BY <1>3, <1>4

\* What c requests can have used up below v.
LEMMA BudgetBelow ==
  ASSUME NEW H, Pascal(H), NEW N \in Nat, NEW f \in [0..N -> Nat], f[0] = 0,
         NEW v \in 0..N, NEW c \in Nat,
         \A x \in 0..(v - 1) : f[x + 1] <= f[x] + Growth(H, x, c)
  PROVE  f[v] + 1 <= H[v][c]
<1> DEFINE S == {x \in Nat : x <= v => f[x] + 1 <= H[x][c]}
<1>1. 0 \in S
  <2>1. H[0][c] = 1
    BY DEF Pascal
  <2> QED
    BY <2>1
<1>2. ASSUME NEW x \in Nat, x \in S, x + 1 <= v PROVE f[x + 1] + 1 <= H[x + 1][c]
  <2>1. x \in 0..(v - 1) /\ x \in 0..N /\ x + 1 \in 0..N /\ x + 1 \in Nat
    BY <1>2
  <2>2. f[x] \in Nat /\ f[x + 1] \in Nat /\ H[x][c] \in Nat /\ H[x + 1][c] \in Nat
    BY <2>1, ZenonT(60) DEF Pascal
  <2>3. f[x] + 1 <= H[x][c] /\ f[x + 1] <= f[x] + Growth(H, x, c)
    BY <1>2, <2>1
  <2>4. H[x][c] + Growth(H, x, c) = H[x + 1][c] /\ Growth(H, x, c) \in Nat
    <3>1. CASE c = 0
      <4>1. H[x][0] = 1 /\ H[x + 1][0] = 1
        BY <2>1 DEF Pascal
      <4> QED
        BY <3>1, <4>1 DEF Growth
    <3>2. CASE c # 0
      <4>1. c - 1 \in Nat /\ (c - 1) + 1 = c
        BY <3>2
      <4>2. H[x + 1][(c - 1) + 1] = H[x][(c - 1) + 1] + H[x + 1][c - 1]
        BY <4>1 DEF Pascal
      <4>3. H[x + 1][c - 1] \in Nat
        BY <2>1, <4>1 DEF Pascal
      <4> QED
        BY <3>2, <4>1, <4>2, <4>3 DEF Growth
    <3> QED
      BY <3>1, <3>2
  <2>5. ASSUME NEW a \in Nat, NEW b \in Nat, NEW g \in Nat, NEW h \in Nat, NEW k \in Nat,
               a + 1 <= h, b <= a + g, h + g = k
        PROVE  b + 1 <= k
    BY <2>5
  <2> HIDE DEF S
  <2> QED
    BY <2>2, <2>3, <2>4, <2>5
<1>3. \A x \in Nat : x \in S => x + 1 \in S
  <2> SUFFICES ASSUME NEW x \in Nat, x \in S, x + 1 <= v
               PROVE  f[x + 1] + 1 <= H[x + 1][c]
    OBVIOUS
  <2> QED
    BY <1>2
<1> HIDE DEF S
<1>4. Nat \subseteq S
  BY <1>1, <1>3, Induct
<1> QED
  BY <1>4 DEF S

\* The requests within x are some of those there are.
LEMMA WithinCount ==
  ASSUME NEW D, IsFiniteSet(D), NEW N \in Nat, NEW val \in [D -> 0..N]
  PROVE  \A x : /\ Within(val, x) \subseteq D /\ IsFiniteSet(Within(val, x))
                /\ Cardinality(Within(val, x)) \in Nat
                /\ Cardinality(Within(val, x)) <= Cardinality(D)
<1> SUFFICES ASSUME NEW x
             PROVE  /\ Within(val, x) \subseteq D /\ IsFiniteSet(Within(val, x))
                    /\ Cardinality(Within(val, x)) \in Nat
                    /\ Cardinality(Within(val, x)) <= Cardinality(D)
  OBVIOUS
<1>1. Within(val, x) \subseteq D
  BY DEF Within
<1> QED
  BY <1>1, FS_Subset, FS_CardinalityType

\* Nothing is used up at first.
LEMMA BudgetFresh ==
  ASSUME NEW H, Pascal(H), NEW D, IsFiniteSet(D), NEW N \in Nat, NEW val \in [D -> 0..N]
  PROVE  Affordable(H, val, N, 0)
<1> DEFINE f == [x \in 0..N |-> 0]
<1>1. f \in [0..N -> Nat] /\ f[0] = 0 /\ f[N] = 0
  OBVIOUS
<1>2. ASSUME NEW x \in 0..(N - 1)
      PROVE  f[x + 1] <= f[x] + Growth(H, x, Cardinality(Within(val, x)))
  <2>1. x \in Nat /\ x \in 0..N /\ x + 1 \in 0..N
    OBVIOUS
  <2>2. Growth(H, x, Cardinality(Within(val, x))) \in Nat
    BY <2>1, WithinCount, GrowthRises
  <2>3. f[x] = 0 /\ f[x + 1] = 0
    BY <2>1
  <2> QED
    BY <2>2, <2>3
<1> HIDE DEF f
<1>3. 0 <= f[N]
  BY <1>1
<1> QED
  BY <1>1, <1>2, <1>3 DEF Affordable

\* A request that gives up, or starts again from less, uses nothing up.
LEMMA BudgetKept ==
  ASSUME NEW H, Pascal(H), NEW D, IsFiniteSet(D), NEW N \in Nat, NEW n \in Nat,
         NEW val \in [D -> 0..N], Affordable(H, val, N, n),
         NEW next \in [D -> 0..N], \A w \in D : next[w] <= val[w]
  PROVE  Affordable(H, next, N, n)
<1>1. PICK f \in [0..N -> Nat] :
         /\ f[0] = 0
         /\ \A x \in 0..(N - 1) : f[x + 1] <= f[x] + Growth(H, x, Cardinality(Within(val, x)))
         /\ n <= f[N]
  BY DEF Affordable
<1>2. ASSUME NEW x \in 0..(N - 1)
      PROVE  f[x + 1] <= f[x] + Growth(H, x, Cardinality(Within(next, x)))
  <2>1. Within(val, x) \subseteq Within(next, x)
    <3> SUFFICES ASSUME NEW w \in D, val[w] <= x PROVE next[w] <= x
      BY DEF Within
    <3>1. val[w] \in Int /\ next[w] \in Int /\ x \in Int /\ next[w] <= val[w]
      OBVIOUS
    <3> QED
      BY <3>1
  <2>2. /\ Cardinality(Within(val, x)) \in Nat /\ Cardinality(Within(next, x)) \in Nat
        /\ Cardinality(Within(val, x)) <= Cardinality(Within(next, x))
    BY <2>1, WithinCount, FS_Subset
  <2>3. x \in Nat /\ x \in 0..N /\ x + 1 \in 0..N
    OBVIOUS
  <2> DEFINE before == Growth(H, x, Cardinality(Within(val, x)))
             after == Growth(H, x, Cardinality(Within(next, x)))
  <2>4. before \in Nat /\ after \in Nat /\ before <= after
    BY <2>2, <2>3, GrowthRises
  <2>5. f[x + 1] <= f[x] + before
    BY <1>1
  <2>6. f[x] \in Nat /\ f[x + 1] \in Nat
    BY <2>3
  <2> HIDE DEF before, after
  <2>7. f[x + 1] <= f[x] + after
    BY <2>4, <2>5, <2>6
  <2> QED
    BY <2>7 DEF after
<1> QED
  BY <1>1, <1>2 DEF Affordable

\* A request that holds v and writes less uses one up: below v the budget starts
\* again from 0, and what was used up there is less than what the number of those
\* that hold no more than v - 1, which is one higher now, allows.
LEMMA BudgetSpent ==
  ASSUME NEW H, Pascal(H), NEW D, IsFiniteSet(D), NEW N \in Nat, NEW n \in Nat,
         NEW val \in [D -> 0..N], Affordable(H, val, N, n),
         NEW next \in [D -> 0..N], NEW u \in D, NEW v \in 1..N, val[u] = v, next[u] < v,
         \A w \in D : next[w] <= val[w] \/ next[w] < v
  PROVE  Affordable(H, next, N, n + 1)
<1>1. PICK f \in [0..N -> Nat] :
         /\ f[0] = 0
         /\ \A x \in 0..(N - 1) : f[x + 1] <= f[x] + Growth(H, x, Cardinality(Within(val, x)))
         /\ n <= f[N]
  BY DEF Affordable
<1> DEFINE g == [x \in 0..N |-> IF x < v THEN 0 ELSE f[x] + 1]
           c == Cardinality(Within(val, v - 1))
<1>2. \A x \in 0..N : f[x] \in Nat /\ x \in Nat
  OBVIOUS
<1>3. /\ \A x \in 0..N : x < v => g[x] = 0
      /\ \A x \in 0..N : ~(x < v) => g[x] = f[x] + 1
  OBVIOUS
<1>4. g \in [0..N -> Nat] /\ g[0] = 0 /\ n + 1 <= g[N]
  <2>1. 0 \in 0..N /\ N \in 0..N /\ 0 < v /\ ~(N < v)
    OBVIOUS
  <2>2. g \in [0..N -> Nat]
    BY <1>2
  <2>3. g[N] = f[N] + 1
    BY <1>3, <2>1
  <2> QED
    BY <1>1, <1>2, <1>3, <2>1, <2>2, <2>3
<1> HIDE DEF g
<1>5. ASSUME NEW x \in Int, v - 1 <= x
      PROVE  Within(val, x) \subseteq Within(next, x)
  <2> SUFFICES ASSUME NEW w \in D, val[w] <= x PROVE next[w] <= x
    BY DEF Within
  <2>1. val[w] \in Int /\ next[w] \in Int /\ v \in Int
    OBVIOUS
  <2>2. next[w] <= val[w] \/ next[w] < v
    OBVIOUS
  <2> QED
    BY <1>5, <2>1, <2>2
<1>6. c \in Nat /\ c + 1 <= Cardinality(Within(next, v - 1))
  <2>1. u \notin Within(val, v - 1)
    BY DEF Within
  <2>2. Within(val, v - 1) \cup {u} \subseteq Within(next, v - 1)
    <3>1. v - 1 \in Int /\ v - 1 <= v - 1
      OBVIOUS
    <3>2. u \in Within(next, v - 1)
      <4>1. next[u] \in Int /\ next[u] <= v - 1
        OBVIOUS
      <4> QED
        BY <4>1 DEF Within
    <3> QED
      BY <1>5, <3>1, <3>2
  <2>3. Cardinality(Within(val, v - 1) \cup {u}) = c + 1 /\ c \in Nat
    BY <2>1, WithinCount, FS_AddElement
  <2>4. Cardinality(Within(val, v - 1) \cup {u}) <= Cardinality(Within(next, v - 1))
    BY <2>2, WithinCount, FS_Subset
  <2> QED
    BY <2>3, <2>4
<1>7. f[v] + 1 <= H[v][c]
  <2>1. ASSUME NEW x \in 0..(v - 1) PROVE f[x + 1] <= f[x] + Growth(H, x, c)
    <3>1. x \in 0..(N - 1) /\ x \in Nat /\ x \in 0..N /\ x + 1 \in 0..N
      OBVIOUS
    <3>2. Within(val, x) \subseteq Within(val, v - 1)
      <4> SUFFICES ASSUME NEW w \in D, val[w] <= x PROVE val[w] <= v - 1
        BY DEF Within
      <4> QED
        OBVIOUS
    <3>3. Cardinality(Within(val, x)) \in Nat /\ Cardinality(Within(val, x)) <= c
      BY <3>2, WithinCount, FS_Subset
    <3> DEFINE before == Growth(H, x, Cardinality(Within(val, x)))
               after == Growth(H, x, c)
    <3>4. before \in Nat /\ after \in Nat /\ before <= after
      BY <1>6, <3>1, <3>3, GrowthRises
    <3>5. f[x + 1] <= f[x] + before
      BY <1>1, <3>1
    <3> HIDE DEF before, after, c
    <3>6. f[x + 1] <= f[x] + after
      BY <1>2, <3>1, <3>4, <3>5
    <3> QED
      BY <3>6 DEF after
  <2>2. v \in 0..N
    OBVIOUS
  <2> HIDE DEF c
  <2> QED
    BY <1>1, <1>6, <2>1, <2>2, BudgetBelow
<1>8. ASSUME NEW x \in 0..(N - 1)
      PROVE  g[x + 1] <= g[x] + Growth(H, x, Cardinality(Within(next, x)))
  <2>1. x \in Nat /\ x \in 0..N /\ x + 1 \in 0..N
    OBVIOUS
  <2> DEFINE after == Growth(H, x, Cardinality(Within(next, x)))
  <2>2. after \in Nat
    <3> HIDE DEF c
    <3>1. Cardinality(Within(next, x)) \in Nat
      BY WithinCount
    <3>2. Cardinality(Within(next, x)) <= Cardinality(Within(next, x))
      BY <3>1
    <3> QED
      BY <2>1, <3>1, <3>2, GrowthRises
  <2>3. CASE x + 1 < v
    <3>1. g[x + 1] = 0 /\ g[x] = 0
      BY <1>3, <2>1, <2>3
    <3> QED
      BY <2>2, <3>1
  <2>4. CASE x + 1 = v
    <3>1. g[x + 1] = f[v] + 1 /\ g[x] = 0
      BY <1>3, <2>1, <2>4
    <3>2. Growth(H, x, c + 1) <= after
      <4>1. Cardinality(Within(next, x)) \in Nat
        BY WithinCount
      <4>2. x = v - 1 /\ c + 1 \in Nat
        BY <1>6, <2>4
      <4>3. c + 1 <= Cardinality(Within(next, x))
        BY <1>6, <4>2
      <4> HIDE DEF c
      <4> QED
        BY <2>1, <4>1, <4>2, <4>3, GrowthRises
    <3>3. Growth(H, x, c + 1) = H[v][c]
      <4> HIDE DEF c
      <4>1. c + 1 # 0 /\ (c + 1) - 1 = c
        BY <1>6
      <4> QED
        BY <2>4, <4>1 DEF Growth
    <3>4. H[v][c] \in Nat /\ f[v] \in Nat
      <4> HIDE DEF c
      <4> QED
        BY <1>6, SMTT(30) DEF Pascal
    <3> HIDE DEF after, c
    <3>5. g[x + 1] <= g[x] + after
      BY <1>7, <2>2, <3>1, <3>2, <3>3, <3>4, SMTT(30)
    <3> QED
      BY <3>5 DEF after
  <2>5. CASE v < x + 1
    <3>1. g[x + 1] = f[x + 1] + 1 /\ g[x] = f[x] + 1
      BY <1>3, <2>1, <2>5
    <3> DEFINE before == Growth(H, x, Cardinality(Within(val, x)))
    <3>2. f[x + 1] <= f[x] + before
      BY <1>1
    <3>3. Within(val, x) \subseteq Within(next, x)
      BY <1>5, <2>1, <2>5
    <3>4. /\ Cardinality(Within(val, x)) \in Nat /\ Cardinality(Within(next, x)) \in Nat
          /\ Cardinality(Within(val, x)) <= Cardinality(Within(next, x))
      BY <3>3, WithinCount, FS_Subset
    <3>5. before \in Nat /\ before <= after
      BY <2>1, <3>4, GrowthRises
    <3> HIDE DEF before, after
    <3>6. g[x + 1] <= g[x] + after
      BY <1>2, <2>1, <2>2, <3>1, <3>2, <3>5, SMTT(30)
    <3> QED
      BY <3>6 DEF after
  <2> QED
    BY <2>1, <2>3, <2>4, <2>5
<1> QED
  BY <1>4, <1>8 DEF Affordable

\* What all requests can use up.
LEMMA BudgetBound ==
  ASSUME NEW H, Pascal(H), NEW D, IsFiniteSet(D), NEW N \in Nat, NEW n \in Nat,
         NEW val \in [D -> 0..N], Affordable(H, val, N, n)
  PROVE  n < H[N][Cardinality(D)]
<1>1. PICK f \in [0..N -> Nat] :
         /\ f[0] = 0
         /\ \A x \in 0..(N - 1) : f[x + 1] <= f[x] + Growth(H, x, Cardinality(Within(val, x)))
         /\ n <= f[N]
  BY DEF Affordable
<1> DEFINE c == Cardinality(D)
<1>2. c \in Nat
  BY FS_CardinalityType
<1>3. ASSUME NEW x \in 0..(N - 1) PROVE f[x + 1] <= f[x] + Growth(H, x, c)
  <2>1. x \in Nat /\ x \in 0..N /\ x + 1 \in 0..N
    OBVIOUS
  <2> DEFINE before == Growth(H, x, Cardinality(Within(val, x)))
             after == Growth(H, x, c)
  <2>2. before \in Nat /\ after \in Nat /\ before <= after
    BY <1>2, <2>1, WithinCount, GrowthRises
  <2>3. f[x + 1] <= f[x] + before /\ f[x] \in Nat /\ f[x + 1] \in Nat
    BY <1>1, <2>1
  <2> HIDE DEF before, after
  <2>4. f[x + 1] <= f[x] + after
    BY <2>2, <2>3
  <2> QED
    BY <2>4 DEF after
<1> HIDE DEF c
<1>4. N \in 0..N
  OBVIOUS
<1>5. f[N] + 1 <= H[N][c]
  BY <1>1, <1>2, <1>3, <1>4, BudgetBelow
<1>6. f[N] \in Nat /\ H[N][c] \in Nat
  BY <1>2, <1>4 DEF Pascal
<1>7. n < H[N][c]
  BY <1>1, <1>5, <1>6
<1> QED
  BY <1>7 DEF c

-----------------------------------------------------------------------------
(***************************************************************************)
(* The uses of a list of backup codes.                                     *)
(***************************************************************************)
CodeGrid == [x \in Nat |-> [c \in Nat |-> Factor!choose(x + c, c)]]

\* How many codes of list g use u may start from: those of the list it has read, or
\* those of the stored one if they are more.
HeldCodes(g, u) == IF use[u].at = "accept" /\ use[u].list.gen = g THEN use[u].list.left ELSE 0
StoredCodes(g) == IF backupCodes.gen = g THEN backupCodes.left ELSE 0
LeftCodes(g) ==
    [u \in Uses |-> IF HeldCodes(g, u) <= StoredCodes(g) THEN StoredCodes(g) ELSE HeldCodes(g, u)]

CodeList == [gen : Nat, left : 0..NCodes]

AcceptedTypes ==
    /\ newest \in Nat
    /\ backupCodes \in CodeList /\ backupCodes.gen <= newest
    /\ use \in [Uses -> [at : {"idle", "enable", "disable", "accept"}, list : CodeList]]
    /\ \A u \in Uses : use[u].at = "accept" => use[u].list.left > 0 /\ use[u].list.gen <= newest
    /\ accepted \in [0..MaxLists -> Nat]

\* Every code that was accepted of a list is paid for.
AcceptedInv ==
    /\ AcceptedTypes
    /\ \A g \in 1..MaxLists :
          /\ g > newest => accepted[g] = 0
          /\ Affordable(CodeGrid, LeftCodes(g), NCodes, accepted[g])

LEMMA CodeGridPascal == Pascal(CodeGrid)
<1>1. Factorials(Factor!factorial)
  BY TheFactorials, FactorialDef DEF Factorials
<1> DEFINE f == Factor!factorial
<1> HIDE DEF f
<1>2. Pascal([x \in Nat |-> [c \in Nat |-> f[x + c] \div (f[c] * f[(x + c) - c])]])
  BY <1>1, ChoosePascal DEF f
<1> QED
  BY <1>2 DEF CodeGrid, Factor!choose, f

LEMMA CodeParameters == NCodes \in Nat /\ IsFiniteSet(Uses) /\ MaxLists \in Nat
  BY ServicesAssumption

LEMMA LeftCodesType ==
  ASSUME AcceptedTypes, NEW g
  PROVE  /\ LeftCodes(g) \in [Uses -> 0..NCodes]
         /\ StoredCodes(g) \in 0..NCodes
         /\ \A u \in Uses : HeldCodes(g, u) \in 0..NCodes
<1>1. backupCodes.left \in 0..NCodes /\ \A u \in Uses : use[u].list.left \in 0..NCodes
  BY DEF AcceptedTypes, CodeList
<1>2. StoredCodes(g) \in 0..NCodes /\ \A u \in Uses : HeldCodes(g, u) \in 0..NCodes
  BY <1>1, CodeParameters DEF StoredCodes, HeldCodes
<1> QED
  BY <1>2 DEF LeftCodes

LEMMA LeftCodesTypeAfter ==
  ASSUME AcceptedTypes', NEW g
  PROVE  /\ LeftCodes(g)' \in [Uses -> 0..NCodes]
         /\ StoredCodes(g)' \in 0..NCodes
         /\ \A u \in Uses : HeldCodes(g, u)' \in 0..NCodes
<1>1. backupCodes'.left \in 0..NCodes /\ \A u \in Uses : use'[u].list.left \in 0..NCodes
  BY DEF AcceptedTypes, CodeList
<1>2. StoredCodes(g)' \in 0..NCodes /\ \A u \in Uses : HeldCodes(g, u)' \in 0..NCodes
  BY <1>1, CodeParameters DEF StoredCodes, HeldCodes
<1> QED
  BY <1>2 DEF LeftCodes

\* Whatever leaves every request no more than it had keeps the budget of a list.
LEMMA AcceptedKept ==
  ASSUME AcceptedInv, AcceptedTypes', NEW g \in 1..MaxLists,
         accepted'[g] = accepted[g],
         StoredCodes(g)' <= StoredCodes(g),
         \A u \in Uses : HeldCodes(g, u)' <= HeldCodes(g, u) \/ HeldCodes(g, u)' <= StoredCodes(g)
  PROVE  Affordable(CodeGrid, LeftCodes(g), NCodes, accepted[g])'
<1>1. /\ LeftCodes(g) \in [Uses -> 0..NCodes] /\ LeftCodes(g)' \in [Uses -> 0..NCodes]
      /\ accepted[g] \in Nat
  BY LeftCodesType, LeftCodesTypeAfter, CodeParameters, SMTT(30) DEF AcceptedInv, AcceptedTypes
<1>2. ASSUME NEW u \in Uses PROVE LeftCodes(g)'[u] <= LeftCodes(g)[u]
  <2>1. /\ LeftCodes(g)[u] = IF HeldCodes(g, u) <= StoredCodes(g)
                             THEN StoredCodes(g) ELSE HeldCodes(g, u)
        /\ LeftCodes(g)'[u] = IF HeldCodes(g, u)' <= StoredCodes(g)'
                              THEN StoredCodes(g)' ELSE HeldCodes(g, u)'
    BY DEF LeftCodes
  <2>2. /\ HeldCodes(g, u) \in Int /\ StoredCodes(g) \in Int
        /\ HeldCodes(g, u)' \in Int /\ StoredCodes(g)' \in Int
    BY LeftCodesType, LeftCodesTypeAfter DEF AcceptedInv
  <2> QED
    BY <2>1, <2>2
<1>3. Affordable(CodeGrid, LeftCodes(g)', NCodes, accepted[g])
  BY <1>1, <1>2, CodeGridPascal, CodeParameters, BudgetKept DEF AcceptedInv
<1>4. CodeGrid' = CodeGrid
  BY DEF CodeGrid, Factor!choose, Factor!factorial
<1> QED
  BY <1>3, <1>4

\* A new list.
LEMMA AcceptedStored ==
  ASSUME AcceptedInv, Factor!StoreNewList, UNCHANGED <<use, accepted>>
  PROVE  AcceptedInv'
<1>1. /\ newest < MaxLists /\ newest' = newest + 1
      /\ backupCodes' = [gen |-> newest + 1, left |-> NCodes]
  BY DEF Factor!StoreNewList
<1>2. AcceptedTypes'
  BY <1>1, CodeParameters DEF AcceptedInv, AcceptedTypes, CodeList
<1>3. ASSUME NEW g \in 1..MaxLists
      PROVE  /\ g > newest' => accepted'[g] = 0
             /\ Affordable(CodeGrid, LeftCodes(g), NCodes, accepted[g])'
  <2>1. newest \in Nat /\ accepted' = accepted
    BY DEF AcceptedInv, AcceptedTypes
  <2>2. g > newest' => accepted'[g] = 0
    BY <1>1, <2>1 DEF AcceptedInv
  <2>3. CASE g = newest + 1
    <3>1. accepted[g] = 0
      BY <2>1, <2>3 DEF AcceptedInv
    <3>2. LeftCodes(g)' \in [Uses -> 0..NCodes]
      BY <1>2, LeftCodesTypeAfter
    <3>3. Affordable(CodeGrid, LeftCodes(g)', NCodes, 0)
      BY <3>2, CodeGridPascal, CodeParameters, BudgetFresh
    <3>4. CodeGrid' = CodeGrid
      BY DEF CodeGrid, Factor!choose, Factor!factorial
    <3> QED
      BY <2>1, <2>2, <3>1, <3>3, <3>4
  <2>4. CASE g # newest + 1
    <3>1. StoredCodes(g)' = 0 /\ StoredCodes(g) >= 0
      BY <1>1, <2>4, LeftCodesType DEF StoredCodes, AcceptedInv
    <3>2. \A u \in Uses : HeldCodes(g, u)' = HeldCodes(g, u) /\ HeldCodes(g, u) \in Nat
      BY LeftCodesType DEF HeldCodes, AcceptedInv
    <3>3. StoredCodes(g)' <= StoredCodes(g)
      BY <3>1, LeftCodesType DEF AcceptedInv
    <3>4. \A u \in Uses : HeldCodes(g, u)' <= HeldCodes(g, u)
      BY <3>2
    <3> QED
      BY <1>2, <2>1, <2>2, <3>3, <3>4, AcceptedKept
  <2> QED
    BY <2>3, <2>4
<1> QED
  BY <1>2, <1>3 DEF AcceptedInv

\* A request that reads the stored list, or ends.
LEMMA AcceptedMoves ==
  ASSUME AcceptedInv, NEW u \in Uses, NEW to,
         use' = [use EXCEPT ![u] = to],
         \/ /\ to \in [at : {"idle", "enable", "disable"}, list : {Factor!NoList}]
         \/ /\ to = [at |-> "accept", list |-> backupCodes] /\ backupCodes.left > 0,
         UNCHANGED <<newest, backupCodes, accepted>>
  PROVE  AcceptedInv'
<1>1. /\ use'[u] = to /\ \A w \in Uses \ {u} : use'[w] = use[w]
      /\ backupCodes \in CodeList
      /\ newest \in Nat
  BY DEF AcceptedInv, AcceptedTypes
<1>2. Factor!NoList \in CodeList
  BY CodeParameters DEF Factor!NoList, CodeList
<1>3. to \in [at : {"idle", "enable", "disable", "accept"}, list : CodeList]
  BY <1>1, <1>2
<1>4. AcceptedTypes'
  <2>1. use' \in [Uses -> [at : {"idle", "enable", "disable", "accept"}, list : CodeList]]
    BY <1>3 DEF AcceptedInv, AcceptedTypes
  <2>2. ASSUME NEW w \in Uses, use'[w].at = "accept"
        PROVE  use'[w].list.left > 0 /\ use'[w].list.gen <= newest
    BY <1>1, <2>2 DEF AcceptedInv, AcceptedTypes
  <2> QED
    BY <2>1, <2>2 DEF AcceptedInv, AcceptedTypes
<1>5. ASSUME NEW g \in 1..MaxLists
      PROVE  /\ g > newest' => accepted'[g] = 0
             /\ Affordable(CodeGrid, LeftCodes(g), NCodes, accepted[g])'
  <2>1. StoredCodes(g)' = StoredCodes(g) /\ StoredCodes(g) \in Nat
    BY LeftCodesType DEF StoredCodes, AcceptedInv
  <2>2. ASSUME NEW w \in Uses
        PROVE  HeldCodes(g, w)' <= HeldCodes(g, w) \/ HeldCodes(g, w)' <= StoredCodes(g)
    <3>1. HeldCodes(g, w) \in Nat
      BY LeftCodesType DEF AcceptedInv
    <3>2. CASE w # u
      <4>1. HeldCodes(g, w)' = HeldCodes(g, w)
        BY <1>1, <3>2 DEF HeldCodes
      <4> QED
        BY <3>1, <4>1
    <3>3. CASE w = u
      <4>1. HeldCodes(g, w)' = 0 \/ HeldCodes(g, w)' = StoredCodes(g)
        BY <1>1, <3>3 DEF HeldCodes, StoredCodes
      <4> QED
        BY <2>1, <4>1
    <3> QED
      BY <3>2, <3>3
  <2>3. StoredCodes(g)' <= StoredCodes(g)
    BY <2>1
  <2> QED
    BY <1>4, <2>2, <2>3, AcceptedKept DEF AcceptedInv
<1> QED
  BY <1>4, <1>5 DEF AcceptedInv

\* A code is accepted.
LEMMA AcceptedSpent ==
  ASSUME AcceptedInv, NEW u \in Uses, Factor!RemoveBackupCode(u)
  PROVE  AcceptedInv'
<1> DEFINE b == use[u].list.gen
           v == use[u].list.left
<1>1. /\ use[u].at = "accept" /\ use' = [use EXCEPT ![u] = Factor!Idle]
      /\ backupCodes' = [use[u].list EXCEPT !.left = @ - 1]
      /\ accepted' = [accepted EXCEPT ![b] = @ + 1] /\ newest' = newest
  BY DEF Factor!RemoveBackupCode, Factor!End
<1>2. /\ use[u].list \in CodeList /\ b \in Nat /\ v \in 1..NCodes /\ b <= newest
      /\ newest \in Nat /\ accepted \in [0..MaxLists -> Nat]
  BY <1>1, CodeParameters DEF AcceptedInv, AcceptedTypes, CodeList
<1>3. backupCodes' = [gen |-> b, left |-> v - 1] /\ backupCodes' \in CodeList
  <2>1. use[u].list = [gen |-> b, left |-> v] /\ v - 1 \in 0..NCodes
    <3>1. use[u].list = [gen |-> use[u].list.gen, left |-> use[u].list.left]
      BY <1>2 DEF CodeList
    <3>2. v - 1 \in 0..NCodes
      BY <1>2, CodeParameters, SMTT(30)
    <3> QED
      BY <3>1, <3>2
  <2>2. backupCodes' = [gen |-> b, left |-> v - 1]
    BY <1>1, <2>1
  <2> QED
    BY <1>2, <2>1, <2>2 DEF CodeList
<1>4. use'[u] = Factor!Idle /\ \A w \in Uses \ {u} : use'[w] = use[w]
  BY <1>1 DEF AcceptedInv, AcceptedTypes
<1>5. /\ \A g \in 0..MaxLists : g # b => accepted'[g] = accepted[g]
      /\ b \in 0..MaxLists => accepted'[b] = accepted[b] + 1
      /\ accepted' \in [0..MaxLists -> Nat]
  <2> DEFINE more == accepted[b] + 1
  <2>1. b \in 0..MaxLists => accepted[b] \in Nat /\ more \in Nat
    BY <1>2
  <2>2. accepted' = [accepted EXCEPT ![b] = more]
    BY <1>1
  <2> HIDE DEF more, b, v
  <2>3. /\ \A g \in 0..MaxLists : g # b => accepted'[g] = accepted[g]
        /\ b \in 0..MaxLists => accepted'[b] = more
        /\ accepted' \in [0..MaxLists -> Nat]
    BY <1>2, <2>1, <2>2
  <2> QED
    BY <2>3 DEF more
<1>6. AcceptedTypes'
  <2>1. Factor!Idle \in [at : {"idle", "enable", "disable", "accept"}, list : CodeList]
    BY CodeParameters DEF Factor!Idle, Factor!NoList, CodeList
  <2>2. use' \in [Uses -> [at : {"idle", "enable", "disable", "accept"}, list : CodeList]]
    BY <1>1, <2>1 DEF AcceptedInv, AcceptedTypes
  <2>3. ASSUME NEW w \in Uses, use'[w].at = "accept"
        PROVE  use'[w].list.left > 0 /\ use'[w].list.gen <= newest
    BY <1>4, <2>3 DEF AcceptedInv, AcceptedTypes, Factor!Idle
  <2>4. backupCodes'.gen <= newest'
    BY <1>1, <1>2, <1>3
  <2> QED
    BY <1>1, <1>2, <1>3, <1>5, <2>2, <2>3, <2>4 DEF AcceptedTypes
<1> HIDE DEF b, v
<1>7. ASSUME NEW g \in 1..MaxLists
      PROVE  /\ g > newest' => accepted'[g] = 0
             /\ Affordable(CodeGrid, LeftCodes(g), NCodes, accepted[g])'
  <2>1. g > newest => accepted[g] = 0 /\ g # b
    BY <1>2 DEF AcceptedInv
  <2>2. g > newest' => accepted'[g] = 0
    BY <1>1, <1>5, <2>1
  <2>3. ASSUME NEW w \in Uses
        PROVE  /\ HeldCodes(g, w)' \in Nat /\ HeldCodes(g, w) \in Nat
               /\ HeldCodes(g, w)' = IF w = u THEN 0 ELSE HeldCodes(g, w)
    <3>1. HeldCodes(g, w)' = IF w = u THEN 0 ELSE HeldCodes(g, w)
      BY <1>4 DEF HeldCodes, Factor!Idle
    <3> QED
      BY <3>1, LeftCodesType DEF AcceptedInv
  <2>4. CASE g # b
    <3>1. StoredCodes(g)' = 0 /\ StoredCodes(g) \in Nat
      BY <1>3, <2>4, LeftCodesType DEF StoredCodes, AcceptedInv
    <3>2. StoredCodes(g)' <= StoredCodes(g) /\ accepted'[g] = accepted[g]
      BY <1>5, <2>4, <3>1
    <3>3. \A w \in Uses : HeldCodes(g, w)' <= HeldCodes(g, w)
      BY <2>3
    <3> QED
      BY <1>6, <2>2, <3>2, <3>3, AcceptedKept
  <2>5. CASE g = b
    <3>1. /\ StoredCodes(g)' = v - 1 /\ HeldCodes(g, u) = v /\ StoredCodes(g) \in Nat
      BY <1>1, <1>3, <2>5, LeftCodesType DEF StoredCodes, HeldCodes, AcceptedInv, b, v
    <3>2. /\ LeftCodes(g) \in [Uses -> 0..NCodes] /\ LeftCodes(g)' \in [Uses -> 0..NCodes]
          /\ accepted[g] \in Nat
      BY <1>6, LeftCodesType, LeftCodesTypeAfter, SMTT(30) DEF AcceptedInv, AcceptedTypes
    <3>3. \A w \in Uses :
             /\ LeftCodes(g)[w] = IF HeldCodes(g, w) <= StoredCodes(g)
                                  THEN StoredCodes(g) ELSE HeldCodes(g, w)
             /\ LeftCodes(g)'[w] = IF HeldCodes(g, w)' <= StoredCodes(g)'
                                   THEN StoredCodes(g)' ELSE HeldCodes(g, w)'
      BY DEF LeftCodes
    <3> DEFINE V == LeftCodes(g)[u]
    <3>4. V \in 1..NCodes /\ v <= V
      BY <1>2, <3>1, <3>2, <3>3
    <3>5. LeftCodes(g)'[u] < V
      <4>1. HeldCodes(g, u)' = 0
        BY <2>3
      <4>2. LeftCodes(g)'[u] = v - 1
        BY <1>2, <3>1, <3>3, <4>1
      <4> QED
        BY <1>2, <3>4, <4>2
    <3>6. ASSUME NEW w \in Uses PROVE LeftCodes(g)'[w] <= LeftCodes(g)[w] \/ LeftCodes(g)'[w] < V
      <4>1. LeftCodes(g)'[w] = v - 1 \/ (LeftCodes(g)'[w] = HeldCodes(g, w)')
        BY <3>1, <3>3
      <4>2. HeldCodes(g, w)' <= HeldCodes(g, w) /\ HeldCodes(g, w) <= LeftCodes(g)[w]
        BY <2>3, <3>1, <3>3
      <4>3. LeftCodes(g)[w] \in Int
        BY <3>2
      <4> QED
        BY <1>2, <2>3, <3>4, <4>1, <4>2, <4>3
    <3>7. Affordable(CodeGrid, LeftCodes(g), NCodes, accepted[g])
      BY DEF AcceptedInv
    <3>8. V = LeftCodes(g)[u]
      OBVIOUS
    <3> HIDE DEF V
    <3>9. Affordable(CodeGrid, LeftCodes(g)', NCodes, accepted[g] + 1)
      BY <3>2, <3>4, <3>5, <3>6, <3>7, <3>8, CodeGridPascal, CodeParameters, BudgetSpent
    <3>10. CodeGrid' = CodeGrid
      BY DEF CodeGrid, Factor!choose, Factor!factorial
    <3> QED
      BY <1>5, <2>2, <2>5, <3>9, <3>10
  <2> QED
    BY <2>4, <2>5
<1> QED
  BY <1>6, <1>7 DEF AcceptedInv

LEMMA AcceptedStep == ASSUME AcceptedInv, Factor!Next PROVE AcceptedInv'
<1>1. CASE Factor!GenerateSecret
  BY <1>1, AcceptedStored DEF Factor!GenerateSecret
<1>2. CASE Factor!RegenerateBackupCodes
  BY <1>2, AcceptedStored DEF Factor!RegenerateBackupCodes
<1> DEFINE Quiet == {"idle", "enable", "disable"}
<1>3. \A step \in Quiet : [at |-> step, list |-> Factor!NoList] \in [at : Quiet, list : {Factor!NoList}]
  OBVIOUS
<1>4. ASSUME NEW u \in Uses, Factor!CheckSecret(u) \/ Factor!CheckToken(u) PROVE AcceptedInv'
  <2>1. PICK step \in Quiet : use' = [use EXCEPT ![u] = [at |-> step, list |-> Factor!NoList]]
    BY <1>4 DEF Factor!CheckSecret, Factor!CheckToken, Factor!Begin
  <2>2. UNCHANGED <<newest, backupCodes, accepted>>
    BY <1>4 DEF Factor!CheckSecret, Factor!CheckToken
  <2> QED
    BY <1>3, <2>1, <2>2, AcceptedMoves
<1>5. ASSUME NEW u \in Uses, Factor!Enable(u) \/ Factor!Disable(u) \/ Factor!Abort(u)
      PROVE  AcceptedInv'
  <2>1. /\ use' = [use EXCEPT ![u] = [at |-> "idle", list |-> Factor!NoList]]
        /\ UNCHANGED <<newest, backupCodes, accepted>>
    BY <1>5 DEF Factor!Enable, Factor!Disable, Factor!Abort, Factor!End, Factor!Idle
  <2> QED
    BY <1>3, <2>1, AcceptedMoves
<1>6. ASSUME NEW u \in Uses, Factor!ReadBackupCodes(u) PROVE AcceptedInv'
  <2>1. /\ use' = [use EXCEPT ![u] = [at |-> "accept", list |-> backupCodes]]
        /\ backupCodes.left > 0 /\ UNCHANGED <<newest, backupCodes, accepted>>
    BY <1>6 DEF Factor!ReadBackupCodes, Factor!Begin
  <2> QED
    BY <2>1, AcceptedMoves
<1>7. ASSUME NEW u \in Uses, Factor!RemoveBackupCode(u) PROVE AcceptedInv'
  BY <1>7, AcceptedSpent
<1> QED
  BY <1>1, <1>2, <1>4, <1>5, <1>6, <1>7 DEF Factor!Next

LEMMA AcceptedInit == Init => AcceptedInv
<1> SUFFICES ASSUME Init PROVE AcceptedInv
  OBVIOUS
<1>1. /\ newest = 0 /\ backupCodes = Factor!NoList /\ use = [u \in Uses |-> Factor!Idle]
      /\ accepted = [g \in 0..MaxLists |-> 0]
  BY DEF Init, Factor!Init
<1>2. AcceptedTypes
  <2>1. Factor!NoList \in CodeList /\ Factor!NoList.gen = 0
    BY CodeParameters DEF Factor!NoList, CodeList
  <2> QED
    BY <1>1, <2>1 DEF AcceptedTypes, Factor!Idle
<1>3. ASSUME NEW g \in 1..MaxLists
      PROVE  accepted[g] = 0 /\ Affordable(CodeGrid, LeftCodes(g), NCodes, accepted[g])
  <2>1. accepted[g] = 0
    BY <1>1, CodeParameters
  <2> QED
    BY <1>2, <2>1, LeftCodesType, CodeGridPascal, CodeParameters, BudgetFresh
<1> QED
  BY <1>2, <1>3 DEF AcceptedInv

LEMMA FactorCardinality == \A S : Factor!Cardinality(S) = Cardinality(S)
  BY DEF Factor!Cardinality, Cardinality

\* A list of n backup codes is good for n uses when they come one at a time, and
\* with k at a time for fewer than n + k over k: a use that was overtaken restores the
\* codes that the others removed (twoFactorAuthService.ts:183-212).
THEOREM AcceptedHolds == Spec => []AcceptedBound
<1>1. AcceptedInv /\ [Next]_vars => AcceptedInv'
  <2> SUFFICES ASSUME AcceptedInv, [Next]_vars PROVE AcceptedInv'
    OBVIOUS
  <2>1. CASE Factor!Next
    BY <2>1, AcceptedStep
  <2>2. CASE UNCHANGED factorVars
    <3>1. /\ newest' = newest /\ backupCodes' = backupCodes /\ use' = use
          /\ accepted' = accepted
      BY <2>2 DEF factorVars
    <3>2. AcceptedTypes'
      BY <3>1 DEF AcceptedInv, AcceptedTypes
    <3>3. \A g : LeftCodes(g)' = LeftCodes(g)
      BY <3>1 DEF LeftCodes, HeldCodes, StoredCodes
    <3>4. CodeGrid' = CodeGrid
      BY DEF CodeGrid, Factor!choose, Factor!factorial
    <3> QED
      BY <3>1, <3>2, <3>3, <3>4 DEF AcceptedInv
  <2> QED
    BY <2>1, <2>2 DEF Next, vars
<1>2. AcceptedInv => AcceptedBound
  <2> SUFFICES ASSUME AcceptedInv, NEW g \in 1..MaxLists
               PROVE  accepted[g] < Factor!choose(NCodes + Cardinality(Uses), Cardinality(Uses))
    BY FactorCardinality DEF AcceptedBound, Factor!AcceptedBound
  <2>1. accepted[g] \in Nat /\ LeftCodes(g) \in [Uses -> 0..NCodes]
    BY LeftCodesType, CodeParameters DEF AcceptedInv, AcceptedTypes
  <2>2. accepted[g] < CodeGrid[NCodes][Cardinality(Uses)]
    BY <2>1, CodeGridPascal, CodeParameters, BudgetBound DEF AcceptedInv
  <2>3. Cardinality(Uses) \in Nat
    BY CodeParameters, FS_CardinalityType
  <2> QED
    BY <2>2, <2>3, CodeParameters DEF CodeGrid
<1> QED
  BY AcceptedInit, <1>1, <1>2, PTL DEF Spec

-----------------------------------------------------------------------------
(***************************************************************************)
(* The wrong codes of the e-mail verification.                             *)
(***************************************************************************)
GuessGrid == [x \in Nat |-> [c \in Nat |-> Email!choose(x + c, c)]]

\* How many wrong codes a request may start from: those the counter it has read
\* leaves, or those the counter leaves now if they are more.
Counting(c) == check[c].at \in {"code", "count"}
HeldGuesses(c) == IF Counting(c) THEN MaxAttempts - check[c].seen ELSE 0
OpenGuesses == MaxAttempts - attempts
LeftGuesses ==
    [c \in Checks |-> IF HeldGuesses(c) <= OpenGuesses THEN OpenGuesses ELSE HeldGuesses(c)]

CheckRecord == [at : Email!Step, seen : 0..MaxAttempts]

GuessTypes ==
    /\ attempts \in 0..MaxAttempts
    /\ check \in [Checks -> CheckRecord]
    /\ wrong \in Nat
    /\ verifyFaults \in Nat
    /\ \A c \in Checks : Counting(c) => check[c].seen < MaxAttempts

\* Every wrong code is paid for, by a fault or out of the budget.
GuessInv ==
    /\ GuessTypes
    /\ \E n \in Nat : wrong <= n + verifyFaults /\ Affordable(GuessGrid, LeftGuesses, MaxAttempts, n)

LEMMA GuessGridPascal == Pascal(GuessGrid)
<1>1. Factorials(Email!factorial)
  BY TheFactorials, FactorialDef DEF Factorials
<1> DEFINE f == Email!factorial
<1> HIDE DEF f
<1>2. Pascal([x \in Nat |-> [c \in Nat |-> f[x + c] \div (f[c] * f[(x + c) - c])]])
  BY <1>1, ChoosePascal DEF f
<1> QED
  BY <1>2 DEF GuessGrid, Email!choose, f

LEMMA GuessParameters == MaxAttempts \in Nat \ {0} /\ IsFiniteSet(Checks)
  BY ServicesAssumption

LEMMA LeftGuessesType ==
  ASSUME GuessTypes
  PROVE  /\ LeftGuesses \in [Checks -> 0..MaxAttempts] /\ OpenGuesses \in 0..MaxAttempts
         /\ \A c \in Checks : HeldGuesses(c) \in 0..MaxAttempts
<1>1. OpenGuesses \in 0..MaxAttempts
  BY GuessParameters DEF GuessTypes, OpenGuesses
<1>2. ASSUME NEW c \in Checks PROVE HeldGuesses(c) \in 0..MaxAttempts
  <2>1. check[c].seen \in 0..MaxAttempts
    BY DEF GuessTypes, CheckRecord
  <2> QED
    BY <2>1, GuessParameters DEF HeldGuesses
<1> QED
  BY <1>1, <1>2 DEF LeftGuesses

LEMMA LeftGuessesTypeAfter ==
  ASSUME GuessTypes'
  PROVE  /\ LeftGuesses' \in [Checks -> 0..MaxAttempts] /\ OpenGuesses' \in 0..MaxAttempts
         /\ \A c \in Checks : HeldGuesses(c)' \in 0..MaxAttempts
<1>1. OpenGuesses' \in 0..MaxAttempts
  <2>1. attempts' \in 0..MaxAttempts
    BY DEF GuessTypes
  <2>2. OpenGuesses' = MaxAttempts - attempts'
    BY DEF OpenGuesses
  <2>3. \A a \in 0..MaxAttempts : MaxAttempts - a \in 0..MaxAttempts
    BY GuessParameters
  <2> QED
    BY <2>1, <2>2, <2>3
<1>2. ASSUME NEW c \in Checks PROVE HeldGuesses(c)' \in 0..MaxAttempts
  <2>1. check'[c].seen \in 0..MaxAttempts
    BY DEF GuessTypes, CheckRecord
  <2> QED
    BY <2>1, GuessParameters DEF HeldGuesses
<1> QED
  BY <1>1, <1>2 DEF LeftGuesses

LEMMA GuessesLeft ==
  \A c \in Checks :
     /\ LeftGuesses[c] = IF HeldGuesses(c) <= OpenGuesses THEN OpenGuesses ELSE HeldGuesses(c)
     /\ LeftGuesses'[c] = IF HeldGuesses(c)' <= OpenGuesses' THEN OpenGuesses' ELSE HeldGuesses(c)'
  BY DEF LeftGuesses

LEMMA GuessGridStays == GuessGrid' = GuessGrid
  BY DEF GuessGrid, Email!choose, Email!factorial

\* Whatever leaves every request no more than it had keeps the budget.
LEMMA GuessesKept ==
  ASSUME GuessInv, GuessTypes',
         \/ wrong' = wrong /\ verifyFaults' \in {verifyFaults, verifyFaults + 1}
         \/ wrong' = wrong + 1 /\ verifyFaults' = verifyFaults + 1,
         OpenGuesses' <= OpenGuesses,
         \A c \in Checks : HeldGuesses(c)' <= HeldGuesses(c) \/ HeldGuesses(c)' <= OpenGuesses
  PROVE  GuessInv'
<1>1. PICK n \in Nat :
         wrong <= n + verifyFaults /\ Affordable(GuessGrid, LeftGuesses, MaxAttempts, n)
  BY DEF GuessInv
<1>2. LeftGuesses \in [Checks -> 0..MaxAttempts] /\ LeftGuesses' \in [Checks -> 0..MaxAttempts]
  BY LeftGuessesType, LeftGuessesTypeAfter DEF GuessInv
<1>3. ASSUME NEW c \in Checks PROVE LeftGuesses'[c] <= LeftGuesses[c]
  <2>1. /\ HeldGuesses(c) \in Int /\ OpenGuesses \in Int
        /\ HeldGuesses(c)' \in Int /\ OpenGuesses' \in Int
    BY LeftGuessesType, LeftGuessesTypeAfter DEF GuessInv
  <2> QED
    BY <2>1, GuessesLeft
<1>4. Affordable(GuessGrid, LeftGuesses', MaxAttempts, n)
  BY <1>1, <1>2, <1>3, GuessGridPascal, GuessParameters, BudgetKept
<1>5. wrong' <= n + verifyFaults'
  <2>1. wrong \in Nat /\ verifyFaults \in Nat
    BY DEF GuessInv, GuessTypes
  <2>2. wrong <= n + verifyFaults
    BY <1>1
  <2> QED
    BY <2>1, <2>2
<1> QED
  BY <1>4, <1>5, GuessGridStays DEF GuessInv

\* The counter goes, and what is known of wrong codes with it.
LEMMA GuessesForgotten == ASSUME GuessTypes', wrong' = 0 PROVE GuessInv'
<1>1. Affordable(GuessGrid, LeftGuesses', MaxAttempts, 0)
  BY LeftGuessesTypeAfter, GuessGridPascal, GuessParameters, BudgetFresh
<1>2. 0 <= 0 + verifyFaults'
  <2>1. verifyFaults' \in Nat
    BY DEF GuessTypes
  <2>2. \A v \in Nat : 0 <= 0 + v
    OBVIOUS
  <2> QED
    BY <2>1, <2>2
<1> QED
  BY <1>1, <1>2, GuessGridStays DEF GuessInv

\* One request changes.
LEMMA GuessRequest ==
  ASSUME GuessTypes, NEW c \in Checks, NEW to \in CheckRecord, check' = [check EXCEPT ![c] = to]
  PROVE  /\ check' \in [Checks -> CheckRecord]
         /\ \A d \in Checks : check'[d] = IF d = c THEN to ELSE check[d]
         /\ \A d \in Checks \ {c} :
               Counting(d)' = Counting(d) /\ HeldGuesses(d)' = HeldGuesses(d)
<1>1. /\ check' \in [Checks -> CheckRecord]
      /\ \A d \in Checks : check'[d] = IF d = c THEN to ELSE check[d]
  BY DEF GuessTypes
<1> QED
  BY <1>1 DEF Counting, HeldGuesses

\* A request goes on with the counter it has read, or with none.
LEMMA GuessMoves ==
  ASSUME GuessInv, NEW c \in Checks, NEW to \in CheckRecord, check' = [check EXCEPT ![c] = to],
         to.at \in {"code", "count"} => Counting(c) /\ to.seen = check[c].seen,
         attempts' = attempts,
         \/ wrong' = wrong /\ verifyFaults' \in {verifyFaults, verifyFaults + 1}
         \/ wrong' = wrong + 1 /\ verifyFaults' = verifyFaults + 1
  PROVE  GuessInv'
<1>0. GuessTypes
  BY DEF GuessInv
<1>1. /\ check' \in [Checks -> CheckRecord] /\ check'[c] = to
      /\ \A d \in Checks \ {c} :
            check'[d] = check[d] /\ Counting(d)' = Counting(d) /\ HeldGuesses(d)' = HeldGuesses(d)
  BY <1>0, GuessRequest
<1>2. Counting(c)' => Counting(c) /\ check'[c].seen = check[c].seen
  BY <1>1 DEF Counting
<1>3. GuessTypes'
  <2>1. wrong' \in Nat /\ verifyFaults' \in Nat
    BY <1>0 DEF GuessTypes
  <2>2. \A d \in Checks : Counting(d)' => check'[d].seen < MaxAttempts
    BY <1>0, <1>1, <1>2 DEF GuessTypes
  <2> QED
    BY <1>0, <1>1, <2>1, <2>2 DEF GuessTypes
<1>4. OpenGuesses' = OpenGuesses /\ OpenGuesses \in Int
  BY <1>0, LeftGuessesType DEF OpenGuesses
<1>5. ASSUME NEW d \in Checks PROVE HeldGuesses(d)' <= HeldGuesses(d)
  <2>1. HeldGuesses(d) \in 0..MaxAttempts
    BY <1>0, LeftGuessesType
  <2>2. CASE d # c
    BY <1>1, <2>1, <2>2
  <2>3. CASE d = c
    <3>1. HeldGuesses(d)' = 0 \/ HeldGuesses(d)' = HeldGuesses(d)
      BY <1>2, <2>3 DEF HeldGuesses
    <3> QED
      BY <2>1, <3>1
  <2> QED
    BY <2>2, <2>3
<1>6. OpenGuesses' <= OpenGuesses
  BY <1>4
<1> QED
  BY <1>3, <1>5, <1>6, GuessesKept

\* A request reads the counter.
LEMMA GuessReads ==
  ASSUME GuessInv, NEW c \in Checks, Email!ReadAttempts(c)
  PROVE  GuessInv'
<1> DEFINE to == [at |-> "code", seen |-> attempts]
<1>0. /\ GuessTypes /\ attempts < MaxAttempts /\ check' = [check EXCEPT ![c] = to]
      /\ UNCHANGED <<attempts, wrong, verifyFaults>>
  BY DEF GuessInv, Email!ReadAttempts
<1>1. to \in CheckRecord
  BY <1>0 DEF GuessTypes, CheckRecord, Email!Step
<1>2. /\ check' \in [Checks -> CheckRecord] /\ check'[c] = to
      /\ \A d \in Checks \ {c} :
            check'[d] = check[d] /\ Counting(d)' = Counting(d) /\ HeldGuesses(d)' = HeldGuesses(d)
  BY <1>0, <1>1, GuessRequest
<1>3. GuessTypes'
  <2>1. \A d \in Checks : Counting(d)' => check'[d].seen < MaxAttempts
    BY <1>0, <1>2 DEF GuessTypes
  <2> QED
    BY <1>0, <1>2, <2>1 DEF GuessTypes
<1>4. OpenGuesses' = OpenGuesses /\ OpenGuesses \in Int
  BY <1>0, LeftGuessesType DEF OpenGuesses
<1>5. HeldGuesses(c)' = OpenGuesses
  BY <1>2, <1>0 DEF HeldGuesses, Counting, OpenGuesses
<1>6. \A d \in Checks : HeldGuesses(d)' <= HeldGuesses(d) \/ HeldGuesses(d)' <= OpenGuesses
  <2> TAKE d \in Checks
  <2>1. HeldGuesses(d) \in Int
    BY <1>0, LeftGuessesType
  <2> QED
    BY <1>2, <1>4, <1>5, <2>1
<1>7. OpenGuesses' <= OpenGuesses
  BY <1>4
<1> QED
  BY <1>0, <1>3, <1>6, <1>7, GuessesKept

\* A wrong code is counted.
LEMMA GuessSpent ==
  ASSUME GuessInv, NEW c \in Checks, Email!CountWrong(c)
  PROVE  GuessInv'
<1> DEFINE s == check[c].seen
<1>0. /\ GuessTypes /\ check[c].at = "count" /\ check' = [check EXCEPT ![c] = Email!Idle]
      /\ attempts' = s + 1 /\ wrong' = wrong + 1 /\ verifyFaults' = verifyFaults
  BY DEF GuessInv, Email!CountWrong, Email!End
<1>1. s \in 0..MaxAttempts /\ s < MaxAttempts /\ MaxAttempts \in Nat
  BY <1>0, GuessParameters DEF GuessTypes, CheckRecord, Counting
<1>2. Email!Idle \in CheckRecord /\ Email!Idle.at = "idle"
  BY GuessParameters DEF CheckRecord, Email!Idle, Email!Step
<1>3. /\ check' \in [Checks -> CheckRecord] /\ check'[c] = Email!Idle
      /\ \A d \in Checks \ {c} :
            check'[d] = check[d] /\ Counting(d)' = Counting(d) /\ HeldGuesses(d)' = HeldGuesses(d)
  BY <1>0, <1>2, GuessRequest
<1> HIDE DEF s
<1>4. GuessTypes'
  <2>1. \A d \in Checks : Counting(d)' => check'[d].seen < MaxAttempts
    BY <1>0, <1>2, <1>3 DEF GuessTypes, Counting
  <2>2. attempts' \in 0..MaxAttempts /\ wrong' \in Nat /\ verifyFaults' \in Nat
    BY <1>0, <1>1 DEF GuessTypes
  <2> QED
    BY <1>3, <2>1, <2>2 DEF GuessTypes
<1> DEFINE v == LeftGuesses[c]
<1>5. /\ LeftGuesses \in [Checks -> 0..MaxAttempts] /\ LeftGuesses' \in [Checks -> 0..MaxAttempts]
      /\ OpenGuesses \in Int
  BY <1>0, <1>4, LeftGuessesType, LeftGuessesTypeAfter
<1>6. OpenGuesses' = MaxAttempts - s - 1 /\ HeldGuesses(c) = MaxAttempts - s /\ HeldGuesses(c)' = 0
  <2>1. OpenGuesses' = MaxAttempts - (s + 1)
    BY <1>0 DEF OpenGuesses
  <2>2. HeldGuesses(c) = MaxAttempts - s
    BY <1>0 DEF HeldGuesses, Counting, s
  <2>3. HeldGuesses(c)' = 0
    BY <1>2, <1>3 DEF HeldGuesses, Counting
  <2> QED
    BY <1>1, <2>1, <2>2, <2>3
<1>7. v \in 1..MaxAttempts /\ MaxAttempts - s <= v
  BY <1>1, <1>5, <1>6, GuessesLeft
<1>8. LeftGuesses'[c] < v
  <2>1. LeftGuesses'[c] = MaxAttempts - s - 1
    BY <1>1, <1>6, GuessesLeft
  <2> QED
    BY <1>1, <1>7, <2>1
<1>9. ASSUME NEW d \in Checks PROVE LeftGuesses'[d] <= LeftGuesses[d] \/ LeftGuesses'[d] < v
  <2>1. HeldGuesses(d) \in Int /\ HeldGuesses(d)' \in Int
    BY <1>0, <1>4, LeftGuessesType, LeftGuessesTypeAfter
  <2>2. LeftGuesses'[d] = OpenGuesses' \/ LeftGuesses'[d] = HeldGuesses(d)'
    BY GuessesLeft
  <2>3. d # c => HeldGuesses(d)' = HeldGuesses(d) /\ HeldGuesses(d) <= LeftGuesses[d]
    BY <1>3, <1>5, <2>1, GuessesLeft
  <2> QED
    BY <1>1, <1>6, <1>7, <1>8, <2>1, <2>2, <2>3
<1>10. PICK n \in Nat :
          wrong <= n + verifyFaults /\ Affordable(GuessGrid, LeftGuesses, MaxAttempts, n)
  BY DEF GuessInv
<1>11. v = LeftGuesses[c]
  OBVIOUS
<1> HIDE DEF v
<1>12. Affordable(GuessGrid, LeftGuesses', MaxAttempts, n + 1)
  BY <1>1, <1>5, <1>7, <1>8, <1>9, <1>10, <1>11, GuessGridPascal, GuessParameters, BudgetSpent
<1>13. n + 1 \in Nat /\ wrong' <= (n + 1) + verifyFaults'
  BY <1>0, <1>10 DEF GuessTypes
<1> QED
  BY <1>4, <1>12, <1>13, GuessGridStays DEF GuessInv

LEMMA GuessStep == ASSUME GuessInv, Email!Next PROVE GuessInv'
<1>0. GuessTypes /\ wrong \in Nat /\ verifyFaults \in Nat
  BY DEF GuessInv, GuessTypes
<1>i. Email!Idle \in CheckRecord /\ Email!Idle.at = "idle" /\ Email!Idle = [at |-> "idle", seen |-> 0]
  BY GuessParameters DEF CheckRecord, Email!Idle, Email!Step
<1>1. CASE UNCHANGED <<attempts, check, wrong, verifyFaults>>
  <2>1. GuessTypes' /\ LeftGuesses' = LeftGuesses
    BY <1>0, <1>1 DEF GuessTypes, LeftGuesses, HeldGuesses, OpenGuesses, Counting
  <2> QED
    BY <1>1, <2>1, GuessGridStays DEF GuessInv
<1>2. ASSUME NEW c \in Checks, NEW step \in Email!Step, Email!Goto(c, step),
             step \in {"code", "count"} => Counting(c), UNCHANGED <<attempts, wrong, verifyFaults>>
      PROVE  GuessInv'
  <2> DEFINE to == [at |-> step, seen |-> check[c].seen]
  <2>1. check[c] \in CheckRecord
    BY <1>0 DEF GuessTypes
  <2>2. to \in CheckRecord /\ [check[c] EXCEPT !.at = step] = to
    BY <2>1 DEF CheckRecord
  <2>3. check' = [check EXCEPT ![c] = to]
    BY <1>0, <1>2, <2>2 DEF Email!Goto, GuessTypes
  <2>4. to.at = step /\ to.seen = check[c].seen
    OBVIOUS
  <2> HIDE DEF to
  <2> QED
    BY <1>2, <2>2, <2>3, <2>4, GuessMoves
<1>3. ASSUME NEW c \in Checks, Email!End(c), attempts' = attempts,
             \/ wrong' = wrong /\ verifyFaults' \in {verifyFaults, verifyFaults + 1}
             \/ wrong' = wrong + 1 /\ verifyFaults' = verifyFaults + 1
      PROVE  GuessInv'
  BY <1>i, <1>3, GuessMoves DEF Email!End
<1>4. ASSUME Email!Forgotten, check' \in [Checks -> CheckRecord], verifyFaults' = verifyFaults,
             \A c \in Checks : Counting(c)' => check'[c].seen < MaxAttempts
      PROVE  GuessInv'
  <2>1. GuessTypes' /\ wrong' = 0
    BY <1>0, <1>4, GuessParameters DEF GuessTypes, Email!Forgotten
  <2> QED
    BY <2>1, GuessesForgotten
<1>5. CASE Email!Register \/ Email!Send \/ Email!ExpireCode
  BY <1>1, <1>5 DEF Email!Register, Email!Send, Email!ExpireCode
<1>6. ASSUME NEW c \in Checks, Email!ReadAttempts(c) PROVE GuessInv'
  BY <1>6, GuessReads
<1>7. ASSUME NEW c \in Checks, Email!ReadCode(c) PROVE GuessInv'
  <2>1. check[c].at = "code" /\ UNCHANGED <<attempts, wrong, verifyFaults>>
    BY <1>7 DEF Email!ReadCode
  <2>2. Email!End(c) \/ \E step \in {"update", "count"} : Email!Goto(c, step)
    BY <1>7 DEF Email!ReadCode
  <2>3. Counting(c) /\ {"update", "count"} \subseteq Email!Step
    BY <2>1 DEF Counting, Email!Step
  <2> QED
    BY <1>2, <1>3, <2>1, <2>2, <2>3
<1>8. ASSUME NEW c \in Checks, Email!CountWrong(c) PROVE GuessInv'
  BY <1>8, GuessSpent
<1>9. ASSUME NEW c \in Checks, Email!UpdateUser(c) \/ Email!ForgetCode(c) PROVE GuessInv'
  <2>1. UNCHANGED <<attempts, wrong, verifyFaults>>
    BY <1>9 DEF Email!UpdateUser, Email!ForgetCode
  <2>2. PICK step \in {"forget_code", "forget_attempts"} : Email!Goto(c, step)
    BY <1>9 DEF Email!UpdateUser, Email!ForgetCode
  <2>3. step \in Email!Step /\ step \notin {"code", "count"}
    BY DEF Email!Step
  <2> QED
    BY <1>2, <2>1, <2>2, <2>3
<1>10. ASSUME NEW c \in Checks, Email!ForgetAttempts(c) PROVE GuessInv'
  <2>1. /\ Email!Forgotten /\ check' = [check EXCEPT ![c] = Email!Idle]
        /\ verifyFaults' = verifyFaults
    BY <1>10 DEF Email!ForgetAttempts, Email!End
  <2>2. /\ check' \in [Checks -> CheckRecord] /\ check'[c] = Email!Idle
        /\ \A d \in Checks \ {c} : check'[d] = check[d] /\ Counting(d)' = Counting(d)
    BY <1>0, <1>i, <2>1, GuessRequest
  <2>3. \A d \in Checks : Counting(d)' => check'[d].seen < MaxAttempts
    BY <1>0, <1>i, <2>2 DEF GuessTypes, Counting
  <2> QED
    BY <1>4, <2>1, <2>2, <2>3
<1>11. ASSUME NEW c \in Checks, Email!Throw(c) PROVE GuessInv'
  BY <1>3, <1>11 DEF Email!Throw, Email!Fault
<1>12. CASE Email!Exit
  <2>1. /\ check' = [c \in Checks |-> Email!Idle] /\ UNCHANGED <<attempts, wrong>>
        /\ verifyFaults' = verifyFaults + 1
    BY <1>12 DEF Email!Exit, Email!Fault
  <2>2. \A c \in Checks : ~Counting(c)' /\ HeldGuesses(c)' = 0
    BY <1>i, <2>1 DEF Counting, HeldGuesses
  <2>3. GuessTypes'
    BY <1>0, <1>i, <2>1, <2>2 DEF GuessTypes
  <2>4. OpenGuesses' <= OpenGuesses
    BY <1>0, <2>1, LeftGuessesType DEF OpenGuesses
  <2>5. \A c \in Checks : HeldGuesses(c)' <= HeldGuesses(c)
    <3> TAKE c \in Checks
    <3>1. HeldGuesses(c) \in Nat
      BY <1>0, LeftGuessesType
    <3> QED
      BY <2>2, <3>1
  <2> QED
    BY <2>1, <2>3, <2>4, <2>5, GuessesKept
<1>13. CASE Email!Flush
  <2>1. Email!Forgotten /\ check' = check /\ verifyFaults' = verifyFaults
    BY <1>13 DEF Email!Flush
  <2> QED
    BY <1>0, <1>4, <2>1 DEF GuessTypes, Counting
<1>14. CASE Email!Tick
  <2>1. check' = check /\ verifyFaults' = verifyFaults
    BY <1>14 DEF Email!Tick
  <2>2. Email!Forgotten \/ UNCHANGED <<attempts, wrong>>
    BY <1>14 DEF Email!Tick
  <2>3. CASE Email!Forgotten
    BY <1>0, <1>4, <2>1, <2>3 DEF GuessTypes, Counting
  <2> QED
    BY <1>1, <2>1, <2>2, <2>3
<1> QED
  BY <1>5, <1>6, <1>7, <1>8, <1>9, <1>10, <1>11, <1>12, <1>13, <1>14 DEF Email!Next, Email!CheckStep

LEMMA GuessInit == Init => GuessInv
<1> SUFFICES ASSUME Init PROVE GuessInv
  OBVIOUS
<1>1. attempts = 0 /\ check = [c \in Checks |-> Email!Idle] /\ wrong = 0 /\ verifyFaults = 0
  BY DEF Init, Email!Init
<1>2. GuessTypes
  <2>1. Email!Idle \in CheckRecord /\ Email!Idle.at = "idle"
    BY GuessParameters DEF CheckRecord, Email!Idle, Email!Step
  <2> QED
    BY <1>1, <2>1, GuessParameters DEF GuessTypes, Counting
<1>3. Affordable(GuessGrid, LeftGuesses, MaxAttempts, 0)
  BY <1>2, LeftGuessesType, GuessGridPascal, GuessParameters, BudgetFresh
<1> QED
  BY <1>1, <1>2, <1>3 DEF GuessInv

LEMMA EmailCardinality == \A S : Email!Cardinality(S) = Cardinality(S)
  BY DEF Email!Cardinality, Cardinality

\* With one request at a time MaxAttempts wrong codes are answered while the counter
\* lives, with n at a time fewer than MaxAttempts + n over n, and one more per fault
\* (emailVerificationService.ts:59-76).
THEOREM GuessHolds == Spec => []GuessBound
<1>1. GuessInv /\ [Next]_vars => GuessInv'
  <2> SUFFICES ASSUME GuessInv, [Next]_vars PROVE GuessInv'
    OBVIOUS
  <2>1. CASE Email!Next
    BY <2>1, GuessStep
  <2>2. CASE UNCHANGED emailVars
    <3>1. UNCHANGED <<attempts, check, wrong, verifyFaults>>
      BY <2>2 DEF emailVars
    <3>2. GuessTypes' /\ LeftGuesses' = LeftGuesses
      BY <3>1 DEF GuessInv, GuessTypes, LeftGuesses, HeldGuesses, OpenGuesses, Counting
    <3> QED
      BY <3>1, <3>2, GuessGridStays DEF GuessInv
  <2> QED
    BY <2>1, <2>2 DEF Next, vars
<1>2. GuessInv => GuessBound
  <2> SUFFICES ASSUME GuessInv
               PROVE  wrong < Email!choose(MaxAttempts + Cardinality(Checks), Cardinality(Checks))
                                 + verifyFaults
    BY EmailCardinality DEF GuessBound, Email!GuessBound
  <2>1. PICK n \in Nat :
           wrong <= n + verifyFaults /\ Affordable(GuessGrid, LeftGuesses, MaxAttempts, n)
    BY DEF GuessInv
  <2>2. /\ LeftGuesses \in [Checks -> 0..MaxAttempts]
        /\ wrong \in Nat /\ verifyFaults \in Nat
    BY LeftGuessesType DEF GuessInv, GuessTypes
  <2>3. n < GuessGrid[MaxAttempts][Cardinality(Checks)]
    BY <2>1, <2>2, GuessGridPascal, GuessParameters, BudgetBound
  <2>4. Cardinality(Checks) \in Nat
    BY GuessParameters, FS_CardinalityType
  <2> DEFINE all == GuessGrid[MaxAttempts][Cardinality(Checks)]
  <2>5. all \in Nat
    BY <2>4, GuessGridPascal, GuessParameters DEF Pascal
  <2>6. all = Email!choose(MaxAttempts + Cardinality(Checks), Cardinality(Checks))
    BY <2>4, GuessParameters DEF GuessGrid
  <2> HIDE DEF all
  <2>7. wrong < all + verifyFaults
    BY <2>1, <2>2, <2>3, <2>5 DEF all
  <2> QED
    BY <2>6, <2>7
<1> QED
  BY GuessInit, <1>1, <1>2, PTL DEF Spec

=============================================================================
