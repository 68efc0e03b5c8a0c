------------------------- MODULE PriceAlertsProofs -------------------------
(***************************************************************************)
(* Proofs about PriceAlerts, for any number of alerts, keys, prices,       *)
(* requests, passes and faults.                                            *)
(***************************************************************************)
EXTENDS PriceAlerts, SequenceTheorems, WellFoundedInduction, TLAPS

-----------------------------------------------------------------------------
(* Type correctness.                                                        *)

LEMMA IdlePassType == IdlePass \in Pass
  BY DEF IdlePass, Pass, BlankSnapshot, Snapshot, Amount

\* What Goto and Continue, which end most steps of a pass, do to its type.
LEMMA GotoType ==
    ASSUME pass \in [Passes -> Pass], NEW p \in Passes,
           NEW pc \in {"select", "scan", "update", "record", "user", "mail",
                       "recheck", "mark"},
           Goto(p, pc)
    PROVE  pass' \in [Passes -> Pass]
  BY ZenonT(60) DEF Goto, Pass

LEMMA ContinueType ==
    ASSUME pass \in [Passes -> Pass], NEW p \in Passes, Continue(p)
    PROVE  pass' \in [Passes -> Pass]
  <1>1. [pass[p].seen EXCEPT ![pass[p].alert] = BlankSnapshot]
           \in [AlertIds -> Snapshot]
    BY DEF Pass, BlankSnapshot, Snapshot, Amount
  <1> QED BY <1>1 DEF Continue, Pass, IdlePass, Amount

\* The same for an INSERT and the table.
LEMMA InsertType ==
    ASSUME rows \in [AlertIds -> Row], NEW a \in AlertIds, NEW req \in Request,
           Insert(a, req)
    PROVE  rows' \in [AlertIds -> Row]
  BY DEF Insert, Row, Request, Amount

LEMMA CheckPricesType ==
    ASSUME TypeOK, CheckPrices
    PROVE  isRunning' \in BOOLEAN /\ pass' \in [Passes -> Pass]
  <1>1. CASE UNCHANGED <<isRunning, pass>>
    BY <1>1 DEF TypeOK
  <1>2. CASE /\ isRunning' = TRUE
             /\ pass' = [pass EXCEPT ![FreePass].pc = "select"]
    BY <1>2, ZenonT(60) DEF TypeOK, Pass
  <1> QED BY <1>1, <1>2 DEF CheckPrices

LEMMA DeliverType ==
    ASSUME mailed \in [AlertIds -> Nat], late \in [AlertIds -> Nat],
           NEW a, Deliver(a)
    PROVE  mailed' \in [AlertIds -> Nat] /\ late' \in [AlertIds -> Nat]
  <1> DEFINE m == mailed[a] + 1
             l == IF rows[a].state = "active" THEN late[a] ELSE late[a] + 1
  <1>1. mailed' = [mailed EXCEPT ![a] = m] /\ late' = [late EXCEPT ![a] = l]
    BY DEF Deliver
  <1>2. a \in AlertIds => m \in Nat /\ l \in Nat
    OBVIOUS
  <1> HIDE DEF m, l
  <1> QED BY <1>1, <1>2

LEMMA InitType == Init => TypeOK
  <1> SUFFICES ASSUME Init PROVE TypeOK
    OBVIOUS
  <1>1. rows \in [AlertIds -> Row]
    BY DEF Init, BlankRow, Row, Amount
  <1>2. creating \in [Requests -> Request \cup {NoRequest}]
    BY DEF Init
  <1>3. pass \in [Passes -> Pass]
    BY IdlePassType DEF Init
  <1>4. mailed \in [AlertIds -> Nat] /\ late \in [AlertIds -> Nat]
    BY DEF Init
  <1>5. faults \in 0..MaxFaults
    BY FaultsAssumption DEF Init
  <1>6. /\ server \in {"down", "starting", "running"}
        /\ timer \in BOOLEAN
        /\ isRunning \in BOOLEAN
    BY DEF Init
  <1> QED BY <1>1, <1>2, <1>3, <1>4, <1>5, <1>6 DEF TypeOK

LEMMA UserStepType == TypeOK /\ UserStep => TypeOK'
  <1> SUFFICES ASSUME TypeOK, UserStep PROVE TypeOK'
    OBVIOUS
  <1> USE DEF jobVars, historyVars
  <1>1. ASSUME NEW r \in Requests, NEW k \in Keys, NEW t \in Prices,
               NEW c \in Prices, CheckDuplicate(r, k, t, c)
        PROVE  TypeOK'
    BY <1>1 DEF CheckDuplicate, TypeOK, Request
  <1>2. ASSUME NEW r \in Requests, FinishCreate(r)
        PROVE  TypeOK'
    <2>1. rows' \in [AlertIds -> Row]
      BY <1>2, InsertType DEF FinishCreate, TypeOK
    <2> QED BY <1>2, <2>1 DEF FinishCreate, TypeOK
  <1>3. ASSUME NEW a \in AlertIds, NEW k \in Keys, NEW t \in Prices,
               NEW c \in Prices, CreatePriceAlert(a, k, t, c)
        PROVE  TypeOK'
    <2>1. rows' \in [AlertIds -> Row]
      BY <1>3, InsertType DEF CreatePriceAlert, TypeOK, Request
    <2> QED BY <1>3, <2>1 DEF CreatePriceAlert, TypeOK
  <1>4. ASSUME NEW a \in AlertIds, DeactivateAlert(a)
        PROVE  TypeOK'
    BY <1>4 DEF DeactivateAlert, TypeOK, Row
  <1>5. ASSUME NEW a \in AlertIds, DeleteAlert(a)
        PROVE  TypeOK'
    BY <1>5 DEF DeleteAlert, TypeOK, Row, BlankRow, Amount
  <1> QED
    BY <1>1, <1>2, <1>3, <1>4, <1>5 DEF UserStep, DeletePriceAlert

LEMMA PassStepType ==
    ASSUME TypeOK, NEW p \in Passes, PassStep(p)
    PROVE  TypeOK'
  <1> USE DEF historyVars
  <1>1. CASE Select(p)
    <2>1. PICK found \in {Due, {}} :
             pass' = [pass EXCEPT ![p] = [IdlePass EXCEPT !.pc = "scan",
                                                         !.todo = found,
                                                         !.seen = Snap(found)]]
      BY <1>1 DEF Select
    <2>2. found \in SUBSET AlertIds
      BY DEF Due
    <2>3. Snap(found) \in [AlertIds -> Snapshot]
      <3> SUFFICES ASSUME NEW a \in AlertIds
                   PROVE  [target |-> rows[a].target, current |-> rows[a].current]
                             \in Snapshot
        BY DEF Snap, BlankSnapshot, Snapshot, Amount
      <3>1. rows[a] \in Row
        BY DEF TypeOK
      <3> QED BY <3>1 DEF Row, Snapshot
    <2>4. pass' \in [Passes -> Pass]
      BY <2>1, <2>2, <2>3 DEF TypeOK, Pass, IdlePass, Amount
    <2> QED BY <1>1, <2>4 DEF Select, TypeOK
  <1>2. CASE Observe(p)
    <2>1. PICK a \in pass[p].todo :
             \/ pass' = [pass EXCEPT ![p].pc = "record", ![p].todo = @ \ {a},
                                     ![p].alert = a,
                                     ![p].price = pass[p].seen[a].current]
             \/ \E q \in Nearby(pass[p].seen[a].current) :
                   pass' = [pass EXCEPT ![p].pc = "update",
                                        ![p].todo = @ \ {a}, ![p].alert = a,
                                        ![p].price = q, ![p].fresh = TRUE]
      BY <1>2 DEF Observe
    <2>2. /\ pass \in [Passes -> Pass]
          /\ a \in AlertIds
          /\ pass[p].seen[a].current \in Amount
      BY DEF TypeOK, Pass, Snapshot
    <2>3. Nearby(pass[p].seen[a].current) \subseteq Amount
      BY DEF Nearby, Amount
    <2>4. pass' \in [Passes -> Pass]
      <3>1. CASE pass' = [pass EXCEPT ![p].pc = "record", ![p].todo = @ \ {a},
                                      ![p].alert = a,
                                      ![p].price = pass[p].seen[a].current]
        BY <2>2, <3>1 DEF Pass
      <3>2. ASSUME NEW q \in Nearby(pass[p].seen[a].current),
                   pass' = [pass EXCEPT ![p].pc = "update",
                                        ![p].todo = @ \ {a}, ![p].alert = a,
                                        ![p].price = q, ![p].fresh = TRUE]
            PROVE  pass' \in [Passes -> Pass]
        BY <2>2, <2>3, <3>2 DEF Pass
      <3> QED BY <2>1, <3>1, <3>2
    <2> QED BY <1>2, <2>4 DEF Observe, TypeOK
  <1>3. CASE UpdatePrice(p)
    <2>1. rows' \in [AlertIds -> Row]
      <3>1. pass[p].price \in Amount /\ rows \in [AlertIds -> Row]
        BY DEF TypeOK, Pass
      <3> DEFINE new == [rows EXCEPT ![pass[p].alert].current = pass[p].price]
      <3>2. new \in [AlertIds -> Row]
        BY <3>1 DEF Row
      <3>3. rows' = rows \/ rows' = new
        BY <1>3 DEF UpdatePrice
      <3> HIDE DEF new
      <3> QED BY <3>1, <3>2, <3>3
    <2>2. pass' \in [Passes -> Pass]
      BY <1>3, GotoType, ContinueType DEF UpdatePrice, TypeOK
    <2> QED BY <1>3, <2>1, <2>2 DEF UpdatePrice, TypeOK
  <1>4. CASE RecordPrice(p)
    <2>1. pass' \in [Passes -> Pass]
      BY <1>4, GotoType, ContinueType DEF RecordPrice, TypeOK
    <2> QED BY <1>4, <2>1 DEF RecordPrice, TypeOK
  <1>5. CASE FindUser(p)
    <2>1. pass' \in [Passes -> Pass]
      BY <1>5, GotoType, ContinueType DEF FindUser, TypeOK
    <2> QED BY <1>5, <2>1 DEF FindUser, TypeOK
  <1>6. CASE SendMail(p)
    <2>1. pass' \in [Passes -> Pass]
      BY <1>6, GotoType, ContinueType DEF SendMail, TypeOK
    <2>2. /\ mailed' \in [AlertIds -> Nat]
          /\ late' \in [AlertIds -> Nat]
          /\ faults' \in 0..MaxFaults
      <3>1. Deliver(pass[p].alert) => /\ mailed' \in [AlertIds -> Nat]
                                      /\ late' \in [AlertIds -> Nat]
        BY DeliverType DEF TypeOK
      <3>2. Fault => faults' \in 0..MaxFaults
        BY FaultsAssumption DEF Fault, TypeOK
      <3> QED BY <1>6, <3>1, <3>2 DEF SendMail, TypeOK
    <2> QED BY <1>6, <2>1, <2>2 DEF SendMail, TypeOK
  <1>7. CASE CheckAndNotify(p)
    <2>1. pass' \in [Passes -> Pass]
      BY <1>7, GotoType, ContinueType DEF CheckAndNotify, TypeOK
    <2> QED BY <1>7, <2>1, FaultsAssumption DEF CheckAndNotify, Fault, TypeOK
  <1>8. CASE MarkNotified(p)
    <2>1. pass' \in [Passes -> Pass]
      BY <1>8, ContinueType DEF MarkNotified, TypeOK
    <2>2. rows' \in [AlertIds -> Row]
      <3>1. rows \in [AlertIds -> Row]
        BY DEF TypeOK
      <3> DEFINE new == [rows EXCEPT ![pass[p].alert].notified = TRUE]
      <3>2. new \in [AlertIds -> Row]
        BY <3>1 DEF Row
      <3>3. rows' = rows \/ rows' = new
        BY <1>8 DEF MarkNotified
      <3> HIDE DEF new
      <3> QED BY <3>1, <3>2, <3>3
    <2> QED BY <1>8, <2>1, <2>2, FaultsAssumption DEF MarkNotified, Fault, TypeOK
  <1>9. CASE Finish(p)
    BY <1>9, IdlePassType DEF Finish, TypeOK
  <1> QED
    BY <1>1, <1>2, <1>3, <1>4, <1>5, <1>6, <1>7, <1>8, <1>9 DEF PassStep

LEMMA StepType == TypeOK /\ [Next]_vars => TypeOK'
  <1> SUFFICES ASSUME TypeOK, [Next]_vars PROVE TypeOK'
    OBVIOUS
  <1> USE DEF jobVars, historyVars
  <1>1. CASE UserStep
    BY <1>1, UserStepType
  <1>2. CASE Boot
    BY <1>2 DEF Boot, TypeOK
  <1>3. CASE Start
    BY <1>3, CheckPricesType DEF Start, TypeOK
  <1>4. CASE Tick
    BY <1>4, CheckPricesType DEF Tick, TypeOK
  <1>5. CASE Stop
    BY <1>5 DEF Stop, TypeOK
  <1>6. CASE Exit
    <2>1. pass' \in [Passes -> Pass]
      BY <1>6, IdlePassType DEF Exit
    <2>2. faults' \in 0..MaxFaults
      BY <1>6, FaultsAssumption DEF Exit, Fault, TypeOK
    <2>3. creating' \in [Requests -> Request \cup {NoRequest}]
      BY <1>6 DEF Exit
    <2> QED BY <1>6, <2>1, <2>2, <2>3 DEF Exit, TypeOK
  <1>7. ASSUME NEW p \in Passes, PassStep(p) PROVE TypeOK'
    BY <1>7, PassStepType
  <1>8. CASE UNCHANGED vars
    BY <1>8 DEF vars, TypeOK
  <1> QED
    BY <1>1, <1>2, <1>3, <1>4, <1>5, <1>6, <1>7, <1>8 DEF Next

\* Every variable keeps its type: no operation stores a row, a snapshot or a
\* control point that the rest of the code would not expect.
THEOREM TypeCorrect == Spec => []TypeOK
  <1> QED BY InitType, StepType, PTL DEF Spec

-----------------------------------------------------------------------------
(* One pass at a time, and what a pass holds.                               *)

\* The alerts pass p holds: those it has not visited and the one at hand.
Holds(p, a) == a \in pass[p].todo \/ a = pass[p].alert

AtAlert == {"update", "record", "user", "mail", "recheck", "mark"}

Shape(p) ==
    /\ pass[p].pc \in {"idle", "select"} => pass[p].todo = {}
    /\ pass[p].pc \in AtAlert <=> pass[p].alert # NoAlert
    /\ pass[p].alert \notin pass[p].todo

\* OnePass alone is not inductive: Finish needs to know that an idle pass
\* holds nothing, and the marking steps that what they hold is one alert,
\* issued and not marked by anybody else.
ScanInv ==
    /\ OnePass
    /\ \A p \in Passes : Shape(p)
    /\ \A p \in Passes, a \in AlertIds :
          Holds(p, a) => rows[a].state # "unissued" /\ ~rows[a].notified

LEMMA GotoEffect ==
    ASSUME TypeOK, NEW p \in Passes, NEW pc, Goto(p, pc)
    PROVE  /\ \A q \in Passes \ {p} : pass'[q] = pass[q]
           /\ pass'[p].pc = pc
           /\ pass'[p].todo = pass[p].todo
           /\ pass'[p].seen = pass[p].seen
           /\ pass'[p].alert = pass[p].alert
           /\ pass'[p].price = pass[p].price
           /\ pass'[p].fresh = pass[p].fresh
  BY DEF Goto, TypeOK, Pass

LEMMA ContinueEffect ==
    ASSUME TypeOK, NEW p \in Passes, Continue(p)
    PROVE  /\ \A q \in Passes \ {p} : pass'[q] = pass[q]
           /\ pass'[p].pc = "scan"
           /\ pass'[p].todo = pass[p].todo
           /\ pass'[p].alert = NoAlert
           /\ \A a \in AlertIds \ {pass[p].alert} :
                 pass'[p].seen[a] = pass[p].seen[a]
  <1> DEFINE x == [IdlePass EXCEPT
                     !.pc = "scan", !.todo = pass[p].todo,
                     !.seen = [pass[p].seen EXCEPT
                                 ![pass[p].alert] = BlankSnapshot]]
  <1>1. pass' = [pass EXCEPT ![p] = x]
    BY DEF Continue
  <1>2. /\ x.pc = "scan"
        /\ x.todo = pass[p].todo
        /\ x.alert = NoAlert
        /\ x.seen = [pass[p].seen EXCEPT ![pass[p].alert] = BlankSnapshot]
    BY DEF IdlePass
  <1>3. pass[p].seen \in [AlertIds -> Snapshot]
    BY DEF TypeOK, Pass
  <1>4. \A a \in AlertIds \ {pass[p].alert} : x.seen[a] = pass[p].seen[a]
    BY <1>2, <1>3
  <1> HIDE DEF x
  <1> QED BY <1>1, <1>2, <1>4 DEF TypeOK

\* What one step of a pass does to the pass, to isRunning and to the table.
LEMMA PassEffect ==
    ASSUME TypeOK, NEW p \in Passes, Shape(p), PassStep(p)
    PROVE  /\ pass[p].pc # "idle"
           /\ \A q \in Passes \ {p} : pass'[q] = pass[q]
           /\ Shape(p)'
           /\ IF pass'[p].pc = "idle" THEN ~isRunning'
                                      ELSE isRunning' = isRunning
           /\ \A a \in AlertIds : Holds(p, a)' => Holds(p, a) \/ a \in Due
           /\ \A a \in AlertIds : rows'[a].state = rows[a].state
           /\ \A a \in AlertIds : rows'[a].notified =>
                 rows[a].notified \/ (Holds(p, a) /\ ~Holds(p, a)')
           /\ creating' = creating /\ server' = server /\ timer' = timer
  <1> USE SentinelAssumption
      DEF Shape, Holds, AtAlert
  <1> DEFINE Onward == /\ \A q \in Passes \ {p} : pass'[q] = pass[q]
                       /\ Shape(p)'
                       /\ pass'[p].pc # "idle"
                       /\ \A a \in AlertIds : Holds(p, a)' => Holds(p, a)
                       /\ \A a \in AlertIds :
                             Continue(p) /\ a = pass[p].alert => ~Holds(p, a)'
  <1>a. ASSUME NEW pc \in AtAlert, Goto(p, pc), pass[p].pc \in AtAlert
        PROVE  Onward
    <2>1. pc # "scan" /\ pc # "idle" /\ pc # "select"
      OBVIOUS
    <2>2. ~Continue(p)
      BY <1>a, <2>1, GotoEffect, ContinueEffect
    <2> QED BY <1>a, <2>1, <2>2, GotoEffect
  <1>b. ASSUME Continue(p), pass[p].pc \in AtAlert
        PROVE  Onward
    <2>0. pass[p].todo \subseteq AlertIds
      BY DEF TypeOK, Pass
    <2>1. Shape(p)'
      BY <1>b, <2>0, ContinueEffect
    <2>2. \A a \in AlertIds : Holds(p, a)' => Holds(p, a)
      BY <1>b, ContinueEffect
    <2>3. \A a \in AlertIds : a = pass[p].alert => ~Holds(p, a)'
      BY <1>b, ContinueEffect
    <2> QED BY <1>b, <2>1, <2>2, <2>3, ContinueEffect DEF Onward
  <1> HIDE DEF Onward
  <1>1. CASE Select(p)
    <2>1. PICK found \in {Due, {}} :
             pass' = [pass EXCEPT ![p] = [IdlePass EXCEPT !.pc = "scan",
                                                         !.todo = found,
                                                         !.seen = Snap(found)]]
      BY <1>1 DEF Select
    <2>2. /\ pass'[p].pc = "scan"
          /\ pass'[p].todo = found
          /\ pass'[p].alert = NoAlert
          /\ \A q \in Passes \ {p} : pass'[q] = pass[q]
      BY <2>1 DEF TypeOK, IdlePass
    <2>3. NoAlert \notin found
      BY DEF Due
    <2> QED BY <1>1, <2>2, <2>3 DEF Select
  <1>2. CASE Observe(p)
    <2>1. PICK a \in pass[p].todo :
             \/ pass' = [pass EXCEPT ![p].pc = "record", ![p].todo = @ \ {a},
                                     ![p].alert = a,
                                     ![p].price = pass[p].seen[a].current]
             \/ \E q \in Nearby(pass[p].seen[a].current) :
                   pass' = [pass EXCEPT ![p].pc = "update",
                                        ![p].todo = @ \ {a}, ![p].alert = a,
                                        ![p].price = q, ![p].fresh = TRUE]
      BY <1>2 DEF Observe
    <2>2. /\ pass'[p].pc \in {"record", "update"}
          /\ pass'[p].todo = pass[p].todo \ {a}
          /\ pass'[p].alert = a
          /\ \A q \in Passes \ {p} : pass'[q] = pass[q]
      <3>1. pass \in [Passes -> Pass]
        BY DEF TypeOK
      <3>2. CASE pass' = [pass EXCEPT ![p].pc = "record", ![p].todo = @ \ {a},
                                      ![p].alert = a,
                                      ![p].price = pass[p].seen[a].current]
        BY <3>1, <3>2 DEF Pass
      <3>3. ASSUME NEW q \in Nearby(pass[p].seen[a].current),
                   pass' = [pass EXCEPT ![p].pc = "update",
                                        ![p].todo = @ \ {a}, ![p].alert = a,
                                        ![p].price = q, ![p].fresh = TRUE]
            PROVE  /\ pass'[p].pc = "update"
                   /\ pass'[p].todo = pass[p].todo \ {a}
                   /\ pass'[p].alert = a
                   /\ \A r \in Passes \ {p} : pass'[r] = pass[r]
        BY <3>1, <3>3 DEF Pass
      <3> QED BY <2>1, <3>2, <3>3
    <2>3. a \in AlertIds
      BY DEF TypeOK, Pass
    <2> QED BY <1>2, <2>2, <2>3 DEF Observe
  <1>3. CASE UpdatePrice(p)
    <2>1. Onward
      BY <1>3, <1>a, <1>b DEF UpdatePrice
    <2>2. \A a \in AlertIds : /\ rows'[a].state = rows[a].state
                              /\ rows'[a].notified = rows[a].notified
      <3>1. \/ rows' = rows
            \/ rows' = [rows EXCEPT ![pass[p].alert].current = pass[p].price]
        BY <1>3 DEF UpdatePrice
      <3> QED BY <3>1 DEF TypeOK, Row
    <2> QED BY <1>3, <2>1, <2>2 DEF UpdatePrice, Onward
  <1>4. CASE RecordPrice(p)
    <2>1. Onward
      BY <1>4, <1>a, <1>b DEF RecordPrice
    <2> QED BY <1>4, <2>1 DEF RecordPrice, Onward
  <1>5. CASE FindUser(p)
    <2>1. Onward
      BY <1>5, <1>a, <1>b DEF FindUser
    <2> QED BY <1>5, <2>1 DEF FindUser, Onward
  <1>6. CASE SendMail(p)
    <2>1. Onward
      BY <1>6, <1>a, <1>b DEF SendMail
    <2> QED BY <1>6, <2>1 DEF SendMail, Onward
  <1>7. CASE CheckAndNotify(p)
    <2>1. Onward
      BY <1>7, <1>a, <1>b DEF CheckAndNotify
    <2> QED BY <1>7, <2>1 DEF CheckAndNotify, Onward
  <1>8. CASE MarkNotified(p)
    <2>1. Onward /\ Continue(p)
      BY <1>8, <1>b DEF MarkNotified
    <2>2. \A a \in AlertIds :
             /\ rows'[a].state = rows[a].state
             /\ rows'[a].notified => rows[a].notified \/ a = pass[p].alert
      <3>1. \/ rows' = rows
            \/ rows' = [rows EXCEPT ![pass[p].alert].notified = TRUE]
        BY <1>8 DEF MarkNotified
      <3> QED BY <3>1 DEF TypeOK, Row
    <2> QED BY <1>8, <2>1, <2>2 DEF MarkNotified, Onward
  <1>9. CASE Finish(p)
    <2>1. /\ pass'[p] = IdlePass
          /\ \A q \in Passes \ {p} : pass'[q] = pass[q]
      BY <1>9 DEF Finish, TypeOK
    <2> QED BY <1>9, <2>1 DEF Finish, IdlePass
  <1> QED
    BY <1>1, <1>2, <1>3, <1>4, <1>5, <1>6, <1>7, <1>8, <1>9 DEF PassStep

\* What a user's operation does to one row.
Created(a) ==
    /\ rows[a].state = "unissued"
    /\ rows'[a].state = "active"
    /\ ~rows'[a].notified
    /\ rows'[a].target \in Prices
    /\ rows'[a].current \in Prices

Deactivated(a) ==
    /\ Stored(a)
    /\ rows'[a] = [rows[a] EXCEPT !.state = "inactive"]

Deleted(a) ==
    /\ Stored(a)
    /\ rows'[a] = [BlankRow EXCEPT !.state = "deleted"]

LEMMA UserEffect ==
    ASSUME TypeOK, UserStep
    PROVE  /\ UNCHANGED <<server, timer, isRunning, pass, mailed, late, faults>>
           /\ \A a \in AlertIds :
                 \/ rows'[a] = rows[a]
                 \/ Created(a) \/ Deactivated(a) \/ Deleted(a)
  <1> USE DEF jobVars, historyVars
  <1>0. rows \in [AlertIds -> Row]
    BY DEF TypeOK
  <1>a. ASSUME NEW a \in AlertIds, NEW req \in Request, Insert(a, req)
        PROVE  \A b \in AlertIds : rows'[b] = rows[b] \/ Created(b)
    BY <1>0, <1>a DEF Insert, Created, Request, Row
  <1>1. ASSUME NEW r \in Requests, NEW k \in Keys, NEW t \in Prices,
               NEW c \in Prices, CheckDuplicate(r, k, t, c)
        PROVE  UNCHANGED <<rows, server, timer, isRunning, pass, mailed, late, faults>>
    BY <1>1 DEF CheckDuplicate
  <1>2. ASSUME NEW r \in Requests, FinishCreate(r)
        PROVE  /\ UNCHANGED <<server, timer, isRunning, pass, mailed, late, faults>>
               /\ \A b \in AlertIds : rows'[b] = rows[b] \/ Created(b)
    <2>1. creating[r] \in Request
      BY <1>2 DEF FinishCreate, TypeOK
    <2> QED BY <1>2, <2>1, <1>a DEF FinishCreate
  <1>3. ASSUME NEW a \in AlertIds, NEW k \in Keys, NEW t \in Prices,
               NEW c \in Prices, CreatePriceAlert(a, k, t, c)
        PROVE  /\ UNCHANGED <<server, timer, isRunning, pass, mailed, late, faults>>
               /\ \A b \in AlertIds : rows'[b] = rows[b] \/ Created(b)
    <2>1. [key |-> k, target |-> t, current |-> c] \in Request
      BY DEF Request
    <2> QED BY <1>3, <2>1, <1>a DEF CreatePriceAlert
  <1>4. ASSUME NEW a \in AlertIds, DeactivateAlert(a)
        PROVE  /\ UNCHANGED <<server, timer, isRunning, pass, mailed, late, faults>>
               /\ \A b \in AlertIds : rows'[b] = rows[b] \/ Deactivated(b)
    BY <1>0, <1>4 DEF DeactivateAlert, Deactivated
  <1>5. ASSUME NEW a \in AlertIds, DeleteAlert(a)
        PROVE  /\ UNCHANGED <<server, timer, isRunning, pass, mailed, late, faults>>
               /\ \A b \in AlertIds : rows'[b] = rows[b] \/ Deleted(b)
    BY <1>0, <1>5 DEF DeleteAlert, Deleted
  <1> QED
    BY <1>1, <1>2, <1>3, <1>4, <1>5 DEF UserStep, DeletePriceAlert

LEMMA CheckPricesEffect ==
    ASSUME TypeOK, CheckPrices
    PROVE  \/ isRunning /\ UNCHANGED <<isRunning, pass>>
           \/ /\ ~isRunning /\ isRunning'
              /\ \E p \in Passes :
                    /\ pass[p].pc = "idle"
                    /\ Goto(p, "select")
  <1>1. CASE isRunning
    BY <1>1 DEF CheckPrices
  <1>2. CASE ~isRunning
    <2>1. /\ FreePass \in Passes
          /\ pass[FreePass].pc = "idle"
      BY <1>2 DEF CheckPrices, FreePass
    <2> QED BY <1>2, <2>1 DEF CheckPrices, Goto
  <1> QED BY <1>1, <1>2

LEMMA ScanInit == Init => ScanInv
  BY SentinelAssumption DEF Init, ScanInv, OnePass, Shape, Holds, AtAlert, IdlePass

LEMMA ScanCheckPrices ==
    ASSUME TypeOK, ScanInv, CheckPrices, UNCHANGED rows
    PROVE  ScanInv'
  <1>1. CASE UNCHANGED <<isRunning, pass>>
    BY <1>1 DEF ScanInv, OnePass, Shape, Holds, AtAlert
  <1>2. ASSUME ~isRunning, isRunning',
               NEW p \in Passes, pass[p].pc = "idle", Goto(p, "select")
        PROVE  ScanInv'
    <2>1. \A q \in Passes : pass[q].pc = "idle"
      BY <1>2 DEF ScanInv, OnePass
    <2>2. /\ \A q \in Passes \ {p} : pass'[q] = pass[q]
          /\ pass'[p].pc = "select"
          /\ pass'[p].todo = pass[p].todo
          /\ pass'[p].alert = pass[p].alert
      BY <1>2, GotoEffect
    <2>3. OnePass'
      BY <1>2, <2>1, <2>2 DEF OnePass
    <2>4. \A q \in Passes : Shape(q)'
      BY <1>2, <2>2 DEF ScanInv, Shape, AtAlert
    <2>5. \A q \in Passes, a \in AlertIds : Holds(q, a)' => Holds(q, a)
      BY <2>2 DEF Holds
    <2> QED BY <2>3, <2>4, <2>5 DEF ScanInv
  <1> QED BY <1>1, <1>2, CheckPricesEffect

LEMMA ScanPassStep ==
    ASSUME TypeOK, ScanInv, NEW p \in Passes, PassStep(p)
    PROVE  ScanInv'
  <1>1. Shape(p)
    BY DEF ScanInv
  <1>2. /\ pass[p].pc # "idle"
        /\ isRunning
        /\ \A q \in Passes \ {p} : pass[q].pc = "idle" /\ pass'[q] = pass[q]
    BY <1>1, PassEffect DEF ScanInv, OnePass
  <1>3. OnePass'
    <2>1. \A q \in Passes \ {p} : pass'[q].pc = "idle"
      BY <1>2
    <2>2. isRunning' <=> pass'[p].pc # "idle"
      <3>1. IF pass'[p].pc = "idle" THEN ~isRunning'
                                    ELSE isRunning' = isRunning
        BY <1>1, PassEffect
      <3> QED BY <1>2, <3>1
    <2> QED BY <2>1, <2>2 DEF OnePass
  <1>4. \A q \in Passes : Shape(q)'
    BY <1>1, <1>2, PassEffect, ZenonT(60) DEF ScanInv, Shape, AtAlert
  <1>5. \A q \in Passes \ {p}, a \in AlertIds : ~Holds(q, a)'
    BY <1>2, SentinelAssumption DEF ScanInv, Shape, Holds, AtAlert
  <1>6. ASSUME NEW a \in AlertIds, Holds(p, a)'
        PROVE  rows'[a].state # "unissued" /\ ~rows'[a].notified
    <2>1. rows[a].state # "unissued" /\ ~rows[a].notified
      <3>1. Holds(p, a) \/ a \in Due
        BY <1>1, <1>6, PassEffect
      <3> QED BY <3>1 DEF Due, ScanInv
    <2> QED BY <1>1, <1>6, <2>1, PassEffect
  <1> QED BY <1>3, <1>4, <1>5, <1>6 DEF ScanInv

LEMMA ScanStep == TypeOK /\ ScanInv /\ [Next]_vars => ScanInv'
  <1> SUFFICES ASSUME TypeOK, ScanInv, [Next]_vars PROVE ScanInv'
    OBVIOUS
  <1> USE DEF jobVars, historyVars
  <1>1. CASE UserStep
    <2>1. /\ UNCHANGED <<isRunning, pass>>
          /\ \A a \in AlertIds :
                \/ rows'[a] = rows[a]
                \/ Created(a) \/ Deactivated(a) \/ Deleted(a)
      BY <1>1, UserEffect
    <2>2. ASSUME NEW a \in AlertIds,
                 rows[a].state # "unissued" /\ ~rows[a].notified
          PROVE  rows'[a].state # "unissued" /\ ~rows'[a].notified
      <3>1. rows[a] \in Row
        BY DEF TypeOK
      <3> QED BY <2>1, <2>2, <3>1 DEF Created, Deactivated, Deleted, BlankRow, Row
    <2> QED BY <2>1, <2>2 DEF ScanInv, OnePass, Shape, Holds, AtAlert
  <1>2. CASE Boot
    BY <1>2 DEF Boot, ScanInv, OnePass, Shape, Holds, AtAlert
  <1>3. CASE Start
    BY <1>3, ScanCheckPrices DEF Start
  <1>4. CASE Tick
    BY <1>4, ScanCheckPrices DEF Tick
  <1>5. CASE Stop
    BY <1>5 DEF Stop, ScanInv, OnePass, Shape, Holds, AtAlert
  <1>6. CASE Exit
    <2>1. \A p \in Passes : pass'[p] = IdlePass
      BY <1>6 DEF Exit
    <2> QED
      BY <1>6, <2>1, SentinelAssumption
      DEF Exit, ScanInv, OnePass, Shape, Holds, AtAlert, IdlePass
  <1>7. ASSUME NEW p \in Passes, PassStep(p) PROVE ScanInv'
    BY <1>7, ScanPassStep
  <1>8. CASE UNCHANGED vars
    BY <1>8 DEF vars, ScanInv, OnePass, Shape, Holds, AtAlert
  <1> QED
    BY <1>1, <1>2, <1>3, <1>4, <1>5, <1>6, <1>7, <1>8 DEF Next

THEOREM ScanInvariant == Spec => []ScanInv
  <1> QED BY TypeCorrect, ScanInit, ScanStep, PTL DEF Spec

\* At most one invocation of checkPrices is ever past its isRunning check, and
\* isRunning is set exactly while one is.
THEOREM OnePassAtATime == Spec => []OnePass
  <1>1. ScanInv => OnePass
    BY DEF ScanInv
  <1> QED BY <1>1, ScanInvariant, PTL

-----------------------------------------------------------------------------
(* Mails.                                                                   *)

\* Pass p may still mail alert a.
MayMail(p, a) ==
    \/ a \in pass[p].todo
    \/ a = pass[p].alert /\ pass[p].pc \in {"update", "record", "user", "mail"}

\* One step of a pass delivers at most one mail, for the alert at hand, after
\* which the pass is out of ways to mail it again.
Delivered(p, a) ==
    /\ a = pass[p].alert
    /\ pass[p].pc = "mail"
    /\ mailed'[a] = mailed[a] + 1
    /\ late'[a] = IF rows[a].state = "active" THEN late[a] ELSE late[a] + 1
    /\ \/ pass'[p].pc = "recheck" /\ pass'[p].alert = a
       \/ pass'[p].pc = "scan" /\ faults' = faults + 1

LEMMA MailEffect ==
    ASSUME TypeOK, NEW p \in Passes, Shape(p), PassStep(p), NEW a \in AlertIds
    PROVE  /\ \/ mailed'[a] = mailed[a] /\ late'[a] = late[a]
              \/ Delivered(p, a)
           /\ faults' >= faults
           /\ MayMail(p, a)' => MayMail(p, a) \/ (pass[p].pc = "select" /\ a \in Due)
           /\ MayMail(p, a)' => ~Delivered(p, a)
           /\ pass'[p].pc = "recheck" /\ pass'[p].alert = a => Delivered(p, a)
           /\ pass'[p].pc = "mark" =>
                 pass[p].pc = "recheck" /\ pass'[p].alert = pass[p].alert
           /\ rows'[a].notified /\ ~rows[a].notified =>
                 pass[p].pc = "mark" /\ a = pass[p].alert
  <1> USE DEF historyVars
  <1>0. /\ mailed \in [AlertIds -> Nat]
        /\ late \in [AlertIds -> Nat]
        /\ faults \in Nat
        /\ pass \in [Passes -> Pass]
        /\ rows \in [AlertIds -> Row]
    BY FaultsAssumption DEF TypeOK
  <1>1. CASE Select(p)
    <2>1. PICK found \in {Due, {}} :
             pass' = [pass EXCEPT ![p] = [IdlePass EXCEPT !.pc = "scan",
                                                         !.todo = found,
                                                         !.seen = Snap(found)]]
      BY <1>1 DEF Select
    <2>2. /\ pass'[p].pc = "scan"
          /\ pass'[p].todo = found
      BY <2>1, <1>0 DEF IdlePass
    <2> QED BY <1>0, <1>1, <2>2 DEF Select, MayMail, Delivered
  <1>2. CASE Observe(p)
    <2>1. /\ pass'[p].pc \in {"record", "update"}
          /\ pass'[p].todo \subseteq pass[p].todo
          /\ pass'[p].alert \in pass[p].todo
      <3>1. PICK b \in pass[p].todo :
               \/ pass' = [pass EXCEPT ![p].pc = "record", ![p].todo = @ \ {b},
                                       ![p].alert = b,
                                       ![p].price = pass[p].seen[b].current]
               \/ \E q \in Nearby(pass[p].seen[b].current) :
                     pass' = [pass EXCEPT ![p].pc = "update",
                                          ![p].todo = @ \ {b}, ![p].alert = b,
                                          ![p].price = q, ![p].fresh = TRUE]
        BY <1>2 DEF Observe
      <3>2. CASE pass' = [pass EXCEPT ![p].pc = "record", ![p].todo = @ \ {b},
                                      ![p].alert = b,
                                      ![p].price = pass[p].seen[b].current]
        BY <1>0, <3>2 DEF Pass
      <3>3. ASSUME NEW q \in Nearby(pass[p].seen[b].current),
                   pass' = [pass EXCEPT ![p].pc = "update",
                                        ![p].todo = @ \ {b}, ![p].alert = b,
                                        ![p].price = q, ![p].fresh = TRUE]
            PROVE  /\ pass'[p].pc = "update"
                   /\ pass'[p].todo = pass[p].todo \ {b}
                   /\ pass'[p].alert = b
        BY <1>0, <3>3 DEF Pass
      <3> QED BY <3>1, <3>2, <3>3
    <2>2. /\ pass[p].pc = "scan"
          /\ rows' = rows /\ mailed' = mailed /\ late' = late /\ faults' = faults
      BY <1>2 DEF Observe
    <2>3. MayMail(p, a)' => MayMail(p, a)
      BY <2>1 DEF MayMail
    <2>4. pass'[p].pc # "recheck" /\ pass'[p].pc # "mark"
      BY <2>1
    <2>5. ~Delivered(p, a)
      BY <2>2 DEF Delivered
    <2> QED BY <1>0, <2>2, <2>3, <2>4, <2>5
  <1>3. CASE UpdatePrice(p)
    <2>1. rows'[a].notified = rows[a].notified
      <3>1. \/ rows' = rows
            \/ rows' = [rows EXCEPT ![pass[p].alert].current = pass[p].price]
        BY <1>3 DEF UpdatePrice
      <3> QED BY <1>0, <3>1 DEF Row
    <2> QED
      BY <1>0, <1>3, <2>1, GotoEffect, ContinueEffect
      DEF UpdatePrice, MayMail, Delivered
  <1>4. CASE RecordPrice(p)
    BY <1>0, <1>4, GotoEffect, ContinueEffect DEF RecordPrice, MayMail, Delivered
  <1>5. CASE FindUser(p)
    BY <1>0, <1>5, GotoEffect, ContinueEffect DEF FindUser, MayMail, Delivered
  <1>6. CASE SendMail(p)
    <2>1. Deliver(pass[p].alert) =>
             IF a = pass[p].alert
             THEN /\ mailed'[a] = mailed[a] + 1
                  /\ late'[a] = IF rows[a].state = "active" THEN late[a]
                                                            ELSE late[a] + 1
             ELSE mailed'[a] = mailed[a] /\ late'[a] = late[a]
      BY <1>0 DEF Deliver
    <2>2. a = pass[p].alert => a \notin pass[p].todo
      BY DEF Shape
    <2>3. CASE Deliver(pass[p].alert) /\ Goto(p, "recheck") /\ UNCHANGED faults
      BY <1>0, <1>6, <2>1, <2>2, <2>3, GotoEffect DEF SendMail, MayMail, Delivered
    <2>4. CASE Deliver(pass[p].alert) /\ Continue(p) /\ Fault
      BY <1>0, <1>6, <2>1, <2>2, <2>4, ContinueEffect
      DEF SendMail, MayMail, Delivered, Fault
    <2>5. CASE Continue(p) /\ UNCHANGED historyVars
      BY <1>0, <1>6, <2>5, ContinueEffect DEF SendMail, MayMail, Delivered
    <2> QED BY <1>6, <2>3, <2>4, <2>5 DEF SendMail
  <1>7. CASE CheckAndNotify(p)
    BY <1>0, <1>7, GotoEffect, ContinueEffect
    DEF CheckAndNotify, MayMail, Delivered, Fault
  <1>8. CASE MarkNotified(p)
    <2>1. rows'[a].notified => rows[a].notified \/ a = pass[p].alert
      <3>1. \/ rows' = rows
            \/ rows' = [rows EXCEPT ![pass[p].alert].notified = TRUE]
        BY <1>8 DEF MarkNotified
      <3> QED BY <1>0, <3>1 DEF Row
    <2> QED
      BY <1>0, <1>8, <2>1, ContinueEffect DEF MarkNotified, MayMail, Delivered, Fault
  <1>9. CASE Finish(p)
    <2>1. pass'[p].pc = "idle" /\ pass'[p].todo = {}
      BY <1>0, <1>9 DEF Finish, IdlePass
    <2> QED BY <1>0, <1>9, <2>1 DEF Finish, MayMail, Delivered
  <1> QED
    BY <1>1, <1>2, <1>3, <1>4, <1>5, <1>6, <1>7, <1>8, <1>9 DEF PassStep

\* A marked alert was mailed because the marking steps are reached through a
\* delivery only.  An alert that was mailed late is out of reach of the pass
\* that did it, and of later ones because it never becomes active again.
MailInv ==
    /\ MarkedAfterMail
    /\ \A p \in Passes : pass[p].pc \in {"recheck", "mark"} => mailed[pass[p].alert] > 0
    /\ LateMailBound
    /\ \A a \in AlertIds :
          late[a] > 0 => /\ rows[a].state \in {"inactive", "deleted"}
                         /\ \A p \in Passes : ~MayMail(p, a)

LEMMA MailInit == Init => MailInv
  BY DEF Init, MailInv, MarkedAfterMail, LateMailBound, BlankRow, IdlePass

LEMMA MailPassStep ==
    ASSUME TypeOK, ScanInv, MailInv, NEW p \in Passes, PassStep(p)
    PROVE  MailInv'
  <1>0. /\ mailed \in [AlertIds -> Nat]
        /\ late \in [AlertIds -> Nat]
    BY DEF TypeOK
  <1>1. Shape(p)
    BY DEF ScanInv
  <1>2. /\ \A q \in Passes \ {p} : pass[q].pc = "idle" /\ pass'[q] = pass[q]
        /\ \A a \in AlertIds : rows'[a].state = rows[a].state
    BY <1>1, PassEffect DEF ScanInv, OnePass
  <1>3. \A a \in AlertIds :
           /\ \/ mailed'[a] = mailed[a] /\ late'[a] = late[a]
              \/ Delivered(p, a)
           /\ mailed[a] > 0 => mailed'[a] > 0
    <2> TAKE a \in AlertIds
    <2>1. \/ mailed'[a] = mailed[a] /\ late'[a] = late[a]
          \/ Delivered(p, a)
      BY <1>1, MailEffect
    <2>2. mailed[a] \in Nat
      BY <1>0
    <2> QED BY <2>1, <2>2 DEF Delivered
  <1>4. ASSUME NEW a \in AlertIds, rows'[a].notified
        PROVE  mailed'[a] > 0
    <2>1. CASE rows[a].notified
      BY <1>3, <2>1 DEF MailInv, MarkedAfterMail
    <2>2. CASE ~rows[a].notified
      BY <1>1, <1>3, <1>4, <2>2, MailEffect DEF MailInv
    <2> QED BY <2>1, <2>2
  <1>5. ASSUME pass'[p].pc \in {"recheck", "mark"}
        PROVE  mailed'[pass'[p].alert] > 0
    <2>1. pass'[p].alert \in AlertIds
      <3>1. Shape(p)' /\ pass' \in [Passes -> Pass]
        BY <1>1, PassEffect, PassStepType DEF TypeOK
      <3> QED BY <1>5, <3>1 DEF Shape, AtAlert, Pass
    <2>2. CASE pass'[p].pc = "recheck"
      <3>1. Delivered(p, pass'[p].alert)
        BY <1>1, <2>1, <2>2, MailEffect
      <3> QED BY <1>0, <2>1, <3>1 DEF Delivered
    <2>3. CASE pass'[p].pc = "mark"
      <3>1. pass[p].pc = "recheck" /\ pass'[p].alert = pass[p].alert
        BY <1>1, <2>1, <2>3, MailEffect
      <3> QED BY <1>3, <2>1, <3>1 DEF MailInv
    <2> QED BY <1>5, <2>2, <2>3
  <1>6. ASSUME NEW a \in AlertIds
        PROVE  /\ late'[a] <= 1
               /\ late'[a] > 0 => /\ rows'[a].state \in {"inactive", "deleted"}
                                  /\ \A q \in Passes : ~MayMail(q, a)'
    <2>0. late[a] \in Nat /\ late[a] <= 1
      BY <1>0 DEF MailInv, LateMailBound
    <2>1. CASE late[a] > 0
      <3>1. /\ rows[a].state \in {"inactive", "deleted"}
            /\ \A q \in Passes : ~MayMail(q, a)
        BY <2>1 DEF MailInv
      <3>2. ~Delivered(p, a)
        BY <3>1 DEF Delivered, MayMail
      <3>3. ~MayMail(p, a)'
        BY <1>1, <3>1, MailEffect DEF Due
      <3>4. \A q \in Passes : ~MayMail(q, a)'
        BY <1>2, <3>1, <3>3 DEF MayMail
      <3> QED BY <1>2, <1>3, <2>0, <3>1, <3>2, <3>4
    <2>2. CASE late[a] = 0 /\ late'[a] = 0
      BY <2>2
    <2>3. CASE late[a] = 0 /\ late'[a] # 0
      <3>1. Delivered(p, a)
        BY <1>3, <2>3
      <3>2. late'[a] = 1 /\ rows[a].state # "active"
        BY <2>3, <3>1 DEF Delivered
      <3>3. rows[a].state \in {"inactive", "deleted"}
        <4>1. Holds(p, a)
          BY <3>1 DEF Delivered, Holds
        <4>2. rows[a].state # "unissued" /\ rows[a] \in Row
          BY <4>1 DEF ScanInv, TypeOK
        <4> QED BY <3>2, <4>2 DEF Row
      <3>4. ~MayMail(p, a)'
        BY <1>1, <3>1, MailEffect
      <3>5. \A q \in Passes \ {p} : ~MayMail(q, a)'
        BY <1>2 DEF MayMail, ScanInv, Shape
      <3> QED BY <1>2, <3>2, <3>3, <3>4, <3>5
    <2> QED BY <2>0, <2>1, <2>2, <2>3
  <1>7. \A q \in Passes \ {p} : pass'[q].pc = "idle"
    BY <1>2
  <1> QED
    BY <1>4, <1>5, <1>6, <1>7 DEF MailInv, MarkedAfterMail, LateMailBound

LEMMA MailStep == TypeOK /\ ScanInv /\ MailInv /\ [Next]_vars => MailInv'
  <1> SUFFICES ASSUME TypeOK, ScanInv, MailInv, [Next]_vars PROVE MailInv'
    OBVIOUS
  <1> USE DEF jobVars, historyVars
  <1>1. CASE UserStep
    <2>1. /\ UNCHANGED <<pass, mailed, late>>
          /\ \A a \in AlertIds :
                \/ rows'[a] = rows[a]
                \/ Created(a) \/ Deactivated(a) \/ Deleted(a)
      BY <1>1, UserEffect
    <2>2. \A a \in AlertIds :
             /\ rows'[a].notified => rows[a].notified
             /\ rows[a].state \in {"inactive", "deleted"} =>
                   rows'[a].state \in {"inactive", "deleted"}
      <3> TAKE a \in AlertIds
      <3>1. rows[a] \in Row
        BY DEF TypeOK
      <3> QED BY <2>1, <3>1 DEF Created, Deactivated, Deleted, BlankRow, Row
    <2> QED BY <2>1, <2>2 DEF MailInv, MarkedAfterMail, LateMailBound, MayMail
  <1>2. ASSUME CheckPrices, UNCHANGED <<rows, mailed, late>> PROVE MailInv'
    <2>1. CASE UNCHANGED pass
      BY <1>2, <2>1 DEF MailInv, MarkedAfterMail, LateMailBound, MayMail
    <2>2. ASSUME NEW p \in Passes, pass[p].pc = "idle", Goto(p, "select")
          PROVE  MailInv'
      <3>1. \A q \in Passes, a \in AlertIds : MayMail(q, a)' => MayMail(q, a)
        BY <2>2, GotoEffect DEF MayMail
      <3>2. \A q \in Passes :
               pass'[q].pc \in {"recheck", "mark"} => pass'[q] = pass[q]
        BY <2>2, GotoEffect
      <3> QED BY <1>2, <3>1, <3>2 DEF MailInv, MarkedAfterMail, LateMailBound
    <2> QED BY <1>2, <2>1, <2>2, CheckPricesEffect
  <1>3. CASE Start \/ Tick
    BY <1>2, <1>3 DEF Start, Tick
  <1>4. CASE Boot \/ Stop \/ UNCHANGED vars
    BY <1>4
    DEF Boot, Stop, vars, MailInv, MarkedAfterMail, LateMailBound, MayMail
  <1>5. CASE Exit
    <2>1. \A p \in Passes : pass'[p].pc = "idle" /\ pass'[p].todo = {}
      BY <1>5 DEF Exit, IdlePass
    <2> QED
      BY <1>5, <2>1 DEF Exit, MailInv, MarkedAfterMail, LateMailBound, MayMail
  <1>6. ASSUME NEW p \in Passes, PassStep(p) PROVE MailInv'
    BY <1>6, MailPassStep
  <1> QED
    BY <1>1, <1>3, <1>4, <1>5, <1>6 DEF Next

THEOREM MailInvariant == Spec => []MailInv
  <1> QED BY TypeCorrect, ScanInvariant, MailInit, MailStep, PTL DEF Spec

\* Whatever fails, no alert is ever marked as notified before a mail about it
\* was delivered.
THEOREM MarkImpliesMail == Spec => []MarkedAfterMail
  <1>1. MailInv => MarkedAfterMail
    BY DEF MailInv
  <1> QED BY <1>1, MailInvariant, PTL

\* An alert that its user switched off or deleted is mailed at most once more.
THEOREM OneLateMail == Spec => []LateMailBound
  <1>1. MailInv => LateMailBound
    BY DEF MailInv
  <1> QED BY <1>1, MailInvariant, PTL

\* And once an alert is marked, nothing mails it again.
THEOREM MarkEndsMails == Spec => NoMailAfterMark
  <1> DEFINE Quiet == \A a \in AlertIds : rows[a].notified => mailed'[a] = mailed[a]
  <1>1. TypeOK /\ ScanInv /\ [Next]_vars => [Quiet]_vars
    <2> SUFFICES ASSUME TypeOK, ScanInv, Next,
                        NEW a \in AlertIds, rows[a].notified
                 PROVE  mailed'[a] = mailed[a]
      BY DEF vars
    <2> USE DEF historyVars
    <2>1. CASE UserStep
      BY <2>1, UserEffect
    <2>2. CASE Boot \/ Start \/ Tick \/ Stop \/ Exit
      BY <2>2 DEF Boot, Start, Tick, Stop, Exit
    <2>3. ASSUME NEW p \in Passes, PassStep(p) PROVE mailed'[a] = mailed[a]
      <3>1. Shape(p) /\ ~Holds(p, a)
        BY DEF ScanInv
      <3>2. ~Delivered(p, a)
        BY <3>1 DEF Holds, Delivered
      <3> QED BY <2>3, <3>1, <3>2, MailEffect
    <2> QED BY <2>1, <2>2, <2>3 DEF Next
  <1> QED BY <1>1, TypeCorrect, ScanInvariant, PTL DEF Spec, NoMailAfterMark

-----------------------------------------------------------------------------
(* One mail per fault.                                                      *)

\* What pass p knows of alert a is still so: nobody but the pass at hand changes
\* the amounts of a row that is there.
Seen(p, a) ==
    /\ pass[p].seen[a].target = rows[a].target
    /\ a \in pass[p].todo => pass[p].seen[a].current = rows[a].current
    /\ a = pass[p].alert =>
          /\ pass[p].pc = "record" => pass[p].price = rows[a].current
          /\ SameWidth /\ pass[p].pc \in {"user", "mail", "recheck", "mark"} =>
                TextLeq(rows[a].current, rows[a].target)

Priced == \A a \in AlertIds :
             Stored(a) => rows[a].target \in Prices /\ rows[a].current \in Prices

SeenInv ==
    /\ Priced
    /\ \A p \in Passes : pass[p].pc = "update" => pass[p].price \in Prices
    /\ \A p \in Passes, a \in AlertIds : Holds(p, a) /\ Stored(a) => Seen(p, a)

\* What one step of a pass does to a row: its state, its key and its target stay,
\* and its price is the one observed.
LEMMA RowEffect ==
    ASSUME TypeOK, NEW p \in Passes, PassStep(p), NEW a \in AlertIds
    PROVE  /\ rows'[a].state = rows[a].state /\ rows'[a].target = rows[a].target
           /\ \/ rows'[a].current = rows[a].current
              \/ /\ pass[p].pc = "update" /\ a = pass[p].alert
                 /\ rows'[a].current = pass[p].price
           /\ pass[p].pc = "update" /\ pass'[p].pc = "record" /\ Stored(a)
                 /\ a = pass[p].alert => rows'[a].current = pass[p].price
  <1>0. rows \in [AlertIds -> Row] /\ rows[a] \in Row
    BY DEF TypeOK
  <1>1. CASE UpdatePrice(p)
    <2>1. \/ rows' = [rows EXCEPT ![pass[p].alert].current = pass[p].price]
          \/ rows' = rows /\ (Stored(pass[p].alert) => Continue(p))
      BY <1>1 DEF UpdatePrice
    <2>2. pass[p].pc = "update"
      BY <1>1 DEF UpdatePrice
    <2>3. CASE rows' = [rows EXCEPT ![pass[p].alert].current = pass[p].price]
      BY <1>0, <2>2, <2>3 DEF Row
    <2>4. CASE rows' = rows /\ (Stored(pass[p].alert) => Continue(p))
      BY <2>4, ContinueEffect
    <2> QED BY <2>1, <2>3, <2>4
  <1>2. CASE MarkNotified(p)
    <2>1. \/ rows' = [rows EXCEPT ![pass[p].alert].notified = TRUE]
          \/ rows' = rows
      BY <1>2 DEF MarkNotified
    <2>2. pass[p].pc = "mark"
      BY <1>2 DEF MarkNotified
    <2> QED BY <1>0, <2>1, <2>2 DEF Row
  <1>3. CASE Select(p) \/ Observe(p) \/ RecordPrice(p) \/ FindUser(p) \/ SendMail(p)
             \/ CheckAndNotify(p) \/ Finish(p)
    <2>1. rows' = rows /\ pass[p].pc # "update"
      BY <1>3 DEF Select, Observe, RecordPrice, FindUser, SendMail, CheckAndNotify, Finish
    <2> QED BY <2>1
  <1> QED
    BY <1>1, <1>2, <1>3 DEF PassStep

\* The target is reached as the amounts say, when their texts say so.
LEMMA ReachedAsText ==
    ASSUME SameWidth, NEW p \in Passes, pass[p].price \in Prices,
           pass[p].seen[pass[p].alert].target \in Prices, TargetReached(p)
    PROVE  TextLeq(pass[p].price, pass[p].seen[pass[p].alert].target)
  BY DEF SameWidth, TargetReached

LEMMA SeenSelect ==
    ASSUME TypeOK, SeenInv, NEW p \in Passes, Select(p)
    PROVE  /\ pass'[p].pc = "scan"
           /\ \A a \in AlertIds : Holds(p, a)' /\ Stored(a) => Seen(p, a)'
  <1>1. PICK found \in {Due, {}} :
           pass' = [pass EXCEPT ![p] = [IdlePass EXCEPT !.pc = "scan",
                                                       !.todo = found,
                                                       !.seen = Snap(found)]]
    BY DEF Select
  <1>2. /\ pass'[p].pc = "scan" /\ pass'[p].todo = found
        /\ pass'[p].alert = NoAlert /\ pass'[p].seen = Snap(found)
    BY <1>1 DEF TypeOK, IdlePass
  <1>3. ASSUME NEW a \in AlertIds, Holds(p, a)'
        PROVE  Seen(p, a)'
    <2>1. a \in found /\ a # pass'[p].alert
      BY <1>2, <1>3, SentinelAssumption DEF Holds
    <2>2. Snap(found)[a] = [target |-> rows[a].target, current |-> rows[a].current]
      BY <2>1 DEF Snap
    <2>3. /\ pass'[p].seen[a].target = rows[a].target
          /\ pass'[p].seen[a].current = rows[a].current
      BY <1>2, <2>2
    <2>4. rows' = rows
      BY DEF Select
    <2> QED BY <2>1, <2>3, <2>4 DEF Seen
  <1> QED BY <1>2, <1>3

LEMMA SeenObserve ==
    ASSUME TypeOK, SeenInv, NEW p \in Passes, Shape(p), Observe(p)
    PROVE  /\ pass'[p].pc = "update" => pass'[p].price \in Prices
           /\ \A a \in AlertIds : Holds(p, a)' /\ Stored(a) => Seen(p, a)'
  <1>0. pass \in [Passes -> Pass] /\ rows' = rows
    BY DEF TypeOK, Observe
  <1>1. PICK b \in pass[p].todo :
           \/ pass' = [pass EXCEPT ![p].pc = "record", ![p].todo = @ \ {b},
                                   ![p].alert = b,
                                   ![p].price = pass[p].seen[b].current]
           \/ \E q \in Nearby(pass[p].seen[b].current) :
                 pass' = [pass EXCEPT ![p].pc = "update",
                                      ![p].todo = @ \ {b}, ![p].alert = b,
                                      ![p].price = q, ![p].fresh = TRUE]
    BY DEF Observe
  <1>2. /\ pass'[p].todo = pass[p].todo \ {b} /\ pass'[p].alert = b
        /\ pass'[p].seen = pass[p].seen
        /\ \/ pass'[p].pc = "record" /\ pass'[p].price = pass[p].seen[b].current
           \/ pass'[p].pc = "update" /\ pass'[p].price \in Prices
    <2>1. CASE pass' = [pass EXCEPT ![p].pc = "record", ![p].todo = @ \ {b},
                                    ![p].alert = b,
                                    ![p].price = pass[p].seen[b].current]
      BY <1>0, <2>1 DEF Pass
    <2>2. ASSUME NEW q \in Nearby(pass[p].seen[b].current),
                 pass' = [pass EXCEPT ![p].pc = "update",
                                      ![p].todo = @ \ {b}, ![p].alert = b,
                                      ![p].price = q, ![p].fresh = TRUE]
          PROVE  /\ pass'[p].todo = pass[p].todo \ {b} /\ pass'[p].alert = b
                 /\ pass'[p].seen = pass[p].seen
                 /\ pass'[p].pc = "update" /\ pass'[p].price \in Prices
      <3>1. q \in Prices
        BY DEF Nearby
      <3> QED BY <1>0, <2>2, <3>1 DEF Pass
    <2> QED BY <1>1, <2>1, <2>2
  <1>3. ASSUME NEW a \in AlertIds, Holds(p, a)', Stored(a)
        PROVE  Seen(p, a)'
    <2>1. a \in pass[p].todo
      BY <1>2, <1>3 DEF Holds
    <2>2. Seen(p, a)
      BY <1>3, <2>1 DEF SeenInv, Holds
    <2>3. /\ pass[p].seen[a].target = rows[a].target
          /\ pass[p].seen[a].current = rows[a].current
      BY <2>1, <2>2 DEF Seen
    <2> QED BY <1>0, <1>2, <2>3 DEF Seen
  <1> QED BY <1>2, <1>3

\* Going on to the next alert forgets the one at hand only.
LEMMA SeenContinue ==
    ASSUME TypeOK, SeenInv, NEW p \in Passes, Shape(p), Continue(p), PassStep(p),
           NEW a \in AlertIds, Holds(p, a)', Stored(a)
    PROVE  Seen(p, a)'
  <1>1. /\ pass'[p].todo = pass[p].todo /\ pass'[p].alert = NoAlert
        /\ \A b \in AlertIds \ {pass[p].alert} : pass'[p].seen[b] = pass[p].seen[b]
    BY ContinueEffect
  <1>2. a \in pass[p].todo /\ a # pass[p].alert
    BY <1>1, SentinelAssumption DEF Holds, Shape
  <1>3. rows'[a].target = rows[a].target /\ rows'[a].current = rows[a].current
    BY <1>2, RowEffect
  <1>4. Seen(p, a)
    BY <1>2 DEF SeenInv, Holds
  <1>5. a # pass'[p].alert /\ pass'[p].seen[a] = pass[p].seen[a]
    BY <1>1, <1>2, SentinelAssumption
  <1> QED BY <1>1, <1>2, <1>3, <1>4, <1>5 DEF Seen

LEMMA SeenGoto ==
    ASSUME TypeOK, SeenInv, NEW p \in Passes, Shape(p), PassStep(p), NEW pc, Goto(p, pc),
           pass[p].pc \in AtAlert, pass[p].pc = "record" => TargetReached(p),
           pass[p].pc = "update" => pc = "record",
           pass[p].pc # "update" => pc \in {"user", "mail", "recheck", "mark"},
           NEW a \in AlertIds, Holds(p, a)', Stored(a)
    PROVE  Seen(p, a)'
  <1>1. /\ pass'[p].pc = pc /\ pass'[p].todo = pass[p].todo
        /\ pass'[p].seen = pass[p].seen /\ pass'[p].alert = pass[p].alert
        /\ pass'[p].price = pass[p].price
    BY GotoEffect
  <1>2. Seen(p, a) /\ Holds(p, a)
    BY <1>1 DEF SeenInv, Holds
  <1>3. rows'[a].target = rows[a].target
    BY RowEffect
  <1>4. CASE a # pass[p].alert
    <2>1. rows'[a].current = rows[a].current
      BY <1>4, RowEffect
    <2> QED BY <1>1, <1>2, <1>3, <1>4, <2>1 DEF Seen
  <1>5. CASE a = pass[p].alert /\ pass[p].pc = "update"
    <2>1. a \notin pass[p].todo
      BY <1>5 DEF Shape
    <2>2. rows'[a].current = pass[p].price /\ pc = "record"
      BY <1>1, <1>5, RowEffect
    <2> QED BY <1>1, <1>2, <1>3, <1>5, <2>1, <2>2 DEF Seen
  <1>6. CASE a = pass[p].alert /\ pass[p].pc # "update"
    <2>1. a \notin pass[p].todo
      BY <1>6 DEF Shape
    <2>2. rows'[a].current = rows[a].current /\ pc # "record"
      BY <1>6, RowEffect
    <2>3. SameWidth => TextLeq(rows[a].current, rows[a].target)
      <3>1. CASE pass[p].pc = "record"
        <4>1. pass[p].price = rows[a].current /\ pass[p].seen[a].target = rows[a].target
          BY <1>2, <1>6, <3>1 DEF Seen
        <4>2. rows[a].current \in Prices /\ rows[a].target \in Prices
          BY DEF SeenInv, Priced
        <4> QED BY <1>6, <3>1, <4>1, <4>2, ReachedAsText
      <3>2. CASE pass[p].pc # "record"
        BY <1>2, <1>6, <3>2 DEF Seen, AtAlert
      <3> QED BY <3>1, <3>2
    <2>4. SameWidth' = SameWidth
      BY DEF SameWidth
    <2> QED BY <1>1, <1>2, <1>3, <1>6, <2>1, <2>2, <2>3, <2>4 DEF Seen
  <1> QED BY <1>4, <1>5, <1>6

LEMMA SeenPassStep ==
    ASSUME TypeOK, ScanInv, SeenInv, NEW p \in Passes, PassStep(p)
    PROVE  SeenInv'
  <1>1. Shape(p)
    BY DEF ScanInv
  <1>2. /\ \A q \in Passes \ {p} : pass[q].pc = "idle" /\ pass'[q] = pass[q]
        /\ \A a \in AlertIds : Stored(a)' <=> Stored(a)
    BY <1>1, PassEffect, RowEffect DEF ScanInv, OnePass, Stored
  <1>3. Priced'
    <2> SUFFICES ASSUME NEW a \in AlertIds, Stored(a)
                 PROVE  rows'[a].target \in Prices /\ rows'[a].current \in Prices
      BY <1>2 DEF Priced
    <2> QED BY RowEffect DEF SeenInv, Priced
  <1>4. /\ pass'[p].pc = "update" => pass'[p].price \in Prices
        /\ \A a \in AlertIds : Holds(p, a)' /\ Stored(a) => Seen(p, a)'
    <2>1. CASE Select(p)
      BY <2>1, SeenSelect
    <2>2. CASE Observe(p)
      BY <1>1, <2>2, SeenObserve
    <2>3. CASE Finish(p)
      <3>1. pass'[p].pc = "idle" /\ pass'[p].todo = {} /\ pass'[p].alert = NoAlert
        BY <2>3 DEF Finish, IdlePass, TypeOK
      <3> QED BY <3>1, SentinelAssumption DEF Holds
    <2>4. CASE Continue(p)
      BY <1>1, <2>4, SeenContinue, ContinueEffect
    <2>5. ASSUME NEW pc, Goto(p, pc), pass[p].pc \in AtAlert,
                 pass[p].pc = "record" => TargetReached(p),
                 pass[p].pc = "update" => pc = "record",
                 pass[p].pc # "update" => pc \in {"user", "mail", "recheck", "mark"}
          PROVE  /\ pass'[p].pc # "update"
                 /\ \A a \in AlertIds : Holds(p, a)' /\ Stored(a) => Seen(p, a)'
      <3>1. pass'[p].pc # "update"
        BY <2>5, GotoEffect
      <3> QED BY <1>1, <2>5, <3>1, SeenGoto
    <2>6. CASE UpdatePrice(p)
      BY <2>4, <2>5, <2>6 DEF UpdatePrice, AtAlert
    <2>7. CASE RecordPrice(p)
      BY <2>4, <2>5, <2>7 DEF RecordPrice, AtAlert
    <2>8. CASE FindUser(p)
      BY <2>4, <2>5, <2>8 DEF FindUser, AtAlert
    <2>9. CASE SendMail(p)
      BY <2>4, <2>5, <2>9 DEF SendMail, AtAlert
    <2>10. CASE CheckAndNotify(p)
      BY <2>4, <2>5, <2>10 DEF CheckAndNotify, AtAlert
    <2>11. CASE MarkNotified(p)
      BY <2>4, <2>11 DEF MarkNotified
    <2> QED
      BY <2>1, <2>2, <2>3, <2>6, <2>7, <2>8, <2>9, <2>10, <2>11 DEF PassStep
  <1>5. \A q \in Passes \ {p}, a \in AlertIds : ~Holds(q, a)'
    BY <1>2, SentinelAssumption DEF ScanInv, Shape, Holds, AtAlert
  <1> QED BY <1>2, <1>3, <1>4, <1>5 DEF SeenInv

LEMMA SeenInit == Init => SeenInv
  BY SentinelAssumption DEF Init, SeenInv, Priced, Stored, Holds, BlankRow, IdlePass

LEMMA SeenStep == TypeOK /\ ScanInv /\ SeenInv /\ [Next]_vars => SeenInv'
  <1> SUFFICES ASSUME TypeOK, ScanInv, SeenInv, [Next]_vars PROVE SeenInv'
    OBVIOUS
  <1> USE DEF jobVars, historyVars
  <1>0. SameWidth' = SameWidth
    BY DEF SameWidth
  <1>1. CASE UserStep
    <2>1. /\ UNCHANGED pass
          /\ \A a \in AlertIds :
                \/ rows'[a] = rows[a]
                \/ Created(a) \/ Deactivated(a) \/ Deleted(a)
      BY <1>1, UserEffect
    <2>2. ASSUME NEW a \in AlertIds, Stored(a)'
          PROVE  \/ Created(a)
                 \/ /\ Stored(a) /\ rows'[a].target = rows[a].target
                    /\ rows'[a].current = rows[a].current
      <3>1. rows[a] \in Row
        BY DEF TypeOK
      <3> QED BY <2>1, <2>2, <3>1 DEF Deactivated, Deleted, Stored, BlankRow, Row
    <2>3. Priced'
      BY <2>2 DEF SeenInv, Priced, Created
    <2>4. ASSUME NEW p \in Passes, NEW a \in AlertIds, Holds(p, a)', Stored(a)'
          PROVE  Seen(p, a)'
      <3>1. Holds(p, a) /\ ~Created(a)
        BY <2>1, <2>4 DEF Holds, ScanInv, Created
      <3>2. /\ Stored(a) /\ rows'[a].target = rows[a].target
            /\ rows'[a].current = rows[a].current
        BY <2>2, <2>4, <3>1
      <3>3. Seen(p, a)
        BY <3>1, <3>2 DEF SeenInv
      <3> QED BY <1>0, <2>1, <3>2, <3>3 DEF Seen
    <2> QED BY <2>1, <2>3, <2>4 DEF SeenInv
  <1>2. ASSUME CheckPrices, UNCHANGED rows PROVE SeenInv'
    <2>1. CASE UNCHANGED pass
      BY <1>0, <1>2, <2>1 DEF SeenInv, Priced, Stored, Holds, Seen
    <2>2. ASSUME NEW p \in Passes, pass[p].pc = "idle", Goto(p, "select")
          PROVE  SeenInv'
      <3>1. /\ \A q \in Passes \ {p} : pass'[q] = pass[q]
            /\ pass'[p].pc = "select" /\ pass'[p].todo = pass[p].todo
            /\ pass'[p].alert = pass[p].alert
        BY <2>2, GotoEffect
      <3>2. \A a \in AlertIds : ~Holds(p, a)'
        BY <2>2, <3>1, SentinelAssumption DEF ScanInv, Shape, Holds, AtAlert
      <3> QED BY <1>0, <1>2, <3>1, <3>2 DEF SeenInv, Priced, Stored, Holds, Seen
    <2> QED BY <1>2, <2>1, <2>2, CheckPricesEffect
  <1>3. CASE Start \/ Tick
    BY <1>2, <1>3 DEF Start, Tick
  <1>4. CASE Boot \/ Stop \/ UNCHANGED vars
    BY <1>0, <1>4 DEF Boot, Stop, vars, SeenInv, Priced, Stored, Holds, Seen
  <1>5. CASE Exit
    <2>1. /\ rows' = rows
          /\ \A p \in Passes : /\ pass'[p].pc = "idle" /\ pass'[p].todo = {}
                               /\ pass'[p].alert = NoAlert
      BY <1>5 DEF Exit, IdlePass
    <2> QED BY <2>1, SentinelAssumption DEF SeenInv, Priced, Stored, Holds
  <1>6. ASSUME NEW p \in Passes, PassStep(p) PROVE SeenInv'
    BY <1>6, SeenPassStep
  <1> QED
    BY <1>1, <1>3, <1>4, <1>5, <1>6 DEF Next

THEOREM SeenInvariant == Spec => []SeenInv
  <1> QED BY TypeCorrect, ScanInvariant, SeenInit, SeenStep, PTL DEF Spec

\* Alert a may still be mailed, by the pass at hand or by a later one.
Unsettled(a) ==
    \/ rows[a].state = "unissued"
    \/ rows[a].state = "active" /\ ~rows[a].notified
    \/ \E p \in Passes : MayMail(p, a)

\* A pass has mailed a and is about to mark it.
Marking(a) == \E p \in Passes : pass[p].pc \in {"recheck", "mark"} /\ pass[p].alert = a

\* Every mail but one is paid for by a fault, and all of them are while another
\* can follow.
OnceInv ==
    SameWidth =>
       \A a \in AlertIds : /\ mailed[a] <= 1 + faults
                           /\ Unsettled(a) /\ ~Marking(a) => mailed[a] <= faults

LEMMA OnceInit == Init => OnceInv
  BY DEF Init, OnceInv

\* With SameWidth the re-check confirms whatever is still there, so that a pass
\* leaves the marking without a mark only by a fault or when the row is gone.
LEMMA MarkingEffect ==
    ASSUME TypeOK, ScanInv, SeenInv, SameWidth, NEW p \in Passes, PassStep(p),
           NEW a \in AlertIds, pass[p].pc \in {"recheck", "mark"}, pass[p].alert = a
    PROVE  /\ mailed' = mailed
           /\ \/ Marking(a)' /\ faults' = faults
              \/ faults' = faults + 1
              \/ ~Unsettled(a)' /\ faults' = faults
  <1> USE DEF historyVars
  <1>0. Shape(p) /\ Holds(p, a) /\ rows[a] \in Row /\ rows \in [AlertIds -> Row]
    BY DEF ScanInv, Holds, TypeOK
  <1>1. CASE CheckAndNotify(p)
    <2>1. CASE Fault
      BY <1>1, <2>1 DEF CheckAndNotify, Fault
    <2>2. CASE Goto(p, "mark") /\ UNCHANGED faults
      BY <1>1, <2>2, GotoEffect DEF CheckAndNotify, Marking
    <2>3. CASE /\ Continue(p) /\ UNCHANGED faults
               /\ ~(/\ Stored(a) /\ TextLeq(rows[a].current, rows[a].target)
                    /\ ~rows[a].notified)
      <3>1. ~Stored(a)
        BY <1>0, <2>3 DEF ScanInv, SeenInv, Seen
      <3>2. rows[a].state = "deleted"
        BY <1>0, <3>1 DEF ScanInv, Stored, Row
      <3>3. ~MayMail(p, a)'
        BY <1>0, <2>3, ContinueEffect DEF MayMail, Shape
      <3>4. \A q \in Passes \ {p} : ~MayMail(q, a)'
        BY <1>0, PassEffect DEF MayMail, ScanInv, OnePass, Shape
      <3> QED BY <1>1, <2>3, <3>2, <3>3, <3>4 DEF CheckAndNotify, Unsettled
    <2> QED BY <1>1, <2>1, <2>2, <2>3 DEF CheckAndNotify
  <1>2. CASE MarkNotified(p)
    <2>1. CASE Fault
      BY <1>2, <2>1 DEF MarkNotified, Fault
    <2>2. CASE /\ UNCHANGED faults
               /\ rows' = IF Stored(a) THEN [rows EXCEPT ![a].notified = TRUE] ELSE rows
      <3>1. rows'[a].state = rows[a].state /\ rows[a].state # "unissued"
        BY <1>0, PassEffect DEF ScanInv
      <3>2. Stored(a) => rows'[a].notified
        BY <1>0, <2>2 DEF Row
      <3>3. /\ rows'[a].state # "unissued"
            /\ rows'[a].state = "active" => rows'[a].notified
        BY <3>1, <3>2 DEF Stored
      <3>4. ~MayMail(p, a)'
        BY <1>0, <1>2, ContinueEffect DEF MarkNotified, MayMail, Shape
      <3>5. \A q \in Passes \ {p} : ~MayMail(q, a)'
        BY <1>0, PassEffect DEF MayMail, ScanInv, OnePass, Shape
      <3> QED BY <1>2, <2>2, <3>3, <3>4, <3>5 DEF MarkNotified, Unsettled
    <2> QED BY <1>2, <2>1, <2>2 DEF MarkNotified
  <1> QED
    BY <1>1, <1>2 DEF PassStep, Select, Observe, UpdatePrice, RecordPrice, FindUser, SendMail,
       Finish

LEMMA OncePassStep ==
    ASSUME TypeOK, ScanInv, SeenInv, OnceInv, SameWidth, NEW p \in Passes, PassStep(p),
           NEW a \in AlertIds
    PROVE  /\ mailed'[a] <= 1 + faults'
           /\ Unsettled(a)' /\ ~Marking(a)' => mailed'[a] <= faults'
  <1>0. /\ Shape(p) /\ mailed[a] \in Nat /\ faults \in Nat
        /\ mailed[a] <= 1 + faults
        /\ Unsettled(a) /\ ~Marking(a) => mailed[a] <= faults
    BY FaultsAssumption DEF ScanInv, TypeOK, OnceInv
  <1>1. \A q \in Passes \ {p} : pass[q].pc = "idle" /\ pass'[q] = pass[q]
    BY <1>0, PassEffect DEF ScanInv, OnePass
  <1>2. \A q \in Passes \ {p} : ~MayMail(q, a) /\ ~MayMail(q, a)'
    BY <1>1 DEF MayMail, ScanInv, Shape
  <1>3. CASE pass[p].pc \in {"recheck", "mark"} /\ pass[p].alert = a
    BY <1>0, <1>3, MarkingEffect
  <1>4. CASE ~(pass[p].pc \in {"recheck", "mark"} /\ pass[p].alert = a)
    <2>1. ~Marking(a)
      BY <1>1, <1>4 DEF Marking
    <2>2. /\ mailed'[a] = mailed[a] \/ Delivered(p, a)
          /\ faults' >= faults
          /\ MayMail(p, a)' => MayMail(p, a) \/ (pass[p].pc = "select" /\ a \in Due)
          /\ MayMail(p, a)' => ~Delivered(p, a)
      BY <1>0, MailEffect
    <2>3. faults' \in Nat
      BY StepType, FaultsAssumption DEF Next, TypeOK
    <2>4. CASE Delivered(p, a)
      <3>1. Unsettled(a) /\ mailed'[a] = mailed[a] + 1
        BY <2>4 DEF Delivered, MayMail, Unsettled
      <3>2. mailed[a] <= faults
        BY <1>0, <2>1, <3>1
      <3>3. Marking(a)' \/ faults' = faults + 1
        BY <2>4 DEF Delivered, Marking
      <3> QED BY <1>0, <2>2, <2>3, <3>1, <3>2, <3>3
    <2>5. CASE ~Delivered(p, a)
      <3>1. rows'[a].state = rows[a].state /\ (rows[a].notified => rows'[a].notified)
        <4>1. rows'[a].state = rows[a].state
          BY <1>0, PassEffect
        <4>2. rows[a].notified => rows'[a].notified
          <5>1. rows \in [AlertIds -> Row]
            BY DEF TypeOK
          <5> QED
            BY <5>1, ZenonT(60) DEF PassStep, Select, Observe, UpdatePrice, RecordPrice, FindUser,
               SendMail, CheckAndNotify, MarkNotified, Finish, Row
        <4> QED BY <4>1, <4>2
      <3>2. Unsettled(a)' => Unsettled(a)
        BY <1>2, <2>2, <3>1 DEF Unsettled, Due
      <3> QED BY <1>0, <2>1, <2>2, <2>3, <2>5, <3>2
    <2> QED BY <2>4, <2>5
  <1> QED BY <1>3, <1>4

LEMMA OnceStep == TypeOK /\ ScanInv /\ SeenInv /\ OnceInv /\ [Next]_vars => OnceInv'
  <1> SUFFICES ASSUME TypeOK, ScanInv, SeenInv, OnceInv, [Next]_vars, SameWidth, NEW a \in AlertIds
               PROVE  /\ mailed'[a] <= 1 + faults'
                      /\ Unsettled(a)' /\ ~Marking(a)' => mailed'[a] <= faults'
    <2>1. SameWidth' = SameWidth
      BY DEF SameWidth
    <2> QED BY <2>1 DEF OnceInv
  <1> USE DEF jobVars, historyVars
  <1>0. /\ mailed[a] \in Nat /\ faults \in Nat
        /\ mailed[a] <= 1 + faults
        /\ Unsettled(a) /\ ~Marking(a) => mailed[a] <= faults
    BY FaultsAssumption DEF TypeOK, OnceInv
  <1>1. CASE UserStep
    <2>1. /\ UNCHANGED <<pass, mailed, faults>>
          /\ \/ rows'[a] = rows[a]
             \/ Created(a) \/ Deactivated(a) \/ Deleted(a)
      BY <1>1, UserEffect
    <2>2. /\ rows'[a].state = "unissued" => rows[a].state = "unissued"
          /\ rows'[a].state = "active" /\ ~rows'[a].notified =>
                \/ rows[a].state = "unissued"
                \/ rows[a].state = "active" /\ ~rows[a].notified
      <3>1. rows[a] \in Row
        BY DEF TypeOK
      <3> QED BY <2>1, <3>1 DEF Created, Deactivated, Deleted, BlankRow, Row
    <2> QED BY <1>0, <2>1, <2>2 DEF Unsettled, Marking, MayMail
  <1>2. ASSUME CheckPrices, UNCHANGED <<rows, mailed, faults>>
        PROVE  /\ mailed'[a] <= 1 + faults'
               /\ Unsettled(a)' /\ ~Marking(a)' => mailed'[a] <= faults'
    <2>1. CASE UNCHANGED pass
      BY <1>0, <1>2, <2>1 DEF Unsettled, Marking, MayMail
    <2>2. ASSUME NEW p \in Passes, pass[p].pc = "idle", Goto(p, "select")
          PROVE  (Unsettled(a)' => Unsettled(a)) /\ (Marking(a) => Marking(a)')
      <3>1. \A q \in Passes : MayMail(q, a)' => MayMail(q, a)
        BY <2>2, GotoEffect DEF MayMail
      <3>2. \A q \in Passes : pass[q].pc # "idle" => pass'[q] = pass[q]
        BY <2>2, GotoEffect
      <3> QED BY <1>2, <3>1, <3>2 DEF Unsettled, Marking
    <2> QED BY <1>0, <1>2, <2>1, <2>2, CheckPricesEffect
  <1>3. CASE Start \/ Tick
    BY <1>2, <1>3 DEF Start, Tick
  <1>4. CASE Boot \/ Stop \/ UNCHANGED vars
    BY <1>0, <1>4 DEF Boot, Stop, vars, Unsettled, Marking, MayMail
  <1>5. CASE Exit
    BY <1>0, <1>5 DEF Exit, Fault
  <1>6. ASSUME NEW p \in Passes, PassStep(p)
        PROVE  /\ mailed'[a] <= 1 + faults'
               /\ Unsettled(a)' /\ ~Marking(a)' => mailed'[a] <= faults'
    BY <1>6, OncePassStep
  <1> QED
    BY <1>1, <1>3, <1>4, <1>5, <1>6 DEF Next

\* While all amounts have the same number of digits, an alert is mailed once, and
\* once more at most for every exit and every lost answer: whatever users do to it
\* between the mail, the re-check and the mark (priceCheckJob.ts:99-109).
THEOREM OneMailPerFault == Spec => []MailedOncePerFault
  <1>1. OnceInv => MailedOncePerFault
    BY DEF OnceInv, MailedOncePerFault
  <1> QED
    BY <1>1, OnceInit, OnceStep, TypeCorrect, ScanInvariant, SeenInvariant, PTL DEF Spec

-----------------------------------------------------------------------------
(***************************************************************************)
(* Texts of the same width.                                                *)
(***************************************************************************)
\* Induction, for the set of the numbers that have the property.
LEMMA StrongInduct ==
    ASSUME NEW S, \A n \in Nat : (\A i \in 0..(n - 1) : i \in S) => n \in S
    PROVE  Nat \subseteq S
<1> DEFINE T == Nat \ S
           R == OpToRel(<, Nat)
<1> SUFFICES ASSUME NEW n \in T PROVE FALSE
  OBVIOUS
<1>1. IsWellFoundedOn(R, Nat)
  BY NatLessThanWellFounded
<1>2. \A x, y \in Nat : x < y => <<x, y>> \in R
  BY DEF OpToRel
<1> HIDE DEF R
<1>3. PICK m \in T : \A k \in T : ~(<<k, m>> \in R)
  BY <1>1, WFMin
<1>4. \A i \in 0..(m - 1) : i \in Nat /\ i < m
  BY <1>3
<1>5. \A i \in 0..(m - 1) : i \in S
  BY <1>2, <1>3, <1>4
<1> QED
  BY <1>3, <1>5

\* What is left of a number without its last digit, and that digit.
LEMMA LastDigit ==
    ASSUME NEW n \in Nat, n >= 10
    PROVE  /\ n \div 10 \in Nat /\ n \div 10 \in 0..(n - 1)
           /\ n % 10 \in 0..9 /\ n = 10 * (n \div 10) + (n % 10)
<1>1. n % 10 \in 0..9
  OBVIOUS
<1>2. n = 10 * (n \div 10) + (n % 10)
  OBVIOUS
<1>3. n \div 10 \in Int
  OBVIOUS
<1> QED
  BY <1>1, <1>2, <1>3

\* The beginning of the table of the digits.
DigitTable(g, n) ==
    /\ g \in [0..n -> Seq(0..9)]
    /\ \A i \in 0..n : g[i] = IF i < 10 THEN <<i>> ELSE Append(g[i \div 10], i % 10)

LEMMA DigitTables == \A n \in Nat : \E g : DigitTable(g, n)
<1> DEFINE S == {n \in Nat : \E g : DigitTable(g, n)}
<1>1. ASSUME NEW n \in Nat, \A i \in 0..(n - 1) : i \in S PROVE \E g : DigitTable(g, n)
  <2>1. CASE n = 0
    <3>1. DigitTable([i \in 0..0 |-> <<0>>], 0)
      <4>1. <<0>> \in Seq(0..9) /\ 0..0 = {0} /\ 0 < 10
        OBVIOUS
      <4> QED
        BY <4>1 DEF DigitTable
    <3> QED
      BY <2>1, <3>1
  <2>2. CASE n # 0
    <3>1. n - 1 \in Nat /\ n - 1 \in 0..(n - 1)
      BY <2>2
    <3>2. PICK g : DigitTable(g, n - 1)
      BY <1>1, <3>1
    <3> DEFINE last == IF n < 10 THEN <<n>> ELSE Append(g[n \div 10], n % 10)
               h == [i \in 0..n |-> IF i < n THEN g[i] ELSE last]
    <3>3. g \in [0..(n - 1) -> Seq(0..9)]
      BY <3>2 DEF DigitTable
    <3>4. last \in Seq(0..9)
      <4>1. CASE n < 10
        <5>1. n \in 0..9
          BY <4>1
        <5> QED
          BY <4>1, <5>1
      <4>2. CASE n >= 10
        <5>1. g[n \div 10] \in Seq(0..9) /\ n % 10 \in 0..9
          BY <3>3, <4>2, LastDigit
        <5>2. Append(g[n \div 10], n % 10) \in Seq(0..9)
          BY <5>1, AppendProperties
        <5>3. ~(n < 10)
          BY <4>2
        <5> QED
          BY <5>2, <5>3
      <4> QED
        BY <4>1, <4>2
    <3> HIDE DEF last
    <3>5. \A i \in 0..n : i < n => h[i] = g[i] /\ i \in 0..(n - 1)
      OBVIOUS
    <3>6. h[n] = last
      OBVIOUS
    <3>7. h \in [0..n -> Seq(0..9)]
      <4>1. ASSUME NEW i \in 0..n PROVE (IF i < n THEN g[i] ELSE last) \in Seq(0..9)
        <5>1. i < n => i \in 0..(n - 1)
          OBVIOUS
        <5> QED
          BY <3>3, <3>4, <5>1
      <4> QED
        BY <4>1
    <3> HIDE DEF h
    <3>8. ASSUME NEW i \in 0..n
          PROVE  h[i] = IF i < 10 THEN <<i>> ELSE Append(h[i \div 10], i % 10)
      <4>1. i >= 10 => h[i \div 10] = g[i \div 10]
        <5>1. i >= 10 => i \div 10 \in 0..(i - 1)
          BY LastDigit
        <5>2. i >= 10 => i \div 10 \in 0..n /\ i \div 10 < n
          BY <5>1
        <5> QED
          BY <3>5, <5>2
      <4>2. i < 10 \/ i >= 10
        OBVIOUS
      <4>3. CASE i < n
        <5>1. g[i] = IF i < 10 THEN <<i>> ELSE Append(g[i \div 10], i % 10)
          BY <3>2, <3>5, <4>3 DEF DigitTable
        <5> QED
          BY <3>5, <4>1, <4>2, <4>3, <5>1
      <4>4. CASE i = n
        BY <3>6, <4>1, <4>2, <4>4 DEF last
      <4> QED
        BY <4>3, <4>4
    <3> QED
      BY <3>7, <3>8 DEF DigitTable
  <2> QED
    BY <2>1, <2>2
<1>2. \A n \in Nat : (\A i \in 0..(n - 1) : i \in S) => n \in S
  BY <1>1
<1> HIDE DEF S
<1>3. Nat \subseteq S
  BY <1>2, StrongInduct
<1> QED
  BY <1>3 DEF S

LEMMA DigitTablesAgree ==
    ASSUME NEW n \in Nat, NEW g, DigitTable(g, n), NEW m \in Nat, NEW h, DigitTable(h, m)
    PROVE  \A i \in Nat : i <= n /\ i <= m => g[i] = h[i]
<1> DEFINE S == {i \in Nat : i <= n /\ i <= m => g[i] = h[i]}
<1>1. ASSUME NEW i \in Nat, \A j \in 0..(i - 1) : j \in S, i <= n, i <= m
      PROVE  g[i] = h[i]
  <2>1. i \in 0..n /\ i \in 0..m /\ (i < 10 \/ i >= 10)
    BY <1>1
  <2>2. /\ g[i] = IF i < 10 THEN <<i>> ELSE Append(g[i \div 10], i % 10)
        /\ h[i] = IF i < 10 THEN <<i>> ELSE Append(h[i \div 10], i % 10)
    BY <2>1 DEF DigitTable
  <2>3. CASE i >= 10
    <3>1. i \div 10 \in Nat /\ i \div 10 \in 0..(i - 1)
      BY <2>3, LastDigit
    <3>2. i \div 10 <= n /\ i \div 10 <= m
      BY <1>1, <3>1
    <3>3. g[i \div 10] = h[i \div 10]
      BY <1>1, <3>1, <3>2
    <3> QED
      BY <2>2, <2>3, <3>3
  <2> QED
    BY <2>1, <2>2, <2>3
<1>2. \A i \in Nat : (\A j \in 0..(i - 1) : j \in S) => i \in S
  <2> SUFFICES ASSUME NEW i \in Nat, \A j \in 0..(i - 1) : j \in S, i <= n, i <= m
               PROVE  g[i] = h[i]
    OBVIOUS
  <2> QED
    BY <1>1
<1> HIDE DEF S
<1>3. Nat \subseteq S
  BY <1>2, StrongInduct
<1> QED
  BY <1>3 DEF S

\* The recursion of the digits defines a function.
LEMMA DigitsExist ==
    \E f : /\ f = [n \in Nat |-> IF n < 10 THEN <<n>> ELSE Append(f[n \div 10], n % 10)]
           /\ f \in [Nat -> Seq(0..9)]
<1> DEFINE row(n) == CHOOSE g : DigitTable(g, n)
           f == [n \in Nat |-> row(n)[n]]
<1>1. \A n \in Nat : DigitTable(row(n), n)
  BY DigitTables
<1> HIDE DEF row
<1>2. ASSUME NEW n \in Nat
      PROVE  /\ row(n)[n] \in Seq(0..9)
             /\ row(n)[n] = IF n < 10 THEN <<n>> ELSE Append(row(n \div 10)[n \div 10], n % 10)
  <2>1. n \in 0..n /\ (n < 10 \/ n >= 10)
    OBVIOUS
  <2>2. row(n)[n] \in Seq(0..9)
    BY <1>1, <2>1 DEF DigitTable
  <2>3. row(n)[n] = IF n < 10 THEN <<n>> ELSE Append(row(n)[n \div 10], n % 10)
    BY <1>1, <2>1 DEF DigitTable
  <2>4. CASE n >= 10
    <3> DEFINE k == n \div 10
    <3>1. k \in Nat /\ k <= n /\ k <= k
      BY <2>4, LastDigit
    <3> HIDE DEF k
    <3>2. row(n)[k] = row(k)[k]
      BY <1>1, <3>1, DigitTablesAgree
    <3> QED
      BY <2>2, <2>3, <3>2 DEF k
  <2> QED
    BY <2>1, <2>2, <2>3, <2>4
<1>3. ASSUME NEW n \in Nat
      PROVE  f[n] = IF n < 10 THEN <<n>> ELSE Append(f[n \div 10], n % 10)
  <2>1. n >= 10 => n \div 10 \in Nat
    BY LastDigit
  <2>2. n < 10 \/ n >= 10
    OBVIOUS
  <2> QED
    BY <1>2, <2>1, <2>2
<1>4. f \in [Nat -> Seq(0..9)]
  BY <1>2
<1>5. f = [n \in Nat |-> IF n < 10 THEN <<n>> ELSE Append(f[n \div 10], n % 10)]
  BY <1>3
<1> QED
  BY <1>4, <1>5

LEMMA DigitsDef ==
    /\ Digits \in [Nat -> Seq(0..9)]
    /\ \A n \in Nat : Digits[n] = IF n < 10 THEN <<n>> ELSE Append(Digits[n \div 10], n % 10)
<1> DEFINE P(f) == f = [n \in Nat |-> IF n < 10 THEN <<n>> ELSE Append(f[n \div 10], n % 10)]
<1>1. \E f : P(f)
  BY DigitsExist
<1>2. P(Digits)
  BY <1>1 DEF Digits
<1>3. \A n \in Nat : Digits[n] = IF n < 10 THEN <<n>> ELSE Append(Digits[n \div 10], n % 10)
  BY <1>2
<1>4. DOMAIN Digits = Nat /\ Digits = [n \in Nat |-> Digits[n]]
  BY <1>2
<1>5. Nat \subseteq {n \in Nat : Digits[n] \in Seq(0..9)}
  <2> DEFINE S == {n \in Nat : Digits[n] \in Seq(0..9)}
  <2>1. ASSUME NEW n \in Nat, \A i \in 0..(n - 1) : i \in S PROVE Digits[n] \in Seq(0..9)
    <3>1. CASE n < 10
      <4>1. n \in 0..9
        BY <3>1
      <4>2. Digits[n] = <<n>>
        BY <1>3, <3>1
      <4> QED
        BY <4>1, <4>2
    <3>2. CASE n >= 10
      <4>1. n \div 10 \in 0..(n - 1) /\ n % 10 \in 0..9 /\ ~(n < 10)
        BY <3>2, LastDigit
      <4>2. Digits[n \div 10] \in Seq(0..9)
        BY <2>1, <4>1
      <4>3. Append(Digits[n \div 10], n % 10) \in Seq(0..9)
        BY <4>1, <4>2, AppendProperties
      <4> QED
        BY <1>3, <4>1, <4>3
    <3> QED
      BY <3>1, <3>2
  <2>2. \A n \in Nat : (\A i \in 0..(n - 1) : i \in S) => n \in S
    BY <2>1
  <2> HIDE DEF S
  <2>3. Nat \subseteq S
    BY <2>2, StrongInduct
  <2> QED
    BY <2>3 DEF S
<1> QED
  BY <1>3, <1>4, <1>5

\* One digit, or one more than the number without its last.
LEMMA DigitsShape ==
    ASSUME NEW n \in Nat
    PROVE  /\ Digits[n] \in Seq(0..9) /\ Len(Digits[n]) \in Nat \ {0}
           /\ n < 10 => Len(Digits[n]) = 1 /\ Digits[n][1] = n
           /\ n >= 10 => LET m == Len(Digits[n \div 10])
                         IN  /\ Len(Digits[n]) = m + 1 /\ m \in Nat \ {0}
                             /\ \A i \in 1..m : Digits[n][i] = Digits[n \div 10][i]
                             /\ Digits[n][m + 1] = n % 10
<1>1. ASSUME NEW k \in Nat PROVE Digits[k] \in Seq(0..9) /\ Len(Digits[k]) \in Nat
  <2>1. Digits[k] \in Seq(0..9)
    BY DigitsDef
  <2> QED
    BY <2>1, LenProperties
<1>2. n < 10 => Len(Digits[n]) = 1 /\ Digits[n][1] = n
  BY DigitsDef
<1>3. ASSUME NEW k \in Nat, k >= 10
      PROVE  /\ Len(Digits[k]) = Len(Digits[k \div 10]) + 1
             /\ \A i \in 1..Len(Digits[k \div 10]) : Digits[k][i] = Digits[k \div 10][i]
             /\ Digits[k][Len(Digits[k \div 10]) + 1] = k % 10
  <2>1. k \div 10 \in Nat /\ k % 10 \in 0..9 /\ ~(k < 10)
    BY <1>3, LastDigit
  <2>2. Digits[k] = Append(Digits[k \div 10], k % 10)
    BY <2>1, DigitsDef
  <2>3. Digits[k \div 10] \in Seq(0..9)
    BY <1>1, <2>1
  <2> QED
    BY <2>1, <2>2, <2>3, AppendProperties
<1>4. ASSUME NEW k \in Nat PROVE Len(Digits[k]) \in Nat \ {0}
  <2>1. CASE k < 10
    <3>1. Len(Digits[k]) = 1
      BY <2>1, DigitsDef
    <3> QED
      BY <3>1
  <2>2. CASE k >= 10
    <3>1. k \div 10 \in Nat
      BY <2>2, LastDigit
    <3>2. Len(Digits[k \div 10]) \in Nat
      BY <1>1, <3>1
    <3> QED
      BY <1>3, <2>2, <3>2
  <2> QED
    BY <2>1, <2>2
<1>5. n >= 10 => n \div 10 \in Nat
  BY LastDigit
<1> QED
  BY <1>1, <1>2, <1>3, <1>4, <1>5

\* s sorts below t: they differ, and at the first place where they do, s is less.
Before(s, t) ==
    \E i \in DOMAIN s \cap DOMAIN t : (\A j \in 1..(i - 1) : s[j] = t[j]) /\ s[i] < t[i]

\* With the same number of digits the smaller number sorts below.
LEMMA DigitsSort ==
    \A b \in Nat : \A a \in Nat :
       a < b /\ Len(Digits[a]) = Len(Digits[b]) => Before(Digits[a], Digits[b])
<1> DEFINE S == {b \in Nat : \A a \in Nat :
                   a < b /\ Len(Digits[a]) = Len(Digits[b]) => Before(Digits[a], Digits[b])}
<1>1. ASSUME NEW b \in Nat, \A i \in 0..(b - 1) : i \in S, NEW a \in Nat, a < b,
             Len(Digits[a]) = Len(Digits[b])
      PROVE  Before(Digits[a], Digits[b])
  <2>1. DOMAIN Digits[a] = 1..Len(Digits[a]) /\ DOMAIN Digits[b] = 1..Len(Digits[b])
    BY DigitsShape, LenProperties
  <2>2. CASE b < 10
    <3>1. a < 10
      BY <1>1, <2>2
    <3>2. Len(Digits[a]) = 1 /\ Digits[a][1] = a /\ Len(Digits[b]) = 1 /\ Digits[b][1] = b
      BY <2>2, <3>1, DigitsShape
    <3>3. 1 \in DOMAIN Digits[a] \cap DOMAIN Digits[b] /\ 1..(1 - 1) = {}
      BY <2>1, <3>2
    <3> QED
      BY <1>1, <3>2, <3>3 DEF Before
  <2>3. CASE b >= 10
    <3> DEFINE k == a \div 10
               l == b \div 10
               m == Len(Digits[l])
    <3>1. /\ Len(Digits[b]) = m + 1 /\ m \in Nat \ {0} /\ Digits[b][m + 1] = b % 10
          /\ \A i \in 1..m : Digits[b][i] = Digits[l][i]
      BY <2>3, DigitsShape
    <3>2. a >= 10
      <4>1. ~(a < 10)
        BY <1>1, <3>1, DigitsShape
      <4> QED
        BY <4>1
    <3>3. /\ Len(Digits[a]) = Len(Digits[k]) + 1 /\ Len(Digits[k]) \in Nat
          /\ Digits[a][Len(Digits[k]) + 1] = a % 10
          /\ \A i \in 1..Len(Digits[k]) : Digits[a][i] = Digits[k][i]
      BY <3>2, DigitsShape
    <3>4. Len(Digits[k]) = m
      BY <1>1, <3>1, <3>3, SMTT(30)
    <3>5. k \in Nat /\ l \in Nat /\ l \in 0..(b - 1) /\ k <= l
      BY <1>1, <2>3, <3>2, LastDigit
    <3>6. /\ DOMAIN Digits[k] = 1..m /\ DOMAIN Digits[l] = 1..m
          /\ DOMAIN Digits[a] = 1..(m + 1) /\ DOMAIN Digits[b] = 1..(m + 1)
      BY <2>1, <3>1, <3>3, <3>4, <3>5, DigitsShape, LenProperties
    <3>7. k = l => a % 10 < b % 10
      BY <1>1, <2>3, <3>2, LastDigit
    <3> HIDE DEF k, l, m
    <3>8. CASE k = l
      <4>1. m + 1 \in DOMAIN Digits[a] \cap DOMAIN Digits[b] /\ (m + 1) - 1 = m
        BY <3>1, <3>6
      <4>2. \A j \in 1..m : Digits[a][j] = Digits[b][j]
        BY <3>1, <3>3, <3>4, <3>8
      <4>3. Digits[a][m + 1] < Digits[b][m + 1]
        BY <3>1, <3>3, <3>4, <3>7, <3>8
      <4> QED
        BY <4>1, <4>2, <4>3 DEF Before
    <3>9. CASE k < l
      <4>1. Before(Digits[k], Digits[l])
        <5>1. l \in S /\ Len(Digits[k]) = Len(Digits[l])
          BY <1>1, <3>4, <3>5 DEF m
        <5> QED
          BY <3>5, <3>9, <5>1
      <4>2. PICK i \in 1..m : (\A j \in 1..(i - 1) : Digits[k][j] = Digits[l][j])
                              /\ Digits[k][i] < Digits[l][i]
        BY <3>6, <4>1 DEF Before
      <4>3. i \in DOMAIN Digits[a] \cap DOMAIN Digits[b] /\ \A j \in 1..(i - 1) : j \in 1..m
        BY <3>1, <3>6
      <4>4. \A j \in 1..m : Digits[a][j] = Digits[k][j] /\ Digits[b][j] = Digits[l][j]
        BY <3>1, <3>3, <3>4
      <4>5. (\A j \in 1..(i - 1) : Digits[a][j] = Digits[b][j]) /\ Digits[a][i] < Digits[b][i]
        BY <4>2, <4>3, <4>4
      <4> QED
        BY <4>3, <4>5 DEF Before
    <3> QED
      BY <3>5, <3>8, <3>9
  <2> QED
    BY <2>2, <2>3
<1>2. \A b \in Nat : (\A i \in 0..(b - 1) : i \in S) => b \in S
  <2> SUFFICES ASSUME NEW b \in Nat, \A i \in 0..(b - 1) : i \in S, NEW a \in Nat, a < b,
                      Len(Digits[a]) = Len(Digits[b])
               PROVE  Before(Digits[a], Digits[b])
    OBVIOUS
  <2> HIDE DEF S
  <2> QED
    BY <1>1
<1> HIDE DEF S
<1>3. Nat \subseteq S
  BY <1>2, StrongInduct
<1> QED
  BY <1>3 DEF S

\* The dots come last and are the same.
LEMMA TextsSort ==
    ASSUME NEW a \in Nat, NEW b \in Nat, Len(Digits[a]) = Len(Digits[b]), a < b
    PROVE  Before(Text(a), Text(b))
<1> DEFINE m == Len(Digits[a])
<1>1. ASSUME NEW n \in Nat, Len(Digits[n]) = m
      PROVE  DOMAIN Digits[n] = 1..m /\ DOMAIN Text(n) = 1..(m + 1)
             /\ \A i \in 1..m : Text(n)[i] = Digits[n][i]
  <2>1. Digits[n] \in Seq(Int) /\ Dot \in Int
    <3>1. Digits[n] \in Seq(0..9)
      BY DigitsDef
    <3>2. 0..9 \subseteq Int
      OBVIOUS
    <3> QED
      BY <3>1, <3>2, SeqMonotonic DEF Dot
  <2> QED
    BY <1>1, <2>1, AppendProperties, LenProperties DEF Text
<1>2. m \in Nat
  BY DigitsShape
<1> HIDE DEF m
<1>3. Len(Digits[a]) = m /\ Len(Digits[b]) = m
  BY DEF m
<1>4. PICK i \in 1..m : (\A j \in 1..(i - 1) : Digits[a][j] = Digits[b][j])
                        /\ Digits[a][i] < Digits[b][i]
  BY <1>1, <1>3, DigitsSort, ZenonT(60) DEF Before
<1>5. i \in DOMAIN Text(a) \cap DOMAIN Text(b) /\ \A j \in 1..(i - 1) : j \in 1..m
  BY <1>1, <1>2, <1>3
<1>6. (\A j \in 1..(i - 1) : Text(a)[j] = Text(b)[j]) /\ Text(a)[i] < Text(b)[i]
  BY <1>1, <1>3, <1>4, <1>5
<1> QED
  BY <1>5, <1>6 DEF Before

\* Of two texts of integers only one sorts below the other.
LEMMA BeforeOneWay ==
    ASSUME NEW s \in Seq(Int), NEW t \in Seq(Int), Before(s, t) PROVE ~Before(t, s)
<1> SUFFICES ASSUME Before(t, s) PROVE FALSE
  OBVIOUS
<1>1. /\ DOMAIN s = 1..Len(s) /\ DOMAIN t = 1..Len(t) /\ Len(s) \in Nat /\ Len(t) \in Nat
      /\ \A i \in DOMAIN s : s[i] \in Int
  BY LenProperties
<1>2. \A i \in DOMAIN t : t[i] \in Int
  BY LenProperties
<1>3. PICK i \in DOMAIN s \cap DOMAIN t : (\A j \in 1..(i - 1) : s[j] = t[j]) /\ s[i] < t[i]
  BY DEF Before
<1>4. PICK k \in DOMAIN s \cap DOMAIN t : (\A j \in 1..(k - 1) : t[j] = s[j]) /\ t[k] < s[k]
  BY DEF Before
<1>5. i \in Int /\ k \in Int /\ 1 <= i /\ 1 <= k
  BY <1>1
<1>6. CASE i < k
  <2>1. t[i] = s[i]
    BY <1>4, <1>5, <1>6
  <2> QED
    BY <1>1, <1>2, <1>3, <2>1
<1>7. CASE k < i
  <2>1. t[k] = s[k]
    BY <1>3, <1>5, <1>7
  <2> QED
    BY <1>1, <1>2, <1>4, <2>1
<1>8. CASE i = k
  BY <1>1, <1>2, <1>3, <1>4, <1>8
<1> QED
  BY <1>5, <1>6, <1>7, <1>8

\* Amounts with the same number of digits are compared as texts the way they are as
\* numbers (priceCheckJob.ts:88, priceTrackingService.ts:129).
THEOREM TextsAgree ==
    ASSUME NEW a \in Nat, NEW b \in Nat, Len(Digits[a]) = Len(Digits[b])
    PROVE  TextLeq(a, b) <=> a <= b
<1>1. TextLeq(a, b) <=> a = b \/ Before(Text(a), Text(b))
  BY DEF TextLeq, Before
<1>2. ASSUME NEW n \in Nat PROVE Text(n) \in Seq(Int)
  <2>1. Digits[n] \in Seq(Int) /\ Dot \in Int
    <3>1. Digits[n] \in Seq(0..9)
      BY DigitsDef
    <3>2. 0..9 \subseteq Int
      OBVIOUS
    <3> QED
      BY <3>1, <3>2, SeqMonotonic, SMTT(30) DEF Dot
  <2> QED
    BY <2>1, AppendProperties DEF Text
<1>3. a < b => Before(Text(a), Text(b))
  BY TextsSort
<1>4. b < a => ~Before(Text(a), Text(b))
  BY <1>2, TextsSort, BeforeOneWay
<1> QED
  BY <1>1, <1>3, <1>4

\* With prices of one number of digits, an alert is mailed once, and once more at
\* most for each fault that kept a delivered mail from being marked
\* (priceCheckJob.ts:88-109).
THEOREM OneMailSameDigits ==
    ASSUME \A p, q \in Prices : Len(Digits[p]) = Len(Digits[q])
    PROVE  Spec => [](\A a \in AlertIds : mailed[a] <= 1 + faults)
<1>1. SameWidth
  BY TextsAgree, PricesAssumption DEF SameWidth
<1>2. MailedOncePerFault => \A a \in AlertIds : mailed[a] <= 1 + faults
  BY <1>1 DEF MailedOncePerFault
<1> QED
  BY <1>2, OneMailPerFault, PTL
=============================================================================
