------------------------- MODULE RequestGuardProofs -------------------------
(***************************************************************************)
(* Proofs about RequestGuard, for any number of requests in flight, any    *)
(* durations and scores and any number of faults.                          *)
(***************************************************************************)
EXTENDS RequestGuard, FiniteSetTheorems, TLAPS

\* How many requests stand at one of the given steps.
Count(positions, steps) == Cardinality({r \in Requests : positions[r] \in steps})

N == Cardinality(Requests)

\* How many requests a set of them holds.
Size(X) == Cardinality(X)

Consuming == {"consume"}

\* Each request in flight that was looked up, before the block that stands, may
\* still add to the count of the late ones.
LateRoom ==
    /\ blocked = 0 => late = 0
    /\ blocked > 0 => late + Size(own) <= N + faults

\* While a challenge can be accepted, its uses are on the way to its deletion, but
\* for those a fault has stopped.
UsesRoom ==
    /\ uses <= N + N * faults
    /\ challenge => uses <= Count(request, Consuming) + N * faults

-----------------------------------------------------------------------------
LEMMA CountType ==
    ASSUME NEW f, NEW S
    PROVE  Count(f, S) \in Nat /\ N \in Nat /\ Count(f, S) <= N
<1>1. {r \in Requests : f[r] \in S} \subseteq Requests
  OBVIOUS
<1> QED
  BY <1>1, GuardAssumption, FS_Subset, FS_CardinalityType DEF Count, N

\* What a step of one request does to such a count.
LEMMA GotoCount ==
    ASSUME TypeOK, NEW r \in Requests, NEW s \in Step,
           request' = [request EXCEPT ![r] = s], NEW S
    PROVE  Count(request', S) =
             IF request[r] \in S THEN IF s \in S THEN Count(request, S) ELSE Count(request, S) - 1
                                 ELSE IF s \in S THEN Count(request, S) + 1 ELSE Count(request, S)
<1> DEFINE Before == {q \in Requests : request[q] \in S}
           After == {q \in Requests : request'[q] \in S}
<1>1. IsFiniteSet(Before)
  <2>1. Before \subseteq Requests
    OBVIOUS
  <2> QED
    BY <2>1, GuardAssumption, FS_Subset
<1>2. request'[r] = s /\ \A q \in Requests : q # r => request'[q] = request[q]
  BY DEF TypeOK
<1>3. r \in Before <=> request[r] \in S
  OBVIOUS
<1>4. CASE s \in S
  <2>1. After = Before \cup {r}
    BY <1>2, <1>4
  <2>2. Cardinality(Before \cup {r}) =
          IF r \in Before THEN Cardinality(Before) ELSE Cardinality(Before) + 1
    BY <1>1, FS_AddElement
  <2> QED
    BY <1>3, <1>4, <2>1, <2>2 DEF Count
<1>5. CASE s \notin S
  <2>1. After = Before \ {r}
    BY <1>2, <1>5
  <2>2. Cardinality(Before \ {r}) =
          IF r \in Before THEN Cardinality(Before) - 1 ELSE Cardinality(Before)
    BY <1>1, FS_RemoveElement
  <2> QED
    BY <1>3, <1>5, <2>1, <2>2 DEF Count
<1> QED
  BY <1>4, <1>5

LEMMA OwnType ==
    ASSUME NEW X \in SUBSET Requests
    PROVE  /\ IsFiniteSet(X) /\ Cardinality(X) \in Nat /\ N \in Nat
           /\ Cardinality(X) <= N
<1> QED
  BY GuardAssumption, FS_Subset, FS_CardinalityType DEF N

\* A request that goes on is still one of those in flight, one that ends is not.
LEMMA OwnGoto ==
    ASSUME TypeOK, NEW r \in Requests, NEW s, Goto(r, s)
    PROVE  /\ Size(own') <= Size(own)
           /\ s = "idle" /\ r \in own => Size(own') = Size(own) - 1
<1>1. IsFiniteSet(own) /\ Size(own) \in Nat
  BY OwnType DEF TypeOK, Size
<1>2. Cardinality(own \ {r}) = IF r \in own THEN Size(own) - 1 ELSE Size(own)
  BY <1>1, FS_RemoveElement DEF Size
<1> QED
  BY <1>1, <1>2 DEF Goto, Size

LEMMA OwnEnter ==
    ASSUME TypeOK, NEW r \in Requests, NEW s, EnterOwn(r, s)
    PROVE  Size(own') <= Size(own) + 1
<1>1. IsFiniteSet(own) /\ Size(own) \in Nat
  BY OwnType DEF TypeOK, Size
<1>2. Cardinality(own \cup {r}) = IF r \in own THEN Size(own) ELSE Size(own) + 1
  BY <1>1, FS_AddElement DEF Size
<1> QED
  BY <1>1, <1>2 DEF EnterOwn, Size

-----------------------------------------------------------------------------
LEMMA InitInv == Init => TypeOK /\ LateRoom /\ UsesRoom
<1> SUFFICES ASSUME Init PROVE TypeOK /\ LateRoom /\ UsesRoom
  OBVIOUS
<1> USE GuardAssumption
<1>1. TypeOK
  <2>1. request \in [Requests -> Step] /\ own \in SUBSET Requests /\ record \in Record
    BY DEF Init, Step, Record, NoRecord, Name
  <2>2. challenge \in BOOLEAN /\ blacklisted \in BOOLEAN
    BY Zenon DEF Init
  <2>3. /\ blocked \in 0..(2 * BlockDuration)
        /\ intrusions \in 0..MaxIntrusions
        /\ late \in Nat /\ uses \in Nat /\ faults \in 0..MaxFaults
    BY DEF Init
  <2> QED
    BY <2>1, <2>2, <2>3, Zenon DEF TypeOK
<1>2. N \in Nat /\ Count(request, Consuming) \in Nat
  BY CountType
<1>3. N * 0 = 0
  BY <1>2
<1> QED
  BY <1>1, <1>2, <1>3 DEF Init, LateRoom, UsesRoom

-----------------------------------------------------------------------------
(***************************************************************************)
(* Types.                                                                  *)
(***************************************************************************)
\* The variables that hold neither the steps of the requests nor a truth value.
Numbers ==
    /\ blocked \in 0..(2 * BlockDuration)
    /\ intrusions \in 0..MaxIntrusions
    /\ own \in SUBSET Requests
    /\ record \in Record
    /\ late \in Nat
    /\ uses \in Nat
    /\ faults \in 0..MaxFaults

LEMMA TypeStep == ASSUME TypeOK, [Next]_vars PROVE TypeOK'
<1> USE GuardAssumption DEF TypeOK, Goto, EnterOwn, client, flight
<1>1. ASSUME NEW r \in Requests, Arrive(r) \/ ArriveForwarded(r) \/ RegisterLoginAttempt(r)
      PROVE  TypeOK'
  BY <1>1 DEF Arrive, ArriveForwarded, RegisterLoginAttempt, Step, Ddos, Login
<1>2. ASSUME NEW r \in Requests, CheckForDDoS(r) \/ CheckThreatScore(r) \/ DetectBot(r)
                                  \/ DetectCredentialStuffing(r)
      PROVE  TypeOK'
  BY <1>2 DEF CheckForDDoS, CheckThreatScore, DetectBot, DetectCredentialStuffing, Step, Ddos, Login
<1>3. ASSUME NEW r \in Requests, BlockFlooder(r) \/ BlockViolator(r) \/ BlockStuffer(r) PROVE TypeOK'
  BY <1>3 DEF BlockFlooder, BlockViolator, BlockStuffer, BlockIP, Step
<1>4. ASSUME NEW r \in Requests, BlockThreat(r) \/ BlockByScore(r) PROVE TypeOK'
  BY <1>4 DEF BlockThreat, BlockByScore, BlockIP, Step, Ddos
<1>5. ASSUME NEW r \in Requests, RequireChallenge(r) PROVE TypeOK'
  BY <1>5 DEF RequireChallenge, AfterScore, Step, Ddos
<1>6. ASSUME NEW r \in Requests, GenerateChallenge(r) \/ VerifyChallenge(r) \/ ConsumeChallenge(r)
      PROVE  TypeOK'
  <2>1. challenge' \in BOOLEAN /\ blacklisted' \in BOOLEAN
    BY <1>6, Zenon DEF GenerateChallenge, VerifyChallenge, ConsumeChallenge
  <2>2. Numbers'
    BY <1>6 DEF Numbers, GenerateChallenge, VerifyChallenge, ConsumeChallenge
  <2>3. request' \in [Requests -> Step]
    BY <1>6 DEF GenerateChallenge, VerifyChallenge, ConsumeChallenge, Step, Ddos
  <2> QED
    BY <2>1, <2>2, <2>3, Zenon DEF Numbers
<1>7. ASSUME NEW r \in Requests, CheckRequest(r) \/ ValidateInput(r) PROVE TypeOK'
  BY <1>7 DEF CheckRequest, ValidateInput, NamesOf, Step, Severity, Record, Name
<1>8. ASSUME NEW r \in Requests, Pass(r) PROVE TypeOK'
  BY <1>8 DEF Pass, Step
<1>9. CASE RecordStep
  <2>1. CASE InsertIntrusion
    <3>1. record' \in Record
      BY <2>1 DEF InsertIntrusion, Record, NoRecord, Name, Severity
    <3>2. intrusions' \in 0..MaxIntrusions
      BY <2>1 DEF InsertIntrusion, CountIntrusion
    <3> QED
      BY <2>1, <3>1, <3>2 DEF InsertIntrusion
  <2>2. CASE BlockIntruder
    <3>1. record' \in Record
      BY <2>2 DEF BlockIntruder, Record, NoRecord, Name
    <3> QED
      BY <2>2, <3>1 DEF BlockIntruder, BlockIP
  <2> QED
    BY <1>9, <2>1, <2>2 DEF RecordStep
<1>10. ASSUME NEW r \in Requests, FailOpen(r) PROVE TypeOK'
  <2>1. NextMiddleware(request[r]) \in Step
    BY <1>10 DEF FailOpen, NextMiddleware, Step, Ddos, Login
  <2> QED
    BY <1>10, <2>1 DEF FailOpen, Fault
<1>11. ASSUME NEW r \in Requests, ArriveUnseen(r) PROVE TypeOK'
  BY <1>11 DEF ArriveUnseen, Fault, Step
<1>12. CASE RecordFails \/ Exit
  <2>1. NoRecord \in Record
    BY DEF Record, NoRecord, Name
  <2> QED
    BY <1>12, <2>1 DEF RecordFails, Exit, Fault, Step
<1>13. CASE BlockManually \/ UnblockIP
  BY <1>13 DEF BlockManually, UnblockIP, BlockIP, Unblock
<1>14. CASE AddToBlacklist \/ Flush \/ Forget
  <2>1. challenge' \in BOOLEAN /\ blacklisted' \in BOOLEAN
    BY <1>14, Zenon DEF AddToBlacklist, Flush, Forget
  <2>2. Numbers'
    BY <1>14 DEF Numbers, AddToBlacklist, Flush, Unblock, Forget
  <2>3. request' \in [Requests -> Step]
    BY <1>14 DEF AddToBlacklist, Flush, Forget
  <2> QED
    BY <2>1, <2>2, <2>3, Zenon DEF Numbers
<1>15. CASE Tick
  <2>1. challenge' \in BOOLEAN /\ blacklisted' \in BOOLEAN
    BY <1>15, Zenon DEF Tick
  <2>2. Numbers'
    BY <1>15 DEF Numbers, Tick, Unblock
  <2>3. request' \in [Requests -> Step]
    BY <1>15 DEF Tick
  <2> QED
    BY <2>1, <2>2, <2>3, Zenon DEF Numbers
<1>16. CASE UNCHANGED vars
  BY <1>16 DEF vars
<1> QED
  BY <1>1, <1>2, <1>3, <1>4, <1>5, <1>6, <1>7, <1>8, <1>9, <1>10, <1>11, <1>12, <1>13,
     <1>14, <1>15, <1>16
  DEF Next, RequestStep

\* The type of every variable of the guard, for any number of requests.
THEOREM TypeCorrect == Spec => []TypeOK
  BY InitInv, TypeStep, PTL DEF Spec

-----------------------------------------------------------------------------
(***************************************************************************)
(* Late requests.                                                          *)
(***************************************************************************)
LEMMA LateTypes ==
    TypeOK => blocked \in Nat /\ late \in Nat /\ faults \in Nat /\ N \in Nat
              /\ Size(own) \in Nat /\ Size(own) <= N
<1> SUFFICES ASSUME TypeOK
             PROVE  blocked \in Nat /\ late \in Nat /\ faults \in Nat /\ N \in Nat
                    /\ Size(own) \in Nat /\ Size(own) <= N
  OBVIOUS
<1>1. blocked \in Nat /\ late \in Nat /\ faults \in Nat
  BY GuardAssumption DEF TypeOK
<1>2. N \in Nat /\ Size(own) \in Nat /\ Size(own) <= N
  BY OwnType DEF TypeOK, Size
<1> QED
  BY <1>1, <1>2

\* A step after which no more such requests are in flight and none has become late,
\* and which does not touch the block.
LEMMA LateRoomStays ==
    ASSUME TypeOK, TypeOK', LateRoom, faults' = faults, late' = late, blocked' = blocked,
           Size(own') <= Size(own)
    PROVE  LateRoom'
<1>1. late \in Nat /\ faults \in Nat /\ N \in Nat /\ Size(own) \in Nat
  BY LateTypes
<1>2. Size(own') \in Nat
  BY OwnType DEF TypeOK, Size
<1> QED
  BY <1>1, <1>2 DEF LateRoom

\* A step that sets a block.
LEMMA LateRoomBlock ==
    ASSUME TypeOK, TypeOK', LateRoom, faults' = faults, late' = late, Size(own') <= Size(own),
           blocked' > 0
    PROVE  LateRoom'
<1>1. late \in Nat /\ faults \in Nat /\ N \in Nat /\ Size(own) \in Nat /\ blocked \in Nat
  BY LateTypes
<1>2. Size(own') \in Nat /\ Size(own') <= N /\ blocked' \in Nat
  BY OwnType, GuardAssumption DEF TypeOK, Size
<1>3. CASE blocked = 0
  BY <1>1, <1>2, <1>3 DEF LateRoom
<1>4. CASE blocked > 0
  BY <1>1, <1>2, <1>4 DEF LateRoom
<1> QED
  BY <1>1, <1>3, <1>4

LEMMA LateStep == ASSUME TypeOK, TypeOK', LateRoom, [Next]_vars PROVE LateRoom'
<1> USE DEF client, flight
<1>0. /\ Size(own) \in Nat /\ Size(own') \in Nat /\ N \in Nat /\ Size(own') <= N
      /\ blocked \in Nat /\ late \in Nat /\ faults \in Nat
  BY OwnType, LateTypes DEF TypeOK, Size
<1>1. BlockDuration > 0 /\ 2 * BlockDuration > 0 /\ ScoreDuration > 0
  BY GuardAssumption
<1>2. ASSUME NEW r \in Requests, Arrive(r) PROVE LateRoom'
  BY <1>2, <1>0 DEF Arrive, LateRoom
<1>3. ASSUME NEW r \in Requests,
             ArriveForwarded(r) \/ RegisterLoginAttempt(r) \/ DetectCredentialStuffing(r)
               \/ CheckForDDoS(r) \/ RequireChallenge(r) \/ GenerateChallenge(r)
               \/ VerifyChallenge(r) \/ ConsumeChallenge(r) \/ CheckRequest(r)
               \/ ValidateInput(r) \/ DetectBot(r) \/ CheckThreatScore(r)
      PROVE  LateRoom'
  <2>1. PICK s : Goto(r, s)
    BY <1>3 DEF ArriveForwarded, RegisterLoginAttempt, DetectCredentialStuffing, CheckForDDoS,
       RequireChallenge, GenerateChallenge, VerifyChallenge, ConsumeChallenge, CheckRequest,
       ValidateInput, DetectBot, CheckThreatScore
  <2>2. Size(own') <= Size(own)
    BY <2>1, OwnGoto
  <2>3. faults' = faults /\ late' = late /\ blocked' = blocked
    BY <1>3 DEF ArriveForwarded, RegisterLoginAttempt, DetectCredentialStuffing, CheckForDDoS,
       RequireChallenge, GenerateChallenge, VerifyChallenge, ConsumeChallenge, CheckRequest,
       ValidateInput, DetectBot, CheckThreatScore
  <2> QED
    BY <2>2, <2>3, LateRoomStays
<1>4. ASSUME NEW r \in Requests,
             BlockFlooder(r) \/ BlockByScore(r) \/ BlockViolator(r) \/ BlockThreat(r)
               \/ BlockStuffer(r)
      PROVE  LateRoom'
  <2>1. PICK s : Goto(r, s)
    BY <1>4 DEF BlockFlooder, BlockByScore, BlockViolator, BlockThreat, BlockStuffer
  <2>2. Size(own') <= Size(own)
    BY <2>1, OwnGoto
  <2>3. blocked' > 0 /\ faults' = faults /\ late' = late
    BY <1>1, <1>4
    DEF BlockFlooder, BlockByScore, BlockViolator, BlockThreat, BlockStuffer, BlockIP
  <2> QED
    BY <2>2, <2>3, LateRoomBlock
<1>5. ASSUME NEW r \in Requests, Pass(r) PROVE LateRoom'
  <2>1. Goto(r, "idle")
    BY <1>5 DEF Pass
  <2>2. Size(own') <= Size(own) /\ (r \in own => Size(own') = Size(own) - 1)
    BY <2>1, OwnGoto
  <2>3. /\ late' = late \/ (blocked > 0 /\ r \in own /\ late' = late + 1)
        /\ blocked' = blocked /\ faults' = faults
    BY <1>5 DEF Pass
  <2> QED
    BY <2>2, <2>3, <1>0 DEF LateRoom
<1>6. CASE RecordStep
  <2>1. Size(own') = Size(own) /\ faults' = faults /\ late' = late
    BY <1>6 DEF RecordStep, InsertIntrusion, BlockIntruder, Size
  <2>2. blocked' = blocked \/ blocked' > 0
    BY <1>1, <1>6 DEF RecordStep, InsertIntrusion, BlockIntruder, BlockIP
  <2> QED
    BY <2>1, <2>2, <1>0, LateRoomStays, LateRoomBlock
<1>7. ASSUME NEW r \in Requests, FailOpen(r) PROVE LateRoom'
  <2>1. PICK s : Goto(r, s)
    BY <1>7 DEF FailOpen
  <2>2. Size(own') <= Size(own)
    BY <2>1, OwnGoto
  <2>3. faults' = faults + 1 /\ late' = late /\ blocked' = blocked
    BY <1>7 DEF FailOpen, Fault
  <2> QED
    BY <2>2, <2>3, <1>0 DEF LateRoom
<1>8. ASSUME NEW r \in Requests, ArriveUnseen(r) PROVE LateRoom'
  <2>1. Size(own') <= Size(own) + 1
    BY <1>8, OwnEnter DEF ArriveUnseen
  <2>2. faults' = faults + 1 /\ late' = late /\ blocked' = blocked
    BY <1>8 DEF ArriveUnseen, Fault
  <2> QED
    BY <2>1, <2>2, <1>0 DEF LateRoom
<1>9. CASE Exit
  <2>1. Size(own') = 0
    BY <1>9, FS_EmptySet DEF Exit, Size
  <2>2. faults' = faults + 1 /\ late' = late /\ blocked' = blocked
    BY <1>9 DEF Exit, Fault
  <2> QED
    BY <2>1, <2>2, <1>0 DEF LateRoom
<1>10. CASE RecordFails
  <2>1. Size(own') = Size(own)
    BY <1>10 DEF RecordFails, Size
  <2> QED
    BY <1>10, <2>1, <1>0 DEF RecordFails, Fault, LateRoom, TypeOK
<1>11. CASE BlockManually
  <2>1. Size(own') = Size(own) /\ faults' = faults /\ late' = late
    BY <1>11 DEF BlockManually, Size
  <2>2. blocked' > 0
    BY <1>11, GuardAssumption DEF BlockManually, BlockIP
  <2> QED
    BY <2>1, <2>2, <1>0, LateRoomBlock
<1>12. CASE AddToBlacklist \/ Forget
  <2>1. Size(own') = Size(own)
    BY <1>12 DEF AddToBlacklist, Forget, Size
  <2> QED
    BY <1>12, <2>1, <1>0, LateRoomStays DEF AddToBlacklist, Forget
<1>13. CASE UnblockIP \/ Flush
  <2>1. blocked' = 0 /\ late' = 0
    BY <1>13 DEF UnblockIP, Flush, Unblock
  <2> QED
    BY <2>1 DEF LateRoom
<1>14. CASE Tick
  <2>1. Size(own') = Size(own) /\ faults' = faults
    BY <1>14 DEF Tick, Size
  <2>2. (blocked > 1 /\ blocked' = blocked - 1 /\ late' = late) \/ (blocked' = 0 /\ late' = 0)
    BY <1>14 DEF Tick, Unblock
  <2> QED
    BY <2>1, <2>2, <1>0 DEF LateRoom
<1>15. CASE UNCHANGED vars
  <2>1. Size(own') = Size(own)
    BY <1>15 DEF vars, Size
  <2> QED
    BY <1>15, <2>1, <1>0, LateRoomStays DEF vars
<1> QED
  BY <1>2, <1>3, <1>4, <1>5, <1>6, <1>7, <1>8, <1>9, <1>10, <1>11, <1>12, <1>13, <1>14, <1>15
  DEF Next, RequestStep

\* While the address is blocked, whoever blocked it, at most one request per slot and
\* one per fault reaches the routes of those that have it as req.ip
\* (ddosProtection.ts:49-54).
THEOREM LateHolds == Spec => []LateBound
<1>1. TypeOK /\ LateRoom /\ [Next]_vars => TypeOK' /\ LateRoom'
  BY TypeStep, LateStep
<1>2. TypeOK /\ LateRoom => LateBound
  <2> SUFFICES ASSUME TypeOK, LateRoom PROVE LateBound
    OBVIOUS
  <2>1. Size(own) \in Nat /\ N \in Nat
    BY OwnType DEF TypeOK, Size
  <2> QED
    BY <2>1, GuardAssumption DEF TypeOK, LateRoom, LateBound, N
<1> QED
  BY InitInv, <1>1, <1>2, PTL DEF Spec

-----------------------------------------------------------------------------
(***************************************************************************)
(* Uses of a challenge.                                                    *)
(***************************************************************************)
\* What one fault more allows for.
LEMMA OneFaultMore ==
    ASSUME TypeOK, faults' = faults + 1
    PROVE  N * faults' = N * faults + N /\ N * faults \in Nat /\ N \in Nat
<1>1. N \in Nat /\ faults \in Nat
  BY CountType, GuardAssumption DEF TypeOK
<1>2. N * (faults + 1) = N * faults + N /\ N * faults \in Nat
  BY <1>1
<1> QED
  BY <1>1, <1>2

\* A step that accepts no challenge and moves no request away from its deletion.
LEMMA UsesRoomStays ==
    ASSUME TypeOK, TypeOK', UsesRoom, faults' = faults,
           uses' = uses \/ uses' = 0, challenge' => challenge,
           Count(request', Consuming) >= Count(request, Consuming)
    PROVE  UsesRoom'
<1>1. /\ Count(request, Consuming) \in Nat /\ Count(request', Consuming) \in Nat /\ N \in Nat
  BY CountType
<1>2. N * faults \in Nat
  BY <1>1, GuardAssumption DEF TypeOK
<1>3. uses \in Nat
  BY DEF TypeOK
<1>4. uses' <= N + N * faults'
  BY <1>1, <1>2, <1>3 DEF UsesRoom
<1>5. ASSUME challenge' PROVE uses' <= Count(request', Consuming) + N * faults'
  <2>1. uses <= Count(request, Consuming) + N * faults
    BY <1>5 DEF UsesRoom
  <2> QED
    BY <2>1, <1>1, <1>2, <1>3
<1> QED
  BY <1>4, <1>5 DEF UsesRoom

\* A step in which a fault may take requests away from the deletion.
LEMMA UsesRoomFault ==
    ASSUME TypeOK, TypeOK', UsesRoom, faults' = faults + 1, uses' = uses, challenge' = challenge
    PROVE  UsesRoom'
<1>1. N * faults' = N * faults + N /\ N * faults \in Nat /\ N \in Nat
  BY OneFaultMore
<1>2. /\ Count(request, Consuming) \in Nat /\ Count(request', Consuming) \in Nat
      /\ Count(request, Consuming) <= N
  BY CountType
<1>3. uses \in Nat /\ uses <= N + N * faults
  BY DEF TypeOK, UsesRoom
<1>4. uses' <= N + N * faults' /\ uses' <= Count(request', Consuming) + N * faults'
  BY <1>1, <1>2, <1>3
<1> QED
  BY <1>4 DEF UsesRoom

LEMMA UsesStep == ASSUME TypeOK, TypeOK', UsesRoom, [Next]_vars PROVE UsesRoom'
<1> USE DEF client, flight
<1>0. /\ Count(request, Consuming) \in Nat /\ Count(request', Consuming) \in Nat /\ N \in Nat
      /\ Count(request', Consuming) <= N
  BY CountType
<1>1. N * faults \in Nat /\ uses \in Nat
  BY <1>0, GuardAssumption DEF TypeOK
<1>2. ASSUME NEW r \in Requests, NEW s \in Step, request' = [request EXCEPT ![r] = s],
             request[r] # "consume"
      PROVE  /\ Count(request', Consuming) >= Count(request, Consuming)
             /\ s = "consume" => Count(request', Consuming) = Count(request, Consuming) + 1
  <2>1. Count(request', Consuming) =
          IF request[r] \in Consuming
          THEN IF s \in Consuming THEN Count(request, Consuming) ELSE Count(request, Consuming) - 1
          ELSE IF s \in Consuming THEN Count(request, Consuming) + 1 ELSE Count(request, Consuming)
    BY <1>2, GotoCount, Zenon
  <2> QED
    BY <1>2, <2>1, <1>0 DEF Consuming
<1>3. ASSUME NEW r \in Requests,
             Arrive(r) \/ ArriveForwarded(r) \/ RegisterLoginAttempt(r) \/ DetectCredentialStuffing(r)
               \/ CheckForDDoS(r) \/ RequireChallenge(r) \/ CheckRequest(r) \/ ValidateInput(r)
               \/ DetectBot(r) \/ CheckThreatScore(r) \/ Pass(r)
      PROVE  UsesRoom'
  <2>1. request[r] # "consume"
    BY <1>3 DEF Arrive, ArriveForwarded, RegisterLoginAttempt, DetectCredentialStuffing, CheckForDDoS,
       RequireChallenge, CheckRequest, ValidateInput, DetectBot, CheckThreatScore, Pass
  <2>2. PICK s \in Step : request' = [request EXCEPT ![r] = s]
    BY <1>3 DEF Arrive, ArriveForwarded, RegisterLoginAttempt, DetectCredentialStuffing, CheckForDDoS,
       RequireChallenge, AfterScore, CheckRequest, ValidateInput, DetectBot, CheckThreatScore,
       Pass, Goto, EnterOwn, Step, Ddos, Login
  <2>3. faults' = faults /\ uses' = uses /\ challenge' = challenge
    BY <1>3, Zenon DEF Arrive, ArriveForwarded, RegisterLoginAttempt, DetectCredentialStuffing, CheckForDDoS,
       RequireChallenge, CheckRequest, ValidateInput, DetectBot, CheckThreatScore, Pass
  <2>4. Count(request', Consuming) >= Count(request, Consuming)
    BY <2>1, <2>2, <1>2
  <2> QED
    BY <2>3, <2>4, UsesRoomStays
<1>4. ASSUME NEW r \in Requests,
             BlockFlooder(r) \/ BlockByScore(r) \/ BlockViolator(r) \/ BlockThreat(r)
               \/ BlockStuffer(r)
      PROVE  UsesRoom'
  <2>1. request[r] # "consume"
    BY <1>4 DEF BlockFlooder, BlockByScore, BlockViolator, BlockThreat, BlockStuffer
  <2>2. PICK s \in Step : request' = [request EXCEPT ![r] = s]
    BY <1>4 DEF BlockFlooder, BlockByScore, BlockViolator, BlockThreat, BlockStuffer, Goto, Step, Ddos
  <2>3. faults' = faults /\ uses' = uses /\ challenge' = challenge
    BY <1>4, Zenon DEF BlockFlooder, BlockByScore, BlockViolator, BlockThreat, BlockStuffer
  <2>4. Count(request', Consuming) >= Count(request, Consuming)
    BY <2>1, <2>2, <1>2
  <2> QED
    BY <2>3, <2>4, UsesRoomStays
<1>5. ASSUME NEW r \in Requests, GenerateChallenge(r) PROVE UsesRoom'
  <2>1. uses' = 0 /\ faults' = faults
    BY <1>5 DEF GenerateChallenge
  <2>2. uses' <= N + N * faults' /\ uses' <= Count(request', Consuming) + N * faults'
    BY <2>1, <1>0, <1>1
  <2> QED
    BY <2>2 DEF UsesRoom
<1>6. ASSUME NEW r \in Requests, VerifyChallenge(r) PROVE UsesRoom'
  <2>1. /\ request[r] # "consume"
        /\ faults' = faults /\ challenge' = challenge
    BY <1>6, Zenon DEF VerifyChallenge
  <2>2. CASE challenge /\ Goto(r, "consume") /\ uses' = uses + 1
    <3>1. "consume" \in Step
      BY DEF Step, Ddos
    <3>2. Count(request', Consuming) = Count(request, Consuming) + 1
      BY <2>1, <2>2, <3>1, <1>2 DEF Goto
    <3>3. uses <= Count(request, Consuming) + N * faults
      BY <2>2 DEF UsesRoom
    <3>4. uses' <= N + N * faults' /\ uses' <= Count(request', Consuming) + N * faults'
      BY <2>1, <2>2, <3>2, <3>3, <1>0, <1>1
    <3> QED
      BY <3>4 DEF UsesRoom
  <2>3. CASE Goto(r, "idle") /\ UNCHANGED uses
    <3>1. "idle" \in Step
      BY DEF Step
    <3>2. Count(request', Consuming) >= Count(request, Consuming)
      BY <2>1, <2>3, <3>1, <1>2 DEF Goto
    <3> QED
      BY <2>1, <2>3, <3>2, UsesRoomStays
  <2> QED
    BY <1>6, <2>2, <2>3 DEF VerifyChallenge
<1>7. ASSUME NEW r \in Requests, ConsumeChallenge(r) PROVE UsesRoom'
  <2>1. ~challenge' /\ uses' = 0 /\ faults' = faults
    BY <1>7 DEF ConsumeChallenge
  <2> QED
    BY <2>1, <1>0, <1>1 DEF UsesRoom
<1>8. CASE RecordStep
  <2>1. request' = request /\ faults' = faults /\ uses' = uses /\ challenge' = challenge
    BY <1>8, Zenon DEF RecordStep, InsertIntrusion, BlockIntruder
  <2> QED
    BY <2>1, <1>0, UsesRoomStays
<1>9. ASSUME NEW r \in Requests, FailOpen(r) \/ ArriveUnseen(r) PROVE UsesRoom'
  <2>1. faults' = faults + 1 /\ uses' = uses /\ challenge' = challenge
    BY <1>9, Zenon DEF FailOpen, ArriveUnseen, Fault
  <2> QED
    BY <2>1, UsesRoomFault
<1>10. CASE RecordFails \/ Exit
  <2>1. faults' = faults + 1 /\ uses' = uses /\ challenge' = challenge
    BY <1>10, Zenon DEF RecordFails, Exit, Fault
  <2> QED
    BY <2>1, UsesRoomFault
<1>11. CASE BlockManually \/ UnblockIP \/ AddToBlacklist \/ Flush \/ Forget \/ Tick
  <2>1. request' = request /\ faults' = faults /\ (uses' = uses \/ uses' = 0)
    BY <1>11, Zenon DEF BlockManually, BlockIP, UnblockIP, AddToBlacklist, Flush, Forget, Tick
  <2>2. challenge' => challenge
    <3>1. CASE BlockManually
      BY <3>1, Zenon DEF BlockManually
    <3>2. CASE UnblockIP \/ AddToBlacklist \/ Flush \/ Forget
      BY <3>2, Zenon DEF UnblockIP, AddToBlacklist, Flush, Forget
    <3>3. CASE Tick
      BY <3>3, Zenon DEF Tick
    <3> QED
      BY <1>11, <3>1, <3>2, <3>3
  <2> QED
    BY <2>1, <2>2, <1>0, UsesRoomStays
<1>12. CASE UNCHANGED vars
  <2>1. request' = request /\ faults' = faults /\ uses' = uses /\ challenge' = challenge
    BY <1>12, Zenon DEF vars
  <2> QED
    BY <2>1, <1>0, UsesRoomStays
<1> QED
  BY <1>3, <1>4, <1>5, <1>6, <1>7, <1>8, <1>9, <1>10, <1>11, <1>12 DEF Next, RequestStep

\* A challenge is accepted from no more requests than are in flight, and as many
\* again for each fault (ddosProtectionService.ts:218-221).
THEOREM ChallengeHolds == Spec => []ChallengeBound
<1>1. TypeOK /\ UsesRoom /\ [Next]_vars => TypeOK' /\ UsesRoom'
  BY TypeStep, UsesStep
<1>2. TypeOK /\ UsesRoom => ChallengeBound
  <2>1. N \in Nat
    BY CountType
  <2>2. TypeOK => faults \in Nat
    BY GuardAssumption DEF TypeOK
  <2>3. TypeOK => N * (1 + faults) = N + N * faults
    BY <2>1, <2>2
  <2> QED
    BY <2>3 DEF UsesRoom, ChallengeBound, N
<1> QED
  BY InitInv, <1>1, <1>2, PTL DEF Spec
=============================================================================
