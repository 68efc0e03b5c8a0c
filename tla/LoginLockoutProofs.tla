------------------------- MODULE LoginLockoutProofs -------------------------
(***************************************************************************)
(* Proofs about LoginLockout, for any number of concurrent logins, any     *)
(* limit, any duration and any number of faults.                           *)
(***************************************************************************)
EXTENDS LoginLockout, FiniteSetTheorems, TLAPS

\* The logins past their lockout check that have not counted a failure yet.
Verifying == {c \in Calls : call[c] = "verify"}

\* What each of them may still add to the counter is accounted for.
Room == attempts + Cardinality(Verifying) <= MaxAttempts - 1 + Cardinality(Calls) + faults

IInv == TypeOK /\ Room /\ CounterWillExpire

-----------------------------------------------------------------------------
LEMMA VerifyingFinite ==
    /\ IsFiniteSet(Verifying)
    /\ Cardinality(Verifying) \in Nat
    /\ Cardinality(Calls) \in Nat
    /\ Cardinality(Verifying) <= Cardinality(Calls)
  BY LimitsAssumption, FS_Subset, FS_CardinalityType DEF Verifying

LEMMA VerifyingFinitePrime ==
    /\ Cardinality(Verifying') \in Nat
    /\ Cardinality(Verifying') <= Cardinality(Calls)
  <1>1. Verifying' \subseteq Calls
    BY DEF Verifying
  <1> QED BY <1>1, LimitsAssumption, FS_Subset, FS_CardinalityType

\* A step that moves a login on leaves the others where they are.
LEMMA GotoVerifying ==
    ASSUME TypeOK, NEW c \in Calls, NEW s \in Step, Goto(c, s)
    PROVE  /\ call' \in [Calls -> Step]
           /\ Cardinality(Verifying') \in Nat
           /\ s # "verify" /\ call[c] = "verify" =>
                Cardinality(Verifying') = Cardinality(Verifying) - 1
           /\ s # "verify" /\ call[c] # "verify" =>
                Cardinality(Verifying') = Cardinality(Verifying)
           /\ Cardinality(Verifying') <= Cardinality(Verifying) + 1
  <1>1. call' \in [Calls -> Step] /\ call'[c] = s
    BY DEF TypeOK, Goto
  <1>2. \A d \in Calls : d # c => call'[d] = call[d]
    BY DEF TypeOK, Goto
  <1>3. ASSUME s # "verify" PROVE Verifying' = Verifying \ {c}
    BY <1>1, <1>2, <1>3 DEF Verifying
  <1>4. ASSUME s = "verify" PROVE Verifying' = Verifying \cup {c}
    BY <1>1, <1>2, <1>4 DEF Verifying
  <1>5. c \in Verifying <=> call[c] = "verify"
    BY DEF Verifying
  <1>6. CASE s # "verify"
    <2>1. Cardinality(Verifying \ {c}) = IF c \in Verifying THEN Cardinality(Verifying) - 1
                                                        ELSE Cardinality(Verifying)
      BY VerifyingFinite, FS_RemoveElement
    <2>2. Cardinality(Verifying') = Cardinality(Verifying \ {c})
      BY <1>3, <1>6
    <2> QED BY <1>1, <1>5, <1>6, <2>1, <2>2, VerifyingFinite, VerifyingFinitePrime
  <1>7. CASE s = "verify"
    <2>1. Cardinality(Verifying \cup {c}) = IF c \in Verifying THEN Cardinality(Verifying)
                                                          ELSE Cardinality(Verifying) + 1
      BY VerifyingFinite, FS_AddElement
    <2>2. Cardinality(Verifying') = Cardinality(Verifying \cup {c})
      BY <1>4, <1>7
    <2> QED BY <1>1, <1>7, <2>1, <2>2, VerifyingFinite, VerifyingFinitePrime
  <1> QED BY <1>6, <1>7

-----------------------------------------------------------------------------
LEMMA InitInv == Init => IInv
  <1> SUFFICES ASSUME Init PROVE IInv
    OBVIOUS
  <1>1. TypeOK
    <2>1. call \in [Calls -> Step]
      BY DEF Init, Step
    <2>2. attempts \in Nat /\ ttl \in 0..LockoutDuration /\ faults \in 0..MaxFaults
      BY LimitsAssumption DEF Init
    <2>3. stranded \in BOOLEAN
      BY DEF Init
    <2> QED BY <2>1, <2>2, <2>3 DEF TypeOK
  <1>2. Room
    BY LimitsAssumption, VerifyingFinite DEF Init, Room
  <1>3. CounterWillExpire
    BY DEF Init, CounterWillExpire
  <1> QED BY <1>1, <1>2, <1>3 DEF IInv

\* Every step keeps the types.
LEMMA TypeStep ==
    ASSUME TypeOK, [Next]_vars
    PROVE  TypeOK'
  <1> USE LimitsAssumption DEF TypeOK
  <1>1. ASSUME NEW c \in Calls, CheckAccountLockout(c)
        PROVE  TypeOK'
    BY <1>1 DEF CheckAccountLockout, Goto, Step, Fault
  <1>2. ASSUME NEW c \in Calls, RecordFailedLogin(c)
        PROVE  TypeOK'
    <2>1. call' \in [Calls -> Step]
      BY <1>2 DEF RecordFailedLogin, Goto, Step
    <2>2. attempts' \in Nat /\ ttl' \in 0..LockoutDuration /\ faults' \in 0..MaxFaults
      BY <1>2 DEF RecordFailedLogin, Fault
    <2>3. stranded' \in BOOLEAN
      BY <1>2, Zenon DEF RecordFailedLogin
    <2> QED BY <2>1, <2>2, <2>3
  <1>3. ASSUME NEW c \in Calls, SetExpiry(c)
        PROVE  TypeOK'
    <2>1. call' \in [Calls -> Step]
      BY <1>3 DEF SetExpiry, Goto, Step
    <2>2. attempts' \in Nat /\ ttl' \in 0..LockoutDuration /\ faults' \in 0..MaxFaults
      BY <1>3 DEF SetExpiry, Fault
    <2>3. stranded' \in BOOLEAN
      BY <1>3, Zenon DEF SetExpiry
    <2> QED BY <2>1, <2>2, <2>3
  <1>4. ASSUME NEW c \in Calls, ResetLoginAttempts(c)
        PROVE  TypeOK'
    <2>1. call' \in [Calls -> Step]
      BY <1>4 DEF ResetLoginAttempts, Goto, Step
    <2>2. attempts' \in Nat /\ ttl' \in 0..LockoutDuration /\ faults' \in 0..MaxFaults
      BY <1>4 DEF ResetLoginAttempts, Remove, Fault
    <2>3. stranded' \in BOOLEAN
      BY <1>4, Zenon DEF ResetLoginAttempts, Remove
    <2> QED BY <2>1, <2>2, <2>3
  <1>5. ASSUME NEW c \in Calls, Abort(c)
        PROVE  TypeOK'
    BY <1>5 DEF Abort, Goto, Step
  <1>6. CASE Flush
    <2>1. stranded' \in BOOLEAN
      BY <1>6, Zenon DEF Flush, Remove
    <2> QED BY <1>6, <2>1 DEF Flush, Remove
  <1>7. CASE Exit
    <2>1. call' \in [Calls -> Step]
      BY <1>7 DEF Exit, Step
    <2>2. attempts' \in Nat /\ ttl' \in 0..LockoutDuration /\ faults' \in 0..MaxFaults
      BY <1>7 DEF Exit, Fault
    <2>3. stranded' \in BOOLEAN
      BY <1>7, Zenon DEF Exit
    <2> QED BY <2>1, <2>2, <2>3
  <1>8. CASE Tick
    <2>1. stranded' \in BOOLEAN
      BY <1>8, Zenon DEF Tick, Remove
    <2>2. attempts' \in Nat /\ ttl' \in 0..LockoutDuration
      BY <1>8 DEF Tick, Remove
    <2> QED BY <1>8, <2>1, <2>2 DEF Tick
  <1>9. CASE UNCHANGED vars
    BY <1>9 DEF vars
  <1> QED BY <1>1, <1>2, <1>3, <1>4, <1>5, <1>6, <1>7, <1>8, <1>9 DEF Next

\* Every step keeps what logins in flight may add within the limit.
LEMMA RoomStep ==
    ASSUME TypeOK, Room, [Next]_vars
    PROVE  Room'
  <1> USE LimitsAssumption, VerifyingFinite DEF TypeOK, Room
  <1>1. ASSUME NEW c \in Calls, CheckAccountLockout(c)
        PROVE  Room'
    <2>1. Goto(c, "verify") /\ attempts' = attempts
      BY <1>1 DEF CheckAccountLockout
    <2>2. Cardinality(Verifying') <= Cardinality(Verifying) + 1
      BY <2>1, GotoVerifying DEF Step
    <2>3. CASE ~Locked /\ UNCHANGED faults
      BY <2>1, <2>3, VerifyingFinitePrime DEF Locked
    <2>4. CASE Fault
      BY <2>1, <2>2, <2>4, VerifyingFinitePrime DEF Fault
    <2> QED BY <1>1, <2>3, <2>4 DEF CheckAccountLockout
  <1>2. ASSUME NEW c \in Calls, RecordFailedLogin(c)
        PROVE  Room'
    <2>1. PICK s \in {"idle", "expire"} : Goto(c, s)
      BY <1>2 DEF RecordFailedLogin
    <2>2. Cardinality(Verifying') = Cardinality(Verifying) - 1
      BY <1>2, <2>1, GotoVerifying DEF Step, RecordFailedLogin
    <2>3. attempts' \in Nat /\ attempts' <= attempts + 1
      BY <1>2 DEF RecordFailedLogin
    <2>4. faults' \in Nat /\ faults' >= faults
      BY <1>2 DEF RecordFailedLogin, Fault
    <2> QED BY <2>2, <2>3, <2>4
  <1>3. ASSUME NEW c \in Calls, SetExpiry(c)
        PROVE  Room'
    <2>1. Cardinality(Verifying') = Cardinality(Verifying)
      BY <1>3, GotoVerifying DEF SetExpiry, Step
    <2>2. attempts' = attempts /\ faults' \in Nat /\ faults' >= faults
      BY <1>3 DEF SetExpiry, Fault
    <2> QED BY <2>1, <2>2
  <1>4. ASSUME NEW c \in Calls, ResetLoginAttempts(c)
        PROVE  Room'
    <2>1. Cardinality(Verifying') = Cardinality(Verifying) - 1
      BY <1>4, GotoVerifying DEF ResetLoginAttempts, Step
    <2>2. /\ attempts' \in Nat /\ attempts' <= attempts
          /\ faults' \in Nat /\ faults' >= faults
      BY <1>4 DEF ResetLoginAttempts, Remove, Fault
    <2> QED BY <2>1, <2>2
  <1>5. ASSUME NEW c \in Calls, Abort(c)
        PROVE  Room'
    <2>1. Cardinality(Verifying') = Cardinality(Verifying) - 1
      BY <1>5, GotoVerifying DEF Abort, Step
    <2>2. attempts' = attempts /\ faults' = faults
      BY <1>5 DEF Abort
    <2> QED BY <2>1, <2>2
  <1>6. CASE Flush
    <2>1. attempts' = 0 /\ faults' = faults
      BY <1>6 DEF Flush, Remove
    <2> QED BY <2>1, VerifyingFinitePrime
  <1>7. CASE Exit
    <2>1. Verifying' = {}
      BY <1>7 DEF Exit, Verifying
    <2>2. Cardinality(Verifying') = 0
      BY <2>1, FS_EmptySet
    <2>3. attempts' = attempts /\ faults' \in Nat /\ faults' >= faults
      BY <1>7 DEF Exit, Fault
    <2> QED BY <2>2, <2>3
  <1>8. CASE Tick
    <2>1. Verifying' = Verifying
      BY <1>8 DEF Tick, Verifying
    <2>2. attempts' \in Nat /\ attempts' <= attempts /\ faults' = faults
      BY <1>8 DEF Tick, Remove
    <2> QED BY <2>1, <2>2
  <1>9. CASE UNCHANGED vars
    <2>1. Verifying' = Verifying
      BY <1>9 DEF vars, Verifying
    <2> QED BY <1>9, <2>1 DEF vars
  <1> QED BY <1>1, <1>2, <1>3, <1>4, <1>5, <1>6, <1>7, <1>8, <1>9 DEF Next

\* Every step keeps counters expiring.
LEMMA ExpiryStep ==
    ASSUME TypeOK, CounterWillExpire, [Next]_vars
    PROVE  CounterWillExpire'
  <1> USE LimitsAssumption DEF TypeOK, CounterWillExpire
  <1>1. ASSUME NEW c \in Calls, CheckAccountLockout(c)
        PROVE  CounterWillExpire'
    BY <1>1 DEF CheckAccountLockout, Goto
  <1>2. ASSUME NEW c \in Calls, RecordFailedLogin(c)
        PROVE  CounterWillExpire'
    <2>1. call[c] = "verify" /\ ttl' = ttl
      BY <1>2 DEF RecordFailedLogin
    <2>2. \A d \in Calls : call[d] = "expire" => call'[d] = "expire"
      BY <1>2, <2>1 DEF RecordFailedLogin, Goto
    <2>3. CASE attempts = 0
      <3>1. attempts' = 1 => call'[c] = "expire" \/ stranded'
        BY <1>2, <2>3 DEF RecordFailedLogin, Goto
      <3>2. attempts' \in {0, 1}
        BY <1>2, <2>3 DEF RecordFailedLogin
      <3> QED BY <3>1, <3>2
    <2>4. CASE attempts > 0
      <3>1. stranded => stranded'
        BY <1>2 DEF RecordFailedLogin
      <3> QED BY <2>1, <2>2, <2>4, <3>1
    <2> QED BY <2>3, <2>4
  <1>3. ASSUME NEW c \in Calls, SetExpiry(c)
        PROVE  CounterWillExpire'
    BY <1>3 DEF SetExpiry, Goto
  <1>4. ASSUME NEW c \in Calls, ResetLoginAttempts(c)
        PROVE  CounterWillExpire'
    BY <1>4 DEF ResetLoginAttempts, Remove, Goto
  <1>5. ASSUME NEW c \in Calls, Abort(c)
        PROVE  CounterWillExpire'
    BY <1>5 DEF Abort, Goto
  <1>6. CASE Flush
    BY <1>6 DEF Flush, Remove
  <1>7. CASE Exit
    BY <1>7 DEF Exit
  <1>8. CASE Tick
    BY <1>8 DEF Tick, Remove
  <1>9. CASE UNCHANGED vars
    BY <1>9 DEF vars
  <1> QED BY <1>1, <1>2, <1>3, <1>4, <1>5, <1>6, <1>7, <1>8, <1>9 DEF Next

LEMMA StepInv == IInv /\ [Next]_vars => IInv'
  BY TypeStep, RoomStep, ExpiryStep DEF IInv

-----------------------------------------------------------------------------
\* The counter and the logins past their check stay within the limit, and every
\* counter will expire.
THEOREM Invariant == Spec => []IInv
  <1> QED BY InitInv, StepInv, PTL DEF Spec

\* The state keeps its types.
THEOREM TypeCorrect == Spec => []TypeOK
  <1>1. IInv => TypeOK
    BY DEF IInv
  <1> QED BY <1>1, Invariant, PTL

\* Concurrent logins get past the limit by no more than the calls in flight.
THEOREM LimitHolds == Spec => []AttemptsBound
  <1>1. IInv => AttemptsBound
    BY VerifyingFinite, LimitsAssumption DEF IInv, Room, TypeOK, AttemptsBound
  <1> QED BY <1>1, Invariant, PTL

\* Every counter has an expiry or gets one, but for a fault at its creation.
THEOREM CountersExpire == Spec => []CounterWillExpire
  <1>1. IInv => CounterWillExpire
    BY DEF IInv
  <1> QED BY <1>1, Invariant, PTL
=============================================================================
