------------------------ MODULE CircuitBreakerProofs ------------------------
(***************************************************************************)
(* Proofs about CircuitBreaker, for any number of calls and any thresholds *)
(* and timeouts.  The only assumptions are those of the module: thresholds *)
(* and timeout are positive and failureCount is counted far enough.        *)
(***************************************************************************)
EXTENDS CircuitBreaker, TLAPS

-----------------------------------------------------------------------------
(* The inductive invariant.                                                 *)

\* What is left of the waiting time and what has passed since the circuit
\* opened never add up to less than the timeout.  Without it nothing ties the
\* admission of a probe (wait = 0) to the moment the circuit opened.
CoolDown == state = "OPEN" => wait + age >= Timeout

IInv == TypeOK /\ CountersFitState /\ CoolDown

LEMMA InitInv == Init => IInv
  BY ThresholdsAssumption, TimesAssumption
  DEF Init, IInv, TypeOK, CountersFitState, CoolDown

LEMMA BumpType ==
    ASSUME NEW n \in 0..MaxFailures
    PROVE  Bump(n) \in 0..MaxFailures
  BY ThresholdsAssumption DEF Bump

LEMMA ExecuteInv ==
    ASSUME IInv, NEW c \in Calls, Execute(c)
    PROVE  IInv'
  <1> USE DEF IInv, TypeOK, CountersFitState, CoolDown, breakerVars, serviceVars
  <1>1. CASE Reject(c)
    BY <1>1 DEF Reject, vars
  <1>2. CASE Admit(c)
    BY <1>2 DEF Admit, Launch
  <1>3. CASE AdmitProbe(c)
    BY <1>3 DEF AdmitProbe, Launch
  <1> QED BY <1>1, <1>2, <1>3 DEF Execute

\* A result: a success moves a test phase on or ends it, a failure opens the
\* circuit anew or stays below the threshold.
LEMMA SettleInv ==
    ASSUME IInv, NEW c \in Calls, Settle(c)
    PROVE  IInv'
  <1> USE ThresholdsAssumption, TimesAssumption
      DEF IInv, TypeOK, CountersFitState, CoolDown
  <1>1. CASE Succeed(c)
    BY <1>1 DEF Succeed, Land, OnSuccess
  <1>2. CASE Fail(c)
    <2>1. Bump(failureCount) \in 0..MaxFailures
      BY BumpType
    <2>2. /\ flight' \subseteq Calls /\ exposed' \subseteq flight'
          /\ healthy' \in BOOLEAN /\ epoch' \in {0, 1}
      BY <1>2 DEF Fail, Land
    <2>3. CASE state = "HALF_OPEN"
      BY <1>2, <2>1, <2>2, <2>3 DEF Fail, OnFailure, Open
    <2>4. CASE state # "HALF_OPEN" /\ Bump(failureCount) >= FailureThreshold
      BY <1>2, <2>1, <2>2, <2>4 DEF Fail, OnFailure, Open
    <2>5. CASE state # "HALF_OPEN" /\ Bump(failureCount) < FailureThreshold
      BY <1>2, <2>1, <2>2, <2>5 DEF Fail, OnFailure
    <2> QED BY <2>1, <2>3, <2>4, <2>5
  <1> QED BY <1>1, <1>2 DEF Settle

LEMMA StepInv == IInv /\ [Next]_vars => IInv'
  <1> SUFFICES ASSUME IInv, [Next]_vars PROVE IInv'
    OBVIOUS
  <1>1. ASSUME NEW c \in Calls, Execute(c) PROVE IInv'
    BY <1>1, ExecuteInv
  <1>2. ASSUME NEW c \in Calls, Settle(c) PROVE IInv'
    BY <1>2, SettleInv
  <1> USE ThresholdsAssumption, TimesAssumption
      DEF IInv, TypeOK, CountersFitState, CoolDown, breakerVars, serviceVars
  <1>3. CASE Reset
    BY <1>3 DEF Reset
  <1>4. CASE ServiceChanges
    BY <1>4 DEF ServiceChanges
  <1>5. CASE Tick
    BY <1>5 DEF Tick
  <1>6. CASE UNCHANGED vars
    BY <1>6 DEF vars
  <1> QED BY <1>1, <1>2, <1>3, <1>4, <1>5, <1>6 DEF Next

THEOREM Invariant == Spec => []IInv
  <1> QED BY InitInv, StepInv, PTL DEF Spec

\* The type of the breaker: in particular successCount stays below its
\* threshold in every state.
THEOREM TypeCorrect == Spec => []TypeOK
  <1>1. IInv => TypeOK
    BY DEF IInv
  <1> QED BY <1>1, Invariant, PTL

\* Late results never leave a count behind that does not belong to the state.
THEOREM CountersAlwaysFit == Spec => []CountersFitState
  <1>1. IInv => CountersFitState
    BY DEF IInv
  <1> QED BY <1>1, Invariant, PTL

-----------------------------------------------------------------------------
(* The contract.                                                            *)

LEMMA InitRefines == Init => Contract!Init
  BY DEF Init, Contract!Init

LEMMA StepRefines == IInv /\ [Next]_vars => [Contract!Next]_(Contract!vars)
  <1> SUFFICES ASSUME IInv, [Next]_vars
               PROVE  [Contract!Next]_(Contract!vars)
    OBVIOUS
  <1> USE DEF Contract!Next, Contract!vars, Contract!Open, Contract!Test,
              Contract!Recover, Contract!Reset, Contract!Age, breakerVars,
              serviceVars
  <1>1. ASSUME NEW c \in Calls, Execute(c)
        PROVE  [Contract!Next]_(Contract!vars)
    <2>1. CASE Reject(c) \/ Admit(c)
      BY <2>1 DEF Reject, Admit, vars
    <2>2. CASE AdmitProbe(c)
      <3>1. age >= Timeout
        BY <2>2, TimesAssumption DEF AdmitProbe, IInv, CoolDown, TypeOK
      <3> QED BY <2>2, <3>1 DEF AdmitProbe
    <2> QED BY <1>1, <2>1, <2>2 DEF Execute
  <1>2. ASSUME NEW c \in Calls, Settle(c)
        PROVE  [Contract!Next]_(Contract!vars)
    <2>1. CASE Succeed(c)
      BY <2>1 DEF Succeed, Land, OnSuccess
    <2>2. CASE Fail(c)
      BY <2>2 DEF Fail, OnFailure, Open
    <2> QED BY <1>2, <2>1, <2>2 DEF Settle
  <1>3. CASE Reset
    BY <1>3 DEF Reset
  <1>4. CASE ServiceChanges
    BY <1>4 DEF ServiceChanges
  <1>5. CASE Tick
    BY <1>5 DEF Tick, IInv, TypeOK
  <1>6. CASE UNCHANGED vars
    BY <1>6 DEF vars
  <1> QED BY <1>1, <1>2, <1>3, <1>4, <1>5, <1>6 DEF Next

\* The breaker implements its contract: an open circuit lasts at least the
\* timeout, and but for a reset it closes through a test phase only.
THEOREM Refinement == Spec => ImplementsContract
  <1> QED
    BY InitRefines, StepRefines, Invariant, PTL
    DEF Spec, ImplementsContract, Contract!Spec
=============================================================================
