--------------------------- MODULE LifecycleProofs ---------------------------
(***************************************************************************)
(* Proofs about Lifecycle, for any jobs and any number of signals.         *)
(***************************************************************************)
EXTENDS Lifecycle, TLAPS

\* A shutdown that goes on has taken the Redis client, so there is one only;
\* one that ends the pool has closed it.
Closing ==
    /\ \A s \in Shutdowns : shutdown[s] # "none" => redis \in {"closing", "closed"}
    /\ \A s \in Shutdowns : shutdown[s] = "ending" => redis = "closed"

OneShutdown ==
    \A s, t \in Shutdowns : shutdown[s] # "none" /\ shutdown[t] # "none" => s = t

\* Only SIGTERM or a shutdown after its quit() ends the pool.
WhoEnds ==
    pool = "open" \/ terminated \/ \E s \in Shutdowns : shutdown[s] = "ending"

\* The pool closes its connections when every client is back.
Drained ==
    pool = "ended" => \A w \in Owners : work[w] # "querying"

\* Nobody begins to wait for a client once the pool is ending.
NoNewWaiters ==
    pool # "open" => \A w \in Owners : work[w] = "queued" => w \in stranded

\* The initialization was over when the first signal came.
Initialized ==
    stopped /\ ~overlap => timers = {} /\ init \in {"started", "failed"}

IInv == /\ TypeOK /\ Closing /\ OneShutdown /\ WhoEnds /\ Drained
        /\ NoNewWaiters /\ Initialized /\ CleanExit /\ InterruptIsClean

-----------------------------------------------------------------------------
LEMMA InitInv == Init => IInv
  <1> SUFFICES ASSUME Init PROVE IInv
    OBVIOUS
  <1>1. TypeOK
    BY DEF Init, TypeOK, InitStep
  <1>2. Closing /\ OneShutdown /\ WhoEnds /\ Drained
    BY DEF Init, Closing, OneShutdown, WhoEnds, Drained
  <1>3. NoNewWaiters /\ Initialized /\ CleanExit /\ InterruptIsClean
    BY DEF Init, NoNewWaiters, Initialized, CleanExit, InterruptIsClean
  <1> QED BY <1>1, <1>2, <1>3 DEF IInv

\* What every signal does.
LEMMA BeginShutdownStep ==
    ASSUME IInv, NEW s \in Shutdowns, BeginShutdown(s),
           UNCHANGED <<pool, stranded>> \/ (End /\ terminated'),
           terminated' \in BOOLEAN, terminated => terminated'
    PROVE  IInv'
  <1> USE DEF IInv, BeginShutdown, Alive, End
  <1>1. TypeOK'
    <2>1. shutdown' \in [Shutdowns -> {"none", "quitting", "ending"}]
      BY DEF TypeOK
    <2>2. stopped' \in BOOLEAN /\ overlap' \in BOOLEAN /\ fault' \in BOOLEAN
      BY DEF TypeOK
    <2>3. stranded' \in SUBSET Owners
      BY DEF TypeOK, Waiting
    <2> QED BY <2>1, <2>2, <2>3 DEF TypeOK
  <1>2. Closing'
    BY DEF Closing, TypeOK
  <1>3. OneShutdown'
    BY DEF OneShutdown, Closing, TypeOK
  <1>4. WhoEnds'
    BY DEF WhoEnds, TypeOK
  <1>5. Drained' /\ NoNewWaiters'
    BY DEF Drained, NoNewWaiters, Waiting, TypeOK
  <1>6. Initialized'
    BY DEF Initialized, TypeOK
  <1>7. CleanExit'
    BY DEF CleanExit, TypeOK
  <1>8. InterruptIsClean'
    BY DEF InterruptIsClean, TypeOK
  <1> QED BY <1>1, <1>2, <1>3, <1>4, <1>5, <1>6, <1>7, <1>8

\* The Redis client connects, loses its connection or gives up.
LEMMA ClientStep ==
    ASSUME IInv, Connect \/ Disconnect \/ GiveUp
    PROVE  IInv'
  <1> USE DEF IInv, Alive, Connect, Disconnect, GiveUp, history
  <1>1. TypeOK'
    BY DEF TypeOK, InitStep
  <1>2. Closing' /\ OneShutdown' /\ WhoEnds'
    BY DEF Closing, OneShutdown, WhoEnds, TypeOK
  <1>3. Drained' /\ NoNewWaiters'
    BY OwnersAssumption DEF Drained, NoNewWaiters, Waiting, Ask, Workers, Owners, TypeOK
  <1>4. Initialized'
    BY DEF Initialized, TypeOK
  <1>5. CleanExit' /\ InterruptIsClean'
    BY DEF CleanExit, InterruptIsClean, TypeOK
  <1> QED BY <1>1, <1>2, <1>3, <1>4, <1>5

\* An await of the initialization ends, before the jobs are started.
LEMMA InitializationStep ==
    ASSUME IInv, ConnectRedis \/ CheckDatabase \/ InitializeDatabase
    PROVE  IInv'
  <1> USE DEF IInv, Alive, ConnectRedis, CheckDatabase, InitializeDatabase, Await, Resumed, history
  <1>1. TypeOK'
    BY DEF TypeOK, InitStep, Ask, Owners, Workers
  <1>2. Closing' /\ OneShutdown' /\ WhoEnds'
    BY DEF Closing, OneShutdown, WhoEnds, TypeOK
  <1>3. Drained' /\ NoNewWaiters'
    BY OwnersAssumption DEF Drained, NoNewWaiters, Waiting, Ask, Workers, Owners, TypeOK
  <1>4. Initialized'
    BY DEF Initialized, TypeOK
  <1>5. CleanExit' /\ InterruptIsClean'
    BY DEF CleanExit, InterruptIsClean, TypeOK
  <1> QED BY <1>1, <1>2, <1>3, <1>4, <1>5

\* The jobs are started, which a signal has overlapped if one came before.
LEMMA StartJobsStep ==
    ASSUME IInv, StartJobs
    PROVE  IInv'
  <1> USE DEF IInv, Alive, StartJobs, history
  <1>1. TypeOK'
    BY DEF TypeOK, InitStep, Ask, Owners, Workers
  <1>2. Closing' /\ OneShutdown' /\ WhoEnds'
    BY DEF Closing, OneShutdown, WhoEnds, TypeOK
  <1>3. Drained' /\ NoNewWaiters'
    BY OwnersAssumption DEF Drained, NoNewWaiters, Waiting, Ask, Workers, Owners, TypeOK
  <1>4. Initialized'
    BY DEF Initialized, TypeOK
  <1>5. CleanExit' /\ InterruptIsClean'
    BY DEF CleanExit, InterruptIsClean, TypeOK
  <1> QED BY <1>1, <1>2, <1>3, <1>4, <1>5

\* A job, a request or the initialization gets a client, an answer or a refusal.
LEMMA WorkStep ==
    ASSUME IInv, NEW w \in Owners,
           Begin(w) \/ Query(w) \/ Finish(w) \/ Dispatch(w) \/ Answer(w) \/ TimeOut(w)
    PROVE  IInv'
  <1> USE DEF IInv, Alive, Begin, Query, Finish, Dispatch, Answer, TimeOut, Become, history
  <1>1. TypeOK'
    BY DEF TypeOK, InitStep, Ask, Owners, Workers
  <1>2. Closing' /\ OneShutdown' /\ WhoEnds'
    BY DEF Closing, OneShutdown, WhoEnds, TypeOK
  <1>3. Drained' /\ NoNewWaiters'
    BY OwnersAssumption DEF Drained, NoNewWaiters, Waiting, Ask, Workers, Owners, TypeOK
  <1>4. Initialized'
    BY DEF Initialized, TypeOK
  <1>5. CleanExit' /\ InterruptIsClean'
    BY DEF CleanExit, InterruptIsClean, TypeOK
  <1> QED BY <1>1, <1>2, <1>3, <1>4, <1>5

\* The answer of quit(): since there is one shutdown only, and it has not ended
\* the pool yet, a pool that is not open any more was ended by SIGTERM.
LEMMA QuitStep ==
    ASSUME IInv, NEW s \in Shutdowns, Quit(s)
    PROVE  IInv'
  <1> USE DEF IInv, Alive, Quit, End, Waiting, history
  <1>1. TypeOK'
    BY DEF TypeOK, InitStep
  <1>2. Closing' /\ OneShutdown' /\ WhoEnds'
    BY DEF Closing, OneShutdown, WhoEnds, TypeOK
  <1>3. Drained' /\ NoNewWaiters'
    BY OwnersAssumption DEF Drained, NoNewWaiters, Waiting, Ask, Workers, Owners, TypeOK
  <1>4. Initialized'
    BY DEF Initialized, TypeOK
  <1>5. CleanExit'
    BY DEF CleanExit, TypeOK
  <1>6. pool # "open" => terminated
    BY DEF WhoEnds, OneShutdown, TypeOK
  <1>7. InterruptIsClean'
    BY <1>6 DEF InterruptIsClean, TypeOK
  <1> QED BY <1>1, <1>2, <1>3, <1>4, <1>5, <1>7

\* The pool has answered everything and closes its connections.
LEMMA EndPoolStep ==
    ASSUME IInv, EndPool
    PROVE  IInv'
  <1> USE DEF IInv, Alive, EndPool, history
  <1>1. TypeOK'
    BY DEF TypeOK, InitStep
  <1>2. Closing' /\ OneShutdown' /\ WhoEnds'
    BY DEF Closing, OneShutdown, WhoEnds, TypeOK
  <1>3. Drained' /\ NoNewWaiters'
    BY DEF Drained, NoNewWaiters, Served, TypeOK
  <1>4. Initialized'
    BY DEF Initialized, TypeOK
  <1>5. CleanExit' /\ InterruptIsClean'
    BY DEF CleanExit, InterruptIsClean, TypeOK
  <1> QED BY <1>1, <1>2, <1>3, <1>4, <1>5

\* The process exits with 0: Redis is closed, the pool drained.
LEMMA CompleteStep ==
    ASSUME IInv, NEW s \in Shutdowns, Complete(s)
    PROVE  IInv'
  <1> USE DEF IInv, Complete, Alive, history
  <1>1. TypeOK'
    BY DEF TypeOK
  <1>2. Closing' /\ OneShutdown' /\ WhoEnds'
    BY DEF Closing, OneShutdown, WhoEnds
  <1>3. Drained' /\ NoNewWaiters' /\ Initialized'
    BY DEF Drained, NoNewWaiters, Initialized
  <1>4. CleanExit'
    BY DEF CleanExit, Closing, Drained, NoNewWaiters, Served, Waiting
  <1>5. InterruptIsClean'
    BY DEF InterruptIsClean
  <1> QED BY <1>1, <1>2, <1>3, <1>4, <1>5

\* The process ends by a fault.
LEMMA FaultStep ==
    ASSUME IInv, exit' = "error", fault' = TRUE,
           UNCHANGED <<init, timers, work, redis, pool, shutdown, stranded,
                       stopped, overlap, terminated>>
    PROVE  IInv'
  <1> USE DEF IInv
  <1>1. TypeOK'
    BY DEF TypeOK
  <1>2. Closing' /\ OneShutdown' /\ WhoEnds'
    BY DEF Closing, OneShutdown, WhoEnds
  <1>3. Drained' /\ NoNewWaiters' /\ Initialized'
    BY DEF Drained, NoNewWaiters, Initialized
  <1>4. CleanExit' /\ InterruptIsClean'
    BY DEF CleanExit, InterruptIsClean
  <1> QED BY <1>1, <1>2, <1>3, <1>4

-----------------------------------------------------------------------------
LEMMA NextInv ==
    ASSUME IInv, [Next]_vars
    PROVE  IInv'
  <1>1. CASE Connect \/ Disconnect \/ GiveUp
    BY <1>1, ClientStep
  <1>2. CASE ConnectRedis \/ CheckDatabase \/ InitializeDatabase
    BY <1>2, InitializationStep
  <1>3. CASE StartJobs
    BY <1>3, StartJobsStep
  <1>4. ASSUME NEW w \in Workers, Begin(w) \/ Query(w) \/ Finish(w)
        PROVE  IInv'
    BY <1>4, WorkStep DEF Owners
  <1>5. ASSUME NEW s \in Shutdowns, Terminate(s)
        PROVE  IInv'
    <2>1. BeginShutdown(s) /\ terminated' = TRUE
      BY <1>5 DEF Terminate
    <2>2. End /\ terminated'
      BY <1>5 DEF Terminate
    <2> QED BY <2>1, <2>2, BeginShutdownStep
  <1>6. ASSUME NEW s \in Shutdowns, Interrupt(s)
        PROVE  IInv'
    <2>1. BeginShutdown(s) /\ UNCHANGED <<pool, stranded, terminated>>
      BY <1>6 DEF Interrupt
    <2>2. terminated' \in BOOLEAN
      BY <2>1 DEF IInv, TypeOK
    <2> QED BY <2>1, <2>2, BeginShutdownStep
  <1>7. ASSUME NEW s \in Shutdowns, Quit(s)
        PROVE  IInv'
    BY <1>7, QuitStep
  <1>8. CASE EndPool
    BY <1>8, EndPoolStep
  <1>9. ASSUME NEW s \in Shutdowns, Complete(s)
        PROVE  IInv'
    BY <1>9, CompleteStep
  <1>10. CASE ServerError
    BY <1>10, FaultStep DEF ServerError
  <1>11. ASSUME NEW s \in Shutdowns, QuitFails(s) \/ ForceExit(s)
         PROVE  IInv'
    BY <1>11, FaultStep DEF QuitFails, ForceExit
  <1>12. CASE UNCHANGED vars
    BY <1>12 DEF vars, IInv, TypeOK, Closing, OneShutdown, WhoEnds, Drained, NoNewWaiters,
                 Initialized, CleanExit, Served, Waiting, InterruptIsClean
  <1>13. ASSUME NEW w \in Owners, Dispatch(w) \/ Answer(w) \/ TimeOut(w)
         PROVE  IInv'
    BY <1>13, WorkStep
  <1> QED BY <1>1, <1>2, <1>3, <1>4, <1>5, <1>6, <1>7, <1>8, <1>9, <1>10, <1>11,
          <1>12, <1>13 DEF Next

\* The invariant holds in every state.
LEMMA Invariance == Spec => []IInv
  <1>1. Init => IInv
    BY InitInv
  <1>2. IInv /\ [Next]_vars => IInv'
    BY NextInv
  <1> QED BY <1>1, <1>2, PTL DEF Spec

-----------------------------------------------------------------------------
\* Every variable keeps its type, with any jobs and any number of signals.
THEOREM TypeCorrect == Spec => []TypeOK
  <1>1. IInv => TypeOK
    BY DEF IInv
  <1> QED BY <1>1, Invariance, PTL

\* A process that exits with 0 has closed Redis and the pool, and left only
\* those statements without an answer that were waiting for a client when the
\* pool was ended (index.ts:529-539, pg-pool index.js:119-135, 182-186).
THEOREM ExitIsClean == Spec => []CleanExit
  <1>1. IInv => CleanExit
    BY DEF IInv
  <1> QED BY <1>1, Invariance, PTL

\* A signal after the initialization stops the jobs for good
\* (index.ts:412-453, 522-527).
THEOREM StoppedJobsStay == Spec => []JobsStayStopped
  <1>1. IInv => JobsStayStopped
    BY DEF IInv, Initialized, JobsStayStopped
  <1> QED BY <1>1, Invariance, PTL

\* Without SIGTERM only a fault makes a shutdown fail (index.ts:513-545).
THEOREM InterruptsSucceed == Spec => []InterruptIsClean
  <1>1. IInv => InterruptIsClean
    BY DEF IInv
  <1> QED BY <1>1, Invariance, PTL
=============================================================================
