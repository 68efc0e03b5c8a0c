----------------------------- MODULE Lifecycle -----------------------------
(***************************************************************************)
(* The life of the process: index.ts listens, initializes its services in  *)
(* the background, starts the periodic jobs, and on a signal stops the     *)
(* jobs, closes Redis and the pool, and exits.  A second listener for      *)
(* SIGTERM, in database.ts, ends the pool too, and runs first because it   *)
(* was registered first.                                                   *)
(*                                                                         *)
(* Initialization, jobs, requests and shutdowns interleave at every await. *)
(* The pool hands its clients to the statements that ask for one; those    *)
(* that find none free wait for one, for a limited time.  pool.end() lets  *)
(* the statements that have a client finish and refuses new ones, but the  *)
(* waiting ones get no client any more; a second end() is rejected.        *)
(* quit() is rejected when the client is closed or closing, and answered   *)
(* only over a working connection.                                         *)
(***************************************************************************)
EXTENDS Integers, FiniteSets

CONSTANTS
    Jobs,           \* the five periodic jobs
    Eager,          \* those that start() runs at once, all but maintenance
    Http,           \* what no signal stops: the requests, and the profile
                    \* update a minute after the start
    Startup,        \* the background initialization
    PoolSize,       \* POOL_MAX, the clients of the pool
    Shutdowns       \* runs of gracefulShutdown, one per signal

ASSUME OwnersAssumption ==
    /\ Http \notin Jobs /\ Startup \notin Jobs /\ Startup # Http
    /\ Eager \subseteq Jobs
    /\ IsFiniteSet(Jobs)
    /\ PoolSize \in Nat \ {0}

Workers == Jobs \cup {Http}

\* Who asks the pool for clients, one at a time.
Owners == Workers \cup {Startup}

VARIABLES
    exit,       \* "no" while the process runs, then how it ended
    init,       \* the await the background initialization is at
    timers,     \* the jobs whose interval is set
    work,       \* what each owner is doing: nothing, waiting for a client,
                \* having one, between two statements, the last one answered
                \* or refused
    redis,      \* the client: connecting, ready, closing or closed
    pool,       \* the pool: open, ending or ended
    shutdown,   \* the await each gracefulShutdown is at
    stranded,   \* history: whose statement was waiting when the pool was ended
    stopped,    \* history: a signal came
    overlap,    \* history: it came before the initialization was over
    terminated, \* history: a SIGTERM came
    fault       \* history: a close failed, hung, or was asked for twice

vars == <<exit, init, timers, work, redis, pool, shutdown, stranded,
          stopped, overlap, terminated, fault>>

history == <<stranded, stopped, overlap, terminated, fault>>

InitStep == {"redis", "database", "schema", "statements", "started", "failed"}

TypeOK ==
    /\ exit \in {"no", "ok", "error"}
    /\ init \in InitStep
    /\ timers \in SUBSET Jobs
    /\ work \in [Owners -> {"idle", "queued", "querying", "answered", "refused"}]
    /\ redis \in {"connecting", "ready", "closing", "closed"}
    /\ pool \in {"open", "ending", "ended"}
    /\ shutdown \in [Shutdowns -> {"none", "quitting", "ending"}]
    /\ stranded \in SUBSET Owners
    /\ stopped \in BOOLEAN /\ overlap \in BOOLEAN
    /\ terminated \in BOOLEAN /\ fault \in BOOLEAN

\* startServer up to the first await of the initialization.
Init ==
    /\ exit = "no"
    /\ init = "redis"
    /\ timers = {}
    /\ work = [w \in Owners |-> "idle"]
    /\ redis = "connecting"
    /\ pool = "open"
    /\ shutdown = [s \in Shutdowns |-> "none"]
    /\ stranded = {}
    /\ stopped = FALSE
    /\ overlap = FALSE
    /\ terminated = FALSE
    /\ fault = FALSE

Alive == exit = "no"

(***************************************************************************)
(* The pool.                                                               *)
(***************************************************************************)
Waiting == {w \in Owners : work[w] = "queued"}
Served == {w \in Owners : work[w] = "querying"}

\* What becomes of a statement: a pool that is not open refuses it.  Where a
\* client is free it is handed over by the next pulse of the queue.
Ask == IF pool = "open" THEN "queued" ELSE "refused"

\* Between two turns of the event loop nobody waits for a client that is free.
Settled ==
    pool = "open" => Waiting = {} \/ Cardinality(Served) >= PoolSize

Become(w, what) ==
    /\ work' = [work EXCEPT ![w] = what]
    /\ UNCHANGED <<exit, init, timers, redis, pool, shutdown, history>>

\* A waiting statement gets a client, in any order; a pool that is ending
\* gives none.
Dispatch(w) ==
    /\ Alive
    /\ pool = "open"
    /\ work[w] = "queued"
    /\ Cardinality(Served) < PoolSize
    /\ Become(w, "querying")

\* The statement succeeds or fails, and its client is released.
Answer(w) ==
    /\ Alive
    /\ work[w] = "querying"
    /\ Become(w, "answered")

\* connectionTimeoutMillis of a statement that waits for a client.
TimeOut(w) ==
    /\ Alive
    /\ work[w] = "queued"
    /\ Become(w, "refused")

\* end(): a pool that is open is ending from now on.
End ==
    /\ pool' = IF pool = "open" THEN "ending" ELSE pool
    /\ stranded' = IF pool = "open" THEN Waiting ELSE stranded

\* Mutant of EndPool: the connections are closed under the statements.
EndPoolAtOnce ==
    /\ Alive
    /\ pool = "ending"
    /\ pool' = "ended"
    /\ UNCHANGED <<exit, init, timers, work, redis, shutdown, history>>

\* The pool has closed its connections, when the last client is released;
\* the statements that wait for one do not count.
EndPool ==
    /\ Alive
    /\ pool = "ending"
    /\ Served = {}
    /\ pool' = "ended"
    /\ UNCHANGED <<exit, init, timers, work, redis, shutdown, history>>

(***************************************************************************)
(* The background initialization.                                          *)
(***************************************************************************)
\* The last statement of the initialization has been answered or refused.
Resumed == work[Startup] \in {"answered", "refused"}

\* The next await, with a statement for the pool.
Await(step) ==
    /\ init' = step
    /\ work' = [work EXCEPT ![Startup] = Ask]

\* The client connects, or loses its connection and connects again.
Connect ==
    /\ Alive
    /\ redis = "connecting"
    /\ redis' = "ready"
    /\ UNCHANGED <<exit, init, timers, work, pool, shutdown, history>>

Disconnect ==
    /\ Alive
    /\ redis = "ready"
    /\ redis' = "connecting"
    /\ UNCHANGED <<exit, init, timers, work, pool, shutdown, history>>

\* reconnectStrategy gives up after MAX_RETRIES: the client is closed.
GiveUp ==
    /\ Alive
    /\ redis = "connecting"
    /\ redis' = "closed"
    /\ UNCHANGED <<exit, init, timers, work, pool, shutdown, history>>

\* connectRedis returns whether or not it connected.
ConnectRedis ==
    /\ Alive
    /\ init = "redis"
    /\ redis # "connecting"
    /\ Await("database")
    /\ UNCHANGED <<exit, timers, redis, pool, shutdown, history>>

\* SELECT 1; when it fails the initialization ends, for good.
CheckDatabase ==
    /\ Alive
    /\ init = "database"
    /\ Resumed
    /\ \/ work[Startup] = "answered" /\ Await("schema")
       \/ init' = "failed" /\ work' = [work EXCEPT ![Startup] = "idle"]
    /\ UNCHANGED <<exit, timers, redis, pool, shutdown, history>>

\* One statement of the schema and the migrations after the other; their
\* errors are caught, and so are those of the extension that comes last.
InitializeDatabase ==
    /\ Alive
    /\ init = "schema"
    /\ Resumed
    /\ Await("schema") \/ Await("statements")
    /\ UNCHANGED <<exit, timers, redis, pool, shutdown, history>>

\* The rest, without an await: each job sets its interval, and most start a
\* first run, with its first statement.
StartJobs ==
    /\ Alive
    /\ init = "statements"
    /\ Resumed
    /\ init' = "started"
    /\ timers' = Jobs
    /\ work' = [w \in Owners |->
                    IF w = Startup THEN "idle"
                    ELSE IF w \in Eager /\ work[w] = "idle" THEN Ask
                    ELSE work[w]]
    /\ UNCHANGED <<exit, redis, pool, shutdown, history>>

(***************************************************************************)
(* Jobs and requests.                                                      *)
(***************************************************************************)
\* The interval of a job fires, or a request comes in: the HTTP server goes
\* on listening until the process ends.
Begin(w) ==
    /\ Alive
    /\ w \in timers \cup {Http}
    /\ work[w] = "idle"
    /\ Become(w, Ask)

\* The next statement of a run.
Query(w) ==
    /\ Alive
    /\ work[w] \in {"answered", "refused"}
    /\ Become(w, Ask)

Finish(w) ==
    /\ Alive
    /\ work[w] \in {"answered", "refused"}
    /\ Become(w, "idle")

(***************************************************************************)
(* Signals and the shutdown.                                               *)
(***************************************************************************)
\* A signal comes between two turns of the event loop.  gracefulShutdown up to
\* the answer of quit(): every stop() clears its intervals, and a client that
\* is closed or closing rejects at once.
BeginShutdown(s) ==
    /\ Alive
    /\ Settled
    /\ shutdown[s] = "none"
    /\ timers' = {}
    /\ stopped' = TRUE
    /\ overlap' = (overlap \/ init \notin {"started", "failed"})
    /\ \/ /\ redis \in {"connecting", "ready"}
          /\ redis' = "closing"
          /\ shutdown' = [shutdown EXCEPT ![s] = "quitting"]
          /\ UNCHANGED <<exit, fault>>
       \/ /\ redis \in {"closing", "closed"}
          /\ exit' = "error"
          /\ fault' = TRUE
          /\ UNCHANGED <<redis, shutdown>>
    /\ UNCHANGED <<init, work>>

\* SIGTERM: the listener of database.ts, whose own end() may be rejected as
\* an unhandled rejection that is only logged, and then gracefulShutdown.
Terminate(s) ==
    /\ BeginShutdown(s)
    /\ End
    /\ terminated' = TRUE

\* Mutant of Interrupt: one job is forgotten.
InterruptSparingOne(s) ==
    /\ Alive
    /\ shutdown[s] = "none"
    /\ \E j \in Jobs : timers' = timers \cap {j}
    /\ stopped' = TRUE
    /\ overlap' = (overlap \/ init \notin {"started", "failed"})
    /\ redis \in {"connecting", "ready"}
    /\ redis' = "closing"
    /\ shutdown' = [shutdown EXCEPT ![s] = "quitting"]
    /\ UNCHANGED <<exit, init, work, pool, stranded, terminated, fault>>

\* Mutant of Interrupt: the listener of database.ts is there for SIGINT too.
InterruptEndingPool(s) ==
    /\ BeginShutdown(s)
    /\ End
    /\ UNCHANGED terminated

\* SIGINT, or an uncaught exception.
Interrupt(s) ==
    /\ BeginShutdown(s)
    /\ UNCHANGED <<pool, stranded, terminated>>

\* Mutant of Quit: the timer is cleared before the pool is ended.
QuitUnarmed(s) ==
    /\ Alive
    /\ shutdown[s] = "quitting"
    /\ redis' = "closed"
    /\ End
    /\ shutdown' = [shutdown EXCEPT ![s] = "none"]
    /\ UNCHANGED <<exit, init, timers, work, stopped, overlap, terminated, fault>>

\* quit() is answered; pool.end() is the next await, unless it is rejected
\* because somebody called it before.  It follows in the turn of the event
\* loop in which the answer came, so statements asked in that turn may still
\* wait for a client that is free.
Quit(s) ==
    /\ Alive
    /\ shutdown[s] = "quitting"
    /\ redis' = "closed"
    /\ End
    /\ \/ /\ pool = "open"
          /\ shutdown' = [shutdown EXCEPT ![s] = "ending"]
          /\ UNCHANGED exit
       \/ /\ pool # "open"
          /\ exit' = "error"
          /\ UNCHANGED shutdown
    /\ UNCHANGED <<init, timers, work, stopped, overlap, terminated, fault>>

\* The connection is lost for good while QUIT waits for its answer.
QuitFails(s) ==
    /\ Alive
    /\ shutdown[s] = "quitting"
    /\ exit' = "error"
    /\ fault' = TRUE
    /\ UNCHANGED <<init, timers, work, redis, pool, shutdown, stranded,
                   stopped, overlap, terminated>>

\* end() resolves and the process exits with 0.
Complete(s) ==
    /\ Alive
    /\ shutdown[s] = "ending"
    /\ pool = "ended"
    /\ exit' = "ok"
    /\ UNCHANGED <<init, timers, work, redis, pool, shutdown, history>>

\* SHUTDOWN_TIMEOUT: the timer of a shutdown that is still waiting.
ForceExit(s) ==
    /\ Alive
    /\ shutdown[s] # "none"
    /\ exit' = "error"
    /\ fault' = TRUE
    /\ UNCHANGED <<init, timers, work, redis, pool, shutdown, stranded,
                   stopped, overlap, terminated>>

\* The port is taken, or the server fails later.
ServerError ==
    /\ Alive
    /\ exit' = "error"
    /\ fault' = TRUE
    /\ UNCHANGED <<init, timers, work, redis, pool, shutdown, stranded,
                   stopped, overlap, terminated>>

Next ==
    \/ Connect \/ Disconnect \/ GiveUp
    \/ ConnectRedis \/ CheckDatabase \/ InitializeDatabase \/ StartJobs
    \/ \E w \in Workers : Begin(w) \/ Query(w) \/ Finish(w)
    \/ \E w \in Owners : Dispatch(w) \/ Answer(w) \/ TimeOut(w)
    \/ \E s \in Shutdowns : \/ Terminate(s) \/ Interrupt(s) \/ Quit(s)
                            \/ QuitFails(s) \/ Complete(s) \/ ForceExit(s)
    \/ EndPool \/ ServerError

\* A timer that is not cleared fires.  Nothing is assumed of Redis, of the
\* database or of the initialization.
Fairness == \A s \in Shutdowns : WF_vars(ForceExit(s))

Spec == Init /\ [][Next]_vars /\ Fairness

(***************************************************************************)
(* Properties.                                                             *)
(***************************************************************************)
\* A signal ends the process, whatever hangs (index.ts:510-519).
ShutdownEnds == stopped ~> ~Alive

\* When the process exits with 0, Redis and the pool are closed, and whoever
\* had a client got its answer, be it the initialization or a request; what is
\* left without an answer was waiting for a client when the pool was ended
\* already (index.ts:529-539, pg-pool index.js:119-135, 182-186).
CleanExit ==
    exit = "ok" => /\ redis = "closed" /\ pool = "ended"
                   /\ Served = {}
                   /\ Waiting \subseteq stranded

\* What a "graceful" end suggests and does not hold: that nothing is left
\* without an answer.
NothingStranded == exit = "ok" => Waiting = {}

\* After a signal no job is scheduled, however many signals follow, unless the
\* first one met the initialization before it had started the jobs: that is not
\* called off and starts them after they were stopped (index.ts:412-453, 522-527).
JobsStayStopped == stopped /\ ~overlap => timers = {}

\* Without SIGTERM, a shutdown in which nothing fails and nothing is closed
\* twice does not report a failure (index.ts:513-545).
InterruptIsClean == exit = "error" => fault \/ terminated

\* "Graceful shutdown completed" (index.ts:538), "Graceful shutdown"
\* (database.ts:83): a shutdown in which nothing fails exits with 0.
ShutdownIsClean == exit = "error" => fault
=============================================================================
