# SmartPrice backend: a TLA+ model

SmartPrice (`src/src`, TypeScript on Node.js, Express, Apollo, PostgreSQL, Redis,
Bull) is a price-comparison service: it searches marketplaces, keeps favorites and
price alerts of its users, scans the alerts in the background and mails the users,
and wraps all that in accounts, tokens, rate limits, caches and monitoring.

The process is a single Node.js event loop. Code between two `await`s is atomic;
at every `await` any other request, timer or job may run. PostgreSQL executes one
statement at a time on a row and the code opens no transactions, Redis executes one
command at a time. So the grain of every model here is: **one action per stretch of
code between two awaits that touch shared state**, and the interesting questions are
what happens when two such sequences interleave, when one stops half-way, and when
the process ends in the middle.

## 1. Inventory

| Component | Source | State | Operations | What is hard | What makes it correct |
|---|---|---|---|---|---|
| Price alerts, price check job | `services/priceTracking`, `services/jobs/priceCheckJob.ts`, `graphql/resolvers.ts`, `api/routes/priceTracking.ts` | table `price_tracking`; `isRunning`, `intervalId` | create (REST, GraphQL), deactivate, delete, scan | the scan works on a snapshot; mail first, mark later; two inserts race | one scan at a time; no mail after the mark; a mark only after a mail; bounded duplicates; the job never wedges |
| Circuit breaker | `utils/circuitBreaker.ts` | state, two counters, two times | execute, reset | results arrive in another state than the one that admitted the call | a three-state contract; left when open; recovery |
| Accounts and refresh tokens | `services/auth/authService.ts`, `refreshTokenService.ts`, `api/routes/auth.ts` | `users.password_hash`, `refresh_tokens` | register, login, refresh, logout, logout everywhere, change password, clean-up | no transactions: check, revoke and issue are separate statements | revocation sticks; a token is exchanged a bounded number of times; a login is not lost |
| Login lockout | `authService.ts` 77-105, 215-290 | Redis key `login_attempts:<email>` and its expiry | check, count, expire, reset, flush | INCR and EXPIRE are two commands; check and count are far apart | the limit holds up to the calls in flight; lockouts end |
| E-mail verification | `services/email/emailVerificationService.ts`, `api/routes/emailVerification.ts` | Redis keys for code, attempts and limits; a table | send, verify | read-modify-write of the attempts counter; registration and routes name the keys differently | bounded wrong codes; the refusal ends; a mailed code is accepted |
| API keys | `services/auth/apiKeyService.ts` | `api_keys`, a Redis counter | create, validate, revoke, rate limit | GET then SETEX or INCR | not used by any route, see section 5 |
| Two-factor authentication | `services/security/twoFactorAuthService.ts` | `user_2fa_settings` | set up, enable, disable, verify, backup codes | the list of codes is read and written back | a list of n codes is good for a bounded number of uses; a new list replaces the old one |
| Two-level cache | `services/cache/advancedCacheService.ts`, `utils/redisHelpers.ts` | node-cache in memory, Redis | get, set, delete, deletePattern, getOrSet, flush | a get fills the memory level after an await | staleness is bounded by the lifetimes; a replaced entry comes back for a short time only |
| Search, marketplaces | `services/search/searchService.ts`, `services/marketplaces` | the cache | search: fan-out with timeout, filter, score, sort, paginate | the cache key omits parameters that matter | pages partition the result; the answer fits the request |
| Startup and shutdown | `index.ts`, `config/database.ts` | jobs, Redis client, pool | start, background initialization, signals | initialization and shutdown overlap; two handlers close the pool, whose queue is not served any more once it is ending | a shutdown ends in time, with the right exit code, and cuts off nobody who has a client |
| Owner mode | `services/owner/ownerModeService.ts`, `middleware/auth.ts` | Redis keys `owner_session:*` | activate, validate, extend, deactivate | extend reads and writes back; a deactivation answers success whatever fails | a deactivated session stays off |
| Backup | `services/backup/backupService.ts`, `api/routes/owner.ts` | table `backups`, archives on disk | full and instant backup, list, delete, retention | archive and row are written and deleted apart; the dump reads table by table | a listed backup has its archive; the newest are kept; a dump is closed under references |
| Price history | `services/priceHistory`, `services/jobs/priceHistoryJob.ts` | table `price_history` | record, collect daily, post, clean up | three writers that do not know of each other | the newest entry comes to be the price; an old price is recorded at most once |
| Favorites | `services/favorites`, `utils/pagination.ts` | table `favorites` | add, remove, list by pages | pages are cut out of a list that changes | a reader misses no more rows than changed |
| Clean-up and maintenance jobs | `services/jobs/*.ts` | timers; rows of many tables | periodic deletes | run while requests run | they delete nothing that is in use |
| Intrusion prevention, DDoS, WAF | `services/security`, `middleware` | Redis keys `blocked_ip:*`, `challenge:*`, counters; tables of attempts and blacklists | five middlewares per request, blocks, challenges, scores, intrusion records | look-up and block are many awaits apart; a record is not awaited; a failing middleware lets the request pass; a request has two addresses, and the one blocked need not be the one looked up | a block holds but for requests in flight; a block ends; a critical detection leads to a block of the address it is attributed to |
| Security monitoring | `services/security/securityMonitoringService.ts` | table `security_alerts`, Redis key `ddos:emergency_mode` | periodic checks, alerts, emergency mode | checks overlap; any look may throw before the scaling; the load is a counter that expires every minute | alerts do not pile up; the emergency mode does not outlive a critical load |
| Anomaly detection, vulnerability scanner | `services/security` | audit rows, scan reports | scores, scans | heuristics | - |
| Secrets management | `services/security/secretsManagementService.ts` | table `secret_rotations` | rotate | - | see section 5 |
| Queues, mail, audit, metrics, health, WebSocket, analytics | the services of those names | a table or a map each | single statements, or external tools | little that interleaves | - |

How they interact: requests reach the services through `api/routes` and `graphql`;
a request passes the guard (blocks, challenges, WAF, bots, scores) before its route, and a login passes
only the detection of credential stuffing, then the lockout and the token service; the price check job reads what
the alert operations write and calls the mail service and the price history; the
lockout counters, the cache, the owner sessions, the blocks and the rate limits share one Redis
database, which `flush` of the cache empties as a whole; `index.ts` starts the jobs
after the server listens and stops them on a signal; the clean-up jobs delete rows of
the tables the other services use. `CircuitBreaker.execute` is called nowhere in the
source, only its statistics are read (`healthCheckService.ts`); it is modelled as the
library its interface offers.

## 2. Modules and how they correspond to the code

### `PriceAlerts` (with `DecimalText`)

`rows` is `price_tracking`; `creating` holds the REST `createAlert` calls between
their SELECT and their INSERT; `timer` and `isRunning` are the fields of the job;
`pass` holds the invocations of `checkPrices`, each with the await it is at, the
alerts of its snapshot still to visit and the price of the one at hand.

| Action | Code |
|---|---|
| `CheckDuplicate`, `FinishCreate` | `createAlert`, before and after its first await, with the price check of the route |
| `CreatePriceAlert`, `DeletePriceAlert` | the GraphQL mutations |
| `DeactivateAlert`, `DeleteAlert` | `deactivateAlert`, `deleteAlert` |
| `Boot`, `Start`, `Tick`, `Stop`, `Exit` | the server listens; `start()`; the interval; `stop()`; the process ends |
| `Select` ... `Finish` | `checkPrices`, one action per await: SELECT, observe a price, UPDATE, insert into the history (and compare), find the user, mail, re-check, mark; the `finally` |

Every action of a pass has the outcomes the code's error handling gives it: a failing
statement sends the pass to the next alert (the `catch` in the loop), a failing
`getAlertsToCheck` answers with no rows, `sendPriceAlert` answers `false`. Faults (an
exit, a mail answer that is lost although the mail was delivered, a re-check or a mark
that fails after the mail) are counted by `faults`, because the number of duplicate
mails depends on them; failures before the mail are free.

`DecimalText` says how JavaScript compares two DECIMAL columns: as texts. A computed
price is a number, and then the comparison is numeric; `TargetReached` distinguishes
the two. `mailed` and `late` are history variables.

### `CircuitBreaker` and `BreakerContract`

`BreakerContract` is what a user of the breaker may rely on: it opens, stays open for at
least `Timeout`, is tested, and closes from the test or by a manual reset. `CircuitBreaker`
is the class: `Reject`, `Admit`, `AdmitProbe` are the three ways through the head of
`execute`, `Succeed` and `Fail` its tail with `onSuccess` and `onFailure`. Times are kept
relative to now (`wait`, `calm`, `age`), so the state space is finite without a clock.
`exposed` are the calls that met the service while it did not work: they can fail late,
when it works again. `failureCount` is counted up to `MaxFailures`, above its threshold.

### `AuthTokens`

One account (every statement filters by user or token). `token` is `refresh_tokens`,
`password` the version of the password `users.password_hash` is the hash of. A request is
kept from the read that decides it to its last write: `Login` is in flight with the
password version it read, `ValidateRefreshToken` with the token it found valid, then
`Rotate` and `GenerateRefreshToken` are the two writes of a refresh. `Abort` is a failure
before anything was written, `AbortMidway` one between two writes that belong together
(counted as a fault), `Exit` the end of the process. `origin`, `successors` and `ended` are
history: the login and the password each token stems from, whether a revocation of all
tokens came after it (`old`) and whether it got past that one in a call that was already
in flight (`escaped`).

### `LoginLockout`

The Redis counter of one address and its expiry, in ticks. `CheckAccountLockout`,
`RecordFailedLogin` (INCR), `SetExpiry` (EXPIRE, after the first failure only) and
`ResetLoginAttempts` (DEL) are the commands of `login()`; `Flush` is FLUSHDB of the cache,
`Tick` the expiry. Redis errors are caught by `login()`, which then goes on: they are the
counted faults, with both outcomes of a command whose answer is lost.

### `SearchCache`

The cache of `advancedCacheService.ts` with the callers it has: search results, suggestions,
and the clearings of the owner and administrator routes. `memory` and `store` are the two
levels, `call` the requests between their awaits, `clearing` a `deletePattern` between its
KEYS and its DEL. All Redis commands share one connection, so a command takes effect in the
order of sending and only its answer comes later: that is why `Read` already takes the value
of Redis, and `Fill` puts it into memory.

| Action | Code |
|---|---|
| `Read`, `Fill`, `Miss` | `get`: memory, then GET (which may fail) and, after its await, the copy in memory; a full memory level turns a hit into a miss |
| `Answer`, `TimeOut`, `Collect` | the races of a search with `SEARCH_TIMEOUT`, `Promise.allSettled`, the popularity query |
| `Set` | memory, then SETEX, which may fail |
| `Flush`, `ListKeys`, `DeleteListed` | `flush`; `deletePattern` before and after the await of KEYS |
| `Tick`, `Sweep`, `Restart` | expiry; `checkperiod`; the process starts again with an empty memory |

An entry carries its history: `rest`, the ticks it has been kept, `superseded`, whether a
newer one of its key was stored since, `doomed`, whether a clearing in progress is to remove
it. `delete`, `getOrSet` and the methods for users, favorites and popular products have no
caller in the source.

### `Lifecycle`

`index.ts` from listening to the exit. `init` is the await of the background initialization;
`timers` the jobs with an interval; `work` what each job, a request, or the initialization is doing
with the pool; `redis` and `pool` the two clients; `shutdown` the await of every run of `gracefulShutdown`.

The pool is that of `node_modules/pg-pool/index.js`. A statement asks for a client and is queued; the queue is served
while a client is free and the pool is not ending. `end()` waits for the clients that are out
(`EndPool`), not for the queue, which is left as it is (`_pulseQueue`, 125-137): what waits there is `stranded`, and
is answered at best by its own time limit. A statement that finds a client free is handed it in `process.nextTick`
(191-196), which comes before any signal (`Settled`), but not before the answer of `quit()` of the same turn is
taken up. Clients are counted as those out (`Served`); opening a new one is part of `Dispatch`.

| Action | Code |
|---|---|
| `ConnectRedis` ... `StartJobs` | the awaits of the initialization; after the last one everything is synchronous |
| `Begin`, `Query`, `Finish` | a job whose interval fires, or a request; its statements |
| `Dispatch`, `Answer`, `TimeOut` | `_pulseQueue` hands out a client; the answer releases it; `connectionTimeoutMillis` of a statement that waits |
| `Interrupt`, `Terminate` | SIGINT (or an uncaught exception) up to `quit()`; SIGTERM with the listener of `database.ts` first |
| `Quit`, `QuitFails`, `EndPool`, `Complete` | the awaits of `gracefulShutdown` |
| `ForceExit`, `ServerError` | the timer of the shutdown; the server's error handler |
| `Connect`, `Disconnect`, `GiveUp` | the Redis client and its `reconnectStrategy` |

`Http` stands for everything no signal stops: the requests (the HTTP server is never
closed) and the one-shot profile update. `stranded`, `stopped`, `overlap`, `terminated` and `fault` are
history.

### `RequestGuard`

What a request passes before its route. A request has **two addresses**: `ddosProtection` and the WAF go by `req.ip`,
which Express takes from the last entry of `X-Forwarded-For` (`trust proxy` is 1, `index.ts:69`), while `inputValidation`,
`botDetection`, `threatScoreCheck`, `ipRateLimit` and `credentialStuffingDetection` go by `getClientIp` (`utils/ip.ts:3-9`), its
first entry. The two differ as soon as there is more than one entry, so a block need not be of the address under
which the same sender is looked up.

The module follows one address and the requests that bear it: `own` are those that have it as `req.ip`,
the others bear it as what `getClientIp` returns and meet nothing that is looked up under it before
`inputValidation` (`ArriveForwarded`). Whether a request of `own` has it as the forwarded one too is chosen where
that is first asked (`NamesOf`); what a request does about its other address is a verdict. `request` is the next
thing each request does, one value per middleware and per command of it that another request can
fall behind; `blocked` is the expiry of `blocked_ip:<ip>`, `challenge` the key of that name,
`intrusions` and `blacklisted` the address's rows in the database, `record` a `recordIntrusion`
that `inputValidation` started and did not await, with the names under which its request bears the address.

| Action | Code |
|---|---|
| `Arrive`, `CheckForDDoS`, `BlockFlooder` | `ddosProtection`: the look-up of the block under `req.ip`, the limits, the block they lead to |
| `ArriveForwarded` | a request that bears the address as the forwarded one only, past what looks at `req.ip` |
| `RequireChallenge`, `BlockByScore`, `GenerateChallenge` | the score, the block it leads to (the score is passed as the duration), the challenge |
| `VerifyChallenge`, `ConsumeChallenge` | GET and DEL of a challenge |
| `CheckRequest`, `BlockViolator` | the WAF |
| `ValidateInput`, `InsertIntrusion`, `BlockIntruder` | `inputValidation` and the record it leaves behind |
| `DetectBot`, `CheckThreatScore`, `BlockThreat`, `Pass` | `botDetection`, `threatScoreCheck`, `ipRateLimit` |
| `RegisterLoginAttempt`, `DetectCredentialStuffing`, `BlockStuffer` | `credentialStuffingDetection`, all that a login meets |
| `FailOpen`, `ArriveUnseen`, `RecordFails`, `Exit` | the `catch` of each middleware, which goes on; the `catch` of the record; the process ends |
| `BlockManually`, `UnblockIP`, `AddToBlacklist`, `Flush`, `Forget`, `Tick` | the routes of the administrator, FLUSHDB, the windows and expiries |

Counters, patterns and rules are verdicts: each may go either way at any time, so that the
properties hold whatever they count. The tables `ip_blacklist` and `intrusion_attempts` are those
of migration 002; with the tables of `initSchema` alone the scores throw, which is `FailOpen`.

### `EmailVerification`

The code and the counter of wrong codes in Redis, **under the names the code gives them**:
registration uses the id of the user, the routes use `req.user.userId`, which `authMiddleware` does
not set. `check` holds the requests between the GET of the counter, the GET of the code and the SET
or the DELs that follow; `wrong` counts wrong codes answered since the counter began.

### `TwoFactor`

The row of `user_2fa_settings`: `backupCodes` is the stored list, by the generation it belongs to and
how many codes are left, `use` the requests between a SELECT and an UPDATE. A new list gets the next
generation. `verifyBackupCode` has no caller yet; it is modelled as the operation it offers.

### `OwnerMode`

One owner session id: `session` counts the ticks to the expiry of its key, whose last one is past the
session's own `expiresAt`. `ValidateOwnerSession` grants a request or starts the deactivation of
an expired session; `LookUp`, `Audit`, `Delete` are the commands of a deactivation, `Swallow` its
`catch`; `ReadSession` and `ExtendSession` are the two halves of `extendSession` (no caller yet).

### `BackupCatalogue` and `InstantBackup`

`BackupCatalogue` has the rows (`catalogue`), the archives on disk, and the requests for full backups,
deletions and retention, command by command. Two files define the table: `initSchema` with a NOT NULL
column the row of a full backup lacks, migration 007 without the column the row of an instant backup
names; `table` is which of them is in use. Both refused INSERTs are swallowed by the code.
`InstantBackup` has the dump: `reading` is the table it is at, in the order of `pg_tables`, while
`RegisterUser`, `InsertRow` and `DeleteRow` are the program writing meanwhile; then Redis,
configuration and schema, each of which may be left out after an error. `createFullBackup` has no
caller in the routes yet.

### `PriceHistory`

`checking` is the pass of the price check, `collecting` the pass of the history job, each with the
prices it selected; `newest` is the newest entry of a product. `FindPrice`, `RecordFound` are the
price check's two writes (the rest of its turn is in `PriceAlerts`), `RecordCollected` the INSERT of the
history job, `PostPrice` the route, `CleanOldHistory` the retention.

### `Favorites` (with `Pagination`)

`Pagination` is the arithmetic of `utils/pagination.ts` and of the routes: offset, number of pages,
which rows a page holds. `Favorites` is one list, newest first, that is added to and removed from while
a client reads it page by page, each page being a COUNT and a SELECT of its own.

### `SecurityMonitoring`

`performSecurityCheck`: `round` is where each of the overlapping checks is - one of four looks, asking
for a recent alert, inserting it, or the scaling that sets or deletes `ddos:emergency_mode`. `recent` maps
the alerts of one type that count as recent to the ticks for which they still do. `alertTable` is whether there is a
table of alerts: `initSchema` does not make it, only migration 002 does, and without it each check with something to
report throws before it comes to the scaling. `load` is the level `ddos:global` amounts to: it climbs one level
at a time as requests come (`LoadChanges`) and is none again when the counter of the minute expires
(`ddosProtectionService.ts:76-87`, `:252`); nothing makes it expire in the model, since a fault between INCR and EXPIRE
leaves a counter that does not.

### `MCServices`

The eight modules from `EmailVerification` to `SecurityMonitoring` share neither a key nor a row, so that their
composition is their product and holds no behaviour that one of them does not have. `MCServices`
instantiates each and lets `part` choose one per behaviour: the states of the run are the sum of theirs. Its
steps are those of the chosen module, its fairness is theirs, restricted to `part`.

## 3. What the runs check

| Run | Bounds | Shows |
|---|---|---|
| `price_alerts` | 2 alerts, 1 key, prices {90, 99}, 1 REST call and any number of GraphQL calls, 2 passes, 1 fault | the properties marked PA |
| `price_alerts_reached` (violated) | prices {95, 100, 105} | `MailOnlyWhenReached` fails: "105.00" sorts before "95.00" |
| `circuit_breaker` | 3 calls, thresholds 3 and 2, timeout 3, reset timeout 5 | CB |
| `auth_tokens` | 2 calls at a time (symmetric), 4 tokens, 1 password change, 1 fault | AT |
| `login_lockout` | 3 calls, limit 5, lockout of 2 ticks, 2 faults | LL |
| `login_lockout_permanent` (violated) | as `login_lockout` | `LockoutIsTemporary` fails |
| `search_cache` | 2 requests at a time, a search key (2 ticks) and a suggestion key (1 tick), copies live 1 tick, 2 marketplaces, room for 2 keys | SC |
| `lifecycle` | 2 jobs, one with and one without a first run at once, the requests, a pool of 2 clients, 2 signals | LC |
| `lifecycle_terminate` (violated) | as `lifecycle` | `ShutdownIsClean` fails |
| `request_guard` | 2 requests, each with either or both addresses, blocks of 2 ticks (twice that for an intrusion, 1 by score), 1 intrusion counted, 1 fault | RG |
| `services` | 2 requests, uses, calls, jobs and rounds at a time; 3 wrong codes; lists of 2 codes, 2 of them; 3 backups, 1 kept; 2 users, 2 tables; 1 alert, 3 prices; 4 products, pages of 2, 2 changes; 1 fault in each component | EV, TF, OM, BK, PH, FV, SM |
| `email_verification` (violated) | 1 request, no fault | `MailedCodeVerifies` fails |

The type invariants are not among the run's properties: those of seven modules are theorems
(section 4), those of the modules of `services` hold in its run when they are added to its cfg.

Why the bounds are enough to be interesting: two passes let an unguarded job overlap;
two alerts let a pass be half-way through its snapshot; 90 and 99 are within a tenth of
each other, so simulated prices move between them, and the third price of
`price_alerts_reached` adds a digit. Three calls let a failure, a success and a probe of
the breaker overlap across two state changes; `MaxFailures` above the threshold lets late
failures go on counting. Two calls and four tokens let two refreshes use one token while a
third token is revoked or expires; the limit of five with three logins shows the counter
overshoot, and two faults let a counter without expiry be hit again. Two requests for one
key let the answer of a GET arrive after the other request, or a clearing, changed both
levels; two lifetimes, one longer than that of a copy, let a copy outlive its original. Two
signals let a second shutdown, by either signal, meet the first one at each of its awaits.
Two clients and four that ask for one (two jobs, the requests, the initialization) let statements wait while the pool
is ended. Two requests that bear an address let one be anywhere in the guard while the other blocks the address
or takes its challenge, under the same name or the other; a block of two ticks is still there after one, and can be renewed
meanwhile. In `services` two actors are what every race there needs, one fault is what separates
the bounds with and without one, and one more item than fits (a third backup with one kept, four products
with pages of two, three prices) is what lets a retention, a page border or an overtaken price occur. `services` does
not check for deadlock: an owner session that has expired is never used again, and the number of backups is bounded.
`lifecycle` does not check for deadlock: the process does end.

Safety:

* PA `MarkedAfterMail`, `NoMailAfterMark`: a mark implies a mail, and ends the mails.
* PA `LateMailBound`: after an alert is switched off at most one mail goes out for it.
* PA `MailedOncePerFault`: an alert is mailed at most once more than there were faults,
  **provided the texts of the prices compare as the prices do**, which they do when all have the
  same number of digits (`TextsAgree`, section 4): otherwise the re-check, which
  compares texts, may never confirm what the scan found, and every scan mails again.
* CB `CountersFitState`, `ImplementsContract` (refinement of `BreakerContract`).
* AT `LogoutAllSticks`, `PasswordChangeCutsOff`: what may still be live after a revocation
  of all tokens are tokens of calls then in flight. That exception is real, the code has no
  transaction there; the properties say that it is the only one.
* AT `SuccessorBound`, `LoginSurvives`.
* LL `AttemptsBound`, `CounterWillExpire`.
* SC `StaleBound`: an entry is kept no longer than its life in Redis and the life of one copy
  in memory; no sequence of hits prolongs it. `SupersededBriefly`: an older entry can come
  back to memory after a newer one was stored (the answer of a GET was on its way, or the
  SETEX failed), for the life of a copy only.
* LC `CleanExit`: an exit with 0 leaves Redis and the pool closed, every statement that had a client
  answered, and unanswered only what waited for a client when the pool was ended. `JobsStayStopped`: a signal after the initialization stops the jobs for good;
  one that comes earlier does not, because the initialization goes on and starts them.
  `InterruptIsClean`: without SIGTERM only a fault (a close that fails or hangs, a second
  signal, Redis given up) makes a shutdown fail.

* RG `LateBound`: while an address is blocked, under whichever of its names the block was set, the requests
  with it as `req.ip` that reach the routes are those that were past its look-up, one per slot, and one more per
  fault. It is silent on requests of the same sender under another address. `ChallengeBound`: reading and deleting a
  challenge are two commands, so several requests in flight can use it; no more than that.
* EV `GuessBound`: concurrent wrong codes are counted once and can lower the counter, so more than
  `MaxAttempts` are answered; with n requests at a time, fewer than (MaxAttempts + n choose n).
* TF `AcceptedBound`: likewise for backup codes that are used at the same time.
  `RegenerationSticks`: only a use that was under way can bring an older list back.
* OM `DeactivationSticks`: after an answered deactivation the session is gone, except when a
  command failed (the answer does not tell) or an extension was under way.
* BK `RowHasFile`: a listed full backup has an archive with all its components, but for those a
  fault left. `NewestKept`: overlapping clean-ups never delete one of the newest rows.
  `DumpIsClosed`: a dump's rows refer to users of the dump, because `users` is the last table
  in the order of names, of all that refer to it in `initSchema` and the migrations, and users are never deleted.
* PH `LagBound`: between two changes of a price, the history job records an older price at most once.
* FV `MissedBound`: what a page-by-page reader misses is bounded by the additions and removals meanwhile.
* SM `AlertBound`: alerts of one type within the hour are at most one per overlapping check.

Liveness, and the fairness it needs:

* PA `JobKeepsScanning` under weak fairness of the steps of a pass (every query, mail and
  timer callback settles: the driver and the providers have timeouts and all rejections are
  caught) and of `Tick` (`setInterval`).
* CB `OpenIsLeft`, `Recovers` under weak fairness of time, of every protected call settling,
  and of callers that keep calling: the breaker has no timer, only a call moves it on.
* LL `LockoutEnds` under weak fairness of the key's expiry and of an EXPIRE that was sent.
  Nothing is assumed of the logins themselves.
* SC `RequestAnswered` under weak fairness of the steps of a request: Redis and the database
  answer or reject (the client and the driver have time limits), the timers of a search run
  out. Nothing is assumed of the marketplaces.
* LC `ShutdownEnds` under weak fairness of the timer of the shutdown alone: Redis may never
  answer QUIT, and a statement may never end.

* RG `BlockEnds` under weak fairness of time and of a record in progress: whatever requests with the address
  as `req.ip` do, a block is not prolonged for ever. What never meets the look-up of the address may each set
  it anew, and the property excuses exactly that (`BlockUnseen`): a login with too many e-mails, and what
  bears the address as the forwarded one only and is taken for an intrusion or reaches the threat score; neither may go on
  for ever. Administrators who prolong a block are left out.
  `DetectionBlocks` under the same fairness: a critical detection leads to a block of the address `getClientIp` gave,
  although the request was answered before it was stored, unless a fault intervened. Nothing is assumed of requests.
* EV `LockEnds` under weak fairness of the expiry and of requests that have begun.
* PH `NewestIsPrice` under weak fairness of both timers and of what they began.
* SM `EmergencyEnds` under weak fairness of starting to monitor, of the interval, of each check's
  steps and of time: the timers fire, every query settles. When the load stays below critical, the emergency mode ends, by
  a check or by its expiry, although checks that read an older load may still turn it on. Nothing is assumed of the load.

In `MCServices` an action of a part is fair as long as that part is the one of the behaviour, which
is the fairness of its module: `part` never changes.

What the violated runs say of the code:

1. `priceCheckJob.ts:88` and `priceTrackingService.ts:129` compare two DECIMAL columns, which
   the driver returns as texts: a price of 105 is taken to be at or below a target of 95.
2. A fault between INCR and EXPIRE of the lockout counter makes the lockout permanent; the
   clean-up job repairs such keys only under two other prefixes.
3. SIGTERM runs two listeners that end the pool (`database.ts:87`, `index.ts:534`); the second
   `end()` is rejected, so a shutdown by SIGTERM exits with 1 although nothing failed.
4. `emailVerification.ts:13` and `:36` take the id of the user from a field that `authMiddleware`
   (`auth.ts:35`, `:43-48`) does not set; the code registration mailed is looked for under another name
   and refused.

Six more formulas are stated in the modules and do not hold; TLC shows it when one is set as an
INVARIANT or PROPERTY of its component's run:

* `NoDuplicateAlerts` (`PriceAlerts`, an invariant): `createPriceAlert` (`resolvers.ts:143`) inserts without looking for an
  active alert, and `createAlert` looks and inserts in two statements (`priceTrackingService.ts:38-60`) without
  a UNIQUE constraint, so a user can have two active alerts on one product.
* `CounterExpires` (`CircuitBreaker`): `onFailure` sets `lastFailureTime` to now (`circuitBreaker.ts:91`) before it
  compares it with `resetTimeout` (`:108`), so failures further apart than that still add up.
* `ClearClears` (`SearchCache`): `deletePattern` takes its keys from Redis (`advancedCacheService.ts:88`), so
  an entry whose SETEX failed, or a copy that outlives the Redis entry, survives the clearing.
* `NothingStranded` (`Lifecycle`, an invariant): with all clients out, a statement that waits for one when `end()` is called
  is never served (`pg-pool/index.js:125-137`), and the process can exit with 0 before it is answered.
* `SenderIsBlocked` (`RequestGuard`): the block that a critical detection leads to is of the address `getClientIp` gave
  (`securityMiddleware.ts:185`), while the next request is looked up under `req.ip` (`ddosProtection.ts:50`).
* `EmergencyStarts` (`SecurityMonitoring`, as `Monitor!EmergencyStarts` in `MCServices`): however often the load is critical, the
  checks may find the counter at the start of its minute, and with the tables of `initSchema` alone no check that
  finds it critical comes to the scaling.

## 4. What is proved

Each `...Proofs` module extends its component and proves, for every value of the constants
(subject to the named assumptions of the component: finite sets of calls where cardinalities
are taken, positive thresholds and durations, sentinels outside the sets they complement):

* `PriceAlertsProofs`: `TypeCorrect`, `OnePassAtATime`, `MarkImpliesMail`, `OneLateMail`,
  `MarkEndsMails`. The argument: first, the guard on `isRunning` makes at most one pass active
  and the timer imply a running process (`ScanInv`); then, since there is only one pass, the
  alert at hand is not in its list of alerts to visit any more, an alert that is still in it
  or is being processed is unmarked, one that is past its mail has been mailed, and a late mail has
  used up the one snapshot that held the alert (`MailInv`). The second needs the first: with two passes
  a second snapshot could hold an alert that the first one has just marked.
  `OneMailPerFault` takes two more steps. What the pass knows of a stored alert is still so, because nobody
  but the pass at hand writes a price and nobody changes a target (`SeenInv`); hence, when texts compare as prices do,
  a re-check that succeeds confirms what the scan found, and an alert that is still unmarked
  and not about to be marked has been mailed at most as often as there were faults (`OnceInv`). `OneMailSameDigits`
  replaces the condition by one on the prices alone, with `TextsAgree`: of two numbers with equally many digits the
  smaller one sorts below, by induction on the number without its last digit.
* `CircuitBreakerProofs`: `TypeCorrect`, `CountersAlwaysFit` and `Refinement`. The counters are
  inductive together with the types; the refinement needs `CoolDown`: while the circuit is
  open, the time left until `nextAttempt` and the time since it opened add up to at least
  the timeout. Without it nothing relates the test `Date.now() < nextAttempt` to the moment
  of opening.
* `AuthTokensProofs`: `TypeCorrect`, `RevocationSticks`, `OldPasswordsCutOff`,
  `ExchangesBounded`, `LoginsSurvive`. The inductive invariant ties the calls to the tokens: a call in
  flight that is `old` has `escaped`, a token used by a call was issued, the token of a rotation
  in progress is dead once it issues, and a token that is dead gets no new exchanges, so
  the exchanges made and those to come never exceed the number of calls.
* `LoginLockoutProofs`: `TypeCorrect`, `LimitHolds`, `CountersExpire`. `Room` strengthens the bound:
  the counter plus the logins that are past their check is at most the limit, less one,
  plus calls and faults, counting the calls that verify as a set whose cardinality every step
  changes by at most one.
* `SearchCacheProofs`: `TypeCorrect`, `StalenessBounded`, `SupersededLeave`. The invariant adds
  what a request holds (`HeldFresh`): an answer of Redis is as old as an entry of Redis may be
  and gets one life of a copy, an answer to be stored is new. A tick moves one unit from what is
  left to what has passed, so the sums stay.
* `LifecycleProofs`: `TypeCorrect`, `ExitIsClean`, `StoppedJobsStay`, `InterruptsSucceed`. A
  shutdown that goes on has taken the Redis client, so a second one is rejected at once and there is
  only one (`Closing`, `OneShutdown`); hence a pool that is not open when `quit()` is answered
  was ended by SIGTERM (`WhoEnds`). The pool is ended when nobody has a client and hands out none
  afterwards (`Drained`), and once it is ending nobody joins its queue (`NoNewWaiters`), so that who waits at the exit
  waited when it was ended.

* `RequestGuardProofs`: `TypeCorrect`, `LateHolds`, `ChallengeHolds`. `LateRoom`: while a block stands, the late
  requests and those still in flight with the address as `req.ip` together are at most the slots and the faults, whoever
  set it or sets it anew; only a fault lets one more in, and leaving the guard moves one from the second count
  to the first. Without a block the count begins again. `UsesRoom`: while a challenge
  can be accepted, each use of it is still on the way to its DEL, but for those a fault stopped. `OwnGoto` and
  `GotoCount` say how a step changes the two counts of requests.
* `ServicesProofs`, over `MCServices`, whose theorems say the run's properties for all parts at once. Each invariant
  speaks of the variables of one component, which the steps of the others leave alone.
  - `DeactivationHolds`: unless excused, an ended session has no extension under way either.
  - `RegenerationHolds`: unless overtaken, uses under way hold the newest generation.
  - `DumpHolds`: what was selected before `users` refers to users that are still there.
  - `LagHolds`: a price that was selected and is no longer the price has not been recorded since the price changed.
  - `PagesPartition` is about the arithmetic alone: whatever limit a query asks for, the pages of a list
    that does not change hold every row once.
  - `NewestHolds` (`CatalogueInv`): a number names one backup, and after each listed row come at least as many of the inserted rows as of
    the listed ones; so a row that a clean-up finds beyond the retention has been outlived by that many newer ones,
    whatever is inserted or deleted meanwhile, and what is about to be deleted is such a row or was asked for by the owner.
  - `ArchiveHolds` (`ArchiveInv`, on top of `CatalogueInv`): a backup about to be saved has its archive; the partial
    archives, and the rows whose archive is gone though nobody is about to delete them, are at most as many as jobs for each fault.
  - `MissedHolds` (`FavoritesInv`): the rows before the page the reader is at that were there all along and that
    he has not got (`Missed`), and those by which the list has outgrown the total he was told, are together at most the
    changes: an addition or a removal moves the borders of the pages by one row.
  - `AlertHolds` (`MonitorInv`): once there is a recent alert, no check comes to an insertion any more, so the alerts and the
    insertions under way together never exceed the checks.
  - `AcceptedHolds`, `GuessHolds`: requests that hold a number (codes left, attempts left) write back a smaller
    one, and those that come later start from it. `Affordable` says that there is a budget: a function of
    the number that starts at 0 and rises from x to x + 1 by no more than Pascal's triangle has for the requests that
    hold at most x, and that what was used up is within it. A request that ends writes a smaller number: it uses
    one up, and the budget below its number starts again (`BudgetSpent`); at the end the sum is below the
    binomial (`BudgetBound`). That `choose` computes Pascal's triangle, so that its division is exact, is
    `ChoosePascal`.

The factorial and the digits are recursive functions, so that their existence and what they compute are proved by
induction. The library's induction theorems take an operator as a parameter, which no installed prover can
instantiate; `Induct` and `StrongInduct` state induction for a set instead, from the least element of its complement (`WFMin`).

Every invariant and every action property that a passing run checks is a theorem. Only model-checked:

* the liveness properties, which need fairness and ENABLED: `JobKeepsScanning`, `OpenIsLeft`, `Recovers`, `LockoutEnds`,
  `RequestAnswered`, `ShutdownEnds`, `BlockEnds`, `DetectionBlocks`, `LockEnds`, `NewestIsPrice`, `EmergencyEnds`;
* the violated properties, which are shown by their counterexamples.

That `DecimalText` orders texts as JavaScript does is read off the language.

## 5. Not modelled, and why

* The awaits that change nothing a property sees (audit rows, analytics, bcrypt) are folded into
  the stretch they stand in.
* Sessions: every reader of `user_sessions` selects `is_active`, which neither schema
  creates, so `logoutAll` fails after revoking the tokens; `AuthTokens` therefore has the
  revocation and nothing after it. The routes pass `req.user.userId`, which is not set.
* API keys: `apiKeyAuth`, the only caller of the validation and of the rate limit, is used by no route.
* Secrets: a rotation stores a hash of a new secret and discards the secret; the program goes
  on with that of its environment. There is no state two steps could disagree on.
* Anomaly scores: the middleware is registered before the routes authenticate (`index.ts:336`, `:341`) and
  lets every request pass. The vulnerability scanner reads and writes a report.
* The fallback cache of `gracefulDegradation.ts` has no caller; the flags are set by health checks only.
* The mail queue: Bull does the work, and its retries never trigger, because `emailService` answers `false`
  where the job waits for an exception (`queueService.ts:79`).
* Owner and administrator routes other than sessions, backups, blocks and cache are reads or one UPDATE;
  `account_locked`, which one of them sets, is read by no login.
* What is in a search result: the cache key leaves out page, limit and sort (`searchService.ts:26`), so a second page
  is answered with the first. `SearchCache` follows the life of an entry, not its content.
* Access tokens are stateless and expire by themselves; only refresh tokens are state.
* Bull, the mail providers, node-postgres but for its pool, node-redis and the file system are external.
* Audit, metrics, health, WebSocket, analytics: single statements, reads, or handlers without an await.

## 6. Plan

Done, in this order: `DecimalText`, `PriceAlerts`, `BreakerContract`, `CircuitBreaker`, `AuthTokens`,
`LoginLockout`, `SearchCache`, `Lifecycle`, `RequestGuard`, `EmailVerification`, `TwoFactor`, `OwnerMode`,
`BackupCatalogue`, `InstantBackup`, `PriceHistory`, `Pagination`, `Favorites`, `SecurityMonitoring`, and the proofs
of section 4.

Proofs to add: abstract specifications of further components and that the modules implement them, as
`CircuitBreaker` does `BreakerContract`; the safety parts of liveness properties (what stays so until the
awaited step is taken).
