---------------------------- MODULE RequestGuard ----------------------------
(***************************************************************************)
(* The guard every request to a protected path passes: ddosProtection,     *)
(* the WAF, inputValidation, botDetection, threatScoreCheck and, in        *)
(* production, ipRateLimit, in the order index.ts registers them.  The     *)
(* path of the login is public: a login meets no look-up of a block, only  *)
(* credentialStuffingDetection, which may set one.                         *)
(*                                                                         *)
(* A request has two addresses.  ddosProtection and the WAF go by req.ip,  *)
(* which Express takes from the last entry of X-Forwarded-For (trust proxy *)
(* is 1); the others go by getClientIp, its first entry.  The two differ   *)
(* as soon as there is more than one entry.  The module follows one        *)
(* address: the Redis keys blocked_ip:<ip> and challenge:<ip>, its rows in *)
(* intrusion_attempts and ip_blacklist, and the requests in flight that    *)
(* have it as the one, as the other or as both.  What such a request does  *)
(* about its other address is a verdict that may go either way; a request  *)
(* with the address as req.ip has it as the forwarded one too, or not,     *)
(* where that is first asked for.                                          *)
(*                                                                         *)
(* A block is set by a middleware that has looked for one many awaits      *)
(* earlier, or by recordIntrusion, which inputValidation starts and does   *)
(* not await.  A middleware that fails lets its request pass to the next.  *)
(* Counters (per address, global, per endpoint), the WAF rules a request   *)
(* matches and the patterns of input and user agent are read as verdicts:  *)
(* each may go either way at any time.                                     *)
(***************************************************************************)
EXTENDS Naturals, FiniteSets

CONSTANTS
    Requests,           \* requests in flight at once that bear the address
    BlockDuration,      \* BLOCK_DURATION, in ticks
    ScoreDuration,      \* the seconds a threat score amounts to, in ticks
    IntrusionScore,     \* what one recorded intrusion adds to the score
    ChallengeAbove,     \* a score above it requires a challenge
    ThreatThreshold,    \* THREAT_THRESHOLD
    MaxIntrusions,      \* bound up to which intrusions of the last hour are counted
    MaxFaults           \* bound on failing commands and process exits

ASSUME GuardAssumption ==
    /\ IsFiniteSet(Requests)
    /\ BlockDuration \in Nat \ {0}
    /\ ScoreDuration \in 1..(2 * BlockDuration)
    /\ IntrusionScore \in Nat
    /\ ChallengeAbove \in Nat
    /\ ThreatThreshold \in Nat \ {0}
    /\ MaxIntrusions \in Nat
    /\ MaxFaults \in Nat

VARIABLES
    blocked,        \* ticks until blocked_ip:<ip> expires, 0 when there is no key
    challenge,      \* whether challenge:<ip> holds a challenge
    intrusions,     \* rows of the last hour in intrusion_attempts
    blacklisted,    \* whether ip_blacklist holds the address
    request,        \* the next thing each request does
    own,            \* the requests that have the address as req.ip
    record,         \* the recordIntrusion that a request left behind
    late,           \* history: requests let through during the present block
    uses,           \* history: requests the present challenge was accepted from
    faults          \* history: faults so far

vars == <<blocked, challenge, intrusions, blacklisted, request, own, record,
          late, uses, faults>>
flight == <<request, own>>
client == <<blocked, challenge, intrusions, blacklisted>>

\* Where a request stands: in ddosProtection up to "consume", then in the
\* WAF, inputValidation, botDetection, threatScoreCheck and ipRateLimit; or, when
\* it is a login, in credentialStuffingDetection.
Ddos == {"limits", "block", "score", "block_issue", "block_verify", "issue", "verify", "consume"}
Login == {"login", "login_block"}
Step == {"idle"} \cup Ddos \cup Login
            \cup {"waf", "waf_block", "input", "bot", "threat", "threat_block", "rate"}

\* The severities the detectors of inputValidation report: SQL and command
\* injection are critical, XSS and path traversal are high.
Severity == {"critical", "high"}

\* The severities of the WAF rules whose action is "block".
RuleSeverity == {"critical", "high", "medium"}

\* req.ip, and what getClientIp returns.
Name == {"ip", "client"}

\* The stages of a recordIntrusion, and the names of the request it is of.
Record == [stage : {"none", "block"} \cup Severity, by : SUBSET Name]
NoRecord == [stage |-> "none", by |-> {}]

TypeOK ==
    /\ blocked \in 0..(2 * BlockDuration)
    /\ challenge \in BOOLEAN
    /\ intrusions \in 0..MaxIntrusions
    /\ blacklisted \in BOOLEAN
    /\ request \in [Requests -> Step]
    /\ own \in SUBSET Requests
    /\ record \in Record
    /\ late \in Nat
    /\ uses \in Nat
    /\ faults \in 0..MaxFaults

Init ==
    /\ blocked = 0
    /\ challenge = FALSE
    /\ intrusions = 0
    /\ blacklisted = FALSE
    /\ request = [r \in Requests |-> "idle"]
    /\ own = {}
    /\ record = NoRecord
    /\ late = 0
    /\ uses = 0
    /\ faults = 0

Fault == faults < MaxFaults /\ faults' = faults + 1

\* A request comes with the address as its req.ip.
EnterOwn(r, step) ==
    /\ request' = [request EXCEPT ![r] = step]
    /\ own' = own \cup {r}

Goto(r, step) ==
    /\ request' = [request EXCEPT ![r] = step]
    /\ own' = IF step = "idle" THEN own \ {r} ELSE own

\* calculateThreatScore, of which failed logins are left out.
ThreatScore == IntrusionScore * intrusions + (IF blacklisted THEN 100 ELSE 0)
Threat == ThreatScore >= ThreatThreshold

\* blockIP: SETEX replaces the key and its expiry; the audit entry that
\* follows swallows its errors.
BlockIP(duration) == blocked' = duration

\* The key of the block is gone.
Unblock ==
    /\ blocked' = 0
    /\ late' = 0

-----------------------------------------------------------------------------
(***************************************************************************)
(* ddosProtection.                                                         *)
(***************************************************************************)
\* Mutant of Arrive: the address is looked up after its request was counted.
ArriveUnchecked(r) ==
    /\ request[r] = "idle"
    /\ EnterOwn(r, "limits")
    /\ UNCHANGED <<client, record, late, uses, faults>>

\* Mutant of Arrive: a request that is refused renews the block.
ArriveRenewing(r) ==
    /\ request[r] = "idle"
    /\ IF blocked > 0
       THEN BlockIP(BlockDuration) /\ UNCHANGED flight
       ELSE EnterOwn(r, "limits") /\ UNCHANGED blocked
    /\ UNCHANGED <<challenge, intrusions, blacklisted, record, late, uses, faults>>

\* isIPBlocked of req.ip: a request of a blocked address ends here, and no
\* command that it has sent changes the block.
Arrive(r) ==
    /\ request[r] = "idle"
    /\ blocked = 0
    /\ EnterOwn(r, "limits")
    /\ UNCHANGED <<client, record, late, uses, faults>>

\* isEmergencyMode and checkForDDoS: the request ends with 503 or 429, goes on,
\* or is the one too many of its address.
CheckForDDoS(r) ==
    /\ request[r] = "limits"
    /\ \E next \in {"idle", "block", "score"} : Goto(r, next)
    /\ UNCHANGED <<client, record, late, uses, faults>>

\* checkIPRateLimit blocks the address; the request is answered 429.
BlockFlooder(r) ==
    /\ request[r] = "block"
    /\ BlockIP(BlockDuration)
    /\ Goto(r, "idle")
    /\ UNCHANGED <<challenge, intrusions, blacklisted, record, late, uses, faults>>

\* Where requireChallenge leads, by the score and by whether the request
\* carries a response; a response is verified even when none is required.
AfterScore(answered) ==
    IF answered THEN "verify"
    ELSE IF ThreatScore > ChallengeAbove THEN "issue" ELSE "waf"

\* requireChallenge up to the score; an address at the threshold is blocked
\* before the request goes on.
RequireChallenge(r) ==
    /\ request[r] = "score"
    /\ \E answered \in BOOLEAN :
          Goto(r, IF Threat
                  THEN IF answered THEN "block_verify" ELSE "block_issue"
                  ELSE AfterScore(answered))
    /\ UNCHANGED <<client, record, late, uses, faults>>

\* blockIP within requireChallenge.  Its third argument, the duration in
\* seconds, is the score.
BlockByScore(r) ==
    /\ request[r] \in {"block_issue", "block_verify"}
    /\ BlockIP(ScoreDuration)
    /\ Goto(r, IF request[r] = "block_issue" THEN "issue" ELSE "verify")
    /\ UNCHANGED <<challenge, intrusions, blacklisted, record, late, uses, faults>>

\* generateChallenge; the request is answered 403 with the challenge.
GenerateChallenge(r) ==
    /\ request[r] = "issue"
    /\ challenge' = TRUE
    /\ uses' = 0
    /\ Goto(r, "idle")
    /\ UNCHANGED <<blocked, intrusions, blacklisted, record, late, faults>>

\* Mutant of VerifyChallenge: the accepted challenge is not deleted.
VerifyChallengeOnly(r) ==
    /\ request[r] = "verify"
    /\ \/ challenge /\ Goto(r, "waf") /\ uses' = uses + 1
       \/ Goto(r, "idle") /\ UNCHANGED uses
    /\ UNCHANGED <<client, record, late, faults>>

\* verifyChallenge up to the comparison: the response is the challenge, or the
\* request ends with 403.
VerifyChallenge(r) ==
    /\ request[r] = "verify"
    /\ \/ challenge /\ Goto(r, "consume") /\ uses' = uses + 1
       \/ Goto(r, "idle") /\ UNCHANGED uses
    /\ UNCHANGED <<client, record, late, faults>>

\* Its DEL, which takes away whatever challenge is there by now.
ConsumeChallenge(r) ==
    /\ request[r] = "consume"
    /\ challenge' = FALSE
    /\ uses' = 0
    /\ Goto(r, "waf")
    /\ UNCHANGED <<blocked, intrusions, blacklisted, record, late, faults>>

-----------------------------------------------------------------------------
(***************************************************************************)
(* The middlewares after it: the WAF, by req.ip, and the rest, by what     *)
(* getClientIp returns.                                                    *)
(***************************************************************************)
\* The WAF: no violation that blocks, or one, logged and answered 403, with a
\* block of the address when it is critical.
CheckRequest(r) ==
    /\ request[r] = "waf"
    /\ \/ Goto(r, "input")
       \/ \E severity \in RuleSeverity :
             Goto(r, IF severity = "critical" THEN "waf_block" ELSE "idle")
    /\ UNCHANGED <<client, record, late, uses, faults>>

BlockViolator(r) ==
    /\ request[r] = "waf_block"
    /\ BlockIP(BlockDuration)
    /\ Goto(r, "idle")
    /\ UNCHANGED <<challenge, intrusions, blacklisted, record, late, uses, faults>>

\* A request that has the address as getClientIp only: what it has met so far
\* was about another one.
ArriveForwarded(r) ==
    /\ request[r] = "idle"
    /\ Goto(r, "input")
    /\ UNCHANGED <<client, record, late, uses, faults>>

\* What getClientIp gives a request besides its req.ip: the address or another one.
NamesOf(r) == IF r \in own THEN {{"ip"}, {"ip", "client"}} ELSE {{"client"}}

\* inputValidation.  A detector starts recordIntrusion and answers 403 at once.
\* One record is in progress at a time.
ValidateInput(r) ==
    /\ request[r] = "input"
    /\ \/ Goto(r, "bot") /\ UNCHANGED record
       \/ \E severity \in Severity, names \in NamesOf(r) :
             /\ record = NoRecord
             /\ record' = [stage |-> severity, by |-> names]
             /\ Goto(r, "idle")
    /\ UNCHANGED <<client, late, uses, faults>>

\* botDetection: the user agent, or less than 100 ms since the last request.
DetectBot(r) ==
    /\ request[r] = "bot"
    /\ \E next \in {"idle", "threat"} : Goto(r, next)
    /\ UNCHANGED <<client, record, late, uses, faults>>

\* threatScoreCheck up to the score of the address, or of another one.
CheckThreatScore(r) ==
    /\ request[r] = "threat"
    /\ \E names \in NamesOf(r), next \in {"idle", "rate"} :
          Goto(r, IF "client" \notin names THEN next
                  ELSE IF Threat THEN "threat_block" ELSE "rate")
    /\ UNCHANGED <<client, record, late, uses, faults>>

BlockThreat(r) ==
    /\ request[r] = "threat_block"
    /\ BlockIP(ScoreDuration)
    /\ Goto(r, "idle")
    /\ UNCHANGED <<challenge, intrusions, blacklisted, record, late, uses, faults>>

\* ipRateLimit, whose Redis calls answer even when Redis does not; past it the
\* request reaches the routes, which is late if its req.ip is blocked by now.
Pass(r) ==
    /\ request[r] = "rate"
    /\ \/ late' = IF blocked > 0 /\ r \in own THEN late + 1 ELSE late
       \/ UNCHANGED late
    /\ Goto(r, "idle")
    /\ UNCHANGED <<client, record, uses, faults>>

-----------------------------------------------------------------------------
(***************************************************************************)
(* credentialStuffingDetection, by what getClientIp returns.               *)
(***************************************************************************)
\* registerLoginAttempt: the e-mail joins the set of those the address has tried,
\* whose five minutes begin anew.
RegisterLoginAttempt(r) ==
    /\ request[r] = "idle"
    /\ Goto(r, "login")
    /\ UNCHANGED <<client, record, late, uses, faults>>

\* detectCredentialStuffing: the set holds more than ten e-mails, or the login
\* goes on.
DetectCredentialStuffing(r) ==
    /\ request[r] = "login"
    /\ \E next \in {"idle", "login_block"} : Goto(r, next)
    /\ UNCHANGED <<client, record, late, uses, faults>>

\* The address is blocked, once more when it is already; the login is answered 429.
BlockStuffer(r) ==
    /\ request[r] = "login_block"
    /\ BlockIP(BlockDuration)
    /\ Goto(r, "idle")
    /\ UNCHANGED <<challenge, intrusions, blacklisted, record, late, uses, faults>>

-----------------------------------------------------------------------------
(***************************************************************************)
(* recordIntrusion, on its own since inputValidation did not wait.         *)
(***************************************************************************)
CountIntrusion ==
    intrusions' = IF "client" \in record.by /\ intrusions < MaxIntrusions
                  THEN intrusions + 1 ELSE intrusions

\* Mutant of InsertIntrusion: a critical attempt is stored like the others.
InsertIntrusionOnly ==
    /\ record.stage \in Severity
    /\ CountIntrusion
    /\ record' = NoRecord
    /\ UNCHANGED <<blocked, challenge, blacklisted, flight, late, uses, faults>>

\* The attempt is stored under what getClientIp returned.
InsertIntrusion ==
    /\ record.stage \in Severity
    /\ CountIntrusion
    /\ record' = IF record.stage = "critical" THEN [record EXCEPT !.stage = "block"]
                 ELSE NoRecord
    /\ UNCHANGED <<blocked, challenge, blacklisted, flight, late, uses, faults>>

\* And so is the block.
BlockIntruder ==
    /\ record.stage = "block"
    /\ IF "client" \in record.by THEN BlockIP(2 * BlockDuration)
       ELSE UNCHANGED blocked
    /\ record' = NoRecord
    /\ UNCHANGED <<challenge, intrusions, blacklisted, flight, late, uses, faults>>

-----------------------------------------------------------------------------
(***************************************************************************)
(* Faults, operators and time.                                             *)
(***************************************************************************)
\* The middleware that goes on when this one fails.
NextMiddleware(step) ==
    CASE step \in Login -> "idle"
      [] step \in Ddos -> "waf"
      [] step \in {"waf", "waf_block"} -> "input"
      [] step = "input" -> "bot"
      [] step = "bot" -> "threat"
      [] step \in {"threat", "threat_block"} -> "rate"

\* A command of a middleware throws, without effect; the request passes to the
\* next one.
FailOpen(r) ==
    /\ Fault
    /\ request[r] \in Step \ {"idle", "rate"}
    /\ Goto(r, NextMiddleware(request[r]))
    /\ UNCHANGED <<client, record, late, uses>>

\* The look-up of a block throws: a blocked address passes.
ArriveUnseen(r) ==
    /\ Fault
    /\ request[r] = "idle"
    /\ EnterOwn(r, "waf")
    /\ UNCHANGED <<client, record, late, uses>>

\* recordIntrusion catches what throws in it and ends.
RecordFails ==
    /\ Fault
    /\ record # NoRecord
    /\ record' = NoRecord
    /\ UNCHANGED <<client, flight, late, uses>>

\* The process ends; Redis and the database stay.
Exit ==
    /\ Fault
    /\ request' = [r \in Requests |-> "idle"]
    /\ own' = {}
    /\ record' = NoRecord
    /\ UNCHANGED <<client, late, uses>>

\* An administrator blocks the address, for as long as he says; one who prolongs
\* a block that is there, which might go on for ever, is left out.
BlockManually ==
    /\ \E duration \in 1..(2 * BlockDuration) :
          /\ blocked = 0 \/ duration <= blocked
          /\ BlockIP(duration)
    /\ UNCHANGED <<challenge, intrusions, blacklisted, flight, record, late, uses, faults>>

UnblockIP ==
    /\ Unblock
    /\ UNCHANGED <<challenge, intrusions, blacklisted, flight, record, uses, faults>>

AddToBlacklist ==
    /\ blacklisted' = TRUE
    /\ UNCHANGED <<blocked, challenge, intrusions, flight, record, late, uses, faults>>

\* Clearing the cache is FLUSHDB, on the database that holds these keys too.
Flush ==
    /\ Unblock
    /\ challenge' = FALSE
    /\ uses' = 0
    /\ UNCHANGED <<intrusions, blacklisted, flight, record, faults>>

\* A row of intrusion_attempts grows older than an hour.
Forget ==
    /\ intrusions > 0
    /\ intrusions' = intrusions - 1
    /\ UNCHANGED <<blocked, challenge, blacklisted, flight, record, late, uses, faults>>

\* Time passes; a challenge lives for less than a tick, or longer.
Tick ==
    /\ blocked > 0 \/ challenge
    /\ IF blocked > 1 THEN blocked' = blocked - 1 /\ UNCHANGED late ELSE Unblock
    /\ \/ UNCHANGED <<challenge, uses>>
       \/ challenge' = FALSE /\ uses' = 0
    /\ UNCHANGED <<intrusions, blacklisted, flight, record, faults>>

-----------------------------------------------------------------------------
RequestStep(r) ==
    \/ CheckForDDoS(r) \/ BlockFlooder(r) \/ RequireChallenge(r) \/ BlockByScore(r)
    \/ GenerateChallenge(r) \/ VerifyChallenge(r) \/ ConsumeChallenge(r)
    \/ CheckRequest(r) \/ BlockViolator(r) \/ ValidateInput(r) \/ DetectBot(r)
    \/ CheckThreatScore(r) \/ BlockThreat(r) \/ Pass(r)
    \/ DetectCredentialStuffing(r) \/ BlockStuffer(r)

RecordStep == InsertIntrusion \/ BlockIntruder

Next ==
    \/ \E r \in Requests :
          \/ Arrive(r) \/ ArriveForwarded(r) \/ RegisterLoginAttempt(r) \/ RequestStep(r)
          \/ FailOpen(r) \/ ArriveUnseen(r)
    \/ RecordStep \/ RecordFails
    \/ Exit
    \/ BlockManually \/ UnblockIP \/ AddToBlacklist \/ Flush \/ Forget \/ Tick

\* A recordIntrusion that has begun goes on, and time passes; requests need not
\* come, and those that have come may stay where they are.
Fairness ==
    /\ WF_vars(RecordStep)
    /\ WF_vars(Tick)

Spec == Init /\ [][Next]_vars /\ Fairness

-----------------------------------------------------------------------------
(***************************************************************************)
(* Properties.                                                             *)
(***************************************************************************)
\* While an address is blocked, whoever blocked it, only requests with it as
\* req.ip reach the routes that had passed the look-up (ddosProtection.ts:49-54)
\* before the block was set, or passed it because a command failed: one per slot
\* and one more per fault.
LateBound == late <= Cardinality(Requests) + faults

\* A challenge is read and deleted by two commands (ddosProtectionService.ts:
\* 218-221), so more than one request can be let in by it: one per request in
\* flight, and again after a fault that kept the DEL from being sent.
ChallengeBound == uses <= Cardinality(Requests) * (1 + faults)

\* What sets a block next without having been looked up under the address: a
\* login, or what bears the address as its forwarded one only.
BlockUnseen ==
    \/ \E r \in Requests : /\ request[r] \in {"login_block", "threat_block"}
                          /\ r \notin own
    \/ record.stage = "block" /\ "ip" \notin record.by

\* The block ends although requests with the address as req.ip keep coming: those
\* do not prolong it once the ones in flight when it was set are through
\* (ddosProtection.ts:49-54).  What never meets the look-up of the address can
\* (securityMiddleware.ts:185, 300-309, 384), and would have to for ever.
BlockEnds == <>[]~BlockUnseen => []<>(blocked = 0)

\* inputValidation answers before the intrusion is stored; a critical one still
\* leads to a block of the address getClientIp gave (utils/ip.ts:3-9), unless
\* recording it failed or the process ended.
DetectionBlocks ==
    record.stage = "critical" /\ "client" \in record.by /\ faults = 0
        ~> blocked > 0 \/ faults > 0

\* What does not hold: that it leads to a block of the address under which the
\* next request of the sender is looked up.
SenderIsBlocked ==
    record.stage = "critical" /\ "ip" \in record.by /\ faults = 0
        ~> blocked > 0 \/ faults > 0
=============================================================================
