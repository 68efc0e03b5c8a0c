------------------------- MODULE EmailVerification -------------------------
(***************************************************************************)
(* E-mail verification: the code and the counter of wrong codes that       *)
(* emailVerificationService keeps in Redis, each under a name made of the  *)
(* user's id, and the requests that check a code.                          *)
(*                                                                         *)
(* Registration stores the code it mails under the id of the user.  The    *)
(* routes take the id from req.user.userId, a field authMiddleware does    *)
(* not set, so what they store and read is named "undefined": one code and *)
(* one counter for all users.  The row that goes with such a code has no   *)
(* user_id and is refused by the table, which ends the request before the  *)
(* limit on repeated mails is set and before the mail is sent.             *)
(*                                                                         *)
(* The counter is read, compared and written back by three commands.  The  *)
(* limit on requests per address is left out: the users have an address    *)
(* each.                                                                   *)
(***************************************************************************)
EXTENDS Naturals, FiniteSets, Combinatorics

CONSTANTS
    Checks,         \* requests in flight that check a code
    MaxAttempts,    \* wrong codes until the next one is refused
    AttemptsLife,   \* how long the counter lives, in ticks
    MaxFaults       \* bound on failing commands and process exits

VARIABLES
    code,           \* the owners for whom a code is stored
    attempts,       \* the counter named "undefined", 0 when there is none
    attemptsLife,   \* ticks until it expires
    check,          \* each request: what it does next, and the counter it read
    mailed,         \* whether the user has got the code of the registration
    wrong,          \* history: wrong codes answered as such since the counter began
    refused,        \* history: the mailed code was refused although it was stored
    verifyFaults    \* history: faults so far

vars == <<code, attempts, attemptsLife, check, mailed, wrong, refused, verifyFaults>>

Owner == {"user", "undefined"}
Step == {"idle", "code", "count", "update", "forget_code", "forget_attempts"}
Idle == [at |-> "idle", seen |-> 0]

TypeOK ==
    /\ code \subseteq Owner
    /\ attempts \in 0..MaxAttempts
    /\ attemptsLife \in 0..AttemptsLife
    /\ check \in [Checks -> [at : Step, seen : 0..MaxAttempts]]
    /\ mailed \in BOOLEAN
    /\ wrong \in Nat
    /\ refused \in BOOLEAN
    /\ verifyFaults \in 0..MaxFaults

Init ==
    /\ code = {}
    /\ attempts = 0
    /\ attemptsLife = 0
    /\ check = [c \in Checks |-> Idle]
    /\ mailed = FALSE
    /\ wrong = 0
    /\ refused = FALSE
    /\ verifyFaults = 0

Fault == verifyFaults < MaxFaults /\ verifyFaults' = verifyFaults + 1

Goto(c, step) == check' = [check EXCEPT ![c].at = step]
End(c) == check' = [check EXCEPT ![c] = Idle]

\* The counter is gone, and with it what is known of wrong codes.
Forgotten == attempts' = 0 /\ attemptsLife' = 0 /\ wrong' = 0

-----------------------------------------------------------------------------
\* sendVerificationCode as registration calls it; the mail may fail.
Register ==
    /\ code' = code \cup {"user"}
    /\ mailed' \in BOOLEAN
    /\ UNCHANGED <<attempts, attemptsLife, check, wrong, refused, verifyFaults>>

\* sendVerificationCode as the route calls it: a code is stored, the row is
\* refused, and the request is answered 500.
Send ==
    /\ code' = code \cup {"undefined"}
    /\ UNCHANGED <<attempts, attemptsLife, check, mailed, wrong, refused, verifyFaults>>

\* Mutant of ReadAttempts: a request that is refused prolongs the counter.
ReadAttemptsRenewing(c) ==
    /\ check[c].at = "idle"
    /\ IF attempts >= MaxAttempts
       THEN attemptsLife' = AttemptsLife /\ UNCHANGED check
       ELSE check' = [check EXCEPT ![c] = [at |-> "code", seen |-> attempts]] /\ UNCHANGED attemptsLife
    /\ UNCHANGED <<code, attempts, mailed, wrong, refused, verifyFaults>>

\* verifyCode reads the counter and refuses the request at MaxAttempts.
ReadAttempts(c) ==
    /\ check[c].at = "idle"
    /\ attempts < MaxAttempts
    /\ check' = [check EXCEPT ![c] = [at |-> "code", seen |-> attempts]]
    /\ UNCHANGED <<code, attempts, attemptsLife, mailed, wrong, refused, verifyFaults>>

\* It reads the code.  What the user sends in is the code he was mailed, the
\* one named "undefined", or another.
ReadCode(c) ==
    /\ check[c].at = "code"
    /\ \E sent \in {"mailed", "undefined", "other"} :
          /\ sent = "mailed" => mailed
          /\ \/ "undefined" \notin code /\ End(c)
             \/ "undefined" \in code /\ Goto(c, IF sent = "undefined" THEN "update" ELSE "count")
          /\ refused' = (refused \/ (sent = "mailed" /\ "user" \in code))
    /\ UNCHANGED <<code, attempts, attemptsLife, mailed, wrong, verifyFaults>>

\* Mutant of CountWrong: the counter starts again with every wrong code.
CountWrongOnce(c) ==
    /\ check[c].at = "count"
    /\ attempts' = 1
    /\ attemptsLife' = AttemptsLife
    /\ wrong' = wrong + 1
    /\ End(c)
    /\ UNCHANGED <<code, mailed, refused, verifyFaults>>

\* A wrong code: the counter becomes one more than the request has read, and
\* its hour begins anew.
CountWrong(c) ==
    /\ check[c].at = "count"
    /\ attempts' = check[c].seen + 1
    /\ attemptsLife' = AttemptsLife
    /\ wrong' = wrong + 1
    /\ End(c)
    /\ UNCHANGED <<code, mailed, refused, verifyFaults>>

\* The right code: both updates select the rows of no user, and change none.
UpdateUser(c) ==
    /\ check[c].at = "update"
    /\ Goto(c, "forget_code")
    /\ UNCHANGED <<code, attempts, attemptsLife, mailed, wrong, refused, verifyFaults>>

ForgetCode(c) ==
    /\ check[c].at = "forget_code"
    /\ code' = code \ {"undefined"}
    /\ Goto(c, "forget_attempts")
    /\ UNCHANGED <<attempts, attemptsLife, mailed, wrong, refused, verifyFaults>>

ForgetAttempts(c) ==
    /\ check[c].at = "forget_attempts"
    /\ Forgotten
    /\ End(c)
    /\ UNCHANGED <<code, mailed, refused, verifyFaults>>

-----------------------------------------------------------------------------
\* A command throws, without effect, and the request is answered 400; a wrong
\* code that is not counted is an answer all the same.
Throw(c) ==
    /\ Fault
    /\ check[c].at # "idle"
    /\ wrong' = IF check[c].at = "count" THEN wrong + 1 ELSE wrong
    /\ End(c)
    /\ UNCHANGED <<code, attempts, attemptsLife, mailed, refused>>

Exit ==
    /\ Fault
    /\ check' = [c \in Checks |-> Idle]
    /\ UNCHANGED <<code, attempts, attemptsLife, mailed, wrong, refused>>

\* Clearing the cache empties the Redis database.
Flush ==
    /\ code' = {}
    /\ Forgotten
    /\ UNCHANGED <<check, mailed, refused, verifyFaults>>

ExpireCode ==
    /\ \E owner \in code : code' = code \ {owner}
    /\ UNCHANGED <<attempts, attemptsLife, check, mailed, wrong, refused, verifyFaults>>

Tick ==
    /\ attemptsLife > 0
    /\ IF attemptsLife = 1
       THEN Forgotten
       ELSE attemptsLife' = attemptsLife - 1 /\ UNCHANGED <<attempts, wrong>>
    /\ UNCHANGED <<code, check, mailed, refused, verifyFaults>>

CheckStep(c) ==
    \/ ReadCode(c) \/ CountWrong(c) \/ UpdateUser(c)
    \/ ForgetCode(c) \/ ForgetAttempts(c)

Next ==
    \/ Register \/ Send
    \/ \E c \in Checks : ReadAttempts(c) \/ CheckStep(c) \/ Throw(c)
    \/ Exit \/ Flush \/ ExpireCode \/ Tick

\* A request that has begun goes on, and time passes; users need not come back.
Fairness ==
    /\ \A c \in Checks : WF_vars(CheckStep(c))
    /\ WF_vars(Tick)

Spec == Init /\ [][Next]_vars /\ Fairness

-----------------------------------------------------------------------------
\* Requests that read the counter at the same time write the same number back,
\* and one that was overtaken writes a smaller one (emailVerificationService.ts:
\* 59-76).  With one request at a time MaxAttempts wrong codes are answered while
\* the counter lives, with n at a time up to the number below; and one more per
\* fault.
GuessBound ==
    LET n == Cardinality(Checks)
    IN  wrong < choose(MaxAttempts + n, n) + verifyFaults

\* The counter that refuses every code (:62-64) is not prolonged by the requests
\* it refuses: an hour after the last wrong code users can try again, although
\* asking for a new code, as the error tells them, does not reset it.
LockEnds == attempts = MaxAttempts ~> attempts < MaxAttempts

\* What the routes and features.ts promise: a user who sends in the code he was
\* mailed, while it is stored and no five wrong codes came before, is verified.
MailedCodeVerifies == ~refused
=============================================================================
