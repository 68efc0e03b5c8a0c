------------------------- MODULE AuthTokensProofs -------------------------
(***************************************************************************)
(* Proofs about AuthTokens, for any number of requests, tokens, password   *)
(* changes and faults.                                                     *)
(***************************************************************************)
EXTENDS AuthTokens, FiniteSetTheorems, TLAPS

-----------------------------------------------------------------------------
(* The inductive invariant.                                                 *)

\* Ids are issued in order, and every issued token stems from a login.
Serials ==
    \A t \in Tokens : /\ t <= serial <=> Issued(t)
                      /\ Issued(t) => origin[t].login \in Tokens

\* A request that will issue a token: one past the read that decides it.
Working(c) == call[c].pc \in {"rotate", "issue"}

\* What a request that exchanges a token remembers of it stays true, and only
\* such a request has anything to remember.
Request(c) ==
    /\ ~Working(c) => call[c].using = NoToken
    /\ call[c].pc = "rotate" => call[c].using # NoToken
    /\ call[c].using = NoToken => call[c].from.login = NoToken
    /\ call[c].using # NoToken =>
          /\ Issued(call[c].using)
          /\ call[c].from.login = origin[call[c].using].login
    /\ call[c].pc = "insert" => call[c].from = BlankOrigin
    /\ call[c].pc \in {"change", "revoke"} => registered

Requests == \A c \in Calls : Request(c)

Account == ~registered => password = 0

\* What the two revocation properties say of tokens holds of the requests that
\* will issue the next ones.
Escapes ==
    /\ LogoutAllSticks
    /\ \A c \in Calls : Working(c) /\ call[c].from.old => call[c].from.escaped

Excused(p) ==
    \/ p = password
    \/ \E c \in Calls : call[c].pc = "revoke"
    \/ faults > 0

Cuts ==
    /\ \A t \in Tokens : Live(t) /\ ~origin[t].escaped => Excused(origin[t].password)
    /\ \A c \in Calls :
          Working(c) /\ ~call[c].from.escaped => Excused(call[c].from.password)

-----------------------------------------------------------------------------
(* Types, and what ties requests to the tokens they exchange.               *)

LEMMA BlankTypes == BlankOrigin \in Origin /\ IdleCall \in Call
  BY BoundsAssumption DEF BlankOrigin, IdleCall, Origin, Call, NoToken

\* What ends most steps of a request does to its type.
LEMMA GotoType ==
    ASSUME call \in [Calls -> Call], NEW c \in Calls,
           NEW pc \in {"idle", "insert", "rotate", "issue", "change", "revoke"},
           Goto(c, pc)
    PROVE  call' \in [Calls -> Call]
  BY DEF Goto, Call

LEMMA ReturnType ==
    ASSUME call \in [Calls -> Call], NEW c \in Calls, Return(c)
    PROVE  call' \in [Calls -> Call]
  BY BlankTypes DEF Return

LEMMA BeginType ==
    ASSUME call \in [Calls -> Call], NEW c \in Calls, NEW from \in Origin,
           NEW pc \in {"idle", "insert", "rotate", "issue", "change", "revoke"},
           NEW t \in Tokens \cup {NoToken}, Begin(c, pc, t, from)
    PROVE  call' \in [Calls -> Call]
  BY DEF Begin, Call

\* The logins a fault puts an end to.
LEMMA FromType ==
    ASSUME TypeOK
    PROVE  \A c \in Calls : call[c].from.login \in Tokens \cup {NoToken}
  BY DEF TypeOK, Call, Origin

LEMMA RevokeAllType ==
    ASSUME TypeOK, Serials, NEW calls \in [Calls -> Call],
           RevokeAllUserTokens(calls)
    PROVE  TypeOK'
  <1>1. token' \in [Tokens -> Row]
    BY DEF RevokeAllUserTokens, TypeOK, Row
  <1>2. origin' \in [Tokens -> Origin]
    BY ZenonT(60) DEF RevokeAllUserTokens, TypeOK, Origin, Issued
  <1>3. call' \in [Calls -> Call]
    <2>1. \A c \in Calls :
             [calls[c] EXCEPT !.from.old = TRUE, !.from.escaped = TRUE] \in Call
      BY ZenonT(60) DEF Call, Origin
    <2> QED BY <2>1 DEF RevokeAllUserTokens
  <1>4. ended' \subseteq Tokens
    <2>1. \A t \in 1..serial : t \in Tokens /\ t <= serial
      BY BoundsAssumption DEF TypeOK, Tokens
    <2> QED BY <2>1 DEF RevokeAllUserTokens, Serials
  <1> QED BY <1>1, <1>2, <1>3, <1>4 DEF RevokeAllUserTokens, TypeOK

\* FinishChange forgets its own request while it revokes.
LEMMA FinishType ==
    ASSUME call \in [Calls -> Call], NEW c
    PROVE  [call EXCEPT ![c] = IdleCall] \in [Calls -> Call]
  BY BlankTypes

\* Every step keeps the types.
LEMMA TypeStep ==
    ASSUME TypeOK, Serials, [Next]_vars
    PROVE  TypeOK'
  <1> USE DEF TypeOK
  <1>1. ASSUME NEW c \in Calls, Register(c)
       PROVE  TypeOK'
    BY <1>1, BlankTypes, BeginType DEF Register
  <1>2. ASSUME NEW c \in Calls, InsertUser(c)
       PROVE  TypeOK'
    BY <1>2, GotoType, ReturnType DEF InsertUser
  <1>3. ASSUME NEW c \in Calls, Login(c)
       PROVE  TypeOK'
    <2>1. [BlankOrigin EXCEPT !.password = password] \in Origin
      BY BlankTypes DEF Origin
    <2> QED BY <1>3, <2>1, BeginType DEF Login
  <1>4. ASSUME NEW c \in Calls, Rotate(c)
       PROVE  TypeOK'
    <2>1. token' \in [Tokens -> Row]
      BY <1>4 DEF Rotate, Revoke, Row
    <2> QED BY <1>4, <2>1, GotoType DEF Rotate
  <1>5. ASSUME NEW c \in Calls, GenerateRefreshToken(c)
       PROVE  TypeOK'
    <2> DEFINE new == serial + 1
               o   == IF call[c].using = NoToken
                      THEN [call[c].from EXCEPT !.login = new]
                      ELSE call[c].from
               n   == successors[call[c].using] + 1
    <2>1. new \in Tokens /\ new \in 0..MaxTokens
      BY <1>5, BoundsAssumption DEF GenerateRefreshToken, Tokens
    <2>2. o \in Origin
      BY <2>1 DEF Call, Origin
    <2>3. token' \in [Tokens -> Row]
      BY <1>5 DEF GenerateRefreshToken, Row
    <2>4. origin' \in [Tokens -> Origin]
      BY <1>5, <2>2 DEF GenerateRefreshToken
    <2>5. successors' \in [Tokens -> Nat]
      <3>1. call[c].using \in Tokens => n \in Nat
        OBVIOUS
      <3>2. successors' = successors \/ successors' = [successors EXCEPT ![call[c].using] = n]
        BY <1>5 DEF GenerateRefreshToken
      <3> HIDE DEF n
      <3> QED BY <3>1, <3>2
    <2> QED BY <1>5, <2>1, <2>3, <2>4, <2>5, ReturnType DEF GenerateRefreshToken
  <1>6. ASSUME NEW c \in Calls, ChangePassword(c)
       PROVE  TypeOK'
    BY <1>6, BlankTypes, BeginType DEF ChangePassword, NoToken
  <1>7. ASSUME NEW c \in Calls, UpdatePassword(c)
       PROVE  TypeOK'
    BY <1>7, BoundsAssumption, GotoType DEF UpdatePassword
  <1>8. ASSUME NEW c \in Calls, FinishChange(c)
       PROVE  TypeOK'
    BY <1>8, FinishType, RevokeAllType DEF FinishChange
  <1>9. ASSUME NEW c \in Calls, Abort(c)
       PROVE  TypeOK'
    BY <1>9, ReturnType DEF Abort
  <1>10. ASSUME NEW c \in Calls, AbortMidway(c)
       PROVE  TypeOK'
    BY <1>10, BoundsAssumption, ReturnType, FromType DEF AbortMidway, Fault
  <1>11. ASSUME NEW c \in Calls, NEW t \in Tokens, ValidateRefreshToken(c, t)
       PROVE  TypeOK'
    BY <1>11, BeginType DEF ValidateRefreshToken
  <1>12. ASSUME NEW t \in Tokens, Logout(t)
       PROVE  TypeOK'
    <2>1. token' \in [Tokens -> Row]
      BY <1>12 DEF Logout, Revoke, Row
    <2> QED BY <1>12, <2>1 DEF Logout, Serials
  <1>13. ASSUME NEW t \in Tokens, Expire(t)
       PROVE  TypeOK'
    <2>1. token' \in [Tokens -> Row]
      BY <1>13 DEF Expire, Row
    <2>2. Issued(t)
      BY <1>13 DEF Expire, Live, Issued
    <2> QED BY <1>13, <2>1, <2>2 DEF Expire, Serials
  <1>14. CASE LogoutAll
    BY <1>14, RevokeAllType DEF LogoutAll
  <1>15. CASE Cleanup
    <2>1. token' \in [Tokens -> Row]
      BY <1>15 DEF Cleanup, Row
    <2> QED BY <1>15, <2>1 DEF Cleanup
  <1>16. CASE Exit
    <2>1. call' \in [Calls -> Call]
      BY <1>16, BlankTypes DEF Exit
    <2> QED BY <1>16, <2>1, BoundsAssumption, FromType DEF Exit, Fault
  <1>17. CASE UNCHANGED vars
    BY <1>17 DEF vars
  <1> QED BY <1>1, <1>2, <1>3, <1>4, <1>5, <1>6, <1>7, <1>8, <1>9, <1>10, <1>11, <1>12, <1>13, <1>14, <1>15, <1>16, <1>17 DEF Next

\* A revocation of all tokens, whatever the requests were before it.
LEMMA RevokeAllSerials ==
    ASSUME TypeOK, Serials, NEW calls, RevokeAllUserTokens(calls)
    PROVE  Serials'
  <1>1. \A t \in Tokens : Issued(t)' <=> Issued(t)
    BY DEF RevokeAllUserTokens, TypeOK, Issued
  <1>2. \A t \in Tokens : origin'[t].login = origin[t].login
    BY DEF RevokeAllUserTokens, TypeOK, Origin
  <1> QED BY <1>1, <1>2 DEF RevokeAllUserTokens, Serials

LEMMA RevokeAllRequest ==
    ASSUME TypeOK, Serials, NEW calls \in [Calls -> Call], NEW c \in Calls,
           RevokeAllUserTokens(calls), calls[c] \in {call[c], IdleCall}
    PROVE  /\ call'[c].pc = calls[c].pc
           /\ call'[c].using = calls[c].using
           /\ call'[c].from.login = calls[c].from.login
           /\ call'[c].from.password = calls[c].from.password
           /\ call'[c].pc \notin {"rotate", "issue"} => call'[c] = calls[c]
           /\ call'[c].pc \in {"rotate", "issue"} =>
                call'[c].from.old /\ call'[c].from.escaped
  BY DEF RevokeAllUserTokens, Call, Origin

\* A token issued, its row and where it stems from.
LEMMA GenerateEffect ==
    ASSUME TypeOK, NEW c \in Calls, GenerateRefreshToken(c)
    PROVE  /\ serial' = serial + 1
           /\ serial + 1 \in Tokens
           /\ \A t \in Tokens : t # serial + 1 => token'[t] = token[t] /\ origin'[t] = origin[t]
           /\ token'[serial + 1] = "live"
           /\ origin'[serial + 1] = IF call[c].using = NoToken
                                   THEN [call[c].from EXCEPT !.login = serial + 1]
                                   ELSE call[c].from
  <1>1. serial' = serial + 1 /\ serial + 1 \in Tokens
    BY BoundsAssumption DEF GenerateRefreshToken, TypeOK, Tokens
  <1>2. token \in [Tokens -> Row] /\ origin \in [Tokens -> Origin]
    BY DEF TypeOK
  <1> QED BY <1>1, <1>2 DEF GenerateRefreshToken

LEMMA GenerateLive ==
    ASSUME TypeOK, NEW c \in Calls, GenerateRefreshToken(c)
    PROVE  /\ \A t \in Tokens : Live(t)' /\ t # serial + 1 => Live(t) /\ origin'[t] = origin[t]
           /\ origin'[serial + 1].old = call[c].from.old
           /\ origin'[serial + 1].escaped = call[c].from.escaped
           /\ origin'[serial + 1].password = call[c].from.password
           /\ Working(c)
           /\ \A d \in Calls : Working(d)' => d # c /\ call'[d] = call[d]
  <1>1. ASSUME NEW t \in Tokens, Live(t)', t # serial + 1
        PROVE  Live(t) /\ origin'[t] = origin[t]
    <2>1. token'[t] = token[t] /\ origin'[t] = origin[t]
      BY <1>1, GenerateEffect
    <2> QED BY <1>1, <2>1 DEF Live
  <1>2. call[c].from \in Origin
    BY DEF TypeOK, Call
  <1>3. /\ origin'[serial + 1].old = call[c].from.old
        /\ origin'[serial + 1].escaped = call[c].from.escaped
        /\ origin'[serial + 1].password = call[c].from.password
    BY <1>2, GenerateEffect, ZenonT(60) DEF Origin
  <1>4. Working(c) /\ \A d \in Calls : Working(d)' => d # c /\ call'[d] = call[d]
    BY DEF GenerateRefreshToken, Return, IdleCall, Working, TypeOK
  <1> QED BY <1>1, <1>3, <1>4

\* Every step keeps ids in order.
LEMMA SerialsStep ==
    ASSUME TypeOK, Serials, Requests, [Next]_vars
    PROVE  Serials'
  <1> USE DEF TypeOK, Serials, Issued
  <1>1. ASSUME NEW c \in Calls, Register(c)
       PROVE  Serials'
    BY <1>1 DEF Register
  <1>2. ASSUME NEW c \in Calls, InsertUser(c)
       PROVE  Serials'
    BY <1>2 DEF InsertUser
  <1>3. ASSUME NEW c \in Calls, Login(c)
       PROVE  Serials'
    BY <1>3 DEF Login
  <1>4. ASSUME NEW c \in Calls, Rotate(c)
       PROVE  Serials'
    <2>1. call[c].using \in Tokens => Issued(call[c].using)
      BY DEF Requests, Request, Rotate, NoToken, Tokens
    <2> QED BY <1>4, <2>1 DEF Rotate, Revoke, Issued
  <1>5. ASSUME NEW c \in Calls, GenerateRefreshToken(c)
       PROVE  Serials'
    <2>1. serial' = serial + 1 /\ serial + 1 \in Tokens
      BY <1>5, BoundsAssumption DEF GenerateRefreshToken, Tokens
    <2>2. \A t \in Tokens : t <= serial' <=> t <= serial \/ t = serial + 1
      BY <2>1, BoundsAssumption DEF Tokens
    <2>3. \A t \in Tokens : /\ t # serial + 1 => token'[t] = token[t] /\ origin'[t] = origin[t]
                            /\ t = serial + 1 => token'[t] = "live"
      BY <1>5 DEF GenerateRefreshToken
    <2>4. origin'[serial + 1].login \in Tokens
      <3>1. CASE call[c].using = NoToken
        BY <1>5, <2>1, <3>1 DEF GenerateRefreshToken, Call, Origin
      <3>2. CASE call[c].using # NoToken
        <4>1. Issued(call[c].using) /\ call[c].from.login = origin[call[c].using].login
          BY <3>2 DEF Requests, Request
        <4>2. call[c].using \in Tokens
          BY <3>2 DEF Call
        <4> QED BY <1>5, <2>1, <3>2, <4>1, <4>2 DEF GenerateRefreshToken
      <3> QED BY <3>1, <3>2
    <2> QED BY <2>1, <2>2, <2>3, <2>4
  <1>6. ASSUME NEW c \in Calls, ChangePassword(c)
       PROVE  Serials'
    BY <1>6 DEF ChangePassword
  <1>7. ASSUME NEW c \in Calls, UpdatePassword(c)
       PROVE  Serials'
    BY <1>7 DEF UpdatePassword
  <1>8. ASSUME NEW c \in Calls, FinishChange(c)
       PROVE  Serials'
    BY <1>8, RevokeAllSerials DEF FinishChange
  <1>9. ASSUME NEW c \in Calls, Abort(c)
       PROVE  Serials'
    BY <1>9 DEF Abort
  <1>10. ASSUME NEW c \in Calls, AbortMidway(c)
       PROVE  Serials'
    BY <1>10 DEF AbortMidway
  <1>11. ASSUME NEW c \in Calls, NEW t \in Tokens, ValidateRefreshToken(c, t)
       PROVE  Serials'
    BY <1>11 DEF ValidateRefreshToken
  <1>12. ASSUME NEW t \in Tokens, Logout(t)
       PROVE  Serials'
    BY <1>12 DEF Logout, Revoke
  <1>13. ASSUME NEW t \in Tokens, Expire(t)
       PROVE  Serials'
    BY <1>13 DEF Expire, Live
  <1>14. CASE LogoutAll
    BY <1>14, RevokeAllSerials DEF LogoutAll
  <1>15. CASE Cleanup
    BY <1>15 DEF Cleanup
  <1>16. CASE Exit
    BY <1>16 DEF Exit
  <1>17. CASE UNCHANGED vars
    BY <1>17 DEF vars
  <1> QED BY <1>1, <1>2, <1>3, <1>4, <1>5, <1>6, <1>7, <1>8, <1>9, <1>10, <1>11, <1>12, <1>13, <1>14, <1>15, <1>16, <1>17 DEF Next

\* Every step keeps what requests remember true.
LEMMA RequestsStep ==
    ASSUME TypeOK, Serials, Requests, [Next]_vars
    PROVE  Requests'
  <1> USE DEF TypeOK, Requests, Request, Issued, Working, Call, IdleCall, BlankOrigin, NoToken
  <1>1. ASSUME NEW c \in Calls, Register(c)
       PROVE  Requests'
    BY <1>1 DEF Register, Begin, Account
  <1>2. ASSUME NEW c \in Calls, InsertUser(c)
       PROVE  Requests'
    BY <1>2 DEF InsertUser, Goto, Return, Account
  <1>3. ASSUME NEW c \in Calls, Login(c)
       PROVE  Requests'
    BY <1>3 DEF Login, Begin, Account
  <1>4. ASSUME NEW c \in Calls, Rotate(c)
       PROVE  Requests'
    BY <1>4 DEF Rotate, Goto, Revoke, Account
  <1>5. ASSUME NEW c \in Calls, GenerateRefreshToken(c)
       PROVE  Requests'
    <2>1. \A t \in Tokens : Issued(t) => Issued(t)' /\ origin'[t].login = origin[t].login
      <3>1. ~Issued(serial + 1)
        BY <1>5, BoundsAssumption DEF GenerateRefreshToken, Serials, Tokens
      <3> QED BY <1>5, <3>1 DEF GenerateRefreshToken
    <2> QED BY <1>5, <2>1 DEF GenerateRefreshToken, Return
  <1>6. ASSUME NEW c \in Calls, ChangePassword(c)
       PROVE  Requests'
    BY <1>6 DEF ChangePassword, Begin, Account
  <1>7. ASSUME NEW c \in Calls, UpdatePassword(c)
       PROVE  Requests'
    BY <1>7 DEF UpdatePassword, Goto, Account
  <1>8. ASSUME NEW c \in Calls, FinishChange(c)
       PROVE  Requests'
    <2> DEFINE calls == [call EXCEPT ![c] = IdleCall]
    <2>1. \A t \in Tokens : Issued(t)' = Issued(t) /\ origin'[t].login = origin[t].login
      BY <1>8 DEF FinishChange, RevokeAllUserTokens, Origin
    <2>2. registered' = registered
      BY <1>8 DEF FinishChange, RevokeAllUserTokens
    <2> SUFFICES ASSUME NEW d \in Calls PROVE Request(d)'
      BY DEF Requests
    <2>3. /\ call'[d].pc = calls[d].pc
          /\ call'[d].using = calls[d].using
          /\ call'[d].from.login = calls[d].from.login
          /\ call'[d].pc \notin {"rotate", "issue"} => call'[d] = calls[d]
      <3>1. calls \in [Calls -> Call] /\ calls[d] \in {call[d], IdleCall}
        BY FinishType
      <3>2. RevokeAllUserTokens(calls)
        BY <1>8 DEF FinishChange
      <3> HIDE DEF calls
      <3> QED BY <3>1, <3>2, RevokeAllRequest
    <2>4. CASE d = c
      BY <2>1, <2>2, <2>3, <2>4 DEF Requests, IdleCall, BlankOrigin
    <2>5. CASE d # c
      BY <2>1, <2>2, <2>3, <2>5 DEF Requests, Call
    <2> QED BY <2>4, <2>5
  <1>9. ASSUME NEW c \in Calls, Abort(c)
       PROVE  Requests'
    BY <1>9 DEF Abort, Return, Midway, Account
  <1>10. ASSUME NEW c \in Calls, AbortMidway(c)
       PROVE  Requests'
    BY <1>10 DEF AbortMidway, Return, Midway, Fault, Account
  <1>11. ASSUME NEW c \in Calls, NEW t \in Tokens, ValidateRefreshToken(c, t)
       PROVE  Requests'
    <2>1. t # NoToken /\ Issued(t)
      BY <1>11 DEF ValidateRefreshToken, Live, Tokens
    <2> QED BY <1>11, <2>1 DEF ValidateRefreshToken, Begin
  <1>12. ASSUME NEW t \in Tokens, Logout(t)
       PROVE  Requests'
    BY <1>12 DEF Logout, Revoke, Live
  <1>13. ASSUME NEW t \in Tokens, Expire(t)
       PROVE  Requests'
    BY <1>13 DEF Expire, Revoke, Live
  <1>14. CASE LogoutAll
    <2>1. \A t \in Tokens : Issued(t)' = Issued(t) /\ origin'[t].login = origin[t].login
      BY <1>14 DEF LogoutAll, RevokeAllUserTokens, Origin
    <2>2. registered' = registered
      BY <1>14 DEF LogoutAll, RevokeAllUserTokens
    <2> SUFFICES ASSUME NEW d \in Calls PROVE Request(d)'
      BY DEF Requests
    <2>3. /\ call'[d].pc = call[d].pc
          /\ call'[d].using = call[d].using
          /\ call'[d].from.login = call[d].from.login
          /\ call'[d].pc \notin {"rotate", "issue"} => call'[d] = call[d]
      BY <1>14, RevokeAllRequest DEF LogoutAll
    <2> QED BY <2>1, <2>2, <2>3 DEF Requests, Call
  <1>15. CASE Cleanup
    BY <1>15 DEF Cleanup, Revoke, Live
  <1>16. CASE Exit
    BY <1>16 DEF Exit
  <1>17. CASE UNCHANGED vars
    BY <1>17 DEF vars
  <1> QED BY <1>1, <1>2, <1>3, <1>4, <1>5, <1>6, <1>7, <1>8, <1>9, <1>10, <1>11, <1>12, <1>13, <1>14, <1>15, <1>16, <1>17 DEF Next

-----------------------------------------------------------------------------
(* Revocation of all tokens.                                                *)

LEMMA AccountStep ==
    ASSUME TypeOK, Requests, Account, [Next]_vars
    PROVE  Account'
  <1> SUFFICES ASSUME ~registered' PROVE password' = 0
    BY DEF Account
  <1>1. ASSUME NEW c \in Calls, UpdatePassword(c)
        PROVE  FALSE
    BY <1>1 DEF UpdatePassword, Requests, Request
  <1>2. CASE UNCHANGED vars
    BY <1>2 DEF vars, Account
  <1> QED BY <1>1, <1>2 DEF Account, Next, Register, InsertUser, Login, Rotate,
        GenerateRefreshToken, ChangePassword, FinishChange, Abort, AbortMidway,
        ValidateRefreshToken, Logout, Expire, LogoutAll, RevokeAllUserTokens,
        Cleanup, Exit

\* A revocation leaves no live token, and marks every request that goes on.
LEMMA RevokeAllEscapes ==
    ASSUME TypeOK, Serials, NEW calls \in [Calls -> Call],
           \A c \in Calls : calls[c] \in {call[c], IdleCall},
           RevokeAllUserTokens(calls)
    PROVE  /\ \A t \in Tokens : ~Live(t)'
           /\ \A c \in Calls : Working(c)' => call'[c].from.old /\ call'[c].from.escaped
  <1>1. \A t \in Tokens : ~Live(t)'
    BY DEF RevokeAllUserTokens, TypeOK, Row, Issued, Live
  <1> QED BY <1>1, RevokeAllRequest DEF Working

LEMMA FinishEscapes ==
    ASSUME TypeOK, Serials, NEW c \in Calls, FinishChange(c)
    PROVE  /\ \A t \in Tokens : ~Live(t)'
           /\ \A d \in Calls : Working(d)' => call'[d].from.old /\ call'[d].from.escaped
  <1> DEFINE calls == [call EXCEPT ![c] = IdleCall]
  <1>1. calls \in [Calls -> Call] /\ \A d \in Calls : calls[d] \in {call[d], IdleCall}
    BY FinishType DEF TypeOK
  <1>2. RevokeAllUserTokens(calls)
    BY DEF FinishChange
  <1> HIDE DEF calls
  <1> QED BY <1>1, <1>2, RevokeAllEscapes

LEMMA LogoutAllEscapes ==
    ASSUME TypeOK, Serials, LogoutAll
    PROVE  /\ \A t \in Tokens : ~Live(t)'
           /\ \A d \in Calls : Working(d)' => call'[d].from.old /\ call'[d].from.escaped
  BY RevokeAllEscapes DEF LogoutAll, TypeOK

\* Every step keeps what escapes a revocation marked.
LEMMA EscapesStep ==
    ASSUME TypeOK, Serials, Requests, Escapes, [Next]_vars
    PROVE  Escapes'
  <1> USE DEF TypeOK, Escapes, LogoutAllSticks, Live, Working, Call, IdleCall, BlankOrigin
  <1>1. ASSUME NEW c \in Calls, Register(c)
       PROVE  Escapes'
    BY <1>1 DEF Register, Begin
  <1>2. ASSUME NEW c \in Calls, InsertUser(c)
       PROVE  Escapes'
    BY <1>2 DEF InsertUser, Goto, Return, Requests, Request
  <1>3. ASSUME NEW c \in Calls, Login(c)
       PROVE  Escapes'
    BY <1>3 DEF Login, Begin
  <1>4. ASSUME NEW c \in Calls, Rotate(c)
       PROVE  Escapes'
    BY <1>4 DEF Rotate, Goto, Revoke
  <1>5. ASSUME NEW c \in Calls, GenerateRefreshToken(c)
       PROVE  Escapes'
    <2>1. /\ \A t \in Tokens : Live(t)' /\ t # serial + 1 => Live(t) /\ origin'[t] = origin[t]
          /\ origin'[serial + 1].old = call[c].from.old
          /\ origin'[serial + 1].escaped = call[c].from.escaped
          /\ origin'[serial + 1].password = call[c].from.password
          /\ Working(c)
          /\ \A d \in Calls : Working(d)' => d # c /\ call'[d] = call[d]
      BY <1>5, GenerateLive
    <2> QED BY <2>1
  <1>6. ASSUME NEW c \in Calls, ChangePassword(c)
       PROVE  Escapes'
    BY <1>6 DEF ChangePassword, Begin
  <1>7. ASSUME NEW c \in Calls, UpdatePassword(c)
       PROVE  Escapes'
    BY <1>7 DEF UpdatePassword, Goto
  <1>8. ASSUME NEW c \in Calls, FinishChange(c)
       PROVE  Escapes'
    BY <1>8, FinishEscapes
  <1>9. ASSUME NEW c \in Calls, Abort(c)
       PROVE  Escapes'
    BY <1>9 DEF Abort, Return, Midway
  <1>10. ASSUME NEW c \in Calls, AbortMidway(c)
       PROVE  Escapes'
    BY <1>10 DEF AbortMidway, Return, Midway, Fault
  <1>11. ASSUME NEW c \in Calls, NEW t \in Tokens, ValidateRefreshToken(c, t)
       PROVE  Escapes'
    BY <1>11 DEF ValidateRefreshToken, Begin
  <1>12. ASSUME NEW t \in Tokens, Logout(t)
       PROVE  Escapes'
    BY <1>12 DEF Logout, Revoke
  <1>13. ASSUME NEW t \in Tokens, Expire(t)
       PROVE  Escapes'
    BY <1>13 DEF Expire
  <1>14. CASE LogoutAll
    BY <1>14, LogoutAllEscapes
  <1>15. CASE Cleanup
    BY <1>15 DEF Cleanup
  <1>16. CASE Exit
    BY <1>16 DEF Exit, Midway, Fault
  <1>17. CASE UNCHANGED vars
    BY <1>17 DEF vars
  <1> QED BY <1>1, <1>2, <1>3, <1>4, <1>5, <1>6, <1>7, <1>8, <1>9, <1>10, <1>11, <1>12, <1>13, <1>14, <1>15, <1>16, <1>17 DEF Next

\* Every step keeps tokens of earlier passwords excused.
LEMMA CutsStep ==
    ASSUME TypeOK, Serials, Requests, Account, Cuts, [Next]_vars
    PROVE  Cuts'
  <1> USE DEF TypeOK, Cuts, Live, Working, Call, IdleCall, BlankOrigin
  <1>1. ASSUME NEW c \in Calls, Register(c)
       PROVE  Cuts'
    <2>1. \A p : Excused(p) => Excused(p)'
      BY <1>1 DEF Register, Begin, Excused
    <2> QED BY <1>1, <2>1 DEF Register, Begin
  <1>2. ASSUME NEW c \in Calls, InsertUser(c)
       PROVE  Cuts'
    <2>1. \A p : Excused(p) => Excused(p)'
      BY <1>2 DEF InsertUser, Goto, Return, Excused
    <2>2. password' = password /\ (call'[c].pc = "issue" => call'[c].from.password = password)
      BY <1>2 DEF InsertUser, Goto, Return, Excused, Account, Requests, Request
    <2>3. Excused(password)
      BY DEF Excused
    <2> QED BY <1>2, <2>1, <2>2, <2>3 DEF InsertUser, Goto, Return
  <1>3. ASSUME NEW c \in Calls, Login(c)
       PROVE  Cuts'
    <2>1. \A p : Excused(p) => Excused(p)'
      BY <1>3 DEF Login, Begin, Excused
    <2>2. password' = password /\ call'[c].from.password = password
      BY <1>3 DEF Login, Begin
    <2>3. Excused(password)
      BY DEF Excused
    <2> QED BY <1>3, <2>1, <2>2, <2>3 DEF Login, Begin
  <1>4. ASSUME NEW c \in Calls, Rotate(c)
       PROVE  Cuts'
    <2>1. \A p : Excused(p) => Excused(p)'
      BY <1>4 DEF Rotate, Goto, Revoke, Excused
    <2> QED BY <1>4, <2>1 DEF Rotate, Goto, Revoke
  <1>5. ASSUME NEW c \in Calls, GenerateRefreshToken(c)
       PROVE  Cuts'
    <2>1. /\ \A t \in Tokens : Live(t)' /\ t # serial + 1 => Live(t) /\ origin'[t] = origin[t]
          /\ origin'[serial + 1].old = call[c].from.old
          /\ origin'[serial + 1].escaped = call[c].from.escaped
          /\ origin'[serial + 1].password = call[c].from.password
          /\ Working(c)
          /\ \A d \in Calls : Working(d)' => d # c /\ call'[d] = call[d]
      BY <1>5, GenerateLive
    <2>5. \A p : Excused(p) => Excused(p)'
      BY <1>5 DEF GenerateRefreshToken, Return, Excused
    <2> QED BY <2>1, <2>5
  <1>6. ASSUME NEW c \in Calls, ChangePassword(c)
       PROVE  Cuts'
    <2>1. \A p : Excused(p) => Excused(p)'
      BY <1>6 DEF ChangePassword, Begin, Excused
    <2> QED BY <1>6, <2>1 DEF ChangePassword, Begin
  <1>7. ASSUME NEW c \in Calls, UpdatePassword(c)
       PROVE  Cuts'
    <2>1. \A p : Excused(p)'
      BY <1>7 DEF UpdatePassword, Goto, Excused
    <2> QED BY <2>1
  <1>8. ASSUME NEW c \in Calls, FinishChange(c)
       PROVE  Cuts'
    BY <1>8, FinishEscapes
  <1>9. ASSUME NEW c \in Calls, Abort(c)
       PROVE  Cuts'
    <2>1. \A p : Excused(p) => Excused(p)'
      BY <1>9 DEF Abort, Return, Midway, Excused
    <2> QED BY <1>9, <2>1 DEF Abort, Return, Midway
  <1>10. ASSUME NEW c \in Calls, AbortMidway(c)
       PROVE  Cuts'
    <2>1. \A p : Excused(p)'
      BY <1>10 DEF AbortMidway, Fault, Excused
    <2> QED BY <2>1
  <1>11. ASSUME NEW c \in Calls, NEW t \in Tokens, ValidateRefreshToken(c, t)
       PROVE  Cuts'
    <2>1. \A p : Excused(p) => Excused(p)'
      BY <1>11 DEF ValidateRefreshToken, Begin, Excused
    <2> QED BY <1>11, <2>1 DEF ValidateRefreshToken, Begin
  <1>12. ASSUME NEW t \in Tokens, Logout(t)
       PROVE  Cuts'
    <2>1. \A p : Excused(p) => Excused(p)'
      BY <1>12 DEF Logout, Revoke, Excused
    <2> QED BY <1>12, <2>1 DEF Logout, Revoke
  <1>13. ASSUME NEW t \in Tokens, Expire(t)
       PROVE  Cuts'
    <2>1. \A p : Excused(p) => Excused(p)'
      BY <1>13 DEF Expire, Excused
    <2> QED BY <1>13, <2>1 DEF Expire
  <1>14. CASE LogoutAll
    BY <1>14, LogoutAllEscapes
  <1>15. CASE Cleanup
    <2>1. \A p : Excused(p) => Excused(p)'
      BY <1>15 DEF Cleanup, Excused
    <2> QED BY <1>15, <2>1 DEF Cleanup
  <1>16. CASE Exit
    <2>1. \A p : Excused(p)'
      BY <1>16 DEF Exit, Fault, Excused
    <2> QED BY <2>1
  <1>17. CASE UNCHANGED vars
    BY <1>17 DEF vars, Excused
  <1> QED BY <1>1, <1>2, <1>3, <1>4, <1>5, <1>6, <1>7, <1>8, <1>9, <1>10, <1>11, <1>12, <1>13, <1>14, <1>15, <1>16, <1>17 DEF Next

-----------------------------------------------------------------------------
(* Logins survive.                                                          *)

\* A live token of the login, or a request about to issue one.
Kept(r) ==
    \/ \E t \in Tokens : Live(t) /\ origin[t].login = r
    \/ \E c \in Calls : call[c].pc = "issue" /\ call[c].from.login = r

\* Steps that end no login of a token, change no row and drop no such request.
LEMMA KeptStays ==
    ASSUME NEW r, Kept(r),
           \A u \in Tokens : Live(u) /\ origin[u].login = r =>
                                Live(u)' /\ origin'[u].login = r,
           \A c \in Calls : call[c].pc = "issue" /\ call[c].from.login = r =>
                                call'[c].pc = "issue" /\ call'[c].from.login = r
    PROVE  Kept(r)'
  BY DEF Kept

\* Every step keeps the logins it does not end.
LEMMA SurvivesStep ==
    ASSUME TypeOK, Serials, Requests, LoginSurvives, [Next]_vars
    PROVE  LoginSurvives'
  <1> SUFFICES ASSUME NEW r \in Tokens, r <= serial', origin'[r].login = r, r \notin ended'
               PROVE  Kept(r)'
    BY DEF LoginSurvives, Kept
  <1>1. ASSUME NEW c \in Calls, Register(c)
       PROVE  Kept(r)'
    <2>1. Kept(r)
      BY <1>1 DEF Register, Begin, LoginSurvives, Kept
    <2>2. \A u \in Tokens : Live(u) /\ origin[u].login = r =>
                                Live(u)' /\ origin'[u].login = r
      BY <1>1 DEF Register, Begin, Live
    <2>3. \A d \in Calls : call[d].pc = "issue" /\ call[d].from.login = r =>
                                call'[d].pc = "issue" /\ call'[d].from.login = r
      BY <1>1 DEF Register, Begin, TypeOK
    <2> QED BY <2>1, <2>2, <2>3, KeptStays
  <1>2. ASSUME NEW c \in Calls, InsertUser(c)
       PROVE  Kept(r)'
    <2>1. Kept(r)
      BY <1>2 DEF InsertUser, Goto, Return, LoginSurvives, Kept
    <2>2. \A u \in Tokens : Live(u) /\ origin[u].login = r =>
                                Live(u)' /\ origin'[u].login = r
      BY <1>2 DEF InsertUser, Goto, Return, Live
    <2>3. \A d \in Calls : call[d].pc = "issue" /\ call[d].from.login = r =>
                                call'[d].pc = "issue" /\ call'[d].from.login = r
      BY <1>2 DEF InsertUser, Goto, Return, TypeOK, Requests, Request, BlankOrigin, NoToken, Tokens
    <2> QED BY <2>1, <2>2, <2>3, KeptStays
  <1>3. ASSUME NEW c \in Calls, Login(c)
       PROVE  Kept(r)'
    <2>1. Kept(r)
      BY <1>3 DEF Login, Begin, LoginSurvives, Kept
    <2>2. \A u \in Tokens : Live(u) /\ origin[u].login = r =>
                                Live(u)' /\ origin'[u].login = r
      BY <1>3 DEF Login, Begin, Live
    <2>3. \A d \in Calls : call[d].pc = "issue" /\ call[d].from.login = r =>
                                call'[d].pc = "issue" /\ call'[d].from.login = r
      BY <1>3 DEF Login, Begin, TypeOK
    <2> QED BY <2>1, <2>2, <2>3, KeptStays
  <1>4. ASSUME NEW c \in Calls, Rotate(c)
       PROVE  Kept(r)'
    <2>1. Kept(r)
      BY <1>4 DEF Rotate, LoginSurvives, Kept
    <2>2. /\ call'[c].pc = "issue" /\ call'[c].from.login = call[c].from.login
          /\ call[c].from.login = origin[call[c].using].login
      BY <1>4 DEF Rotate, Goto, TypeOK, Call, Requests, Request
    <2>3. CASE call[c].from.login = r
      BY <2>2, <2>3 DEF Kept
    <2>4. CASE call[c].from.login # r
      <3>1. \A u \in Tokens : Live(u) /\ origin[u].login = r =>
                                Live(u)' /\ origin'[u].login = r
        BY <1>4, <2>2, <2>4 DEF Rotate, Revoke, Live, TypeOK
      <3>2. \A d \in Calls : call[d].pc = "issue" /\ call[d].from.login = r =>
                                call'[d].pc = "issue" /\ call'[d].from.login = r
        BY <1>4 DEF Rotate, Goto, TypeOK
      <3> QED BY <2>1, <3>1, <3>2, KeptStays
    <2> QED BY <2>3, <2>4
  <1>5. ASSUME NEW c \in Calls, GenerateRefreshToken(c)
       PROVE  Kept(r)'
    <2>1. PICK new \in Tokens :
             /\ new = serial + 1 /\ serial' = serial + 1
             /\ token'[new] = "live"
             /\ \A t \in Tokens : t # new => token'[t] = token[t] /\ origin'[t] = origin[t]
      BY <1>5, GenerateEffect
    <2>2. origin'[new].login = IF call[c].using = NoToken THEN new ELSE call[c].from.login
      BY <1>5, <2>1, GenerateEffect DEF TypeOK, Call, Origin
    <2>3. CASE r = new
      BY <2>1, <2>2, <2>3 DEF Kept, Live
    <2>4. CASE r # new
      <3>1. Kept(r)
        <4>1. r <= serial
          BY <2>1, <2>4 DEF TypeOK, Tokens
        <4>2. origin[r].login = r /\ r \notin ended
          BY <1>5, <2>1, <2>4 DEF GenerateRefreshToken
        <4> QED BY <4>1, <4>2 DEF LoginSurvives, Kept
      <3>2. ~Live(new)
        BY <2>1, BoundsAssumption DEF Serials, Issued, Live, TypeOK
      <3>3. CASE \E t \in Tokens : Live(t) /\ origin[t].login = r
        BY <2>1, <3>2, <3>3 DEF Kept, Live
      <3>4. CASE \E d \in Calls : d # c /\ call[d].pc = "issue" /\ call[d].from.login = r
        BY <1>5, <3>4 DEF GenerateRefreshToken, Return, Kept, TypeOK
      <3>5. CASE call[c].from.login = r
        <4>1. call[c].using # NoToken
          BY <3>5 DEF Requests, Request, NoToken, Tokens
        <4> QED BY <2>1, <2>2, <3>5, <4>1 DEF Kept, Live
      <3> QED BY <3>1, <3>3, <3>4, <3>5 DEF Kept
    <2> QED BY <2>3, <2>4
  <1>6. ASSUME NEW c \in Calls, ChangePassword(c)
       PROVE  Kept(r)'
    <2>1. Kept(r)
      BY <1>6 DEF ChangePassword, Begin, LoginSurvives, Kept
    <2>2. \A u \in Tokens : Live(u) /\ origin[u].login = r =>
                                Live(u)' /\ origin'[u].login = r
      BY <1>6 DEF ChangePassword, Begin, Live
    <2>3. \A d \in Calls : call[d].pc = "issue" /\ call[d].from.login = r =>
                                call'[d].pc = "issue" /\ call'[d].from.login = r
      BY <1>6 DEF ChangePassword, Begin, TypeOK
    <2> QED BY <2>1, <2>2, <2>3, KeptStays
  <1>7. ASSUME NEW c \in Calls, UpdatePassword(c)
       PROVE  Kept(r)'
    <2>1. Kept(r)
      BY <1>7 DEF UpdatePassword, Goto, LoginSurvives, Kept
    <2>2. \A u \in Tokens : Live(u) /\ origin[u].login = r =>
                                Live(u)' /\ origin'[u].login = r
      BY <1>7 DEF UpdatePassword, Goto, Live
    <2>3. \A d \in Calls : call[d].pc = "issue" /\ call[d].from.login = r =>
                                call'[d].pc = "issue" /\ call'[d].from.login = r
      BY <1>7 DEF UpdatePassword, Goto, TypeOK
    <2> QED BY <2>1, <2>2, <2>3, KeptStays
  <1>8. ASSUME NEW c \in Calls, FinishChange(c)
       PROVE  Kept(r)'
    <2>1. /\ ended' = {origin[t].login : t \in 1..serial} /\ serial' = serial
          /\ \A t \in Tokens : origin'[t].login = origin[t].login
      BY <1>8 DEF FinishChange, RevokeAllUserTokens, TypeOK, Origin
    <2>2. r \in 1..serial
      BY <2>1 DEF Tokens, TypeOK
    <2> QED BY <2>1, <2>2
  <1>9. ASSUME NEW c \in Calls, Abort(c)
       PROVE  Kept(r)'
    <2>1. Kept(r)
      BY <1>9 DEF Abort, Return, Midway, LoginSurvives, Kept
    <2>2. \A u \in Tokens : Live(u) /\ origin[u].login = r =>
                                Live(u)' /\ origin'[u].login = r
      BY <1>9 DEF Abort, Return, Midway, Live
    <2>3. \A d \in Calls : call[d].pc = "issue" /\ call[d].from.login = r =>
                                call'[d].pc = "issue" /\ call'[d].from.login = r
      BY <1>9 DEF Abort, Return, Midway, TypeOK, Requests, Request, NoToken, Tokens, Working
    <2> QED BY <2>1, <2>2, <2>3, KeptStays
  <1>10. ASSUME NEW c \in Calls, AbortMidway(c)
       PROVE  Kept(r)'
    <2>1. Kept(r)
      BY <1>10 DEF AbortMidway, Return, Midway, Fault, LoginSurvives, Kept
    <2>2. \A u \in Tokens : Live(u) /\ origin[u].login = r =>
                                Live(u)' /\ origin'[u].login = r
      BY <1>10 DEF AbortMidway, Return, Midway, Fault, Live
    <2>3. \A d \in Calls : call[d].pc = "issue" /\ call[d].from.login = r =>
                                call'[d].pc = "issue" /\ call'[d].from.login = r
      BY <1>10 DEF AbortMidway, Return, Midway, Fault, TypeOK, Requests, Request, NoToken, Tokens, Working
    <2> QED BY <2>1, <2>2, <2>3, KeptStays
  <1>11. ASSUME NEW c \in Calls, NEW t \in Tokens, ValidateRefreshToken(c, t)
       PROVE  Kept(r)'
    <2>1. Kept(r)
      BY <1>11 DEF ValidateRefreshToken, Begin, LoginSurvives, Kept
    <2>2. \A u \in Tokens : Live(u) /\ origin[u].login = r =>
                                Live(u)' /\ origin'[u].login = r
      BY <1>11 DEF ValidateRefreshToken, Begin, Live
    <2>3. \A d \in Calls : call[d].pc = "issue" /\ call[d].from.login = r =>
                                call'[d].pc = "issue" /\ call'[d].from.login = r
      BY <1>11 DEF ValidateRefreshToken, Begin, TypeOK
    <2> QED BY <2>1, <2>2, <2>3, KeptStays
  <1>12. ASSUME NEW t \in Tokens, Logout(t)
       PROVE  Kept(r)'
    <2>1. Kept(r)
      BY <1>12 DEF Logout, Revoke, Live, LoginSurvives, Kept
    <2>2. \A u \in Tokens : Live(u) /\ origin[u].login = r =>
                                Live(u)' /\ origin'[u].login = r
      BY <1>12 DEF Logout, Revoke, Live
    <2>3. \A d \in Calls : call[d].pc = "issue" /\ call[d].from.login = r =>
                                call'[d].pc = "issue" /\ call'[d].from.login = r
      BY <1>12 DEF Logout, Revoke, TypeOK
    <2> QED BY <2>1, <2>2, <2>3, KeptStays
  <1>13. ASSUME NEW t \in Tokens, Expire(t)
       PROVE  Kept(r)'
    <2>1. Kept(r)
      BY <1>13 DEF Expire, Live, LoginSurvives, Kept
    <2>2. \A u \in Tokens : Live(u) /\ origin[u].login = r =>
                                Live(u)' /\ origin'[u].login = r
      BY <1>13 DEF Expire, Live
    <2>3. \A d \in Calls : call[d].pc = "issue" /\ call[d].from.login = r =>
                                call'[d].pc = "issue" /\ call'[d].from.login = r
      BY <1>13 DEF Expire, Live, TypeOK
    <2> QED BY <2>1, <2>2, <2>3, KeptStays
  <1>14. CASE LogoutAll
    <2>1. /\ ended' = {origin[t].login : t \in 1..serial} /\ serial' = serial
          /\ \A t \in Tokens : origin'[t].login = origin[t].login
      BY <1>14 DEF LogoutAll, RevokeAllUserTokens, TypeOK, Origin
    <2>2. r \in 1..serial
      BY <2>1 DEF Tokens, TypeOK
    <2> QED BY <2>1, <2>2
  <1>15. CASE Cleanup
    <2>1. Kept(r)
      BY <1>15 DEF Cleanup, Live, LoginSurvives, Kept
    <2>2. \A u \in Tokens : Live(u) /\ origin[u].login = r =>
                                Live(u)' /\ origin'[u].login = r
      BY <1>15 DEF Cleanup, Live
    <2>3. \A d \in Calls : call[d].pc = "issue" /\ call[d].from.login = r =>
                                call'[d].pc = "issue" /\ call'[d].from.login = r
      BY <1>15 DEF Cleanup, Live, TypeOK
    <2> QED BY <2>1, <2>2, <2>3, KeptStays
  <1>16. CASE Exit
    <2>1. Kept(r)
      BY <1>16 DEF Exit, LoginSurvives, Kept
    <2>2. \A d \in Calls : call[d].pc = "issue" => call[d].from.login # r
      BY <1>16 DEF Exit, Midway, Requests, Request, NoToken, Tokens
    <2> QED BY <1>16, <2>1, <2>2 DEF Exit, Kept, Live
  <1>17. CASE UNCHANGED vars
    BY <1>17 DEF vars, LoginSurvives, Kept, Live
  <1> QED BY <1>1, <1>2, <1>3, <1>4, <1>5, <1>6, <1>7, <1>8, <1>9, <1>10, <1>11, <1>12, <1>13, <1>14, <1>15, <1>16, <1>17 DEF Next

-----------------------------------------------------------------------------
(* Exchanges of one token.                                                  *)

\* Until the first exchange revokes it a token has no successor, and nobody is
\* about to issue one.
Unspent ==
    \A t \in Tokens : token[t] # "dead" =>
       /\ successors[t] = 0
       /\ \A c \in Calls : call[c].using = t => call[c].pc = "rotate"

Users(t) == {c \in Calls : call[c].using = t}

\* From then on the requests that exchange it only become fewer.
Exchanges ==
    \A t \in Tokens : successors[t] + Cardinality(Users(t)) <= Cardinality(Calls)

LEMMA UsersFinite ==
    ASSUME NEW S \in SUBSET Calls
    PROVE  /\ IsFiniteSet(S)
           /\ Cardinality(S) \in Nat
           /\ Cardinality(S) <= Cardinality(Calls)
           /\ Cardinality(Calls) \in Nat
  BY BoundsAssumption, FS_Subset, FS_CardinalityType

\* Steps in which no request takes a token up.
LEMMA ExchangesStay ==
    ASSUME TypeOK, Exchanges, successors' = successors,
           \A c \in Calls : call'[c].using \in {call[c].using, NoToken}
    PROVE  Exchanges'
  <1> SUFFICES ASSUME NEW t \in Tokens
               PROVE  successors'[t] + Cardinality(Users(t)') <= Cardinality(Calls)
    BY DEF Exchanges
  <1>1. Users(t)' \subseteq Users(t)
    BY DEF Users, NoToken, Tokens
  <1>2. Cardinality(Users(t)') <= Cardinality(Users(t))
    BY <1>1, UsersFinite, FS_Subset DEF Users
  <1>3. Cardinality(Users(t)') \in Nat /\ Cardinality(Users(t)) \in Nat
    BY UsersFinite DEF Users
  <1>4. Cardinality(Calls) \in Nat
    BY BoundsAssumption, FS_CardinalityType
  <1> QED BY <1>2, <1>3, <1>4 DEF Exchanges, TypeOK

\* Steps that exchange no token and take none up.
LEMMA UnspentStay ==
    ASSUME Unspent, successors' = successors,
           \A t \in Tokens : token'[t] # "dead" => token[t] # "dead",
           \A d \in Calls : \/ call'[d].using = NoToken
                            \/ call'[d].using = call[d].using /\ call'[d].pc = call[d].pc
    PROVE  Unspent'
  <1>1. NoToken \notin Tokens
    BY DEF NoToken, Tokens
  <1> QED BY <1>1 DEF Unspent

\* A revocation of all tokens takes no token up.
LEMMA RevokeAllUnspent ==
    ASSUME TypeOK, Serials, Unspent, NEW calls \in [Calls -> Call],
           RevokeAllUserTokens(calls),
           \A d \in Calls : calls[d] \in {call[d], IdleCall}
    PROVE  Unspent'
  <1>1. \A d \in Calls : \/ call'[d].using = NoToken
                         \/ call'[d].using = call[d].using /\ call'[d].pc = call[d].pc
    BY RevokeAllRequest DEF IdleCall
  <1>2. successors' = successors
    BY DEF RevokeAllUserTokens
  <1>3. \A t \in Tokens : token'[t] # "dead" => token[t] # "dead"
    BY DEF RevokeAllUserTokens, Issued
  <1> QED BY <1>1, <1>2, <1>3, UnspentStay

\* A request that is not exchanging a token has none in hand.
LEMMA NothingInHand ==
    ASSUME Requests, NEW c \in Calls, call[c].pc \notin {"rotate", "issue"}
    PROVE  call[c].using = NoToken
  BY DEF Requests, Request, Working

\* Every step keeps unspent tokens unspent.
LEMMA UnspentStep ==
    ASSUME TypeOK, Serials, Requests, Unspent, [Next]_vars
    PROVE  Unspent'
  <1>0. call \in [Calls -> Call] /\ token \in [Tokens -> Row]
    BY DEF TypeOK
  <1>1. ASSUME NEW c \in Calls, Register(c)
       PROVE  Unspent'
    <2>1. \A d \in Calls : \/ call'[d].using = NoToken
                           \/ call'[d].using = call[d].using /\ call'[d].pc = call[d].pc
      BY <1>0, <1>1 DEF Register, Begin
    <2>2. successors' = successors /\ \A t \in Tokens : token'[t] # "dead" => token[t] # "dead"
      BY <1>0, <1>1 DEF Register, Begin
    <2> QED BY <2>1, <2>2, UnspentStay
  <1>2. ASSUME NEW c \in Calls, InsertUser(c)
       PROVE  Unspent'
    <2>1. \A d \in Calls : \/ call'[d].using = NoToken
                           \/ call'[d].using = call[d].using /\ call'[d].pc = call[d].pc
      <3>1. call[c].using = NoToken
        BY <1>2, NothingInHand DEF InsertUser
      <3>2. call'[c].using \in {call[c].using, NoToken}
        BY <1>0, <1>2 DEF InsertUser, Goto, Return, IdleCall, Call
      <3>3. \A d \in Calls : d # c => call'[d] = call[d]
        BY <1>0, <1>2 DEF InsertUser, Goto, Return
      <3> QED BY <3>1, <3>2, <3>3
    <2>2. successors' = successors /\ \A t \in Tokens : token'[t] # "dead" => token[t] # "dead"
      BY <1>0, <1>2 DEF InsertUser, Goto, Return, IdleCall
    <2> QED BY <2>1, <2>2, UnspentStay
  <1>3. ASSUME NEW c \in Calls, Login(c)
       PROVE  Unspent'
    <2>1. \A d \in Calls : \/ call'[d].using = NoToken
                           \/ call'[d].using = call[d].using /\ call'[d].pc = call[d].pc
      BY <1>0, <1>3 DEF Login, Begin
    <2>2. successors' = successors /\ \A t \in Tokens : token'[t] # "dead" => token[t] # "dead"
      BY <1>0, <1>3 DEF Login, Begin
    <2> QED BY <2>1, <2>2, UnspentStay
  <1>4. ASSUME NEW c \in Calls, Rotate(c)
       PROVE  Unspent'
    <2>1. \A t \in Tokens : token'[t] # "dead" => token[t] # "dead" /\ t # call[c].using
      BY <1>0, <1>4 DEF Rotate, Revoke
    <2>2. successors' = successors
      BY <1>4 DEF Rotate
    <2>3. \A d \in Calls : /\ call'[d].using = call[d].using
                           /\ d # c => call'[d] = call[d]
      BY <1>0, <1>4 DEF Rotate, Goto, Call
    <2> QED BY <2>1, <2>2, <2>3 DEF Unspent
  <1>5. ASSUME NEW c \in Calls, GenerateRefreshToken(c)
       PROVE  Unspent'
    <2>1. PICK new \in Tokens :
             /\ new = serial + 1
             /\ \A t \in Tokens : t # new => token'[t] = token[t]
      BY <1>5, GenerateEffect
    <2>2. token[new] # "dead"
      BY <2>1, BoundsAssumption DEF Serials, Issued, TypeOK, Tokens
    <2>3. call[c].pc = "issue"
      BY <1>5 DEF GenerateRefreshToken
    <2>4. \A t \in Tokens : t # call[c].using => successors'[t] = successors[t]
      BY <1>5 DEF GenerateRefreshToken, TypeOK
    <2>5. \A d \in Calls : d # c => call'[d] = call[d]
      BY <1>0, <1>5 DEF GenerateRefreshToken, Return
    <2>6. call'[c].using = NoToken
      BY <1>0, <1>5 DEF GenerateRefreshToken, Return, IdleCall
    <2>7. \A t \in Tokens : token'[t] # "dead" => token[t] # "dead"
      BY <2>1, <2>2
    <2>8. NoToken \notin Tokens
      BY DEF NoToken, Tokens
    <2> QED BY <2>3, <2>4, <2>5, <2>6, <2>7, <2>8 DEF Unspent
  <1>6. ASSUME NEW c \in Calls, ChangePassword(c)
       PROVE  Unspent'
    <2>1. \A d \in Calls : \/ call'[d].using = NoToken
                           \/ call'[d].using = call[d].using /\ call'[d].pc = call[d].pc
      BY <1>0, <1>6 DEF ChangePassword, Begin
    <2>2. successors' = successors /\ \A t \in Tokens : token'[t] # "dead" => token[t] # "dead"
      BY <1>0, <1>6 DEF ChangePassword, Begin
    <2> QED BY <2>1, <2>2, UnspentStay
  <1>7. ASSUME NEW c \in Calls, UpdatePassword(c)
       PROVE  Unspent'
    <2>1. \A d \in Calls : \/ call'[d].using = NoToken
                           \/ call'[d].using = call[d].using /\ call'[d].pc = call[d].pc
      BY <1>0, <1>7, NothingInHand DEF UpdatePassword, Goto
    <2>2. successors' = successors /\ \A t \in Tokens : token'[t] # "dead" => token[t] # "dead"
      BY <1>0, <1>7 DEF UpdatePassword, Goto
    <2> QED BY <2>1, <2>2, UnspentStay
  <1>8. ASSUME NEW c \in Calls, FinishChange(c)
       PROVE  Unspent'
    <2> DEFINE calls == [call EXCEPT ![c] = IdleCall]
    <2>1. calls \in [Calls -> Call]
      BY <1>0, FinishType
    <2>2. \A d \in Calls : calls[d] \in {call[d], IdleCall}
      BY <1>0
    <2>3. RevokeAllUserTokens(calls)
      BY <1>8 DEF FinishChange
    <2> HIDE DEF calls
    <2> QED BY <2>1, <2>2, <2>3, RevokeAllUnspent
  <1>9. ASSUME NEW c \in Calls, Abort(c)
       PROVE  Unspent'
    <2>1. \A d \in Calls : \/ call'[d].using = NoToken
                           \/ call'[d].using = call[d].using /\ call'[d].pc = call[d].pc
      BY <1>0, <1>9 DEF Abort, Return, IdleCall
    <2>2. successors' = successors /\ \A t \in Tokens : token'[t] # "dead" => token[t] # "dead"
      BY <1>0, <1>9 DEF Abort, Return, IdleCall
    <2> QED BY <2>1, <2>2, UnspentStay
  <1>10. ASSUME NEW c \in Calls, AbortMidway(c)
       PROVE  Unspent'
    <2>1. \A d \in Calls : \/ call'[d].using = NoToken
                           \/ call'[d].using = call[d].using /\ call'[d].pc = call[d].pc
      BY <1>0, <1>10 DEF AbortMidway, Return, IdleCall
    <2>2. successors' = successors /\ \A t \in Tokens : token'[t] # "dead" => token[t] # "dead"
      BY <1>0, <1>10 DEF AbortMidway, Return, IdleCall
    <2> QED BY <2>1, <2>2, UnspentStay
  <1>11. ASSUME NEW c \in Calls, NEW t \in Tokens, ValidateRefreshToken(c, t)
       PROVE  Unspent'
    <2>1. \A d \in Calls : \/ d = c /\ call'[d].pc = "rotate"
                           \/ d # c /\ call'[d] = call[d]
      BY <1>0, <1>11 DEF ValidateRefreshToken, Begin
    <2>2. successors' = successors /\ token' = token
      BY <1>11 DEF ValidateRefreshToken
    <2> QED BY <2>1, <2>2 DEF Unspent
  <1>12. ASSUME NEW t \in Tokens, Logout(t)
       PROVE  Unspent'
    <2>1. call' = call /\ successors' = successors
      BY <1>12 DEF Logout, Revoke
    <2>2. \A u \in Tokens : token'[u] # "dead" => token[u] # "dead"
      BY <1>0, <1>12 DEF Logout, Revoke
    <2> QED BY <2>1, <2>2, UnspentStay
  <1>13. ASSUME NEW t \in Tokens, Expire(t)
       PROVE  Unspent'
    <2>1. call' = call /\ successors' = successors
      BY <1>13 DEF Expire, Live
    <2>2. \A u \in Tokens : token'[u] # "dead" => token[u] # "dead"
      BY <1>0, <1>13 DEF Expire, Live
    <2> QED BY <2>1, <2>2, UnspentStay
  <1>14. CASE LogoutAll
    BY <1>0, <1>14, RevokeAllUnspent DEF LogoutAll
  <1>15. CASE Cleanup
    <2>1. call' = call /\ successors' = successors
      BY <1>15 DEF Cleanup
    <2>2. \A u \in Tokens : token'[u] # "dead" => token[u] # "dead"
      BY <1>0, <1>15 DEF Cleanup
    <2> QED BY <2>1, <2>2, UnspentStay
  <1>16. CASE Exit
    <2>1. \A d \in Calls : \/ call'[d].using = NoToken
                           \/ call'[d].using = call[d].using /\ call'[d].pc = call[d].pc
      BY <1>0, <1>16 DEF Exit, IdleCall
    <2>2. successors' = successors /\ \A t \in Tokens : token'[t] # "dead" => token[t] # "dead"
      BY <1>0, <1>16 DEF Exit, IdleCall
    <2> QED BY <2>1, <2>2, UnspentStay
  <1>17. CASE UNCHANGED vars
    BY <1>17, UnspentStay DEF vars
  <1> QED BY <1>1, <1>2, <1>3, <1>4, <1>5, <1>6, <1>7, <1>8, <1>9, <1>10, <1>11, <1>12, <1>13,
             <1>14, <1>15, <1>16, <1>17 DEF Next

\* Every step keeps the count.
LEMMA ExchangesStep ==
    ASSUME TypeOK, Unspent, Exchanges, [Next]_vars
    PROVE  Exchanges'
  <1>1. ASSUME NEW c \in Calls, Register(c)
       PROVE  Exchanges'
    <2>1. successors' = successors
      BY <1>1 DEF Register, Begin
    <2>2. \A d \in Calls : call'[d].using \in {call[d].using, NoToken}
      BY <1>1 DEF Register, Begin, TypeOK, Call, IdleCall, NoToken
    <2> QED BY <2>1, <2>2, ExchangesStay
  <1>2. ASSUME NEW c \in Calls, InsertUser(c)
       PROVE  Exchanges'
    <2>1. successors' = successors
      BY <1>2 DEF InsertUser, Goto, Return
    <2>2. \A d \in Calls : call'[d].using \in {call[d].using, NoToken}
      BY <1>2 DEF InsertUser, Goto, Return, TypeOK, Call, IdleCall, NoToken
    <2> QED BY <2>1, <2>2, ExchangesStay
  <1>3. ASSUME NEW c \in Calls, Login(c)
       PROVE  Exchanges'
    <2>1. successors' = successors
      BY <1>3 DEF Login, Begin
    <2>2. \A d \in Calls : call'[d].using \in {call[d].using, NoToken}
      BY <1>3 DEF Login, Begin, TypeOK, Call, IdleCall, NoToken
    <2> QED BY <2>1, <2>2, ExchangesStay
  <1>4. ASSUME NEW c \in Calls, Rotate(c)
       PROVE  Exchanges'
    <2>1. successors' = successors
      BY <1>4 DEF Rotate, Goto, Revoke
    <2>2. \A d \in Calls : call'[d].using \in {call[d].using, NoToken}
      BY <1>4 DEF Rotate, Goto, Revoke, TypeOK, Call, IdleCall, NoToken
    <2> QED BY <2>1, <2>2, ExchangesStay
  <1>5. ASSUME NEW c \in Calls, GenerateRefreshToken(c)
       PROVE  Exchanges'
    <2>1. CASE call[c].using = NoToken
      <3>1. successors' = successors
        BY <1>5, <2>1 DEF GenerateRefreshToken
      <3>2. \A d \in Calls : call'[d].using \in {call[d].using, NoToken}
        BY <1>5 DEF GenerateRefreshToken, Return, TypeOK, Call, IdleCall, NoToken
      <3> QED BY <3>1, <3>2, ExchangesStay
    <2>2. CASE call[c].using # NoToken
      <3> SUFFICES ASSUME NEW u \in Tokens
                   PROVE  successors'[u] + Cardinality(Users(u)') <= Cardinality(Calls)
        BY DEF Exchanges
      <3>1. Users(u)' = Users(u) \ {c}
        BY <1>5 DEF GenerateRefreshToken, Return, Users, TypeOK, IdleCall, NoToken, Tokens
      <3>2. /\ IsFiniteSet(Users(u)) /\ Cardinality(Users(u)) \in Nat
            /\ Cardinality(Calls) \in Nat
        BY UsersFinite DEF Users
      <3>3. Cardinality(Users(u)') = IF c \in Users(u) THEN Cardinality(Users(u)) - 1
                                                     ELSE Cardinality(Users(u))
        BY <3>1, <3>2, FS_RemoveElement
      <3>4. c \in Users(u) <=> call[c].using = u
        BY DEF Users
      <3>5. successors'[u] = IF call[c].using = u THEN successors[u] + 1 ELSE successors[u]
        BY <1>5, <2>2 DEF GenerateRefreshToken, TypeOK
      <3> QED BY <3>2, <3>3, <3>4, <3>5 DEF Exchanges, TypeOK
    <2> QED BY <2>1, <2>2
  <1>6. ASSUME NEW c \in Calls, ChangePassword(c)
       PROVE  Exchanges'
    <2>1. successors' = successors
      BY <1>6 DEF ChangePassword, Begin
    <2>2. \A d \in Calls : call'[d].using \in {call[d].using, NoToken}
      BY <1>6 DEF ChangePassword, Begin, TypeOK, Call, IdleCall, NoToken
    <2> QED BY <2>1, <2>2, ExchangesStay
  <1>7. ASSUME NEW c \in Calls, UpdatePassword(c)
       PROVE  Exchanges'
    <2>1. successors' = successors
      BY <1>7 DEF UpdatePassword, Goto
    <2>2. \A d \in Calls : call'[d].using \in {call[d].using, NoToken}
      BY <1>7 DEF UpdatePassword, Goto, TypeOK, Call, IdleCall, NoToken
    <2> QED BY <2>1, <2>2, ExchangesStay
  <1>8. ASSUME NEW c \in Calls, FinishChange(c)
       PROVE  Exchanges'
    <2>1. successors' = successors
      BY <1>8 DEF FinishChange, RevokeAllUserTokens
    <2>2. \A d \in Calls : call'[d].using \in {call[d].using, NoToken}
      BY <1>8 DEF FinishChange, RevokeAllUserTokens, TypeOK, Call, IdleCall, NoToken
    <2> QED BY <2>1, <2>2, ExchangesStay
  <1>9. ASSUME NEW c \in Calls, Abort(c)
       PROVE  Exchanges'
    <2>1. successors' = successors
      BY <1>9 DEF Abort, Return, Midway
    <2>2. \A d \in Calls : call'[d].using \in {call[d].using, NoToken}
      BY <1>9 DEF Abort, Return, Midway, TypeOK, Call, IdleCall, NoToken
    <2> QED BY <2>1, <2>2, ExchangesStay
  <1>10. ASSUME NEW c \in Calls, AbortMidway(c)
       PROVE  Exchanges'
    <2>1. successors' = successors
      BY <1>10 DEF AbortMidway, Return, Midway, Fault
    <2>2. \A d \in Calls : call'[d].using \in {call[d].using, NoToken}
      BY <1>10 DEF AbortMidway, Return, Midway, Fault, TypeOK, Call, IdleCall, NoToken
    <2> QED BY <2>1, <2>2, ExchangesStay
  <1>11. ASSUME NEW c \in Calls, NEW t \in Tokens, ValidateRefreshToken(c, t)
       PROVE  Exchanges'
    <2>1. successors' = successors /\ successors[t] = 0
      BY <1>11 DEF ValidateRefreshToken, Live, Unspent
    <2>2. \A d \in Calls : call'[d].using \in {call[d].using, t}
      BY <1>11 DEF ValidateRefreshToken, Begin, TypeOK
    <2> SUFFICES ASSUME NEW u \in Tokens
                 PROVE  successors'[u] + Cardinality(Users(u)') <= Cardinality(Calls)
      BY DEF Exchanges
    <2>3. Users(u)' \subseteq Calls
      BY DEF Users
    <2>4. CASE u = t
      BY <2>1, <2>3, <2>4, UsersFinite DEF TypeOK
    <2>5. CASE u # t
      <3>1. Users(u)' \subseteq Users(u)
        BY <2>2, <2>5 DEF Users
      <3>2. Cardinality(Users(u)') <= Cardinality(Users(u))
        BY <3>1, UsersFinite, FS_Subset DEF Users
      <3>3. Cardinality(Users(u)') \in Nat /\ Cardinality(Users(u)) \in Nat
        BY UsersFinite DEF Users
      <3>4. Cardinality(Calls) \in Nat
        BY BoundsAssumption, FS_CardinalityType
      <3> QED BY <2>1, <3>2, <3>3, <3>4 DEF Exchanges, TypeOK
    <2> QED BY <2>4, <2>5
  <1>12. ASSUME NEW t \in Tokens, Logout(t)
       PROVE  Exchanges'
    <2>1. successors' = successors
      BY <1>12 DEF Logout, Revoke
    <2>2. \A d \in Calls : call'[d].using \in {call[d].using, NoToken}
      BY <1>12 DEF Logout, Revoke, TypeOK, Call, IdleCall, NoToken
    <2> QED BY <2>1, <2>2, ExchangesStay
  <1>13. ASSUME NEW t \in Tokens, Expire(t)
       PROVE  Exchanges'
    <2>1. successors' = successors
      BY <1>13 DEF Expire
    <2>2. \A d \in Calls : call'[d].using \in {call[d].using, NoToken}
      BY <1>13 DEF Expire, TypeOK, Call, IdleCall, NoToken
    <2> QED BY <2>1, <2>2, ExchangesStay
  <1>14. CASE LogoutAll
    <2>1. successors' = successors
      BY <1>14 DEF LogoutAll, RevokeAllUserTokens
    <2>2. \A d \in Calls : call'[d].using \in {call[d].using, NoToken}
      BY <1>14 DEF LogoutAll, RevokeAllUserTokens, TypeOK, Call, IdleCall, NoToken
    <2> QED BY <2>1, <2>2, ExchangesStay
  <1>15. CASE Cleanup
    <2>1. successors' = successors
      BY <1>15 DEF Cleanup
    <2>2. \A d \in Calls : call'[d].using \in {call[d].using, NoToken}
      BY <1>15 DEF Cleanup, TypeOK, Call, IdleCall, NoToken
    <2> QED BY <2>1, <2>2, ExchangesStay
  <1>16. CASE Exit
    <2>1. successors' = successors
      BY <1>16 DEF Exit, Midway, Fault
    <2>2. \A d \in Calls : call'[d].using \in {call[d].using, NoToken}
      BY <1>16 DEF Exit, Midway, Fault, TypeOK, Call, IdleCall, NoToken
    <2> QED BY <2>1, <2>2, ExchangesStay
  <1>17. CASE UNCHANGED vars
    BY <1>17, ExchangesStay DEF vars
  <1> QED BY <1>1, <1>2, <1>3, <1>4, <1>5, <1>6, <1>7, <1>8, <1>9, <1>10, <1>11, <1>12, <1>13, <1>14, <1>15, <1>16, <1>17 DEF Next

-----------------------------------------------------------------------------
(* The theorems.                                                            *)

IInv ==
    /\ TypeOK
    /\ Serials
    /\ Requests
    /\ Account
    /\ Escapes
    /\ Cuts
    /\ LoginSurvives
    /\ Unspent
    /\ Exchanges

LEMMA InitInv == Init => IInv
  <1> SUFFICES ASSUME Init PROVE IInv
    OBVIOUS
  <1>1. TypeOK
    <2>1. token \in [Tokens -> Row] /\ successors \in [Tokens -> Nat]
      BY DEF Init, Row
    <2>2. origin \in [Tokens -> Origin] /\ call \in [Calls -> Call]
      BY BlankTypes DEF Init
    <2>3. registered \in BOOLEAN /\ ended \subseteq Tokens
      BY DEF Init
    <2>4. password \in 0..MaxChanges /\ serial \in 0..MaxTokens /\ faults \in 0..MaxFaults
      BY BoundsAssumption DEF Init
    <2> QED BY <2>1, <2>2, <2>3, <2>4 DEF TypeOK
  <1>2. Serials /\ LoginSurvives
    BY DEF Init, Serials, LoginSurvives, Issued, Tokens
  <1>3. Requests /\ Account
    BY DEF Init, Requests, Request, Account, Working, IdleCall, BlankOrigin, NoToken
  <1>4. Escapes /\ Cuts
    BY DEF Init, Escapes, Cuts, LogoutAllSticks, Live, Working, IdleCall
  <1>5. Unspent
    BY DEF Init, Unspent, IdleCall, NoToken, Tokens
  <1>6. Exchanges
    <2> SUFFICES ASSUME NEW t \in Tokens
                 PROVE  successors[t] + Cardinality(Users(t)) <= Cardinality(Calls)
      BY DEF Exchanges
    <2>1. successors[t] = 0
      BY DEF Init
    <2>2. /\ Cardinality(Users(t)) \in Nat /\ Cardinality(Calls) \in Nat
          /\ Cardinality(Users(t)) <= Cardinality(Calls)
      BY UsersFinite DEF Users
    <2> QED BY <2>1, <2>2
  <1> QED BY <1>1, <1>2, <1>3, <1>4, <1>5, <1>6 DEF IInv

LEMMA StepInv == IInv /\ [Next]_vars => IInv'
  <1> SUFFICES ASSUME IInv, [Next]_vars PROVE IInv'
    OBVIOUS
  <1> USE DEF IInv
  <1>1. TypeOK' /\ Serials' /\ Requests' /\ Account'
    BY TypeStep, SerialsStep, RequestsStep, AccountStep
  <1>2. Escapes' /\ Cuts'
    BY EscapesStep, CutsStep
  <1>3. LoginSurvives'
    BY SurvivesStep
  <1>4. Unspent' /\ Exchanges'
    BY UnspentStep, ExchangesStep
  <1> QED BY <1>1, <1>2, <1>3, <1>4

\* The invariant the properties follow from: what requests in flight remember
\* is still true of the tokens they exchange, and all that got past a
\* revocation is marked.
THEOREM Invariant == Spec => []IInv
  <1> QED BY InitInv, StepInv, PTL DEF Spec

\* The state keeps its types.
THEOREM TypeCorrect == Spec => []TypeOK
  <1>1. IInv => TypeOK
    BY DEF IInv
  <1> QED BY <1>1, Invariant, PTL

\* After a revocation of all tokens a live token stems from a later login, or
\* from a request that was in flight.
THEOREM RevocationSticks == Spec => []LogoutAllSticks
  <1>1. IInv => LogoutAllSticks
    BY DEF IInv, Escapes
  <1> QED BY <1>1, Invariant, PTL

\* A password change leaves no live token of an earlier password, but for
\* requests in flight and a change cut short.
THEOREM OldPasswordsCutOff == Spec => []PasswordChangeCutsOff
  <1>1. IInv => PasswordChangeCutsOff
    BY DEF IInv, Cuts, PasswordChangeCutsOff, Excused
  <1> QED BY <1>1, Invariant, PTL

\* A token is exchanged at most once per request that can be in flight.
THEOREM ExchangesBounded == Spec => []SuccessorBound
  <1>1. IInv => SuccessorBound
    <2> SUFFICES ASSUME IInv, NEW t \in Tokens
                 PROVE  successors[t] <= Cardinality(Calls)
      BY DEF SuccessorBound
    <2>1. Cardinality(Users(t)) \in Nat /\ Cardinality(Calls) \in Nat
      BY UsersFinite DEF Users
    <2> QED BY <2>1 DEF IInv, Exchanges, TypeOK
  <1> QED BY <1>1, Invariant, PTL

\* Refreshes and clean-ups, however they interleave, never lose a login.
THEOREM LoginsSurvive == Spec => []LoginSurvives
  <1>1. IInv => LoginSurvives
    BY DEF IInv
  <1> QED BY <1>1, Invariant, PTL
=============================================================================
