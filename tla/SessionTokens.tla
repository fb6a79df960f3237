---------------------------- MODULE SessionTokens ----------------------------
(***************************************************************************)
(* The refresh tokens of one user and the browser that holds one of them   *)
(* in its hashira_refresh cookie: rotateRefreshToken, logout and the login *)
(* handlers that mint a first token.  The callers are tabs of one browser: *)
(* they share the cookie, each sends one request at a time, and answers    *)
(* may overtake one another or be lost.                                    *)
(***************************************************************************)
EXTENDS Integers, FiniteSets

CONSTANTS
  Callers,   \* concurrent requests of the browser
  MaxRows    \* bound: rows inserted into refresh_tokens

ASSUME SessionAssumption == IsFiniteSet(Callers) /\ MaxRows \in Nat

VARIABLES
  rows,                  \* number of refresh_tokens rows
  used, expired, parent, \* the rows' columns, and the row each one replaced
  user,                  \* the users row: "active", "removed" or "gone"
  cookie,                \* the token in the browser's cookie; 0 is none
  pc, tok,               \* each request's place and the token it carries
  lossy                  \* some answer never reached the browser

tokens   == <<rows, used, expired, parent>>
calls    == <<pc, tok>>
vars     == <<tokens, user, cookie, calls, lossy>>

Rows     == 1..MaxRows
Places   == {"idle", "find", "user", "rotate", "set", "auth", "mark", "clear", "mint"}
Rotating == {"user", "rotate"}

\* The type invariant.
TypeOK ==
  /\ rows \in 0..MaxRows
  /\ used \in [Rows -> BOOLEAN]
  /\ expired \in [Rows -> BOOLEAN]
  /\ parent \in [Rows -> 0..MaxRows]
  /\ user \in {"active", "removed", "gone"}
  /\ cookie \in 0..MaxRows
  /\ pc \in [Callers -> Places]
  /\ tok \in [Callers -> 0..MaxRows]
  /\ lossy \in BOOLEAN

Init ==
  /\ rows = 0
  /\ used = [t \in Rows |-> FALSE]
  /\ expired = [t \in Rows |-> FALSE]
  /\ parent = [t \in Rows |-> 0]
  /\ user = "active"
  /\ cookie = 0
  /\ pc = [c \in Callers |-> "idle"]
  /\ tok = [c \in Callers |-> 0]
  /\ lossy = FALSE

Goto(c, place, t) ==
  /\ pc' = [pc EXCEPT ![c] = place]
  /\ tok' = [tok EXCEPT ![c] = t]

\* Mutant: the insert is repeated when its answer is slow.
InsertRowTwice(p) ==
  /\ rows < MaxRows
  /\ rows' = rows + 2
  /\ parent' = [parent EXCEPT ![rows + 1] = p]

\* A new row, unused and unexpired, that replaces row p.
InsertRow(p) ==
  /\ rows < MaxRows
  /\ rows' = rows + 1
  /\ parent' = [parent EXCEPT ![rows + 1] = p]

----------------------------------------------------------------------------
(* Login: what the OTP, Google and create-organisation handlers end with *)

\* A login has passed its own checks.
StartMint(c) ==
  /\ pc[c] = "idle"
  /\ user = "active"
  /\ Goto(c, "mint", 0)
  /\ UNCHANGED <<tokens, user, cookie, lossy>>

\* insertRefreshToken commits; the answer that sets the cookies is on its way.
InsertRefreshToken(c) ==
  /\ pc[c] = "mint"
  /\ InsertRow(0)
  /\ Goto(c, "set", rows + 1)
  /\ UNCHANGED <<used, expired, user, cookie, lossy>>

----------------------------------------------------------------------------
(* POST /v1/auth/refresh *)

\* The controller takes the token from the cookie; without one it answers 401.
Refresh(c) ==
  /\ pc[c] = "idle"
  /\ cookie # 0
  /\ Goto(c, "find", cookie)
  /\ UNCHANGED <<tokens, user, cookie, lossy>>

\* findRefreshTokenByHash: unused and unexpired, else 401 with the cookies kept.
FindRefreshTokenByHash(c) ==
  /\ pc[c] = "find"
  /\ IF used[tok[c]] \/ expired[tok[c]]
     THEN Goto(c, "idle", 0)
     ELSE Goto(c, "user", tok[c])
  /\ UNCHANGED <<tokens, user, cookie, lossy>>

\* The user is read: it must exist; neither its status nor the organisation's
\* is looked at.
RotateFindUser(c) ==
  /\ pc[c] = "user"
  /\ IF user = "gone" THEN Goto(c, "idle", 0) ELSE Goto(c, "rotate", tok[c])
  /\ UNCHANGED <<tokens, user, cookie, lossy>>

\* Mutant: the successor is inserted and the old row is marked by nobody.
RotateWithoutMark(c) ==
  /\ pc[c] = "rotate"
  /\ InsertRow(tok[c])
  /\ Goto(c, "set", rows + 1)
  /\ UNCHANGED <<used, expired, user, cookie, lossy>>

\* Mutant: the answer carries the token that came in.
RotateReturnsOld(c) ==
  /\ pc[c] = "rotate"
  /\ used' = [used EXCEPT ![tok[c]] = TRUE]
  /\ InsertRow(tok[c])
  /\ Goto(c, "set", tok[c])
  /\ UNCHANGED <<expired, user, cookie, lossy>>

\* The transaction: the old row is marked by id, whatever its flag is by now,
\* and the successor inserted, both or neither.
RotateRefreshToken(c) ==
  /\ pc[c] = "rotate"
  /\ used' = [used EXCEPT ![tok[c]] = TRUE]
  /\ InsertRow(tok[c])
  /\ Goto(c, "set", rows + 1)
  /\ UNCHANGED <<expired, user, cookie, lossy>>

\* The answer of a refresh or a login reaches the browser: Set-Cookie.
CookieSet(c) ==
  /\ pc[c] = "set"
  /\ cookie' = tok[c]
  /\ Goto(c, "idle", 0)
  /\ UNCHANGED <<tokens, user, lossy>>

----------------------------------------------------------------------------
(* POST /v1/auth/logout, behind authenticate *)

\* The token is taken from the cookie, which may be missing (0); the session
\* cookie is taken to be valid.
Logout(c) ==
  /\ pc[c] = "idle"
  /\ Goto(c, "auth", cookie)
  /\ UNCHANGED <<tokens, user, cookie, lossy>>

\* authenticate: only an active user passes; logout is exempt from the
\* suspension check.
LogoutAuthenticate(c) ==
  /\ pc[c] = "auth"
  /\ IF user = "active" THEN Goto(c, "mark", tok[c]) ELSE Goto(c, "idle", 0)
  /\ UNCHANGED <<tokens, user, cookie, lossy>>

\* markRefreshTokenUsedByHash.
MarkRefreshTokenUsedByHash(c) ==
  /\ pc[c] = "mark"
  /\ used' = [t \in Rows |-> used[t] \/ t = tok[c]]
  /\ Goto(c, "clear", tok[c])
  /\ UNCHANGED <<rows, expired, parent, user, cookie, lossy>>

\* The answer reaches the browser and clears whatever cookie it has by now.
CookieCleared(c) ==
  /\ pc[c] = "clear"
  /\ cookie' = 0
  /\ Goto(c, "idle", 0)
  /\ UNCHANGED <<tokens, user, lossy>>

----------------------------------------------------------------------------
(* Faults, time and the rest of the system *)

\* The answer does not arrive, a database call throws before it commits, or
\* the process is restarted under the call.
CallLost(c) ==
  /\ pc[c] # "idle"
  /\ lossy' = TRUE
  /\ Goto(c, "idle", 0)
  /\ UNCHANGED <<tokens, user, cookie>>

\* The seven days of a row pass.
TokenExpires(t) ==
  /\ t <= rows /\ ~ expired[t]
  /\ expired' = [expired EXCEPT ![t] = TRUE]
  /\ UNCHANGED <<rows, used, parent, user, cookie, calls, lossy>>

\* The users row is changed or deleted outside this component.
UserChanges ==
  /\ \/ user = "active" /\ user' = "removed"
     \/ user # "gone" /\ user' = "gone"
  /\ UNCHANGED <<tokens, cookie, calls, lossy>>

----------------------------------------------------------------------------
CallerStep(c) ==
  \/ StartMint(c) \/ InsertRefreshToken(c)
  \/ Refresh(c) \/ FindRefreshTokenByHash(c) \/ RotateFindUser(c) \/ RotateRefreshToken(c)
  \/ CookieSet(c)
  \/ Logout(c) \/ LogoutAuthenticate(c) \/ MarkRefreshTokenUsedByHash(c) \/ CookieCleared(c)
  \/ CallLost(c)

Next ==
  \/ \E c \in Callers : CallerStep(c)
  \/ \E t \in Rows : TokenExpires(t)
  \/ UserChanges

Spec == Init /\ [][Next]_vars

----------------------------------------------------------------------------
(* The inductive invariant behind the safety properties *)

Successors(t) == {s \in 1..rows : parent[s] = t}

\* The calls that have read token t as unused and may still rotate it.
Rotations(t) == {c \in Callers : pc[c] \in Rotating /\ tok[c] = t}

\* Nobody holds a token before its row is inserted, and a row is inserted
\* unused.
TokensExist ==
  /\ cookie <= rows
  /\ \A c \in Callers : tok[c] <= rows
  /\ \A c \in Callers : pc[c] \in Rotating \cup {"find", "set"} => tok[c] # 0
  /\ \A t \in Rows : t > rows => ~ used[t]
  /\ \A t \in 1..rows : parent[t] < t

\* A token whose answer is still on its way is nobody else's and unused.
AnswersAreFresh ==
  \A c \in Callers : pc[c] = "set" =>
    /\ ~ used[tok[c]]
    /\ cookie # tok[c]
    /\ \A d \in Callers \ {c} : tok[d] # tok[c]

----------------------------------------------------------------------------
(* Safety *)

\* Two rotations of one token may both find it unused and both succeed, but a
\* token never has more successors than there were calls that could overlap,
\* those still on their way included (rotateRefreshToken marks by id, with no
\* condition on the flag it read); and at whatever step a call is lost, a
\* successor exists only beside a spent predecessor (one transaction).
SuccessorsBounded ==
  \A t \in Rows :
    /\ Successors(t) # {} => used[t]
    /\ Cardinality(Successors(t)) + Cardinality(Rotations(t)) <= Cardinality(Callers)

\* As long as every answer arrives, the browser is never left with a spent
\* token: if the token in its cookie is spent, the request that spent it is
\* still open and its answer replaces the cookie, whichever of several refresh
\* and logout answers overtakes which (refresh and logout controllers).
CookieIsLive ==
  ~ lossy /\ cookie # 0 /\ used[cookie] =>
    \E c \in Callers : pc[c] \in {"set", "clear"}

\* The conjunction that every step preserves: who may hold which token, from
\* which the two bounds above follow.
SessionInv ==
  /\ TypeOK
  /\ TokensExist
  /\ AnswersAreFresh
  /\ SuccessorsBounded
  /\ CookieIsLive

\* Spent, and no rotation that read it as unused is still under way.
Dead(t) == used[t] /\ Rotations(t) = {}

\* A dead token stays dead and gets no successor any more, whatever calls,
\* losses and expiries follow: a logout ends the session for every call that
\* has not already read the token as unused (findRefreshTokenByHash,
\* markRefreshTokenUsedByHash).
SpentTokenStaysSpent ==
  [][\A t \in Rows : Dead(t) => Dead(t)' /\ Successors(t)' = Successors(t)]_vars
=============================================================================
