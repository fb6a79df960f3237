------------------------------ MODULE OtpLogin ------------------------------
(***************************************************************************)
(* The two-step login of one e-mail address: the password step with its    *)
(* in-memory counter of failed attempts (AuthService), the one-time codes  *)
(* in otp_tokens (OtpService: verify and resend) and the sessions that a   *)
(* verified code opens.  A caller is a connection that sends one request   *)
(* at a time; callers overlap, so each await is a step of its own.         *)
(*                                                                         *)
(* Codes are named by the token that holds them; code 0 is a code that no  *)
(* token holds.                                                            *)
(***************************************************************************)
EXTENDS Integers, FiniteSets

CONSTANTS
  Callers,              \* concurrent connections for this e-mail address
  FAILED_ATTEMPT_LIMIT, \* auth.service.ts: 10
  OTP_ATTEMPT_LIMIT,    \* otp.service.ts: 5
  MaxTokens             \* bound: rows inserted into otp_tokens

ASSUME OtpAssumption ==
  /\ IsFiniteSet(Callers)
  /\ FAILED_ATTEMPT_LIMIT \in Nat \ {0}
  /\ OTP_ATTEMPT_LIMIT \in Nat \ {0}
  /\ MaxTokens \in Nat

VARIABLES
  failed,    \* emailFailedAttempts.get(email).count; 0 is no entry
  lapsed,    \* the entry's five-minute window has passed
  tokens,    \* number of otp_tokens rows, in created_at order
  used, attempts, expired,   \* columns of each row (expired: expires_at passed)
  user,      \* what verifyOtp finds about the user after a right code
  pc, tok,   \* each caller's place in its handler and the row it has read
  sessions   \* refresh tokens inserted on the strength of each OTP row

memory == <<failed, lapsed>>
table  == <<tokens, used, attempts, expired>>
calls  == <<pc, tok>>
vars   == <<memory, table, user, calls, sessions>>

Rows == 1..MaxTokens

\* The user may open a session, has mfa_enabled, is removed, or is of a suspended
\* organisation.
Users == {"free", "mfa", "removed", "suspended"}

\* The type invariant.
TypeOK ==
  /\ failed \in Nat
  /\ lapsed \in BOOLEAN
  /\ tokens \in 0..MaxTokens
  /\ used \in [Rows -> BOOLEAN]
  /\ attempts \in [Rows -> Nat]
  /\ expired \in [Rows -> BOOLEAN]
  /\ user \in Users
  /\ pc \in [Callers -> {"idle", "wrong", "right", "insert", "resend", "miss", "mark",
                         "check", "org", "mfa", "mint"}]
  /\ tok \in [Callers -> 0..MaxTokens]
  /\ sessions \in [Rows -> Nat]

Init ==
  /\ failed = 0
  /\ lapsed = FALSE
  /\ tokens = 0
  /\ used = [t \in Rows |-> FALSE]
  /\ attempts = [t \in Rows |-> 0]
  /\ expired = [t \in Rows |-> FALSE]
  /\ user \in {"free", "mfa"}
  /\ pc = [c \in Callers |-> "idle"]
  /\ tok = [c \in Callers |-> 0]
  /\ sessions = [t \in Rows |-> 0]

Goto(c, place, t) ==
  /\ pc' = [pc EXCEPT ![c] = place]
  /\ tok' = [tok EXCEPT ![c] = t]

----------------------------------------------------------------------------
(* handleReturningUserLogin *)

\* Mutant: a full entry does not refuse the call.
StartLoginUnlimited(c) ==
  /\ pc[c] = "idle"
  /\ failed' = IF lapsed THEN 0 ELSE failed
  /\ lapsed' = FALSE
  /\ \E outcome \in {"right", "wrong"} : Goto(c, outcome, 0)
  /\ UNCHANGED <<table, user, sessions>>

\* The entry is checked before the first await: a lapsed one is deleted, a full
\* one answers 429, anything else goes on to findUserByEmail and bcrypt.
StartLogin(c) ==
  /\ pc[c] = "idle"
  /\ failed > 0 /\ ~ lapsed => failed < FAILED_ATTEMPT_LIMIT
  /\ failed' = IF lapsed THEN 0 ELSE failed
  /\ lapsed' = FALSE
  /\ \E outcome \in {"right", "wrong"} : Goto(c, outcome, 0)
  /\ UNCHANGED <<table, user, sessions>>

\* bcrypt found no match: the entry as it is now is advanced, or created.
LoginFails(c) ==
  /\ pc[c] = "wrong"
  /\ failed' = failed + 1
  /\ Goto(c, "idle", 0)
  /\ UNCHANGED <<lapsed, table, user, sessions>>

\* bcrypt found a match: the entry is deleted before the code is stored.
LoginSucceeds(c) ==
  /\ pc[c] = "right"
  /\ failed' = 0
  /\ lapsed' = FALSE
  /\ Goto(c, "insert", 0)
  /\ UNCHANGED <<table, user, sessions>>

\* insertOtpToken, then the e-mail.
InsertOtpToken(c) ==
  /\ pc[c] = "insert"
  /\ tokens < MaxTokens
  /\ tokens' = tokens + 1
  /\ Goto(c, "idle", 0)
  /\ UNCHANGED <<memory, used, attempts, expired, user, sessions>>

----------------------------------------------------------------------------
(* OtpService *)

\* Mutant: the query does not filter on the used flag.
NewestUnexpired(t) ==
  /\ t \in 1..tokens /\ ~ expired[t]
  /\ \A s \in (t + 1)..tokens : expired[s]

\* findLatestOtpToken: the newest row that is neither used nor expired.
IsLatest(t) ==
  /\ t \in 1..tokens /\ ~ used[t] /\ ~ expired[t]
  /\ \A s \in (t + 1)..tokens : used[s] \/ expired[s]

\* Mutant: the attempt limit is not read.
VerifyUnlimited(c, code) ==
  /\ pc[c] = "idle"
  /\ \E t \in Rows : IsLatest(t) /\ Goto(c, IF code = t THEN "mark" ELSE "miss", t)
  /\ UNCHANGED <<memory, table, user, sessions>>

\* verifyOtp reads the row, refuses it at the attempt limit and compares the
\* code, all on the values it read.
VerifyOtp(c, code) ==
  /\ pc[c] = "idle"
  /\ \E t \in Rows :
       /\ IsLatest(t)
       /\ attempts[t] < OTP_ATTEMPT_LIMIT
       /\ Goto(c, IF code = t THEN "mark" ELSE "miss", t)
  /\ UNCHANGED <<memory, table, user, sessions>>

\* Mutant: the counter is moved the wrong way.
AttemptsCountDown(c) ==
  /\ pc[c] = "miss"
  /\ attempts' = [attempts EXCEPT ![tok[c]] = attempts[tok[c]] - 1]
  /\ Goto(c, "idle", 0)
  /\ UNCHANGED <<memory, tokens, used, expired, user, sessions>>

\* incrementOtpAttempts: SET attempts = attempts + 1.
IncrementOtpAttempts(c) ==
  /\ pc[c] = "miss"
  /\ attempts' = [attempts EXCEPT ![tok[c]] = attempts[tok[c]] + 1]
  /\ Goto(c, "idle", 0)
  /\ UNCHANGED <<memory, tokens, used, expired, user, sessions>>

\* markOtpTokenUsed by id, whatever the flag is by now.
MarkOtpTokenUsed(c) ==
  /\ pc[c] = "mark"
  /\ used' = [used EXCEPT ![tok[c]] = TRUE]
  /\ Goto(c, "check", tok[c])
  /\ UNCHANGED <<memory, tokens, attempts, expired, user, sessions>>

\* findUserByEmail: a removed user ends the call with the code spent; the
\* mfa_enabled flag is read here and looked at after the organisation.
CheckUser(c) ==
  /\ pc[c] = "check"
  /\ \/ user = "removed" /\ Goto(c, "idle", 0)
     \/ user = "mfa" /\ Goto(c, "mfa", tok[c])
     \/ user \in {"free", "suspended"} /\ Goto(c, "org", tok[c])
  /\ UNCHANGED <<memory, table, user, sessions>>

\* findOrgById: a suspended organisation is a 403, and a user with MFA is
\* answered mfa_required; either way the code is spent without a session.
CheckOrg(c) ==
  /\ pc[c] \in {"org", "mfa"}
  /\ \/ (user = "suspended" \/ pc[c] = "mfa") /\ Goto(c, "idle", 0)
     \/ user # "suspended" /\ pc[c] = "org" /\ Goto(c, "mint", tok[c])
  /\ UNCHANGED <<memory, table, user, sessions>>

\* insertRefreshToken and the cookies.
InsertRefreshToken(c) ==
  /\ pc[c] = "mint"
  /\ sessions' = [sessions EXCEPT ![tok[c]] = sessions[tok[c]] + 1]
  /\ Goto(c, "idle", 0)
  /\ UNCHANGED <<memory, table, user>>

\* resendOtp finds a pending code; with none it answers and does nothing.
ResendOtp(c) ==
  /\ pc[c] = "idle"
  /\ \E t \in Rows : IsLatest(t) /\ Goto(c, "resend", t)
  /\ UNCHANGED <<memory, table, user, sessions>>

\* resendOtp retires the code it read and goes on to store a new one.
ResendMarksUsed(c) ==
  /\ pc[c] = "resend"
  /\ used' = [used EXCEPT ![tok[c]] = TRUE]
  /\ Goto(c, "insert", 0)
  /\ UNCHANGED <<memory, tokens, attempts, expired, user, sessions>>

----------------------------------------------------------------------------
(* Time, the rest of the system, and the process *)

\* The five minutes of the entry pass.
WindowLapses ==
  /\ failed > 0 /\ ~ lapsed
  /\ lapsed' = TRUE
  /\ UNCHANGED <<failed, table, user, calls, sessions>>

\* The ten minutes of a row pass.
OtpExpires(t) ==
  /\ t <= tokens /\ ~ expired[t]
  /\ expired' = [expired EXCEPT ![t] = TRUE]
  /\ UNCHANGED <<memory, tokens, used, attempts, user, calls, sessions>>

\* The users or organisations row is changed outside this component; either
\* change ends the verifications that have not looked yet.
Bar(why) ==
  /\ user \in {"free", "mfa"}
  /\ user' = why
  /\ UNCHANGED <<memory, table, calls, sessions>>

\* The process restarts: the counters and the calls in flight are gone.
Restart ==
  /\ failed' = 0
  /\ lapsed' = FALSE
  /\ pc' = [c \in Callers |-> "idle"]
  /\ tok' = [c \in Callers |-> 0]
  /\ UNCHANGED <<table, user, sessions>>

----------------------------------------------------------------------------
CallerStep(c) ==
  \/ StartLogin(c) \/ LoginFails(c) \/ LoginSucceeds(c) \/ InsertOtpToken(c)
  \/ \E code \in 0..tokens : VerifyOtp(c, code)
  \/ IncrementOtpAttempts(c) \/ MarkOtpTokenUsed(c) \/ CheckUser(c) \/ CheckOrg(c)
  \/ InsertRefreshToken(c)
  \/ ResendOtp(c) \/ ResendMarksUsed(c)

Next ==
  \/ \E c \in Callers : CallerStep(c)
  \/ \E t \in Rows : OtpExpires(t)
  \/ \E why \in {"removed", "suspended"} : Bar(why)
  \/ WindowLapses \/ Restart

Spec == Init /\ [][Next]_vars

----------------------------------------------------------------------------
(* Safety *)

\* The verifications that found t unused with the right code and may still open
\* a session, those about to count a wrong code against t, and the logins about
\* to count a wrong password.
Verifications(t) == {c \in Callers : tok[c] = t /\ pc[c] \in {"mark", "check", "org", "mint"}}
Misses(t)        == {c \in Callers : tok[c] = t /\ pc[c] = "miss"}
WrongPasswords   == {c \in Callers : pc[c] = "wrong"}

\* The attempt limit is read before an await and counted after it, so it can be
\* overrun, but by no more than the other calls that were already past the
\* check: wrong codes tried against one row never exceed the limit plus one
\* less than the number of concurrent callers (verifyOtp, incrementOtpAttempts).
OtpGuessesBounded ==
  \A t \in Rows : attempts[t] <= OTP_ATTEMPT_LIMIT + Cardinality(Callers) - 1

\* The same for the password step: within a window, restarts and lapses
\* included, the counter overruns its limit by at most the calls that were in
\* bcrypt when it was reached (handleReturningUserLogin).
FailedLoginsBounded ==
  failed <= FAILED_ATTEMPT_LIMIT + Cardinality(Callers) - 1

\* One code opens at most one session per concurrent caller, and none after the
\* calls that had read it as unused are over (verifyOtp, resendOtp).
SessionsPerOtpBounded ==
  \A t \in Rows : sessions[t] + Cardinality(Verifications(t)) <= Cardinality(Callers)

\* A call goes on only with a stored row, and a code that has opened a session,
\* or is about to, is marked.
SpentIsMarked ==
  /\ \A c \in Callers : pc[c] \in {"resend", "miss", "mark", "check", "org", "mint"} => tok[c] \in Rows
  /\ \A c \in Callers : pc[c] \in {"check", "org", "mint"} => used[tok[c]]
  /\ \A t \in Rows : sessions[t] > 0 => used[t]

\* The two counters stay within their bounds even if every call that is past a
\* check is about to count.
GuessesCounted ==
  \A t \in Rows :
    attempts[t] + Cardinality(Misses(t)) <= OTP_ATTEMPT_LIMIT + Cardinality(Callers) - 1

FailuresCounted ==
  failed + Cardinality(WrongPasswords) <= FAILED_ATTEMPT_LIMIT + Cardinality(Callers) - 1

\* The conjunction that every step preserves.
OtpInv ==
  /\ TypeOK
  /\ SpentIsMarked
  /\ SessionsPerOtpBounded
  /\ GuessesCounted
  /\ FailuresCounted
=============================================================================
