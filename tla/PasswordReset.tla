---------------------------- MODULE PasswordReset ----------------------------
(***************************************************************************)
(* PasswordResetService for one e-mail address: reset codes in             *)
(* password_reset_tokens, the in-memory counter of failed confirmations,   *)
(* and the request handler that answers first and works afterwards, with   *)
(* nobody to catch what it throws.                                         *)
(*                                                                         *)
(* token_hash is the hash of e-mail and code and is unique, so a row of    *)
(* this account is named by its code; code 0 is one that was never issued. *)
(***************************************************************************)
EXTENDS Integers, FiniteSets

CONSTANTS
  Callers,                \* concurrent confirmations for this address
  Otps,                   \* the codes crypto.randomInt can draw
  CONFIRM_ATTEMPT_LIMIT   \* password-reset.service.ts: 5

ASSUME ResetAssumption ==
  /\ IsFiniteSet(Callers)
  /\ 0 \notin Otps
  /\ CONFIRM_ATTEMPT_LIMIT \in Nat \ {0}

VARIABLES
  user,          \* the users row, with a password, exists
  code, late,    \* the row of each code: "none", "live", "used"; expired
  mailing,       \* the detached requestReset that issues each code
  pc, otp,       \* each confirmation's place and the code it carries
  fails, stale,  \* confirmFailedAttempts: count (0 is no entry), window over
  changes        \* password changes made on the strength of each code

codes   == <<code, late>>
counter == <<fails, stale>>
calls   == <<pc, otp>>
vars    == <<user, codes, mailing, calls, counter, changes>>

Confirming == {"hit", "owner", "apply"}

\* The type invariant.
TypeOK ==
  /\ user \in BOOLEAN
  /\ pc \in [Callers -> {"idle", "lookup", "count"} \cup Confirming]
  /\ code \in [Otps -> {"none", "live", "used"}]
  /\ late \in [Otps -> BOOLEAN]
  /\ mailing \in [Otps -> {"none", "user", "insert", "mail"}]
  /\ otp \in [Callers -> Otps \cup {0}]
  /\ fails \in Nat
  /\ stale \in BOOLEAN
  /\ changes \in [Otps -> Nat]

Init ==
  /\ user = TRUE
  /\ pc = [c \in Callers |-> "idle"]
  /\ code = [o \in Otps |-> "none"]
  /\ late = [o \in Otps |-> FALSE]
  /\ mailing = [o \in Otps |-> "none"]
  /\ otp = [c \in Callers |-> 0]
  /\ fails = 0
  /\ stale = FALSE
  /\ changes = [o \in Otps |-> 0]

Goto(c, place, o) ==
  /\ pc' = [pc EXCEPT ![c] = place]
  /\ otp' = [otp EXCEPT ![c] = o]

----------------------------------------------------------------------------
(* POST /v1/auth/password-reset/request: 204 first, then the work *)

\* requestPasswordReset answers and starts requestReset, which will draw o.
RequestReset(o) ==
  /\ mailing[o] = "none"
  /\ mailing' = [mailing EXCEPT ![o] = "user"]
  /\ UNCHANGED <<user, codes, calls, counter, changes>>

\* findUserByEmail: without a user (or a password) the work ends silently.
RequestFindUser(o) ==
  /\ mailing[o] = "user"
  /\ mailing' = [mailing EXCEPT ![o] = IF user THEN "insert" ELSE "none"]
  /\ UNCHANGED <<user, codes, calls, counter, changes>>

\* insertPasswordResetToken, when the account never had this code.
InsertPasswordResetToken(o) ==
  /\ mailing[o] = "insert"
  /\ code[o] = "none"
  /\ code' = [code EXCEPT ![o] = "live"]
  /\ mailing' = [mailing EXCEPT ![o] = "mail"]
  /\ UNCHANGED <<user, late, calls, counter, changes>>

\* sendPasswordResetEmail.
SendPasswordResetEmail(o) ==
  /\ mailing[o] = "mail"
  /\ mailing' = [mailing EXCEPT ![o] = "none"]
  /\ UNCHANGED <<user, codes, calls, counter, changes>>

\* Everything in the memory of the process is gone, open requests included.
ProcessDies ==
  /\ pc' = [c \in Callers |-> "idle"]
  /\ otp' = [c \in Callers |-> 0]
  /\ mailing' = [o \in Otps |-> "none"]
  /\ fails' = 0
  /\ stale' = FALSE
  /\ UNCHANGED <<user, codes, changes>>

\* The detached promise rejects: the code is already in the unique index, or a
\* database or mail call throws.  Nobody handles the rejection and Node ends
\* the process, which is started again.
RequestResetRejects(o) ==
  /\ mailing[o] # "none"
  /\ ProcessDies

----------------------------------------------------------------------------
(* POST /v1/auth/password-reset/confirm *)

\* Mutant: a full entry does not refuse the call.
ConfirmUnlimited(c, o) ==
  /\ pc[c] = "idle"
  /\ fails' = IF stale THEN 0 ELSE fails
  /\ stale' = FALSE
  /\ Goto(c, "lookup", o)
  /\ UNCHANGED <<user, codes, mailing, changes>>

\* The entry is checked before the first await: a lapsed one is deleted, a full
\* one answers 429.
ConfirmReset(c, o) ==
  /\ pc[c] = "idle"
  /\ fails < CONFIRM_ATTEMPT_LIMIT \/ stale
  /\ fails' = IF stale THEN 0 ELSE fails
  /\ stale' = FALSE
  /\ Goto(c, "lookup", o)
  /\ UNCHANGED <<user, codes, mailing, changes>>

\* The row findPasswordResetToken can return: any unused and unexpired one of
\* the account, not only the newest.
ResetTokenFound(o) == o \in Otps /\ code[o] = "live" /\ ~ late[o]

\* The query answers.
FindPasswordResetToken(c) ==
  /\ pc[c] = "lookup"
  /\ Goto(c, IF ResetTokenFound(otp[c]) THEN "hit" ELSE "count", otp[c])
  /\ UNCHANGED <<user, codes, mailing, counter, changes>>

\* Mutant: the counter runs down.
MissesCountDown(c) ==
  /\ pc[c] = "count"
  /\ fails' = fails - 1
  /\ Goto(c, "idle", 0)
  /\ UNCHANGED <<user, codes, mailing, stale, changes>>

\* A miss advances the entry as it is now, or creates it; the answer is 410.
ConfirmMisses(c) ==
  /\ pc[c] = "count"
  /\ fails' = fails + 1
  /\ Goto(c, "idle", 0)
  /\ UNCHANGED <<user, codes, mailing, stale, changes>>

\* A hit deletes the entry and goes on to read the user.
ConfirmHits(c) ==
  /\ pc[c] = "hit"
  /\ fails' = 0
  /\ stale' = FALSE
  /\ Goto(c, "owner", otp[c])
  /\ UNCHANGED <<user, codes, mailing, changes>>

\* findUserByEmail: a missing user ends the call with the code unspent; any
\* other goes on to bcrypt.
ConfirmFindUser(c) ==
  /\ pc[c] = "owner"
  /\ IF user THEN Goto(c, "apply", otp[c]) ELSE Goto(c, "idle", 0)
  /\ UNCHANGED <<user, codes, mailing, counter, changes>>

\* Mutant: the code is not marked with the password.
ApplyWithoutMark(c) ==
  /\ pc[c] = "apply"
  /\ changes' = [changes EXCEPT ![otp[c]] = changes[otp[c]] + 1]
  /\ Goto(c, "idle", 0)
  /\ UNCHANGED <<user, codes, mailing, counter>>

\* applyPasswordReset: password and used flag in one transaction, by id and
\* whatever the flag is by now.  No refresh token is touched.
ApplyPasswordReset(c) ==
  /\ pc[c] = "apply"
  /\ changes' = [changes EXCEPT ![otp[c]] = changes[otp[c]] + 1]
  /\ code' = [code EXCEPT ![otp[c]] = "used"]
  /\ Goto(c, "idle", 0)
  /\ UNCHANGED <<user, late, mailing, counter>>

\* The ten minutes of a code, or the five of the counter's window, pass.
ResetTimePasses ==
  /\ \/ \E o \in Otps : /\ code[o] # "none" /\ ~ late[o]
                        /\ late' = [late EXCEPT ![o] = TRUE]
                        /\ UNCHANGED stale
     \/ fails > 0 /\ ~ stale /\ stale' = TRUE /\ UNCHANGED late
  /\ UNCHANGED <<user, code, mailing, calls, fails, changes>>

\* A database call of the confirmation throws before it commits.
ConfirmFails(c) ==
  /\ pc[c] # "idle"
  /\ Goto(c, "idle", 0)
  /\ UNCHANGED <<user, codes, mailing, counter, changes>>

\* The user is deleted, or loses its password, outside this component.
UserChanges ==
  /\ user /\ user' = FALSE
  /\ UNCHANGED <<codes, mailing, calls, counter, changes>>

----------------------------------------------------------------------------
CallerStep(c) ==
  \/ \E o \in Otps \cup {0} : ConfirmReset(c, o)
  \/ FindPasswordResetToken(c) \/ ConfirmMisses(c) \/ ConfirmHits(c)
  \/ ConfirmFindUser(c) \/ ApplyPasswordReset(c) \/ ConfirmFails(c)

RequestTask(o) ==
  \/ RequestReset(o) \/ RequestFindUser(o) \/ InsertPasswordResetToken(o)
  \/ SendPasswordResetEmail(o) \/ RequestResetRejects(o)

Next ==
  \/ \E c \in Callers : CallerStep(c)
  \/ \E o \in Otps : RequestTask(o)
  \/ ResetTimePasses \/ UserChanges

Spec == Init /\ [][Next]_vars

----------------------------------------------------------------------------
(* Safety *)

\* The confirmations that have found code o and may still change the password.
Confirmations(o) == {c \in Callers : otp[c] = o /\ pc[c] \in Confirming}

\* The confirmations that are past the check of the counter and may advance it.
Unjudged == {c \in Callers : pc[c] \in {"lookup", "count"}}

\* One code changes the password at most once per call that could overlap: a
\* confirmation that looks the same code up after its first change is refused.
\* The account's other codes are not spent by it: applyPasswordReset marks the
\* token it was given and no other, so each issued code has its own bound
\* (findPasswordResetToken, applyPasswordReset).
ResetsPerCodeBounded ==
  \A o \in Otps :
    changes[o] + Cardinality(Confirmations(o)) <= Cardinality(Callers)

\* Wrong codes are counted after an await, so the limit can be overrun, but by
\* no more than the other calls that were already past the check
\* (confirmReset's confirmFailedAttempts).
ConfirmFailuresBounded ==
  fails <= CONFIRM_ATTEMPT_LIMIT + Cardinality(Callers) - 1

\* A call goes on only with a code that was issued, and a code that has changed
\* the password is marked.
SpentIsMarked ==
  /\ \A c \in Callers : pc[c] \in Confirming => otp[c] \in Otps
  /\ \A o \in Otps : changes[o] > 0 => code[o] = "used"

\* The counter stays within its bound even if every call that is past the check
\* turns out to miss.
FailuresCounted ==
  fails + Cardinality(Unjudged) <= CONFIRM_ATTEMPT_LIMIT + Cardinality(Callers) - 1

\* The conjunction that every step preserves.
ResetInv ==
  /\ TypeOK
  /\ SpentIsMarked
  /\ ResetsPerCodeBounded
  /\ FailuresCounted
=============================================================================
