--------------------------- MODULE OtpLoginProofs ---------------------------
(***************************************************************************)
(* Proofs about OtpLogin for every finite set of concurrent callers, both  *)
(* limits and every number of codes.                                       *)
(***************************************************************************)
EXTENDS OtpLogin, FiniteSetTheorems, TLAPS

USE OtpAssumption DEF memory, table, calls, vars, Goto

----------------------------------------------------------------------------
(* Counting calls *)

LEMMA CallerSet ==
  ASSUME NEW S \in SUBSET Callers
  PROVE  /\ IsFiniteSet(S) /\ Cardinality(S) \in Nat
         /\ Cardinality(Callers) \in Nat /\ Cardinality(S) <= Cardinality(Callers)
BY FS_Subset, FS_CardinalityType

\* A set of calls that loses members gets no larger, and smaller by one if a
\* given call leaves it.
LEMMA CallerSetShrinks ==
  ASSUME NEW S \in SUBSET Callers, NEW T \in SUBSET S
  PROVE  /\ Cardinality(T) <= Cardinality(S)
         /\ \A c \in S : c \notin T => Cardinality(T) + 1 <= Cardinality(S)
<1>1. IsFiniteSet(S) /\ Cardinality(S) \in Nat
  BY CallerSet
<1>2. Cardinality(T) <= Cardinality(S)
  BY <1>1, FS_Subset
<1>3. ASSUME NEW c \in S, c \notin T PROVE Cardinality(T) + 1 <= Cardinality(S)
  <2>1. IsFiniteSet(S \ {c}) /\ Cardinality(S \ {c}) = Cardinality(S) - 1
    BY <1>1, FS_RemoveElement
  <2>2. T \in SUBSET (S \ {c})
    BY <1>3
  <2>3. IsFiniteSet(T) /\ Cardinality(T) <= Cardinality(S \ {c})
    BY <2>1, <2>2, FS_Subset
  <2>4. Cardinality(T) \in Nat
    BY <2>3, FS_CardinalityType
  <2> QED
    BY <1>1, <2>1, <2>3, <2>4
<1> QED
  BY <1>2, <1>3

LEMMA CallSets ==
  ASSUME NEW t
  PROVE  /\ Verifications(t) \in SUBSET Callers /\ Verifications(t)' \in SUBSET Callers
         /\ Misses(t) \in SUBSET Callers /\ Misses(t)' \in SUBSET Callers
         /\ WrongPasswords \in SUBSET Callers /\ WrongPasswords' \in SUBSET Callers
BY DEF Verifications, Misses, WrongPasswords

----------------------------------------------------------------------------
(* The invariant *)

\* Every step keeps counters, rows and calls in their types.
LEMMA TypeOKStep == TypeOK /\ SpentIsMarked /\ [Next]_vars => TypeOK'
<1> SUFFICES ASSUME TypeOK, SpentIsMarked, [Next]_vars PROVE TypeOK'
  OBVIOUS
<1>0. 0 \in 0..MaxTokens /\ Rows \subseteq 0..MaxTokens
  BY DEF Rows
<1> USE <1>0 DEF TypeOK
<1>1. ASSUME NEW c \in Callers, CallerStep(c) PROVE TypeOK'
  <2>1. CASE StartLogin(c)
    BY <2>1 DEF StartLogin
  <2>2. CASE LoginFails(c)
    BY <2>2 DEF LoginFails
  <2>3. CASE LoginSucceeds(c)
    BY <2>3 DEF LoginSucceeds
  <2>4. CASE InsertOtpToken(c)
    BY <2>4 DEF InsertOtpToken
  <2>5. ASSUME NEW code \in 0..tokens, VerifyOtp(c, code) PROVE TypeOK'
    BY <2>5 DEF VerifyOtp
  <2>6. CASE IncrementOtpAttempts(c)
    <3>1. tok[c] \in Rows
      BY <2>6 DEF IncrementOtpAttempts, SpentIsMarked
    <3> QED
      BY <2>6, <3>1 DEF IncrementOtpAttempts
  <2>7. CASE MarkOtpTokenUsed(c)
    <3>1. tok[c] \in Rows
      BY <2>7 DEF MarkOtpTokenUsed, SpentIsMarked
    <3> QED
      BY <2>7, <3>1 DEF MarkOtpTokenUsed
  <2>8. CASE CheckUser(c)
    BY <2>8 DEF CheckUser
  <2>12. CASE CheckOrg(c)
    BY <2>12 DEF CheckOrg
  <2>9. CASE InsertRefreshToken(c)
    <3>1. tok[c] \in Rows
      BY <2>9 DEF InsertRefreshToken, SpentIsMarked
    <3> QED
      BY <2>9, <3>1 DEF InsertRefreshToken
  <2>10. CASE ResendOtp(c)
    BY <2>10 DEF ResendOtp
  <2>11. CASE ResendMarksUsed(c)
    <3>1. tok[c] \in Rows
      BY <2>11 DEF ResendMarksUsed, SpentIsMarked
    <3> QED
      BY <2>11, <3>1 DEF ResendMarksUsed
  <2> QED
    BY <1>1, <2>1, <2>2, <2>3, <2>4, <2>5, <2>6, <2>7,
       <2>8, <2>9, <2>10, <2>11, <2>12 DEF CallerStep
<1>2. ASSUME NEW t \in Rows, OtpExpires(t) PROVE TypeOK'
  BY <1>2 DEF OtpExpires
<1>3. CASE WindowLapses
  BY <1>3 DEF WindowLapses
<1>4. CASE \E why \in {"removed", "suspended"} : Bar(why)
  BY <1>4 DEF Bar, Users
<1>5. CASE Restart
  BY <1>5 DEF Restart
<1>6. CASE UNCHANGED vars
  BY <1>6
<1> QED
  BY <1>1, <1>2, <1>3, <1>4, <1>5, <1>6 DEF Next

\* Marking comes before minting, and no step takes a mark away.
LEMMA SpentIsMarkedStep == TypeOK /\ SpentIsMarked /\ [Next]_vars => SpentIsMarked'
<1> SUFFICES ASSUME TypeOK, SpentIsMarked, [Next]_vars PROVE SpentIsMarked'
  OBVIOUS
<1> USE DEF TypeOK, SpentIsMarked
<1>1. ASSUME NEW c \in Callers, CallerStep(c) PROVE SpentIsMarked'
  <2>1. CASE StartLogin(c)
    BY <2>1 DEF StartLogin
  <2>2. CASE LoginFails(c)
    BY <2>2 DEF LoginFails
  <2>3. CASE LoginSucceeds(c)
    BY <2>3 DEF LoginSucceeds
  <2>4. CASE InsertOtpToken(c)
    BY <2>4 DEF InsertOtpToken
  <2>5. ASSUME NEW code \in 0..tokens, VerifyOtp(c, code) PROVE SpentIsMarked'
    BY <2>5 DEF VerifyOtp
  <2>6. CASE IncrementOtpAttempts(c)
    BY <2>6 DEF IncrementOtpAttempts
  <2>7. CASE MarkOtpTokenUsed(c)
    BY <2>7 DEF MarkOtpTokenUsed
  <2>8. CASE CheckUser(c)
    BY <2>8 DEF CheckUser
  <2>12. CASE CheckOrg(c)
    BY <2>12 DEF CheckOrg
  <2>9. CASE InsertRefreshToken(c)
    BY <2>9 DEF InsertRefreshToken
  <2>10. CASE ResendOtp(c)
    BY <2>10 DEF ResendOtp
  <2>11. CASE ResendMarksUsed(c)
    BY <2>11 DEF ResendMarksUsed
  <2> QED
    BY <1>1, <2>1, <2>2, <2>3, <2>4, <2>5, <2>6, <2>7,
       <2>8, <2>9, <2>10, <2>11, <2>12 DEF CallerStep
<1>2. ASSUME NEW t \in Rows, OtpExpires(t) PROVE SpentIsMarked'
  BY <1>2 DEF OtpExpires
<1>3. CASE WindowLapses
  BY <1>3 DEF WindowLapses
<1>4. CASE \E why \in {"removed", "suspended"} : Bar(why)
  BY <1>4 DEF Bar
<1>5. CASE Restart
  BY <1>5 DEF Restart
<1>6. CASE UNCHANGED vars
  BY <1>6
<1> QED
  BY <1>1, <1>2, <1>3, <1>4, <1>5, <1>6 DEF Next

\* A step that opens no session and lets nobody begin with a right code keeps
\* the bound.
LEMMA NoNewVerification ==
  ASSUME TypeOK, SessionsPerOtpBounded, sessions' = sessions,
         \A t \in Rows : Verifications(t)' \subseteq Verifications(t)
  PROVE  SessionsPerOtpBounded'
<1> SUFFICES ASSUME NEW t \in Rows
             PROVE  sessions'[t] + Cardinality(Verifications(t)') <= Cardinality(Callers)
  BY DEF SessionsPerOtpBounded
<1>1. Cardinality(Verifications(t)') <= Cardinality(Verifications(t))
  BY CallSets, CallerSetShrinks
<1>2. sessions[t] + Cardinality(Verifications(t)) <= Cardinality(Callers) /\ sessions[t] \in Nat
  BY DEF SessionsPerOtpBounded, TypeOK
<1> QED
  BY <1>1, <1>2, CallSets, CallerSet

\* Each session is a verification that has ended: one begins only with an
\* unused code, and an unused code has opened nothing yet.
LEMMA SessionsPerOtpBoundedStep ==
  TypeOK /\ SpentIsMarked /\ SessionsPerOtpBounded /\ [Next]_vars => SessionsPerOtpBounded'
<1> SUFFICES ASSUME TypeOK, SpentIsMarked, SessionsPerOtpBounded, [Next]_vars
             PROVE  SessionsPerOtpBounded'
  OBVIOUS
<1> USE DEF TypeOK
<1>1. ASSUME NEW c \in Callers, CallerStep(c) PROVE SessionsPerOtpBounded'
  <2>1. CASE StartLogin(c)
    <3>1. \A s \in Rows : Verifications(s)' \subseteq Verifications(s)
      BY <2>1 DEF StartLogin, Verifications
    <3> QED
      BY <2>1, <3>1, NoNewVerification DEF StartLogin
  <2>2. CASE LoginFails(c)
    <3>1. \A s \in Rows : Verifications(s)' \subseteq Verifications(s)
      BY <2>2 DEF LoginFails, Verifications
    <3> QED
      BY <2>2, <3>1, NoNewVerification DEF LoginFails
  <2>3. CASE LoginSucceeds(c)
    <3>1. \A s \in Rows : Verifications(s)' \subseteq Verifications(s)
      BY <2>3 DEF LoginSucceeds, Verifications
    <3> QED
      BY <2>3, <3>1, NoNewVerification DEF LoginSucceeds
  <2>4. CASE InsertOtpToken(c)
    <3>1. \A s \in Rows : Verifications(s)' \subseteq Verifications(s)
      BY <2>4 DEF InsertOtpToken, Verifications
    <3> QED
      BY <2>4, <3>1, NoNewVerification DEF InsertOtpToken
  <2>5. ASSUME NEW code \in 0..tokens, VerifyOtp(c, code) PROVE SessionsPerOtpBounded'
    <3>1. PICK s \in Rows : /\ ~ used[s]
                            /\ Goto(c, IF code = s THEN "mark" ELSE "miss", s)
      BY <2>5 DEF VerifyOtp, IsLatest
    <3>2. sessions' = sessions
      BY <2>5 DEF VerifyOtp
    <3> SUFFICES ASSUME NEW t \in Rows
                 PROVE  sessions'[t] + Cardinality(Verifications(t)') <= Cardinality(Callers)
      BY DEF SessionsPerOtpBounded
    <3>3. /\ Cardinality(Verifications(t)) \in Nat /\ Cardinality(Verifications(t)') \in Nat
          /\ Cardinality(Callers) \in Nat /\ Cardinality(Verifications(t)') <= Cardinality(Callers)
      BY CallSets, CallerSet
    <3>4. CASE t = s
      <4>1. sessions'[t] = 0
        BY <3>1, <3>2, <3>4 DEF SpentIsMarked
      <4> QED
        BY <3>3, <4>1
    <3>5. CASE t # s
      <4>1. Verifications(t)' \subseteq Verifications(t)
        BY <3>1, <3>5 DEF Verifications
      <4>2. Cardinality(Verifications(t)') <= Cardinality(Verifications(t))
        BY <4>1, CallSets, CallerSetShrinks
      <4>3. sessions[t] + Cardinality(Verifications(t)) <= Cardinality(Callers) /\ sessions[t] \in Nat
        BY DEF SessionsPerOtpBounded
      <4> QED
        BY <3>2, <3>3, <4>2, <4>3
    <3> QED
      BY <3>4, <3>5
  <2>6. CASE IncrementOtpAttempts(c)
    <3>1. \A s \in Rows : Verifications(s)' \subseteq Verifications(s)
      BY <2>6 DEF IncrementOtpAttempts, Verifications
    <3> QED
      BY <2>6, <3>1, NoNewVerification DEF IncrementOtpAttempts
  <2>7. CASE MarkOtpTokenUsed(c)
    <3>1. \A s \in Rows : Verifications(s)' \subseteq Verifications(s)
      BY <2>7 DEF MarkOtpTokenUsed, Verifications
    <3> QED
      BY <2>7, <3>1, NoNewVerification DEF MarkOtpTokenUsed
  <2>8. CASE CheckUser(c)
    <3>1. \A s \in Rows : Verifications(s)' \subseteq Verifications(s)
      BY <2>8 DEF CheckUser, Verifications
    <3> QED
      BY <2>8, <3>1, NoNewVerification DEF CheckUser
  <2>12. CASE CheckOrg(c)
    <3>1. \A s \in Rows : Verifications(s)' \subseteq Verifications(s)
      BY <2>12 DEF CheckOrg, Verifications
    <3> QED
      BY <2>12, <3>1, NoNewVerification DEF CheckOrg
  <2>9. CASE InsertRefreshToken(c)
    <3> SUFFICES ASSUME NEW t \in Rows
                 PROVE  sessions'[t] + Cardinality(Verifications(t)') <= Cardinality(Callers)
      BY DEF SessionsPerOtpBounded
    <3>1. tok[c] \in Rows
      BY <2>9 DEF InsertRefreshToken, SpentIsMarked
    <3>2. Verifications(t)' \subseteq Verifications(t)
      BY <2>9 DEF InsertRefreshToken, Verifications
    <3>3. sessions[t] + Cardinality(Verifications(t)) <= Cardinality(Callers) /\ sessions[t] \in Nat
      BY DEF SessionsPerOtpBounded
    <3>4. /\ Cardinality(Verifications(t)) \in Nat /\ Cardinality(Verifications(t)') \in Nat
          /\ Cardinality(Callers) \in Nat
      BY CallSets, CallerSet
    <3>5. CASE t = tok[c]
      <4>1. c \in Verifications(t) /\ c \notin Verifications(t)'
        BY <2>9, <3>5 DEF InsertRefreshToken, Verifications
      <4>2. Cardinality(Verifications(t)') + 1 <= Cardinality(Verifications(t))
        BY <3>2, <4>1, CallSets, CallerSetShrinks
      <4>3. sessions'[t] = sessions[t] + 1
        BY <2>9, <3>1, <3>5 DEF InsertRefreshToken
      <4> QED
        BY <3>3, <3>4, <4>2, <4>3
    <3>6. CASE t # tok[c]
      <4>1. Cardinality(Verifications(t)') <= Cardinality(Verifications(t))
        BY <3>2, CallSets, CallerSetShrinks
      <4>2. sessions'[t] = sessions[t]
        BY <2>9, <3>1, <3>6 DEF InsertRefreshToken
      <4> QED
        BY <3>3, <3>4, <4>1, <4>2
    <3> QED
      BY <3>5, <3>6
  <2>10. CASE ResendOtp(c)
    <3>1. \A s \in Rows : Verifications(s)' \subseteq Verifications(s)
      BY <2>10 DEF ResendOtp, Verifications
    <3> QED
      BY <2>10, <3>1, NoNewVerification DEF ResendOtp
  <2>11. CASE ResendMarksUsed(c)
    <3>1. \A s \in Rows : Verifications(s)' \subseteq Verifications(s)
      BY <2>11 DEF ResendMarksUsed, Verifications
    <3> QED
      BY <2>11, <3>1, NoNewVerification DEF ResendMarksUsed
  <2> QED
    BY <1>1, <2>1, <2>2, <2>3, <2>4, <2>5, <2>6, <2>7,
       <2>8, <2>9, <2>10, <2>11, <2>12 DEF CallerStep
<1>2. ASSUME NEW t \in Rows, OtpExpires(t) PROVE SessionsPerOtpBounded'
  <2>1. \A s \in Rows : Verifications(s)' \subseteq Verifications(s)
    BY <1>2 DEF OtpExpires, Verifications
  <2> QED
    BY <1>2, <2>1, NoNewVerification DEF OtpExpires
<1>3. CASE WindowLapses
  <2>1. \A s \in Rows : Verifications(s)' \subseteq Verifications(s)
    BY <1>3 DEF WindowLapses, Verifications
  <2> QED
    BY <1>3, <2>1, NoNewVerification DEF WindowLapses
<1>4. CASE \E why \in {"removed", "suspended"} : Bar(why)
  <2>1. \A s \in Rows : Verifications(s)' \subseteq Verifications(s)
    BY <1>4 DEF Bar, Verifications
  <2> QED
    BY <1>4, <2>1, NoNewVerification DEF Bar
<1>5. CASE Restart
  <2>1. \A s \in Rows : Verifications(s)' \subseteq Verifications(s)
    BY <1>5 DEF Restart, Verifications
  <2> QED
    BY <1>5, <2>1, NoNewVerification DEF Restart
<1>6. CASE UNCHANGED vars
  <2>1. \A s \in Rows : Verifications(s)' \subseteq Verifications(s)
    BY <1>6 DEF Verifications
  <2> QED
    BY <1>6, <2>1, NoNewVerification
<1> QED
  BY <1>1, <1>2, <1>3, <1>4, <1>5, <1>6 DEF Next

\* A step that counts no wrong code and lets nobody past the attempt limit keeps
\* the bound.
LEMMA NoNewMiss ==
  ASSUME TypeOK, GuessesCounted, attempts' = attempts,
         \A t \in Rows : Misses(t)' \subseteq Misses(t)
  PROVE  GuessesCounted'
<1> SUFFICES ASSUME NEW t \in Rows
             PROVE  attempts'[t] + Cardinality(Misses(t)') <= OTP_ATTEMPT_LIMIT + Cardinality(Callers) - 1
  BY DEF GuessesCounted
<1>1. Cardinality(Misses(t)') <= Cardinality(Misses(t))
  BY CallSets, CallerSetShrinks
<1>2. attempts[t] + Cardinality(Misses(t)) <= OTP_ATTEMPT_LIMIT + Cardinality(Callers) - 1
  BY DEF GuessesCounted
<1>3. attempts[t] \in Nat
  BY DEF TypeOK
<1> QED
  BY <1>1, <1>2, <1>3, CallSets, CallerSet

\* A verification passes the attempt limit below it, and adds at most one.
LEMMA GuessesCountedStep ==
  TypeOK /\ SpentIsMarked /\ GuessesCounted /\ [Next]_vars => GuessesCounted'
<1> SUFFICES ASSUME TypeOK, SpentIsMarked, GuessesCounted, [Next]_vars PROVE GuessesCounted'
  OBVIOUS
<1> USE DEF TypeOK
<1>1. ASSUME NEW c \in Callers, CallerStep(c) PROVE GuessesCounted'
  <2>1. CASE StartLogin(c)
    <3>1. \A s \in Rows : Misses(s)' \subseteq Misses(s)
      BY <2>1 DEF StartLogin, Misses
    <3> QED
      BY <2>1, <3>1, NoNewMiss DEF StartLogin
  <2>2. CASE LoginFails(c)
    <3>1. \A s \in Rows : Misses(s)' \subseteq Misses(s)
      BY <2>2 DEF LoginFails, Misses
    <3> QED
      BY <2>2, <3>1, NoNewMiss DEF LoginFails
  <2>3. CASE LoginSucceeds(c)
    <3>1. \A s \in Rows : Misses(s)' \subseteq Misses(s)
      BY <2>3 DEF LoginSucceeds, Misses
    <3> QED
      BY <2>3, <3>1, NoNewMiss DEF LoginSucceeds
  <2>4. CASE InsertOtpToken(c)
    <3>1. \A s \in Rows : Misses(s)' \subseteq Misses(s)
      BY <2>4 DEF InsertOtpToken, Misses
    <3> QED
      BY <2>4, <3>1, NoNewMiss DEF InsertOtpToken
  <2>5. ASSUME NEW code \in 0..tokens, VerifyOtp(c, code) PROVE GuessesCounted'
    <3>1. PICK s \in Rows : /\ attempts[s] < OTP_ATTEMPT_LIMIT
                            /\ Goto(c, IF code = s THEN "mark" ELSE "miss", s)
      BY <2>5 DEF VerifyOtp
    <3>2. attempts' = attempts
      BY <2>5 DEF VerifyOtp
    <3> SUFFICES ASSUME NEW t \in Rows
                 PROVE  attempts'[t] + Cardinality(Misses(t)') <= OTP_ATTEMPT_LIMIT + Cardinality(Callers) - 1
      BY DEF GuessesCounted
    <3>3. /\ Cardinality(Misses(t)) \in Nat /\ Cardinality(Misses(t)') \in Nat
          /\ Cardinality(Callers) \in Nat /\ Cardinality(Misses(t)') <= Cardinality(Callers)
      BY CallSets, CallerSet
    <3>4. CASE t = s
      <4>1. attempts'[t] \in Nat /\ attempts'[t] <= OTP_ATTEMPT_LIMIT - 1
        BY <3>1, <3>2, <3>4
      <4> QED
        BY <3>3, <4>1
    <3>5. CASE t # s
      <4>1. Misses(t)' \subseteq Misses(t)
        BY <3>1, <3>5 DEF Misses
      <4>2. Cardinality(Misses(t)') <= Cardinality(Misses(t))
        BY <4>1, CallSets, CallerSetShrinks
      <4>3. attempts[t] + Cardinality(Misses(t)) <= OTP_ATTEMPT_LIMIT + Cardinality(Callers) - 1 /\ attempts[t] \in Nat
        BY DEF GuessesCounted
      <4> QED
        BY <3>2, <3>3, <4>2, <4>3
    <3> QED
      BY <3>4, <3>5
  <2>6. CASE IncrementOtpAttempts(c)
    <3> SUFFICES ASSUME NEW t \in Rows
                 PROVE  attempts'[t] + Cardinality(Misses(t)') <= OTP_ATTEMPT_LIMIT + Cardinality(Callers) - 1
      BY DEF GuessesCounted
    <3>1. tok[c] \in Rows
      BY <2>6 DEF IncrementOtpAttempts, SpentIsMarked
    <3>2. Misses(t)' \subseteq Misses(t)
      BY <2>6 DEF IncrementOtpAttempts, Misses
    <3>3. attempts[t] + Cardinality(Misses(t)) <= OTP_ATTEMPT_LIMIT + Cardinality(Callers) - 1 /\ attempts[t] \in Nat
      BY DEF GuessesCounted
    <3>4. /\ Cardinality(Misses(t)) \in Nat /\ Cardinality(Misses(t)') \in Nat
          /\ Cardinality(Callers) \in Nat
      BY CallSets, CallerSet
    <3>5. CASE t = tok[c]
      <4>1. c \in Misses(t) /\ c \notin Misses(t)'
        BY <2>6, <3>5 DEF IncrementOtpAttempts, Misses
      <4>2. Cardinality(Misses(t)') + 1 <= Cardinality(Misses(t))
        BY <3>2, <4>1, CallSets, CallerSetShrinks
      <4>3. attempts'[t] = attempts[t] + 1
        BY <2>6, <3>1, <3>5 DEF IncrementOtpAttempts
      <4> QED
        BY <3>3, <3>4, <4>2, <4>3
    <3>6. CASE t # tok[c]
      <4>1. Cardinality(Misses(t)') <= Cardinality(Misses(t))
        BY <3>2, CallSets, CallerSetShrinks
      <4>2. attempts'[t] = attempts[t]
        BY <2>6, <3>1, <3>6 DEF IncrementOtpAttempts
      <4> QED
        BY <3>3, <3>4, <4>1, <4>2
    <3> QED
      BY <3>5, <3>6
  <2>7. CASE MarkOtpTokenUsed(c)
    <3>1. \A s \in Rows : Misses(s)' \subseteq Misses(s)
      BY <2>7 DEF MarkOtpTokenUsed, Misses
    <3> QED
      BY <2>7, <3>1, NoNewMiss DEF MarkOtpTokenUsed
  <2>8. CASE CheckUser(c)
    <3>1. \A s \in Rows : Misses(s)' \subseteq Misses(s)
      BY <2>8 DEF CheckUser, Misses
    <3> QED
      BY <2>8, <3>1, NoNewMiss DEF CheckUser
  <2>12. CASE CheckOrg(c)
    <3>1. \A s \in Rows : Misses(s)' \subseteq Misses(s)
      BY <2>12 DEF CheckOrg, Misses
    <3> QED
      BY <2>12, <3>1, NoNewMiss DEF CheckOrg
  <2>9. CASE InsertRefreshToken(c)
    <3>1. \A s \in Rows : Misses(s)' \subseteq Misses(s)
      BY <2>9 DEF InsertRefreshToken, Misses
    <3> QED
      BY <2>9, <3>1, NoNewMiss DEF InsertRefreshToken
  <2>10. CASE ResendOtp(c)
    <3>1. \A s \in Rows : Misses(s)' \subseteq Misses(s)
      BY <2>10 DEF ResendOtp, Misses
    <3> QED
      BY <2>10, <3>1, NoNewMiss DEF ResendOtp
  <2>11. CASE ResendMarksUsed(c)
    <3>1. \A s \in Rows : Misses(s)' \subseteq Misses(s)
      BY <2>11 DEF ResendMarksUsed, Misses
    <3> QED
      BY <2>11, <3>1, NoNewMiss DEF ResendMarksUsed
  <2> QED
    BY <1>1, <2>1, <2>2, <2>3, <2>4, <2>5, <2>6, <2>7,
       <2>8, <2>9, <2>10, <2>11, <2>12 DEF CallerStep
<1>2. ASSUME NEW t \in Rows, OtpExpires(t) PROVE GuessesCounted'
  <2>1. \A s \in Rows : Misses(s)' \subseteq Misses(s)
    BY <1>2 DEF OtpExpires, Misses
  <2> QED
    BY <1>2, <2>1, NoNewMiss DEF OtpExpires
<1>3. CASE WindowLapses
  <2>1. \A s \in Rows : Misses(s)' \subseteq Misses(s)
    BY <1>3 DEF WindowLapses, Misses
  <2> QED
    BY <1>3, <2>1, NoNewMiss DEF WindowLapses
<1>4. CASE \E why \in {"removed", "suspended"} : Bar(why)
  <2>1. \A s \in Rows : Misses(s)' \subseteq Misses(s)
    BY <1>4 DEF Bar, Misses
  <2> QED
    BY <1>4, <2>1, NoNewMiss DEF Bar
<1>5. CASE Restart
  <2>1. \A s \in Rows : Misses(s)' \subseteq Misses(s)
    BY <1>5 DEF Restart, Misses
  <2> QED
    BY <1>5, <2>1, NoNewMiss DEF Restart
<1>6. CASE UNCHANGED vars
  <2>1. \A s \in Rows : Misses(s)' \subseteq Misses(s)
    BY <1>6 DEF Misses
  <2> QED
    BY <1>6, <2>1, NoNewMiss
<1> QED
  BY <1>1, <1>2, <1>3, <1>4, <1>5, <1>6 DEF Next

\* A step that counts no wrong password and lets nobody past the check keeps the
\* bound.
LEMMA NoNewFailure ==
  ASSUME TypeOK, FailuresCounted, failed' \in {0, failed}, WrongPasswords' \subseteq WrongPasswords
  PROVE  FailuresCounted'
<1>1. Cardinality(WrongPasswords') <= Cardinality(WrongPasswords)
  BY CallSets, CallerSetShrinks
<1>2. /\ Cardinality(WrongPasswords) \in Nat /\ Cardinality(WrongPasswords') \in Nat
      /\ Cardinality(Callers) \in Nat
  BY CallSets, CallerSet
<1> QED
  BY <1>1, <1>2 DEF TypeOK, FailuresCounted

\* A login passes the check below the limit, and adds at most one.
LEMMA FailuresCountedStep == TypeOK /\ FailuresCounted /\ [Next]_vars => FailuresCounted'
<1> SUFFICES ASSUME TypeOK, FailuresCounted, [Next]_vars PROVE FailuresCounted'
  OBVIOUS
<1> USE DEF TypeOK
<1>1. ASSUME NEW c \in Callers, CallerStep(c) PROVE FailuresCounted'
  <2>1. CASE StartLogin(c)
    <3>1. failed' \in Nat /\ failed' <= FAILED_ATTEMPT_LIMIT - 1
      BY <2>1 DEF StartLogin
    <3>2. /\ Cardinality(WrongPasswords') \in Nat /\ Cardinality(Callers) \in Nat
          /\ Cardinality(WrongPasswords') <= Cardinality(Callers)
      BY CallSets, CallerSet
    <3> QED
      BY <3>1, <3>2 DEF FailuresCounted
  <2>2. CASE LoginFails(c)
    <3>1. WrongPasswords' \subseteq WrongPasswords /\ c \in WrongPasswords /\ c \notin WrongPasswords'
      BY <2>2 DEF LoginFails, WrongPasswords
    <3>2. Cardinality(WrongPasswords') + 1 <= Cardinality(WrongPasswords)
      BY <3>1, CallSets, CallerSetShrinks
    <3>3. /\ Cardinality(WrongPasswords) \in Nat /\ Cardinality(WrongPasswords') \in Nat
          /\ Cardinality(Callers) \in Nat
      BY CallSets, CallerSet
    <3> QED
      BY <2>2, <3>2, <3>3 DEF LoginFails, FailuresCounted
  <2>3. CASE LoginSucceeds(c)
    <3>1. WrongPasswords' \subseteq WrongPasswords
      BY <2>3 DEF LoginSucceeds, WrongPasswords
    <3> QED
      BY <2>3, <3>1, NoNewFailure DEF LoginSucceeds
  <2>4. CASE InsertOtpToken(c)
    <3>1. WrongPasswords' \subseteq WrongPasswords
      BY <2>4 DEF InsertOtpToken, WrongPasswords
    <3> QED
      BY <2>4, <3>1, NoNewFailure DEF InsertOtpToken
  <2>5. ASSUME NEW code \in 0..tokens, VerifyOtp(c, code) PROVE FailuresCounted'
    <3>1. WrongPasswords' \subseteq WrongPasswords
      BY <2>5 DEF VerifyOtp, WrongPasswords
    <3> QED
      BY <2>5, <3>1, NoNewFailure DEF VerifyOtp
  <2>6. CASE IncrementOtpAttempts(c)
    <3>1. WrongPasswords' \subseteq WrongPasswords
      BY <2>6 DEF IncrementOtpAttempts, WrongPasswords
    <3> QED
      BY <2>6, <3>1, NoNewFailure DEF IncrementOtpAttempts
  <2>7. CASE MarkOtpTokenUsed(c)
    <3>1. WrongPasswords' \subseteq WrongPasswords
      BY <2>7 DEF MarkOtpTokenUsed, WrongPasswords
    <3> QED
      BY <2>7, <3>1, NoNewFailure DEF MarkOtpTokenUsed
  <2>8. CASE CheckUser(c)
    <3>1. WrongPasswords' \subseteq WrongPasswords
      BY <2>8 DEF CheckUser, WrongPasswords
    <3> QED
      BY <2>8, <3>1, NoNewFailure DEF CheckUser
  <2>12. CASE CheckOrg(c)
    <3>1. WrongPasswords' \subseteq WrongPasswords
      BY <2>12 DEF CheckOrg, WrongPasswords
    <3> QED
      BY <2>12, <3>1, NoNewFailure DEF CheckOrg
  <2>9. CASE InsertRefreshToken(c)
    <3>1. WrongPasswords' \subseteq WrongPasswords
      BY <2>9 DEF InsertRefreshToken, WrongPasswords
    <3> QED
      BY <2>9, <3>1, NoNewFailure DEF InsertRefreshToken
  <2>10. CASE ResendOtp(c)
    <3>1. WrongPasswords' \subseteq WrongPasswords
      BY <2>10 DEF ResendOtp, WrongPasswords
    <3> QED
      BY <2>10, <3>1, NoNewFailure DEF ResendOtp
  <2>11. CASE ResendMarksUsed(c)
    <3>1. WrongPasswords' \subseteq WrongPasswords
      BY <2>11 DEF ResendMarksUsed, WrongPasswords
    <3> QED
      BY <2>11, <3>1, NoNewFailure DEF ResendMarksUsed
  <2> QED
    BY <1>1, <2>1, <2>2, <2>3, <2>4, <2>5, <2>6, <2>7,
       <2>8, <2>9, <2>10, <2>11, <2>12 DEF CallerStep
<1>2. ASSUME NEW t \in Rows, OtpExpires(t) PROVE FailuresCounted'
  <2>1. WrongPasswords' \subseteq WrongPasswords
    BY <1>2 DEF OtpExpires, WrongPasswords
  <2> QED
    BY <1>2, <2>1, NoNewFailure DEF OtpExpires
<1>3. CASE WindowLapses
  <2>1. WrongPasswords' \subseteq WrongPasswords
    BY <1>3 DEF WindowLapses, WrongPasswords
  <2> QED
    BY <1>3, <2>1, NoNewFailure DEF WindowLapses
<1>4. CASE \E why \in {"removed", "suspended"} : Bar(why)
  <2>1. WrongPasswords' \subseteq WrongPasswords
    BY <1>4 DEF Bar, WrongPasswords
  <2> QED
    BY <1>4, <2>1, NoNewFailure DEF Bar
<1>5. CASE Restart
  <2>1. WrongPasswords' \subseteq WrongPasswords
    BY <1>5 DEF Restart, WrongPasswords
  <2> QED
    BY <1>5, <2>1, NoNewFailure DEF Restart
<1>6. CASE UNCHANGED vars
  <2>1. WrongPasswords' \subseteq WrongPasswords
    BY <1>6 DEF WrongPasswords
  <2> QED
    BY <1>6, <2>1, NoNewFailure
<1> QED
  BY <1>1, <1>2, <1>3, <1>4, <1>5, <1>6 DEF Next

\* Nobody has called in the initial state.
LEMMA OtpInvInit == Init => OtpInv
<1> SUFFICES ASSUME Init PROVE OtpInv
  OBVIOUS
<1>1. TypeOK
  <2>1. 0 \in 0..MaxTokens /\ 0 \in Nat
    OBVIOUS
  <2>2. used \in [Rows -> BOOLEAN] /\ expired \in [Rows -> BOOLEAN]
    BY DEF Init
  <2>3. attempts \in [Rows -> Nat] /\ sessions \in [Rows -> Nat]
    BY DEF Init
  <2>4. tok \in [Callers -> 0..MaxTokens]
    BY <2>1 DEF Init
  <2>5. lapsed \in BOOLEAN /\ user \in Users
    BY DEF Init, Users
  <2> QED
    BY <2>1, <2>2, <2>3, <2>4, <2>5 DEF Init, TypeOK
<1>2. SpentIsMarked
  BY DEF Init, SpentIsMarked
<1>3. Cardinality({}) = 0 /\ Cardinality(Callers) \in Nat
  BY FS_EmptySet, FS_CardinalityType
<1>4. WrongPasswords = {} /\ \A t \in Rows : Verifications(t) = {} /\ Misses(t) = {}
  BY DEF Init, WrongPasswords, Verifications, Misses
<1>5. SessionsPerOtpBounded
  <2>1. \A t \in Rows : sessions[t] = 0
    BY DEF Init
  <2> QED
    BY <2>1, <1>3, <1>4 DEF SessionsPerOtpBounded
<1>6. GuessesCounted
  <2>1. \A t \in Rows : attempts[t] = 0
    BY DEF Init
  <2> QED
    BY <2>1, <1>3, <1>4 DEF GuessesCounted
<1>7. FailuresCounted
  BY <1>3, <1>4 DEF Init, FailuresCounted
<1> QED
  BY <1>1, <1>2, <1>5, <1>6, <1>7 DEF OtpInv

\* OtpInv is inductive, through every overlap of logins, verifications and
\* resends, lapsing windows, expiring codes and restarts.
THEOREM OtpInvariant == Spec => []OtpInv
<1>1. OtpInv /\ [Next]_vars => OtpInv'
  BY TypeOKStep, SpentIsMarkedStep, SessionsPerOtpBoundedStep, GuessesCountedStep,
     FailuresCountedStep
  DEF OtpInv
<1> QED
  BY <1>1, OtpInvInit, PTL DEF Spec

\* Wrong codes tried against one row overrun OTP_ATTEMPT_LIMIT by at most the
\* other calls that were past the check (verifyOtp, incrementOtpAttempts).
THEOREM GuessesAreBounded == Spec => []OtpGuessesBounded
<1>1. OtpInv => OtpGuessesBounded
  <2> SUFFICES ASSUME OtpInv, NEW t \in Rows
               PROVE  attempts[t] <= OTP_ATTEMPT_LIMIT + Cardinality(Callers) - 1
    BY DEF OtpGuessesBounded
  <2>1. Cardinality(Misses(t)) \in Nat /\ Cardinality(Callers) \in Nat
    BY CallSets, CallerSet
  <2> QED
    BY <2>1 DEF OtpInv, TypeOK, GuessesCounted
<1> QED
  BY <1>1, OtpInvariant, PTL

\* Wrong passwords overrun FAILED_ATTEMPT_LIMIT by at most the other logins that
\* were in bcrypt when it was reached (handleReturningUserLogin).
THEOREM LoginFailuresAreBounded == Spec => []FailedLoginsBounded
<1>1. OtpInv => FailedLoginsBounded
  <2>1. Cardinality(WrongPasswords) \in Nat /\ Cardinality(Callers) \in Nat
    BY CallSets, CallerSet
  <2> QED
    BY <2>1 DEF OtpInv, TypeOK, FailuresCounted, FailedLoginsBounded
<1> QED
  BY <1>1, OtpInvariant, PTL

\* One code opens at most one session per concurrent caller (verifyOtp marks it
\* by id after an await; resendOtp retires it the same way).
THEOREM SessionsAreBounded == Spec => []SessionsPerOtpBounded
<1>1. OtpInv => SessionsPerOtpBounded
  BY DEF OtpInv
<1> QED
  BY <1>1, OtpInvariant, PTL
=============================================================================
