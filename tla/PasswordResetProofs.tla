------------------------ MODULE PasswordResetProofs ------------------------
(***************************************************************************)
(* Proofs about PasswordReset for every finite set of concurrent           *)
(* confirmations, every set of codes and every limit.                      *)
(***************************************************************************)
EXTENDS PasswordReset, FiniteSetTheorems, TLAPS

USE ResetAssumption DEF codes, counter, calls, vars, Goto

----------------------------------------------------------------------------
(* Counting calls *)

LEMMA CallerSet ==
  ASSUME NEW S \in SUBSET Callers
  PROVE  /\ IsFiniteSet(S) /\ Cardinality(S) \in Nat
         /\ Cardinality(Callers) \in Nat /\ Cardinality(S) <= Cardinality(Callers)
BY FS_Subset, FS_CardinalityType

\* A set of calls that loses members gets no larger, and smaller by one if a
\* given call leaves it.
LEMMA CallerSetShrinks ==
  ASSUME NEW S \in SUBSET Callers, NEW T \in SUBSET S
  PROVE  /\ Cardinality(T) <= Cardinality(S)
         /\ \A c \in S : c \notin T => Cardinality(T) + 1 <= Cardinality(S)
<1>1. IsFiniteSet(S) /\ Cardinality(S) \in Nat
  BY CallerSet
<1>2. Cardinality(T) <= Cardinality(S)
  BY <1>1, FS_Subset
<1>3. ASSUME NEW c \in S, c \notin T PROVE Cardinality(T) + 1 <= Cardinality(S)
  <2>1. IsFiniteSet(S \ {c}) /\ Cardinality(S \ {c}) = Cardinality(S) - 1
    BY <1>1, FS_RemoveElement
  <2>2. T \in SUBSET (S \ {c})
    BY <1>3
  <2>3. IsFiniteSet(T) /\ Cardinality(T) <= Cardinality(S \ {c})
    BY <2>1, <2>2, FS_Subset
  <2>4. Cardinality(T) \in Nat
    BY <2>3, FS_CardinalityType
  <2> QED
    BY <1>1, <2>1, <2>3, <2>4
<1> QED
  BY <1>2, <1>3

LEMMA ConfirmationSets ==
  ASSUME NEW o
  PROVE  /\ Confirmations(o) \in SUBSET Callers /\ Confirmations(o)' \in SUBSET Callers
         /\ Unjudged \in SUBSET Callers /\ Unjudged' \in SUBSET Callers
BY DEF Confirmations, Unjudged

----------------------------------------------------------------------------
(* The invariant *)

\* Every step keeps codes, counter and calls in their types.
LEMMA TypeOKStep == TypeOK /\ SpentIsMarked /\ [Next]_vars => TypeOK'
<1> SUFFICES ASSUME TypeOK, SpentIsMarked, [Next]_vars PROVE TypeOK'
  OBVIOUS
<1> USE DEF TypeOK, Confirming
<1>1. ASSUME NEW c \in Callers, CallerStep(c) PROVE TypeOK'
  <2>1. ASSUME NEW o \in Otps \cup {0}, ConfirmReset(c, o) PROVE TypeOK'
    BY <2>1 DEF ConfirmReset
  <2>2. CASE FindPasswordResetToken(c)
    BY <2>2 DEF FindPasswordResetToken
  <2>3. CASE ConfirmMisses(c)
    BY <2>3 DEF ConfirmMisses
  <2>4. CASE ConfirmHits(c)
    BY <2>4 DEF ConfirmHits
  <2>5. CASE ConfirmFindUser(c)
    <3>1. CASE user
      BY <2>5, <3>1 DEF ConfirmFindUser
    <3>2. CASE ~ user
      BY <2>5, <3>2 DEF ConfirmFindUser
    <3> QED
      BY <3>1, <3>2
  <2>6. CASE ApplyPasswordReset(c)
    <3>1. otp[c] \in Otps
      BY <2>6 DEF ApplyPasswordReset, SpentIsMarked
    <3> QED
      BY <2>6, <3>1 DEF ApplyPasswordReset
  <2>7. CASE ConfirmFails(c)
    BY <2>7 DEF ConfirmFails
  <2> QED
    BY <1>1, <2>1, <2>2, <2>3, <2>4, <2>5, <2>6, <2>7 DEF CallerStep
<1>2. ASSUME NEW o \in Otps, RequestTask(o) PROVE TypeOK'
  <2>1. CASE RequestReset(o)
    BY <2>1 DEF RequestReset
  <2>2. CASE RequestFindUser(o)
    BY <2>2 DEF RequestFindUser
  <2>3. CASE InsertPasswordResetToken(o)
    BY <2>3 DEF InsertPasswordResetToken
  <2>4. CASE SendPasswordResetEmail(o)
    BY <2>4 DEF SendPasswordResetEmail
  <2>5. CASE RequestResetRejects(o)
    BY <2>5 DEF RequestResetRejects, ProcessDies
  <2> QED
    BY <1>2, <2>1, <2>2, <2>3, <2>4, <2>5 DEF RequestTask
<1>3. CASE ResetTimePasses
  BY <1>3 DEF ResetTimePasses
<1>4. CASE UserChanges \/ UNCHANGED vars
  BY <1>4 DEF UserChanges
<1> QED
  BY <1>1, <1>2, <1>3, <1>4 DEF Next

\* A code is spent and marked in one step, and only a code that was found is
\* carried on.
LEMMA SpentIsMarkedStep == TypeOK /\ SpentIsMarked /\ [Next]_vars => SpentIsMarked'
<1> SUFFICES ASSUME TypeOK, SpentIsMarked, [Next]_vars PROVE SpentIsMarked'
  OBVIOUS
<1> USE DEF TypeOK, SpentIsMarked, Confirming
<1>1. ASSUME NEW c \in Callers, CallerStep(c) PROVE SpentIsMarked'
  <2>1. ASSUME NEW o \in Otps \cup {0}, ConfirmReset(c, o) PROVE SpentIsMarked'
    BY <2>1 DEF ConfirmReset
  <2>2. CASE FindPasswordResetToken(c)
    BY <2>2 DEF FindPasswordResetToken, ResetTokenFound
  <2>3. CASE ConfirmMisses(c)
    BY <2>3 DEF ConfirmMisses
  <2>4. CASE ConfirmHits(c)
    BY <2>4 DEF ConfirmHits
  <2>5. CASE ConfirmFindUser(c)
    <3>1. CASE user
      BY <2>5, <3>1 DEF ConfirmFindUser
    <3>2. CASE ~ user
      BY <2>5, <3>2 DEF ConfirmFindUser
    <3> QED
      BY <3>1, <3>2
  <2>6. CASE ApplyPasswordReset(c)
    BY <2>6 DEF ApplyPasswordReset
  <2>7. CASE ConfirmFails(c)
    BY <2>7 DEF ConfirmFails
  <2> QED
    BY <1>1, <2>1, <2>2, <2>3, <2>4, <2>5, <2>6, <2>7 DEF CallerStep
<1>2. ASSUME NEW o \in Otps, RequestTask(o) PROVE SpentIsMarked'
  <2>1. CASE RequestReset(o)
    BY <2>1 DEF RequestReset
  <2>2. CASE RequestFindUser(o)
    BY <2>2 DEF RequestFindUser
  <2>3. CASE InsertPasswordResetToken(o)
    BY <2>3 DEF InsertPasswordResetToken
  <2>4. CASE SendPasswordResetEmail(o)
    BY <2>4 DEF SendPasswordResetEmail
  <2>5. CASE RequestResetRejects(o)
    BY <2>5 DEF RequestResetRejects, ProcessDies
  <2> QED
    BY <1>2, <2>1, <2>2, <2>3, <2>4, <2>5 DEF RequestTask
<1>3. CASE ResetTimePasses
  BY <1>3 DEF ResetTimePasses
<1>4. CASE UserChanges \/ UNCHANGED vars
  BY <1>4 DEF UserChanges
<1> QED
  BY <1>1, <1>2, <1>3, <1>4 DEF Next

\* A step that changes no password and lets nobody begin to confirm keeps the
\* bound.
LEMMA NoNewConfirmation ==
  ASSUME TypeOK, ResetsPerCodeBounded, changes' = changes,
         \A o \in Otps : Confirmations(o)' \subseteq Confirmations(o)
  PROVE  ResetsPerCodeBounded'
<1> SUFFICES ASSUME NEW o \in Otps
             PROVE  changes'[o] + Cardinality(Confirmations(o)') <= Cardinality(Callers)
  BY DEF ResetsPerCodeBounded
<1>1. Cardinality(Confirmations(o)') <= Cardinality(Confirmations(o))
  BY ConfirmationSets, CallerSetShrinks
<1>2. changes[o] + Cardinality(Confirmations(o)) <= Cardinality(Callers)
  BY DEF ResetsPerCodeBounded
<1>3. /\ Cardinality(Confirmations(o)) \in Nat /\ Cardinality(Confirmations(o)') \in Nat
      /\ Cardinality(Callers) \in Nat /\ changes[o] \in Nat
  BY ConfirmationSets, CallerSet DEF TypeOK
<1> QED
  BY <1>1, <1>2, <1>3

\* Each change of the password is a confirmation that has ended: one begins
\* only while its code is live, and a live code has changed nothing yet.
LEMMA ResetsPerCodeBoundedStep ==
  TypeOK /\ SpentIsMarked /\ ResetsPerCodeBounded /\ [Next]_vars => ResetsPerCodeBounded'
<1> SUFFICES ASSUME TypeOK, SpentIsMarked, ResetsPerCodeBounded, [Next]_vars
             PROVE  ResetsPerCodeBounded'
  OBVIOUS
<1> USE DEF TypeOK, Confirming
<1>1. ASSUME NEW c \in Callers, CallerStep(c) PROVE ResetsPerCodeBounded'
  <2>1. ASSUME NEW o \in Otps \cup {0}, ConfirmReset(c, o) PROVE ResetsPerCodeBounded'
    <3>1. \A s \in Otps : Confirmations(s)' \subseteq Confirmations(s)
      BY <2>1 DEF ConfirmReset, Confirmations
    <3> QED
      BY <2>1, <3>1, NoNewConfirmation DEF ConfirmReset
  <2>2. CASE FindPasswordResetToken(c)
    <3> SUFFICES ASSUME NEW o \in Otps
                 PROVE  changes'[o] + Cardinality(Confirmations(o)') <= Cardinality(Callers)
      BY DEF ResetsPerCodeBounded
    <3>1. CASE o = otp[c] /\ ResetTokenFound(o)
      <4>1. changes'[o] = 0
        BY <2>2, <3>1 DEF FindPasswordResetToken, ResetTokenFound, SpentIsMarked
      <4> QED
        BY <4>1, ConfirmationSets, CallerSet
    <3>2. CASE ~ (o = otp[c] /\ ResetTokenFound(o))
      <4>1. Confirmations(o)' \subseteq Confirmations(o)
        BY <2>2, <3>2 DEF FindPasswordResetToken, Confirmations
      <4>2. Cardinality(Confirmations(o)') <= Cardinality(Confirmations(o))
        BY <4>1, ConfirmationSets, CallerSetShrinks
      <4>3. changes[o] + Cardinality(Confirmations(o)) <= Cardinality(Callers)
        BY DEF ResetsPerCodeBounded
      <4>4. changes'[o] = changes[o] /\ changes[o] \in Nat
        BY <2>2 DEF FindPasswordResetToken
      <4> QED
        BY <4>2, <4>3, <4>4, ConfirmationSets, CallerSet
    <3> QED
      BY <3>1, <3>2
  <2>3. CASE ConfirmMisses(c)
    <3>1. \A s \in Otps : Confirmations(s)' \subseteq Confirmations(s)
      BY <2>3 DEF ConfirmMisses, Confirmations
    <3> QED
      BY <2>3, <3>1, NoNewConfirmation DEF ConfirmMisses
  <2>4. CASE ConfirmHits(c)
    <3>1. \A s \in Otps : Confirmations(s)' \subseteq Confirmations(s)
      BY <2>4 DEF ConfirmHits, Confirmations
    <3> QED
      BY <2>4, <3>1, NoNewConfirmation DEF ConfirmHits
  <2>5. CASE ConfirmFindUser(c)
    <3>1. \A s \in Otps : Confirmations(s)' \subseteq Confirmations(s)
      BY <2>5 DEF ConfirmFindUser, Confirmations
    <3> QED
      BY <2>5, <3>1, NoNewConfirmation DEF ConfirmFindUser
  <2>6. CASE ApplyPasswordReset(c)
    <3> SUFFICES ASSUME NEW o \in Otps
                 PROVE  changes'[o] + Cardinality(Confirmations(o)') <= Cardinality(Callers)
      BY DEF ResetsPerCodeBounded
    <3>1. otp[c] \in Otps
      BY <2>6 DEF ApplyPasswordReset, SpentIsMarked
    <3>2. Confirmations(o)' \subseteq Confirmations(o)
      BY <2>6 DEF ApplyPasswordReset, Confirmations
    <3>3. changes[o] + Cardinality(Confirmations(o)) <= Cardinality(Callers) /\ changes[o] \in Nat
      BY DEF ResetsPerCodeBounded
    <3>4. CASE o = otp[c]
      <4>1. c \in Confirmations(o) /\ c \notin Confirmations(o)'
        BY <2>6, <3>4 DEF ApplyPasswordReset, Confirmations
      <4>2. Cardinality(Confirmations(o)') + 1 <= Cardinality(Confirmations(o))
        BY <3>2, <4>1, ConfirmationSets, CallerSetShrinks
      <4>3. changes'[o] = changes[o] + 1
        BY <2>6, <3>1, <3>4 DEF ApplyPasswordReset
      <4> QED
        BY <3>3, <4>2, <4>3, ConfirmationSets, CallerSet
    <3>5. CASE o # otp[c]
      <4>1. Cardinality(Confirmations(o)') <= Cardinality(Confirmations(o))
        BY <3>2, ConfirmationSets, CallerSetShrinks
      <4>2. changes'[o] = changes[o]
        BY <2>6, <3>1, <3>5 DEF ApplyPasswordReset
      <4> QED
        BY <3>3, <4>1, <4>2, ConfirmationSets, CallerSet
    <3> QED
      BY <3>4, <3>5
  <2>7. CASE ConfirmFails(c)
    <3>1. \A s \in Otps : Confirmations(s)' \subseteq Confirmations(s)
      BY <2>7 DEF ConfirmFails, Confirmations
    <3> QED
      BY <2>7, <3>1, NoNewConfirmation DEF ConfirmFails
  <2> QED
    BY <1>1, <2>1, <2>2, <2>3, <2>4, <2>5, <2>6, <2>7 DEF CallerStep
<1>2. ASSUME NEW o \in Otps, RequestTask(o) PROVE ResetsPerCodeBounded'
  <2>1. CASE RequestReset(o)
    <3>1. \A s \in Otps : Confirmations(s)' \subseteq Confirmations(s)
      BY <2>1 DEF RequestReset, Confirmations
    <3> QED
      BY <2>1, <3>1, NoNewConfirmation DEF RequestReset
  <2>2. CASE RequestFindUser(o)
    <3>1. \A s \in Otps : Confirmations(s)' \subseteq Confirmations(s)
      BY <2>2 DEF RequestFindUser, Confirmations
    <3> QED
      BY <2>2, <3>1, NoNewConfirmation DEF RequestFindUser
  <2>3. CASE InsertPasswordResetToken(o)
    <3>1. \A s \in Otps : Confirmations(s)' \subseteq Confirmations(s)
      BY <2>3 DEF InsertPasswordResetToken, Confirmations
    <3> QED
      BY <2>3, <3>1, NoNewConfirmation DEF InsertPasswordResetToken
  <2>4. CASE SendPasswordResetEmail(o)
    <3>1. \A s \in Otps : Confirmations(s)' \subseteq Confirmations(s)
      BY <2>4 DEF SendPasswordResetEmail, Confirmations
    <3> QED
      BY <2>4, <3>1, NoNewConfirmation DEF SendPasswordResetEmail
  <2>5. CASE RequestResetRejects(o)
    <3>1. \A s \in Otps : Confirmations(s)' \subseteq Confirmations(s)
      BY <2>5 DEF RequestResetRejects, ProcessDies, Confirmations
    <3> QED
      BY <2>5, <3>1, NoNewConfirmation DEF RequestResetRejects, ProcessDies
  <2> QED
    BY <1>2, <2>1, <2>2, <2>3, <2>4, <2>5 DEF RequestTask
<1>3. CASE ResetTimePasses
  <2>1. \A s \in Otps : Confirmations(s)' \subseteq Confirmations(s)
    BY <1>3 DEF ResetTimePasses, Confirmations
  <2> QED
    BY <1>3, <2>1, NoNewConfirmation DEF ResetTimePasses
<1>4. CASE UserChanges \/ UNCHANGED vars
  <2>1. \A s \in Otps : Confirmations(s)' \subseteq Confirmations(s)
    BY <1>4 DEF UserChanges, Confirmations
  <2> QED
    BY <1>4, <2>1, NoNewConfirmation DEF UserChanges
<1> QED
  BY <1>1, <1>2, <1>3, <1>4 DEF Next

\* A step that does not advance the counter and lets nobody past its check
\* keeps the bound.
LEMMA NoNewFailure ==
  ASSUME TypeOK, FailuresCounted, fails' \in {0, fails}, Unjudged' \subseteq Unjudged
  PROVE  FailuresCounted'
<1>1. Cardinality(Unjudged') <= Cardinality(Unjudged)
  BY ConfirmationSets, CallerSetShrinks
<1>2. /\ Cardinality(Unjudged) \in Nat /\ Cardinality(Unjudged') \in Nat
      /\ Cardinality(Callers) \in Nat
  BY ConfirmationSets, CallerSet
<1> QED
  BY <1>1, <1>2 DEF TypeOK, FailuresCounted

\* A call passes the check below the limit, and adds at most one.
LEMMA FailuresCountedStep ==
  TypeOK /\ FailuresCounted /\ [Next]_vars => FailuresCounted'
<1> SUFFICES ASSUME TypeOK, FailuresCounted, [Next]_vars PROVE FailuresCounted'
  OBVIOUS
<1> USE DEF TypeOK, Confirming
<1>1. ASSUME NEW c \in Callers, CallerStep(c) PROVE FailuresCounted'
  <2>1. ASSUME NEW o \in Otps \cup {0}, ConfirmReset(c, o) PROVE FailuresCounted'
    <3>1. fails' \in Nat /\ fails' <= CONFIRM_ATTEMPT_LIMIT - 1
      BY <2>1 DEF ConfirmReset
    <3>2. /\ Cardinality(Unjudged') \in Nat /\ Cardinality(Callers) \in Nat
          /\ Cardinality(Unjudged') <= Cardinality(Callers)
      BY ConfirmationSets, CallerSet
    <3> QED
      BY <3>1, <3>2 DEF FailuresCounted
  <2>2. CASE FindPasswordResetToken(c)
    <3>1. Unjudged' \subseteq Unjudged
      BY <2>2 DEF FindPasswordResetToken, Unjudged
    <3> QED
      BY <2>2, <3>1, NoNewFailure DEF FindPasswordResetToken
  <2>3. CASE ConfirmMisses(c)
    <3>1. Unjudged' \subseteq Unjudged /\ c \in Unjudged /\ c \notin Unjudged'
      BY <2>3 DEF ConfirmMisses, Unjudged
    <3>2. Cardinality(Unjudged') + 1 <= Cardinality(Unjudged)
      BY <3>1, ConfirmationSets, CallerSetShrinks
    <3>3. /\ Cardinality(Unjudged) \in Nat /\ Cardinality(Unjudged') \in Nat
          /\ Cardinality(Callers) \in Nat
      BY ConfirmationSets, CallerSet
    <3> QED
      BY <2>3, <3>2, <3>3 DEF ConfirmMisses, FailuresCounted
  <2>4. CASE ConfirmHits(c)
    <3>1. Unjudged' \subseteq Unjudged
      BY <2>4 DEF ConfirmHits, Unjudged
    <3> QED
      BY <2>4, <3>1, NoNewFailure DEF ConfirmHits
  <2>5. CASE ConfirmFindUser(c)
    <3>1. Unjudged' \subseteq Unjudged
      BY <2>5 DEF ConfirmFindUser, Unjudged
    <3> QED
      BY <2>5, <3>1, NoNewFailure DEF ConfirmFindUser
  <2>6. CASE ApplyPasswordReset(c)
    <3>1. Unjudged' \subseteq Unjudged
      BY <2>6 DEF ApplyPasswordReset, Unjudged
    <3> QED
      BY <2>6, <3>1, NoNewFailure DEF ApplyPasswordReset
  <2>7. CASE ConfirmFails(c)
    <3>1. Unjudged' \subseteq Unjudged
      BY <2>7 DEF ConfirmFails, Unjudged
    <3> QED
      BY <2>7, <3>1, NoNewFailure DEF ConfirmFails
  <2> QED
    BY <1>1, <2>1, <2>2, <2>3, <2>4, <2>5, <2>6, <2>7 DEF CallerStep
<1>2. ASSUME NEW o \in Otps, RequestTask(o) PROVE FailuresCounted'
  <2>1. CASE RequestReset(o)
    <3>1. Unjudged' \subseteq Unjudged
      BY <2>1 DEF RequestReset, Unjudged
    <3> QED
      BY <2>1, <3>1, NoNewFailure DEF RequestReset
  <2>2. CASE RequestFindUser(o)
    <3>1. Unjudged' \subseteq Unjudged
      BY <2>2 DEF RequestFindUser, Unjudged
    <3> QED
      BY <2>2, <3>1, NoNewFailure DEF RequestFindUser
  <2>3. CASE InsertPasswordResetToken(o)
    <3>1. Unjudged' \subseteq Unjudged
      BY <2>3 DEF InsertPasswordResetToken, Unjudged
    <3> QED
      BY <2>3, <3>1, NoNewFailure DEF InsertPasswordResetToken
  <2>4. CASE SendPasswordResetEmail(o)
    <3>1. Unjudged' \subseteq Unjudged
      BY <2>4 DEF SendPasswordResetEmail, Unjudged
    <3> QED
      BY <2>4, <3>1, NoNewFailure DEF SendPasswordResetEmail
  <2>5. CASE RequestResetRejects(o)
    <3>1. Unjudged' \subseteq Unjudged
      BY <2>5 DEF RequestResetRejects, ProcessDies, Unjudged
    <3> QED
      BY <2>5, <3>1, NoNewFailure DEF RequestResetRejects, ProcessDies
  <2> QED
    BY <1>2, <2>1, <2>2, <2>3, <2>4, <2>5 DEF RequestTask
<1>3. CASE ResetTimePasses
  <2>1. Unjudged' \subseteq Unjudged
    BY <1>3 DEF ResetTimePasses, Unjudged
  <2> QED
    BY <1>3, <2>1, NoNewFailure DEF ResetTimePasses
<1>4. CASE UserChanges \/ UNCHANGED vars
  <2>1. Unjudged' \subseteq Unjudged
    BY <1>4 DEF UserChanges, Unjudged
  <2> QED
    BY <1>4, <2>1, NoNewFailure DEF UserChanges
<1> QED
  BY <1>1, <1>2, <1>3, <1>4 DEF Next

\* Nothing has been asked for in the initial state.
LEMMA ResetInvInit == Init => ResetInv
<1> SUFFICES ASSUME Init PROVE ResetInv
  OBVIOUS
<1>1. TypeOK /\ SpentIsMarked
  <2>1. pc \in [Callers -> {"idle", "lookup", "count"} \cup Confirming]
    BY DEF Init, Confirming
  <2>2. late \in [Otps -> BOOLEAN] /\ user \in BOOLEAN /\ stale \in BOOLEAN
    BY DEF Init
  <2>3. changes \in [Otps -> Nat] /\ otp \in [Callers -> Otps \cup {0}] /\ fails \in Nat
    BY DEF Init
  <2>4. SpentIsMarked
    BY DEF Init, SpentIsMarked, Confirming
  <2> QED
    BY <2>1, <2>2, <2>3, <2>4 DEF Init, TypeOK
<1>2. Cardinality({}) = 0 /\ Cardinality(Callers) \in Nat
  BY FS_EmptySet, FS_CardinalityType
<1>3. Unjudged = {} /\ \A o \in Otps : Confirmations(o) = {}
  BY DEF Init, Unjudged, Confirmations, Confirming
<1>4. ResetsPerCodeBounded
  BY <1>2, <1>3 DEF Init, ResetsPerCodeBounded
<1>5. FailuresCounted
  BY <1>2, <1>3 DEF Init, FailuresCounted
<1> QED
  BY <1>1, <1>4, <1>5 DEF ResetInv

\* ResetInv is inductive, through every overlap of confirmations and requests
\* and through every death of the process.
THEOREM ResetInvariant == Spec => []ResetInv
<1>1. ResetInv /\ [Next]_vars => ResetInv'
  BY TypeOKStep, SpentIsMarkedStep, ResetsPerCodeBoundedStep, FailuresCountedStep DEF ResetInv
<1> QED
  BY <1>1, ResetInvInit, PTL DEF Spec

\* A reset code changes the password at most once per confirmation that was
\* under way together with the first, however many codes the account has
\* (confirmReset, applyPasswordReset).
THEOREM ResetsAreBounded == Spec => []ResetsPerCodeBounded
<1>1. ResetInv => ResetsPerCodeBounded
  BY DEF ResetInv
<1> QED
  BY <1>1, ResetInvariant, PTL

\* The limit on wrong codes is overrun by at most the calls already past the
\* check when it was reached (confirmFailedAttempts).
THEOREM FailuresAreBounded == Spec => []ConfirmFailuresBounded
<1>1. ResetInv => ConfirmFailuresBounded
  <2>1. Cardinality(Unjudged) \in Nat /\ Cardinality(Callers) \in Nat
    BY ConfirmationSets, CallerSet
  <2> QED
    BY <2>1 DEF ResetInv, TypeOK, FailuresCounted, ConfirmFailuresBounded
<1> QED
  BY <1>1, ResetInvariant, PTL
=============================================================================
