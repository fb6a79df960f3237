------------------------ MODULE SessionTokensProofs ------------------------
(***************************************************************************)
(* Proofs about SessionTokens for every finite set of concurrent requests  *)
(* and every number of rows.                                               *)
(***************************************************************************)
EXTENDS SessionTokens, FiniteSetTheorems, TLAPS

USE SessionAssumption DEF tokens, calls, vars, Rows, Goto

\* A call that ends without touching a row or the cookie keeps both invariants.
LEMMA CallEnds ==
  ASSUME TypeOK, TokensExist, NEW c \in Callers, Goto(c, "idle", 0),
         UNCHANGED <<tokens, user, cookie, lossy>>
  PROVE  TypeOK' /\ TokensExist'
<1>1. 0 \in 0..MaxRows /\ 0 <= rows
  BY DEF TypeOK
<1>2. TypeOK'
  BY <1>1 DEF TypeOK, Places
<1>3. TokensExist'
  BY <1>1 DEF TypeOK, TokensExist, Places, Rotating
<1> QED
  BY <1>2, <1>3

\* Every step keeps rows, cookie and requests in their types.
LEMMA TypeOKStep == TypeOK /\ TokensExist /\ [Next]_vars => TypeOK'
<1> SUFFICES ASSUME TypeOK, TokensExist, [Next]_vars PROVE TypeOK'
  OBVIOUS
<1> USE DEF TypeOK, Places
<1>1. ASSUME NEW c \in Callers, CallerStep(c) PROVE TypeOK'
  <2>1. CASE StartMint(c)
    BY <2>1 DEF StartMint
  <2>2. CASE InsertRefreshToken(c)
    BY <2>2 DEF InsertRefreshToken, InsertRow
  <2>3. CASE Refresh(c)
    BY <2>3 DEF Refresh
  <2>4. CASE FindRefreshTokenByHash(c)
    <3>1. CASE used[tok[c]] \/ expired[tok[c]]
      BY <2>4, <3>1, CallEnds DEF FindRefreshTokenByHash
    <3>2. CASE ~ (used[tok[c]] \/ expired[tok[c]])
      BY <2>4, <3>2 DEF FindRefreshTokenByHash
    <3> QED
      BY <3>1, <3>2
  <2>5. CASE RotateFindUser(c)
    <3>1. CASE user = "gone"
      BY <2>5, <3>1, CallEnds DEF RotateFindUser
    <3>2. CASE ~ (user = "gone")
      BY <2>5, <3>2 DEF RotateFindUser
    <3> QED
      BY <3>1, <3>2
  <2>6. CASE RotateRefreshToken(c)
    <3>1. tok[c] \in Rows
      BY <2>6 DEF RotateRefreshToken, TokensExist, Rotating
    <3> QED
      BY <2>6, <3>1 DEF RotateRefreshToken, InsertRow
  <2>7. CASE CookieSet(c)
    BY <2>7 DEF CookieSet
  <2>8. CASE Logout(c)
    BY <2>8 DEF Logout
  <2>9. CASE LogoutAuthenticate(c)
    <3>1. CASE user = "active"
      BY <2>9, <3>1 DEF LogoutAuthenticate
    <3>2. CASE ~ (user = "active")
      BY <2>9, <3>2, CallEnds DEF LogoutAuthenticate
    <3> QED
      BY <3>1, <3>2
  <2>10. CASE MarkRefreshTokenUsedByHash(c)
    BY <2>10 DEF MarkRefreshTokenUsedByHash
  <2>11. CASE CookieCleared(c)
    BY <2>11 DEF CookieCleared
  <2>12. CASE CallLost(c)
    BY <2>12 DEF CallLost
  <2> QED
    BY <1>1, <2>1, <2>2, <2>3, <2>4, <2>5, <2>6, <2>7, <2>8,
       <2>9, <2>10, <2>11, <2>12 DEF CallerStep
<1>2. ASSUME NEW t \in Rows, TokenExpires(t) PROVE TypeOK'
  BY <1>2 DEF TokenExpires
<1>3. CASE UserChanges
  BY <1>3 DEF UserChanges
<1>4. CASE UNCHANGED vars
  BY <1>4
<1> QED
  BY <1>1, <1>2, <1>3, <1>4 DEF Next

\* No step hands out a token before its row is inserted.
LEMMA TokensExistStep == TypeOK /\ TokensExist /\ [Next]_vars => TokensExist'
<1> SUFFICES ASSUME TypeOK, TokensExist, [Next]_vars PROVE TokensExist'
  OBVIOUS
<1> USE DEF TypeOK, TokensExist, Places, Rotating
<1>1. ASSUME NEW c \in Callers, CallerStep(c) PROVE TokensExist'
  <2>1. CASE StartMint(c)
    BY <2>1 DEF StartMint
  <2>2. CASE InsertRefreshToken(c)
    BY <2>2 DEF InsertRefreshToken, InsertRow
  <2>3. CASE Refresh(c)
    BY <2>3 DEF Refresh
  <2>4. CASE FindRefreshTokenByHash(c)
    <3>1. CASE used[tok[c]] \/ expired[tok[c]]
      BY <2>4, <3>1, CallEnds DEF FindRefreshTokenByHash
    <3>2. CASE ~ (used[tok[c]] \/ expired[tok[c]])
      BY <2>4, <3>2 DEF FindRefreshTokenByHash
    <3> QED
      BY <3>1, <3>2
  <2>5. CASE RotateFindUser(c)
    <3>1. CASE user = "gone"
      BY <2>5, <3>1, CallEnds DEF RotateFindUser
    <3>2. CASE ~ (user = "gone")
      BY <2>5, <3>2 DEF RotateFindUser
    <3> QED
      BY <3>1, <3>2
  <2>6. CASE RotateRefreshToken(c)
    BY <2>6 DEF RotateRefreshToken, InsertRow
  <2>7. CASE CookieSet(c)
    BY <2>7 DEF CookieSet
  <2>8. CASE Logout(c)
    BY <2>8 DEF Logout
  <2>9. CASE LogoutAuthenticate(c)
    <3>1. CASE user = "active"
      BY <2>9, <3>1 DEF LogoutAuthenticate
    <3>2. CASE ~ (user = "active")
      BY <2>9, <3>2, CallEnds DEF LogoutAuthenticate
    <3> QED
      BY <3>1, <3>2
  <2>10. CASE MarkRefreshTokenUsedByHash(c)
    BY <2>10 DEF MarkRefreshTokenUsedByHash
  <2>11. CASE CookieCleared(c)
    BY <2>11 DEF CookieCleared
  <2>12. CASE CallLost(c)
    BY <2>12 DEF CallLost
  <2> QED
    BY <1>1, <2>1, <2>2, <2>3, <2>4, <2>5, <2>6, <2>7, <2>8,
       <2>9, <2>10, <2>11, <2>12 DEF CallerStep
<1>2. ASSUME NEW t \in Rows, TokenExpires(t) PROVE TokensExist'
  BY <1>2 DEF TokenExpires
<1>3. CASE UserChanges
  BY <1>3 DEF UserChanges
<1>4. CASE UNCHANGED vars
  BY <1>4
<1> QED
  BY <1>1, <1>2, <1>3, <1>4 DEF Next

\* The token of an answer under way stays unused and in one hand.
LEMMA AnswersAreFreshStep ==
  TypeOK /\ TokensExist /\ AnswersAreFresh /\ [Next]_vars => AnswersAreFresh'
<1> SUFFICES ASSUME TypeOK, TokensExist, AnswersAreFresh, [Next]_vars PROVE AnswersAreFresh'
  OBVIOUS
<1> USE DEF TypeOK, TokensExist, AnswersAreFresh, Places, Rotating
<1>1. ASSUME NEW c \in Callers, CallerStep(c) PROVE AnswersAreFresh'
  <2>1. CASE StartMint(c)
    BY <2>1 DEF StartMint
  <2>2. CASE InsertRefreshToken(c)
    BY <2>2 DEF InsertRefreshToken, InsertRow
  <2>3. CASE Refresh(c)
    BY <2>3 DEF Refresh
  <2>4. CASE FindRefreshTokenByHash(c)
    BY <2>4 DEF FindRefreshTokenByHash
  <2>5. CASE RotateFindUser(c)
    BY <2>5 DEF RotateFindUser
  <2>6. CASE RotateRefreshToken(c)
    BY <2>6 DEF RotateRefreshToken, InsertRow
  <2>7. CASE CookieSet(c)
    BY <2>7 DEF CookieSet
  <2>8. CASE Logout(c)
    BY <2>8 DEF Logout
  <2>9. CASE LogoutAuthenticate(c)
    BY <2>9 DEF LogoutAuthenticate
  <2>10. CASE MarkRefreshTokenUsedByHash(c)
    BY <2>10 DEF MarkRefreshTokenUsedByHash
  <2>11. CASE CookieCleared(c)
    BY <2>11 DEF CookieCleared
  <2>12. CASE CallLost(c)
    BY <2>12 DEF CallLost
  <2> QED
    BY <1>1, <2>1, <2>2, <2>3, <2>4, <2>5, <2>6, <2>7, <2>8,
       <2>9, <2>10, <2>11, <2>12 DEF CallerStep
<1>2. ASSUME NEW t \in Rows, TokenExpires(t) PROVE AnswersAreFresh'
  BY <1>2 DEF TokenExpires
<1>3. CASE UserChanges
  BY <1>3 DEF UserChanges
<1>4. CASE UNCHANGED vars
  BY <1>4
<1> QED
  BY <1>1, <1>2, <1>3, <1>4 DEF Next

\* As long as no answer is lost, a spent cookie has an answer coming.
LEMMA CookieIsLiveStep ==
  TypeOK /\ TokensExist /\ AnswersAreFresh /\ CookieIsLive /\ [Next]_vars => CookieIsLive'
<1> SUFFICES ASSUME TypeOK, TokensExist, AnswersAreFresh, CookieIsLive, [Next]_vars
             PROVE  CookieIsLive'
  OBVIOUS
<1> USE DEF TypeOK, TokensExist, CookieIsLive, Places
<1>1. ASSUME NEW c \in Callers, CallerStep(c) PROVE CookieIsLive'
  <2>1. CASE StartMint(c)
    BY <2>1 DEF StartMint
  <2>2. CASE InsertRefreshToken(c)
    BY <2>2 DEF InsertRefreshToken, InsertRow
  <2>3. CASE Refresh(c)
    BY <2>3 DEF Refresh
  <2>4. CASE FindRefreshTokenByHash(c)
    BY <2>4 DEF FindRefreshTokenByHash
  <2>5. CASE RotateFindUser(c)
    BY <2>5 DEF RotateFindUser
  <2>6. CASE RotateRefreshToken(c)
    BY <2>6 DEF RotateRefreshToken, InsertRow
  <2>7. CASE CookieSet(c)
    BY <2>7 DEF CookieSet, AnswersAreFresh
  <2>8. CASE Logout(c)
    BY <2>8 DEF Logout
  <2>9. CASE LogoutAuthenticate(c)
    BY <2>9 DEF LogoutAuthenticate
  <2>10. CASE MarkRefreshTokenUsedByHash(c)
    BY <2>10 DEF MarkRefreshTokenUsedByHash
  <2>11. CASE CookieCleared(c)
    BY <2>11 DEF CookieCleared
  <2>12. CASE CallLost(c)
    BY <2>12 DEF CallLost
  <2> QED
    BY <1>1, <2>1, <2>2, <2>3, <2>4, <2>5, <2>6, <2>7, <2>8,
       <2>9, <2>10, <2>11, <2>12 DEF CallerStep
<1>2. ASSUME NEW t \in Rows, TokenExpires(t) PROVE CookieIsLive'
  BY <1>2 DEF TokenExpires
<1>3. CASE UserChanges
  BY <1>3 DEF UserChanges
<1>4. CASE UNCHANGED vars
  BY <1>4
<1> QED
  BY <1>1, <1>2, <1>3, <1>4 DEF Next

\* The rotations of a token are a finite set.
LEMMA RotationsFinite ==
  ASSUME NEW t
  PROVE  /\ IsFiniteSet(Rotations(t)) /\ Cardinality(Rotations(t)) \in Nat
         /\ Cardinality(Rotations(t)) <= Cardinality(Callers)
         /\ IsFiniteSet(Rotations(t)') /\ Cardinality(Rotations(t)') \in Nat
         /\ Cardinality(Rotations(t)') <= Cardinality(Callers)
<1>1. Rotations(t) \in SUBSET Callers /\ Rotations(t)' \in SUBSET Callers
  BY DEF Rotations
<1> QED
  BY <1>1, FS_Subset, FS_CardinalityType

\* So are its successors.
LEMMA SuccessorsFinite ==
  ASSUME TypeOK, NEW t
  PROVE  IsFiniteSet(Successors(t)) /\ Cardinality(Successors(t)) \in Nat
<1>1. Successors(t) \in SUBSET (1..rows) /\ IsFiniteSet(1..rows)
  BY FS_Interval DEF Successors, TypeOK
<1> QED
  BY <1>1, FS_Subset, FS_CardinalityType

\* An insert gives its parent, and nobody else, one more successor.
LEMMA InsertedRow ==
  ASSUME TypeOK, NEW p \in 0..MaxRows, InsertRow(p), NEW t \in Rows
  PROVE  /\ rows + 1 \notin Successors(t)
         /\ p = t => Successors(t)' = Successors(t) \cup {rows + 1}
         /\ p # t => Successors(t)' = Successors(t)
<1>1. rows \in 0..MaxRows /\ rows + 1 \in Rows /\ rows' = rows + 1
  BY DEF InsertRow, TypeOK
<1>2. parent'[rows + 1] = p /\ \A s \in 1..rows : parent'[s] = parent[s]
  BY <1>1 DEF InsertRow, TypeOK
<1>3. \A s : s \in 1..(rows + 1) <=> s \in 1..rows \/ s = rows + 1
  BY <1>1
<1>4. rows + 1 \notin 1..rows
  BY <1>1
<1>5. \A s : s \in Successors(t)' <=> s \in Successors(t) \/ (s = rows + 1 /\ p = t)
  BY <1>1, <1>2, <1>3, <1>4 DEF Successors
<1> QED
  BY <1>4, <1>5 DEF Successors

\* A step that neither inserts nor unmarks a row and lets nobody start a
\* rotation keeps the bound.
LEMMA QuietStep ==
  ASSUME TypeOK, SuccessorsBounded, rows' = rows, parent' = parent,
         \A t \in Rows : used[t] => used'[t],
         \A t \in Rows : Rotations(t)' \subseteq Rotations(t)
  PROVE  SuccessorsBounded'
<1> SUFFICES ASSUME NEW t \in Rows
             PROVE  /\ Successors(t)' # {} => used'[t]
                    /\ Cardinality(Successors(t)') + Cardinality(Rotations(t)') <= Cardinality(Callers)
  BY DEF SuccessorsBounded
<1>1. Successors(t)' = Successors(t)
  BY DEF Successors
<1>2. Cardinality(Rotations(t)') <= Cardinality(Rotations(t))
  BY RotationsFinite, FS_Subset
<1> QED
  BY <1>1, <1>2, RotationsFinite, SuccessorsFinite, FS_CardinalityType DEF SuccessorsBounded

\* Each successor stands for a rotation that has ended: a rotation begins only
\* while the token has no successor, and leaves one behind at most.
LEMMA SuccessorsBoundedStep ==
  TypeOK /\ TokensExist /\ SuccessorsBounded /\ [Next]_vars => SuccessorsBounded'
<1> SUFFICES ASSUME TypeOK, TokensExist, SuccessorsBounded, [Next]_vars
             PROVE  SuccessorsBounded'
  OBVIOUS
<1> USE DEF TypeOK, Places
<1>1. ASSUME NEW c \in Callers, CallerStep(c) PROVE SuccessorsBounded'
  <2>1. CASE StartMint(c)
    <3>1. \A t \in Rows : Rotations(t)' \subseteq Rotations(t)
      BY <2>1 DEF StartMint, Rotations, Rotating
    <3> QED
      BY <2>1, <3>1, QuietStep DEF StartMint
  <2>2. CASE InsertRefreshToken(c)
    <3>1. ASSUME NEW t \in Rows PROVE Rotations(t)' = Rotations(t) /\ Successors(t)' = Successors(t)
      <4>1. Rotations(t)' = Rotations(t)
        BY <2>2 DEF InsertRefreshToken, Rotations, Rotating
      <4> QED
        BY <2>2, <4>1, InsertedRow DEF InsertRefreshToken
    <3> QED
      BY <2>2, <3>1 DEF InsertRefreshToken, SuccessorsBounded
  <2>3. CASE Refresh(c)
    <3>1. \A t \in Rows : Rotations(t)' \subseteq Rotations(t)
      BY <2>3 DEF Refresh, Rotations, Rotating
    <3> QED
      BY <2>3, <3>1, QuietStep DEF Refresh
  <2>4. CASE FindRefreshTokenByHash(c)
    <3>1. CASE used[tok[c]] \/ expired[tok[c]]
      <4>1. \A t \in Rows : Rotations(t)' \subseteq Rotations(t)
        BY <2>4, <3>1 DEF FindRefreshTokenByHash, Rotations, Rotating
      <4> QED
        BY <2>4, <4>1, QuietStep DEF FindRefreshTokenByHash
    <3>2. CASE ~ used[tok[c]]
      <4> SUFFICES ASSUME NEW t \in Rows
                   PROVE  /\ Successors(t)' # {} => used'[t]
                          /\ Cardinality(Successors(t)') + Cardinality(Rotations(t)') <= Cardinality(Callers)
        BY DEF SuccessorsBounded
      <4>1. Successors(t)' = Successors(t) /\ used' = used
        BY <2>4 DEF FindRefreshTokenByHash, Successors
      <4>2. CASE t = tok[c]
        <5>1. Successors(t) = {}
          BY <3>2, <4>2 DEF SuccessorsBounded
        <5> QED
          BY <4>1, <5>1, RotationsFinite, FS_EmptySet
      <4>3. CASE t # tok[c]
        <5>1. Rotations(t)' = Rotations(t)
          BY <2>4, <4>3 DEF FindRefreshTokenByHash, Rotations, Rotating
        <5> QED
          BY <4>1, <5>1 DEF SuccessorsBounded
      <4> QED
        BY <4>2, <4>3
    <3> QED
      BY <3>1, <3>2
  <2>5. CASE RotateFindUser(c)
    <3>1. \A t \in Rows : Rotations(t)' \subseteq Rotations(t)
      BY <2>5 DEF RotateFindUser, Rotations, Rotating
    <3> QED
      BY <2>5, <3>1, QuietStep DEF RotateFindUser
  <2>6. CASE RotateRefreshToken(c)
    <3>1. tok[c] \in 1..rows
      BY <2>6 DEF RotateRefreshToken, TokensExist, Rotating
    <3> SUFFICES ASSUME NEW t \in Rows
                 PROVE  /\ Successors(t)' # {} => used'[t]
                        /\ Cardinality(Successors(t)') + Cardinality(Rotations(t)') <= Cardinality(Callers)
      BY DEF SuccessorsBounded
    <3>2. CASE t = tok[c]
      <4>1. used'[t]
        BY <2>6, <3>1, <3>2 DEF RotateRefreshToken
      <4>2. Successors(t)' = Successors(t) \cup {rows + 1} /\ rows + 1 \notin Successors(t)
        BY <2>6, <3>1, <3>2, InsertedRow DEF RotateRefreshToken
      <4>3. Rotations(t)' = Rotations(t) \ {c} /\ c \in Rotations(t)
        BY <2>6, <3>2 DEF RotateRefreshToken, Rotations, Rotating
      <4>4. Cardinality(Successors(t)') = Cardinality(Successors(t)) + 1
        BY <4>2, SuccessorsFinite, FS_AddElement
      <4>5. Cardinality(Rotations(t)') = Cardinality(Rotations(t)) - 1
        BY <4>3, RotationsFinite, FS_RemoveElement
      <4> QED
        <5>1. Cardinality(Successors(t)) + Cardinality(Rotations(t)) <= Cardinality(Callers)
          BY DEF SuccessorsBounded
        <5>2. Cardinality(Callers) \in Nat
          BY FS_CardinalityType
        <5> QED
          BY <4>1, <4>4, <4>5, <5>1, <5>2, RotationsFinite, SuccessorsFinite
    <3>3. CASE t # tok[c]
      <4>1. Successors(t)' = Successors(t)
        BY <2>6, <3>1, <3>3, InsertedRow DEF RotateRefreshToken
      <4>2. Rotations(t)' = Rotations(t)
        BY <2>6, <3>3 DEF RotateRefreshToken, Rotations, Rotating
      <4>3. used'[t] = used[t]
        BY <2>6, <3>1, <3>3 DEF RotateRefreshToken
      <4> QED
        BY <4>1, <4>2, <4>3 DEF SuccessorsBounded
    <3> QED
      BY <3>2, <3>3
  <2>7. CASE CookieSet(c)
    <3>1. \A t \in Rows : Rotations(t)' \subseteq Rotations(t)
      BY <2>7 DEF CookieSet, Rotations, Rotating
    <3> QED
      BY <2>7, <3>1, QuietStep DEF CookieSet
  <2>8. CASE Logout(c)
    <3>1. \A t \in Rows : Rotations(t)' \subseteq Rotations(t)
      BY <2>8 DEF Logout, Rotations, Rotating
    <3> QED
      BY <2>8, <3>1, QuietStep DEF Logout
  <2>9. CASE LogoutAuthenticate(c)
    <3>1. \A t \in Rows : Rotations(t)' \subseteq Rotations(t)
      BY <2>9 DEF LogoutAuthenticate, Rotations, Rotating
    <3> QED
      BY <2>9, <3>1, QuietStep DEF LogoutAuthenticate
  <2>10. CASE MarkRefreshTokenUsedByHash(c)
    <3>1. \A t \in Rows : Rotations(t)' \subseteq Rotations(t)
      BY <2>10 DEF MarkRefreshTokenUsedByHash, Rotations, Rotating
    <3> QED
      BY <2>10, <3>1, QuietStep DEF MarkRefreshTokenUsedByHash
  <2>11. CASE CookieCleared(c)
    <3>1. \A t \in Rows : Rotations(t)' \subseteq Rotations(t)
      BY <2>11 DEF CookieCleared, Rotations, Rotating
    <3> QED
      BY <2>11, <3>1, QuietStep DEF CookieCleared
  <2>12. CASE CallLost(c)
    <3>1. \A t \in Rows : Rotations(t)' \subseteq Rotations(t)
      BY <2>12 DEF CallLost, Rotations, Rotating
    <3> QED
      BY <2>12, <3>1, QuietStep DEF CallLost
  <2> QED
    BY <1>1, <2>1, <2>2, <2>3, <2>4, <2>5, <2>6, <2>7, <2>8,
       <2>9, <2>10, <2>11, <2>12 DEF CallerStep
<1>2. ASSUME NEW s \in Rows, TokenExpires(s) PROVE SuccessorsBounded'
  <2>1. \A t \in Rows : Rotations(t)' = Rotations(t)
    BY <1>2 DEF TokenExpires, Rotations
  <2> QED
    BY <1>2, <2>1, QuietStep DEF TokenExpires
<1>3. CASE UserChanges \/ UNCHANGED vars
  <2>1. \A t \in Rows : Rotations(t)' = Rotations(t)
    BY <1>3 DEF UserChanges, Rotations
  <2> QED
    BY <1>3, <2>1, QuietStep DEF UserChanges
<1> QED
  BY <1>1, <1>2, <1>3 DEF Next

\* The initial state has no rows and no calls.
LEMMA SessionInvInit == Init => SessionInv
<1> SUFFICES ASSUME Init PROVE SessionInv
  OBVIOUS
<1>1. TypeOK
  <2>1. 0 \in 0..MaxRows
    OBVIOUS
  <2>2. pc \in [Callers -> Places] /\ tok \in [Callers -> 0..MaxRows]
    BY <2>1 DEF Init, Places
  <2>3. used \in [Rows -> BOOLEAN] /\ expired \in [Rows -> BOOLEAN]
    BY DEF Init
  <2>4. parent \in [Rows -> 0..MaxRows]
    BY <2>1 DEF Init
  <2> QED
    BY <2>1, <2>2, <2>3, <2>4 DEF Init, TypeOK
<1>2. TokensExist
  BY DEF Init, TokensExist, Rotating
<1>3. AnswersAreFresh /\ CookieIsLive
  BY DEF Init, AnswersAreFresh, CookieIsLive
<1>4. SuccessorsBounded
  <2>1. \A t \in Rows : Successors(t) = {} /\ Rotations(t) = {}
    BY DEF Init, Successors, Rotations, Rotating
  <2>2. Cardinality(Callers) \in Nat /\ Cardinality({}) = 0
    BY FS_EmptySet, FS_CardinalityType
  <2> QED
    BY <2>1, <2>2 DEF SuccessorsBounded
<1> QED
  BY <1>1, <1>2, <1>3, <1>4 DEF SessionInv

\* SessionInv is inductive: whatever refreshes, logouts, logins, losses and
\* expiries follow one another, the hands a token is in stay as it says.
THEOREM SessionInvariant == Spec => []SessionInv
<1>1. SessionInv /\ [Next]_vars => SessionInv'
  BY TypeOKStep, TokensExistStep, AnswersAreFreshStep, SuccessorsBoundedStep, CookieIsLiveStep
  DEF SessionInv
<1> QED
  BY <1>1, SessionInvInit, PTL DEF Spec

\* However many rotations of one refresh token overlap, it gets at most one
\* successor per concurrent call, and none while it is unspent
\* (rotateRefreshToken).
THEOREM SuccessorsAreBounded == Spec => []SuccessorsBounded
<1>1. SessionInv => SuccessorsBounded
  BY DEF SessionInv
<1> QED
  BY <1>1, SessionInvariant, PTL

\* As long as answers arrive, refreshes and logouts that overtake one another
\* do not leave the browser with a spent cookie (refresh and logout controllers).
THEOREM CookieStaysLive == Spec => []CookieIsLive
<1>1. SessionInv => CookieIsLive
  BY DEF SessionInv
<1> QED
  BY <1>1, SessionInvariant, PTL

\* A spent token that no rotation is working on stays so for ever and gets no
\* further successor (findRefreshTokenByHash).
THEOREM DeadTokensStayDead == Spec => SpentTokenStaysSpent
<1> DEFINE Dies(t) == Dead(t) => Dead(t)' /\ Successors(t)' = Successors(t)
<1>1. TypeOK /\ TokensExist /\ [Next]_vars => \A t \in Rows : Dies(t)
  <2> SUFFICES ASSUME TypeOK, TokensExist, [Next]_vars, NEW t \in Rows, Dead(t)
               PROVE  Dead(t)' /\ Successors(t)' = Successors(t)
    OBVIOUS
  <2> USE DEF TypeOK, TokensExist, Places, Rotating, Dead, Rotations, Successors
  <2>1. ASSUME NEW c \in Callers, CallerStep(c)
        PROVE  Dead(t)' /\ Successors(t)' = Successors(t)
    <3>1. CASE StartMint(c)
      BY <3>1 DEF StartMint
    <3>2. CASE InsertRefreshToken(c)
      <4>1. Dead(t)'
        BY <3>2 DEF InsertRefreshToken
      <4>2. 0 \in 0..MaxRows /\ 0 # t /\ InsertRow(0)
        BY <3>2 DEF InsertRefreshToken
      <4> QED
        BY <4>1, <4>2, InsertedRow
    <3>3. CASE Refresh(c)
      BY <3>3 DEF Refresh
    <3>4. CASE FindRefreshTokenByHash(c)
      BY <3>4 DEF FindRefreshTokenByHash
    <3>5. CASE RotateFindUser(c)
      BY <3>5 DEF RotateFindUser
    <3>6. CASE RotateRefreshToken(c)
      <4>1. Dead(t)'
        BY <3>6 DEF RotateRefreshToken
      <4>2. tok[c] \in 0..MaxRows /\ tok[c] # t /\ InsertRow(tok[c])
        BY <3>6 DEF RotateRefreshToken
      <4> QED
        BY <4>1, <4>2, InsertedRow
    <3>7. CASE CookieSet(c)
      BY <3>7 DEF CookieSet
    <3>8. CASE Logout(c)
      BY <3>8 DEF Logout
    <3>9. CASE LogoutAuthenticate(c)
      BY <3>9 DEF LogoutAuthenticate
    <3>10. CASE MarkRefreshTokenUsedByHash(c)
      BY <3>10 DEF MarkRefreshTokenUsedByHash
    <3>11. CASE CookieCleared(c)
      BY <3>11 DEF CookieCleared
    <3>12. CASE CallLost(c)
      BY <3>12 DEF CallLost
    <3> QED
      BY <2>1, <3>1, <3>2, <3>3, <3>4, <3>5, <3>6, <3>7, <3>8,
         <3>9, <3>10, <3>11, <3>12 DEF CallerStep
  <2>2. CASE (\E s \in Rows : TokenExpires(s)) \/ UserChanges \/ UNCHANGED vars
    BY <2>2 DEF TokenExpires, UserChanges
  <2> QED
    BY <2>1, <2>2 DEF Next
<1>2. SessionInv => TypeOK /\ TokensExist
  BY DEF SessionInv
<1> QED
  BY <1>1, <1>2, SessionInvariant, PTL DEF Spec, SpentTokenStaysSpent
=============================================================================
