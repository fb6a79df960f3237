------------------------- MODULE OnboardingProofs -------------------------
(***************************************************************************)
(* Proofs about Onboarding for every finite set of concurrent calls, every *)
(* finite set of people, any invitations and organisations, and every user *)
(* limit.                                                                  *)
(***************************************************************************)
EXTENDS Onboarding, FiniteSetTheorems, TLAPS

USE OnboardingAssumption DEF orgs, users, calls, vars

----------------------------------------------------------------------------
(* The invariant *)

\* Every step keeps rows and calls in their types.
LEMMA TypeOKStep == OnboardingInv /\ [Next]_vars => TypeOK'
<1> SUFFICES ASSUME OnboardingInv, [Next]_vars PROVE TypeOK'
  OBVIOUS
<1>0. TypeOK /\ CallsPlaced
  BY DEF OnboardingInv
<1>1. ASSUME NEW c \in Callers, Request(c) PROVE TypeOK'
  <2>1. ASSUME NEW p \in People, NEW i \in Invitations \cup {None}, NEW place, NEW o \in Orgs,
               NEW method \in {"password", "google"},
               (place \in {"invite", "sub"} /\ o = HomeOrg) \/ place = "name",
               Start(c, place, method, p, i, o)
        PROVE  TypeOK'
    BY <1>0, <2>1 DEF TypeOK, CallsPlaced, Accepting, Places, Start
  <2> QED
    BY <1>1, <2>1 DEF Request, HandleInvitedUserRegistration, CreateGoogleSession, CreateOrg
<1>2. ASSUME NEW c \in Callers, CallStep(c) PROVE TypeOK'
  <2>0. CASE End(c) /\ UNCHANGED <<orgs, invitation, users, uses>>
    BY <1>0, <2>0 DEF TypeOK, CallsPlaced, Accepting, Places, End
  <2>1. CASE FindInvitationByTokenHash(c)
    <3>1. ASSUME pc[c] = "invite", inv[c] # None /\ invitation[inv[c]] = "pending", Goto(c, "org"),
                 UNCHANGED <<orgs, invitation, users, uses>>
          PROVE  TypeOK'
      BY <1>0, <3>1 DEF TypeOK, CallsPlaced, Accepting, Places, Goto
    <3> QED
      BY <2>0, <2>1, <3>1 DEF FindInvitationByTokenHash, Check
  <2>2. CASE InvitationFindOrg(c)
    <3>1. ASSUME pc[c] = "org", Goto(c, "count"),
                 UNCHANGED <<orgs, invitation, users, uses>>
          PROVE  TypeOK'
      BY <1>0, <3>1 DEF TypeOK, CallsPlaced, Accepting, Places, Goto
    <3> QED
      BY <2>0, <2>2, <3>1 DEF InvitationFindOrg, Check
  <2>3. CASE CountActiveUsersByOrg(c)
    <3>1. ASSUME pc[c] = "count", Members(target[c]) < UserLimit, Goto(c, "accept"),
                 UNCHANGED <<orgs, invitation, users, uses>>
          PROVE  TypeOK'
      BY <1>0, <3>1 DEF TypeOK, CallsPlaced, Accepting, Places, Goto
    <3> QED
      BY <2>0, <2>3, <3>1 DEF CountActiveUsersByOrg, Check
  <2>4. CASE AcceptInvitationAndCreateUser(c)
    <3>1. who[c] \in People /\ inv[c] \in Invitations /\ target[c] \in Orgs
      BY <1>0, <2>4 DEF AcceptInvitationAndCreateUser, CallsPlaced, Accepting
    <3>2. accounts' \in [People -> Nat] /\ home' \in [People -> Orgs \cup {None}] /\ linked' \in [People -> BOOLEAN]
      BY <1>0, <2>4, <3>1 DEF TypeOK, AcceptInvitationAndCreateUser, InsertUser
    <3>3. pc' \in [Callers -> Places]
      BY <1>0, <2>4 DEF TypeOK, AcceptInvitationAndCreateUser, Goto, Places
    <3> QED
      BY <1>0, <2>4, <3>1, <3>2, <3>3 DEF TypeOK, AcceptInvitationAndCreateUser, Goto
  <2>5. CASE InsertOtpToken(c)
    BY <2>0, <2>5 DEF InsertOtpToken
  <2>6. CASE FindUserByGoogleSub(c)
    <3>1. ASSUME NEW place \in {"suspended", "email"}, pc[c] = "sub", Goto(c, place),
                 UNCHANGED <<orgs, invitation, users, uses>>
          PROVE  TypeOK'
      BY <1>0, <3>1 DEF TypeOK, CallsPlaced, Accepting, Places, Goto
    <3> QED
      BY <2>6, <3>1 DEF FindUserByGoogleSub
  <2>7. CASE GoogleFindUserByEmail(c)
    <3>1. ASSUME NEW place \in {"link", "invite"}, pc[c] = "email", Goto(c, place),
                 UNCHANGED <<orgs, invitation, users, uses>>
          PROVE  TypeOK'
      BY <1>0, <3>1 DEF TypeOK, CallsPlaced, Accepting, Places, Goto
    <3> QED
      BY <2>7, <3>1 DEF GoogleFindUserByEmail
  <2>8. CASE UpdateUserGoogleSub(c)
    BY <1>0, <2>8 DEF TypeOK, CallsPlaced, Accepting, Places, UpdateUserGoogleSub, Goto
  <2>9. CASE GoogleFindOrg(c)
    <3>1. ASSUME pc[c] = "suspended", Goto(c, "mint"),
                 UNCHANGED <<orgs, invitation, users, uses>>
          PROVE  TypeOK'
      BY <1>0, <3>1 DEF TypeOK, CallsPlaced, Accepting, Places, Goto
    <3> QED
      BY <2>0, <2>9, <3>1 DEF GoogleFindOrg, Check
  <2>10. CASE InsertRefreshToken(c)
    BY <2>0, <2>10 DEF InsertRefreshToken
  <2>11. CASE FindOrgByName(c)
    <3>1. ASSUME pc[c] = "name", Goto(c, "admin"),
                 UNCHANGED <<orgs, invitation, users, uses>>
          PROVE  TypeOK'
      BY <1>0, <3>1 DEF TypeOK, CallsPlaced, Accepting, Places, Goto
    <3> QED
      BY <2>0, <2>11, <3>1 DEF FindOrgByName, Check
  <2>12. CASE AdminFindUserByEmail(c)
    <3>1. ASSUME pc[c] = "admin", Goto(c, "create"),
                 UNCHANGED <<orgs, invitation, users, uses>>
          PROVE  TypeOK'
      BY <1>0, <3>1 DEF TypeOK, CallsPlaced, Accepting, Places, Goto
    <3> QED
      BY <2>0, <2>12, <3>1 DEF AdminFindUserByEmail, Check
  <2>13. CASE CreateOrgWithAdmin(c)
    <3>1. who[c] \in People /\ target[c] \in Orgs
      BY <1>0, <2>13 DEF CreateOrgWithAdmin, CallsPlaced
    <3>2. accounts' \in [People -> Nat] /\ home' \in [People -> Orgs \cup {None}] /\ linked' \in [People -> BOOLEAN]
      BY <1>0, <2>13, <3>1 DEF TypeOK, CreateOrgWithAdmin, InsertUser
    <3> QED
      BY <1>0, <2>13, <3>1, <3>2 DEF TypeOK, CreateOrgWithAdmin, Goto, Places
  <2>14. CASE CheckoutSession(c)
    <3>1. ASSUME NEW place \in {"mint"}, pc[c] = "checkout", Goto(c, place),
                 UNCHANGED <<orgs, invitation, users, uses>>
          PROVE  TypeOK'
      BY <1>0, <3>1 DEF TypeOK, CallsPlaced, Accepting, Places, Goto
    <3> QED
      BY <2>14, <3>1 DEF CheckoutSession
  <2>15. CASE CallFails(c)
    BY <2>0, <2>15 DEF CallFails
  <2> QED
    BY <1>2, <2>1, <2>2, <2>3, <2>4, <2>5, <2>6, <2>7, <2>8, <2>9, <2>10, <2>11, <2>12, <2>13, <2>14, <2>15 DEF CallStep
<1>3. ASSUME NEW o \in Orgs, ActivateOrgById(o) \/ ActivationFails(o) \/ Suspend(o) PROVE TypeOK'
  <2>1. CASE ActivateOrgById(o)
    BY <1>0, <2>1 DEF TypeOK, CallsPlaced, Accepting, Places, ActivateOrgById
  <2>2. CASE ActivationFails(o)
    BY <1>0, <2>2 DEF TypeOK, CallsPlaced, Accepting, Places, ActivationFails
  <2>3. CASE Suspend(o)
    BY <1>0, <2>3 DEF TypeOK, CallsPlaced, Accepting, Places, Suspend
  <2> QED
    BY <1>3, <2>1, <2>2, <2>3
<1>4. ASSUME NEW i \in Invitations, InvitationExpires(i) PROVE TypeOK'
  BY <1>0, <1>4 DEF TypeOK, CallsPlaced, Accepting, Places, InvitationExpires
<1>5. CASE Restart
  BY <1>0, <1>5 DEF TypeOK, CallsPlaced, Accepting, Places, Restart
<1>6. CASE UNCHANGED vars
  BY <1>0, <1>6 DEF TypeOK, CallsPlaced, Accepting, Places
<1> QED
  BY <1>1, <1>2, <1>3, <1>4, <1>5, <1>6 DEF Next

\* Every call keeps its arguments until it is answered.
LEMMA CallsPlacedStep == OnboardingInv /\ [Next]_vars => CallsPlaced'
<1> SUFFICES ASSUME OnboardingInv, [Next]_vars PROVE CallsPlaced'
  OBVIOUS
<1>0. TypeOK /\ CallsPlaced
  BY DEF OnboardingInv
<1>1. ASSUME NEW c \in Callers, Request(c) PROVE CallsPlaced'
  <2>1. ASSUME NEW p \in People, NEW i \in Invitations \cup {None}, NEW place, NEW o \in Orgs,
               NEW method \in {"password", "google"},
               (place \in {"invite", "sub"} /\ o = HomeOrg) \/ place = "name",
               Start(c, place, method, p, i, o)
        PROVE  CallsPlaced'
    BY <1>0, <2>1 DEF TypeOK, CallsPlaced, Accepting, Start
  <2> QED
    BY <1>1, <2>1 DEF Request, HandleInvitedUserRegistration, CreateGoogleSession, CreateOrg
<1>2. ASSUME NEW c \in Callers, CallStep(c) PROVE CallsPlaced'
  <2>0. CASE End(c) /\ UNCHANGED <<orgs, invitation, users, uses>>
    BY <1>0, <2>0 DEF TypeOK, CallsPlaced, Accepting, End
  <2>1. CASE FindInvitationByTokenHash(c)
    <3>1. ASSUME pc[c] = "invite", inv[c] # None /\ invitation[inv[c]] = "pending", Goto(c, "org"),
                 UNCHANGED <<orgs, invitation, users, uses>>
          PROVE  CallsPlaced'
      BY <1>0, <3>1 DEF TypeOK, CallsPlaced, Accepting, Goto
    <3> QED
      BY <2>0, <2>1, <3>1 DEF FindInvitationByTokenHash, Check
  <2>2. CASE InvitationFindOrg(c)
    <3>1. ASSUME pc[c] = "org", Goto(c, "count"),
                 UNCHANGED <<orgs, invitation, users, uses>>
          PROVE  CallsPlaced'
      BY <1>0, <3>1 DEF TypeOK, CallsPlaced, Accepting, Goto
    <3> QED
      BY <2>0, <2>2, <3>1 DEF InvitationFindOrg, Check
  <2>3. CASE CountActiveUsersByOrg(c)
    <3>1. ASSUME pc[c] = "count", Members(target[c]) < UserLimit, Goto(c, "accept"),
                 UNCHANGED <<orgs, invitation, users, uses>>
          PROVE  CallsPlaced'
      BY <1>0, <3>1 DEF TypeOK, CallsPlaced, Accepting, Goto
    <3> QED
      BY <2>0, <2>3, <3>1 DEF CountActiveUsersByOrg, Check
  <2>4. CASE AcceptInvitationAndCreateUser(c)
    BY <1>0, <2>4 DEF TypeOK, CallsPlaced, Accepting, AcceptInvitationAndCreateUser, Goto, InsertUser, UniqueEmail
  <2>5. CASE InsertOtpToken(c)
    BY <2>0, <2>5 DEF InsertOtpToken
  <2>6. CASE FindUserByGoogleSub(c)
    <3>1. ASSUME NEW place \in {"suspended", "email"}, pc[c] = "sub", Goto(c, place),
                 UNCHANGED <<orgs, invitation, users, uses>>
          PROVE  CallsPlaced'
      BY <1>0, <3>1 DEF TypeOK, CallsPlaced, Accepting, Goto
    <3> QED
      BY <2>6, <3>1 DEF FindUserByGoogleSub
  <2>7. CASE GoogleFindUserByEmail(c)
    <3>1. ASSUME NEW place \in {"link", "invite"}, pc[c] = "email", Goto(c, place),
                 UNCHANGED <<orgs, invitation, users, uses>>
          PROVE  CallsPlaced'
      BY <1>0, <3>1 DEF TypeOK, CallsPlaced, Accepting, Goto
    <3> QED
      BY <2>7, <3>1 DEF GoogleFindUserByEmail
  <2>8. CASE UpdateUserGoogleSub(c)
    BY <1>0, <2>8 DEF TypeOK, CallsPlaced, Accepting, UpdateUserGoogleSub, Goto
  <2>9. CASE GoogleFindOrg(c)
    <3>1. ASSUME pc[c] = "suspended", Goto(c, "mint"),
                 UNCHANGED <<orgs, invitation, users, uses>>
          PROVE  CallsPlaced'
      BY <1>0, <3>1 DEF TypeOK, CallsPlaced, Accepting, Goto
    <3> QED
      BY <2>0, <2>9, <3>1 DEF GoogleFindOrg, Check
  <2>10. CASE InsertRefreshToken(c)
    BY <2>0, <2>10 DEF InsertRefreshToken
  <2>11. CASE FindOrgByName(c)
    <3>1. ASSUME pc[c] = "name", Goto(c, "admin"),
                 UNCHANGED <<orgs, invitation, users, uses>>
          PROVE  CallsPlaced'
      BY <1>0, <3>1 DEF TypeOK, CallsPlaced, Accepting, Goto
    <3> QED
      BY <2>0, <2>11, <3>1 DEF FindOrgByName, Check
  <2>12. CASE AdminFindUserByEmail(c)
    <3>1. ASSUME pc[c] = "admin", Goto(c, "create"),
                 UNCHANGED <<orgs, invitation, users, uses>>
          PROVE  CallsPlaced'
      BY <1>0, <3>1 DEF TypeOK, CallsPlaced, Accepting, Goto
    <3> QED
      BY <2>0, <2>12, <3>1 DEF AdminFindUserByEmail, Check
  <2>13. CASE CreateOrgWithAdmin(c)
    BY <1>0, <2>13 DEF TypeOK, CallsPlaced, Accepting, CreateOrgWithAdmin, Goto, InsertUser, UniqueEmail
  <2>14. CASE CheckoutSession(c)
    <3>1. ASSUME NEW place \in {"mint"}, pc[c] = "checkout", Goto(c, place),
                 UNCHANGED <<orgs, invitation, users, uses>>
          PROVE  CallsPlaced'
      BY <1>0, <3>1 DEF TypeOK, CallsPlaced, Accepting, Goto
    <3> QED
      BY <2>14, <3>1 DEF CheckoutSession
  <2>15. CASE CallFails(c)
    BY <2>0, <2>15 DEF CallFails
  <2> QED
    BY <1>2, <2>1, <2>2, <2>3, <2>4, <2>5, <2>6, <2>7, <2>8, <2>9, <2>10, <2>11, <2>12, <2>13, <2>14, <2>15 DEF CallStep
<1>3. ASSUME NEW o \in Orgs, ActivateOrgById(o) \/ ActivationFails(o) \/ Suspend(o) PROVE CallsPlaced'
  <2>1. CASE ActivateOrgById(o)
    BY <1>0, <2>1 DEF TypeOK, CallsPlaced, Accepting, ActivateOrgById
  <2>2. CASE ActivationFails(o)
    BY <1>0, <2>2 DEF TypeOK, CallsPlaced, Accepting, ActivationFails
  <2>3. CASE Suspend(o)
    BY <1>0, <2>3 DEF TypeOK, CallsPlaced, Accepting, Suspend
  <2> QED
    BY <1>3, <2>1, <2>2, <2>3
<1>4. ASSUME NEW i \in Invitations, InvitationExpires(i) PROVE CallsPlaced'
  BY <1>0, <1>4 DEF TypeOK, CallsPlaced, Accepting, InvitationExpires
<1>5. CASE Restart
  BY <1>0, <1>5 DEF TypeOK, CallsPlaced, Accepting, Restart
<1>6. CASE UNCHANGED vars
  BY <1>0, <1>6 DEF TypeOK, CallsPlaced, Accepting
<1> QED
  BY <1>1, <1>2, <1>3, <1>4, <1>5, <1>6 DEF Next

\* An invitation that admitted somebody stays accepted, and no row is deleted.
RowsKept ==
  /\ \A i \in Invitations : uses[i] > 0 => invitation[i] = "accepted"
  /\ org[HomeOrg] # "none"

\* Only a pending invitation expires, and only its acceptance counts a use.
LEMMA RowsKeptStep == OnboardingInv /\ [Next]_vars => RowsKept'
<1> SUFFICES ASSUME OnboardingInv, [Next]_vars PROVE RowsKept'
  OBVIOUS
<1>0. TypeOK /\ CallsPlaced /\ RowsKept
  BY DEF OnboardingInv, RowsKept
<1>1. ASSUME NEW c \in Callers, Request(c) PROVE RowsKept'
  <2>1. ASSUME NEW p \in People, NEW i \in Invitations \cup {None}, NEW place, NEW o \in Orgs,
               NEW method \in {"password", "google"},
               (place \in {"invite", "sub"} /\ o = HomeOrg) \/ place = "name",
               Start(c, place, method, p, i, o)
        PROVE  RowsKept'
    BY <1>0, <2>1 DEF TypeOK, CallsPlaced, Accepting, RowsKept, Start
  <2> QED
    BY <1>1, <2>1 DEF Request, HandleInvitedUserRegistration, CreateGoogleSession, CreateOrg
<1>2. ASSUME NEW c \in Callers, CallStep(c) PROVE RowsKept'
  <2>0. CASE End(c) /\ UNCHANGED <<orgs, invitation, users, uses>>
    BY <1>0, <2>0 DEF TypeOK, CallsPlaced, Accepting, RowsKept, End
  <2>1. CASE FindInvitationByTokenHash(c)
    <3>1. ASSUME pc[c] = "invite", inv[c] # None /\ invitation[inv[c]] = "pending", Goto(c, "org"),
                 UNCHANGED <<orgs, invitation, users, uses>>
          PROVE  RowsKept'
      BY <1>0, <3>1 DEF TypeOK, CallsPlaced, Accepting, RowsKept, Goto
    <3> QED
      BY <2>0, <2>1, <3>1 DEF FindInvitationByTokenHash, Check
  <2>2. CASE InvitationFindOrg(c)
    <3>1. ASSUME pc[c] = "org", Goto(c, "count"),
                 UNCHANGED <<orgs, invitation, users, uses>>
          PROVE  RowsKept'
      BY <1>0, <3>1 DEF TypeOK, CallsPlaced, Accepting, RowsKept, Goto
    <3> QED
      BY <2>0, <2>2, <3>1 DEF InvitationFindOrg, Check
  <2>3. CASE CountActiveUsersByOrg(c)
    <3>1. ASSUME pc[c] = "count", Members(target[c]) < UserLimit, Goto(c, "accept"),
                 UNCHANGED <<orgs, invitation, users, uses>>
          PROVE  RowsKept'
      BY <1>0, <3>1 DEF TypeOK, CallsPlaced, Accepting, RowsKept, Goto
    <3> QED
      BY <2>0, <2>3, <3>1 DEF CountActiveUsersByOrg, Check
  <2>4. CASE AcceptInvitationAndCreateUser(c)
    BY <1>0, <2>4 DEF TypeOK, CallsPlaced, Accepting, RowsKept, AcceptInvitationAndCreateUser, Goto, InsertUser, UniqueEmail
  <2>5. CASE InsertOtpToken(c)
    BY <2>0, <2>5 DEF InsertOtpToken
  <2>6. CASE FindUserByGoogleSub(c)
    <3>1. ASSUME NEW place \in {"suspended", "email"}, pc[c] = "sub", Goto(c, place),
                 UNCHANGED <<orgs, invitation, users, uses>>
          PROVE  RowsKept'
      BY <1>0, <3>1 DEF TypeOK, CallsPlaced, Accepting, RowsKept, Goto
    <3> QED
      BY <2>6, <3>1 DEF FindUserByGoogleSub
  <2>7. CASE GoogleFindUserByEmail(c)
    <3>1. ASSUME NEW place \in {"link", "invite"}, pc[c] = "email", Goto(c, place),
                 UNCHANGED <<orgs, invitation, users, uses>>
          PROVE  RowsKept'
      BY <1>0, <3>1 DEF TypeOK, CallsPlaced, Accepting, RowsKept, Goto
    <3> QED
      BY <2>7, <3>1 DEF GoogleFindUserByEmail
  <2>8. CASE UpdateUserGoogleSub(c)
    BY <1>0, <2>8 DEF TypeOK, CallsPlaced, Accepting, RowsKept, UpdateUserGoogleSub, Goto
  <2>9. CASE GoogleFindOrg(c)
    <3>1. ASSUME pc[c] = "suspended", Goto(c, "mint"),
                 UNCHANGED <<orgs, invitation, users, uses>>
          PROVE  RowsKept'
      BY <1>0, <3>1 DEF TypeOK, CallsPlaced, Accepting, RowsKept, Goto
    <3> QED
      BY <2>0, <2>9, <3>1 DEF GoogleFindOrg, Check
  <2>10. CASE InsertRefreshToken(c)
    BY <2>0, <2>10 DEF InsertRefreshToken
  <2>11. CASE FindOrgByName(c)
    <3>1. ASSUME pc[c] = "name", Goto(c, "admin"),
                 UNCHANGED <<orgs, invitation, users, uses>>
          PROVE  RowsKept'
      BY <1>0, <3>1 DEF TypeOK, CallsPlaced, Accepting, RowsKept, Goto
    <3> QED
      BY <2>0, <2>11, <3>1 DEF FindOrgByName, Check
  <2>12. CASE AdminFindUserByEmail(c)
    <3>1. ASSUME pc[c] = "admin", Goto(c, "create"),
                 UNCHANGED <<orgs, invitation, users, uses>>
          PROVE  RowsKept'
      BY <1>0, <3>1 DEF TypeOK, CallsPlaced, Accepting, RowsKept, Goto
    <3> QED
      BY <2>0, <2>12, <3>1 DEF AdminFindUserByEmail, Check
  <2>13. CASE CreateOrgWithAdmin(c)
    BY <1>0, <2>13 DEF TypeOK, CallsPlaced, Accepting, RowsKept, CreateOrgWithAdmin, Goto, InsertUser, UniqueEmail
  <2>14. CASE CheckoutSession(c)
    <3>1. ASSUME NEW place \in {"mint"}, pc[c] = "checkout", Goto(c, place),
                 UNCHANGED <<orgs, invitation, users, uses>>
          PROVE  RowsKept'
      BY <1>0, <3>1 DEF TypeOK, CallsPlaced, Accepting, RowsKept, Goto
    <3> QED
      BY <2>14, <3>1 DEF CheckoutSession
  <2>15. CASE CallFails(c)
    BY <2>0, <2>15 DEF CallFails
  <2> QED
    BY <1>2, <2>1, <2>2, <2>3, <2>4, <2>5, <2>6, <2>7, <2>8, <2>9, <2>10, <2>11, <2>12, <2>13, <2>14, <2>15 DEF CallStep
<1>3. ASSUME NEW o \in Orgs, ActivateOrgById(o) \/ ActivationFails(o) \/ Suspend(o) PROVE RowsKept'
  <2>1. CASE ActivateOrgById(o)
    BY <1>0, <2>1 DEF TypeOK, CallsPlaced, Accepting, RowsKept, ActivateOrgById
  <2>2. CASE ActivationFails(o)
    BY <1>0, <2>2 DEF TypeOK, CallsPlaced, Accepting, RowsKept, ActivationFails
  <2>3. CASE Suspend(o)
    BY <1>0, <2>3 DEF TypeOK, CallsPlaced, Accepting, RowsKept, Suspend
  <2> QED
    BY <1>3, <2>1, <2>2, <2>3
<1>4. ASSUME NEW i \in Invitations, InvitationExpires(i) PROVE RowsKept'
  BY <1>0, <1>4 DEF TypeOK, CallsPlaced, Accepting, RowsKept, InvitationExpires
<1>5. CASE Restart
  BY <1>0, <1>5 DEF TypeOK, CallsPlaced, Accepting, RowsKept, Restart
<1>6. CASE UNCHANGED vars
  BY <1>0, <1>6 DEF TypeOK, CallsPlaced, Accepting, RowsKept
<1> QED
  BY <1>1, <1>2, <1>3, <1>4, <1>5, <1>6 DEF Next

\* The inductive invariant holds in every reachable state
\* (acceptInvitationAndCreateUser, createOrgWithAdmin).
THEOREM OnboardingInvariant == Spec => []OnboardingInv
<1>1. Init => OnboardingInv
  <2> SUFFICES ASSUME Init PROVE OnboardingInv
    OBVIOUS
  <2>1. TypeOK
    <3>1. org \in [Orgs -> {"none", "payment_pending", "active", "suspended"}]
      BY DEF Init
    <3>2. admins \in [Orgs -> Nat]
      BY DEF Init
    <3> QED
      BY <3>1, <3>2 DEF Init, TypeOK, Places
  <2> QED
    BY <2>1 DEF Init, OnboardingInv, CallsPlaced, Accepting
<1>2. OnboardingInv /\ [Next]_vars => OnboardingInv'
  BY TypeOKStep, CallsPlacedStep, RowsKeptStep DEF OnboardingInv, RowsKept
<1> QED
  BY <1>1, <1>2, PTL DEF Spec

----------------------------------------------------------------------------
(* Counting calls *)

LEMMA CallerSet ==
  ASSUME NEW S \in SUBSET Callers
  PROVE  /\ IsFiniteSet(S) /\ Cardinality(S) \in Nat
         /\ Cardinality(Callers) \in Nat /\ Cardinality(S) <= Cardinality(Callers)
BY FS_Subset, FS_CardinalityType

\* A set of calls that loses members gets no larger, and smaller by one if a
\* given call leaves it.
LEMMA CallerSetShrinks ==
  ASSUME NEW S \in SUBSET Callers, NEW T \in SUBSET S
  PROVE  /\ Cardinality(T) <= Cardinality(S)
         /\ \A c \in S : c \notin T => Cardinality(T) + 1 <= Cardinality(S)
<1>1. IsFiniteSet(S) /\ Cardinality(S) \in Nat
  BY CallerSet
<1>2. Cardinality(T) <= Cardinality(S)
  BY <1>1, FS_Subset
<1>3. ASSUME NEW c \in S, c \notin T PROVE Cardinality(T) + 1 <= Cardinality(S)
  <2>1. IsFiniteSet(S \ {c}) /\ Cardinality(S \ {c}) = Cardinality(S) - 1
    BY <1>1, FS_RemoveElement
  <2>2. T \in SUBSET (S \ {c})
    BY <1>3
  <2>3. IsFiniteSet(T) /\ Cardinality(T) <= Cardinality(S \ {c})
    BY <2>1, <2>2, FS_Subset
  <2>4. Cardinality(T) \in Nat
    BY <2>3, FS_CardinalityType
  <2> QED
    BY <1>1, <2>1, <2>3, <2>4
<1> QED
  BY <1>2, <1>3

----------------------------------------------------------------------------
(* Invitations *)

\* A step that uses no invitation and lets no call begin to accept one.
NoNewUse ==
  /\ UNCHANGED uses
  /\ \A c \in Callers : pc'[c] \in Accepting => pc[c] \in Accepting /\ inv'[c] = inv[c]

\* Only reading an invitation as pending and accepting it are such steps.
LEMMA NoNewUseStep ==
  ASSUME OnboardingInv, [Next]_vars,
         \A c \in Callers : ~ FindInvitationByTokenHash(c) /\ ~ AcceptInvitationAndCreateUser(c)
  PROVE  NoNewUse
<1>0. TypeOK /\ CallsPlaced
  BY DEF OnboardingInv
<1>1. ASSUME NEW c \in Callers, Request(c) PROVE NoNewUse
  <2>1. ASSUME NEW p \in People, NEW i \in Invitations \cup {None}, NEW place, NEW o \in Orgs,
               NEW method \in {"password", "google"},
               (place \in {"invite", "sub"} /\ o = HomeOrg) \/ place = "name",
               Start(c, place, method, p, i, o)
        PROVE  NoNewUse
    BY <1>0, <2>1 DEF TypeOK, CallsPlaced, Accepting, NoNewUse, Start
  <2> QED
    BY <1>1, <2>1 DEF Request, HandleInvitedUserRegistration, CreateGoogleSession, CreateOrg
<1>2. ASSUME NEW c \in Callers, CallStep(c) PROVE NoNewUse
  <2>0. CASE End(c) /\ UNCHANGED <<orgs, invitation, users, uses>>
    BY <1>0, <2>0 DEF TypeOK, CallsPlaced, Accepting, NoNewUse, End
  <2>2. CASE InvitationFindOrg(c)
    <3>1. ASSUME pc[c] = "org", Goto(c, "count"),
                 UNCHANGED <<orgs, invitation, users, uses>>
          PROVE  NoNewUse
      BY <1>0, <3>1 DEF TypeOK, CallsPlaced, Accepting, NoNewUse, Goto
    <3> QED
      BY <2>0, <2>2, <3>1 DEF InvitationFindOrg, Check
  <2>3. CASE CountActiveUsersByOrg(c)
    <3>1. ASSUME pc[c] = "count", Members(target[c]) < UserLimit, Goto(c, "accept"),
                 UNCHANGED <<orgs, invitation, users, uses>>
          PROVE  NoNewUse
      BY <1>0, <3>1 DEF TypeOK, CallsPlaced, Accepting, NoNewUse, Goto
    <3> QED
      BY <2>0, <2>3, <3>1 DEF CountActiveUsersByOrg, Check
  <2>5. CASE InsertOtpToken(c)
    BY <2>0, <2>5 DEF InsertOtpToken
  <2>6. CASE FindUserByGoogleSub(c)
    <3>1. ASSUME NEW place \in {"suspended", "email"}, pc[c] = "sub", Goto(c, place),
                 UNCHANGED <<orgs, invitation, users, uses>>
          PROVE  NoNewUse
      BY <1>0, <3>1 DEF TypeOK, CallsPlaced, Accepting, NoNewUse, Goto
    <3> QED
      BY <2>6, <3>1 DEF FindUserByGoogleSub
  <2>7. CASE GoogleFindUserByEmail(c)
    <3>1. ASSUME NEW place \in {"link", "invite"}, pc[c] = "email", Goto(c, place),
                 UNCHANGED <<orgs, invitation, users, uses>>
          PROVE  NoNewUse
      BY <1>0, <3>1 DEF TypeOK, CallsPlaced, Accepting, NoNewUse, Goto
    <3> QED
      BY <2>7, <3>1 DEF GoogleFindUserByEmail
  <2>8. CASE UpdateUserGoogleSub(c)
    BY <1>0, <2>8 DEF TypeOK, CallsPlaced, Accepting, NoNewUse, UpdateUserGoogleSub, Goto
  <2>9. CASE GoogleFindOrg(c)
    <3>1. ASSUME pc[c] = "suspended", Goto(c, "mint"),
                 UNCHANGED <<orgs, invitation, users, uses>>
          PROVE  NoNewUse
      BY <1>0, <3>1 DEF TypeOK, CallsPlaced, Accepting, NoNewUse, Goto
    <3> QED
      BY <2>0, <2>9, <3>1 DEF GoogleFindOrg, Check
  <2>10. CASE InsertRefreshToken(c)
    BY <2>0, <2>10 DEF InsertRefreshToken
  <2>11. CASE FindOrgByName(c)
    <3>1. ASSUME pc[c] = "name", Goto(c, "admin"),
                 UNCHANGED <<orgs, invitation, users, uses>>
          PROVE  NoNewUse
      BY <1>0, <3>1 DEF TypeOK, CallsPlaced, Accepting, NoNewUse, Goto
    <3> QED
      BY <2>0, <2>11, <3>1 DEF FindOrgByName, Check
  <2>12. CASE AdminFindUserByEmail(c)
    <3>1. ASSUME pc[c] = "admin", Goto(c, "create"),
                 UNCHANGED <<orgs, invitation, users, uses>>
          PROVE  NoNewUse
      BY <1>0, <3>1 DEF TypeOK, CallsPlaced, Accepting, NoNewUse, Goto
    <3> QED
      BY <2>0, <2>12, <3>1 DEF AdminFindUserByEmail, Check
  <2>13. CASE CreateOrgWithAdmin(c)
    BY <1>0, <2>13 DEF TypeOK, CallsPlaced, Accepting, NoNewUse, CreateOrgWithAdmin, Goto, InsertUser, UniqueEmail
  <2>14. CASE CheckoutSession(c)
    <3>1. ASSUME NEW place \in {"mint"}, pc[c] = "checkout", Goto(c, place),
                 UNCHANGED <<orgs, invitation, users, uses>>
          PROVE  NoNewUse
      BY <1>0, <3>1 DEF TypeOK, CallsPlaced, Accepting, NoNewUse, Goto
    <3> QED
      BY <2>14, <3>1 DEF CheckoutSession
  <2>15. CASE CallFails(c)
    BY <2>0, <2>15 DEF CallFails
  <2> QED
    BY <1>2, <2>2, <2>3, <2>5, <2>6, <2>7, <2>8, <2>9, <2>10, <2>11, <2>12, <2>13, <2>14, <2>15 DEF CallStep
<1>3. ASSUME NEW o \in Orgs, ActivateOrgById(o) \/ ActivationFails(o) \/ Suspend(o) PROVE NoNewUse
  <2>1. CASE ActivateOrgById(o)
    BY <1>0, <2>1 DEF TypeOK, CallsPlaced, Accepting, NoNewUse, ActivateOrgById
  <2>2. CASE ActivationFails(o)
    BY <1>0, <2>2 DEF TypeOK, CallsPlaced, Accepting, NoNewUse, ActivationFails
  <2>3. CASE Suspend(o)
    BY <1>0, <2>3 DEF TypeOK, CallsPlaced, Accepting, NoNewUse, Suspend
  <2> QED
    BY <1>3, <2>1, <2>2, <2>3
<1>4. ASSUME NEW i \in Invitations, InvitationExpires(i) PROVE NoNewUse
  BY <1>0, <1>4 DEF TypeOK, CallsPlaced, Accepting, NoNewUse, InvitationExpires
<1>5. CASE Restart
  BY <1>0, <1>5 DEF TypeOK, CallsPlaced, Accepting, NoNewUse, Restart
<1>6. CASE UNCHANGED vars
  BY <1>0, <1>6 DEF TypeOK, CallsPlaced, Accepting, NoNewUse
<1> QED
  BY <1>1, <1>2, <1>3, <1>4, <1>5, <1>6 DEF Next


\* An invitation admits at most one person per call that overlaps with its
\* acceptance, whatever the number of calls, people and invitations
\* (acceptInvitationAndCreateUser).
THEOREM InvitationUsesAreBounded == Spec => []UsesPerInvitationBounded
<1>1. Init => UsesPerInvitationBounded
  <2> SUFFICES ASSUME Init, NEW i \in Invitations
               PROVE  uses[i] + Cardinality(Admitting(i)) <= Cardinality(Callers)
    BY DEF UsesPerInvitationBounded
  <2>1. uses[i] = 0
    BY DEF Init
  <2>2. Cardinality(Admitting(i)) \in Nat /\ Cardinality(Admitting(i)) <= Cardinality(Callers)
    BY CallerSet DEF Admitting
  <2> QED
    BY <2>1, <2>2
<1>2. OnboardingInv /\ UsesPerInvitationBounded /\ [Next]_vars => UsesPerInvitationBounded'
  <2> SUFFICES ASSUME OnboardingInv, UsesPerInvitationBounded, [Next]_vars, NEW i \in Invitations
               PROVE  uses'[i] + Cardinality(Admitting(i)') <= Cardinality(Callers)
    BY DEF UsesPerInvitationBounded
  <2>1. uses[i] + Cardinality(Admitting(i)) <= Cardinality(Callers)
    BY DEF UsesPerInvitationBounded
  <2>2. Admitting(i) \in SUBSET Callers /\ Admitting(i)' \in SUBSET Callers
    BY DEF Admitting
  <2>3. /\ Cardinality(Admitting(i)) \in Nat /\ Cardinality(Admitting(i)') \in Nat
        /\ Cardinality(Callers) \in Nat /\ Cardinality(Admitting(i)') <= Cardinality(Callers)
    BY <2>2, CallerSet
  <2>4. uses \in [Invitations -> Nat] /\ inv \in [Callers -> Invitations \cup {None}] /\ pc \in [Callers -> Places]
    BY DEF OnboardingInv, TypeOK
  <2>5. ASSUME NEW c \in Callers, FindInvitationByTokenHash(c)
        PROVE  uses'[i] + Cardinality(Admitting(i)') <= Cardinality(Callers)
    <3>1. CASE pc'[c] = "org" /\ inv[c] = i /\ invitation[i] = "pending"
      <4>1. uses'[i] = 0
        BY <2>4, <2>5, <3>1 DEF FindInvitationByTokenHash, Check, OnboardingInv
      <4> QED
        BY <2>3, <4>1
    <3>2. CASE ~ (pc'[c] = "org" /\ inv[c] = i /\ invitation[i] = "pending")
      <4>1. uses'[i] = uses[i]
        BY <2>5 DEF FindInvitationByTokenHash, Check
      <4>2. Admitting(i)' \in SUBSET Admitting(i)
        BY <2>4, <2>5, <3>2 DEF FindInvitationByTokenHash, Check, Goto, End, Admitting, Accepting
      <4>3. Cardinality(Admitting(i)') <= Cardinality(Admitting(i))
        BY <2>2, <4>2, CallerSetShrinks
      <4> QED
        BY <2>1, <2>3, <2>4, <4>1, <4>3
    <3> QED
      BY <3>1, <3>2
  <2>6. ASSUME NEW c \in Callers, AcceptInvitationAndCreateUser(c)
        PROVE  uses'[i] + Cardinality(Admitting(i)') <= Cardinality(Callers)
    <3>1. Admitting(i)' \in SUBSET Admitting(i)
      BY <2>4, <2>6 DEF AcceptInvitationAndCreateUser, Goto, Admitting, Accepting
    <3>2. CASE inv[c] = i
      <4>1. uses'[i] = uses[i] + 1
        BY <2>4, <2>6, <3>2 DEF AcceptInvitationAndCreateUser
      <4>2. c \in Admitting(i) /\ c \notin Admitting(i)'
        BY <2>4, <2>6, <3>2 DEF AcceptInvitationAndCreateUser, Goto, Admitting, Accepting
      <4>3. Cardinality(Admitting(i)') + 1 <= Cardinality(Admitting(i))
        BY <2>2, <3>1, <4>2, CallerSetShrinks
      <4> QED
        BY <2>1, <2>3, <2>4, <4>1, <4>3
    <3>3. CASE inv[c] # i
      <4>1. uses'[i] = uses[i]
        BY <2>4, <2>6, <3>3 DEF AcceptInvitationAndCreateUser
      <4>2. Cardinality(Admitting(i)') <= Cardinality(Admitting(i))
        BY <2>2, <3>1, CallerSetShrinks
      <4> QED
        BY <2>1, <2>3, <2>4, <4>1, <4>2
    <3> QED
      BY <3>2, <3>3
  <2>7. CASE NoNewUse
    <3>1. Admitting(i)' \in SUBSET Admitting(i)
      BY <2>7 DEF NoNewUse, Admitting
    <3>2. Cardinality(Admitting(i)') <= Cardinality(Admitting(i))
      BY <2>2, <3>1, CallerSetShrinks
    <3> QED
      BY <2>1, <2>3, <2>4, <2>7, <3>2 DEF NoNewUse
  <2> QED
    BY <2>5, <2>6, <2>7, NoNewUseStep
<1> QED
  BY <1>1, <1>2, OnboardingInvariant, PTL DEF Spec

----------------------------------------------------------------------------
(* Accounts and members *)

\* A step that adds no account and no organisation and lets no call past the
\* count.
NoNewMember ==
  /\ UNCHANGED <<accounts, home, admins>>
  /\ \A o \in Orgs : org[o] = "none" => org'[o] = "none"
  /\ \A c \in Callers : pc'[c] = "accept" => pc[c] = "accept" /\ who'[c] = who[c]

\* Only the count, the acceptance and the creation of an organisation are not
\* such steps.
LEMMA NoNewMemberStep ==
  ASSUME OnboardingInv, [Next]_vars,
         \A c \in Callers : ~ CountActiveUsersByOrg(c) /\ ~ AcceptInvitationAndCreateUser(c) /\ ~ CreateOrgWithAdmin(c)
  PROVE  NoNewMember
<1>0. TypeOK /\ CallsPlaced
  BY DEF OnboardingInv
<1>1. ASSUME NEW c \in Callers, Request(c) PROVE NoNewMember
  <2>1. ASSUME NEW p \in People, NEW i \in Invitations \cup {None}, NEW place, NEW o \in Orgs,
               NEW method \in {"password", "google"},
               (place \in {"invite", "sub"} /\ o = HomeOrg) \/ place = "name",
               Start(c, place, method, p, i, o)
        PROVE  NoNewMember
    BY <1>0, <2>1 DEF TypeOK, CallsPlaced, Accepting, NoNewMember, Start
  <2> QED
    BY <1>1, <2>1 DEF Request, HandleInvitedUserRegistration, CreateGoogleSession, CreateOrg
<1>2. ASSUME NEW c \in Callers, CallStep(c) PROVE NoNewMember
  <2>0. CASE End(c) /\ UNCHANGED <<orgs, invitation, users, uses>>
    BY <1>0, <2>0 DEF TypeOK, CallsPlaced, Accepting, NoNewMember, End
  <2>1. CASE FindInvitationByTokenHash(c)
    <3>1. ASSUME pc[c] = "invite", inv[c] # None /\ invitation[inv[c]] = "pending", Goto(c, "org"),
                 UNCHANGED <<orgs, invitation, users, uses>>
          PROVE  NoNewMember
      BY <1>0, <3>1 DEF TypeOK, CallsPlaced, Accepting, NoNewMember, Goto
    <3> QED
      BY <2>0, <2>1, <3>1 DEF FindInvitationByTokenHash, Check
  <2>2. CASE InvitationFindOrg(c)
    <3>1. ASSUME pc[c] = "org", Goto(c, "count"),
                 UNCHANGED <<orgs, invitation, users, uses>>
          PROVE  NoNewMember
      BY <1>0, <3>1 DEF TypeOK, CallsPlaced, Accepting, NoNewMember, Goto
    <3> QED
      BY <2>0, <2>2, <3>1 DEF InvitationFindOrg, Check
  <2>5. CASE InsertOtpToken(c)
    BY <2>0, <2>5 DEF InsertOtpToken
  <2>6. CASE FindUserByGoogleSub(c)
    <3>1. ASSUME NEW place \in {"suspended", "email"}, pc[c] = "sub", Goto(c, place),
                 UNCHANGED <<orgs, invitation, users, uses>>
          PROVE  NoNewMember
      BY <1>0, <3>1 DEF TypeOK, CallsPlaced, Accepting, NoNewMember, Goto
    <3> QED
      BY <2>6, <3>1 DEF FindUserByGoogleSub
  <2>7. CASE GoogleFindUserByEmail(c)
    <3>1. ASSUME NEW place \in {"link", "invite"}, pc[c] = "email", Goto(c, place),
                 UNCHANGED <<orgs, invitation, users, uses>>
          PROVE  NoNewMember
      BY <1>0, <3>1 DEF TypeOK, CallsPlaced, Accepting, NoNewMember, Goto
    <3> QED
      BY <2>7, <3>1 DEF GoogleFindUserByEmail
  <2>8. CASE UpdateUserGoogleSub(c)
    BY <1>0, <2>8 DEF TypeOK, CallsPlaced, Accepting, NoNewMember, UpdateUserGoogleSub, Goto
  <2>9. CASE GoogleFindOrg(c)
    <3>1. ASSUME pc[c] = "suspended", Goto(c, "mint"),
                 UNCHANGED <<orgs, invitation, users, uses>>
          PROVE  NoNewMember
      BY <1>0, <3>1 DEF TypeOK, CallsPlaced, Accepting, NoNewMember, Goto
    <3> QED
      BY <2>0, <2>9, <3>1 DEF GoogleFindOrg, Check
  <2>10. CASE InsertRefreshToken(c)
    BY <2>0, <2>10 DEF InsertRefreshToken
  <2>11. CASE FindOrgByName(c)
    <3>1. ASSUME pc[c] = "name", Goto(c, "admin"),
                 UNCHANGED <<orgs, invitation, users, uses>>
          PROVE  NoNewMember
      BY <1>0, <3>1 DEF TypeOK, CallsPlaced, Accepting, NoNewMember, Goto
    <3> QED
      BY <2>0, <2>11, <3>1 DEF FindOrgByName, Check
  <2>12. CASE AdminFindUserByEmail(c)
    <3>1. ASSUME pc[c] = "admin", Goto(c, "create"),
                 UNCHANGED <<orgs, invitation, users, uses>>
          PROVE  NoNewMember
      BY <1>0, <3>1 DEF TypeOK, CallsPlaced, Accepting, NoNewMember, Goto
    <3> QED
      BY <2>0, <2>12, <3>1 DEF AdminFindUserByEmail, Check
  <2>14. CASE CheckoutSession(c)
    <3>1. ASSUME NEW place \in {"mint"}, pc[c] = "checkout", Goto(c, place),
                 UNCHANGED <<orgs, invitation, users, uses>>
          PROVE  NoNewMember
      BY <1>0, <3>1 DEF TypeOK, CallsPlaced, Accepting, NoNewMember, Goto
    <3> QED
      BY <2>14, <3>1 DEF CheckoutSession
  <2>15. CASE CallFails(c)
    BY <2>0, <2>15 DEF CallFails
  <2> QED
    BY <1>2, <2>1, <2>2, <2>5, <2>6, <2>7, <2>8, <2>9, <2>10, <2>11, <2>12, <2>14, <2>15 DEF CallStep
<1>3. ASSUME NEW o \in Orgs, ActivateOrgById(o) \/ ActivationFails(o) \/ Suspend(o) PROVE NoNewMember
  <2>1. CASE ActivateOrgById(o)
    BY <1>0, <2>1 DEF TypeOK, CallsPlaced, Accepting, NoNewMember, ActivateOrgById
  <2>2. CASE ActivationFails(o)
    BY <1>0, <2>2 DEF TypeOK, CallsPlaced, Accepting, NoNewMember, ActivationFails
  <2>3. CASE Suspend(o)
    BY <1>0, <2>3 DEF TypeOK, CallsPlaced, Accepting, NoNewMember, Suspend
  <2> QED
    BY <1>3, <2>1, <2>2, <2>3
<1>4. ASSUME NEW i \in Invitations, InvitationExpires(i) PROVE NoNewMember
  BY <1>0, <1>4 DEF TypeOK, CallsPlaced, Accepting, NoNewMember, InvitationExpires
<1>5. CASE Restart
  BY <1>0, <1>5 DEF TypeOK, CallsPlaced, Accepting, NoNewMember, Restart
<1>6. CASE UNCHANGED vars
  BY <1>0, <1>6 DEF TypeOK, CallsPlaced, Accepting, NoNewMember
<1> QED
  BY <1>1, <1>2, <1>3, <1>4, <1>5, <1>6 DEF Next


\* However the calls of one person interleave, one account comes of them, and
\* every organisation has its admin (the unique indexes and the transaction of
\* createOrgWithAdmin).
THEOREM AccountsStayConsistent == Spec => []AccountsConsistent
<1>1. Init => AccountsConsistent
  BY DEF Init, AccountsConsistent
<1>2. OnboardingInv /\ AccountsConsistent /\ [Next]_vars => AccountsConsistent'
  <2> SUFFICES ASSUME OnboardingInv, AccountsConsistent, [Next]_vars PROVE AccountsConsistent'
    OBVIOUS
  <2> USE DEF AccountsConsistent
  <2>0. TypeOK /\ CallsPlaced
    BY DEF OnboardingInv
  <2>1. ASSUME NEW c \in Callers, CountActiveUsersByOrg(c) PROVE AccountsConsistent'
    BY <2>1 DEF CountActiveUsersByOrg, Check
  <2>2. ASSUME NEW c \in Callers, AcceptInvitationAndCreateUser(c) PROVE AccountsConsistent'
    BY <2>0, <2>2 DEF TypeOK, CallsPlaced, AcceptInvitationAndCreateUser, InsertUser, UniqueEmail
  <2>3. ASSUME NEW c \in Callers, CreateOrgWithAdmin(c) PROVE AccountsConsistent'
    BY <2>0, <2>3 DEF TypeOK, CallsPlaced, CreateOrgWithAdmin, InsertUser, UniqueEmail
  <2>4. CASE NoNewMember
    BY <2>4 DEF NoNewMember
  <2> QED
    BY <2>1, <2>2, <2>3, <2>4, NoNewMemberStep
<1> QED
  BY <1>1, <1>2, OnboardingInvariant, PTL DEF Spec

\* The people with an account in HomeOrg, besides its first admin.
Joined == {p \in People : accounts[p] > 0 /\ home[p] = HomeOrg}

LEMMA MembersOfHome ==
  /\ Members(HomeOrg) = Cardinality(Joined) + 1 /\ Cardinality(Joined) \in Nat
  /\ Members(HomeOrg)' = Cardinality(Joined') + 1 /\ Cardinality(Joined') \in Nat
<1>1. Joined \in SUBSET People /\ Joined' \in SUBSET People
  BY DEF Joined
<1>2. /\ IsFiniteSet(Joined) /\ Cardinality(Joined) \in Nat
      /\ IsFiniteSet(Joined') /\ Cardinality(Joined') \in Nat
  BY <1>1, FS_Subset, FS_CardinalityType
<1> QED
  BY <1>2 DEF Members, Joined

\* The user limit of an organisation is exceeded by less than the number of
\* calls that can be between their count and their transaction
\* (handleInvitedUserRegistration, createGoogleSession).
THEOREM MembersAreBounded == Spec => []MembersBounded
<1> DEFINE N == Cardinality(Callers)
<1>0. N \in Nat /\ N >= 1
  BY FS_EmptySet, FS_CardinalityType
<1> USE <1>0
<1> HIDE DEF N
<1>1. Init => MembersBounded
  <2> SUFFICES ASSUME Init PROVE MembersBounded
    OBVIOUS
  <2>1. Joined = {} /\ Joining = {}
    BY DEF Init, Joined, Joining
  <2>2. Cardinality(Joined) = 0 /\ Cardinality(Joining) = 0
    BY <2>1, FS_EmptySet
  <2> QED
    BY <2>2, MembersOfHome DEF MembersBounded, N
<1>2. OnboardingInv /\ MembersBounded /\ [Next]_vars => MembersBounded'
  <2> SUFFICES ASSUME OnboardingInv, MembersBounded, [Next]_vars PROVE MembersBounded'
    OBVIOUS
  <2>0. TypeOK /\ CallsPlaced /\ org[HomeOrg] # "none"
    BY DEF OnboardingInv
  <2>1. Cardinality(Joined) + 1 + Cardinality(Joining) <= UserLimit + N - 1
    BY MembersOfHome DEF MembersBounded, N
  <2>2. Joining \in SUBSET Callers /\ Joining' \in SUBSET Callers
    BY DEF Joining
  <2>3. /\ Cardinality(Joined) \in Nat /\ Cardinality(Joined') \in Nat
        /\ Cardinality(Joining) \in Nat /\ Cardinality(Joining') \in Nat
        /\ Cardinality(Joining') <= N
    BY <2>2, CallerSet, MembersOfHome DEF N
  <2> SUFFICES Cardinality(Joined') + 1 + Cardinality(Joining') <= UserLimit + N - 1
    BY MembersOfHome DEF MembersBounded, N
  <2>4. ASSUME NEW c \in Callers, CountActiveUsersByOrg(c)
        PROVE  Cardinality(Joined') + 1 + Cardinality(Joining') <= UserLimit + N - 1
    <3>0. pc[c] = "count" /\ target[c] = HomeOrg /\ UNCHANGED <<accounts, home>>
      BY <2>0, <2>4 DEF CountActiveUsersByOrg, Check, CallsPlaced, Accepting
    <3>1. Joined' = Joined
      BY <3>0 DEF Joined
    <3>2. CASE Members(HomeOrg) < UserLimit
      <4>1. Cardinality(Joined) + 1 < UserLimit
        BY <3>2, MembersOfHome
      <4> QED
        BY <2>3, <3>1, <4>1
    <3>3. CASE End(c)
      <4>1. Joining' \in SUBSET Joining
        BY <2>0, <3>0, <3>3 DEF Joining, End, TypeOK
      <4>2. Cardinality(Joining') <= Cardinality(Joining)
        BY <2>2, <4>1, CallerSetShrinks
      <4> QED
        BY <2>1, <2>3, <3>1, <4>2
    <3> QED
      BY <2>4, <3>0, <3>2, <3>3 DEF CountActiveUsersByOrg, Check
  <2>5. ASSUME NEW c \in Callers, AcceptInvitationAndCreateUser(c)
        PROVE  Cardinality(Joined') + 1 + Cardinality(Joining') <= UserLimit + N - 1
    <3>0. who[c] \in People /\ target[c] = HomeOrg /\ accounts[who[c]] = 0
      BY <2>0, <2>5 DEF AcceptInvitationAndCreateUser, UniqueEmail, CallsPlaced, Accepting
    <3>1. Joined' = Joined \cup {who[c]} /\ who[c] \notin Joined
      BY <2>0, <2>5, <3>0 DEF AcceptInvitationAndCreateUser, InsertUser, Joined, TypeOK
    <3>2. IsFiniteSet(Joined)
      BY FS_Subset DEF Joined
    <3>3. Cardinality(Joined') = Cardinality(Joined) + 1
      BY <3>1, <3>2, FS_AddElement
    <3>4. Joining' \in SUBSET Joining /\ c \in Joining /\ c \notin Joining'
      BY <2>0, <2>5, <3>0 DEF AcceptInvitationAndCreateUser, InsertUser, Goto, Joining, TypeOK, CallsPlaced
    <3>5. Cardinality(Joining') + 1 <= Cardinality(Joining)
      BY <2>2, <3>4, CallerSetShrinks
    <3> QED
      BY <2>1, <2>3, <3>3, <3>5
  <2>6. ASSUME NEW c \in Callers, CreateOrgWithAdmin(c)
        PROVE  Cardinality(Joined') + 1 + Cardinality(Joining') <= UserLimit + N - 1
    <3>0. who[c] \in People /\ target[c] # HomeOrg /\ accounts[who[c]] = 0
      BY <2>0, <2>6 DEF CreateOrgWithAdmin, UniqueEmail, CallsPlaced
    <3>1. Joined' = Joined
      BY <2>0, <2>6, <3>0 DEF CreateOrgWithAdmin, InsertUser, Joined, TypeOK
    <3>2. Joining' \in SUBSET Joining
      BY <2>0, <2>6, <3>0 DEF CreateOrgWithAdmin, InsertUser, Goto, Joining, TypeOK, CallsPlaced
    <3>3. Cardinality(Joining') <= Cardinality(Joining)
      BY <2>2, <3>2, CallerSetShrinks
    <3> QED
      BY <2>1, <2>3, <3>1, <3>3
  <2>7. CASE NoNewMember
    <3>1. Joined' = Joined /\ Joining' \in SUBSET Joining
      BY <2>7 DEF NoNewMember, Joined, Joining
    <3>2. Cardinality(Joining') <= Cardinality(Joining)
      BY <2>2, <3>1, CallerSetShrinks
    <3> QED
      BY <2>1, <2>3, <3>1, <3>2
  <2> QED
    BY <2>4, <2>5, <2>6, <2>7, NoNewMemberStep
<1> QED
  BY <1>1, <1>2, OnboardingInvariant, PTL DEF Spec

----------------------------------------------------------------------------
(* Suspensions *)

\* No step of this component lifts a suspension.
NoneLifted == \A o \in Orgs : org[o] = "suspended" => org'[o] = "suspended"

\* The transaction inserts a new organisation and the timer writes only over
\* PAYMENT_PENDING.
LEMMA NoneLiftedStep == OnboardingInv /\ [Next]_vars => NoneLifted
<1> SUFFICES ASSUME OnboardingInv, [Next]_vars PROVE NoneLifted
  OBVIOUS
<1>0. TypeOK /\ CallsPlaced
  BY DEF OnboardingInv
<1>1. ASSUME NEW c \in Callers, Request(c) PROVE NoneLifted
  <2>1. ASSUME NEW p \in People, NEW i \in Invitations \cup {None}, NEW place, NEW o \in Orgs,
               NEW method \in {"password", "google"},
               (place \in {"invite", "sub"} /\ o = HomeOrg) \/ place = "name",
               Start(c, place, method, p, i, o)
        PROVE  NoneLifted
    BY <1>0, <2>1 DEF TypeOK, CallsPlaced, Accepting, NoneLifted, Start
  <2> QED
    BY <1>1, <2>1 DEF Request, HandleInvitedUserRegistration, CreateGoogleSession, CreateOrg
<1>2. ASSUME NEW c \in Callers, CallStep(c) PROVE NoneLifted
  <2>0. CASE End(c) /\ UNCHANGED <<orgs, invitation, users, uses>>
    BY <1>0, <2>0 DEF TypeOK, CallsPlaced, Accepting, NoneLifted, End
  <2>1. CASE FindInvitationByTokenHash(c)
    <3>1. ASSUME pc[c] = "invite", inv[c] # None /\ invitation[inv[c]] = "pending", Goto(c, "org"),
                 UNCHANGED <<orgs, invitation, users, uses>>
          PROVE  NoneLifted
      BY <1>0, <3>1 DEF TypeOK, CallsPlaced, Accepting, NoneLifted, Goto
    <3> QED
      BY <2>0, <2>1, <3>1 DEF FindInvitationByTokenHash, Check
  <2>2. CASE InvitationFindOrg(c)
    <3>1. ASSUME pc[c] = "org", Goto(c, "count"),
                 UNCHANGED <<orgs, invitation, users, uses>>
          PROVE  NoneLifted
      BY <1>0, <3>1 DEF TypeOK, CallsPlaced, Accepting, NoneLifted, Goto
    <3> QED
      BY <2>0, <2>2, <3>1 DEF InvitationFindOrg, Check
  <2>3. CASE CountActiveUsersByOrg(c)
    <3>1. ASSUME pc[c] = "count", Members(target[c]) < UserLimit, Goto(c, "accept"),
                 UNCHANGED <<orgs, invitation, users, uses>>
          PROVE  NoneLifted
      BY <1>0, <3>1 DEF TypeOK, CallsPlaced, Accepting, NoneLifted, Goto
    <3> QED
      BY <2>0, <2>3, <3>1 DEF CountActiveUsersByOrg, Check
  <2>4. CASE AcceptInvitationAndCreateUser(c)
    BY <1>0, <2>4 DEF TypeOK, CallsPlaced, Accepting, NoneLifted, AcceptInvitationAndCreateUser, Goto, InsertUser, UniqueEmail
  <2>5. CASE InsertOtpToken(c)
    BY <2>0, <2>5 DEF InsertOtpToken
  <2>6. CASE FindUserByGoogleSub(c)
    <3>1. ASSUME NEW place \in {"suspended", "email"}, pc[c] = "sub", Goto(c, place),
                 UNCHANGED <<orgs, invitation, users, uses>>
          PROVE  NoneLifted
      BY <1>0, <3>1 DEF TypeOK, CallsPlaced, Accepting, NoneLifted, Goto
    <3> QED
      BY <2>6, <3>1 DEF FindUserByGoogleSub
  <2>7. CASE GoogleFindUserByEmail(c)
    <3>1. ASSUME NEW place \in {"link", "invite"}, pc[c] = "email", Goto(c, place),
                 UNCHANGED <<orgs, invitation, users, uses>>
          PROVE  NoneLifted
      BY <1>0, <3>1 DEF TypeOK, CallsPlaced, Accepting, NoneLifted, Goto
    <3> QED
      BY <2>7, <3>1 DEF GoogleFindUserByEmail
  <2>8. CASE UpdateUserGoogleSub(c)
    BY <1>0, <2>8 DEF TypeOK, CallsPlaced, Accepting, NoneLifted, UpdateUserGoogleSub, Goto
  <2>9. CASE GoogleFindOrg(c)
    <3>1. ASSUME pc[c] = "suspended", Goto(c, "mint"),
                 UNCHANGED <<orgs, invitation, users, uses>>
          PROVE  NoneLifted
      BY <1>0, <3>1 DEF TypeOK, CallsPlaced, Accepting, NoneLifted, Goto
    <3> QED
      BY <2>0, <2>9, <3>1 DEF GoogleFindOrg, Check
  <2>10. CASE InsertRefreshToken(c)
    BY <2>0, <2>10 DEF InsertRefreshToken
  <2>11. CASE FindOrgByName(c)
    <3>1. ASSUME pc[c] = "name", Goto(c, "admin"),
                 UNCHANGED <<orgs, invitation, users, uses>>
          PROVE  NoneLifted
      BY <1>0, <3>1 DEF TypeOK, CallsPlaced, Accepting, NoneLifted, Goto
    <3> QED
      BY <2>0, <2>11, <3>1 DEF FindOrgByName, Check
  <2>12. CASE AdminFindUserByEmail(c)
    <3>1. ASSUME pc[c] = "admin", Goto(c, "create"),
                 UNCHANGED <<orgs, invitation, users, uses>>
          PROVE  NoneLifted
      BY <1>0, <3>1 DEF TypeOK, CallsPlaced, Accepting, NoneLifted, Goto
    <3> QED
      BY <2>0, <2>12, <3>1 DEF AdminFindUserByEmail, Check
  <2>13. CASE CreateOrgWithAdmin(c)
    BY <1>0, <2>13 DEF TypeOK, CallsPlaced, Accepting, NoneLifted, CreateOrgWithAdmin, Goto, InsertUser, UniqueEmail
  <2>14. CASE CheckoutSession(c)
    <3>1. ASSUME NEW place \in {"mint"}, pc[c] = "checkout", Goto(c, place),
                 UNCHANGED <<orgs, invitation, users, uses>>
          PROVE  NoneLifted
      BY <1>0, <3>1 DEF TypeOK, CallsPlaced, Accepting, NoneLifted, Goto
    <3> QED
      BY <2>14, <3>1 DEF CheckoutSession
  <2>15. CASE CallFails(c)
    BY <2>0, <2>15 DEF CallFails
  <2> QED
    BY <1>2, <2>1, <2>2, <2>3, <2>4, <2>5, <2>6, <2>7, <2>8, <2>9, <2>10, <2>11, <2>12, <2>13, <2>14, <2>15 DEF CallStep
<1>3. ASSUME NEW o \in Orgs, ActivateOrgById(o) \/ ActivationFails(o) \/ Suspend(o) PROVE NoneLifted
  <2>1. CASE ActivateOrgById(o)
    BY <1>0, <2>1 DEF TypeOK, CallsPlaced, Accepting, NoneLifted, ActivateOrgById
  <2>2. CASE ActivationFails(o)
    BY <1>0, <2>2 DEF TypeOK, CallsPlaced, Accepting, NoneLifted, ActivationFails
  <2>3. CASE Suspend(o)
    BY <1>0, <2>3 DEF TypeOK, CallsPlaced, Accepting, NoneLifted, Suspend
  <2> QED
    BY <1>3, <2>1, <2>2, <2>3
<1>4. ASSUME NEW i \in Invitations, InvitationExpires(i) PROVE NoneLifted
  BY <1>0, <1>4 DEF TypeOK, CallsPlaced, Accepting, NoneLifted, InvitationExpires
<1>5. CASE Restart
  BY <1>0, <1>5 DEF TypeOK, CallsPlaced, Accepting, NoneLifted, Restart
<1>6. CASE UNCHANGED vars
  BY <1>0, <1>6 DEF TypeOK, CallsPlaced, Accepting, NoneLifted
<1> QED
  BY <1>1, <1>2, <1>3, <1>4, <1>5, <1>6 DEF Next


\* A suspended organisation stays suspended, also when its activation timer
\* fires late (activateOrgById).
THEOREM SuspensionIsNeverLifted == Spec => SuspensionHolds
<1>1. Spec => [][NoneLifted]_vars
  BY OnboardingInvariant, NoneLiftedStep, PTL DEF Spec
<1> QED
  BY <1>1 DEF SuspensionHolds, NoneLifted
=============================================================================
