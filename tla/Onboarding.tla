----------------------------- MODULE Onboarding -----------------------------
(***************************************************************************)
(* How people get accounts: organisations created with their admin         *)
(* (OrganisationService.createOrg), invitations accepted with a password   *)
(* (AuthService.handleInvitedUserRegistration) or with Google              *)
(* (GoogleAuthService.createGoogleSession), and Google sign-ins that link  *)
(* an existing account.  Nothing is locked between the checks and the      *)
(* transaction that relies on them.                                        *)
(*                                                                         *)
(* A person is an e-mail address with its Google account, an organisation  *)
(* is its unique name.  Invitations are created outside this repository;   *)
(* they belong to HomeOrg, an organisation that already has an admin.      *)
(***************************************************************************)
EXTENDS Integers, FiniteSets

CONSTANTS
  Callers,      \* concurrent requests
  People, Invitations,
  Orgs,         \* organisation names, HomeOrg among them
  HomeOrg,
  None,         \* no person, no invitation, no organisation
  UserLimit     \* organisations.user_limit

ASSUME OnboardingAssumption ==
  /\ IsFiniteSet(Callers) /\ Callers # {} /\ IsFiniteSet(People)
  /\ HomeOrg \in Orgs
  /\ None \notin People \cup Invitations \cup Orgs
  /\ UserLimit \in Nat \ {0}   \* the column's default is 10; the admin counts

VARIABLES
  org,          \* organisations.status of each name; "none" is no row
  timer,        \* the setTimeout that activates it is pending
  invitation,   \* invitations.status; "expired" is past expires_at
  accounts,     \* users rows with this person's e-mail
  home, linked, \* that row's org_id, and whether google_sub is set
  admins,       \* ADMIN rows of each organisation
  uses,         \* users created on the strength of each invitation
  pc, via, who, inv, target  \* each call: place, "password" or "google",
                             \* its person, invitation and organisation

orgs  == <<org, timer>>
users == <<accounts, home, linked, admins>>
calls == <<pc, via, who, inv, target>>
vars  == <<orgs, invitation, users, uses, calls>>

Places == {"idle", "invite", "org", "count", "accept", "otp", "sub", "email", "link",
           "suspended", "mint", "name", "admin", "create", "checkout"}

\* A call that has read an invitation as pending.
Accepting == {"org", "count", "accept"}

\* The type invariant.
TypeOK ==
  /\ org \in [Orgs -> {"none", "payment_pending", "active", "suspended"}]
  /\ timer \in [Orgs -> BOOLEAN]
  /\ invitation \in [Invitations -> {"pending", "accepted", "expired"}]
  /\ accounts \in [People -> Nat]
  /\ home \in [People -> Orgs \cup {None}]
  /\ linked \in [People -> BOOLEAN]
  /\ admins \in [Orgs -> Nat]
  /\ uses \in [Invitations -> Nat]
  /\ pc \in [Callers -> Places]
  /\ via \in [Callers -> {"password", "google"}]
  /\ who \in [Callers -> People \cup {None}]
  /\ inv \in [Callers -> Invitations \cup {None}]
  /\ target \in [Callers -> Orgs \cup {None}]

Init ==
  /\ org = [o \in Orgs |-> IF o = HomeOrg THEN "active" ELSE "none"]
  /\ timer = [o \in Orgs |-> FALSE]
  /\ invitation = [i \in Invitations |-> "pending"]
  /\ accounts = [p \in People |-> 0]
  /\ home = [p \in People |-> None]
  /\ linked = [p \in People |-> FALSE]
  /\ admins = [o \in Orgs |-> IF o = HomeOrg THEN 1 ELSE 0]
  /\ uses = [i \in Invitations |-> 0]
  /\ pc = [c \in Callers |-> "idle"]
  /\ via = [c \in Callers |-> "password"]
  /\ who = [c \in Callers |-> None]
  /\ inv = [c \in Callers |-> None]
  /\ target = [c \in Callers |-> None]

\* A request arrives with its arguments and goes to its first database call.
Start(c, place, method, p, i, o) ==
  /\ pc[c] = "idle"
  /\ pc' = [pc EXCEPT ![c] = place]
  /\ via' = [via EXCEPT ![c] = method]
  /\ who' = [who EXCEPT ![c] = p]
  /\ inv' = [inv EXCEPT ![c] = i]
  /\ target' = [target EXCEPT ![c] = o]
  /\ UNCHANGED <<orgs, invitation, users, uses>>

\* The call is answered, with a result or an error.
End(c) ==
  /\ pc' = [pc EXCEPT ![c] = "idle"]
  /\ via' = [via EXCEPT ![c] = "password"]
  /\ who' = [who EXCEPT ![c] = None]
  /\ inv' = [inv EXCEPT ![c] = None]
  /\ target' = [target EXCEPT ![c] = None]

Goto(c, place) == pc' = [pc EXCEPT ![c] = place] /\ UNCHANGED <<via, who, inv, target>>

\* A read that lets the call go on, or ends it.
Check(c, at, ok, place) ==
  /\ pc[c] = at
  /\ IF ok THEN Goto(c, place) ELSE End(c)
  /\ UNCHANGED <<orgs, invitation, users, uses>>

\* The unique indexes on users.email and users.google_sub accept a row of p.
UniqueEmail(p) == accounts[p] = 0

InsertUser(p, o, google) ==
  /\ accounts' = [accounts EXCEPT ![p] = accounts[p] + 1]
  /\ home' = [home EXCEPT ![p] = o]
  /\ linked' = [linked EXCEPT ![p] = google]

----------------------------------------------------------------------------
(* Accepting an invitation *)

\* POST /v1/auth/session with an invitation token.
HandleInvitedUserRegistration(c, p, i) == Start(c, "invite", "password", p, i, HomeOrg)

\* findInvitationByTokenHash: pending and unexpired; a Google call may have
\* come without a token.
FindInvitationByTokenHash(c) ==
  Check(c, "invite", inv[c] # None /\ invitation[inv[c]] = "pending", "org")

\* findOrgById: a suspended organisation takes no members.
InvitationFindOrg(c) == Check(c, "org", org[target[c]] # "suspended", "count")

Members(o) ==
  Cardinality({p \in People : accounts[p] > 0 /\ home[p] = o}) + (IF o = HomeOrg THEN 1 ELSE 0)

\* Mutant: the comparison with the limit is off by one.
CountOffByOne(c) == Check(c, "count", Members(target[c]) <= UserLimit, "accept")

\* countActiveUsersByOrg against user_limit.
CountActiveUsersByOrg(c) == Check(c, "count", Members(target[c]) < UserLimit, "accept")

\* Mutant: the invitation stays pending.
AcceptKeepsPending(c) ==
  /\ pc[c] = "accept" /\ UniqueEmail(who[c])
  /\ InsertUser(who[c], target[c], via[c] = "google")
  /\ uses' = [uses EXCEPT ![inv[c]] = uses[inv[c]] + 1]
  /\ Goto(c, IF via[c] = "google" THEN "suspended" ELSE "otp")
  /\ UNCHANGED <<orgs, invitation, admins>>

\* acceptInvitationAndCreateUser: insert the user and mark the invitation by
\* id, whatever its status is by now, in one transaction.
AcceptInvitationAndCreateUser(c) ==
  /\ pc[c] = "accept" /\ UniqueEmail(who[c])
  /\ InsertUser(who[c], target[c], via[c] = "google")
  /\ invitation' = [invitation EXCEPT ![inv[c]] = "accepted"]
  /\ uses' = [uses EXCEPT ![inv[c]] = uses[inv[c]] + 1]
  /\ Goto(c, IF via[c] = "google" THEN "suspended" ELSE "otp")
  /\ UNCHANGED <<orgs, admins>>

\* insertOtpToken and the e-mail with the code end the registration.
InsertOtpToken(c) ==
  /\ pc[c] = "otp" /\ End(c)
  /\ UNCHANGED <<orgs, invitation, users, uses>>

----------------------------------------------------------------------------
(* Google sign-in *)

\* POST /v1/auth/google: the ID token is verified, with or without an
\* invitation token.
CreateGoogleSession(c, p, i) == Start(c, "sub", "google", p, i, HomeOrg)

\* findUserByGoogleSub: a linked account signs in, anything else is looked up
\* by e-mail.
FindUserByGoogleSub(c) ==
  /\ pc[c] = "sub"
  /\ Goto(c, IF accounts[who[c]] > 0 /\ linked[who[c]] THEN "suspended" ELSE "email")
  /\ UNCHANGED <<orgs, invitation, users, uses>>

\* findUserByEmail: an account without google_sub is linked; otherwise the call
\* goes on as an invited one.
GoogleFindUserByEmail(c) ==
  /\ pc[c] = "email"
  /\ Goto(c, IF accounts[who[c]] > 0 /\ ~ linked[who[c]] THEN "link" ELSE "invite")
  /\ UNCHANGED <<orgs, invitation, users, uses>>

\* updateUserGoogleSub by user_id.
UpdateUserGoogleSub(c) ==
  /\ pc[c] = "link"
  /\ linked' = [linked EXCEPT ![who[c]] = TRUE]
  /\ Goto(c, "suspended")
  /\ UNCHANGED <<orgs, invitation, accounts, home, admins, uses>>

\* The organisation of the account is read again before a session is opened.
GoogleFindOrg(c) == Check(c, "suspended", org[home[who[c]]] # "suspended", "mint")

\* insertRefreshToken and the cookies.
InsertRefreshToken(c) ==
  /\ pc[c] = "mint" /\ End(c)
  /\ UNCHANGED <<orgs, invitation, users, uses>>

----------------------------------------------------------------------------
(* POST /v1/organisations *)

CreateOrg(c, method, p, o) == Start(c, "name", method, p, None, o)

\* findOrgByName: a taken name is a conflict; then bcrypt or the Google token.
FindOrgByName(c) == Check(c, "name", org[target[c]] = "none", "admin")

\* findUserByEmail: a registered e-mail is a conflict.
AdminFindUserByEmail(c) == Check(c, "admin", accounts[who[c]] = 0, "create")

\* Mutant: the organisation is saved outside the transaction.
CreateOrgWithoutTransaction(c) ==
  /\ pc[c] = "create" /\ org[target[c]] = "none"
  /\ org' = [org EXCEPT ![target[c]] = "payment_pending"]
  /\ timer' = [timer EXCEPT ![target[c]] = TRUE]
  /\ IF UniqueEmail(who[c])
     THEN /\ InsertUser(who[c], target[c], via[c] = "google")
          /\ admins' = [admins EXCEPT ![target[c]] = admins[target[c]] + 1]
          /\ Goto(c, "checkout")
     ELSE End(c) /\ UNCHANGED users
  /\ UNCHANGED <<invitation, uses>>

\* createOrgWithAdmin: organisation and admin in one transaction, guarded by
\* the unique indexes on name and e-mail; then the activation timer is set.
CreateOrgWithAdmin(c) ==
  /\ pc[c] = "create" /\ org[target[c]] = "none" /\ UniqueEmail(who[c])
  /\ org' = [org EXCEPT ![target[c]] = "payment_pending"]
  /\ timer' = [timer EXCEPT ![target[c]] = TRUE]
  /\ InsertUser(who[c], target[c], via[c] = "google")
  /\ admins' = [admins EXCEPT ![target[c]] = admins[target[c]] + 1]
  /\ Goto(c, "checkout")
  /\ UNCHANGED <<invitation, uses>>

\* The checkout session is created; the refresh token and the answer follow.
CheckoutSession(c) ==
  /\ pc[c] = "checkout" /\ Goto(c, "mint")
  /\ UNCHANGED <<orgs, invitation, users, uses>>

\* Mutant: activateOrgById does not look at the status.
ActivateAnyOrg(o) ==
  /\ timer[o]
  /\ org' = [org EXCEPT ![o] = "active"]
  /\ timer' = [timer EXCEPT ![o] = FALSE]
  /\ UNCHANGED <<invitation, users, uses, calls>>

\* Mutant: the subscription's status is written into the organisation's.
ActivateWritesTrialing(o) ==
  /\ timer[o]
  /\ org' = [org EXCEPT ![o] = IF org[o] = "payment_pending" THEN "trialing" ELSE org[o]]
  /\ timer' = [timer EXCEPT ![o] = FALSE]
  /\ UNCHANGED <<invitation, users, uses, calls>>

\* Five seconds later: activateOrgById, only where the status is still
\* PAYMENT_PENDING.
ActivateOrgById(o) ==
  /\ timer[o]
  /\ org' = [org EXCEPT ![o] = IF org[o] = "payment_pending" THEN "active" ELSE org[o]]
  /\ timer' = [timer EXCEPT ![o] = FALSE]
  /\ UNCHANGED <<invitation, users, uses, calls>>

----------------------------------------------------------------------------
(* Faults, time and the rest of the system *)

\* A database, Stripe or mail call throws, or a unique index refuses the row:
\* the call ends with an error and what it had committed stays.
CallFails(c) ==
  /\ pc[c] # "idle" /\ End(c)
  /\ UNCHANGED <<orgs, invitation, users, uses>>

\* The UPDATE of the timer throws and is only logged.
ActivationFails(o) ==
  /\ timer[o]
  /\ timer' = [timer EXCEPT ![o] = FALSE]
  /\ UNCHANGED <<org, invitation, users, uses, calls>>

\* The process restarts: calls and timers are gone.
Restart ==
  /\ pc' = [c \in Callers |-> "idle"]
  /\ via' = [c \in Callers |-> "password"]
  /\ who' = [c \in Callers |-> None]
  /\ inv' = [c \in Callers |-> None]
  /\ target' = [c \in Callers |-> None]
  /\ timer' = [o \in Orgs |-> FALSE]
  /\ UNCHANGED <<org, invitation, users, uses>>

\* The organisation is suspended outside this repository.
Suspend(o) ==
  /\ org[o] \in {"payment_pending", "active"}
  /\ org' = [org EXCEPT ![o] = "suspended"]
  /\ UNCHANGED <<timer, invitation, users, uses, calls>>

InvitationExpires(i) ==
  /\ invitation[i] = "pending"
  /\ invitation' = [invitation EXCEPT ![i] = "expired"]
  /\ UNCHANGED <<orgs, users, uses, calls>>

----------------------------------------------------------------------------
CallStep(c) ==
  \/ FindInvitationByTokenHash(c) \/ InvitationFindOrg(c) \/ CountActiveUsersByOrg(c)
  \/ AcceptInvitationAndCreateUser(c) \/ InsertOtpToken(c)
  \/ FindUserByGoogleSub(c) \/ GoogleFindUserByEmail(c) \/ UpdateUserGoogleSub(c)
  \/ GoogleFindOrg(c) \/ InsertRefreshToken(c)
  \/ FindOrgByName(c) \/ AdminFindUserByEmail(c) \/ CreateOrgWithAdmin(c) \/ CheckoutSession(c)
  \/ CallFails(c)

Request(c) ==
  \E p \in People :
    \/ \E i \in Invitations : HandleInvitedUserRegistration(c, p, i)
    \/ \E i \in Invitations \cup {None} : CreateGoogleSession(c, p, i)
    \/ \E method \in {"password", "google"}, o \in Orgs : CreateOrg(c, method, p, o)

Next ==
  \/ \E c \in Callers : Request(c) \/ CallStep(c)
  \/ \E o \in Orgs : ActivateOrgById(o) \/ ActivationFails(o) \/ Suspend(o)
  \/ \E i \in Invitations : InvitationExpires(i)
  \/ Restart

Spec == Init /\ [][Next]_vars

----------------------------------------------------------------------------
(* Safety *)

\* The arguments a call carries to each of its places.
CallsPlaced ==
  \A c \in Callers :
    /\ pc[c] # "idle" => who[c] \in People
    /\ pc[c] \in Accepting \cup {"invite", "sub", "email", "link"} => target[c] = HomeOrg
    /\ pc[c] \in Accepting => inv[c] \in Invitations
    /\ pc[c] \in {"name", "admin", "create", "checkout"} => target[c] \in Orgs

\* An invitation that admitted someone is marked accepted and never pending
\* again, and the organisation it leads to exists: the type invariant and what
\* the bounds below rest on (acceptInvitationAndCreateUser).
OnboardingInv ==
  /\ TypeOK /\ CallsPlaced
  /\ \A i \in Invitations : uses[i] > 0 => invitation[i] = "accepted"
  /\ org[HomeOrg] # "none"

\* Calls past the count whose person has no account yet.
Joining == {c \in Callers : pc[c] = "accept" /\ accounts[who[c]] = 0}

\* Calls that have read invitation i as pending.
Admitting(i) == {c \in Callers : inv[c] = i /\ pc[c] \in Accepting}

\* The user limit is counted before the transaction that adds the member, so
\* it can be exceeded, but by no more than the other calls that were past the
\* count: members and members on their way stay below the limit plus the number
\* of concurrent calls (handleInvitedUserRegistration, createGoogleSession).
MembersBounded ==
  Members(HomeOrg) + Cardinality(Joining) <= UserLimit + Cardinality(Callers) - 1

\* An invitation is read as pending long before it is marked, so it can admit
\* more than one person, but at most one per call that could overlap; none
\* after a call that starts once it was accepted (acceptInvitationAndCreateUser).
UsesPerInvitationBounded ==
  \A i \in Invitations : uses[i] + Cardinality(Admitting(i)) <= Cardinality(Callers)

\* However registrations, sign-ins and organisation creations of one person
\* race past each other's lookups, the person ends up with one account (the
\* lookups do not ensure it, the unique indexes do), and every organisation has
\* an admin who can sign in, also when the checkout, the mail or the process
\* fails right after the commit and the retry is refused as a conflict
\* (createOrgWithAdmin is one transaction).
AccountsConsistent ==
  /\ \A p \in People : accounts[p] <= 1
  /\ \A o \in Orgs : org[o] # "none" => admins[o] > 0

\* The activation timer, set five seconds earlier, never lifts a suspension
\* (activateOrgById updates only where status is payment_pending).
SuspensionHolds ==
  [][\A o \in Orgs : org[o] = "suspended" => org'[o] = "suspended"]_vars
=============================================================================
