------------------------------ MODULE ApiAccess ------------------------------
(***************************************************************************)
(* Who may call: API keys and their life (ApiKeyService), the middleware   *)
(* that admits a request by key or by session (validateApiKey,             *)
(* authenticate, authenticateFlexible, authorize) and permissions.  A      *)
(* request is admitted on rows that were read one after the other, while   *)
(* an admin revokes the key, the user is removed or the organisation       *)
(* suspended.  The rate limiters may refuse any request: their counts are  *)
(* not modelled.                                                           *)
(*                                                                         *)
(* Each organisation has one dashboard user, and one user may have none.   *)
(* Statuses of users and organisations change outside this component.      *)
(***************************************************************************)
EXTENDS Integers, FiniteSets

CONSTANTS
  Callers,        \* concurrent requests
  Keys, Orgs, None

ASSUME AccessAssumption ==
  /\ IsFiniteSet(Callers)
  /\ None \notin Keys \cup Orgs

Permissions == {"events:write", "events:read", "verification:read"}
Roles == {"admin", "member", "super_admin"}

\* The roles that authorize admits to the key routes.
Admins == {"admin", "super_admin"}

VARIABLES
  org, user, role,     \* each organisation's status; its user's status and role
  key, keyOrg, perms,  \* api_keys rows: status ("none" is no row), org_id, permissions
  revocations,         \* keys whose revocation has been answered with 200
  pc, op, arg, from,   \* each request: place, what it asks, its key, its organisation
  void                 \* its credentials were already void when it began

rows   == <<org, user, role, key, keyOrg, perms>>
calls  == <<pc, op, arg, from, void>>
vars   == <<rows, revocations, calls>>

\* The type invariant.
TypeOK ==
  /\ org \in [Orgs -> {"payment_pending", "active", "suspended"}]
  /\ user \in [Orgs -> {"active", "removed"}]
  /\ role \in [Orgs -> Roles]
  /\ key \in [Keys -> {"none", "active", "revoked"}]
  /\ keyOrg \in [Keys -> Orgs \cup {None}]
  /\ perms \in [Keys -> SUBSET Permissions]
  /\ revocations \in SUBSET Keys
  /\ pc \in [Callers -> {"idle", "hash", "keyorg", "user", "userorg", "limit", "owner", "insert",
                         "find", "revoke", "orgless", "served"}]
  /\ op \in [Callers -> Permissions \cup {"create", "revoke", "none"}]
  /\ arg \in [Callers -> Keys \cup {None}]
  /\ from \in [Callers -> Orgs \cup {None}]
  /\ void \in [Callers -> BOOLEAN]

Init ==
  /\ org \in [Orgs -> {"payment_pending", "active"}]
  /\ user = [o \in Orgs |-> "active"]
  /\ role \in [Orgs -> Roles]
  /\ key = [k \in Keys |-> "none"]
  /\ keyOrg = [k \in Keys |-> None]
  /\ perms = [k \in Keys |-> {}]
  /\ revocations = {}
  /\ pc = [c \in Callers |-> "idle"]
  /\ op = [c \in Callers |-> "none"]
  /\ arg = [c \in Callers |-> None]
  /\ from = [c \in Callers |-> None]
  /\ void = [c \in Callers |-> FALSE]

Start(c, place, what, k, o, v) ==
  /\ pc[c] = "idle"
  /\ pc' = [pc EXCEPT ![c] = place]
  /\ op' = [op EXCEPT ![c] = what]
  /\ arg' = [arg EXCEPT ![c] = k]
  /\ from' = [from EXCEPT ![c] = o]
  /\ void' = [void EXCEPT ![c] = v]
  /\ UNCHANGED <<rows, revocations>>

Goto(c, place) == pc' = [pc EXCEPT ![c] = place] /\ UNCHANGED <<op, arg, from, void>>

End(c) ==
  /\ pc' = [pc EXCEPT ![c] = "idle"]
  /\ op' = [op EXCEPT ![c] = "none"]
  /\ arg' = [arg EXCEPT ![c] = None]
  /\ from' = [from EXCEPT ![c] = None]
  /\ void' = [void EXCEPT ![c] = FALSE]

\* A read that lets the request go on, or refuses it.
Check(c, at, ok, place) ==
  /\ pc[c] = at
  /\ IF ok THEN Goto(c, place) ELSE End(c)
  /\ UNCHANGED <<rows, revocations>>

----------------------------------------------------------------------------
(* Requests with an API key *)

\* A request with key k, no session cookie, for a route that needs permission p.
KeyRequest(c, k, p) ==
  /\ key[k] # "none"
  /\ Start(c, "hash", p, k, None, k \in revocations \/ org[keyOrg[k]] = "suspended")

\* findApiKeyByHash: an active key with this hash.
FindApiKeyByHash(c) == Check(c, "hash", key[arg[c]] = "active", "keyorg")

\* POST /v1/events checks the permission before the limiters, the queries in
\* their handler after them.
PermittedOnRoute(c, first) ==
  (op[c] = "events:write") = first => op[c] \in perms[arg[c]]

\* validateApiKey reads the organisation: it must be active.  The touch of
\* last_used_at is detached and its failure swallowed.
KeyFindOrg(c) ==
  Check(c, "keyorg", org[keyOrg[arg[c]]] = "active" /\ PermittedOnRoute(c, TRUE), "limit")

----------------------------------------------------------------------------
(* Requests with a session cookie, which wins over an API key *)

SessionRequest(c, o, what, k) ==
  Start(c, "user", what, k, o, user[o] = "removed" \/ org[o] = "suspended")

\* authenticate: the user must be active.
AuthenticateUser(c) == Check(c, "user", user[from[c]] = "active", "userorg")

\* A request of a user that no organisation is assigned to.  authenticate then
\* reads no organisation, and whatever the route, its handler answers 403
\* NO_ORG; a read of events stands for all routes.
OrglessRequest(c) == Start(c, "orgless", "events:read", None, None, FALSE)
RefuseOrgless(c)  == Check(c, "orgless", FALSE, "idle")

NextPlace(what) ==
  CASE what = "create" -> "owner" [] what = "revoke" -> "find" [] OTHER -> "limit"

\* Mutant: the key routes are mounted without authorize.
AuthenticateOrgOnly(c) ==
  /\ pc[c] = "userorg"
  /\ IF org[from[c]] # "suspended" THEN Goto(c, NextPlace(op[c])) ELSE End(c)
  /\ UNCHANGED <<rows, revocations>>

\* authenticate: the organisation must not be suspended; then authorize on the
\* key routes.  A pending organisation passes.
AuthenticateOrg(c) ==
  /\ pc[c] = "userorg"
  /\ IF /\ org[from[c]] # "suspended"
        /\ op[c] \in {"create", "revoke"} => role[from[c]] \in Admins
     THEN Goto(c, NextPlace(op[c]))
     ELSE End(c)
  /\ UNCHANGED <<rows, revocations>>

----------------------------------------------------------------------------
(* Rate limiters and handlers of the event routes *)

\* Behind the limiters the handler runs and, on the query routes, checks the
\* key's permission.
Handle(c) == Check(c, "limit", arg[c] # None => PermittedOnRoute(c, FALSE), "served")

\* A limiter refuses the request with 429.
RateLimited(c) ==
  /\ pc[c] \in {"limit", "owner", "find"} /\ End(c)
  /\ UNCHANGED <<rows, revocations>>

----------------------------------------------------------------------------
(* API key management, for an admin *)

\* createApiKey with an e-mail: it must be an active user of the organisation.
FindUserByEmailAndOrg(c) == Check(c, "owner", user[from[c]] = "active", "insert")

\* createApiKey without an e-mail: nobody is looked up.
NoKeyOwner(c) == Check(c, "owner", TRUE, "insert")

\* The row is saved with the permissions asked for, events:write by default.
CreateApiKey(c) ==
  /\ pc[c] = "insert"
  /\ \E k \in Keys, p \in {{"events:write"}, {"events:read"}} :
       /\ key[k] = "none"
       /\ key' = [key EXCEPT ![k] = "active"]
       /\ keyOrg' = [keyOrg EXCEPT ![k] = from[c]]
       /\ perms' = [perms EXCEPT ![k] = p]
  /\ Goto(c, "served")
  /\ UNCHANGED <<org, user, role, revocations>>

\* Mutant: revokeKey answers before its UPDATE.
AnswerBeforeUpdate(c) ==
  /\ pc[c] = "find"
  /\ IF key[arg[c]] = "none" \/ keyOrg[arg[c]] # from[c] THEN End(c) /\ UNCHANGED revocations
     ELSE Goto(c, "revoke") /\ revocations' = revocations \cup {arg[c]}
  /\ UNCHANGED rows

\* revokeKey: findApiKeyByIdAndOrg; unknown is 404, already revoked is answered
\* as revoked.
FindApiKeyByIdAndOrg(c) ==
  /\ pc[c] = "find"
  /\ IF key[arg[c]] = "none" \/ keyOrg[arg[c]] # from[c] THEN End(c) /\ UNCHANGED revocations
     ELSE IF key[arg[c]] = "revoked"
     THEN Goto(c, "served") /\ revocations' = revocations \cup {arg[c]}
     ELSE Goto(c, "revoke") /\ UNCHANGED revocations
  /\ UNCHANGED rows

\* Mutant: the column is given a value of another enum.
RevokeWritesRemoved(c) ==
  /\ pc[c] = "revoke"
  /\ key' = [key EXCEPT ![arg[c]] = "removed"]
  /\ revocations' = revocations \cup {arg[c]}
  /\ Goto(c, "served")
  /\ UNCHANGED <<org, user, role, keyOrg, perms>>

\* The UPDATE by id and organisation.
RevokedWhereOwn(c) ==
  [key EXCEPT ![arg[c]] = IF keyOrg[arg[c]] = from[c] THEN "revoked" ELSE @]

\* revokeApiKey: the UPDATE commits, then the answer.
RevokeApiKey(c) ==
  /\ pc[c] = "revoke"
  /\ key' = RevokedWhereOwn(c)
  /\ revocations' = revocations \cup {arg[c]}
  /\ Goto(c, "served")
  /\ UNCHANGED <<org, user, role, keyOrg, perms>>

----------------------------------------------------------------------------
(* Answers, time and the rest of the system *)

Respond(c) ==
  /\ pc[c] = "served" /\ End(c)
  /\ UNCHANGED <<rows, revocations>>

\* A database call throws; the UPDATE of a revocation may have been applied.
CallFails(c) ==
  /\ pc[c] \notin {"idle", "served"}
  /\ key' = IF pc[c] = "revoke" THEN RevokedWhereOwn(c) ELSE key
  /\ End(c)
  /\ UNCHANGED <<org, user, role, keyOrg, perms, revocations>>

\* Statuses change: activation and suspension of an organisation, removal of
\* its user.
StatusChanges(o) ==
  /\ \/ org[o] = "payment_pending" /\ org' = [org EXCEPT ![o] = "active"] /\ UNCHANGED user
     \/ org[o] # "suspended" /\ org' = [org EXCEPT ![o] = "suspended"] /\ UNCHANGED user
     \/ user[o] = "active" /\ user' = [user EXCEPT ![o] = "removed"] /\ UNCHANGED org
  /\ UNCHANGED <<role, key, keyOrg, perms, revocations, calls>>

----------------------------------------------------------------------------
Request(c) ==
  \/ \E k \in Keys, p \in Permissions : KeyRequest(c, k, p)
  \/ OrglessRequest(c)
  \/ \E o \in Orgs :
       \/ SessionRequest(c, o, "events:read", None)
       \/ SessionRequest(c, o, "create", None)
       \/ \E k \in Keys : SessionRequest(c, o, "revoke", k)

CallStep(c) ==
  \/ FindApiKeyByHash(c) \/ KeyFindOrg(c)
  \/ AuthenticateUser(c) \/ AuthenticateOrg(c) \/ RefuseOrgless(c)
  \/ Handle(c) \/ RateLimited(c)
  \/ FindUserByEmailAndOrg(c) \/ NoKeyOwner(c) \/ CreateApiKey(c)
  \/ FindApiKeyByIdAndOrg(c) \/ RevokeApiKey(c)
  \/ Respond(c) \/ CallFails(c)

Next ==
  \/ \E c \in Callers : Request(c) \/ CallStep(c)
  \/ \E o \in Orgs : StatusChanges(o)

Spec == Init /\ [][Next]_vars

----------------------------------------------------------------------------
(* Safety *)

\* What a request that has reached a place has already been checked for.
AdminPlaces == {"owner", "insert", "find", "revoke"}

PlacesChecked ==
  \A c \in Callers :
    /\ pc[c] \in {"hash", "keyorg"} => arg[c] \in Keys /\ key[arg[c]] # "none"
    /\ pc[c] \in AdminPlaces \cup {"user", "userorg"} => from[c] \in Orgs
    /\ pc[c] \in AdminPlaces => role[from[c]] \in Admins
    /\ op[c] = "revoke" => arg[c] \in Keys
    /\ pc[c] \in {"find", "revoke"} => op[c] = "revoke"
    /\ pc[c] = "revoke" => key[arg[c]] # "none" /\ keyOrg[arg[c]] = from[c]

\* A key belongs to an organisation, and a revocation is answered only once its
\* row says so.
KeysOwned ==
  /\ \A k \in Keys : key[k] # "none" => keyOrg[k] \in Orgs
  /\ \A k \in revocations : key[k] = "revoked"

\* Why a request with void credentials is going to be refused at each place:
\* the reason is still in the row the place is about to read.
VoidWillBeRefused ==
  \A c \in Callers : void[c] =>
    CASE pc[c] = "hash" -> arg[c] \in revocations \/ org[keyOrg[arg[c]]] = "suspended"
      [] pc[c] = "keyorg" -> org[keyOrg[arg[c]]] = "suspended"
      [] pc[c] = "user" -> user[from[c]] = "removed" \/ org[from[c]] = "suspended"
      [] pc[c] = "userorg" -> org[from[c]] = "suspended"
      [] OTHER -> FALSE

\* The type invariant and the inductive invariant: places, keys and void
\* credentials (validateApiKey, authenticate, authorize, revokeKey).
AccessInv == TypeOK /\ PlacesChecked /\ KeysOwned /\ VoidWillBeRefused

\* A request that begins after a revocation of its key was answered, after its
\* user was removed or its organisation suspended is never served; only one
\* that was already under way may still be (validateApiKey, authenticate,
\* revokeKey).
VoidCredentialsRefused == \A c \in Callers : pc[c] = "served" => ~ void[c]

\* A key is revoked only in answer to an admin of the organisation it belongs
\* to, and a revoked key is never active again (findApiKeyByIdAndOrg).
OnlyOwnOrgRevokes ==
  [][\A k \in Keys :
       /\ key[k] = "revoked" => key'[k] = "revoked"
       /\ key[k] = "active" /\ key'[k] = "revoked" =>
            \E c \in Callers : /\ op[c] = "revoke" /\ arg[c] = k
                               /\ from[c] = keyOrg[k] /\ role[from[c]] \in Admins]_vars
=============================================================================
