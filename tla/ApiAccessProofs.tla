-------------------------- MODULE ApiAccessProofs --------------------------
(***************************************************************************)
(* Proofs about ApiAccess for every finite set of concurrent requests and  *)
(* every set of keys and organisations.                                    *)
(***************************************************************************)
EXTENDS ApiAccess, TLAPS

USE AccessAssumption DEF rows, calls, vars, Goto, Permissions, Roles

----------------------------------------------------------------------------
(* The invariant *)

\* A request that is refused leaves everything else alone.
LEMMA Refused ==
  ASSUME AccessInv, NEW c \in Callers, End(c), UNCHANGED <<rows, revocations>>
  PROVE  AccessInv'
<1>1. TypeOK'
  BY DEF AccessInv, TypeOK, End
<1>2. PlacesChecked' /\ KeysOwned' /\ VoidWillBeRefused'
  BY DEF AccessInv, TypeOK, End, PlacesChecked, AdminPlaces, KeysOwned, VoidWillBeRefused
<1> QED
  BY <1>1, <1>2 DEF AccessInv

\* Every step keeps rows and requests in their types.
LEMMA TypeOKStep == AccessInv /\ [Next]_vars => TypeOK'
<1> SUFFICES ASSUME AccessInv, [Next]_vars PROVE TypeOK'
  OBVIOUS
<1>0. TypeOK /\ PlacesChecked /\ KeysOwned
  BY DEF AccessInv
<1>1. ASSUME NEW c \in Callers, Request(c) PROVE TypeOK'
  <2> USE <1>0 DEF TypeOK, PlacesChecked, KeysOwned, AdminPlaces
  <2>1. ASSUME NEW k \in Keys, NEW p \in Permissions, KeyRequest(c, k, p) PROVE TypeOK'
    BY <2>1 DEF KeyRequest, Start
  <2>2. ASSUME NEW o \in Orgs, NEW what, NEW k \in Keys \cup {None},
               what \in {"events:read", "create", "revoke"}, what = "revoke" => k \in Keys,
               SessionRequest(c, o, what, k)
        PROVE  TypeOK'
    BY <2>2 DEF SessionRequest, Start
  <2>3. CASE OrglessRequest(c)
    BY <2>3 DEF OrglessRequest, Start
  <2> QED
    BY <1>1, <2>1, <2>2, <2>3 DEF Request
<1>2. ASSUME NEW c \in Callers, CallStep(c) PROVE TypeOK'
  <2>0. CASE End(c) /\ UNCHANGED <<rows, revocations>>
    BY <2>0, Refused DEF AccessInv
  <2>1. CASE FindApiKeyByHash(c)
    <3>1. ASSUME pc[c] = "hash", key[arg[c]] = "active", Goto(c, "keyorg"), UNCHANGED <<rows, revocations>>
          PROVE  TypeOK'
      BY <1>0, <3>1 DEF TypeOK, PlacesChecked, KeysOwned, AdminPlaces
    <3> QED
      BY <2>0, <2>1, <3>1 DEF FindApiKeyByHash, Check
  <2>2. CASE KeyFindOrg(c)
    <3>1. ASSUME pc[c] = "keyorg", org[keyOrg[arg[c]]] = "active", Goto(c, "limit"), UNCHANGED <<rows, revocations>>
          PROVE  TypeOK'
      BY <1>0, <3>1 DEF TypeOK, PlacesChecked, KeysOwned, AdminPlaces
    <3> QED
      BY <2>0, <2>2, <3>1 DEF KeyFindOrg, Check
  <2>3. CASE AuthenticateUser(c)
    <3>1. ASSUME pc[c] = "user", user[from[c]] = "active", Goto(c, "userorg"), UNCHANGED <<rows, revocations>>
          PROVE  TypeOK'
      BY <1>0, <3>1 DEF TypeOK, PlacesChecked, KeysOwned, AdminPlaces
    <3> QED
      BY <2>0, <2>3, <3>1 DEF AuthenticateUser, Check
  <2>4. CASE AuthenticateOrg(c)
    <3>1. ASSUME pc[c] = "userorg", UNCHANGED <<rows, revocations>>,
                 /\ org[from[c]] # "suspended"
                 /\ op[c] \in {"create", "revoke"} => role[from[c]] \in Admins,
                 Goto(c, NextPlace(op[c]))
          PROVE  TypeOK'
      BY <1>0, <3>1 DEF TypeOK, PlacesChecked, KeysOwned, AdminPlaces, NextPlace
    <3> QED
      BY <2>0, <2>4, <3>1 DEF AuthenticateOrg
  <2>5. CASE Handle(c)
    <3>1. ASSUME pc[c] = "limit", Goto(c, "served"), UNCHANGED <<rows, revocations>>
          PROVE  TypeOK'
      BY <1>0, <3>1 DEF TypeOK, PlacesChecked, KeysOwned, AdminPlaces
    <3> QED
      BY <2>0, <2>5, <3>1 DEF Handle, Check
  <2>6. CASE RateLimited(c)
    BY <2>0, <2>6 DEF RateLimited
  <2>7. CASE FindUserByEmailAndOrg(c)
    <3>1. ASSUME pc[c] = "owner", Goto(c, "insert"), UNCHANGED <<rows, revocations>>
          PROVE  TypeOK'
      BY <1>0, <3>1 DEF TypeOK, PlacesChecked, KeysOwned, AdminPlaces
    <3> QED
      BY <2>0, <2>7, <3>1 DEF FindUserByEmailAndOrg, Check
  <2>8. CASE NoKeyOwner(c)
    <3>1. ASSUME pc[c] = "owner", Goto(c, "insert"), UNCHANGED <<rows, revocations>>
          PROVE  TypeOK'
      BY <1>0, <3>1 DEF TypeOK, PlacesChecked, KeysOwned, AdminPlaces
    <3> QED
      BY <2>0, <2>8, <3>1 DEF NoKeyOwner, Check
  <2>9. CASE CreateApiKey(c)
    BY <1>0, <2>9 DEF TypeOK, PlacesChecked, KeysOwned, AdminPlaces, CreateApiKey
  <2>10. CASE FindApiKeyByIdAndOrg(c)
    <3>1. ASSUME pc[c] = "find", key[arg[c]] # "none", keyOrg[arg[c]] = from[c], UNCHANGED rows,
                 \/ /\ key[arg[c]] = "revoked" /\ Goto(c, "served")
                    /\ revocations' = revocations \cup {arg[c]}
                 \/ Goto(c, "revoke") /\ UNCHANGED revocations
          PROVE  TypeOK'
      BY <1>0, <3>1 DEF TypeOK, PlacesChecked, KeysOwned, AdminPlaces
    <3> QED
      BY <2>0, <2>10, <3>1 DEF FindApiKeyByIdAndOrg
  <2>11. CASE RevokeApiKey(c)
    BY <1>0, <2>11 DEF TypeOK, PlacesChecked, KeysOwned, AdminPlaces, RevokeApiKey, RevokedWhereOwn
  <2>12. CASE Respond(c)
    BY <2>0, <2>12 DEF Respond
  <2>13. CASE CallFails(c)
    BY <1>0, <2>13 DEF TypeOK, PlacesChecked, KeysOwned, AdminPlaces, CallFails, RevokedWhereOwn, End
  <2>14. CASE RefuseOrgless(c)
    BY <2>0, <2>14 DEF RefuseOrgless, Check
  <2> QED
    BY <1>2, <2>1, <2>2, <2>3, <2>4, <2>5, <2>6, <2>7, <2>8, <2>9, <2>10, <2>11, <2>12, <2>13, <2>14
    DEF CallStep
<1>3. ASSUME NEW o \in Orgs, StatusChanges(o) PROVE TypeOK'
  BY <1>0, <1>3 DEF TypeOK, PlacesChecked, KeysOwned, AdminPlaces, StatusChanges
<1>4. CASE UNCHANGED vars
  BY <1>0, <1>4 DEF TypeOK, PlacesChecked, KeysOwned, AdminPlaces
<1> QED
  BY <1>1, <1>2, <1>3, <1>4 DEF Next

\* What a request has been checked for stays true while it waits: a role is
\* never taken away and a key keeps its organisation.
LEMMA PlacesCheckedStep == AccessInv /\ [Next]_vars => PlacesChecked'
<1> SUFFICES ASSUME AccessInv, [Next]_vars PROVE PlacesChecked'
  OBVIOUS
<1>0. TypeOK /\ PlacesChecked
  BY DEF AccessInv
<1>1. ASSUME NEW c \in Callers, Request(c) PROVE PlacesChecked'
  <2> USE <1>0 DEF TypeOK, PlacesChecked, AdminPlaces
  <2>1. ASSUME NEW k \in Keys, NEW p \in Permissions, KeyRequest(c, k, p) PROVE PlacesChecked'
    BY <2>1 DEF KeyRequest, Start
  <2>2. ASSUME NEW o \in Orgs, NEW what, NEW k \in Keys \cup {None},
               what \in {"events:read", "create", "revoke"}, what = "revoke" => k \in Keys,
               SessionRequest(c, o, what, k)
        PROVE  PlacesChecked'
    BY <2>2 DEF SessionRequest, Start
  <2>3. CASE OrglessRequest(c)
    BY <2>3 DEF OrglessRequest, Start
  <2> QED
    BY <1>1, <2>1, <2>2, <2>3 DEF Request
<1>2. ASSUME NEW c \in Callers, CallStep(c) PROVE PlacesChecked'
  <2>0. CASE End(c) /\ UNCHANGED <<rows, revocations>>
    BY <2>0, Refused DEF AccessInv
  <2>1. CASE FindApiKeyByHash(c)
    <3>1. ASSUME pc[c] = "hash", key[arg[c]] = "active", Goto(c, "keyorg"), UNCHANGED <<rows, revocations>>
          PROVE  PlacesChecked'
      BY <1>0, <3>1 DEF TypeOK, PlacesChecked, AdminPlaces
    <3> QED
      BY <2>0, <2>1, <3>1 DEF FindApiKeyByHash, Check
  <2>2. CASE KeyFindOrg(c)
    <3>1. ASSUME pc[c] = "keyorg", org[keyOrg[arg[c]]] = "active", Goto(c, "limit"), UNCHANGED <<rows, revocations>>
          PROVE  PlacesChecked'
      BY <1>0, <3>1 DEF TypeOK, PlacesChecked, AdminPlaces
    <3> QED
      BY <2>0, <2>2, <3>1 DEF KeyFindOrg, Check
  <2>3. CASE AuthenticateUser(c)
    <3>1. ASSUME pc[c] = "user", user[from[c]] = "active", Goto(c, "userorg"), UNCHANGED <<rows, revocations>>
          PROVE  PlacesChecked'
      BY <1>0, <3>1 DEF TypeOK, PlacesChecked, AdminPlaces
    <3> QED
      BY <2>0, <2>3, <3>1 DEF AuthenticateUser, Check
  <2>4. CASE AuthenticateOrg(c)
    <3>1. ASSUME pc[c] = "userorg", UNCHANGED <<rows, revocations>>,
                 /\ org[from[c]] # "suspended"
                 /\ op[c] \in {"create", "revoke"} => role[from[c]] \in Admins,
                 Goto(c, NextPlace(op[c]))
          PROVE  PlacesChecked'
      BY <1>0, <3>1 DEF TypeOK, PlacesChecked, AdminPlaces, NextPlace
    <3> QED
      BY <2>0, <2>4, <3>1 DEF AuthenticateOrg
  <2>5. CASE Handle(c)
    <3>1. ASSUME pc[c] = "limit", Goto(c, "served"), UNCHANGED <<rows, revocations>>
          PROVE  PlacesChecked'
      BY <1>0, <3>1 DEF TypeOK, PlacesChecked, AdminPlaces
    <3> QED
      BY <2>0, <2>5, <3>1 DEF Handle, Check
  <2>6. CASE RateLimited(c)
    BY <2>0, <2>6 DEF RateLimited
  <2>7. CASE FindUserByEmailAndOrg(c)
    <3>1. ASSUME pc[c] = "owner", Goto(c, "insert"), UNCHANGED <<rows, revocations>>
          PROVE  PlacesChecked'
      BY <1>0, <3>1 DEF TypeOK, PlacesChecked, AdminPlaces
    <3> QED
      BY <2>0, <2>7, <3>1 DEF FindUserByEmailAndOrg, Check
  <2>8. CASE NoKeyOwner(c)
    <3>1. ASSUME pc[c] = "owner", Goto(c, "insert"), UNCHANGED <<rows, revocations>>
          PROVE  PlacesChecked'
      BY <1>0, <3>1 DEF TypeOK, PlacesChecked, AdminPlaces
    <3> QED
      BY <2>0, <2>8, <3>1 DEF NoKeyOwner, Check
  <2>9. CASE CreateApiKey(c)
    BY <1>0, <2>9 DEF TypeOK, PlacesChecked, AdminPlaces, CreateApiKey
  <2>10. CASE FindApiKeyByIdAndOrg(c)
    <3>1. ASSUME pc[c] = "find", key[arg[c]] # "none", keyOrg[arg[c]] = from[c], UNCHANGED rows,
                 \/ /\ key[arg[c]] = "revoked" /\ Goto(c, "served")
                    /\ revocations' = revocations \cup {arg[c]}
                 \/ Goto(c, "revoke") /\ UNCHANGED revocations
          PROVE  PlacesChecked'
      BY <1>0, <3>1 DEF TypeOK, PlacesChecked, AdminPlaces
    <3> QED
      BY <2>0, <2>10, <3>1 DEF FindApiKeyByIdAndOrg
  <2>11. CASE RevokeApiKey(c)
    BY <1>0, <2>11 DEF TypeOK, PlacesChecked, AdminPlaces, RevokeApiKey, RevokedWhereOwn
  <2>12. CASE Respond(c)
    BY <2>0, <2>12 DEF Respond
  <2>13. CASE CallFails(c)
    BY <1>0, <2>13 DEF TypeOK, PlacesChecked, AdminPlaces, CallFails, RevokedWhereOwn, End
  <2>14. CASE RefuseOrgless(c)
    BY <2>0, <2>14 DEF RefuseOrgless, Check
  <2> QED
    BY <1>2, <2>1, <2>2, <2>3, <2>4, <2>5, <2>6, <2>7, <2>8, <2>9, <2>10, <2>11, <2>12, <2>13, <2>14
    DEF CallStep
<1>3. ASSUME NEW o \in Orgs, StatusChanges(o) PROVE PlacesChecked'
  BY <1>0, <1>3 DEF TypeOK, PlacesChecked, AdminPlaces, StatusChanges
<1>4. CASE UNCHANGED vars
  BY <1>0, <1>4 DEF TypeOK, PlacesChecked, AdminPlaces
<1> QED
  BY <1>1, <1>2, <1>3, <1>4 DEF Next

\* A revocation is answered when the row is revoked, and stays so.
LEMMA KeysOwnedStep == AccessInv /\ [Next]_vars => KeysOwned'
<1> SUFFICES ASSUME AccessInv, [Next]_vars PROVE KeysOwned'
  OBVIOUS
<1>0. TypeOK /\ PlacesChecked /\ KeysOwned
  BY DEF AccessInv
<1>1. ASSUME NEW c \in Callers, Request(c) PROVE KeysOwned'
  <2> USE <1>0 DEF TypeOK, PlacesChecked, KeysOwned, AdminPlaces
  <2>1. ASSUME NEW k \in Keys, NEW p \in Permissions, KeyRequest(c, k, p) PROVE KeysOwned'
    BY <2>1 DEF KeyRequest, Start
  <2>2. ASSUME NEW o \in Orgs, NEW what, NEW k \in Keys \cup {None},
               what \in {"events:read", "create", "revoke"}, what = "revoke" => k \in Keys,
               SessionRequest(c, o, what, k)
        PROVE  KeysOwned'
    BY <2>2 DEF SessionRequest, Start
  <2>3. CASE OrglessRequest(c)
    BY <2>3 DEF OrglessRequest, Start
  <2> QED
    BY <1>1, <2>1, <2>2, <2>3 DEF Request
<1>2. ASSUME NEW c \in Callers, CallStep(c) PROVE KeysOwned'
  <2>0. CASE End(c) /\ UNCHANGED <<rows, revocations>>
    BY <2>0, Refused DEF AccessInv
  <2>1. CASE FindApiKeyByHash(c)
    <3>1. ASSUME pc[c] = "hash", key[arg[c]] = "active", Goto(c, "keyorg"), UNCHANGED <<rows, revocations>>
          PROVE  KeysOwned'
      BY <1>0, <3>1 DEF TypeOK, PlacesChecked, KeysOwned, AdminPlaces
    <3> QED
      BY <2>0, <2>1, <3>1 DEF FindApiKeyByHash, Check
  <2>2. CASE KeyFindOrg(c)
    <3>1. ASSUME pc[c] = "keyorg", org[keyOrg[arg[c]]] = "active", Goto(c, "limit"), UNCHANGED <<rows, revocations>>
          PROVE  KeysOwned'
      BY <1>0, <3>1 DEF TypeOK, PlacesChecked, KeysOwned, AdminPlaces
    <3> QED
      BY <2>0, <2>2, <3>1 DEF KeyFindOrg, Check
  <2>3. CASE AuthenticateUser(c)
    <3>1. ASSUME pc[c] = "user", user[from[c]] = "active", Goto(c, "userorg"), UNCHANGED <<rows, revocations>>
          PROVE  KeysOwned'
      BY <1>0, <3>1 DEF TypeOK, PlacesChecked, KeysOwned, AdminPlaces
    <3> QED
      BY <2>0, <2>3, <3>1 DEF AuthenticateUser, Check
  <2>4. CASE AuthenticateOrg(c)
    <3>1. ASSUME pc[c] = "userorg", UNCHANGED <<rows, revocations>>,
                 /\ org[from[c]] # "suspended"
                 /\ op[c] \in {"create", "revoke"} => role[from[c]] \in Admins,
                 Goto(c, NextPlace(op[c]))
          PROVE  KeysOwned'
      BY <1>0, <3>1 DEF TypeOK, PlacesChecked, KeysOwned, AdminPlaces, NextPlace
    <3> QED
      BY <2>0, <2>4, <3>1 DEF AuthenticateOrg
  <2>5. CASE Handle(c)
    <3>1. ASSUME pc[c] = "limit", Goto(c, "served"), UNCHANGED <<rows, revocations>>
          PROVE  KeysOwned'
      BY <1>0, <3>1 DEF TypeOK, PlacesChecked, KeysOwned, AdminPlaces
    <3> QED
      BY <2>0, <2>5, <3>1 DEF Handle, Check
  <2>6. CASE RateLimited(c)
    BY <2>0, <2>6 DEF RateLimited
  <2>7. CASE FindUserByEmailAndOrg(c)
    <3>1. ASSUME pc[c] = "owner", Goto(c, "insert"), UNCHANGED <<rows, revocations>>
          PROVE  KeysOwned'
      BY <1>0, <3>1 DEF TypeOK, PlacesChecked, KeysOwned, AdminPlaces
    <3> QED
      BY <2>0, <2>7, <3>1 DEF FindUserByEmailAndOrg, Check
  <2>8. CASE NoKeyOwner(c)
    <3>1. ASSUME pc[c] = "owner", Goto(c, "insert"), UNCHANGED <<rows, revocations>>
          PROVE  KeysOwned'
      BY <1>0, <3>1 DEF TypeOK, PlacesChecked, KeysOwned, AdminPlaces
    <3> QED
      BY <2>0, <2>8, <3>1 DEF NoKeyOwner, Check
  <2>9. CASE CreateApiKey(c)
    BY <1>0, <2>9 DEF TypeOK, PlacesChecked, KeysOwned, AdminPlaces, CreateApiKey
  <2>10. CASE FindApiKeyByIdAndOrg(c)
    <3>1. ASSUME pc[c] = "find", key[arg[c]] # "none", keyOrg[arg[c]] = from[c], UNCHANGED rows,
                 \/ /\ key[arg[c]] = "revoked" /\ Goto(c, "served")
                    /\ revocations' = revocations \cup {arg[c]}
                 \/ Goto(c, "revoke") /\ UNCHANGED revocations
          PROVE  KeysOwned'
      BY <1>0, <3>1 DEF TypeOK, PlacesChecked, KeysOwned, AdminPlaces
    <3> QED
      BY <2>0, <2>10, <3>1 DEF FindApiKeyByIdAndOrg
  <2>11. CASE RevokeApiKey(c)
    BY <1>0, <2>11 DEF TypeOK, PlacesChecked, KeysOwned, AdminPlaces, RevokeApiKey, RevokedWhereOwn
  <2>12. CASE Respond(c)
    BY <2>0, <2>12 DEF Respond
  <2>13. CASE CallFails(c)
    BY <1>0, <2>13 DEF TypeOK, PlacesChecked, KeysOwned, AdminPlaces, CallFails, RevokedWhereOwn, End
  <2>14. CASE RefuseOrgless(c)
    BY <2>0, <2>14 DEF RefuseOrgless, Check
  <2> QED
    BY <1>2, <2>1, <2>2, <2>3, <2>4, <2>5, <2>6, <2>7, <2>8, <2>9, <2>10, <2>11, <2>12, <2>13, <2>14
    DEF CallStep
<1>3. ASSUME NEW o \in Orgs, StatusChanges(o) PROVE KeysOwned'
  BY <1>0, <1>3 DEF TypeOK, PlacesChecked, KeysOwned, AdminPlaces, StatusChanges
<1>4. CASE UNCHANGED vars
  BY <1>0, <1>4 DEF TypeOK, PlacesChecked, KeysOwned, AdminPlaces
<1> QED
  BY <1>1, <1>2, <1>3, <1>4 DEF Next

\* A request that began with void credentials is refused at the latest where
\* the reason is read: no suspension, removal or revocation is ever undone.
LEMMA VoidStep == AccessInv /\ [Next]_vars => VoidWillBeRefused'
<1> SUFFICES ASSUME AccessInv, [Next]_vars PROVE VoidWillBeRefused'
  OBVIOUS
<1>0. TypeOK /\ PlacesChecked /\ KeysOwned /\ VoidWillBeRefused
  BY DEF AccessInv
<1>1. ASSUME NEW c \in Callers, Request(c) PROVE VoidWillBeRefused'
  <2> USE <1>0 DEF TypeOK, PlacesChecked, KeysOwned, VoidWillBeRefused, AdminPlaces
  <2>1. ASSUME NEW k \in Keys, NEW p \in Permissions, KeyRequest(c, k, p) PROVE VoidWillBeRefused'
    BY <2>1 DEF KeyRequest, Start
  <2>2. ASSUME NEW o \in Orgs, NEW what, NEW k \in Keys \cup {None},
               what \in {"events:read", "create", "revoke"}, what = "revoke" => k \in Keys,
               SessionRequest(c, o, what, k)
        PROVE  VoidWillBeRefused'
    BY <2>2 DEF SessionRequest, Start
  <2>3. CASE OrglessRequest(c)
    BY <2>3 DEF OrglessRequest, Start
  <2> QED
    BY <1>1, <2>1, <2>2, <2>3 DEF Request
<1>2. ASSUME NEW c \in Callers, CallStep(c) PROVE VoidWillBeRefused'
  <2>0. CASE End(c) /\ UNCHANGED <<rows, revocations>>
    BY <2>0, Refused DEF AccessInv
  <2>1. CASE FindApiKeyByHash(c)
    <3>1. ASSUME pc[c] = "hash", key[arg[c]] = "active", Goto(c, "keyorg"), UNCHANGED <<rows, revocations>>
          PROVE  VoidWillBeRefused'
      BY <1>0, <3>1 DEF TypeOK, PlacesChecked, KeysOwned, VoidWillBeRefused, AdminPlaces
    <3> QED
      BY <2>0, <2>1, <3>1 DEF FindApiKeyByHash, Check
  <2>2. CASE KeyFindOrg(c)
    <3>1. ASSUME pc[c] = "keyorg", org[keyOrg[arg[c]]] = "active", Goto(c, "limit"), UNCHANGED <<rows, revocations>>
          PROVE  VoidWillBeRefused'
      BY <1>0, <3>1 DEF TypeOK, PlacesChecked, KeysOwned, VoidWillBeRefused, AdminPlaces
    <3> QED
      BY <2>0, <2>2, <3>1 DEF KeyFindOrg, Check
  <2>3. CASE AuthenticateUser(c)
    <3>1. ASSUME pc[c] = "user", user[from[c]] = "active", Goto(c, "userorg"), UNCHANGED <<rows, revocations>>
          PROVE  VoidWillBeRefused'
      BY <1>0, <3>1 DEF TypeOK, PlacesChecked, KeysOwned, VoidWillBeRefused, AdminPlaces
    <3> QED
      BY <2>0, <2>3, <3>1 DEF AuthenticateUser, Check
  <2>4. CASE AuthenticateOrg(c)
    <3>1. ASSUME pc[c] = "userorg", UNCHANGED <<rows, revocations>>,
                 /\ org[from[c]] # "suspended"
                 /\ op[c] \in {"create", "revoke"} => role[from[c]] \in Admins,
                 Goto(c, NextPlace(op[c]))
          PROVE  VoidWillBeRefused'
      BY <1>0, <3>1 DEF TypeOK, PlacesChecked, KeysOwned, VoidWillBeRefused, AdminPlaces, NextPlace
    <3> QED
      BY <2>0, <2>4, <3>1 DEF AuthenticateOrg
  <2>5. CASE Handle(c)
    <3>1. ASSUME pc[c] = "limit", Goto(c, "served"), UNCHANGED <<rows, revocations>>
          PROVE  VoidWillBeRefused'
      BY <1>0, <3>1 DEF TypeOK, PlacesChecked, KeysOwned, VoidWillBeRefused, AdminPlaces
    <3> QED
      BY <2>0, <2>5, <3>1 DEF Handle, Check
  <2>6. CASE RateLimited(c)
    BY <2>0, <2>6 DEF RateLimited
  <2>7. CASE FindUserByEmailAndOrg(c)
    <3>1. ASSUME pc[c] = "owner", Goto(c, "insert"), UNCHANGED <<rows, revocations>>
          PROVE  VoidWillBeRefused'
      BY <1>0, <3>1 DEF TypeOK, PlacesChecked, KeysOwned, VoidWillBeRefused, AdminPlaces
    <3> QED
      BY <2>0, <2>7, <3>1 DEF FindUserByEmailAndOrg, Check
  <2>8. CASE NoKeyOwner(c)
    <3>1. ASSUME pc[c] = "owner", Goto(c, "insert"), UNCHANGED <<rows, revocations>>
          PROVE  VoidWillBeRefused'
      BY <1>0, <3>1 DEF TypeOK, PlacesChecked, KeysOwned, VoidWillBeRefused, AdminPlaces
    <3> QED
      BY <2>0, <2>8, <3>1 DEF NoKeyOwner, Check
  <2>9. CASE CreateApiKey(c)
    BY <1>0, <2>9 DEF TypeOK, PlacesChecked, KeysOwned, VoidWillBeRefused, AdminPlaces, CreateApiKey
  <2>10. CASE FindApiKeyByIdAndOrg(c)
    <3>1. ASSUME pc[c] = "find", key[arg[c]] # "none", keyOrg[arg[c]] = from[c], UNCHANGED rows,
                 \/ /\ key[arg[c]] = "revoked" /\ Goto(c, "served")
                    /\ revocations' = revocations \cup {arg[c]}
                 \/ Goto(c, "revoke") /\ UNCHANGED revocations
          PROVE  VoidWillBeRefused'
      BY <1>0, <3>1 DEF TypeOK, PlacesChecked, KeysOwned, VoidWillBeRefused, AdminPlaces
    <3> QED
      BY <2>0, <2>10, <3>1 DEF FindApiKeyByIdAndOrg
  <2>11. CASE RevokeApiKey(c)
    BY <1>0, <2>11 DEF TypeOK, PlacesChecked, KeysOwned, VoidWillBeRefused, AdminPlaces, RevokeApiKey, RevokedWhereOwn
  <2>12. CASE Respond(c)
    BY <2>0, <2>12 DEF Respond
  <2>13. CASE CallFails(c)
    BY <1>0, <2>13 DEF TypeOK, PlacesChecked, KeysOwned, VoidWillBeRefused, AdminPlaces, CallFails, RevokedWhereOwn, End
  <2>14. CASE RefuseOrgless(c)
    BY <2>0, <2>14 DEF RefuseOrgless, Check
  <2> QED
    BY <1>2, <2>1, <2>2, <2>3, <2>4, <2>5, <2>6, <2>7, <2>8, <2>9, <2>10, <2>11, <2>12, <2>13, <2>14
    DEF CallStep
<1>3. ASSUME NEW o \in Orgs, StatusChanges(o) PROVE VoidWillBeRefused'
  BY <1>0, <1>3 DEF TypeOK, PlacesChecked, KeysOwned, VoidWillBeRefused, AdminPlaces, StatusChanges
<1>4. CASE UNCHANGED vars
  BY <1>0, <1>4 DEF TypeOK, PlacesChecked, KeysOwned, VoidWillBeRefused, AdminPlaces
<1> QED
  BY <1>1, <1>2, <1>3, <1>4 DEF Next

\* The inductive invariant holds in every reachable state (validateApiKey,
\* authenticate, authorize, revokeKey).
THEOREM AccessInvariant == Spec => []AccessInv
<1>1. Init => AccessInv
  <2> SUFFICES ASSUME Init PROVE AccessInv
    OBVIOUS
  <2>1. TypeOK
    BY DEF Init, TypeOK
  <2> QED
    BY <2>1 DEF Init, AccessInv, PlacesChecked, AdminPlaces, KeysOwned, VoidWillBeRefused
<1>2. AccessInv /\ [Next]_vars => AccessInv'
  BY TypeOKStep, PlacesCheckedStep, KeysOwnedStep, VoidStep DEF AccessInv
<1> QED
  BY <1>1, <1>2, PTL DEF Spec

----------------------------------------------------------------------------
(* What the invariant gives *)

\* A request that began after its key's revocation was answered, its user
\* removed or its organisation suspended is never served (validateApiKey,
\* authenticate, revokeKey).
THEOREM VoidIsNeverServed == Spec => []VoidCredentialsRefused
<1>1. AccessInv => VoidCredentialsRefused
  BY DEF AccessInv, VoidWillBeRefused, VoidCredentialsRefused
<1> QED
  BY <1>1, AccessInvariant, PTL

\* One step of OnlyOwnOrgRevokes.
RevokedByOwnAdmin ==
  \A k \in Keys :
    /\ key[k] = "revoked" => key'[k] = "revoked"
    /\ key[k] = "active" /\ key'[k] = "revoked" =>
         \E c \in Callers : /\ op[c] = "revoke" /\ arg[c] = k
                            /\ from[c] = keyOrg[k] /\ role[from[c]] \in Admins

\* Only the UPDATE of a revocation touches the status of an existing key, and
\* the request that issues it is an admin's of the key's own organisation.
LEMMA RevocationStep == AccessInv /\ [Next]_vars => RevokedByOwnAdmin
<1> SUFFICES ASSUME AccessInv, [Next]_vars, NEW k \in Keys
             PROVE  /\ key[k] = "revoked" => key'[k] = "revoked"
                    /\ key[k] = "active" /\ key'[k] = "revoked" =>
                         \E c \in Callers : /\ op[c] = "revoke" /\ arg[c] = k
                                            /\ from[c] = keyOrg[k] /\ role[from[c]] \in Admins
  BY DEF RevokedByOwnAdmin
<1> DEFINE Same == key'[k] = key[k]
<1>1. ASSUME NEW c \in Callers, Request(c) PROVE Same
  BY <1>1 DEF Request, KeyRequest, SessionRequest, OrglessRequest, Start
<1>2. ASSUME NEW c \in Callers, CallStep(c), ~ CreateApiKey(c), ~ RevokeApiKey(c), ~ CallFails(c)
      PROVE  Same
  BY <1>2 DEF CallStep, Check, FindApiKeyByHash, KeyFindOrg, AuthenticateUser, AuthenticateOrg, Handle,
              RefuseOrgless, RateLimited, FindUserByEmailAndOrg, NoKeyOwner, FindApiKeyByIdAndOrg, Respond
<1>3. ASSUME NEW c \in Callers, CreateApiKey(c) PROVE Same \/ key[k] = "none"
  BY <1>3 DEF CreateApiKey, AccessInv, TypeOK
<1>4. ASSUME NEW c \in Callers, RevokeApiKey(c) \/ CallFails(c), ~ Same
      PROVE  /\ pc[c] = "revoke" /\ arg[c] = k
             /\ key'[k] = "revoked" /\ from[c] = keyOrg[k]
  BY <1>4 DEF RevokeApiKey, CallFails, RevokedWhereOwn, AccessInv, TypeOK
<1>5. ASSUME NEW c \in Callers, pc[c] = "revoke" PROVE op[c] = "revoke" /\ role[from[c]] \in Admins
  BY <1>5 DEF AccessInv, PlacesChecked, AdminPlaces
<1>6. ASSUME NEW o \in Orgs, StatusChanges(o) PROVE Same
  BY <1>6 DEF StatusChanges
<1>7. CASE UNCHANGED vars
  BY <1>7
<1> QED
  BY <1>1, <1>2, <1>3, <1>4, <1>5, <1>6, <1>7 DEF Next

\* A key is revoked only in answer to an admin of its own organisation, and is
\* never active again (findApiKeyByIdAndOrg, revokeApiKey).
THEOREM RevocationIsOwnAndFinal == Spec => OnlyOwnOrgRevokes
<1>1. AccessInv /\ [Next]_vars => [RevokedByOwnAdmin]_vars
  BY RevocationStep
<1>2. Spec => [][RevokedByOwnAdmin]_vars
  BY <1>1, AccessInvariant, PTL DEF Spec
<1> QED
  BY <1>2 DEF OnlyOwnOrgRevokes, RevokedByOwnAdmin
=============================================================================
