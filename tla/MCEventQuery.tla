---------------------------- MODULE MCEventQuery ----------------------------
(* Small instances of EventQuery for TLC. *)
EXTENDS EventQuery, TLC

CONSTANTS r1, r2, p1, h1, h2, oA, oB, u1, u2

\* Two events of one organisation, by different users and with different
\* contents.
QRequests == {r1, r2}
QHashOf == (r1 :> h1) @@ (r2 :> h2)
QSlotOf == [r \in QRequests |-> NoKey]
QOrgOf == [r \in QRequests |-> oA]
QUserOf == (r1 :> u1) @@ (r2 :> u2)

\* An admin who lists everything, one who lists a user by e-mail, a member and
\* a key that may only read verifications, all of that organisation, and the
\* admin of another.
Client(kind, org, user, perms, email) ==
  [kind |-> kind, org |-> org, user |-> user, perms |-> perms, email |-> email]
QClients ==
  { Client("admin", oA, u1, {}, AnyUser), Client("admin", oA, u1, {}, u2),
    Client("member", oA, u2, {}, AnyUser), Client("key", oA, u1, {"verification:read"}, AnyUser),
    Client("admin", oB, u1, {}, AnyUser) }
=============================================================================
