----------------------------- MODULE EventQuery -----------------------------
(***************************************************************************)
(* EventQueryService beside the running pipeline: one client lists events  *)
(* page by page, opens an event and asks for its verification while events *)
(* are inserted, sealed and anchored.  Every answer is made of a row that  *)
(* was read one await earlier.                                             *)
(***************************************************************************)
EXTENDS EventPipeline

CONSTANTS
  OrgOf, UserOf, \* request -> org_id and user_id of its event
  AnyUser,       \* no user filter
  Clients,       \* who asks: [kind, org, user, perms, email], where kind is
                 \* "admin", "member" or "key", perms are the key's permissions
                 \* and email is the user an admin's ?email= names, or AnyUser
  PageSizes      \* page_size values tried, at most PAGE_SIZE_MAX

ASSUME QueryAssumption ==
  /\ IsFiniteSet(Requests)
  /\ DOMAIN OrgOf = Requests /\ DOMAIN UserOf = Requests
  /\ \A c \in Clients : c.kind = "member" => c.user # AnyUser
  /\ PageSizes \subseteq 1..100

VARIABLES
  createdAt, \* created_at column; 0 before the INSERT
  client,    \* the client
  named,     \* the user of the client's ?email=, if any, is an active member
  qpc,       \* the client's place
  row,       \* the row a detail or verification handler has read
  answer,    \* the client's last answer: its kind and the row it was made of
  page, size, dir, wanted, \* the listing's query parameters
  start, shown, nextPage,  \* rows selected when it began, rows shown, has_next
  steady                   \* no row has left the selection since

asked == <<page, size, dir, wanted>>
walk  == <<asked, start, shown, nextPage, steady>>
query == <<createdAt, client, named, qpc, row, answer, walk>>
qvars == <<vars, query>>

NoRow == [event |-> NoEvent]

QInit ==
  /\ Init
  /\ createdAt = [r \in Requests |-> 0]
  /\ client \in Clients
  /\ named \in BOOLEAN /\ (client.email = AnyUser => named)
  /\ qpc = "idle"
  /\ row = NoRow
  /\ answer = [kind |-> "none", row |-> NoRow]
  /\ page = 0 /\ size = 1 /\ dir = "asc" /\ wanted = {}
  /\ start = {} /\ shown = {} /\ nextPage = FALSE /\ steady = TRUE

\* created_at of a new row is the database's clock at its INSERT, later than
\* that of every row before it; equal timestamps are left out.
Created ==
  [r \in Requests |->
     IF status'[r] # "none" /\ status[r] = "none"
     THEN 1 + Cardinality({e \in Requests : status[e] # "none"})
     ELSE createdAt[r]]

----------------------------------------------------------------------------
(* Scope *)

\* An API key needs the permission of the route; a session does not.
Permitted(permission) == client.kind = "key" => permission \in client.perms

\* resolveDetailScope: the organisation of the session or of the key and, for
\* a member, its own user_id.
ResolveDetailScope ==
  [org |-> client.org, user |-> IF client.kind = "member" THEN client.user ELSE AnyUser]

\* resolveListScope: the same, and for an admin the user with the ?email=.
ResolveListScope ==
  IF client.kind = "admin" /\ client.email # AnyUser
  THEN [org |-> client.org, user |-> client.email]
  ELSE [org |-> client.org, user |-> IF client.kind = "member" THEN client.user ELSE AnyUser]

\* The row passes the org_id and the user_id filter.
InScope(r, scope) ==
  /\ OrgOf[r] = scope.org
  /\ scope.user # AnyUser => UserOf[r] = scope.user

\* The row passes every filter of the listing.  The filters on dates, workflow
\* and model compare columns that never change, as the one on user_id does.
Matches(r) == InScope(r, ResolveListScope) /\ status[r] \in wanted

\* A step of the pipeline.
PipelineStep ==
  /\ Next
  /\ createdAt' = Created
  /\ steady' = (steady /\ \A r \in Requests : Matches(r) => status'[r] \in wanted)
  /\ UNCHANGED <<client, named, qpc, row, answer, asked, start, shown, nextPage>>

----------------------------------------------------------------------------
(* GET /v1/events/:event_id and /verification *)

\* findEventById: the row in the caller's organisation; a member's foreign
\* event is answered 404.  A client asks for one event or lists once, and one
\* with an ?email= only lists.
FindEventById(r, kind) ==
  /\ qpc = "idle" /\ answer.kind = "none" /\ client.email = AnyUser
  /\ status[r] # "none"
  /\ Permitted(IF kind = "detail" THEN "events:read" ELSE "verification:read")
  /\ InScope(r, ResolveDetailScope)
  /\ qpc' = kind
  /\ row' = [event |-> r, status |-> status[r], text |-> text[r], tx |-> txHash[r],
             hash |-> canonicalHash[r]]
  /\ UNCHANGED <<vars, createdAt, client, named, answer, walk>>

\* The handler answers from the row it has read.
Answer(kind) ==
  /\ answer' = [kind |-> kind, row |-> row]
  /\ qpc' = "idle"
  /\ row' = NoRow
  /\ UNCHANGED <<vars, createdAt, client, named, walk>>

\* getById: after the owner's e-mail has been read, toDetail decrypts prompt
\* and output of the row; decrypt throws on plaintext, which is a 500.
ToDetail ==
  /\ qpc = "detail"
  /\ Answer(IF row.text = "cipher" THEN "detail" ELSE "unreadable")

\* Mutant: the status is not looked at.
VerifiableByHash == row.hash # NoHash

\* Anchored, with every column of the proof present.
Verifiable == row.status = "anchored" /\ row.tx # 0 /\ row.hash # NoHash

\* getVerification: the proof, or 422 "not yet anchored on-chain".
GetVerification ==
  /\ qpc = "verification"
  /\ Answer(IF Verifiable THEN "verified" ELSE "unanchored")

----------------------------------------------------------------------------
(* GET /v1/events, page after page *)

\* The rows that the filters select.
Selected == {r \in Requests : Matches(r)}

\* The place of a row in ORDER BY created_at, ascending or descending.
Rank(r) ==
  Cardinality({e \in Selected : IF dir = "asc" THEN createdAt[e] <= createdAt[r]
                                               ELSE createdAt[e] >= createdAt[r]})

\* The first request of a listing.
StartListing ==
  /\ qpc = "idle" /\ answer.kind = "none"
  /\ Permitted("events:read")
  /\ size' \in PageSizes
  /\ dir' \in {"asc", "desc"}
  /\ wanted' \in {Statuses, {"anchored"}}
  /\ start' = {r \in Requests : named /\ InScope(r, ResolveListScope) /\ status[r] \in wanted'}
  /\ page' = 1
  /\ shown' = {}
  /\ nextPage' = FALSE
  /\ qpc' = "resolve"
  /\ UNCHANGED <<vars, createdAt, client, named, row, answer, steady>>

\* resolveUserId, for every page anew: an ?email= of nobody who is an active
\* member of the organisation is answered with an empty last page.
ResolveUserId ==
  /\ qpc = "resolve"
  /\ IF named
     THEN qpc' = "list" /\ UNCHANGED nextPage
     ELSE qpc' = "page" /\ nextPage' = FALSE
  /\ UNCHANGED <<vars, createdAt, client, named, row, answer, asked, start, shown, steady>>

\* Rows before the page.
Skip == (page - 1) * size

\* The SELECT of getManyAndCount with OFFSET and LIMIT.
ListEvents ==
  /\ qpc = "list"
  /\ shown' = shown \cup {r \in Selected : Skip < Rank(r) /\ Rank(r) <= Skip + size}
  /\ qpc' = "total"
  /\ UNCHANGED <<vars, createdAt, client, named, row, answer, asked, start, nextPage, steady>>

\* Mutant: has_next is false one page too early.
HasNextEarly(total) == (page + 1) * size < total

HasNext(total) == page * size < total

\* The COUNT of getManyAndCount is a query of its own and may see more rows;
\* the answer carries has_next.
CountEvents ==
  /\ qpc = "total"
  /\ nextPage' = HasNext(Cardinality(Selected))
  /\ qpc' = "page"
  /\ UNCHANGED <<vars, createdAt, client, named, row, answer, asked, start, shown, steady>>

\* The client follows has_next.
NextPage ==
  /\ qpc = "page" /\ nextPage
  /\ page' = page + 1
  /\ qpc' = "resolve"
  /\ UNCHANGED <<vars, createdAt, client, named, row, answer, size, dir, wanted, start, shown,
                 nextPage, steady>>

\* The last page: the listing is over.
EndListing ==
  /\ qpc = "page" /\ ~ nextPage
  /\ qpc' = "listed"
  /\ UNCHANGED <<vars, createdAt, client, named, row, answer, walk>>

\* The status of the user whose events are listed becomes REMOVED, by whatever
\* administers the users table: with the user the whole selection is gone.
NamedUserRemoved ==
  /\ named /\ client.email # AnyUser
  /\ named' = FALSE
  /\ steady' = (steady /\ start = {})
  /\ UNCHANGED <<vars, createdAt, client, qpc, row, answer, asked, start, shown, nextPage>>

----------------------------------------------------------------------------
ClientStep ==
  \/ \E r \in Requests, kind \in {"detail", "verification"} : FindEventById(r, kind)
  \/ ToDetail \/ GetVerification
  \/ StartListing \/ ResolveUserId \/ ListEvents \/ CountEvents \/ NextPage \/ EndListing

QNext == PipelineStep \/ ClientStep \/ NamedUserRemoved

QSpec == QInit /\ [][QNext]_qvars

----------------------------------------------------------------------------
(* The inductive invariant behind the safety properties *)

\* What a row said when it was read, as far as it stays true.
StillTrue(snapshot) ==
  /\ snapshot.event \in Requests /\ snapshot.tx \in Nat
  /\ snapshot.tx # 0 => snapshot.tx <= mined /\ txEvent[snapshot.tx] = snapshot.event
  /\ snapshot.hash \in {NoHash, HashOf[snapshot.event]}
  /\ snapshot.status = "anchored" /\ ~ OtherReverts => registry[HashOf[snapshot.event]] # NoEvent
  /\ snapshot.text # "cipher" =>
       snapshot.status = "processing" /\ snapshot.hash = NoHash /\ snapshot.tx = 0

\* The handlers read and answer only rows that are in the caller's scope.
AnswersInv ==
  /\ qpc \in {"detail", "verification"} => StillTrue(row) /\ InScope(row.event, ResolveDetailScope)
  /\ qpc = "detail" => Permitted("events:read")
  /\ qpc = "verification" => Permitted("verification:read")
  /\ IF answer.kind = "none" THEN answer.row = NoRow
     ELSE StillTrue(answer.row) /\ InScope(answer.row.event, ResolveDetailScope)
  /\ answer.kind \in {"detail", "unreadable"} => Permitted("events:read")
  /\ answer.kind \in {"verified", "unanchored"} => Permitted("verification:read")
  /\ answer.kind = "unreadable" => answer.row.text # "cipher"
  /\ answer.kind = "verified" =>
       answer.row.status = "anchored" /\ answer.row.tx # 0 /\ answer.row.hash # NoHash

Listing == qpc \in {"resolve", "list", "total", "page", "listed"}

\* How many rows the pages that have been read so far have covered.
Covered == IF qpc \in {"resolve", "list"} THEN Skip ELSE page * size

\* While no row leaves the selection a row only ever moves to a later rank, so
\* whatever the pages have covered has been shown.
ListingInv ==
  /\ client \in Clients /\ createdAt \in [Requests -> Nat]
  /\ shown \subseteq {r \in Requests : InScope(r, ResolveListScope)}
  /\ IF Listing
     THEN /\ wanted \in {Statuses, {"anchored"}} /\ Permitted("events:read")
          /\ page \in Nat \ {0} /\ size \in Nat
     ELSE wanted = {} /\ shown = {}
  /\ named /\ wanted \in {{}, Statuses} => steady
  /\ Listing /\ steady /\ ~ named => start = {}
  /\ Listing /\ steady =>
       /\ start \subseteq Selected
       /\ \A r \in start : Rank(r) <= Covered => r \in shown
       /\ qpc \in {"page", "listed"} /\ ~ nextPage => start \subseteq shown
  /\ qpc = "listed" => ~ nextPage

----------------------------------------------------------------------------
(* Safety *)

\* A verification that was answered names a transaction of that very event
\* that is mined and a hash that is, and stays, in the registry, although the
\* handler answers from a row that other workers may have changed by then
\* (getVerification, updateEventToAnchored, updateEventToAnchorFailed).
VerifiedIsOnChain ==
  ~ OtherReverts /\ answer.kind = "verified" =>
    /\ registry[answer.row.hash] # NoEvent
    /\ answer.row.tx <= mined /\ txEvent[answer.row.tx] = answer.row.event

\* The detail of an event fails to decrypt only while the event is still in
\* "processing": no reader ever meets a row that carries a later status and
\* plaintext, or a hash and plaintext (toDetail against updateEventToAnchoring).
UnreadableOnlyWhileProcessing ==
  answer.kind = "unreadable" =>
    answer.row.status = "processing" /\ answer.row.hash = NoHash /\ answer.row.tx = 0

\* A client that follows has_next to the end has seen every event that was
\* selected when it began, in either sort order, however many events arrive
\* between its pages and between the two queries of one page.  That is so
\* unless an event leaves the selection meanwhile, which takes a status filter
\* or the removal of the user named by ?email= (listEvents, resolveUserId,
\* has_next).
ListingMissesNothing ==
  /\ qpc = "listed" /\ steady => start \subseteq shown
  /\ named /\ wanted = Statuses => steady

\* Whatever a client is shown, page after page or by id, is its to read: an
\* event of its own organisation, a member's own event, and with an API key
\* only what the permission of that route allows (resolveListScope,
\* resolveDetailScope, getById, getVerification).
ScopeIsKept ==
  LET opened == {answer.row.event} \ {NoEvent}
  IN  /\ \A r \in shown \cup opened : OrgOf[r] = client.org
      /\ client.kind = "member" => \A r \in shown \cup opened : UserOf[r] = client.user
      /\ client.kind = "key" =>
           /\ shown # {} \/ answer.kind \in {"detail", "unreadable"} => "events:read" \in client.perms
           /\ answer.kind \in {"verified", "unanchored"} => "verification:read" \in client.perms
=============================================================================
