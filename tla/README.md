# Hashira backend: a TLA+ verification project

Hashira records audit events of AI systems. A client posts an event; the service
stores it, hashes its canonical form, encrypts its text, and anchors the hash in a
registry contract on Base L2, so that anybody can later verify it. This directory
models the backend in `src/` (TypeScript, Express, TypeORM, BullMQ, viem), checks the
models with TLC and proves the central safety properties with TLAPS. Paths below are
relative to the repository; `services/…` abbreviates `src/services/…`.

- [1. The system](#1-the-system)
- [2. Modules and how they correspond to the code](#2-modules-and-how-they-correspond-to-the-code)
- [3. Runs](#3-runs)
- [4. Proofs](#4-proofs)
- [5. Where the code and its documents disagree](#5-where-the-code-and-its-documents-disagree)
- [6. What is not modelled](#6-what-is-not-modelled)
- [7. Plan](#7-plan)

## 1. The system

### Inventory

| Component | State it keeps | Operations | Modelled in |
|---|---|---|---|
| Event ingestion (`services/event/event-ingestion.service.ts`, `repositories/event.repository.ts`, `entities/event.entity.ts`) | rows of `events`, the partial unique index on `(org_id, idempotency_key)`, one pending `setImmediate` callback per accepted event | look a key up, insert, answer 202, schedule processing | `EventPipeline` |
| Event processing (`services/event/event-processing.service.ts`) | nothing of its own | canonicalise, hash, encrypt, UPDATE to `anchoring`, add the anchor job | `EventPipeline` |
| Anchor queue and worker (`queues/anchor.queue.ts`, `workers/anchoring.worker.ts`) | jobs and their locks in Redis (BullMQ) | take, settle, requeue a stalled job | `EventPipeline` |
| Blockchain anchoring (`services/BlockchainAnchoringService.ts`) | the running call: attempt, transaction hash | submit, retry, wait for the receipt, record, record a failure | `EventPipeline`, `AnchorLedger` |
| Retry helper (`utils/withExponentialBackoff.ts`) | attempt counter | retry or rethrow; compute the delay | `Backoff`; what a retry means on chain in `EventPipeline` |
| Bootstrap and shutdown (`main.ts`) | the process | start, SIGTERM handling | `EventPipeline` (`Crash`, `Shutdown`) |
| Password login and one-time codes (`services/auth/auth.service.ts`, `services/auth/otp.service.ts`, `repositories/otp-token.repository.ts`) | in-memory map of failed attempts, `otp_tokens` rows | login, verify, resend | `OtpLogin`; registration in `Onboarding` |
| Refresh tokens and logout (`services/auth/refresh.service.ts`, `controllers/auth/logout.controller.ts`) | `refresh_tokens` rows, the browser's cookie | mint, rotate, mark used | `SessionTokens` |
| Password reset (`services/auth/password-reset.service.ts`) | `password_reset_tokens`, in-memory attempt map, detached requests | request, confirm | `PasswordReset` |
| Invitations, organisations, Google sign-in (`services/organisation`, `services/auth/google-auth.service.ts`, `services/auth/auth.service.ts`) | `invitations`, `organisations`, `users`, an activation timer | create, accept, activate, link an account | `Onboarding` |
| API keys and access middleware (`services/api-key`, `middleware/`) | `api_keys`, the request context | create, revoke, validate, authorise | `ApiAccess` |
| Event queries and verification (`services/event/event-query.service.ts`, `controllers/event/event-query.controller.ts`) | none | list, read, verify | `EventQuery`, composed with `EventPipeline` |
| Canonicalisation (`services/CanonicalisationService.ts`) | none (pure) | canonicalise, hash | `Canonicalisation` |
| KMS signing (`services/BlockchainSigningService.ts`; not used by `main.ts`) | none | sign, parse DER, find v | `KmsSigning` |
| MFA | `users` columns | enrol, verify | not modelled: its routes are disabled |
| Mail, logging, API documents, seed scripts, encryption primitives | none | — | not modelled |

### How the parts interact

`POST /v1/events` runs `ingest`, which may find an earlier row under the same key
(answer: that event), or inserts a row and *after* the insert schedules an in-memory
task and answers 202. The task (`process`) seals the row — hash, ciphertext, status
`anchoring` in one UPDATE — and only then adds a job to Redis. Any process's worker
may take the job; it submits a transaction, waits for its receipt and updates the row
to `anchored`, or to `anchor_failed` when something throws. The rows are shared by
every process; the task exists in one process only; the job survives in Redis; the
transaction survives on chain whatever happens to the caller that sent it.

Login is a chain of awaits over a shared map and a shared table: the counter or the
row is read, something slow happens (bcrypt, a query), and the row is written. Token
rotation, password reset, the acceptance of an invitation and the admission of a request by
key or session have the same shape: nothing is locked between the check and the write that
relies on it, and only unique indexes and transactions hold what they hold.

Queries read the rows the pipeline writes. A handler reads a row, awaits once more, and
answers from the row it has; a listing is two SQL queries per page and as many pages as the
client asks for, while events arrive.

### What is hard about it

- Two calls with one idempotency key between lookup and insert.
- A process lost between the 202 answer and the queue, between the transaction and
  the row, or between the row and the acknowledgement of the job.
- An RPC answer lost after the node accepted the transaction, and the retry of it.
- A database or Redis call that throws although its effect was applied.
- A job lock that expires while its worker is alive: two workers on one event.
- Two events with equal content: the contract accepts the hash once.
- Limits that are checked before an await and counted after it.
- Tokens, codes and invitations that are single-use by a flag read before it is written.
- Answers that overtake one another on their way to the browser.
- A detached promise nobody handles: Node ends the process, and with it every in-memory limit.
- A timer set five seconds before the state it was set for has changed.
- Paging by offset while rows are inserted or leave the selection.
- Byte-level edges: DER's dropped zeros and sign bytes, key order and nulls in JSON, a
  delay at its cap, an attempt count of zero.

`PROJECT.json` lists each of these under `hazards`, at the line where it bites.

### Properties that make each part correct

- *Ingestion*: one key, one event; an accepted event eventually settles, and only a
  fault before the queue, a failure nobody could record, or lost processes can strand it.
- *Processing*: nothing is anchored before its row is sealed; a settled row is never
  reopened by a late write.
- *Queue and worker*: every job ends; a completed job has left its evidence in the row; two
  processes never run one job while live workers renew their locks.
- *Anchoring*: "anchored" is never reported for a hash that is not in the registry;
  the stored transaction is the event's own; the number of paid transactions is bounded.
- *Login*: the overrun of a limit is bounded by the calls in flight; a code opens no
  session once the calls that saw it unused are over.
- *Sessions*: a spent token without a rotation under way stays dead; a browser whose answers
  all arrived holds a live token.
- *Password reset*: one code changes the password at most once per overlapping call.
- *Onboarding*: the overrun of the user limit and of an invitation is bounded by the calls in
  flight; one account per person; every organisation has an admin; a suspension is not
  lifted by the activation timer.
- *Access*: a request that begins with void credentials is never served.
- *Queries*: an answered verification is true; an unreadable event is one still in
  processing; a listing misses nothing; nobody is shown what is not theirs.
- *Algorithms*: one canonical string for equal events and, where a string can hold what they
  say, only for equal ones; DER parsed back to the
  numbers signed; reverts never retried.

## 2. Modules and how they correspond to the code

### `EventPipeline`

One action per await of the code, so every place where Node can run something else, or
where the process can be lost, is a state of the model.

| Variables | Stand for |
|---|---|
| `status`, `text`, `canonicalHash`, `txHash`, `anchorError` | the `events` row of each request's event; an event is named by the request that inserts it |
| `pc`, `host`, `reply` | the activation of `ingest`, the process it runs in, the event it answered with |
| `task` | the `setImmediate` callback (`none`, `scheduled`, `enqueue` = sealed but not queued, `done`, `dead`) |
| `job`, `stalls`, `lock` | the BullMQ job in Redis |
| `wpc`, `wjob`, `attempt`, `wtx` | the worker inside `anchorEvent` |
| `sent`, `mined`, `txEvent`, `txOk`, `registry` | the signer's transactions in nonce order, how many are mined, the contract's map |
| `restarts` | how often a process was lost |

| Actions | Code |
|---|---|
| `Receive`, `FindEventByIdempotencyKey`, `CreateEvent`, `CreateEventConflict`, `IngestFails`, `Dispatch` | `createEvent` and `ingest` |
| `UpdateEventToAnchoring`, `AnchorQueueAdd`, `ProcessFails` | `process` and the `.catch` of its caller |
| `TakeJob`, `WriteContract`, `WriteContractRefused`, `WriteContractUnanswered`, `ReceiptArrives`, `ReceiptFails`, `UpdateEventToAnchored`, `UpdateEventToAnchoredFails`, `UpdateEventToAnchorFailed`, `FinishJob` | `createProcessor`, `anchorEvent`, `withExponentialBackoff`, BullMQ's completion |
| `LockExpires`, `StalledCheck`, `Mine`, `Crash` | external: BullMQ, the chain and its contract, the operating system |
| `Shutdown` | `shutdown` of `main.ts`: waits for requests and for the running job, not for the tasks |

Decisions worth knowing:

- A call that throws has two outcomes wherever the code cannot tell them apart: the
  effect was applied, or it was not (`IngestFails`, `ProcessFails`,
  `UpdateEventToAnchoredFails`, `UpdateEventToAnchorFailed`, `WriteContractUnanswered`).
- `writeContract` estimates gas first, so a call that would revert in the present chain
  state throws without sending (`WriteContractRefused`); one that starts to revert only
  later is sent and mined as a reverted transaction (`Mine`).
- The receipt's status is not read by `anchorEvent`, so `ReceiptArrives` does not look at
  `txOk`.
- `canonicalHash` depends on content alone (`HashOf`); two events may share a hash.
- A worker's death leaves its job lock in Redis. `LockExpires` ends a lock that nobody renews
  (`Unrenewed`: its holder was lost) or, with `LockMayExpire`, one whose worker is alive but
  late; only then does `StalledCheck` give the job out again.
- The back-off delays are not modelled: a retry may happen at any later moment.

### `AnchorLedger`

The abstract specification, with queue, workers, retries and processes left out: accept,
prepare, register a hash, report as anchored (only while the hash is registered), report
as failed. `EventPipeline!ImplementsLedger` instantiates it with `Events <- Requests` and
`ledger <- {h : registry[h] # NoEvent}`. A report may change between *anchored* and
*anchor_failed*: the code does that (section 5), and the abstract specification says so
openly.

### `OtpLogin`

One e-mail address, several overlapping connections. `failed`/`lapsed` are the entry of
`emailFailedAttempts` and whether its window has passed; `tokens`, `used`, `attempts`,
`expired` are the `otp_tokens` rows in creation order; `sessions` counts the refresh
tokens inserted on the strength of each row. After the code is marked used, `CheckUser`
(`findUserByEmail`) and `CheckOrg` (`findOrgById`, and the `mfa_required` answer, which opens no
session) are separate awaits. Time is a nondeterministic passing of the
window and of each row's ten minutes; `Bar` is a user removed or an organisation
suspended elsewhere; `Restart` empties the map. The code compared is named by the row
that holds it, 0 being a code nobody was sent, so equal codes in two rows (a chance of
one in nine hundred thousand; always with `SKIP_SES=true`, a development setting) are left
out.

### `SessionTokens`

The refresh tokens of one user, as rows in insertion order with the row each replaced, and
the browser's cookie. `FindRefreshTokenByHash`, `RotateFindUser`, `RotateRefreshToken` are the
awaits of `rotateRefreshToken`; the transaction marks the old row by id *whatever its flag is
by then*, as the code does. The answer is a step of its own (`CookieSet`, `CookieCleared`),
so answers overtake one another; `CallLost` loses one. Rotation looks neither at the user's
status nor at the organisation's; logout passes `authenticate`.

### `PasswordReset`

One account. A row is named by its code because `token_hash` is the unique hash of e-mail and
code. `requestPasswordReset` answers 204 and drops the promise, so `RequestResetRejects` (a
code drawn a second time, or a failing database or mail call) is an unhandled rejection and
`ProcessDies`: the attempt map and every open call are gone, the codes stay. A confirmation
marks only the row of its own code, so every other unused code of the account stays good.

### `Onboarding`

People (an e-mail address with its Google account), organisations (by unique name) and
invitations, which are created outside this repository and belong to `HomeOrg`. Every lookup
is an action of its own; the transactions `acceptInvitationAndCreateUser` and
`createOrgWithAdmin` are atomic and guarded by the unique indexes only. The activation timer
exists outside production; with it off, `ActivationFails` is what happens. Users are never
removed here, so the seat count only grows.

### `ApiAccess`

Requests by API key (`KeyRequest`) and by session (`SessionRequest`) pass the middleware one
await at a time, in the order of the routes: on `POST /v1/events` the permission is checked
before the limiters, on the queries in the handler. A session is a member's, an admin's or a
super admin's (`Admins` are the two roles that `authorize` lets manage keys), or that of a user
without an organisation, whom `authenticate` lets pass and the handlers refuse
(`OrglessRequest`, `RefuseOrgless`). `void` remembers whether the credentials
were already void when the request began: a revocation answered, a user removed, an
organisation suspended. The limiters may refuse any request; their counts are left out.

### `EventQuery`

Extends `EventPipeline` with one client (an admin, an admin with `?email=`, a member, or an
API key with some permissions). `PipelineStep` is any step of the pipeline; `row` is the row a handler has read,
`answer` the last answer with the row it was made of. `ListEvents` and `CountEvents` are the
two queries of `getManyAndCount`. The filters on dates, workflow and model compare columns
that never change, like the one on `user_id`, which stands for them; the status filter is
modelled because rows enter and leave it. A row's place in the result is `Rank`, the number of
selected rows not after it by `createdAt`; a page is an interval of ranks. Equal `created_at`
values, whose order Postgres does not fix, are left out. With a status filter a row that leaves
the selection shifts later rows onto a page already read; `steady` remembers whether that has
happened, and `ListingMissesNothing` promises nothing once it has. With `?email=` every page
looks the named user up again (`ResolveUserId`): a user removed between two pages ends the
listing with an empty page; `named` remembers that it was found so far.

### `Canonicalisation`, `KmsSigning`, `Backoff`

The algorithms inside one call. `Canonicalise` is translated from the service (recursive
sort, omission of null `workflow_id` and `metadata`, `toISOString`) and compared with
`SameEvent`, a definition of "the same event" that knows nothing of sorting, nor of what the code
drops: every key counts, and an instant is exact, its millisecond (`ms`, all that `toISOString`
writes) and what is `below`. A JSON value is a
literal, an array or an object whose members are JSON values again; `Json` is a set of such
values closed under members, `Depth` their depth (they are finite trees), `Before` the
order of keys. `sortKeysRecursive` and `JSON.stringify` recurse over the same members, so one
recursive function, `CanonicalString`, sorts (`SortKeys`) and writes (`Stringify`) level by level.
Assigning the key `__proto__` sets a prototype instead of a property, so such a nested member is
not part of the string (`OwnKeys`). `Expressible` events have neither such a member nor a time
within a millisecond; only of those does one string imply one event. `KmsSigning` is `signHash` with both DER
parsers, on real bytes and a coordinate of `Width` bytes; what KMS sends is built by an
encoder of its own. `Backoff` is one call of the retry loop over every sequence of outcomes.

### The MC modules

Small instances for TLC: `MCEventPipeline` has `Twin` (two uploads of equal content), `Retry`
(a call, its retry with the same key, a third upload of equal content) and `Single`;
`MCEventQuery` two events of two users of one organisation; `MCEncodings` the
inputs of the three algorithms, one of them per behaviour; the others a few callers.
Processes, callers, people, and in `Twin` the two requests, are interchangeable and are
declared symmetric where only safety is checked.

### The proof modules

`EventPipelineProofs`, `EventQueryProofs`, `OtpLoginProofs`, `SessionTokensProofs`,
`PasswordResetProofs`, `OnboardingProofs` and `ApiAccessProofs` hold the theorems about the
module they are named after, `EncodingsProofs` those about `Backoff`, `KmsSigning` and
`Canonicalisation`; see section 4. The inductive invariants stand in the component's own module, so that TLC can check
them.

## 3. Runs

| Run | Question | Result |
|---|---|---|
| `pipeline_chain` | Two equal uploads, two processes, lost RPC answers, expiring locks, one lost process: do rows and registry agree, who can strand an accepted event, and is the abstract ledger implemented? | holds, only the lost process strands; 4.7 million states |
| `pipeline_faults` | The same uploads with every Postgres, Redis and RPC call failing at will, and a lost process whose lock stays: do the inductive invariant and "settled stays settled" hold, can two processes run one job, what strands an event? | holds; no; the faults `Stranded` lists; 0.8 million states |
| `pipeline_live` | One event under every fault at once, reverts for another reason than a duplicate excepted: does its job always end, and how many transactions are paid for? | ends; at most `MaxAttempts * (1 + MaxStalled)`; 0.4 million states |
| `pipeline_quiet` | No fault of a call, a lock or a process, but transactions that may revert for any reason: do calls with one key agree, does every accepted event settle, is only a duplicate ever marked failed? | holds |
| `otp_limits` | Three overlapping callers with lapsing windows, expiring codes, MFA and restarts: by how much can the limits be overrun? | by at most one less than the number of callers; 7.0 million states |
| `sessions` | Two tabs log in, refresh and log out over each other, with lost answers: how many successors can a token have, is the browser left with a live one? | as many as overlapping calls; yes, unless an answer was lost; 0.4 million states |
| `reset` | Two overlapping confirmations while codes are issued and the process may die: how often does a code work, how far is the limit overrun? | once per overlapping call; by one; 0.3 million states |
| `onboarding` | Three people, two invitations, two organisations, registered in every way at once, with failures, restarts and suspensions | all properties hold; 1.9 million states |
| `access` | Requests by key and by session, in each role and without an organisation, while keys, users and organisations change | holds; 2.4 million states |
| `query` | A client reads while the pipeline runs, with expiring job locks and a named user that may be removed | holds; 0.9 million states |
| `encodings` | The three algorithms over bounded inputs | hold; 0.4 million states |
| `claim_tx_succeeded` | A statement of the repository's README | violated; section 5 |

### Bounds and why they are enough

- Two processes and two events of equal content are the smallest instance in which two
  workers run one job, two jobs race for one hash, and a process is lost while the other
  goes on. The retry instance adds a third request because a key conflict needs two calls
  and a duplicate needs a third upload.
- `MaxAttempts = 2` has a first, a last and a repeated attempt. `MaxStalled = 1` is
  BullMQ's default. The configured limits 10 and 5 of the login become 2 and 2: below,
  at and past the limit all occur with three callers.
- `MaxTx = 3` lets an event be broadcast twice and its twin once; `pipeline_live` uses 5,
  one more than the budget it checks, so that the bound itself never stops a worker.
- `MaxRestarts = 1`. One loss at every point of every interleaving is covered by TLC; the
  proofs cover any number.
- Two callers suffice for each hazard of the session, reset, onboarding and access models:
  each is two calls between one check and one write; the bounds they check are stated for
  any number. Three people are one more than the two seats `UserLimit = 2` leaves room for
  with the admin counted; three rows of `refresh_tokens` let a token have two successors
  with a third call on its way. `CONFIRM_ATTEMPT_LIMIT` is 2 instead of 5.
- `query`: two events and page size 1 give a second page and an insertion before, between and
  after the pages; page size 2 a page that fills up between SELECT and COUNT. The contents
  differ, since of two equal ones only one is ever anchored. An event is foreign to the admin of
  the other organisation and to the member whose it is not. One process suffices: its own worker
  runs a stalled job again and overwrites the row.
- `encodings`: two-byte coordinates over eight byte values have every combination of leading
  zero, sign byte and tag-like byte; the events are two families, one that varies the flat
  fields (two spellings of one instant, another instant, one within the same millisecond) and one
  that varies metadata nested to depth three (null members and `__proto__` included); attempts go from 0 to 5 with delays that meet the cap, jump over it, or start above it.
- The proofs hold for every value of these constants, so the bounds matter only for the two
  properties that are not proved: `JobsSettle` and `AcceptedEventsSettle`.

`CHECK_DEADLOCK FALSE` is set for the pipeline: when every event has settled and no
further call comes, nothing happens, and that is right; the same for the algorithms, which
end. The other models always can do something.

### Fairness

`FairSpec` assumes weak fairness of the steps Node takes by itself once a call, a task or
a job has started, of the end of a lock *that nobody renews* (a Redis key with a time to live),
of BullMQ's periodic stalled check *for a job whose lock is gone*, of the worker and of the miner.
It assumes nothing about clients, failures, crashes or the expiry of a live worker's lock. The worker's fairness is on the disjunction of its steps: when the node always
fails, the attempts still run out. A receipt that never comes is excluded by the fairness
of `Mine`: a transaction at the head of the nonce order is eventually mined.

### Mutants

Each property has a mutant: a copy of one modelled definition with a plausible slip (an
index dropped, a wait left out, an enqueue moved before the UPDATE, an off-by-one in the
attempt loop, a flag filter forgotten) under which the property fails. They stand next to
the definition they vary, marked "Mutant:".

## 4. Proofs

Every safety property that a passing run checks is proved for every value of the constants.
`SpentTokenStaysSpent` and `ScopeIsKept` are proved and belong to no run.
Each component has one inductive invariant; TLC checks it on the
component's run (or, where the run lists only its parts, checked it while the proof was
written), and the theorems follow from it. The step lemmas have one case per action, and in it
one step per conjunct the action can disturb.

### The pipeline (`EventPipelineProofs`)

| Theorem | Says |
|---|---|
| `TypeCorrect` | `Spec => []TypeOK` |
| `PipelineInvariant` | `Spec => []PipelineInv`, the inductive invariant |
| `AnchoredRowsAreOnChain` | a row reported as anchored has its hash in the registry |
| `RecordedTxsAreOwn` | a stored `tx_hash` is a mined transaction of that very event |
| `CompletedJobsAreRecorded` | a completed job has a transaction hash in its row for good |
| `RepliesAgree` | answered calls with one key got the same event |
| `SettledRowsStaySettled` | no step reopens a settled row |
| `PipelineImplementsLedger` | `Spec` implements `AnchorLedger`, if transactions revert only as duplicates |
| `TxsAreBounded` | at most `MaxAttempts * (1 + MaxStalled)` transactions per event |
| `OnlyDuplicatesFail` | undisturbed, only a duplicate is marked failed |
| `RunsAreExclusive` | no two processes run one job, as long as live workers renew their locks in time |
| `NothingElseStrands` | only a fault before the add, an unrecorded failure or lost processes strand an accepted event |

**The argument.** None of the properties is inductive alone. That an anchored row is on
chain needs that its `tx_hash` is mined; that needs that a worker about to record holds a
mined transaction of its own event; and since the receipt's status is not read, it needs
that *every* mined transaction, reverted ones included, leaves its hash registered — true
because the contract reverts only when the hash, or the event under its hash, is already
there. `PipelineInv` is that chain, one conjunct per link: `RowsFollowTasks` (rows are as
far as request, task and job), `WorkersHoldOwnTx`, `TxsFollowRows`, `RegistryFollowsTxs`,
`RowsFollowChain`. Key agreement adds `KeyInv` (one row per slot, answers refer to
stored rows in the caller's slot), completion adds `CompletedInv`; both use `PipelineInv`.
The refinement goes through `LedgerStep`: each step that changes `status` or `registry` is
one abstract action, all others stutter.

**The budget** needs no history of runs. `BudgetInv` adds up, for one event, the
transactions sent (`TxsOf`), the broadcasts the running workers may still make
(`AttemptsLeft`, a set of pairs of worker and attempt) and `MaxAttempts` for each run still to
come (`RunsToCome`: the run that waits, and one per stall left). No step raises the sum: a
broadcast moves one from the second term to the first, taking a job moves `MaxAttempts` from
the third to the second, a stall spends a stall. That two workers run one job at once is
covered, because their attempts are different pairs. `JobsAddedOnce` says that a job is
enqueued by one task only. This needs finitely many processes (`IsFiniteSet(Procs)`).

**Duplicates.** `RunOnce` describes an undisturbed pipeline: a job has one run, by the
worker that holds its lock, which has sent nothing when it submits; so a refusal at that point
can only come from another event's registration.

**Exclusion.** The lock of a dead worker stands until it expires, so "a lock means a running
worker" is false. What is inductive is `RunnersHoldLocks`, that whoever runs a job holds its lock:
a job is taken only from the queue, it is put back there only when its lock is gone, and a lock
goes only when nobody renews it (`LocksAreHeld`: it belongs to an active job, and its holder runs
that job or was lost in a restart). Two runs of one job would then hold one lock.

**The safety half of liveness.** That an accepted event settles is a leads-to property and stays
with TLC; that somebody is always in charge of it is an invariant. `HandoverInv` says that an
accepted, unsettled event is `InHand` (its task, the queue, its lock's time to live, the stalled
check, or a worker inside `anchorEvent` has it) or `Stranded`. A run or a job that ends leaves a
settled row behind, unless the job stalled too often or the failure could not be recorded. The
hand-over from a lost worker to the stalled check goes through `LocksAreHeld`: a lock whose holder
is not on that job is one that expires. RPC failures, expired locks, two workers on one job and
failing Postgres and Redis calls are covered. `Stranded` is exact about processes and coarse about
calls: with `InfraMayFail` it admits every task that ended before its add, because the `.catch`
after `process` only logs, and every failed job, because the UPDATE in the catch block may fail
too (section 5).

**The assumption `~ OtherReverts`** (in `AnchoredIsOnChain` and `PipelineImplementsLedger`)
says that a transaction reverts only as a duplicate. It is an assumption on the chain, not
on the code: out-of-gas or a paused contract would break it, and then the code, which
ignores the receipt's status, does report such an event as anchored.

### Queries (`EventQueryProofs`)

| Theorem | Says |
|---|---|
| `VerificationsAreTrue` | an answered verification is true of the chain, and stays true |
| `UnreadableIsUnsealed` | a detail that cannot be decrypted is of an event still in processing |
| `ListingInvariant`, `ListingsAreComplete` | following `has_next` shows every row selected at the start, if none leaves the selection and the named user stays |
| `ScopesAreKept` | nobody is shown a row outside their scope |

The pipeline's invariants carry over, since a client's step changes nothing of the pipeline.
`AnswersInv` says of the row a handler has read, and of the row an answer was made of, what no
step of the pipeline can make false again (`StillTrue`): transactions stay mined and the
registry only grows. For listings, `ListingInv` says that every row selected at the start whose
rank is within what the pages have covered has been shown. Inserts may move a row to a later
rank, never to an earlier one, as long as no row leaves the selection (lemma `RanksGrow`), so
nothing slips behind the reader; at the end the count covers every rank. Assumed: finitely many
requests, a member has a user id, page sizes of 1 to 100.

### Sessions, login, reset, onboarding, access

| Module | Theorems | Inductive invariant |
|---|---|---|
| `SessionTokensProofs` | `SessionInvariant`, `SuccessorsAreBounded`, `CookieStaysLive`, `DeadTokensStayDead` | `SessionInv`: who may hold which token, and that an answer on its way is fresh |
| `OtpLoginProofs` | `OtpInvariant`, `GuessesAreBounded`, `LoginFailuresAreBounded`, `SessionsAreBounded` | `OtpInv`: wrong tries, and calls still to be judged, are counted in the row or in flight |
| `PasswordResetProofs` | `ResetInvariant`, `ResetsAreBounded`, `FailuresAreBounded` | `ResetInv`: a code that was used is marked; failures counted or in flight |
| `OnboardingProofs` | `OnboardingInvariant`, `InvitationUsesAreBounded`, `AccountsStayConsistent`, `MembersAreBounded`, `SuspensionIsNeverLifted` | `OnboardingInv`: what each place of a call has read; an invitation used is accepted |
| `ApiAccessProofs` | `AccessInvariant`, `VoidIsNeverServed`, `RevocationIsOwnAndFinal` | `AccessInv`: what each place of a request has checked; void credentials will meet their check |

The bounds share one argument. A limit that is checked before an await and counted after it is
overrun by the calls between the two. So the invariant adds to what is counted the *set* of
calls past the check (`Misses`, `Unjudged`, `Rotations`, `Confirmations`, `Admitting`,
`Joining`, ...): a call that enters it while the limit is not reached keeps the sum within
limit plus callers, and once the limit is reached none enters. The sets are subsets of
`Callers`, so finiteness of `Callers` is assumed everywhere. `Onboarding` assumes also that
there is a caller and `UserLimit >= 1` (`organisation.entity.ts:21`: the default is 10, and an
organisation is created with its admin).

### Retry loop, signing and canonical form (`EncodingsProofs`)

| Theorem | Says |
|---|---|
| `BackoffInvariant`, `OwnOutcome` | for all options, the call ends with `fn`'s outcome and a revert is never retried |
| `SleepsGrow` | for all options, sleeps double up to the cap |
| `SignInvariant`, `ReturnedSignaturesRecover` | a returned signature is KMS's own and recovers its key, whatever the alias does |
| `SigningLosesNothing` | without a fault, `signHash` succeeds for every signature KMS can send |
| `CanonicalStringsIdentify` | the same event has one canonical string and, among expressible events, one string has one event, for JSON of any shape and depth |

`BackoffInv` ties the loop variable to the calls and sleeps at each place of the loop. The
delays need 2^(a+1) = 2 * 2^a, which the provers do not know: lemma `PowerDoubles` gets it from
counting subsets of 1..a+1. The heart of the signing proof is
`ParseDerSignatureReadsBack`: for every coordinate width, all byte values and both length
forms, the parser returns the numbers that were encoded; `ShortestFacts` has the three forms of a
DER INTEGER (sign byte, no sign byte, zero) and `FirstByteFacts` takes the first non-zero byte
from the well-foundedness of the naturals. Assumed: at most 60 bytes per coordinate, beyond which
the short length form is not legal DER (the code has 32), and different keys have different
points.

The canonical form is about data of unbounded size, which this prover offers no induction for:
`f[x \in D] == e` stands for a CHOOSE of *some* solution, and the library's induction theorems
cannot be instantiated. `FixedPoint` therefore proves, in first-order terms, that an equation
whose right side looks only at values of smaller depth has a solution (`Agree` are the partial
solutions; they never disagree, and their union is one); `CanonicalStringFacts`, `SameOwnFacts`,
`SameJsonFacts`, `ProtoFreeFacts` and `FlattenEquation` apply it. The rest goes in five steps;
`SameOwn` is the reference without the members named `__proto__`, which is what a string can be
read back to.

1. `SortedFacts`: the sorted keys of an object list each key once, in the order of `Before`. The
   rank of a key, the number of keys not after it, is a bijection from the keys to 1..n.
2. `FlattenLaid`: where the pieces of a level stand in its string (`Occurs` says that a string
   stands in another at a position).
3. `ReadsBack` says that two values whose strings start at one place of one string are the same,
   and end at one place. `ListReads` carries that from the members of a level to the level;
   `FirstToken` tells literal, array and object apart. Induction on the depth
   (`JsonInduction`) gives `AllReadBack`; `AllWriteSame` is the converse.
4. `CanonicaliseSeparates`: the top level is such an object, with a key present or absent
   (`Present`) and the flat fields as leaves.
5. `CanonicaliseIdentifies`: two more inductions go from `SameOwn` to the reference.
   `SameIsSameOwn` holds of all values, `SameOwnIsSame` of those that are `ProtoFree`; below a
   millisecond expressible instants are equal.

Assumed (`JsonAssumption`, `EventAssumption`): brackets are neither literals nor keys, `Before`
is a strict total order of the keys, JSON values are finite trees closed under members, and every
field but `metadata` is a leaf. A string is a sequence of tokens: that a key or literal can be told
from its surroundings is JSON's own grammar (`JSON.stringify` quotes and escapes).

The theorems are about `BackoffSpec`, `SignSpec` and `CanonSpec`; the run interleaves none with
another.

### Only model-checked

Liveness under fairness (`JobsSettle`, `AcceptedEventsSettle`) is out of the prover's reach;
`NothingElseStrands` is its safety half.

## 5. Where the code and its documents disagree

The first is a run with a counterexample and an entry under `findings`; the others are
behaviours the models have, described here with the property that does hold.

1. `claim_tx_succeeded`: the answer to a submission is lost, the retry sends a second
   transaction, the first one registers the hash, the second reverts; its hash is stored
   as the evidence of the event. The hash *is* on chain (`AnchoredIsOnChain`), but the
   transaction that README.md:7 offers for verification failed.
2. The process is lost after the row was set to `anchored` and before BullMQ knew. The second
   run meets `AlreadyAnchored` and overwrites the row with `anchor_failed`; verification then
   answers "not yet anchored on-chain" (swagger.yaml:1843) although the registry holds the
   hash under this event's id. `VerifiedIsOnChain` is the direction that holds.
3. Two overlapping calls with one key both miss the lookup; the second insert meets the
   unique index and the client gets a 500 rather than the first event, although
   swagger.yaml:1144 says the key makes retries safe. `RepliesAgree` is what remains true: an
   *answered* call is answered consistently.
4. A restart, graceful or not, after the 202 answer loses the task; the event stays in
   `processing`, its text in plaintext, and nothing picks it up. A restart during the last run
   that `maxStalledCount` allows fails the job without a word to the row, which stays in
   `anchoring`. Nothing retries a task whose Postgres or Redis call failed either: its event stays
   in `processing` or, sealed and not queued, in `anchoring`. `StrandedOnlyByFault` says that
   these are the only ways;
   `AcceptedEventsSettle` holds in `pipeline_quiet`, without restarts.
5. One-time codes, refresh tokens, reset codes and invitations are read as unused and marked
   later by id, without a condition on the flag: two overlapping calls both succeed
   (swagger.yaml:163 speaks of a single-use flag). `SessionsPerOtpBounded`,
   `SuccessorsBounded`, `ResetsPerCodeBounded` and `UsesPerInvitationBounded` are the bounds
   that hold.

6. A reset does not void the account's other unused codes: `applyPasswordReset` marks its own
   row only (`password-reset-token.repository.ts:44-48`), and a code sent earlier changes the
   password again until it expires. `ResetsPerCodeBounded` speaks of one code.
7. swagger.yaml:1216 tells clients to poll `GET /v1/events/{event_id}` right after the 202, while
   the event is in `processing`. In that window the row holds plaintext, decryption throws and the
   answer is a 500 (`ToDetail`). `UnreadableOnlyWhileProcessing` says that it is the only one.

Three further statements of the repository's README are visibly different in the code and need
no run:

- *prompt/output encrypted before INSERT* (README.md:100): `createEvent` of the event repository
  inserts the plaintext (`InsertRow`).
- *nulls stripped* (README.md:101): `canonicalise` leaves out `workflow_id` and `metadata` when
  they are null, and `sortKeysRecursive` returns every other null as it is
  (`CanonicalisationService.ts:47`), so `{a: 1, b: null}` and `{a: 1}` as metadata hash
  differently, and a client that strips nulls computes another hash than the one anchored. The
  reference `SameJson` counts null members, as the code does; under the README's reading
  `SameStringIffSameEvent` fails on that pair.
- *one blockchain tx per event, always* (README.md:102): `TxBudget` is the bound that holds.

Two things are in an event and not in its canonical string: a member of nested metadata named
`__proto__`, which `sorted[key] = ...` turns into a prototype, and what a timestamp says below a
millisecond, which the validator accepts and `Date` truncates. Events that differ only there share
a hash, and the registry takes the first.

## 6. What is not modelled

- Encryption, hashing, JWT and bcrypt primitives: `text` and `HashOf` keep what the
  properties tell apart.
- Postgres, Redis, BullMQ, the chain node and the contract are external. They are modelled
  from how the code uses them: atomic single-statement updates, a unique index, at most one
  lock per job, the stalled check, nonce order.
- More than one signer account, reorganisations of the chain and replaced transactions:
  the code waits for the configured number of confirmations and handles none of them. A
  transaction counts as mined when it has that many.
- HTTP wiring, validation messages, logging, mail, API documents, seed scripts.
- MFA enrolment and verification: the routes are disabled (`routes/auth/auth.routes.ts:84`). The
  branch of `verifyOtp` for a user whose flag is set is in `OtpLogin`.
- The counts of the rate limiters (library counters per key and window) and `last_used_at`.
- `GET /v1/invitations/:token`, `GET /v1/me` and the list of API keys, which only read.

## 7. Plan

Every component with behaviour of its own is modelled, and every safety property that a run
checks is proved. Left:

1. The rest of the liveness argument: that each hand-over of `HandoverInv` takes place, and that
   there are finitely many, as a proof; `BudgetInv` already has the measure that decreases.
2. MFA, once its routes are enabled.
