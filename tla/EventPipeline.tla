--------------------------- MODULE EventPipeline ---------------------------
(***************************************************************************)
(* The path of an audit event from POST /v1/events to the Base L2          *)
(* registry: EventIngestionService.ingest, the in-memory setImmediate task *)
(* that runs EventProcessingService.process, the BullMQ anchor queue and   *)
(* its worker (BlockchainAnchoringService.anchorEvent), the rows of the    *)
(* events table and the anchoring contract.  Every await of the code is a  *)
(* place where the model can interleave another actor or lose the process. *)
(*                                                                         *)
(* An event is named by the request that inserts it: a request inserts at  *)
(* most one row, so event_id and request are in bijection.  A slot is the  *)
(* pair (org_id, idempotency_key).                                         *)
(***************************************************************************)
EXTENDS Integers, FiniteSets

CONSTANTS
  Requests,      \* POST /v1/events calls that passed the middleware
  Procs,         \* server processes; each runs the API and one BullMQ worker
  Hashes,        \* canonical hashes
  HashOf,        \* request -> SHA-256 of the canonical form of its payload
  SlotOf,        \* request -> its (org, idempotency key), or NoKey
  NoKey, NoEvent, NoHash, NoProc,
  MaxAttempts,   \* ANCHOR_MAX_RETRIES: attempts of one withExponentialBackoff
  MaxStalled,    \* BullMQ maxStalledCount
  MaxTx,         \* bound: transactions broadcast in a behaviour
  MaxRestarts,   \* bound: process crashes and shutdowns in a behaviour
  InfraMayFail,  \* Postgres, Redis and encrypt() calls may throw
  RpcMayFail,    \* calls to the chain node may throw
  LockMayExpire, \* a live worker may fail to renew its job lock
  OtherReverts   \* transactions may revert for reasons other than duplication

ASSUME ConstantsAssumption ==
  /\ HashOf \in [Requests -> Hashes]
  /\ NoEvent \notin Requests
  /\ NoHash \notin Hashes
  /\ NoProc \notin Procs /\ IsFiniteSet(Procs)
  /\ MaxAttempts \in Nat \ {0}
  /\ MaxStalled \in Nat
  /\ MaxTx \in Nat
  /\ MaxRestarts \in Nat
  /\ {InfraMayFail, RpcMayFail, LockMayExpire, OtherReverts} \subseteq BOOLEAN

VARIABLES
  \* the events table
  status,        \* "none" (no row), or the row's EventStatus
  text,          \* prompt and output columns: "plain" or "cipher"
  canonicalHash, \* canonical_hash column
  txHash,        \* tx_hash column; 0 is NULL
  anchorError,   \* anchor_error column is set
  \* ingest(), one activation per request
  pc, host, reply,
  \* the setImmediate task of each accepted event
  task,
  \* the BullMQ job of each event, in Redis
  job, stalls, lock,
  \* the worker of each process, inside anchorEvent
  wpc, wjob, attempt, wtx,
  \* the chain: transactions of the signer account in nonce order
  sent, mined, txEvent, txOk, registry,
  restarts

db      == <<status, text, canonicalHash, txHash, anchorError>>
ingest  == <<pc, host, reply>>
queue   == <<job, stalls, lock>>
worker  == <<wpc, wjob, attempt, wtx>>
txpool  == <<sent, txEvent>>
chain   == <<mined, txOk, registry>>
vars    == <<db, ingest, task, queue, worker, txpool, chain, restarts>>

Statuses == {"processing", "anchoring", "anchored", "anchor_failed"}
Settled  == {"anchored", "anchor_failed"}
InFlight == {"lookup", "insert", "created"}
Txs      == 1..MaxTx

TypeDb ==
  /\ status \in [Requests -> Statuses \cup {"none"}]
  /\ text \in [Requests -> {"none", "plain", "cipher"}]
  /\ canonicalHash \in [Requests -> Hashes \cup {NoHash}]
  /\ txHash \in [Requests -> 0..MaxTx]
  /\ anchorError \in [Requests -> BOOLEAN]

TypeIngest ==
  /\ pc \in [Requests -> InFlight \cup {"new", "accepted", "replayed", "error", "lost"}]
  /\ host \in [Requests -> Procs \cup {NoProc}]
  /\ reply \in [Requests -> Requests \cup {NoEvent}]
  /\ task \in [Requests -> {"none", "scheduled", "enqueue", "done", "dead"}]

TypeQueue ==
  /\ job \in [Requests -> {"none", "waiting", "active", "completed", "failed"}]
  /\ stalls \in [Requests -> 0..MaxStalled]
  /\ lock \in [Requests -> Procs \cup {NoProc}]

TypeWorker ==
  /\ wpc \in [Procs -> {"idle", "submit", "confirm", "record", "fail", "ack", "nack"}]
  /\ wjob \in [Procs -> Requests \cup {NoEvent}]
  /\ attempt \in [Procs -> 0..(MaxAttempts - 1)]
  /\ wtx \in [Procs -> 0..MaxTx]

TypeChain ==
  /\ sent \in 0..MaxTx
  /\ mined \in 0..MaxTx
  /\ txEvent \in [Txs -> Requests \cup {NoEvent}]
  /\ txOk \in [Txs -> BOOLEAN]
  /\ registry \in [Hashes -> Requests \cup {NoEvent}]

\* The type invariant.
TypeOK ==
  /\ TypeDb
  /\ TypeIngest
  /\ TypeQueue
  /\ TypeWorker
  /\ TypeChain
  /\ restarts \in 0..MaxRestarts

Init ==
  /\ status = [r \in Requests |-> "none"]
  /\ text = [r \in Requests |-> "none"]
  /\ canonicalHash = [r \in Requests |-> NoHash]
  /\ txHash = [r \in Requests |-> 0]
  /\ anchorError = [r \in Requests |-> FALSE]
  /\ pc = [r \in Requests |-> "new"]
  /\ host = [r \in Requests |-> NoProc]
  /\ reply = [r \in Requests |-> NoEvent]
  /\ task = [r \in Requests |-> "none"]
  /\ job = [r \in Requests |-> "none"]
  /\ stalls = [r \in Requests |-> 0]
  /\ lock = [r \in Requests |-> NoProc]
  /\ wpc = [p \in Procs |-> "idle"]
  /\ wjob = [p \in Procs |-> NoEvent]
  /\ attempt = [p \in Procs |-> 0]
  /\ wtx = [p \in Procs |-> 0]
  /\ sent = 0
  /\ mined = 0
  /\ txEvent = [t \in Txs |-> NoEvent]
  /\ txOk = [t \in Txs |-> FALSE]
  /\ registry = [h \in Hashes |-> NoEvent]
  /\ restarts = 0

----------------------------------------------------------------------------
(* EventIngestionService.ingest *)

\* The rows findOne({org_id, idempotency_key}) can return for request r, and
\* the rows the partial unique index compares an insert of r with.
RowsInSlot(r) ==
  {e \in Requests : status[e] # "none" /\ SlotOf[r] # NoKey /\ SlotOf[e] = SlotOf[r]}

\* createEvent: the controller hands the request to ingest, which looks the
\* key up only when the trimmed header is non-empty.
Receive(r, p) ==
  /\ pc[r] = "new"
  /\ pc' = [pc EXCEPT ![r] = IF SlotOf[r] = NoKey THEN "insert" ELSE "lookup"]
  /\ host' = [host EXCEPT ![r] = p]
  /\ UNCHANGED <<db, reply, task, queue, worker, txpool, chain, restarts>>

\* The SELECT by key: a row answers the call as an idempotent replay.
FindEventByIdempotencyKey(r) ==
  /\ pc[r] = "lookup"
  /\ \/ \E e \in RowsInSlot(r) :
          /\ pc' = [pc EXCEPT ![r] = "replayed"]
          /\ reply' = [reply EXCEPT ![r] = e]
     \/ /\ RowsInSlot(r) = {}
        /\ pc' = [pc EXCEPT ![r] = "insert"]
        /\ UNCHANGED reply
  /\ UNCHANGED <<db, host, task, queue, worker, txpool, chain, restarts>>

\* The row repo.create builds: plaintext, no hash, status PROCESSING.
InsertRow(r) ==
  /\ status' = [status EXCEPT ![r] = "processing"]
  /\ text' = [text EXCEPT ![r] = "plain"]
  /\ UNCHANGED <<canonicalHash, txHash, anchorError>>

\* Mutant: no unique index on (org_id, idempotency_key).
NoUniqueIndex(r) == TRUE

\* The partial unique index over (org_id, idempotency_key) accepts r.
UniqueKey(r) == RowsInSlot(r) = {}

\* repo.save: the INSERT commits.
CreateEvent(r) ==
  /\ pc[r] = "insert"
  /\ UniqueKey(r)
  /\ InsertRow(r)
  /\ pc' = [pc EXCEPT ![r] = "created"]
  /\ UNCHANGED <<host, reply, task, queue, worker, txpool, chain, restarts>>

\* repo.save meets the unique index: the error goes to next(err), a 500.
CreateEventConflict(r) ==
  /\ pc[r] = "insert"
  /\ ~ UniqueKey(r)
  /\ pc' = [pc EXCEPT ![r] = "error"]
  /\ UNCHANGED <<db, host, reply, task, queue, worker, txpool, chain, restarts>>

\* A database call of ingest throws; the INSERT may have committed before its
\* answer was lost.  No task is scheduled and the caller gets a 500.
IngestFails(r) ==
  /\ InfraMayFail
  /\ \/ pc[r] \in {"lookup", "insert"} /\ UNCHANGED db
     \/ pc[r] = "insert" /\ UniqueKey(r) /\ InsertRow(r)
  /\ pc' = [pc EXCEPT ![r] = "error"]
  /\ UNCHANGED <<host, reply, task, queue, worker, txpool, chain, restarts>>

\* Mutant: the answer is sent and the task forgotten.
DispatchForgotten(r) ==
  /\ pc[r] = "created"
  /\ pc' = [pc EXCEPT ![r] = "accepted"]
  /\ reply' = [reply EXCEPT ![r] = r]
  /\ UNCHANGED <<db, host, task, queue, worker, txpool, chain, restarts>>

\* After the INSERT: setImmediate(process) and the 202 answer, in one tick.
Dispatch(r) ==
  /\ pc[r] = "created"
  /\ pc' = [pc EXCEPT ![r] = "accepted"]
  /\ reply' = [reply EXCEPT ![r] = r]
  /\ task' = [task EXCEPT ![r] = "scheduled"]
  /\ UNCHANGED <<db, host, queue, worker, txpool, chain, restarts>>

----------------------------------------------------------------------------
(* EventProcessingService.process *)

\* The UPDATE of updateEventToAnchoring: hash, ciphertext and status at once,
\* with no guard on the row's present status.
SealRow(r) ==
  /\ status' = [status EXCEPT ![r] = "anchoring"]
  /\ text' = [text EXCEPT ![r] = "cipher"]
  /\ canonicalHash' = [canonicalHash EXCEPT ![r] = HashOf[r]]
  /\ UNCHANGED <<txHash, anchorError>>

\* anchorQueue.add: one job per call, no jobId, so nothing deduplicates it.
AddJob(r) ==
  /\ job' = [job EXCEPT ![r] = "waiting"]
  /\ UNCHANGED <<stalls, lock>>

\* Canonicalise, hash, encrypt, then the UPDATE commits.
UpdateEventToAnchoring(r) ==
  /\ task[r] = "scheduled"
  /\ SealRow(r)
  /\ task' = [task EXCEPT ![r] = "enqueue"]
  /\ UNCHANGED <<ingest, queue, worker, txpool, chain, restarts>>

\* Mutant: the add is repeated after it has succeeded.
AnchorQueueAddRepeats(r) ==
  /\ task[r] = "enqueue"
  /\ AddJob(r)
  /\ UNCHANGED <<db, ingest, task, worker, txpool, chain, restarts>>

\* The job is stored in Redis and process() returns.
AnchorQueueAdd(r) ==
  /\ task[r] = "enqueue"
  /\ AddJob(r)
  /\ task' = [task EXCEPT ![r] = "done"]
  /\ UNCHANGED <<db, ingest, worker, txpool, chain, restarts>>

\* encrypt(), the UPDATE or the add throws, the call's effect included or not.
\* The .catch of the setImmediate callback logs and nothing retries.
ProcessFails(r) ==
  /\ InfraMayFail
  /\ \/ task[r] \in {"scheduled", "enqueue"} /\ UNCHANGED <<db, queue>>
     \/ task[r] = "scheduled" /\ SealRow(r) /\ UNCHANGED queue
     \/ task[r] = "enqueue" /\ AddJob(r) /\ UNCHANGED db
  /\ task' = [task EXCEPT ![r] = "dead"]
  /\ UNCHANGED <<ingest, worker, txpool, chain, restarts>>

----------------------------------------------------------------------------
(* The BullMQ worker: createProcessor and anchorEvent *)

\* The idle worker of p locks a waiting job and calls the processor.
TakeJob(p, r) ==
  /\ wpc[p] = "idle"
  /\ job[r] = "waiting"
  /\ job' = [job EXCEPT ![r] = "active"]
  /\ lock' = [lock EXCEPT ![r] = p]
  /\ wpc' = [wpc EXCEPT ![p] = "submit"]
  /\ wjob' = [wjob EXCEPT ![p] = r]
  /\ attempt' = [attempt EXCEPT ![p] = 0]
  /\ wtx' = [wtx EXCEPT ![p] = 0]
  /\ UNCHANGED <<db, ingest, task, stalls, txpool, chain, restarts>>

\* anchorHash(HashOf[r], r) reverts in the present chain state: AlreadyAnchored
\* or AlreadyAnchoredEventId.
WouldRevert(r) ==
  \/ registry[HashOf[r]] # NoEvent
  \/ \E h \in Hashes : registry[h] = r

\* A transaction of the signer for event r takes the next nonce.
Broadcast(r) ==
  /\ sent < MaxTx
  /\ sent' = sent + 1
  /\ txEvent' = [txEvent EXCEPT ![sent + 1] = r]

\* Mutant: the loop runs while attempt <= maxAttempts.
RetryOnceMore(p) ==
  IF attempt[p] = MaxAttempts
  THEN wpc' = [wpc EXCEPT ![p] = "fail"] /\ UNCHANGED attempt
  ELSE attempt' = [attempt EXCEPT ![p] = attempt[p] + 1] /\ UNCHANGED wpc

\* Mutant: after the last attempt the count starts again instead of rethrowing.
RetryForever(p) ==
  /\ attempt' = [attempt EXCEPT ![p] = (attempt[p] + 1) % MaxAttempts]
  /\ UNCHANGED wpc

\* The catch of withExponentialBackoff for a retryable error: the last attempt
\* rethrows, an earlier one sleeps inside the job and tries again.
RetryOrFail(p) ==
  IF attempt[p] = MaxAttempts - 1
  THEN wpc' = [wpc EXCEPT ![p] = "fail"] /\ UNCHANGED attempt
  ELSE attempt' = [attempt EXCEPT ![p] = attempt[p] + 1] /\ UNCHANGED wpc

\* Mutant: the row is recorded without waiting for the receipt.
WriteContractNoWait(p) ==
  /\ wpc[p] = "submit"
  /\ ~ WouldRevert(wjob[p])
  /\ Broadcast(wjob[p])
  /\ wtx' = [wtx EXCEPT ![p] = sent + 1]
  /\ wpc' = [wpc EXCEPT ![p] = "record"]
  /\ attempt' = [attempt EXCEPT ![p] = 0]
  /\ UNCHANGED <<db, ingest, task, queue, wjob, chain, restarts>>

\* Mutant: the worker keeps the previous transaction of the signer.
WriteContractStaleTx(p) ==
  /\ wpc[p] = "submit"
  /\ ~ WouldRevert(wjob[p])
  /\ Broadcast(wjob[p])
  /\ wtx' = [wtx EXCEPT ![p] = sent]
  /\ wpc' = [wpc EXCEPT ![p] = "confirm"]
  /\ attempt' = [attempt EXCEPT ![p] = 0]
  /\ UNCHANGED <<db, ingest, task, queue, wjob, chain, restarts>>

\* writeContract answers with the transaction hash; the second
\* withExponentialBackoff starts counting from zero.
WriteContract(p) ==
  /\ wpc[p] = "submit"
  /\ ~ WouldRevert(wjob[p])
  /\ Broadcast(wjob[p])
  /\ wtx' = [wtx EXCEPT ![p] = sent + 1]
  /\ wpc' = [wpc EXCEPT ![p] = "confirm"]
  /\ attempt' = [attempt EXCEPT ![p] = 0]
  /\ UNCHANGED <<db, ingest, task, queue, wjob, chain, restarts>>

\* writeContract throws a non-retryable error: gas estimation meets the revert,
\* or the node refuses the call for another reason.
WriteContractRefused(p) ==
  /\ wpc[p] = "submit"
  /\ WouldRevert(wjob[p]) \/ RpcMayFail
  /\ wpc' = [wpc EXCEPT ![p] = "fail"]
  /\ UNCHANGED <<db, ingest, task, queue, wjob, attempt, wtx, txpool, chain, restarts>>

\* writeContract throws a retryable error (timeout, socket, 429): the node may
\* have accepted the transaction whose answer was lost.
WriteContractUnanswered(p) ==
  /\ RpcMayFail
  /\ wpc[p] = "submit"
  /\ \/ UNCHANGED txpool
     \/ ~ WouldRevert(wjob[p]) /\ Broadcast(wjob[p])
  /\ RetryOrFail(p)
  /\ UNCHANGED <<db, ingest, task, queue, wjob, wtx, chain, restarts>>

\* Mutant: a receipt for a transaction that is still pending is accepted.
ReceiptUnconfirmed(p) ==
  /\ wpc[p] = "confirm"
  /\ wpc' = [wpc EXCEPT ![p] = "record"]
  /\ UNCHANGED <<db, ingest, task, queue, wjob, attempt, wtx, txpool, chain, restarts>>

\* waitForTransactionReceipt returns: the transaction is mined.  The receipt's
\* status is not read.
ReceiptArrives(p) ==
  /\ wpc[p] = "confirm"
  /\ wtx[p] <= mined
  /\ wpc' = [wpc EXCEPT ![p] = "record"]
  /\ UNCHANGED <<db, ingest, task, queue, wjob, attempt, wtx, txpool, chain, restarts>>

\* waitForTransactionReceipt throws, retryably or not.
ReceiptFails(p) ==
  /\ RpcMayFail
  /\ wpc[p] = "confirm"
  /\ \/ RetryOrFail(p)
     \/ wpc' = [wpc EXCEPT ![p] = "fail"] /\ UNCHANGED attempt
  /\ UNCHANGED <<db, ingest, task, queue, wjob, wtx, txpool, chain, restarts>>

\* The UPDATE of updateEventToAnchored; anchor_error is left as it was.
RowAnchored(r, t) ==
  /\ status' = [status EXCEPT ![r] = "anchored"]
  /\ txHash' = [txHash EXCEPT ![r] = t]
  /\ UNCHANGED <<text, canonicalHash, anchorError>>

\* The UPDATE of updateEventToAnchorFailed; tx_hash is left as it was.
RowFailed(r) ==
  /\ status' = [status EXCEPT ![r] = "anchor_failed"]
  /\ anchorError' = [anchorError EXCEPT ![r] = TRUE]
  /\ UNCHANGED <<text, canonicalHash, txHash>>

\* The row is recorded as anchored and anchorEvent returns.
UpdateEventToAnchored(p) ==
  /\ wpc[p] = "record"
  /\ RowAnchored(wjob[p], wtx[p])
  /\ wpc' = [wpc EXCEPT ![p] = "ack"]
  /\ UNCHANGED <<ingest, task, queue, wjob, attempt, wtx, txpool, chain, restarts>>

\* That UPDATE throws inside the try block, applied or not, so the catch block
\* runs although the hash is on chain.
UpdateEventToAnchoredFails(p) ==
  /\ InfraMayFail
  /\ wpc[p] = "record"
  /\ RowAnchored(wjob[p], wtx[p]) \/ UNCHANGED db
  /\ wpc' = [wpc EXCEPT ![p] = "fail"]
  /\ UNCHANGED <<ingest, task, queue, wjob, attempt, wtx, txpool, chain, restarts>>

\* Mutant: the catch block does not rethrow.
FailureSwallowed(p) ==
  /\ wpc[p] = "fail"
  /\ RowFailed(wjob[p]) \/ (InfraMayFail /\ UNCHANGED db)
  /\ wpc' = [wpc EXCEPT ![p] = "ack"]
  /\ UNCHANGED <<ingest, task, queue, wjob, attempt, wtx, txpool, chain, restarts>>

\* Mutant: the catch block rethrows without recording the failure.
FailureUnrecorded(p) ==
  /\ wpc[p] = "fail"
  /\ wpc' = [wpc EXCEPT ![p] = "nack"]
  /\ UNCHANGED <<db, ingest, task, queue, wjob, attempt, wtx, txpool, chain, restarts>>

\* The catch block of anchorEvent: record the failure (the UPDATE itself may
\* throw, applied or not) and rethrow.
UpdateEventToAnchorFailed(p) ==
  /\ wpc[p] = "fail"
  /\ RowFailed(wjob[p]) \/ (InfraMayFail /\ UNCHANGED db)
  /\ wpc' = [wpc EXCEPT ![p] = "nack"]
  /\ UNCHANGED <<ingest, task, queue, wjob, attempt, wtx, txpool, chain, restarts>>

\* BullMQ settles the job when the processor returns or throws, if p still
\* holds the job's lock; attempts is 1, so a throw is final.
FinishJob(p) ==
  /\ wpc[p] \in {"ack", "nack"}
  /\ IF lock[wjob[p]] = p
     THEN /\ job' = [job EXCEPT ![wjob[p]] = IF wpc[p] = "ack" THEN "completed" ELSE "failed"]
          /\ lock' = [lock EXCEPT ![wjob[p]] = NoProc]
     ELSE UNCHANGED <<job, lock>>
  /\ wpc' = [wpc EXCEPT ![p] = "idle"]
  /\ wjob' = [wjob EXCEPT ![p] = NoEvent]
  /\ attempt' = [attempt EXCEPT ![p] = 0]
  /\ wtx' = [wtx EXCEPT ![p] = 0]
  /\ UNCHANGED <<db, ingest, task, stalls, txpool, chain, restarts>>

\* The lock of r names a worker that no longer runs r: nobody renews it.
Unrenewed(r) == lock[r] # NoProc /\ wjob[lock[r]] # r

\* The key of a job lock reaches its time to live in Redis: the worker that took
\* it is gone, or is alive and late with the renewal.
LockExpires(r) ==
  /\ lock[r] # NoProc
  /\ Unrenewed(r) \/ LockMayExpire
  /\ lock' = [lock EXCEPT ![r] = NoProc]
  /\ UNCHANGED <<db, ingest, task, job, stalls, worker, txpool, chain, restarts>>

\* An active job goes back to the queue, or fails once it has stalled more than
\* maxStalledCount times.
Requeue(r) ==
  /\ IF stalls[r] < MaxStalled
     THEN /\ job' = [job EXCEPT ![r] = "waiting"]
          /\ stalls' = [stalls EXCEPT ![r] = stalls[r] + 1]
     ELSE job' = [job EXCEPT ![r] = "failed"] /\ UNCHANGED stalls
  /\ UNCHANGED <<db, ingest, task, lock, worker, txpool, chain, restarts>>

\* Mutant: the stalled check does not look at the lock.
StalledCheckLockBlind(r) == job[r] = "active" /\ Requeue(r)

\* BullMQ's stalled check finds an active job whose lock is gone.
StalledCheck(r) ==
  /\ job[r] = "active"
  /\ lock[r] = NoProc
  /\ Requeue(r)

----------------------------------------------------------------------------
(* The registry contract *)

\* The next transaction in nonce order is mined: anchorHash registers the pair,
\* or reverts.
Mine ==
  /\ mined < sent
  /\ mined' = mined + 1
  /\ LET e == txEvent[mined + 1] IN
       \/ /\ ~ WouldRevert(e)
          /\ registry' = [registry EXCEPT ![HashOf[e]] = e]
          /\ txOk' = [txOk EXCEPT ![mined + 1] = TRUE]
       \/ /\ WouldRevert(e) \/ OtherReverts
          /\ UNCHANGED <<registry, txOk>>
  /\ UNCHANGED <<db, ingest, task, queue, worker, txpool, restarts>>

----------------------------------------------------------------------------
(* The server process *)

\* Everything p holds in memory is gone: requests in flight, setImmediate
\* tasks, the running job.  Redis keeps the job active and, until it expires,
\* the lock that nobody renews any more.
LoseMemory(p) ==
  /\ restarts < MaxRestarts
  /\ restarts' = restarts + 1
  /\ pc' = [r \in Requests |->
              IF host[r] = p /\ pc[r] \in InFlight THEN "lost" ELSE pc[r]]
  /\ task' = [r \in Requests |->
              IF host[r] = p /\ task[r] \in {"scheduled", "enqueue"} THEN "dead" ELSE task[r]]
  /\ wpc' = [wpc EXCEPT ![p] = "idle"]
  /\ wjob' = [wjob EXCEPT ![p] = NoEvent]
  /\ attempt' = [attempt EXCEPT ![p] = 0]
  /\ wtx' = [wtx EXCEPT ![p] = 0]
  /\ UNCHANGED <<db, host, reply, queue, txpool, chain>>

\* The process dies and is started again; bootstrap() re-reads nothing.
Crash(p) == LoseMemory(p)

\* SIGTERM: server.close waits for open requests and worker.close for the
\* running job; neither waits for the setImmediate tasks.
Shutdown(p) ==
  /\ \A r \in Requests : host[r] = p => pc[r] \notin InFlight
  /\ wpc[p] = "idle"
  /\ LoseMemory(p)

----------------------------------------------------------------------------
\* The steps of one ingest() call.
IngestStep(r) ==
  \/ \E p \in Procs : Receive(r, p)
  \/ FindEventByIdempotencyKey(r)
  \/ CreateEvent(r)
  \/ CreateEventConflict(r)
  \/ IngestFails(r)
  \/ Dispatch(r)

\* Mutant: process() adds the job first and seals the row afterwards.
EnqueueFirst(r) ==
  \/ /\ task[r] = "scheduled"
     /\ AddJob(r)
     /\ task' = [task EXCEPT ![r] = "enqueue"]
     /\ UNCHANGED <<db, ingest, worker, txpool, chain, restarts>>
  \/ /\ task[r] = "enqueue"
     /\ SealRow(r)
     /\ task' = [task EXCEPT ![r] = "done"]
     /\ UNCHANGED <<ingest, queue, worker, txpool, chain, restarts>>

\* The steps of one process() call.
ProcessStep(r) ==
  \/ UpdateEventToAnchoring(r)
  \/ AnchorQueueAdd(r)
  \/ ProcessFails(r)

\* The steps of the worker of one process.
WorkerStep(p) ==
  \/ \E r \in Requests : TakeJob(p, r)
  \/ WriteContract(p)
  \/ WriteContractRefused(p)
  \/ WriteContractUnanswered(p)
  \/ ReceiptArrives(p)
  \/ ReceiptFails(p)
  \/ UpdateEventToAnchored(p)
  \/ UpdateEventToAnchoredFails(p)
  \/ UpdateEventToAnchorFailed(p)
  \/ FinishJob(p)

Next ==
  \/ \E r \in Requests :
       IngestStep(r) \/ ProcessStep(r) \/ LockExpires(r) \/ StalledCheck(r)
  \/ \E p \in Procs : WorkerStep(p) \/ Crash(p) \/ Shutdown(p)
  \/ Mine

Spec == Init /\ [][Next]_vars

\* What the platform guarantees: Node keeps running a request, a task and the
\* worker it has started, Redis drops a key whose time to live has passed,
\* BullMQ repeats its stalled check, and a transaction at the head of the nonce
\* order is eventually mined.  No caller has to call, nothing has to crash and
\* no worker has to be late with a renewal.
Fairness ==
  /\ \A r \in Requests :
       /\ WF_vars(\/ FindEventByIdempotencyKey(r) \/ CreateEvent(r)
                  \/ CreateEventConflict(r) \/ Dispatch(r))
       /\ WF_vars(ProcessStep(r))
       /\ WF_vars(Unrenewed(r) /\ LockExpires(r))
       /\ WF_vars(StalledCheck(r))
  /\ \A p \in Procs : WF_vars(WorkerStep(p))
  /\ WF_vars(Mine)

FairSpec == Spec /\ Fairness
----------------------------------------------------------------------------
(* The inductive invariant behind the safety properties *)

Prepared == {"anchoring"} \cup Settled

\* How far a row is follows from how far its request, task and job are; a row
\* that a worker may see holds ciphertext and its hash.
RowsFollowTasks ==
  \A r \in Requests :
    /\ pc[r] \in {"new", "lookup", "insert"} => status[r] = "none"
    /\ pc[r] # "accepted" => task[r] = "none"
    /\ pc[r] \in {"created", "accepted"} => status[r] # "none"
    /\ task[r] \in {"none", "scheduled"} => status[r] \in {"none", "processing"}
    /\ task[r] = "scheduled" => status[r] = "processing"
    /\ task[r] = "enqueue" => status[r] \in Prepared
    /\ job[r] # "none" => status[r] \in Prepared
    /\ status[r] \in Prepared => text[r] = "cipher" /\ canonicalHash[r] = HashOf[r]

\* A worker only ever holds an event whose row is sealed and, from the moment
\* writeContract answers, a transaction of that event.
WorkersHoldOwnTx ==
  \A p \in Procs :
    /\ wpc[p] # "idle" => wjob[p] \in Requests /\ status[wjob[p]] \in Prepared
    /\ wpc[p] \in {"confirm", "record"} =>
         wtx[p] \in 1..sent /\ txEvent[wtx[p]] = wjob[p]
    /\ wpc[p] = "record" => wtx[p] <= mined

\* Every transaction was sent for a sealed row.
TxsFollowRows ==
  /\ mined <= sent
  /\ \A t \in 1..sent : txEvent[t] \in Requests /\ status[txEvent[t]] \in Prepared

\* The registry holds each event under its own hash only, so a mined
\* transaction, reverted or not, leaves its hash registered.
RegistryFollowsTxs ==
  /\ \A h \in Hashes : registry[h] # NoEvent => HashOf[registry[h]] = h
  /\ ~ OtherReverts => \A t \in 1..mined : registry[HashOf[txEvent[t]]] # NoEvent

\* A recorded transaction is the event's own and mined; an anchored row has one.
RowsFollowChain ==
  \A r \in Requests :
    /\ txHash[r] # 0 => txHash[r] <= mined /\ txEvent[txHash[r]] = r
    /\ status[r] = "anchored" => txHash[r] # 0

\* The unique index keeps one row per slot, and an answered event is a stored
\* row: the caller's own, or one in the caller's slot.
KeyInv ==
  /\ \A e, f \in Requests :
       (/\ status[e] # "none" /\ status[f] # "none"
        /\ SlotOf[e] # NoKey /\ SlotOf[e] = SlotOf[f]) => e = f
  /\ \A r \in Requests :
       reply[r] # NoEvent =>
         /\ status[reply[r]] # "none"
         /\ reply[r] = r \/ (SlotOf[r] # NoKey /\ SlotOf[reply[r]] = SlotOf[r])

\* A run that is about to complete its job has stored a transaction hash.
CompletedInv ==
  /\ \A p \in Procs : wpc[p] = "ack" => txHash[wjob[p]] # 0
  /\ \A r \in Requests : job[r] = "completed" => txHash[r] # 0

TxsOf(r) == {t \in 1..sent : txEvent[t] = r}

\* The broadcasts that the running workers may still make for r, each named by
\* its worker and the number of its attempt.
AttemptsLeft(r) ==
  {a \in Procs \X (0..(MaxAttempts - 1)) :
     wpc[a[1]] = "submit" /\ wjob[a[1]] = r /\ attempt[a[1]] <= a[2]}

\* The runs of r's job that are still to begin: the one that waits or will be
\* enqueued, and one for each stall it may yet survive.
RunsToCome(r) == (IF job[r] \in {"none", "waiting"} THEN 1 ELSE 0) + (MaxStalled - stalls[r])

\* A job is added once, by a task that has then ended.
JobsAddedOnce ==
  /\ \A r \in Requests : task[r] \in {"none", "scheduled", "enqueue"} => job[r] = "none"
  /\ \A p \in Procs : wpc[p] # "idle" => job[wjob[p]] # "none"

\* The transactions sent for an event, those its workers may still send and
\* those of runs to come stay within the budget.
BudgetInv ==
  \A r \in Requests :
    Cardinality(TxsOf(r)) + Cardinality(AttemptsLeft(r)) + MaxAttempts * RunsToCome(r)
      <= MaxAttempts * (1 + MaxStalled)

\* Nothing fails, no lock expires and no process has stopped.
Undisturbed == ~ InfraMayFail /\ ~ RpcMayFail /\ ~ LockMayExpire /\ restarts = 0

IsDuplicate(r) == registry[HashOf[r]] \notin {NoEvent, r}

\* Whoever is in the registry was sent there by a mined transaction.
RegisteredWasMined ==
  \A h \in Hashes : registry[h] # NoEvent => \E t \in 1..mined : txEvent[t] = registry[h]

\* What holds of an undisturbed pipeline: a job is run once, by the worker that
\* holds its lock, and a worker meets a revert only before the first
\* transaction of its event.
RunOnce ==
  /\ \A r \in Requests :
       /\ job[r] \in {"none", "waiting"} => TxsOf(r) = {}
       /\ job[r] = "active" => lock[r] # NoProc
       /\ status[r] = "anchor_failed" => IsDuplicate(r)
  /\ \A p \in Procs :
       /\ wpc[p] # "idle" => job[wjob[p]] = "active" /\ lock[wjob[p]] = p
       /\ wpc[p] = "submit" => TxsOf(wjob[p]) = {}
       /\ wpc[p] = "fail" => IsDuplicate(wjob[p])

\* Some process is running r's job and has not yet given it back to BullMQ.
AtWork(r) == \E p \in Procs : wjob[p] = r /\ wpc[p] # "idle"

\* Something that the platform keeps going will take r further: its task, the
\* queue, the lock's time to live, the stalled check, or a worker.
InHand(r) ==
  \/ task[r] \in {"scheduled", "enqueue"}
  \/ job[r] = "waiting"
  \/ job[r] = "active" /\ (lock[r] = NoProc \/ Unrenewed(r))
  \/ AtWork(r)

\* The task of r ended before the add because its process was lost or a call of
\* it failed; or r's job failed for good because the UPDATE that records the
\* failure failed too, or because lost processes used up maxStalledCount.
Stranded(r) ==
  \/ task[r] = "dead" /\ job[r] = "none" /\ (restarts # 0 \/ InfraMayFail)
  \/ job[r] = "failed" /\ (InfraMayFail \/ (restarts # 0 /\ stalls[r] = MaxStalled))

\* A lock belongs to an active job; its holder is running that very job, or was
\* lost in a crash.
LocksAreHeld ==
  \A r \in Requests :
    lock[r] # NoProc =>
      /\ job[r] = "active"
      /\ IF Unrenewed(r) THEN restarts # 0 ELSE wpc[lock[r]] # "idle"

\* While locks are renewed in time, whoever runs a job holds its lock.
RunnersHoldLocks ==
  ~ LockMayExpire =>
    \A p \in Procs : wpc[p] # "idle" => job[wjob[p]] = "active" /\ lock[wjob[p]] = p

\* Where an event goes: a run and a job end only after the row is settled, unless
\* the job stalled too often or the failure could not be recorded.
HandoverInv ==
  /\ \A p \in Procs :
       /\ wpc[p] = "ack" => status[wjob[p]] \in Settled
       /\ wpc[p] = "nack" => status[wjob[p]] \in Settled \/ InfraMayFail
  /\ \A r \in Requests :
       /\ job[r] = "completed" => status[r] \in Settled
       /\ job[r] = "failed" => status[r] \in Settled \/ InfraMayFail \/ stalls[r] = MaxStalled
       /\ job[r] = "active" /\ lock[r] = NoProc =>
            status[r] \in Settled \/ InfraMayFail \/ restarts # 0 \/ AtWork(r)
       /\ pc[r] = "accepted" => status[r] \in Settled \/ InHand(r) \/ Stranded(r)

\* The conjunction that every step preserves: rows, tasks, jobs, workers,
\* transactions and registry are never ahead of what they rest on.
PipelineInv ==
  /\ TypeOK
  /\ RowsFollowTasks
  /\ WorkersHoldOwnTx
  /\ TxsFollowRows
  /\ RegistryFollowsTxs
  /\ RowsFollowChain

----------------------------------------------------------------------------
(* Safety *)

\* Two calls with the same (org, idempotency key) that are both answered with
\* an event are answered with the same one, however their lookups and inserts
\* interleave and whichever process dies in between (ingest, and the partial
\* unique index it leans on).
SameKeySameEvent ==
  \A r, q \in Requests :
    (/\ SlotOf[r] # NoKey /\ SlotOf[r] = SlotOf[q]
     /\ reply[r] # NoEvent /\ reply[q] # NoEvent) => reply[r] = reply[q]

\* A row whose status is "anchored" has its canonical hash in the registry.
\* anchorEvent never reads the receipt's status, so this rests on the contract:
\* a reverted transaction is one whose hash somebody has already registered.
AnchoredIsOnChain ==
  ~ OtherReverts =>
    \A r \in Requests : status[r] = "anchored" => registry[HashOf[r]] # NoEvent

\* The tx_hash stored in a row is a transaction sent for that very event and
\* already mined, whichever of several runs of its job wrote it
\* (updateEventToAnchored after waitForTransactionReceipt).
RecordedTxIsOwnAndMined ==
  \A r \in Requests :
    txHash[r] # 0 => txHash[r] <= mined /\ txEvent[txHash[r]] = r

\* A job BullMQ reports as completed has left a transaction hash in its row,
\* and no later failing run of the same job erases it (anchorEvent rethrows
\* after recording a failure; updateEventToAnchorFailed keeps tx_hash).
CompletedMeansRecorded ==
  \A r \in Requests : job[r] = "completed" => txHash[r] # 0

\* The signer never pays for more than MaxAttempts broadcasts per run of a job
\* and 1 + maxStalledCount runs (withExponentialBackoff, attempts: 1).
TxBudget ==
  \A r \in Requests : Cardinality(TxsOf(r)) <= MaxAttempts * (1 + MaxStalled)

\* While no call fails, no lock expires and no process stops, an event is
\* marked failed only when its content was already anchored for another event
\* (anchorHash refuses a hash twice and the canonical form has no event_id).
FailedOnlyAsDuplicate ==
  Undisturbed => \A r \in Requests : status[r] = "anchor_failed" => IsDuplicate(r)

\* The safety half of the liveness below: an event answered with 202 is settled,
\* or in the hands of a task, the queue, the stalled check or a worker, however
\* locks expire, calls fail with or without effect and processes die.  What
\* strands it is a fault between the 202 and the queue (the .catch of the
\* setImmediate callback only logs), a failure that cannot be recorded, or lost
\* processes beyond maxStalledCount; in particular an add whose answer is lost
\* strands nothing, and a completed job leaves nothing open.
StrandedOnlyByFault ==
  \A r \in Requests :
    pc[r] = "accepted" => status[r] \in Settled \/ InHand(r) \/ Stranded(r)

\* While every live worker renews its lock in time, no two processes are inside
\* anchorEvent for the same event, also when one of them died with the job and
\* its lock still stood in Redis: the job is given out again only after that
\* lock has expired (anchor.queue.ts relies on it, anchorEvent itself does not
\* look whether its event is being anchored already).
RunsDoNotOverlap ==
  ~ LockMayExpire =>
    \A p, q \in Procs :
      wpc[p] # "idle" /\ wpc[q] # "idle" /\ wjob[p] = wjob[q] => p = q

\* Once the worker has settled a row, no late step of process() puts it back
\* to "anchoring": the UPDATE commits before the job is visible.
SettledNeverReopened ==
  [][\A r \in Requests : status[r] \in Settled => status'[r] \in Settled]_vars

\* The registry as the abstract ledger sees it.
Ledger == INSTANCE AnchorLedger
            WITH Events <- Requests, ledger <- {h \in Hashes : registry[h] # NoEvent}

\* The pipeline implements AnchorLedger: whatever is retried, replayed after a
\* stall or lost in a crash, a row moves only along the promised lifecycle, no
\* hash reaches the registry before its row is sealed, and "anchored" is never
\* written for a hash that is not on chain.
ImplementsLedger == Ledger!LSpec

----------------------------------------------------------------------------
(* Liveness *)

\* Every job in the queue ends as completed or failed, crashes included: no run
\* waits for ever and a job without a live worker is found by the stalled check.
JobsSettle ==
  \A r \in Requests : job[r] = "waiting" ~> job[r] \in {"completed", "failed"}

\* Every event answered with 202 reaches "anchored" or "anchor_failed".
AcceptedEventsSettle ==
  \A r \in Requests : pc[r] = "accepted" ~> status[r] \in Settled

----------------------------------------------------------------------------
(* A statement of the repository's README that the code does not keep *)

\* README.md: the recorded tx_hash lets anyone verify the event, so the
\* transaction it names must have registered the hash.
AnchoredTxSucceeded ==
  \A r \in Requests : status[r] = "anchored" => txOk[txHash[r]]
=============================================================================
