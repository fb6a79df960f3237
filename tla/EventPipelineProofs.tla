------------------------ MODULE EventPipelineProofs ------------------------
(***************************************************************************)
(* Proofs about EventPipeline for every set of requests and processes,     *)
(* every hash and key assignment and every value of the bounds.            *)
(***************************************************************************)
EXTENDS EventPipeline, FiniteSetTheorems, TLAPS

USE DEF db, ingest, queue, worker, txpool, chain, vars

LEMMA TypeOKInit == Init => TypeOK
BY ConstantsAssumption
DEF Init, TypeOK, TypeDb, TypeIngest, TypeQueue, TypeWorker, TypeChain

\* The state TypeOK describes is kept by every step of ingest(), of process(),
\* of the worker, of BullMQ, of the chain and of the process life cycle.
LEMMA TypeOKStep == TypeOK /\ [Next]_vars => TypeOK'
<1> SUFFICES ASSUME TypeOK, [Next]_vars PROVE TypeOK'
  OBVIOUS
<1> USE ConstantsAssumption DEF TypeOK
<1>1. ASSUME NEW r \in Requests, \E p \in Procs : Receive(r, p) PROVE TypeOK'
  <2>1. TypeIngest'
    BY <1>1 DEF Receive, TypeIngest, InFlight
  <2> QED
    BY <1>1, <2>1 DEF Receive, TypeDb, TypeQueue, TypeWorker, TypeChain
<1>2. ASSUME NEW r \in Requests, FindEventByIdempotencyKey(r) PROVE TypeOK'
  <2>1. TypeIngest'
    BY <1>2 DEF FindEventByIdempotencyKey, RowsInSlot, TypeIngest, InFlight
  <2> QED
    BY <1>2, <2>1
    DEF FindEventByIdempotencyKey, RowsInSlot, TypeDb, TypeQueue, TypeWorker, TypeChain
<1>3. ASSUME NEW r \in Requests, CreateEvent(r) PROVE TypeOK'
  <2>1. TypeDb'
    BY <1>3 DEF CreateEvent, InsertRow, TypeDb, Statuses
  <2>2. TypeIngest'
    BY <1>3 DEF CreateEvent, InsertRow, TypeIngest, InFlight
  <2> QED
    BY <1>3, <2>1, <2>2 DEF CreateEvent, InsertRow, TypeQueue, TypeWorker, TypeChain
<1>4. ASSUME NEW r \in Requests, CreateEventConflict(r) PROVE TypeOK'
  <2>1. TypeIngest'
    BY <1>4 DEF CreateEventConflict, TypeIngest
  <2> QED
    BY <1>4, <2>1 DEF CreateEventConflict, TypeDb, TypeQueue, TypeWorker, TypeChain
<1>5. ASSUME NEW r \in Requests, IngestFails(r) PROVE TypeOK'
  <2>1. TypeDb'
    BY <1>5 DEF IngestFails, InsertRow, TypeDb, Statuses
  <2>2. TypeIngest'
    BY <1>5 DEF IngestFails, InsertRow, TypeIngest
  <2> QED
    BY <1>5, <2>1, <2>2 DEF IngestFails, InsertRow, TypeQueue, TypeWorker, TypeChain
<1>6. ASSUME NEW r \in Requests, Dispatch(r) PROVE TypeOK'
  <2>1. TypeIngest'
    BY <1>6 DEF Dispatch, TypeIngest
  <2> QED
    BY <1>6, <2>1 DEF Dispatch, TypeDb, TypeQueue, TypeWorker, TypeChain
<1>7. ASSUME NEW r \in Requests, UpdateEventToAnchoring(r) PROVE TypeOK'
  <2>1. TypeDb'
    BY <1>7 DEF UpdateEventToAnchoring, SealRow, TypeDb, Statuses
  <2>2. TypeIngest'
    BY <1>7 DEF UpdateEventToAnchoring, SealRow, TypeIngest
  <2> QED
    BY <1>7, <2>1, <2>2
    DEF UpdateEventToAnchoring, SealRow, TypeQueue, TypeWorker, TypeChain
<1>8. ASSUME NEW r \in Requests, AnchorQueueAdd(r) PROVE TypeOK'
  <2>1. TypeIngest'
    BY <1>8 DEF AnchorQueueAdd, AddJob, TypeIngest
  <2>2. TypeQueue'
    BY <1>8 DEF AnchorQueueAdd, AddJob, TypeQueue
  <2> QED
    BY <1>8, <2>1, <2>2 DEF AnchorQueueAdd, AddJob, TypeDb, TypeWorker, TypeChain
<1>9. ASSUME NEW r \in Requests, ProcessFails(r) PROVE TypeOK'
  <2>1. TypeDb'
    BY <1>9 DEF ProcessFails, SealRow, AddJob, TypeDb, Statuses
  <2>2. TypeIngest'
    BY <1>9 DEF ProcessFails, SealRow, AddJob, TypeIngest
  <2>3. TypeQueue'
    BY <1>9 DEF ProcessFails, SealRow, AddJob, TypeQueue
  <2> QED
    BY <1>9, <2>1, <2>2, <2>3 DEF ProcessFails, SealRow, AddJob, TypeWorker, TypeChain
<1>10. ASSUME NEW r \in Requests, LockExpires(r) \/ StalledCheck(r) PROVE TypeOK'
  <2>1. TypeQueue'
    BY <1>10 DEF LockExpires, StalledCheck, Requeue, TypeQueue
  <2> QED
    BY <1>10, <2>1 DEF LockExpires, StalledCheck, Requeue, TypeDb, TypeIngest, TypeWorker, TypeChain
<1>11. ASSUME NEW p \in Procs, \E r \in Requests : TakeJob(p, r) PROVE TypeOK'
  <2>1. TypeQueue'
    BY <1>11 DEF TakeJob, TypeQueue
  <2>2. TypeWorker'
    BY <1>11 DEF TakeJob, TypeWorker
  <2> QED
    BY <1>11, <2>1, <2>2 DEF TakeJob, TypeDb, TypeIngest, TypeChain
<1>12. ASSUME NEW p \in Procs, WriteContract(p) PROVE TypeOK'
  <2>1. TypeWorker'
    BY <1>12 DEF WriteContract, Broadcast, TypeWorker, TypeChain
  <2>2. TypeChain'
    BY <1>12 DEF WriteContract, Broadcast, TypeChain, Txs, TypeWorker
  <2> QED
    BY <1>12, <2>1, <2>2 DEF WriteContract, Broadcast, TypeDb, TypeIngest, TypeQueue
<1>13. ASSUME NEW p \in Procs, WriteContractRefused(p) PROVE TypeOK'
  <2>1. TypeWorker'
    BY <1>13 DEF WriteContractRefused, TypeWorker
  <2> QED
    BY <1>13, <2>1 DEF WriteContractRefused, TypeDb, TypeIngest, TypeQueue, TypeChain
<1>14. ASSUME NEW p \in Procs, WriteContractUnanswered(p) PROVE TypeOK'
  <2>1. TypeWorker'
    BY <1>14 DEF WriteContractUnanswered, Broadcast, RetryOrFail, TypeWorker
  <2>2. TypeChain'
    <3>1. CASE UNCHANGED txpool
      BY <1>14, <3>1 DEF WriteContractUnanswered, TypeChain
    <3>2. CASE Broadcast(wjob[p])
      BY <1>14, <3>2 DEF WriteContractUnanswered, Broadcast, TypeChain, Txs, TypeWorker
    <3> QED
      BY <1>14, <3>1, <3>2 DEF WriteContractUnanswered
  <2> QED
    BY <1>14, <2>1, <2>2
    DEF WriteContractUnanswered, Broadcast, RetryOrFail, TypeDb, TypeIngest, TypeQueue
<1>15. ASSUME NEW p \in Procs, ReceiptArrives(p) PROVE TypeOK'
  <2>1. TypeWorker'
    BY <1>15 DEF ReceiptArrives, TypeWorker
  <2> QED
    BY <1>15, <2>1 DEF ReceiptArrives, TypeDb, TypeIngest, TypeQueue, TypeChain
<1>16. ASSUME NEW p \in Procs, ReceiptFails(p) PROVE TypeOK'
  <2>1. TypeWorker'
    BY <1>16 DEF ReceiptFails, RetryOrFail, TypeWorker
  <2> QED
    BY <1>16, <2>1
    DEF ReceiptFails, RetryOrFail, TypeDb, TypeIngest, TypeQueue, TypeChain
<1>17. ASSUME NEW p \in Procs, UpdateEventToAnchored(p) PROVE TypeOK'
  <2>1. TypeDb'
    BY <1>17 DEF UpdateEventToAnchored, RowAnchored, TypeDb, Statuses, TypeWorker
  <2>2. TypeWorker'
    BY <1>17 DEF UpdateEventToAnchored, RowAnchored, TypeWorker
  <2> QED
    BY <1>17, <2>1, <2>2
    DEF UpdateEventToAnchored, RowAnchored, TypeIngest, TypeQueue, TypeChain
<1>18. ASSUME NEW p \in Procs, UpdateEventToAnchoredFails(p) PROVE TypeOK'
  <2>1. TypeDb'
    BY <1>18 DEF UpdateEventToAnchoredFails, RowAnchored, TypeDb, Statuses, TypeWorker
  <2>2. TypeWorker'
    BY <1>18 DEF UpdateEventToAnchoredFails, RowAnchored, TypeWorker
  <2> QED
    BY <1>18, <2>1, <2>2
    DEF UpdateEventToAnchoredFails, RowAnchored, TypeIngest, TypeQueue, TypeChain
<1>19. ASSUME NEW p \in Procs, UpdateEventToAnchorFailed(p) PROVE TypeOK'
  <2>1. TypeDb'
    BY <1>19 DEF UpdateEventToAnchorFailed, RowFailed, TypeDb, Statuses
  <2>2. TypeWorker'
    BY <1>19 DEF UpdateEventToAnchorFailed, RowFailed, TypeWorker
  <2> QED
    BY <1>19, <2>1, <2>2
    DEF UpdateEventToAnchorFailed, RowFailed, TypeIngest, TypeQueue, TypeChain
<1>20. ASSUME NEW p \in Procs, FinishJob(p) PROVE TypeOK'
  <2>1. TypeQueue'
    BY <1>20 DEF FinishJob, TypeQueue
  <2>2. TypeWorker'
    BY <1>20 DEF FinishJob, TypeWorker
  <2> QED
    BY <1>20, <2>1, <2>2 DEF FinishJob, TypeDb, TypeIngest, TypeChain
<1>21. ASSUME NEW p \in Procs, Crash(p) \/ Shutdown(p) PROVE TypeOK'
  <2>1. TypeIngest'
    BY <1>21 DEF Crash, Shutdown, LoseMemory, TypeIngest
  <2>2. TypeQueue'
    BY <1>21 DEF Crash, Shutdown, LoseMemory, TypeQueue
  <2>3. TypeWorker'
    BY <1>21 DEF Crash, Shutdown, LoseMemory, TypeWorker
  <2> QED
    BY <1>21, <2>1, <2>2, <2>3 DEF Crash, Shutdown, LoseMemory, TypeDb, TypeChain
<1>22. CASE Mine
  <2>1. mined + 1 \in Txs /\ txEvent[mined + 1] \in Requests \cup {NoEvent}
    BY <1>22 DEF Mine, TypeChain, Txs
  <2>2. registry' \in [Hashes -> Requests \cup {NoEvent}]
    BY <1>22, <2>1 DEF Mine, TypeChain
  <2>3. txOk' \in [Txs -> BOOLEAN]
    BY <1>22, <2>1 DEF Mine, TypeChain
  <2>4. TypeChain'
    BY <1>22, <2>1, <2>2, <2>3 DEF Mine, TypeChain
  <2> QED
    BY <1>22, <2>4 DEF Mine, TypeDb, TypeIngest, TypeQueue, TypeWorker
<1>23. CASE UNCHANGED vars
  BY <1>23 DEF TypeDb, TypeIngest, TypeQueue, TypeWorker, TypeChain
<1> QED
  BY <1>1, <1>2, <1>3, <1>4, <1>5, <1>6, <1>7, <1>8, <1>9, <1>10, <1>11, <1>12, <1>13,
     <1>14, <1>15, <1>16, <1>17, <1>18, <1>19, <1>20, <1>21, <1>22, <1>23
  DEF Next, IngestStep, ProcessStep, WorkerStep

\* Every reachable state is well typed: attempts, stalls, transactions and
\* restarts stay within their bounds in every execution.
THEOREM TypeCorrect == Spec => []TypeOK
<1>1. Init => TypeOK
  BY TypeOKInit
<1>2. TypeOK /\ [Next]_vars => TypeOK'
  BY TypeOKStep
<1> QED
  BY <1>1, <1>2, PTL DEF Spec

LEMMA PipelineInvInit == Init => PipelineInv
BY TypeOKInit, ConstantsAssumption
DEF Init, PipelineInv, RowsFollowTasks, WorkersHoldOwnTx, TxsFollowRows,
    RegistryFollowsTxs, RowsFollowChain, Settled, Prepared

\* Every step keeps rows, tasks, jobs, workers, transactions and registry in
\* the order in which process() and anchorEvent() build them.
LEMMA PipelineInvStep == PipelineInv /\ [Next]_vars => PipelineInv'
<1> SUFFICES ASSUME PipelineInv, [Next]_vars PROVE PipelineInv'
  OBVIOUS
<1>0. TypeOK /\ TypeOK'
  BY TypeOKStep DEF PipelineInv
<1> USE ConstantsAssumption, <1>0 DEF PipelineInv, TypeOK
<1>1. ASSUME NEW r \in Requests, \E p \in Procs : Receive(r, p) PROVE PipelineInv'
  <2>1. RowsFollowTasks'
    BY <1>1 DEF Receive, RowsFollowTasks
  <2> QED
    BY <1>1, <2>1
    DEF Receive, WorkersHoldOwnTx, TxsFollowRows, RegistryFollowsTxs, RowsFollowChain
<1>2. ASSUME NEW r \in Requests, FindEventByIdempotencyKey(r) PROVE PipelineInv'
  <2>1. RowsFollowTasks'
    BY <1>2 DEF FindEventByIdempotencyKey, RowsInSlot, RowsFollowTasks, TypeIngest
  <2> QED
    BY <1>2, <2>1
    DEF FindEventByIdempotencyKey, RowsInSlot, WorkersHoldOwnTx, TxsFollowRows,
        RegistryFollowsTxs, RowsFollowChain
<1>3. ASSUME NEW r \in Requests, CreateEvent(r) PROVE PipelineInv'
  <2>1. RowsFollowTasks'
    BY <1>3
    DEF CreateEvent, InsertRow, RowsFollowTasks, TypeDb, TypeIngest, Settled, Prepared
  <2>2. WorkersHoldOwnTx'
    BY <1>3
    DEF CreateEvent, InsertRow, WorkersHoldOwnTx, RowsFollowTasks, Settled, Prepared
  <2>3. TxsFollowRows'
    BY <1>3
    DEF CreateEvent, InsertRow, TxsFollowRows, RowsFollowTasks, Settled, Prepared
  <2>4. RowsFollowChain'
    BY <1>3 DEF CreateEvent, InsertRow, RowsFollowChain
  <2> QED
    BY <1>3, <2>1, <2>2, <2>3, <2>4 DEF CreateEvent, InsertRow, RegistryFollowsTxs
<1>4. ASSUME NEW r \in Requests, CreateEventConflict(r) PROVE PipelineInv'
  <2>1. RowsFollowTasks'
    BY <1>4 DEF CreateEventConflict, RowsFollowTasks
  <2> QED
    BY <1>4, <2>1
    DEF CreateEventConflict, WorkersHoldOwnTx, TxsFollowRows, RegistryFollowsTxs,
        RowsFollowChain
<1>5. ASSUME NEW r \in Requests, IngestFails(r) PROVE PipelineInv'
  <2>1. RowsFollowTasks'
    BY <1>5
    DEF IngestFails, InsertRow, RowsFollowTasks, TypeDb, TypeIngest, Settled, InFlight,
        Prepared
  <2>2. WorkersHoldOwnTx'
    BY <1>5
    DEF IngestFails, InsertRow, WorkersHoldOwnTx, TypeDb, RowsFollowTasks, Settled, Txs,
        Prepared
  <2>3. TxsFollowRows'
    BY <1>5
    DEF IngestFails, InsertRow, TxsFollowRows, TypeDb, RowsFollowTasks, Settled,
        Prepared
  <2>4. RowsFollowChain'
    BY <1>5 DEF IngestFails, InsertRow, RowsFollowChain, TypeDb
  <2> QED
    BY <1>5, <2>1, <2>2, <2>3, <2>4 DEF IngestFails, InsertRow, RegistryFollowsTxs
<1>6. ASSUME NEW r \in Requests, Dispatch(r) PROVE PipelineInv'
  <2>1. RowsFollowTasks'
    BY <1>6 DEF Dispatch, RowsFollowTasks, TypeIngest
  <2> QED
    BY <1>6, <2>1
    DEF Dispatch, WorkersHoldOwnTx, TxsFollowRows, RegistryFollowsTxs, RowsFollowChain
<1>7. ASSUME NEW r \in Requests, UpdateEventToAnchoring(r) PROVE PipelineInv'
  <2>1. RowsFollowTasks'
    BY <1>7
    DEF UpdateEventToAnchoring, SealRow, RowsFollowTasks, TypeDb, TypeIngest, Prepared
  <2>2. WorkersHoldOwnTx'
    BY <1>7 DEF UpdateEventToAnchoring, SealRow, WorkersHoldOwnTx, Prepared
  <2>3. TxsFollowRows'
    BY <1>7 DEF UpdateEventToAnchoring, SealRow, TxsFollowRows, Prepared
  <2>4. RowsFollowChain'
    BY <1>7 DEF UpdateEventToAnchoring, SealRow, RowsFollowChain
  <2> QED
    BY <1>7, <2>1, <2>2, <2>3, <2>4
    DEF UpdateEventToAnchoring, SealRow, RegistryFollowsTxs
<1>8. ASSUME NEW r \in Requests, AnchorQueueAdd(r) PROVE PipelineInv'
  <2>1. RowsFollowTasks'
    BY <1>8 DEF AnchorQueueAdd, AddJob, RowsFollowTasks
  <2> QED
    BY <1>8, <2>1
    DEF AnchorQueueAdd, AddJob, WorkersHoldOwnTx, TxsFollowRows, RegistryFollowsTxs,
        RowsFollowChain
<1>9. ASSUME NEW r \in Requests, ProcessFails(r) PROVE PipelineInv'
  <2>1. RowsFollowTasks'
    BY <1>9
    DEF ProcessFails, SealRow, AddJob, RowsFollowTasks, TypeDb, TypeIngest, TypeQueue,
        Prepared
  <2>2. WorkersHoldOwnTx'
    BY <1>9 DEF ProcessFails, SealRow, AddJob, WorkersHoldOwnTx, TypeDb, Prepared
  <2>3. TxsFollowRows'
    <3>1. \A e \in Requests : status[e] \in Prepared => status'[e] \in Prepared
      BY <1>9 DEF ProcessFails, SealRow, TypeDb, Prepared
    <3> QED
      BY <1>9, <3>1 DEF ProcessFails, TxsFollowRows
  <2>4. RowsFollowChain'
    BY <1>9 DEF ProcessFails, SealRow, AddJob, RowsFollowChain, TypeDb
  <2> QED
    BY <1>9, <2>1, <2>2, <2>3, <2>4
    DEF ProcessFails, SealRow, AddJob, RegistryFollowsTxs
<1>10. ASSUME NEW r \in Requests, LockExpires(r) \/ StalledCheck(r) PROVE PipelineInv'
  <2>1. RowsFollowTasks'
    BY <1>10 DEF LockExpires, StalledCheck, Requeue, RowsFollowTasks, TypeQueue, InFlight
  <2> QED
    BY <1>10, <2>1
    DEF LockExpires, StalledCheck, Requeue, WorkersHoldOwnTx, TxsFollowRows, RegistryFollowsTxs,
        RowsFollowChain
<1>11. ASSUME NEW p \in Procs, \E r \in Requests : TakeJob(p, r) PROVE PipelineInv'
  <2>1. RowsFollowTasks'
    BY <1>11 DEF TakeJob, RowsFollowTasks, WorkersHoldOwnTx
  <2>2. WorkersHoldOwnTx'
    BY <1>11 DEF TakeJob, WorkersHoldOwnTx, TypeWorker, RowsFollowTasks
  <2> QED
    BY <1>11, <2>1, <2>2 DEF TakeJob, TxsFollowRows, RegistryFollowsTxs, RowsFollowChain
<1>12. ASSUME NEW p \in Procs, WriteContract(p) PROVE PipelineInv'
  <2>1. WorkersHoldOwnTx'
    BY <1>12
    DEF WriteContract, Broadcast, WorkersHoldOwnTx, TypeDb, TypeWorker, TypeChain,
        Settled, Txs
  <2>2. TxsFollowRows'
    BY <1>12
    DEF WriteContract, Broadcast, TxsFollowRows, TypeDb, TypeChain, WorkersHoldOwnTx
  <2>3. RegistryFollowsTxs'
    <3>1. \A t \in 1..mined : txEvent'[t] = txEvent[t]
      BY <1>12 DEF WriteContract, Broadcast, TxsFollowRows, TypeChain
    <3> QED
      BY <1>12, <3>1 DEF WriteContract, RegistryFollowsTxs
  <2>4. RowsFollowChain'
    BY <1>12
    DEF WriteContract, Broadcast, RowsFollowChain, TypeChain, WorkersHoldOwnTx,
        TxsFollowRows
  <2> QED
    BY <1>12, <2>1, <2>2, <2>3, <2>4 DEF WriteContract, Broadcast, RowsFollowTasks
<1>13. ASSUME NEW p \in Procs, WriteContractRefused(p) PROVE PipelineInv'
  <2>1. WorkersHoldOwnTx'
    BY <1>13 DEF WriteContractRefused, WorkersHoldOwnTx, TypeDb
  <2> QED
    BY <1>13, <2>1
    DEF WriteContractRefused, RowsFollowTasks, TxsFollowRows, RegistryFollowsTxs,
        RowsFollowChain
<1>14. ASSUME NEW p \in Procs, WriteContractUnanswered(p) PROVE PipelineInv'
  <2>1. WorkersHoldOwnTx'
    BY <1>14
    DEF WriteContractUnanswered, Broadcast, RetryOrFail, WorkersHoldOwnTx, TypeWorker,
        TypeChain, TxsFollowRows, Txs
  <2>2. TxsFollowRows'
    <3>1. CASE UNCHANGED txpool
      BY <1>14, <3>1 DEF WriteContractUnanswered, TxsFollowRows
    <3>2. CASE Broadcast(wjob[p])
      <4>1. wjob[p] \in Requests /\ status[wjob[p]] \in Prepared
        BY <1>14 DEF WriteContractUnanswered, WorkersHoldOwnTx
      <4>2. /\ \A t \in 1..sent : txEvent'[t] = txEvent[t]
            /\ txEvent'[sent + 1] = wjob[p]
            /\ sent' = sent + 1
        BY <3>2 DEF Broadcast, TypeChain
      <4>3. \A t \in 1..sent' : t \in 1..sent \/ t = sent + 1
        BY <4>2 DEF TypeChain
      <4>4. mined' <= sent'
        BY <1>14, <4>2 DEF WriteContractUnanswered, TxsFollowRows, TypeChain
      <4> QED
        BY <1>14, <4>1, <4>2, <4>3, <4>4 DEF WriteContractUnanswered, TxsFollowRows
    <3> QED
      BY <1>14, <3>1, <3>2 DEF WriteContractUnanswered
  <2>3. RegistryFollowsTxs'
    <3>1. \A t \in 1..mined : txEvent'[t] = txEvent[t]
      <4>1. CASE UNCHANGED txpool
        BY <4>1
      <4>2. CASE Broadcast(wjob[p])
        BY <4>2 DEF Broadcast, TxsFollowRows, TypeChain
      <4> QED
        BY <1>14, <4>1, <4>2 DEF WriteContractUnanswered
    <3> QED
      BY <1>14, <3>1 DEF WriteContractUnanswered, RegistryFollowsTxs
  <2>4. RowsFollowChain'
    BY <1>14
    DEF WriteContractUnanswered, Broadcast, RetryOrFail, RowsFollowChain, TypeDb,
        TypeChain, WorkersHoldOwnTx, TxsFollowRows, Txs
  <2> QED
    BY <1>14, <2>1, <2>2, <2>3, <2>4
    DEF WriteContractUnanswered, Broadcast, RetryOrFail, RowsFollowTasks
<1>15. ASSUME NEW p \in Procs, ReceiptArrives(p) PROVE PipelineInv'
  <2>1. WorkersHoldOwnTx'
    BY <1>15 DEF ReceiptArrives, WorkersHoldOwnTx
  <2> QED
    BY <1>15, <2>1
    DEF ReceiptArrives, RowsFollowTasks, TxsFollowRows, RegistryFollowsTxs,
        RowsFollowChain
<1>16. ASSUME NEW p \in Procs, ReceiptFails(p) PROVE PipelineInv'
  <2>1. WorkersHoldOwnTx'
    <3>1. wpc' = [wpc EXCEPT ![p] = "fail"] \/ wpc' = wpc
      BY <1>16 DEF ReceiptFails, RetryOrFail
    <3> QED
      BY <1>16, <3>1 DEF ReceiptFails, WorkersHoldOwnTx, TypeWorker
  <2> QED
    BY <1>16, <2>1
    DEF ReceiptFails, RetryOrFail, RowsFollowTasks, TxsFollowRows, RegistryFollowsTxs,
        RowsFollowChain
<1>17. ASSUME NEW p \in Procs, UpdateEventToAnchored(p) PROVE PipelineInv'
  <2>1. RowsFollowTasks'
    BY <1>17
    DEF UpdateEventToAnchored, RowAnchored, RowsFollowTasks, WorkersHoldOwnTx, Settled,
        Prepared
  <2>2. WorkersHoldOwnTx'
    BY <1>17 DEF UpdateEventToAnchored, RowAnchored, WorkersHoldOwnTx, Settled, Prepared
  <2>3. TxsFollowRows'
    BY <1>17
    DEF UpdateEventToAnchored, RowAnchored, TxsFollowRows, WorkersHoldOwnTx, Settled,
        Prepared
  <2>4. RowsFollowChain'
    BY <1>17
    DEF UpdateEventToAnchored, RowAnchored, RowsFollowChain, TypeDb, WorkersHoldOwnTx
  <2> QED
    BY <1>17, <2>1, <2>2, <2>3, <2>4
    DEF UpdateEventToAnchored, RowAnchored, RegistryFollowsTxs
<1>18. ASSUME NEW p \in Procs, UpdateEventToAnchoredFails(p) PROVE PipelineInv'
  <2>1. RowsFollowTasks'
    BY <1>18
    DEF UpdateEventToAnchoredFails, RowAnchored, RowsFollowTasks, TypeDb,
        WorkersHoldOwnTx, Settled, Prepared
  <2>2. WorkersHoldOwnTx'
    BY <1>18
    DEF UpdateEventToAnchoredFails, RowAnchored, WorkersHoldOwnTx, TypeDb, Settled,
        Prepared
  <2>3. TxsFollowRows'
    <3>1. \A e \in Requests : status[e] \in Prepared => status'[e] \in Prepared
      BY <1>18 DEF UpdateEventToAnchoredFails, RowAnchored, TypeDb, Settled, Prepared
    <3> QED
      BY <1>18, <3>1 DEF UpdateEventToAnchoredFails, TxsFollowRows
  <2>4. RowsFollowChain'
    <3>1. wjob[p] \in Requests /\ wtx[p] \in 1..mined /\ txEvent[wtx[p]] = wjob[p]
      BY <1>18 DEF UpdateEventToAnchoredFails, WorkersHoldOwnTx
    <3>2. CASE RowAnchored(wjob[p], wtx[p])
      BY <1>18, <3>1, <3>2
      DEF UpdateEventToAnchoredFails, RowAnchored, RowsFollowChain, TypeDb
    <3>3. CASE UNCHANGED db
      BY <1>18, <3>3 DEF UpdateEventToAnchoredFails, RowsFollowChain
    <3> QED
      BY <1>18, <3>2, <3>3 DEF UpdateEventToAnchoredFails
  <2> QED
    BY <1>18, <2>1, <2>2, <2>3, <2>4
    DEF UpdateEventToAnchoredFails, RowAnchored, RegistryFollowsTxs
<1>19. ASSUME NEW p \in Procs, UpdateEventToAnchorFailed(p) PROVE PipelineInv'
  <2>1. RowsFollowTasks'
    BY <1>19
    DEF UpdateEventToAnchorFailed, RowFailed, RowsFollowTasks, TypeDb, WorkersHoldOwnTx,
        Settled, Prepared
  <2>2. WorkersHoldOwnTx'
    BY <1>19
    DEF UpdateEventToAnchorFailed, RowFailed, WorkersHoldOwnTx, TypeDb, Settled,
        Prepared
  <2>3. TxsFollowRows'
    <3>1. \A e \in Requests : status[e] \in Prepared => status'[e] \in Prepared
      BY <1>19 DEF UpdateEventToAnchorFailed, RowFailed, TypeDb, Settled, Prepared
    <3> QED
      BY <1>19, <3>1 DEF UpdateEventToAnchorFailed, TxsFollowRows
  <2>4. RowsFollowChain'
    BY <1>19
    DEF UpdateEventToAnchorFailed, RowFailed, RowsFollowChain, TypeDb, WorkersHoldOwnTx
  <2> QED
    BY <1>19, <2>1, <2>2, <2>3, <2>4
    DEF UpdateEventToAnchorFailed, RowFailed, RegistryFollowsTxs
<1>20. ASSUME NEW p \in Procs, FinishJob(p) PROVE PipelineInv'
  <2>1. RowsFollowTasks'
    BY <1>20 DEF FinishJob, RowsFollowTasks, TypeQueue, WorkersHoldOwnTx
  <2>2. WorkersHoldOwnTx'
    BY <1>20 DEF FinishJob, WorkersHoldOwnTx, TypeWorker
  <2> QED
    BY <1>20, <2>1, <2>2
    DEF FinishJob, TxsFollowRows, RegistryFollowsTxs, RowsFollowChain
<1>21. ASSUME NEW p \in Procs, Crash(p) \/ Shutdown(p) PROVE PipelineInv'
  <2>1. RowsFollowTasks'
    BY <1>21
    DEF Crash, Shutdown, LoseMemory, RowsFollowTasks, WorkersHoldOwnTx, InFlight
  <2>2. WorkersHoldOwnTx'
    <3> SUFFICES ASSUME NEW q \in Procs, q # p PROVE
          wpc'[q] = wpc[q] /\ wjob'[q] = wjob[q] /\ wtx'[q] = wtx[q]
      BY <1>21 DEF Crash, Shutdown, LoseMemory, WorkersHoldOwnTx, TypeWorker
    <3> QED
      BY <1>21 DEF Crash, Shutdown, LoseMemory, TypeWorker
  <2> QED
    BY <1>21, <2>1, <2>2
    DEF Crash, Shutdown, LoseMemory, TxsFollowRows, RegistryFollowsTxs, RowsFollowChain
<1>22. CASE Mine
  <2>1. WorkersHoldOwnTx'
    BY <1>22 DEF Mine, WorkersHoldOwnTx, TypeChain
  <2>2. TxsFollowRows'
    BY <1>22 DEF Mine, TxsFollowRows, TypeChain
  <2>3. RegistryFollowsTxs'
    <3> DEFINE e == txEvent[mined + 1]
    <3>1. e \in Requests /\ HashOf[e] \in Hashes /\ e # NoEvent
      BY <1>22 DEF Mine, TxsFollowRows, TypeChain
    <3>2. CASE registry' = [registry EXCEPT ![HashOf[e]] = e]
      <4>1. \A h \in Hashes : registry'[h] = IF h = HashOf[e] THEN e ELSE registry[h]
        BY <3>2, <3>1 DEF TypeChain
      <4>2. \A h \in Hashes : registry'[h] # NoEvent => HashOf[registry'[h]] = h
        BY <4>1, <3>1 DEF RegistryFollowsTxs
      <4>3. \A t \in 1..mined' : ~ OtherReverts => registry'[HashOf[txEvent[t]]] # NoEvent
        <5> SUFFICES ASSUME NEW t \in 1..mined', ~ OtherReverts
                     PROVE registry'[HashOf[txEvent[t]]] # NoEvent
          OBVIOUS
        <5>1. t \in 1..mined \/ t = mined + 1
          BY <1>22 DEF Mine, TypeChain
        <5>2. HashOf[txEvent[t]] \in Hashes
          BY <1>22 DEF Mine, TxsFollowRows, TypeChain
        <5> QED
          BY <4>1, <5>1, <5>2, <3>1 DEF RegistryFollowsTxs
      <4> QED
        BY <1>22, <4>2, <4>3 DEF Mine, RegistryFollowsTxs
    <3>3. CASE UNCHANGED registry /\ (WouldRevert(e) \/ OtherReverts)
      <4>1. OtherReverts \/ registry[HashOf[e]] # NoEvent
        BY <3>1, <3>3 DEF WouldRevert, RegistryFollowsTxs
      <4>2. \A t \in 1..mined' : t \in 1..mined \/ t = mined + 1
        BY <1>22 DEF Mine, TypeChain
      <4> QED
        BY <1>22, <3>3, <4>1, <4>2 DEF Mine, RegistryFollowsTxs
    <3> QED
      BY <1>22, <3>2, <3>3 DEF Mine
  <2>4. RowsFollowChain'
    BY <1>22 DEF Mine, RowsFollowChain, TypeChain, TypeDb
  <2> QED
    BY <1>22, <2>1, <2>2, <2>3, <2>4 DEF Mine, RowsFollowTasks
<1>23. CASE UNCHANGED vars
  BY <1>23
  DEF RowsFollowTasks, WorkersHoldOwnTx, TxsFollowRows, RegistryFollowsTxs,
      RowsFollowChain
<1> QED
  BY <1>1, <1>2, <1>3, <1>4, <1>5, <1>6, <1>7, <1>8, <1>9, <1>10, <1>11, <1>12, <1>13,
     <1>14, <1>15, <1>16, <1>17, <1>18, <1>19, <1>20, <1>21, <1>22, <1>23
  DEF Next, IngestStep, ProcessStep, WorkerStep

\* The inductive invariant holds in every reachable state.
THEOREM PipelineInvariant == Spec => []PipelineInv
<1>1. Init => PipelineInv
  BY PipelineInvInit
<1>2. PipelineInv /\ [Next]_vars => PipelineInv'
  BY PipelineInvStep
<1> QED
  BY <1>1, <1>2, PTL DEF Spec

\* A row reported as anchored has its hash in the registry, although anchorEvent
\* never reads the status of the receipt: the recorded transaction is mined and
\* a duplicate that reverted leaves the hash of the first one registered.
THEOREM AnchoredRowsAreOnChain == Spec => []AnchoredIsOnChain
<1>1. PipelineInv => AnchoredIsOnChain
  <2> SUFFICES ASSUME PipelineInv, ~ OtherReverts,
                      NEW r \in Requests, status[r] = "anchored"
               PROVE registry[HashOf[r]] # NoEvent
    BY DEF AnchoredIsOnChain
  <2>1. txHash[r] \in 1..mined /\ txEvent[txHash[r]] = r
    BY DEF PipelineInv, RowsFollowChain, TypeOK, TypeDb
  <2> QED
    BY <2>1 DEF PipelineInv, RegistryFollowsTxs
<1> QED
  BY <1>1, PipelineInvariant, PTL

\* The tx_hash of a row names a mined transaction of that event, whichever run
\* of the job stored it.
THEOREM RecordedTxsAreOwn == Spec => []RecordedTxIsOwnAndMined
<1>1. PipelineInv => RecordedTxIsOwnAndMined
  BY DEF PipelineInv, RowsFollowChain, RecordedTxIsOwnAndMined
<1> QED
  BY <1>1, PipelineInvariant, PTL

----------------------------------------------------------------------------
\* What one step may do to the rows and the registry, in the words of the
\* abstract ledger: one of its actions, or nothing it can see.
LEMMA LedgerStep ==
  ASSUME ~ OtherReverts, PipelineInv, [Next]_vars
  PROVE  [Ledger!LNext]_<<status, {h \in Hashes : registry[h] # NoEvent}>>
<1> DEFINE led == {h \in Hashes : registry[h] # NoEvent}
<1> USE ConstantsAssumption DEF PipelineInv, TypeOK
<1>1. ASSUME NEW r \in Requests, InsertRow(r), pc[r] = "insert", UNCHANGED chain
      PROVE Ledger!Accept(r)
  BY <1>1 DEF InsertRow, RowsFollowTasks, Ledger!Accept
<1>2. ASSUME NEW r \in Requests, SealRow(r), task[r] = "scheduled", UNCHANGED chain
      PROVE Ledger!Prepare(r)
  BY <1>2 DEF SealRow, RowsFollowTasks, Ledger!Prepare
<1>3. ASSUME NEW p \in Procs, RowAnchored(wjob[p], wtx[p]), wpc[p] = "record", UNCHANGED chain
      PROVE wjob[p] \in Requests /\ Ledger!Anchor(wjob[p])
  <2>1. wtx[p] \in 1..mined /\ txEvent[wtx[p]] = wjob[p] /\ wjob[p] \in Requests
    BY <1>3 DEF WorkersHoldOwnTx
  <2>2. HashOf[wjob[p]] \in led
    BY <2>1 DEF RegistryFollowsTxs
  <2>3. status[wjob[p]] \in Ledger!Prepared
    BY <1>3 DEF WorkersHoldOwnTx, Settled, Ledger!Prepared, Prepared
  <2> QED
    BY <1>3, <2>1, <2>2, <2>3 DEF RowAnchored, Ledger!Anchor
<1>4. ASSUME NEW p \in Procs, RowFailed(wjob[p]), wpc[p] = "fail", UNCHANGED chain
      PROVE wjob[p] \in Requests /\ Ledger!Fail(wjob[p])
  BY <1>4
  DEF RowFailed, WorkersHoldOwnTx, Settled, Ledger!Prepared, Ledger!Fail, Prepared
<1>5. CASE Mine
  <2>1. PICK e \in Requests : e = txEvent[mined + 1] /\ status[e] \in Prepared
    BY <1>5 DEF Mine, TxsFollowRows, TypeChain
  <2>2. CASE ~ WouldRevert(e) /\ registry' = [registry EXCEPT ![HashOf[e]] = e]
    <3>1. HashOf[e] \in Hashes /\ HashOf[e] \notin led
      BY <2>1, <2>2 DEF WouldRevert
    <3>2. led' = led \cup {HashOf[e]}
      BY <2>1, <2>2, <3>1 DEF TypeChain
    <3>3. Ledger!Register(e)
      BY <1>5, <2>1, <3>1, <3>2
      DEF Mine, Settled, Ledger!Prepared, Ledger!Register, Prepared
    <3> QED
      BY <3>3 DEF Ledger!LNext
  <2>3. CASE UNCHANGED registry
    BY <1>5, <2>3 DEF Mine
  <2> QED
    BY <1>5, <2>1, <2>2, <2>3 DEF Mine
<1>6. CASE UNCHANGED <<status, registry>>
  BY <1>6
<1>7. ASSUME NEW r \in Requests, IngestStep(r) PROVE
        \/ UNCHANGED <<status, registry>>
        \/ InsertRow(r) /\ pc[r] = "insert" /\ UNCHANGED chain
  BY <1>7
  DEF IngestStep, Receive, FindEventByIdempotencyKey, CreateEvent, CreateEventConflict,
      IngestFails, Dispatch
<1>8. ASSUME NEW r \in Requests, ProcessStep(r) PROVE
        \/ UNCHANGED <<status, registry>>
        \/ SealRow(r) /\ task[r] = "scheduled" /\ UNCHANGED chain
  BY <1>8 DEF ProcessStep, UpdateEventToAnchoring, AnchorQueueAdd, ProcessFails
<1>9. ASSUME NEW p \in Procs, WorkerStep(p) PROVE
        \/ UNCHANGED <<status, registry>>
        \/ RowAnchored(wjob[p], wtx[p]) /\ wpc[p] = "record" /\ UNCHANGED chain
        \/ RowFailed(wjob[p]) /\ wpc[p] = "fail" /\ UNCHANGED chain
  BY <1>9
  DEF WorkerStep, TakeJob, WriteContract, WriteContractRefused, WriteContractUnanswered,
      ReceiptArrives, ReceiptFails, UpdateEventToAnchored, UpdateEventToAnchoredFails,
      UpdateEventToAnchorFailed, FinishJob
<1>10. ASSUME NEW p \in Procs, Crash(p) \/ Shutdown(p) PROVE UNCHANGED <<status, registry>>
  BY <1>10 DEF Crash, Shutdown, LoseMemory
<1>11. ASSUME NEW r \in Requests, LockExpires(r) \/ StalledCheck(r) PROVE UNCHANGED <<status, registry>>
  BY <1>11 DEF LockExpires, StalledCheck, Requeue
<1>12. CASE UNCHANGED vars
  BY <1>12
<1> QED
  BY <1>1, <1>2, <1>3, <1>4, <1>5, <1>6, <1>7, <1>8, <1>9, <1>10, <1>11, <1>12
  DEF Next, Ledger!LNext

\* The pipeline implements the abstract ledger, as long as a transaction reverts
\* only because its hash or event is registered already.
THEOREM PipelineImplementsLedger ==
  ASSUME ~ OtherReverts
  PROVE  Spec => ImplementsLedger
<1>1. Init => Ledger!LInit
  BY DEF Init, Ledger!LInit
<1>2. PipelineInv /\ [Next]_vars =>
        [Ledger!LNext]_<<status, {h \in Hashes : registry[h] # NoEvent}>>
  BY LedgerStep
<1> QED
  BY <1>1, <1>2, PipelineInvariant, PTL DEF Spec, ImplementsLedger, Ledger!LSpec

----------------------------------------------------------------------------
\* What one step may do to the status column: insert a row the unique index
\* accepts, seal a row in "processing", or settle a sealed one.
LEMMA StatusSteps ==
  ASSUME PipelineInv, [Next]_vars
  PROVE  \/ UNCHANGED status
         \/ \E r \in Requests :
              \/ UniqueKey(r) /\ status' = [status EXCEPT ![r] = "processing"]
                             /\ status[r] = "none"
              \/ status' = [status EXCEPT ![r] = "anchoring"] /\ status[r] = "processing"
              \/ /\ \/ status' = [status EXCEPT ![r] = "anchored"]
                    \/ status' = [status EXCEPT ![r] = "anchor_failed"]
                 /\ status[r] \in Prepared
<1> USE DEF PipelineInv
<1>1. ASSUME NEW r \in Requests, IngestStep(r) PROVE
        \/ UNCHANGED status
        \/ InsertRow(r) /\ pc[r] = "insert" /\ UniqueKey(r)
  BY <1>1
  DEF IngestStep, Receive, FindEventByIdempotencyKey, CreateEvent, CreateEventConflict,
      IngestFails, Dispatch
<1>2. ASSUME NEW r \in Requests, ProcessStep(r) PROVE
        \/ UNCHANGED status
        \/ SealRow(r) /\ task[r] = "scheduled"
  BY <1>2 DEF ProcessStep, UpdateEventToAnchoring, AnchorQueueAdd, ProcessFails
<1>3. ASSUME NEW p \in Procs, WorkerStep(p) PROVE
        \/ UNCHANGED status
        \/ (RowAnchored(wjob[p], wtx[p]) \/ RowFailed(wjob[p])) /\ wpc[p] # "idle"
  BY <1>3
  DEF WorkerStep, TakeJob, WriteContract, WriteContractRefused, WriteContractUnanswered,
      ReceiptArrives, ReceiptFails, UpdateEventToAnchored, UpdateEventToAnchoredFails,
      UpdateEventToAnchorFailed, FinishJob
<1>4. ASSUME NEW p \in Procs, Crash(p) \/ Shutdown(p) PROVE UNCHANGED status
  BY <1>4 DEF Crash, Shutdown, LoseMemory
<1>5. ASSUME NEW r \in Requests, LockExpires(r) \/ StalledCheck(r) PROVE UNCHANGED status
  BY <1>5 DEF LockExpires, StalledCheck, Requeue
<1>6. CASE Mine
  BY <1>6 DEF Mine
<1>7. CASE UNCHANGED vars
  BY <1>7
<1>8. CASE \E r \in Requests : InsertRow(r) /\ pc[r] = "insert" /\ UniqueKey(r)
  BY <1>8 DEF InsertRow, RowsFollowTasks
<1>9. CASE \E r \in Requests : SealRow(r) /\ task[r] = "scheduled"
  BY <1>9 DEF SealRow, RowsFollowTasks
<1>10. CASE \E p \in Procs :
              (RowAnchored(wjob[p], wtx[p]) \/ RowFailed(wjob[p])) /\ wpc[p] # "idle"
  BY <1>10 DEF RowAnchored, RowFailed, WorkersHoldOwnTx
<1> QED
  BY <1>1, <1>2, <1>3, <1>4, <1>5, <1>6, <1>7, <1>8, <1>9, <1>10 DEF Next

\* A settled row never returns to "anchoring" or "processing": process() seals
\* the row before the worker can see its job.
THEOREM SettledRowsStaySettled == Spec => SettledNeverReopened
<1>1. PipelineInv /\ [Next]_vars =>
        [\A r \in Requests : status[r] \in Settled => status'[r] \in Settled]_vars
  BY StatusSteps DEF PipelineInv, TypeOK, TypeDb, Settled
<1> QED
  BY <1>1, PipelineInvariant, PTL DEF Spec, SettledNeverReopened

LEMMA KeyInvStep == PipelineInv /\ KeyInv /\ [Next]_vars => KeyInv'
<1> SUFFICES ASSUME PipelineInv, KeyInv, [Next]_vars PROVE KeyInv'
  OBVIOUS
<1> USE ConstantsAssumption DEF PipelineInv, TypeOK
<1>1. \A r \in Requests : status[r] # "none" => status'[r] # "none"
  BY StatusSteps DEF TypeDb
<1>2. (\A e, f \in Requests :
         (/\ status[e] # "none" /\ status[f] # "none"
          /\ SlotOf[e] # NoKey /\ SlotOf[e] = SlotOf[f]) => e = f)'
  <2>1. CASE \A r \in Requests : status'[r] # "none" => status[r] # "none"
    BY <2>1 DEF KeyInv
  <2>2. CASE \E r \in Requests :
               UniqueKey(r) /\ status' = [status EXCEPT ![r] = "processing"]
    BY <2>2 DEF KeyInv, UniqueKey, RowsInSlot
  <2> QED
    BY <2>1, <2>2, StatusSteps DEF TypeDb, Settled, Prepared
<1>3. ASSUME NEW r \in Requests, FindEventByIdempotencyKey(r) PROVE
        \/ UNCHANGED reply
        \/ \E e \in RowsInSlot(r) : reply' = [reply EXCEPT ![r] = e]
  BY <1>3 DEF FindEventByIdempotencyKey
<1>4. ASSUME NEW r \in Requests, Dispatch(r) PROVE
        reply' = [reply EXCEPT ![r] = r] /\ status[r] # "none"
  BY <1>4 DEF Dispatch, RowsFollowTasks
<1>5. \/ UNCHANGED reply
      \/ \E r \in Requests : FindEventByIdempotencyKey(r) \/ Dispatch(r)
  BY
  DEF Next, IngestStep, Receive, CreateEvent, CreateEventConflict, IngestFails,
      ProcessStep, UpdateEventToAnchoring, AnchorQueueAdd, ProcessFails, LockExpires, StalledCheck, Requeue,
      WorkerStep, TakeJob, WriteContract, WriteContractRefused, WriteContractUnanswered,
      ReceiptArrives, ReceiptFails, UpdateEventToAnchored, UpdateEventToAnchoredFails,
      UpdateEventToAnchorFailed, FinishJob, Crash, Shutdown, LoseMemory, Mine
<1>6. \A q \in Requests : reply'[q] # NoEvent =>
        /\ reply'[q] \in Requests
        /\ status[reply'[q]] # "none"
        /\ reply'[q] = q \/ (SlotOf[q] # NoKey /\ SlotOf[reply'[q]] = SlotOf[q])
  BY <1>3, <1>4, <1>5 DEF KeyInv, RowsInSlot, TypeIngest
<1> QED
  BY <1>1, <1>2, <1>6 DEF KeyInv

\* Two answered calls with the same (org, idempotency key) got the same event,
\* whatever the interleaving of their lookups and inserts.
THEOREM RepliesAgree == Spec => []SameKeySameEvent
<1>1. Init => KeyInv
  BY DEF Init, KeyInv
<1>2. PipelineInv /\ KeyInv /\ [Next]_vars => KeyInv'
  BY KeyInvStep
<1>3. PipelineInv /\ KeyInv => SameKeySameEvent
  BY ConstantsAssumption DEF PipelineInv, TypeOK, TypeIngest, KeyInv, SameKeySameEvent
<1> QED
  BY <1>1, <1>2, <1>3, PipelineInvariant, PTL DEF Spec

----------------------------------------------------------------------------
LEMMA CompletedInvStep == PipelineInv /\ CompletedInv /\ [Next]_vars => CompletedInv'
<1> SUFFICES ASSUME PipelineInv, CompletedInv, [Next]_vars PROVE CompletedInv'
  OBVIOUS
<1> USE ConstantsAssumption DEF PipelineInv, TypeOK
<1>1. \/ UNCHANGED txHash
      \/ \E p \in Procs : /\ txHash' = [txHash EXCEPT ![wjob[p]] = wtx[p]]
                         /\ wpc[p] = "record"
  BY
  DEF Next, IngestStep, Receive, FindEventByIdempotencyKey, CreateEvent,
      CreateEventConflict, IngestFails, InsertRow, Dispatch, ProcessStep,
      UpdateEventToAnchoring, AnchorQueueAdd, ProcessFails, SealRow, LockExpires, StalledCheck, Requeue,
      WorkerStep, TakeJob, WriteContract, WriteContractRefused, WriteContractUnanswered,
      ReceiptArrives, ReceiptFails, UpdateEventToAnchored, UpdateEventToAnchoredFails,
      UpdateEventToAnchorFailed, RowAnchored, RowFailed, FinishJob, Crash, Shutdown,
      LoseMemory, Mine
<1>2. \A r \in Requests : txHash[r] # 0 => txHash'[r] # 0
  BY <1>1 DEF WorkersHoldOwnTx, TypeDb
<1>3. ASSUME NEW p \in Procs, UpdateEventToAnchored(p) PROVE txHash'[wjob[p]] # 0
  BY <1>3 DEF UpdateEventToAnchored, RowAnchored, WorkersHoldOwnTx, TypeDb
<1>4. ASSUME NEW q \in Procs, wpc'[q] = "ack" PROVE
        wjob'[q] = wjob[q] /\ wjob[q] \in Requests /\ (wpc[q] = "ack" \/ UpdateEventToAnchored(q))
  <2>1. ASSUME NEW p \in Procs, WorkerStep(p) PROVE
          wjob'[q] = wjob[q] /\ (wpc[q] = "ack" \/ UpdateEventToAnchored(q))
    BY <1>4, <2>1
    DEF WorkerStep, TakeJob, WriteContract, WriteContractRefused,
        WriteContractUnanswered, RetryOrFail, ReceiptArrives, ReceiptFails,
        UpdateEventToAnchored, UpdateEventToAnchoredFails, UpdateEventToAnchorFailed,
        FinishJob, TypeWorker
  <2>2. ASSUME NEW p \in Procs, Crash(p) \/ Shutdown(p) PROVE
          wjob'[q] = wjob[q] /\ wpc[q] = "ack"
    BY <1>4, <2>2 DEF Crash, Shutdown, LoseMemory, TypeWorker
  <2>3. ASSUME UNCHANGED worker PROVE wjob'[q] = wjob[q] /\ wpc[q] = "ack"
    BY <1>4, <2>3
  <2>4. wjob'[q] = wjob[q] /\ (wpc[q] = "ack" \/ UpdateEventToAnchored(q))
    BY <2>1, <2>2, <2>3
    DEF Next, IngestStep, Receive, FindEventByIdempotencyKey, CreateEvent,
        CreateEventConflict, IngestFails, Dispatch, ProcessStep, UpdateEventToAnchoring,
        AnchorQueueAdd, ProcessFails, LockExpires, StalledCheck, Requeue, Mine
  <2> QED
    BY <2>4 DEF WorkersHoldOwnTx, UpdateEventToAnchored
<1>5. ASSUME NEW r \in Requests, job'[r] = "completed" PROVE
        \/ job[r] = "completed"
        \/ \E p \in Procs : wpc[p] = "ack" /\ wjob[p] = r
  <2>1. ASSUME NEW p \in Procs, FinishJob(p) PROVE
          job[r] = "completed" \/ (wpc[p] = "ack" /\ wjob[p] = r)
    BY <1>5, <2>1 DEF FinishJob, TypeQueue
  <2> QED
    BY <1>5, <2>1
    DEF Next, IngestStep, Receive, FindEventByIdempotencyKey, CreateEvent,
        CreateEventConflict, IngestFails, Dispatch, ProcessStep, UpdateEventToAnchoring,
        AnchorQueueAdd, ProcessFails, AddJob, LockExpires, StalledCheck, Requeue, WorkerStep, TakeJob,
        WriteContract, WriteContractRefused, WriteContractUnanswered, ReceiptArrives,
        ReceiptFails, UpdateEventToAnchored, UpdateEventToAnchoredFails,
        UpdateEventToAnchorFailed, Crash, Shutdown, LoseMemory, Mine, TypeQueue
<1> QED
  BY <1>2, <1>3, <1>4, <1>5 DEF CompletedInv

\* A job that BullMQ reports as completed has a transaction hash in its row, and
\* keeps it whatever later runs of the same job do.
THEOREM CompletedJobsAreRecorded == Spec => []CompletedMeansRecorded
<1>1. Init => CompletedInv
  BY DEF Init, CompletedInv
<1>2. PipelineInv /\ CompletedInv /\ [Next]_vars => CompletedInv'
  BY CompletedInvStep
<1>3. CompletedInv => CompletedMeansRecorded
  BY DEF CompletedInv, CompletedMeansRecorded
<1> QED
  BY <1>1, <1>2, <1>3, PipelineInvariant, PTL DEF Spec

----------------------------------------------------------------------------
(* The budget of transactions *)

LEMMA JobsAddedOnceStep == PipelineInv /\ JobsAddedOnce /\ [Next]_vars => JobsAddedOnce'
<1> SUFFICES ASSUME PipelineInv, JobsAddedOnce, [Next]_vars PROVE JobsAddedOnce'
  OBVIOUS
<1>0. /\ RowsFollowTasks /\ WorkersHoldOwnTx
      /\ TypeIngest /\ TypeQueue /\ TypeWorker
  BY DEF PipelineInv, TypeOK
<1> USE DEF TypeIngest, TypeQueue, TypeWorker, JobsAddedOnce
<1>1. ASSUME NEW r \in Requests, IngestStep(r) PROVE JobsAddedOnce'
  BY <1>0, <1>1
  DEF IngestStep, Receive, FindEventByIdempotencyKey, CreateEvent, CreateEventConflict, IngestFails,
      Dispatch, RowsFollowTasks
<1>2. ASSUME NEW r \in Requests, ProcessStep(r) PROVE JobsAddedOnce'
  <2>1. ASSUME UNCHANGED <<queue, worker>>, NEW place, place \notin {"none"},
               task[r] \in {"scheduled", "enqueue"}, task' = [task EXCEPT ![r] = place]
        PROVE  JobsAddedOnce'
    BY <1>0, <2>1
  <2>2. ASSUME AddJob(r), UNCHANGED worker, NEW place \in {"done", "dead"},
               task' = [task EXCEPT ![r] = place]
        PROVE  JobsAddedOnce'
    BY <1>0, <2>2 DEF AddJob
  <2> QED
    BY <1>2, <2>1, <2>2 DEF ProcessStep, UpdateEventToAnchoring, AnchorQueueAdd, ProcessFails
<1>3. ASSUME NEW r \in Requests, LockExpires(r) \/ StalledCheck(r) PROVE JobsAddedOnce'
  <2>1. ASSUME NEW place \in {"waiting", "failed"}, job[r] = "active",
               job' = [job EXCEPT ![r] = place], UNCHANGED <<task, worker>>
        PROVE  JobsAddedOnce'
    BY <1>0, <2>1
  <2> QED
    BY <1>3, <2>1 DEF LockExpires, StalledCheck, Requeue
<1>4. ASSUME NEW p \in Procs, WorkerStep(p) PROVE JobsAddedOnce'
  <2>1. ASSUME NEW r \in Requests, TakeJob(p, r) PROVE JobsAddedOnce'
    BY <1>0, <2>1 DEF TakeJob
  <2>2. CASE FinishJob(p)
    BY <1>0, <2>2 DEF FinishJob, WorkersHoldOwnTx
  <2>3. ASSUME NEW place, wpc[p] # "idle", UNCHANGED <<task, queue, wjob>>,
               wpc' = [wpc EXCEPT ![p] = place] \/ UNCHANGED wpc
        PROVE  JobsAddedOnce'
    BY <1>0, <2>3
  <2> QED
    BY <1>4, <2>1, <2>2, <2>3
    DEF WorkerStep, WriteContract, WriteContractRefused, WriteContractUnanswered, RetryOrFail,
        ReceiptArrives, ReceiptFails, UpdateEventToAnchored, UpdateEventToAnchoredFails,
        UpdateEventToAnchorFailed
<1>5. ASSUME NEW p \in Procs, Crash(p) \/ Shutdown(p) PROVE JobsAddedOnce'
  BY <1>0, <1>5 DEF Crash, Shutdown, LoseMemory
<1>6. CASE Mine \/ UNCHANGED vars
  BY <1>0, <1>6 DEF Mine
<1> QED
  BY <1>1, <1>2, <1>3, <1>4, <1>5, <1>6 DEF Next

LEMMA Intervals ==
  ASSUME NEW n \in Nat
  PROVE  /\ IsFiniteSet(1..n) /\ IsFiniteSet(0..(n - 1))
         /\ Cardinality(0..(n - 1)) = n
<1>1. 0 \in Int /\ 1 \in Int /\ n \in Int /\ n - 1 \in Int
  OBVIOUS
<1>2. IsFiniteSet(1..n)
  BY <1>1, FS_Interval
<1>3. /\ IsFiniteSet(0..(n - 1))
      /\ Cardinality(0..(n - 1)) = IF 0 > n - 1 THEN 0 ELSE (n - 1) - 0 + 1
  BY <1>1, FS_Interval
<1> QED
  BY <1>2, <1>3

LEMMA Multiples ==
  ASSUME NEW a \in Nat, NEW x \in Nat, NEW y \in Nat
  PROVE  /\ a * x \in Nat
         /\ a * (x + 1) = a * x + a
         /\ x <= y => a * x <= a * y
BY SMT

\* What a step may take from the budget of r: nothing, a run of its job, or one
\* attempt of a worker, with at most one transaction to show for it.
Saves(r) ==
  /\ TxsOf(r)' \in SUBSET TxsOf(r)
  /\ AttemptsLeft(r)' \in SUBSET AttemptsLeft(r)
  /\ RunsToCome(r)' <= RunsToCome(r)

StartsRun(r, p) ==
  /\ TxsOf(r)' = TxsOf(r)
  /\ AttemptsLeft(r)' \in SUBSET (AttemptsLeft(r) \cup ({p} \X (0..(MaxAttempts - 1))))
  /\ RunsToCome(r)' + 1 = RunsToCome(r)

Spends(r, a) ==
  /\ TxsOf(r)' \in SUBSET (TxsOf(r) \cup {sent + 1})
  /\ AttemptsLeft(r)' \in SUBSET AttemptsLeft(r)
  /\ a \in AttemptsLeft(r) /\ a \notin AttemptsLeft(r)'
  /\ RunsToCome(r)' = RunsToCome(r)

LEMMA BudgetSteps ==
  ASSUME PipelineInv, JobsAddedOnce, [Next]_vars, NEW r \in Requests
  PROVE  \/ Saves(r)
         \/ \E p \in Procs : StartsRun(r, p)
         \/ \E p \in Procs : Spends(r, <<p, attempt[p]>>)
<1> DEFINE Goal == \/ Saves(r)
                   \/ \E p \in Procs : StartsRun(r, p)
                   \/ \E p \in Procs : Spends(r, <<p, attempt[p]>>)
<1>0. /\ WorkersHoldOwnTx /\ TypeQueue /\ TypeWorker /\ TypeChain
      /\ MaxAttempts \in Nat \ {0} /\ MaxStalled \in Nat /\ MaxTx \in Nat
  BY ConstantsAssumption DEF PipelineInv, TypeOK
<1>1. ASSUME UNCHANGED <<txpool, worker, queue>> PROVE Saves(r)
  BY <1>0, <1>1 DEF Saves, TxsOf, AttemptsLeft, RunsToCome, TypeQueue
<1>2. ASSUME NEW q \in Requests, IngestStep(q) PROVE Saves(r)
  BY <1>1, <1>2
  DEF IngestStep, Receive, FindEventByIdempotencyKey, CreateEvent, CreateEventConflict, IngestFails,
      Dispatch
<1>3. ASSUME NEW q \in Requests, task[q] = "enqueue", AddJob(q), UNCHANGED <<txpool, worker>>
      PROVE  Saves(r)
  BY <1>0, <1>3 DEF AddJob, JobsAddedOnce, Saves, TxsOf, AttemptsLeft, RunsToCome, TypeQueue
<1>4. ASSUME NEW q \in Requests, ProcessStep(q) PROVE Saves(r)
  BY <1>1, <1>3, <1>4 DEF ProcessStep, UpdateEventToAnchoring, AnchorQueueAdd, ProcessFails
<1>5. ASSUME NEW q \in Requests, LockExpires(q) \/ StalledCheck(q) PROVE Saves(r)
  <2>1. RunsToCome(r)' <= RunsToCome(r)
    BY <1>0, <1>5 DEF LockExpires, StalledCheck, Requeue, RunsToCome, TypeQueue
  <2> QED
    BY <1>0, <1>5, <2>1 DEF LockExpires, StalledCheck, Requeue, Saves, TxsOf, AttemptsLeft
<1>6. ASSUME NEW p \in Procs, NEW q \in Requests, TakeJob(p, q) PROVE Goal
  <2>1. CASE q = r
    <3>1. TxsOf(r)' = TxsOf(r)
      BY <1>6 DEF TakeJob, TxsOf
    <3>2. RunsToCome(r)' + 1 = RunsToCome(r)
      BY <1>0, <1>6, <2>1 DEF TakeJob, RunsToCome, TypeQueue
    <3>3. AttemptsLeft(r)' \in SUBSET (AttemptsLeft(r) \cup ({p} \X (0..(MaxAttempts - 1))))
      BY <1>0, <1>6, <2>1 DEF TakeJob, AttemptsLeft, TypeWorker
    <3> QED
      BY <3>1, <3>2, <3>3 DEF StartsRun
  <2>2. CASE q # r
    <3>1. TxsOf(r)' = TxsOf(r) /\ RunsToCome(r)' = RunsToCome(r)
      BY <1>0, <1>6, <2>2 DEF TakeJob, TxsOf, RunsToCome, TypeQueue
    <3>2. AttemptsLeft(r)' \in SUBSET AttemptsLeft(r)
      BY <1>0, <1>6, <2>2 DEF TakeJob, AttemptsLeft, TypeWorker
    <3>3. RunsToCome(r) \in Int
      BY <1>0 DEF RunsToCome, TypeQueue
    <3> QED
      BY <3>1, <3>2, <3>3 DEF Saves
  <2> QED
    BY <2>1, <2>2
<1>7. ASSUME NEW p \in Procs, wpc[p] = "submit", UNCHANGED queue, UNCHANGED wjob,
             UNCHANGED txpool \/ Broadcast(wjob[p]),
             \/ \E place \in {"confirm", "fail"} : wpc' = [wpc EXCEPT ![p] = place]
             \/ attempt' = [attempt EXCEPT ![p] = attempt[p] + 1] /\ UNCHANGED wpc,
             \A q \in Procs : q # p => attempt'[q] = attempt[q]
      PROVE  Goal
  <2>1. AttemptsLeft(r)' \in SUBSET AttemptsLeft(r)
    BY <1>0, <1>7 DEF AttemptsLeft, TypeWorker
  <2>2. RunsToCome(r)' = RunsToCome(r) /\ RunsToCome(r) \in Int
    BY <1>0, <1>7 DEF RunsToCome, TypeQueue
  <2>3. CASE wjob[p] = r
    <3>1. TxsOf(r)' \in SUBSET (TxsOf(r) \cup {sent + 1})
      BY <1>0, <1>7 DEF TxsOf, Broadcast, TypeChain, Txs
    <3>2. <<p, attempt[p]>> \in AttemptsLeft(r)
      BY <1>0, <1>7, <2>3 DEF AttemptsLeft, TypeWorker
    <3>3. <<p, attempt[p]>> \notin AttemptsLeft(r)'
      BY <1>0, <1>7 DEF AttemptsLeft, TypeWorker
    <3> QED
      BY <2>1, <2>2, <3>1, <3>2, <3>3 DEF Spends
  <2>4. CASE wjob[p] # r
    <3>1. TxsOf(r)' \in SUBSET TxsOf(r)
      BY <1>0, <1>7, <2>4 DEF TxsOf, Broadcast, TypeChain, Txs
    <3> QED
      BY <2>1, <2>2, <3>1 DEF Saves
  <2> QED
    BY <2>3, <2>4
<1>8. ASSUME NEW p \in Procs, wpc[p] # "submit", UNCHANGED <<txpool, queue, wjob>>,
             NEW place, place # "submit",
             wpc' = [wpc EXCEPT ![p] = place] \/ UNCHANGED wpc,
             \A q \in Procs : q # p => attempt'[q] = attempt[q]
      PROVE  Saves(r)
  <2>1. AttemptsLeft(r)' \in SUBSET AttemptsLeft(r)
    BY <1>0, <1>8 DEF AttemptsLeft, TypeWorker
  <2> QED
    BY <1>0, <1>8, <2>1 DEF Saves, TxsOf, RunsToCome, TypeQueue
<1>9. ASSUME NEW p \in Procs, FinishJob(p) PROVE Saves(r)
  <2>1. RunsToCome(r)' <= RunsToCome(r)
    BY <1>0, <1>9 DEF FinishJob, RunsToCome, TypeQueue
  <2>2. AttemptsLeft(r)' \in SUBSET AttemptsLeft(r)
    BY <1>0, <1>9 DEF FinishJob, AttemptsLeft, TypeWorker
  <2> QED
    BY <1>9, <2>1, <2>2 DEF FinishJob, Saves, TxsOf
<1>10. ASSUME NEW p \in Procs, Crash(p) \/ Shutdown(p) PROVE Saves(r)
  <2>1. AttemptsLeft(r)' \in SUBSET AttemptsLeft(r)
    BY <1>0, <1>10 DEF Crash, Shutdown, LoseMemory, AttemptsLeft, TypeWorker
  <2> QED
    BY <1>0, <1>10, <2>1 DEF Crash, Shutdown, LoseMemory, Saves, TxsOf, RunsToCome, TypeQueue
<1>11. ASSUME NEW p \in Procs, WorkerStep(p) PROVE Goal
  <2>1. CASE \E q \in Requests : TakeJob(p, q)
    BY <1>6, <2>1
  <2>2. CASE WriteContract(p) \/ WriteContractRefused(p) \/ WriteContractUnanswered(p)
    BY <1>0, <1>7, <2>2
    DEF WriteContract, WriteContractRefused, WriteContractUnanswered, RetryOrFail, TypeWorker
  <2>3. CASE ReceiptArrives(p) \/ ReceiptFails(p)
    BY <1>0, <1>8, <2>3 DEF ReceiptArrives, ReceiptFails, RetryOrFail, TypeWorker
  <2>4. CASE UpdateEventToAnchored(p) \/ UpdateEventToAnchoredFails(p) \/ UpdateEventToAnchorFailed(p)
    BY <1>0, <1>8, <2>4
    DEF UpdateEventToAnchored, UpdateEventToAnchoredFails, UpdateEventToAnchorFailed
  <2>5. CASE FinishJob(p)
    BY <1>9, <2>5
  <2> QED
    BY <1>11, <2>1, <2>2, <2>3, <2>4, <2>5 DEF WorkerStep
<1>12. CASE Mine \/ UNCHANGED vars
  BY <1>1, <1>12 DEF Mine
<1> QED
  BY <1>2, <1>4, <1>5, <1>10, <1>11, <1>12 DEF Next

\* Each kind of step keeps the sum of what is sent and what may still be sent.
LEMMA BudgetInvStep ==
  PipelineInv /\ JobsAddedOnce /\ BudgetInv /\ [Next]_vars => BudgetInv'
<1> SUFFICES ASSUME PipelineInv, JobsAddedOnce, BudgetInv, [Next]_vars, NEW r \in Requests
             PROVE  Cardinality(TxsOf(r)') + Cardinality(AttemptsLeft(r)')
                      + MaxAttempts * RunsToCome(r)' <= MaxAttempts * (1 + MaxStalled)
  BY DEF BudgetInv
<1> DEFINE tx == Cardinality(TxsOf(r))      txn == Cardinality(TxsOf(r)')
           at == Cardinality(AttemptsLeft(r)) atn == Cardinality(AttemptsLeft(r)')
           ru == RunsToCome(r)              run == RunsToCome(r)'
<1>0. TypeOK /\ TypeOK'
  BY TypeOKStep DEF PipelineInv
<1>1. ru \in Nat /\ run \in Nat /\ MaxAttempts \in Nat \ {0} /\ MaxStalled \in Nat
  BY <1>0, ConstantsAssumption DEF TypeOK, TypeQueue, RunsToCome
<1>2. IsFiniteSet(TxsOf(r)) /\ IsFiniteSet(TxsOf(r)')
  <2>1. sent \in Nat /\ sent' \in Nat
    BY <1>0, ConstantsAssumption DEF TypeOK, TypeChain
  <2>2. TxsOf(r) \in SUBSET (1..sent) /\ TxsOf(r)' \in SUBSET (1..sent')
    BY DEF TxsOf
  <2> QED
    BY <2>1, <2>2, Intervals, FS_Subset
<1>3. IsFiniteSet(AttemptsLeft(r)) /\ IsFiniteSet(AttemptsLeft(r)')
  <2>1. IsFiniteSet(Procs \X (0..(MaxAttempts - 1)))
    BY <1>1, ConstantsAssumption, Intervals, FS_Product
  <2> QED
    BY <2>1, FS_Subset DEF AttemptsLeft
<1>4. tx \in Nat /\ txn \in Nat /\ at \in Nat /\ atn \in Nat
  BY <1>2, <1>3, FS_CardinalityType
<1>5. tx + at + MaxAttempts * ru <= MaxAttempts * (1 + MaxStalled)
  BY DEF BudgetInv
<1>6. /\ MaxAttempts * ru \in Nat /\ MaxAttempts * run \in Nat
      /\ MaxAttempts * (1 + MaxStalled) \in Nat
  BY <1>1, Multiples
<1>7. CASE Saves(r)
  <2>1. txn <= tx /\ atn <= at /\ run <= ru
    BY <1>2, <1>3, <1>7, FS_Subset DEF Saves
  <2>2. MaxAttempts * run <= MaxAttempts * ru
    BY <1>1, <2>1, Multiples
  <2> HIDE DEF tx, txn, at, atn, ru, run
  <2>3. txn + atn + MaxAttempts * run <= MaxAttempts * (1 + MaxStalled)
    BY <1>4, <1>5, <1>6, <2>1, <2>2
  <2> QED
    BY <2>3 DEF txn, atn, run
<1>8. ASSUME NEW p \in Procs, StartsRun(r, p)
      PROVE  txn + atn + MaxAttempts * run <= MaxAttempts * (1 + MaxStalled)
  <2>1. txn = tx /\ run + 1 = ru
    BY <1>8 DEF StartsRun
  <2> DEFINE All == {p} \X (0..(MaxAttempts - 1))
  <2>2. IsFiniteSet(All) /\ Cardinality(All) = MaxAttempts
    <3>1. IsFiniteSet({p}) /\ Cardinality({p}) = 1
      BY FS_Singleton
    <3>2. IsFiniteSet(0..(MaxAttempts - 1)) /\ Cardinality(0..(MaxAttempts - 1)) = MaxAttempts
      BY <1>1, Intervals
    <3>3. IsFiniteSet(All) /\ Cardinality(All) = Cardinality({p}) * Cardinality(0..(MaxAttempts - 1))
      BY <3>1, <3>2, FS_Product
    <3> QED
      BY <1>1, <3>1, <3>2, <3>3
  <2>3. /\ IsFiniteSet(AttemptsLeft(r) \cup All)
        /\ Cardinality(AttemptsLeft(r) \cup All) = at + MaxAttempts - Cardinality(AttemptsLeft(r) \cap All)
    BY <1>3, <2>2, FS_Union
  <2>4. Cardinality(AttemptsLeft(r) \cap All) \in Nat
    BY <1>3, FS_Subset, FS_CardinalityType
  <2>5. atn <= Cardinality(AttemptsLeft(r) \cup All)
    BY <1>8, <2>3, FS_Subset DEF StartsRun
  <2>6. MaxAttempts * ru = MaxAttempts * run + MaxAttempts
    BY <1>1, <2>1, Multiples
  <2> HIDE DEF tx, txn, at, atn, ru, run
  <2>7. atn <= at + MaxAttempts
    BY <1>1, <1>4, <2>3, <2>4, <2>5
  <2> QED
    BY <1>1, <1>4, <1>5, <1>6, <2>1, <2>6, <2>7
<1>9. ASSUME NEW a, Spends(r, a)
      PROVE  txn + atn + MaxAttempts * run <= MaxAttempts * (1 + MaxStalled)
  <2>1. run = ru
    BY <1>9 DEF Spends
  <2>2. IsFiniteSet(TxsOf(r) \cup {sent + 1}) /\ Cardinality(TxsOf(r) \cup {sent + 1}) <= tx + 1
    BY <1>2, <1>4, FS_AddElement
  <2>3. txn <= Cardinality(TxsOf(r) \cup {sent + 1}) /\ Cardinality(TxsOf(r) \cup {sent + 1}) \in Nat
    BY <1>9, <2>2, FS_Subset, FS_CardinalityType DEF Spends
  <2>4. IsFiniteSet(AttemptsLeft(r) \ {a}) /\ Cardinality(AttemptsLeft(r) \ {a}) = at - 1
    BY <1>3, <1>9, FS_RemoveElement DEF Spends
  <2>5. AttemptsLeft(r)' \in SUBSET (AttemptsLeft(r) \ {a})
    BY <1>9 DEF Spends
  <2>6. atn <= at - 1
    BY <2>4, <2>5, FS_Subset
  <2> HIDE DEF tx, txn, at, atn, ru, run
  <2> QED
    BY <1>4, <1>5, <1>6, <2>1, <2>2, <2>3, <2>6
<1> QED
  BY <1>7, <1>8, <1>9, BudgetSteps

\* The signer never pays for more than MaxAttempts transactions per run and
\* 1 + MaxStalled runs of an event's job, whatever answers are lost, locks
\* expire and processes die (withExponentialBackoff, attempts: 1).
THEOREM TxsAreBounded == Spec => []TxBudget
<1>1. Init => JobsAddedOnce
  BY DEF Init, JobsAddedOnce
<1>2. Init => BudgetInv
  <2> SUFFICES ASSUME Init, NEW r \in Requests
               PROVE  Cardinality(TxsOf(r)) + Cardinality(AttemptsLeft(r)) + MaxAttempts * RunsToCome(r)
                        <= MaxAttempts * (1 + MaxStalled)
    BY DEF BudgetInv
  <2>1. TxsOf(r) = {} /\ AttemptsLeft(r) = {}
    BY DEF Init, TxsOf, AttemptsLeft
  <2>2. Cardinality(TxsOf(r)) = 0 /\ Cardinality(AttemptsLeft(r)) = 0
    BY <2>1, FS_EmptySet
  <2>3. RunsToCome(r) = 1 + MaxStalled
    BY ConstantsAssumption DEF Init, RunsToCome
  <2>4. MaxAttempts * (1 + MaxStalled) \in Nat
    BY ConstantsAssumption, Multiples
  <2> QED
    BY <2>2, <2>3, <2>4
<1>3. TypeOK /\ BudgetInv => TxBudget
  <2> SUFFICES ASSUME TypeOK, BudgetInv, NEW r \in Requests
               PROVE  Cardinality(TxsOf(r)) <= MaxAttempts * (1 + MaxStalled)
    BY DEF TxBudget
  <2>1. RunsToCome(r) \in Nat /\ MaxAttempts \in Nat /\ 1 + MaxStalled \in Nat
    BY ConstantsAssumption DEF TypeOK, TypeQueue, RunsToCome
  <2>2. IsFiniteSet(TxsOf(r)) /\ Cardinality(TxsOf(r)) \in Nat
    <3>1. sent \in Nat
      BY ConstantsAssumption DEF TypeOK, TypeChain
    <3>2. TxsOf(r) \in SUBSET (1..sent)
      BY DEF TxsOf
    <3> QED
      BY <3>1, <3>2, Intervals, FS_Subset, FS_CardinalityType
  <2>3. IsFiniteSet(Procs \X (0..(MaxAttempts - 1)))
    BY ConstantsAssumption, Intervals, FS_Product
  <2>4. IsFiniteSet(AttemptsLeft(r)) /\ Cardinality(AttemptsLeft(r)) \in Nat
    BY <2>3, FS_Subset, FS_CardinalityType DEF AttemptsLeft
  <2>5. MaxAttempts * RunsToCome(r) \in Nat /\ MaxAttempts * (1 + MaxStalled) \in Nat
    BY <2>1, Multiples
  <2>6. Cardinality(TxsOf(r)) + Cardinality(AttemptsLeft(r)) + MaxAttempts * RunsToCome(r)
          <= MaxAttempts * (1 + MaxStalled)
    BY DEF BudgetInv
  <2> QED
    BY <2>2, <2>4, <2>5, <2>6
<1>4. PipelineInv => TypeOK
  BY DEF PipelineInv
<1> QED
  BY <1>1, <1>2, <1>3, <1>4, PipelineInvariant, JobsAddedOnceStep, BudgetInvStep, PTL DEF Spec

----------------------------------------------------------------------------
(* Who holds the lock of a job *)

LEMMA JobsAreAddedOnce == Spec => []JobsAddedOnce
<1>1. Init => JobsAddedOnce
  BY DEF Init, JobsAddedOnce
<1> QED
  BY <1>1, PipelineInvariant, JobsAddedOnceStep, PTL DEF Spec

\* A worker step is a run's beginning, its end, or moves on within the run.
LEMMA WorkerMoves ==
  ASSUME NEW p \in Procs, WorkerStep(p)
  PROVE  \/ \E r \in Requests : TakeJob(p, r)
         \/ FinishJob(p)
         \/ /\ wpc[p] # "idle" /\ UNCHANGED <<pc, task, queue, wjob, restarts>>
            /\ \/ UNCHANGED wpc
               \/ \E place \in {"confirm", "record", "fail", "ack", "nack"} :
                    wpc' = [wpc EXCEPT ![p] = place]
BY DEF WorkerStep, WriteContract, WriteContractRefused, WriteContractUnanswered, RetryOrFail,
       ReceiptArrives, ReceiptFails, UpdateEventToAnchored, UpdateEventToAnchoredFails,
       UpdateEventToAnchorFailed

\* A lock stays with an active job until it is given back or expires, and loses
\* its holder only when a process is lost.
LEMMA LocksAreHeldStep ==
  PipelineInv /\ JobsAddedOnce /\ LocksAreHeld /\ [Next]_vars => LocksAreHeld'
<1> SUFFICES ASSUME PipelineInv, JobsAddedOnce, LocksAreHeld, [Next]_vars PROVE LocksAreHeld'
  OBVIOUS
<1>0. /\ WorkersHoldOwnTx /\ TypeQueue /\ TypeWorker /\ restarts \in Nat
      /\ NoProc \notin Procs /\ NoEvent \notin Requests
  BY ConstantsAssumption DEF PipelineInv, TypeOK
<1> USE DEF TypeQueue, TypeWorker, LocksAreHeld, Unrenewed
<1>1. ASSUME UNCHANGED <<queue, worker, restarts>> PROVE LocksAreHeld'
  BY <1>1
<1>2. ASSUME NEW r \in Requests, ProcessStep(r) PROVE LocksAreHeld'
  <2>1. ASSUME AddJob(r), UNCHANGED <<worker, restarts>>, task[r] = "enqueue" PROVE LocksAreHeld'
    BY <1>0, <2>1 DEF AddJob, JobsAddedOnce
  <2> QED
    BY <1>1, <1>2, <2>1 DEF ProcessStep, UpdateEventToAnchoring, AnchorQueueAdd, ProcessFails
<1>3. ASSUME NEW r \in Requests, LockExpires(r) PROVE LocksAreHeld'
  BY <1>0, <1>3 DEF LockExpires
<1>4. ASSUME NEW r \in Requests, StalledCheck(r) PROVE LocksAreHeld'
  <2>1. /\ lock[r] = NoProc /\ UNCHANGED <<lock, worker, restarts>>
        /\ \A e \in Requests : e # r => job'[e] = job[e]
    BY <1>0, <1>4 DEF StalledCheck, Requeue
  <2> QED
    BY <1>0, <2>1
<1>5. ASSUME NEW p \in Procs, WorkerStep(p) PROVE LocksAreHeld'
  <2>1. ASSUME NEW r \in Requests, TakeJob(p, r) PROVE LocksAreHeld'
    <3>1. ASSUME NEW e \in Requests, lock'[e] # NoProc, e # r
          PROVE  /\ lock'[e] = lock[e] /\ job'[e] = job[e]
                 /\ lock[e] = p => wjob[p] # e
      BY <1>0, <2>1, <3>1 DEF TakeJob
    <3> QED
      BY <1>0, <2>1, <3>1 DEF TakeJob
  <2>2. CASE FinishJob(p)
    <3>1. /\ \A q \in Procs : q # p => wjob'[q] = wjob[q] /\ wpc'[q] = wpc[q]
          /\ wjob[p] \in Requests /\ wjob'[p] = NoEvent /\ restarts' = restarts
      BY <1>0, <2>2 DEF FinishJob, WorkersHoldOwnTx
    <3>2. ASSUME NEW r \in Requests, lock'[r] # NoProc
          PROVE  /\ lock'[r] = lock[r] /\ job'[r] = job[r]
                 /\ lock[r] = p => wjob[p] # r
      BY <1>0, <2>2, <3>1, <3>2 DEF FinishJob
    <3> QED
      BY <1>0, <3>1, <3>2
  <2>3. ASSUME wpc[p] # "idle", UNCHANGED <<queue, wjob, restarts>>,
               \/ UNCHANGED wpc
               \/ \E place \in {"confirm", "record", "fail", "ack", "nack"} :
                    wpc' = [wpc EXCEPT ![p] = place]
        PROVE  LocksAreHeld'
    BY <1>0, <2>3
  <2> QED
    BY <1>5, <2>1, <2>2, <2>3, WorkerMoves
<1>6. ASSUME NEW p \in Procs, Crash(p) \/ Shutdown(p) PROVE LocksAreHeld'
  BY <1>0, <1>6 DEF Crash, Shutdown, LoseMemory
<1>7. ASSUME NEW r \in Requests, IngestStep(r) PROVE LocksAreHeld'
  BY <1>1, <1>7
  DEF IngestStep, Receive, FindEventByIdempotencyKey, CreateEvent, CreateEventConflict, IngestFails,
      Dispatch
<1> QED
  BY <1>1, <1>2, <1>3, <1>4, <1>5, <1>6, <1>7 DEF Next, Mine

LEMMA LocksHaveHolders == Spec => []LocksAreHeld
<1>1. Init => LocksAreHeld
  BY DEF Init, LocksAreHeld
<1> QED
  BY <1>1, PipelineInvariant, JobsAreAddedOnce, LocksAreHeldStep, PTL DEF Spec

\* A worker that renews its lock in time holds it until it gives the job back:
\* a job that another worker can take has no worker and no lock.
LEMMA RunnersHoldLocksStep ==
  PipelineInv /\ JobsAddedOnce /\ RunnersHoldLocks /\ [Next]_vars => RunnersHoldLocks'
<1> SUFFICES ASSUME PipelineInv, JobsAddedOnce, RunnersHoldLocks, [Next]_vars, ~ LockMayExpire
             PROVE  RunnersHoldLocks'
  BY DEF RunnersHoldLocks
<1>0. WorkersHoldOwnTx /\ TypeQueue /\ TypeWorker /\ NoProc \notin Procs
  BY ConstantsAssumption DEF PipelineInv, TypeOK
<1>a. \A p \in Procs : wpc[p] # "idle" =>
        wjob[p] \in Requests /\ job[wjob[p]] = "active" /\ lock[wjob[p]] = p
  BY <1>0 DEF RunnersHoldLocks, WorkersHoldOwnTx
<1> USE DEF TypeQueue, TypeWorker
<1>1. ASSUME UNCHANGED <<queue, worker>> PROVE RunnersHoldLocks'
  BY <1>1 DEF RunnersHoldLocks
<1>2. ASSUME NEW r \in Requests, ProcessStep(r) PROVE RunnersHoldLocks'
  <2>1. ASSUME AddJob(r), UNCHANGED worker, task[r] = "enqueue" PROVE RunnersHoldLocks'
    <3>1. \A p \in Procs : wpc[p] # "idle" => wjob[p] # r
      BY <1>a, <2>1 DEF JobsAddedOnce
    <3> QED
      BY <1>0, <1>a, <2>1, <3>1 DEF AddJob, RunnersHoldLocks
  <2> QED
    BY <1>1, <1>2, <2>1 DEF ProcessStep, UpdateEventToAnchoring, AnchorQueueAdd, ProcessFails
<1>3. ASSUME NEW r \in Requests, LockExpires(r) \/ StalledCheck(r) PROVE RunnersHoldLocks'
  <2>1. \A p \in Procs : wpc[p] # "idle" => wjob[p] # r
    BY <1>0, <1>a, <1>3 DEF LockExpires, StalledCheck, Unrenewed
  <2>2. /\ UNCHANGED worker
        /\ \A e \in Requests : e # r => job'[e] = job[e] /\ lock'[e] = lock[e]
    BY <1>0, <1>3 DEF LockExpires, StalledCheck, Requeue
  <2> QED
    BY <1>a, <2>1, <2>2 DEF RunnersHoldLocks
<1>4. ASSUME NEW p \in Procs, WorkerStep(p) PROVE RunnersHoldLocks'
  <2>1. ASSUME NEW r \in Requests, TakeJob(p, r) PROVE RunnersHoldLocks'
    <3>1. \A q \in Procs : wpc[q] # "idle" => wjob[q] # r /\ q # p
      BY <1>a, <2>1 DEF TakeJob
    <3> QED
      BY <1>0, <1>a, <2>1, <3>1 DEF TakeJob, RunnersHoldLocks
  <2>2. CASE FinishJob(p)
    <3>1. wpc[p] # "idle"
      BY <2>2 DEF FinishJob
    <3>2. \A q \in Procs : wpc[q] # "idle" /\ q # p => wjob[q] # wjob[p]
      BY <1>a, <3>1
    <3> QED
      BY <1>0, <1>a, <2>2, <3>1, <3>2 DEF FinishJob, RunnersHoldLocks
  <2>3. ASSUME wpc[p] # "idle", UNCHANGED <<queue, wjob>>,
               \/ UNCHANGED wpc
               \/ \E place : wpc' = [wpc EXCEPT ![p] = place]
        PROVE  RunnersHoldLocks'
    BY <1>0, <1>a, <2>3 DEF RunnersHoldLocks
  <2> QED
    BY <1>4, <2>1, <2>2, <2>3, WorkerMoves
<1>5. ASSUME NEW p \in Procs, Crash(p) \/ Shutdown(p) PROVE RunnersHoldLocks'
  BY <1>0, <1>a, <1>5 DEF Crash, Shutdown, LoseMemory, RunnersHoldLocks
<1>6. ASSUME NEW r \in Requests, IngestStep(r) PROVE RunnersHoldLocks'
  BY <1>1, <1>6
  DEF IngestStep, Receive, FindEventByIdempotencyKey, CreateEvent, CreateEventConflict, IngestFails,
      Dispatch
<1> QED
  BY <1>1, <1>2, <1>3, <1>4, <1>5, <1>6 DEF Next, Mine

\* While live workers renew their locks in time, an event is never anchored by
\* two processes at once, whatever is lost or restarted: the job of a lost worker
\* is run again only when the lock it left behind has expired.
THEOREM RunsAreExclusive == Spec => []RunsDoNotOverlap
<1>1. Init => RunnersHoldLocks
  BY DEF Init, RunnersHoldLocks
<1>2. RunnersHoldLocks => RunsDoNotOverlap
  BY DEF RunnersHoldLocks, RunsDoNotOverlap
<1> QED
  BY <1>1, <1>2, PipelineInvariant, JobsAreAddedOnce, RunnersHoldLocksStep, PTL DEF Spec

----------------------------------------------------------------------------
(* Failures of an undisturbed pipeline *)

LEMMA RegisteredWasMinedStep ==
  PipelineInv /\ RegisteredWasMined /\ [Next]_vars => RegisteredWasMined'
<1> SUFFICES ASSUME PipelineInv, RegisteredWasMined, [Next]_vars PROVE RegisteredWasMined'
  OBVIOUS
<1>0. TypeChain /\ TxsFollowRows /\ MaxTx \in Nat
  BY ConstantsAssumption DEF PipelineInv, TypeOK
<1>1. CASE Mine
  <2>0. /\ mined \in Nat /\ mined' = mined + 1 /\ mined + 1 \in 1..mined' /\ txEvent' = txEvent
        /\ \A t \in 1..mined : t \in 1..mined'
    BY <1>0, <1>1 DEF Mine, TypeChain
  <2>1. CASE UNCHANGED registry
    BY <2>0, <2>1 DEF RegisteredWasMined
  <2>2. CASE registry' = [registry EXCEPT ![HashOf[txEvent[mined + 1]]] = txEvent[mined + 1]]
    BY <1>0, <2>0, <2>2 DEF RegisteredWasMined, TypeChain
  <2> QED
    BY <1>1, <2>1, <2>2 DEF Mine
<1>2. ASSUME UNCHANGED chain,
             \/ UNCHANGED txpool
             \/ \E r : Broadcast(r)
      PROVE  RegisteredWasMined'
  <2>1. \A t \in 1..mined : txEvent'[t] = txEvent[t]
    BY <1>0, <1>2 DEF Broadcast, TypeChain, TxsFollowRows, Txs
  <2> QED
    BY <1>2, <2>1 DEF RegisteredWasMined
<1> QED
  BY <1>1, <1>2
  DEF Next, IngestStep, Receive, FindEventByIdempotencyKey, CreateEvent, CreateEventConflict,
      IngestFails, Dispatch, ProcessStep, UpdateEventToAnchoring, AnchorQueueAdd, ProcessFails,
      LockExpires, StalledCheck, Requeue, WorkerStep, TakeJob, WriteContract, WriteContractRefused,
      WriteContractUnanswered, ReceiptArrives, ReceiptFails, UpdateEventToAnchored,
      UpdateEventToAnchoredFails, UpdateEventToAnchorFailed, FinishJob, Crash, Shutdown, LoseMemory

\* No step that is possible while nothing fails gives a job a second run, and a
\* run fails only where the contract refuses the hash of its event.
LEMMA RunOnceStep ==
  ASSUME PipelineInv, JobsAddedOnce, LocksAreHeld, RegisteredWasMined, Undisturbed, Undisturbed',
         RunOnce, [Next]_vars
  PROVE  RunOnce'
<1>0. /\ TypeDb /\ TypeIngest /\ TypeQueue /\ TypeWorker /\ TypeChain
      /\ RowsFollowTasks /\ WorkersHoldOwnTx /\ TxsFollowRows /\ MaxTx \in Nat
      /\ NoProc \notin Procs /\ NoEvent \notin Requests /\ HashOf \in [Requests -> Hashes]
      /\ ~ InfraMayFail /\ ~ RpcMayFail /\ ~ LockMayExpire /\ restarts = 0 /\ restarts' = 0
  BY ConstantsAssumption DEF PipelineInv, TypeOK, Undisturbed
<1>1. ASSUME UNCHANGED <<txpool, registry, queue, worker>>,
             \A r \in Requests : status'[r] = "anchor_failed" => status[r] = "anchor_failed"
      PROVE  RunOnce'
  BY <1>1 DEF RunOnce, TxsOf, IsDuplicate
<1>2. ASSUME NEW r \in Requests, IngestStep(r) PROVE RunOnce'
  BY <1>0, <1>1, <1>2
  DEF IngestStep, Receive, FindEventByIdempotencyKey, CreateEvent, CreateEventConflict, IngestFails,
      InsertRow, Dispatch, TypeDb
<1>3. ASSUME NEW r \in Requests, ProcessStep(r) PROVE RunOnce'
  <2>1. CASE UpdateEventToAnchoring(r)
    BY <1>0, <1>1, <2>1 DEF UpdateEventToAnchoring, SealRow, TypeDb
  <2>2. CASE AnchorQueueAdd(r)
    <3>1. job[r] = "none"
      BY <2>2 DEF AnchorQueueAdd, JobsAddedOnce
    <3> QED
      BY <1>0, <2>2, <3>1
      DEF AnchorQueueAdd, AddJob, RunOnce, TxsOf, IsDuplicate, TypeQueue, WorkersHoldOwnTx
  <2> QED
    BY <1>0, <1>3, <2>1, <2>2 DEF ProcessStep, ProcessFails
<1>4. ASSUME NEW r \in Requests, LockExpires(r) \/ StalledCheck(r) PROVE FALSE
  BY <1>0, <1>4 DEF LockExpires, StalledCheck, LocksAreHeld, RunOnce
<1>5. ASSUME NEW p \in Procs, WorkerStep(p) PROVE RunOnce'
  <2>0. \A q \in Procs : q # p /\ wpc[q] # "idle" /\ wpc[p] # "idle" => wjob[q] # wjob[p]
    BY DEF RunOnce
  <2>1. ASSUME NEW r \in Requests, TakeJob(p, r) PROVE RunOnce'
    <3>1. TxsOf(r) = {} /\ \A q \in Procs : wpc[q] # "idle" => wjob[q] # r
      BY <2>1 DEF TakeJob, RunOnce
    <3>2. \A e \in Requests : TxsOf(e)' = TxsOf(e) /\ IsDuplicate(e)' = IsDuplicate(e)
      BY <2>1 DEF TakeJob, TxsOf, IsDuplicate
    <3> QED
      BY <1>0, <2>1, <3>1, <3>2 DEF TakeJob, RunOnce, TypeQueue, TypeWorker, WorkersHoldOwnTx
  <2>2. CASE WriteContract(p)
    <3>1. wjob[p] \in Requests /\ job[wjob[p]] = "active"
      BY <1>0, <2>2 DEF WriteContract, WorkersHoldOwnTx, RunOnce
    <3>2. \A e \in Requests : e # wjob[p] => TxsOf(e)' \in SUBSET TxsOf(e)
      BY <1>0, <2>2 DEF WriteContract, Broadcast, TxsOf, TypeChain, Txs
    <3>3. \A e \in Requests : IsDuplicate(e)' = IsDuplicate(e)
      BY <2>2 DEF WriteContract, IsDuplicate
    <3> QED
      BY <1>0, <2>0, <2>2, <3>1, <3>2, <3>3 DEF WriteContract, RunOnce, TypeWorker, WorkersHoldOwnTx
  <2>3. CASE WriteContractRefused(p)
    <3>1. wjob[p] \in Requests /\ TxsOf(wjob[p]) = {} /\ WouldRevert(wjob[p])
      BY <1>0, <2>3 DEF WriteContractRefused, WorkersHoldOwnTx, RunOnce
    <3>2. \A h \in Hashes : registry[h] # wjob[p]
      <4>1. \A t \in 1..mined : t \in 1..sent
        BY <1>0 DEF TxsFollowRows, TypeChain
      <4> QED
        BY <1>0, <3>1, <4>1 DEF RegisteredWasMined, TxsOf
    <3>3. IsDuplicate(wjob[p])
      BY <1>0, <3>1, <3>2 DEF WouldRevert, IsDuplicate
    <3> QED
      BY <1>0, <2>3, <3>3 DEF WriteContractRefused, RunOnce, TxsOf, IsDuplicate, TypeWorker
  <2>4. CASE ReceiptArrives(p)
    BY <1>0, <2>4 DEF ReceiptArrives, RunOnce, TxsOf, IsDuplicate, TypeWorker
  <2>5. CASE UpdateEventToAnchored(p)
    BY <1>0, <2>5
    DEF UpdateEventToAnchored, RowAnchored, RunOnce, TxsOf, IsDuplicate, TypeWorker, TypeDb
  <2>6. CASE UpdateEventToAnchorFailed(p)
    <3>1. wjob[p] \in Requests /\ IsDuplicate(wjob[p])
      BY <1>0, <2>6 DEF UpdateEventToAnchorFailed, WorkersHoldOwnTx, RunOnce
    <3> QED
      BY <1>0, <2>6, <3>1
      DEF UpdateEventToAnchorFailed, RowFailed, RunOnce, TxsOf, IsDuplicate, TypeWorker, TypeDb
  <2>7. CASE FinishJob(p)
    <3>1. wjob[p] \in Requests /\ lock[wjob[p]] = p /\ wpc[p] # "idle"
      BY <1>0, <2>7 DEF FinishJob, WorkersHoldOwnTx, RunOnce
    <3>2. /\ \A e \in Requests : TxsOf(e)' = TxsOf(e) /\ IsDuplicate(e)' = IsDuplicate(e)
          /\ \A q \in Procs : q # p => wjob'[q] = wjob[q] /\ wpc'[q] = wpc[q]
          /\ wpc'[p] = "idle"
          /\ \E done \in {"completed", "failed"} : job' = [job EXCEPT ![wjob[p]] = done]
          /\ lock' = [lock EXCEPT ![wjob[p]] = NoProc] /\ UNCHANGED status
      BY <1>0, <2>7, <3>1 DEF FinishJob, TxsOf, IsDuplicate, TypeWorker
    <3>3. PICK done \in {"completed", "failed"} : job' = [job EXCEPT ![wjob[p]] = done]
      BY <3>2
    <3>4. \A e \in Requests :
            IF e = wjob[p] THEN job'[e] = done ELSE job'[e] = job[e] /\ lock'[e] = lock[e]
      BY <1>0, <3>1, <3>2, <3>3 DEF TypeQueue
    <3>5. ASSUME NEW q \in Procs, wpc'[q] # "idle"
          PROVE  q # p /\ wjob'[q] = wjob[q] /\ wpc'[q] = wpc[q] /\ wjob[q] \in Requests /\ wjob[q] # wjob[p]
      BY <1>0, <2>0, <3>1, <3>2, <3>5 DEF WorkersHoldOwnTx
    <3> QED
      BY <3>2, <3>4, <3>5 DEF RunOnce
  <2> QED
    BY <1>0, <1>5, <2>1, <2>2, <2>3, <2>4, <2>5, <2>6, <2>7
    DEF WorkerStep, WriteContractUnanswered, ReceiptFails, UpdateEventToAnchoredFails
<1>6. CASE Mine
  <2>1. \A e \in Requests : IsDuplicate(e) => IsDuplicate(e)'
    BY <1>0, <1>6 DEF Mine, WouldRevert, IsDuplicate, TypeChain
  <2>2. \A p \in Procs : wpc[p] # "idle" => wjob[p] \in Requests
    BY <1>0 DEF WorkersHoldOwnTx
  <2> QED
    BY <1>6, <2>1, <2>2 DEF Mine, RunOnce, TxsOf
<1>7. ASSUME NEW p \in Procs, Crash(p) \/ Shutdown(p) PROVE FALSE
  BY <1>0, <1>7 DEF Crash, Shutdown, LoseMemory
<1>8. CASE UNCHANGED vars
  BY <1>1, <1>8
<1> QED
  BY <1>2, <1>3, <1>4, <1>5, <1>6, <1>7, <1>8 DEF Next

\* While nothing fails, expires or stops, an event is marked failed only when its
\* content was already anchored for another event (anchorHash refuses a hash
\* twice).
THEOREM OnlyDuplicatesFail == Spec => []FailedOnlyAsDuplicate
<1> DEFINE Part == Undisturbed => RunOnce
<1>1. Init => RegisteredWasMined /\ Part
  BY DEF Init, RegisteredWasMined, RunOnce, TxsOf
<1>2. PipelineInv /\ [Next]_vars /\ Undisturbed' => Undisturbed
  <2> SUFFICES ASSUME PipelineInv, [Next]_vars, restarts' = 0 PROVE restarts = 0
    BY DEF Undisturbed
  <2>1. restarts \in Nat
    BY ConstantsAssumption DEF PipelineInv, TypeOK
  <2> QED
    BY <2>1
    DEF Next, IngestStep, Receive, FindEventByIdempotencyKey, CreateEvent, CreateEventConflict,
        IngestFails, Dispatch, ProcessStep, UpdateEventToAnchoring, AnchorQueueAdd, ProcessFails,
        LockExpires, StalledCheck, Requeue, WorkerStep, TakeJob, WriteContract, WriteContractRefused,
        WriteContractUnanswered, ReceiptArrives, ReceiptFails, UpdateEventToAnchored,
        UpdateEventToAnchoredFails, UpdateEventToAnchorFailed, FinishJob, Crash, Shutdown,
        LoseMemory, Mine
<1>3. PipelineInv /\ JobsAddedOnce /\ LocksAreHeld /\ RegisteredWasMined /\ Part /\ [Next]_vars => Part'
  BY <1>2, RunOnceStep
<1>4. Part => FailedOnlyAsDuplicate
  BY DEF RunOnce, FailedOnlyAsDuplicate
<1> QED
  BY <1>1, <1>3, <1>4, PipelineInvariant, JobsAreAddedOnce, LocksHaveHolders, RegisteredWasMinedStep,
     PTL DEF Spec

----------------------------------------------------------------------------
(* The safety half of liveness *)

\* What a step may not touch for an event to stay where it was.
Untouched(e) ==
  /\ pc'[e] = pc[e] /\ task'[e] = task[e]
  /\ job'[e] = job[e] /\ lock'[e] = lock[e] /\ stalls'[e] = stalls[e]

\* What HandoverInv says of one worker and of one event.
RunRecorded(p) ==
  /\ wpc[p] = "ack" => status[wjob[p]] \in Settled
  /\ wpc[p] = "nack" => status[wjob[p]] \in Settled \/ InfraMayFail

HandedOn(r) ==
  /\ job[r] = "completed" => status[r] \in Settled
  /\ job[r] = "failed" => status[r] \in Settled \/ InfraMayFail \/ stalls[r] = MaxStalled
  /\ job[r] = "active" /\ lock[r] = NoProc =>
       status[r] \in Settled \/ InfraMayFail \/ restarts # 0 \/ AtWork(r)
  /\ pc[r] = "accepted" => status[r] \in Settled \/ InHand(r) \/ Stranded(r)

\* Each step hands an unsettled event on: from the task to the queue, from the
\* queue to a worker, from a lost worker to the lock's time to live and the
\* stalled check, and from there to the queue again.
LEMMA HandoverInvStep ==
  ASSUME PipelineInv, JobsAddedOnce, LocksAreHeld, HandoverInv, [Next]_vars
  PROVE  HandoverInv'
<1>0. /\ TypeDb /\ TypeIngest /\ TypeQueue /\ TypeWorker /\ restarts \in Nat
      /\ RowsFollowTasks /\ WorkersHoldOwnTx /\ NoProc \notin Procs /\ NoEvent \notin Requests
      /\ MaxStalled \in Nat /\ InfraMayFail \in BOOLEAN
  BY ConstantsAssumption DEF PipelineInv, TypeOK
<1>a. /\ \A p \in Procs : RunRecorded(p)
      /\ \A r \in Requests : HandedOn(r)
  BY DEF HandoverInv, RunRecorded, HandedOn
<1>b. SUFFICES /\ \A p \in Procs : RunRecorded(p)'
               /\ \A r \in Requests : HandedOn(r)'
  BY DEF HandoverInv, RunRecorded, HandedOn
<1>c. \A p \in Procs : wpc[p] # "idle" => wjob[p] \in Requests
  BY <1>0 DEF WorkersHoldOwnTx
<1>1. \A r \in Requests : status[r] \in Settled => status'[r] \in Settled
  BY StatusSteps, <1>0 DEF TypeDb, Settled
<1> DEFINE Goal == /\ \A p \in Procs : RunRecorded(p)'
                   /\ \A r \in Requests : HandedOn(r)'
<1>2. ASSUME NEW p \in Procs, wpc'[p] = wpc[p], wjob'[p] = wjob[p] PROVE RunRecorded(p)'
  BY <1>a, <1>c, <1>1, <1>2 DEF RunRecorded
<1>3. ASSUME NEW e \in Requests, Untouched(e), UNCHANGED restarts, AtWork(e) => AtWork(e)',
             Unrenewed(e) => Unrenewed(e)'
      PROVE  HandedOn(e)'
  <2>1. (InHand(e) => InHand(e)') /\ (Stranded(e) => Stranded(e)')
    BY <1>3 DEF Untouched, InHand, Stranded
  <2> QED
    BY <1>a, <1>1, <1>3, <2>1 DEF Untouched, HandedOn
<1>4. ASSUME UNCHANGED <<worker, restarts>>, NEW e \in Requests, Untouched(e) PROVE HandedOn(e)'
  <2>1. AtWork(e)' = AtWork(e) /\ Unrenewed(e)' = Unrenewed(e)
    BY <1>4 DEF Untouched, AtWork, Unrenewed
  <2> QED
    BY <1>3, <1>4, <2>1
<1>5. ASSUME NEW r \in Requests, IngestStep(r) PROVE Goal
  <2>1. /\ UNCHANGED <<queue, worker, restarts>>
        /\ \A e \in Requests : e # r => pc'[e] = pc[e] /\ task'[e] = task[e]
        /\ pc'[r] = "accepted" => task'[r] = "scheduled"
    BY <1>0, <1>5
    DEF IngestStep, Receive, FindEventByIdempotencyKey, CreateEvent, CreateEventConflict,
        IngestFails, Dispatch, TypeIngest
  <2>2. \A e \in Requests : e # r => HandedOn(e)'
    BY <1>4, <2>1 DEF Untouched
  <2>3. AtWork(r)' = AtWork(r)
    BY <2>1 DEF AtWork
  <2>4. HandedOn(r)'
    BY <1>a, <1>1, <2>1, <2>3 DEF HandedOn, InHand
  <2> QED
    BY <1>2, <2>1, <2>2, <2>4
<1>6. ASSUME NEW r \in Requests, ProcessStep(r) PROVE Goal
  <2>1. /\ UNCHANGED <<pc, lock, stalls, worker, restarts>>
        /\ \A e \in Requests : e # r => job'[e] = job[e] /\ task'[e] = task[e]
        /\ task[r] \in {"scheduled", "enqueue"}
        /\ \/ job'[r] = job[r] /\ task'[r] = "enqueue"
           \/ job'[r] = "waiting"
           \/ job'[r] = job[r] /\ task'[r] = "dead" /\ InfraMayFail
    BY <1>0, <1>6
    DEF ProcessStep, UpdateEventToAnchoring, AnchorQueueAdd, ProcessFails, AddJob, TypeQueue, TypeIngest
  <2>2. \A e \in Requests : e # r => HandedOn(e)'
    BY <1>4, <2>1 DEF Untouched
  <2>3. InHand(r)' \/ Stranded(r)'
    BY <2>1 DEF InHand, Stranded, JobsAddedOnce
  <2>4. job[r] = "none"
    BY <2>1 DEF JobsAddedOnce
  <2>5. HandedOn(r)'
    BY <2>1, <2>3, <2>4 DEF HandedOn
  <2> QED
    BY <1>2, <2>1, <2>2, <2>5
<1>7. ASSUME NEW r \in Requests, LockExpires(r) PROVE Goal
  <2>1. /\ UNCHANGED <<pc, task, job, stalls, worker, restarts>>
        /\ lock'[r] = NoProc /\ lock[r] # NoProc
        /\ \A e \in Requests : e # r => lock'[e] = lock[e]
    BY <1>0, <1>7 DEF LockExpires, TypeQueue
  <2>2. \A e \in Requests : e # r => HandedOn(e)'
    BY <1>4, <2>1 DEF Untouched
  <2>3. job[r] = "active" /\ (restarts # 0 \/ AtWork(r))
    BY <1>0, <2>1 DEF LocksAreHeld, Unrenewed, AtWork, TypeQueue
  <2>4. AtWork(r)' = AtWork(r)
    BY <2>1 DEF AtWork
  <2>5. HandedOn(r)'
    BY <2>1, <2>3, <2>4 DEF HandedOn, InHand
  <2> QED
    BY <1>2, <2>1, <2>2, <2>5
<1>8. ASSUME NEW r \in Requests, StalledCheck(r) PROVE Goal
  <2>1. /\ UNCHANGED <<pc, task, lock, worker, restarts>> /\ job[r] = "active" /\ lock[r] = NoProc
        /\ \A e \in Requests : e # r => job'[e] = job[e] /\ stalls'[e] = stalls[e]
        /\ \/ job'[r] = "waiting"
           \/ job'[r] = "failed" /\ stalls'[r] = MaxStalled
    BY <1>0, <1>8 DEF StalledCheck, Requeue, TypeQueue
  <2>2. \A e \in Requests : e # r => HandedOn(e)'
    BY <1>4, <2>1 DEF Untouched
  <2>3. AtWork(r)' = AtWork(r)
    BY <2>1 DEF AtWork
  <2>4. HandedOn(r)'
    BY <1>a, <1>1, <2>1, <2>3 DEF HandedOn, InHand, Stranded
  <2> QED
    BY <1>2, <2>1, <2>2, <2>4
<1>9. ASSUME NEW p \in Procs, WorkerStep(p) PROVE Goal
  <2>1. ASSUME NEW r \in Requests, TakeJob(p, r) PROVE Goal
    <3>1. /\ UNCHANGED <<pc, task, stalls, restarts>>
          /\ job'[r] = "active" /\ lock'[r] = p /\ wjob'[p] = r /\ wpc'[p] = "submit"
          /\ wpc[p] = "idle" /\ NoProc # p
          /\ \A e \in Requests : e # r => job'[e] = job[e] /\ lock'[e] = lock[e]
          /\ \A q \in Procs : q # p => wpc'[q] = wpc[q] /\ wjob'[q] = wjob[q]
      BY <1>0, <2>1 DEF TakeJob, TypeQueue, TypeWorker
    <3>2. AtWork(r)'
      BY <3>1 DEF AtWork
    <3>3. HandedOn(r)'
      BY <3>1, <3>2 DEF HandedOn, InHand
    <3>4. ASSUME NEW e \in Requests, e # r PROVE HandedOn(e)'
      <4>1. Untouched(e) /\ (AtWork(e) => AtWork(e)')
        BY <3>1, <3>4 DEF Untouched, AtWork
      <4>2. Unrenewed(e) => Unrenewed(e)'
        BY <1>0, <3>1, <3>4 DEF Unrenewed, TypeQueue
      <4> QED
        BY <1>3, <3>1, <4>1, <4>2
    <3>5. RunRecorded(p)'
      BY <3>1 DEF RunRecorded
    <3> QED
      BY <1>2, <3>1, <3>3, <3>4, <3>5
  <2>2. CASE FinishJob(p)
    <3>1. /\ UNCHANGED <<pc, task, stalls, restarts, status>>
          /\ wjob[p] \in Requests /\ wpc[p] \in {"ack", "nack"}
          /\ wpc'[p] = "idle" /\ wjob'[p] = NoEvent
          /\ \A e \in Requests : e # wjob[p] => job'[e] = job[e] /\ lock'[e] = lock[e]
          /\ \A q \in Procs : q # p => wpc'[q] = wpc[q] /\ wjob'[q] = wjob[q]
          /\ IF lock[wjob[p]] = p
             THEN job'[wjob[p]] = IF wpc[p] = "ack" THEN "completed" ELSE "failed"
             ELSE UNCHANGED <<job, lock>>
      BY <1>0, <1>c, <2>2 DEF FinishJob, TypeQueue, TypeWorker
    <3>r. PICK r \in Requests : r = wjob[p]
      BY <3>1
    <3>2. ASSUME NEW e \in Requests, e # r PROVE HandedOn(e)'
      <4>1. Untouched(e) /\ (AtWork(e) => AtWork(e)')
        BY <3>r, <3>1, <3>2 DEF Untouched, AtWork
      <4>2. Unrenewed(e) => Unrenewed(e)'
        BY <3>r, <1>0, <3>1, <3>2 DEF Unrenewed, TypeQueue
      <4> QED
        BY <3>r, <1>3, <3>1, <4>1, <4>2
    <3>3. status[r] \in Settled \/ (InfraMayFail /\ wpc[p] = "nack")
      BY <3>r, <1>a, <3>1 DEF RunRecorded
    <3>4. HandedOn(r)'
      <4>1. CASE status[r] \in Settled
        BY <3>r, <3>1, <4>1 DEF HandedOn
      <4>2. CASE lock[r] = p /\ InfraMayFail /\ wpc[p] = "nack"
        BY <3>r, <3>1, <4>2 DEF HandedOn, Stranded
      <4>3. CASE lock[r] # p /\ InfraMayFail
        <5>1. UNCHANGED <<job, lock>> /\ job[r] # "none"
          BY <3>r, <3>1, <4>3 DEF JobsAddedOnce
        <5>2. CASE job[r] = "active" /\ lock[r] # NoProc
          <6>1. lock[r] \in Procs \ {p}
            BY <3>r, <1>0, <3>1, <4>3, <5>2 DEF TypeQueue
          <6>2. Unrenewed(r) \/ (wjob[lock[r]] = r /\ wpc[lock[r]] # "idle")
            BY <3>r, <3>1, <5>2 DEF LocksAreHeld, Unrenewed
          <6>3. Unrenewed(r)' \/ AtWork(r)'
            BY <3>r, <3>1, <5>1, <6>1, <6>2 DEF Unrenewed, AtWork
          <6> QED
            BY <5>1, <5>2, <6>3 DEF HandedOn, InHand
        <5>3. CASE job[r] = "active" /\ lock[r] = NoProc
          BY <4>3, <5>1, <5>3 DEF HandedOn, InHand
        <5>4. CASE job[r] \in {"waiting", "failed"}
          BY <4>3, <5>1, <5>4 DEF HandedOn, InHand, Stranded
        <5>5. CASE job[r] = "completed"
          BY <3>r, <1>a, <3>1, <5>1, <5>5 DEF HandedOn
        <5> QED
          BY <3>r, <1>0, <3>1, <5>1, <5>2, <5>3, <5>4, <5>5 DEF TypeQueue
      <4> QED
        BY <3>3, <4>1, <4>2, <4>3
    <3>5. RunRecorded(p)'
      BY <3>r, <3>1 DEF RunRecorded
    <3> QED
      BY <3>r, <1>2, <3>1, <3>2, <3>4, <3>5
  <2>3. CASE /\ wpc[p] # "idle" /\ UNCHANGED <<pc, task, queue, wjob, restarts>>
             /\ \/ UNCHANGED wpc
                \/ \E place \in {"confirm", "record", "fail", "ack", "nack"} :
                     wpc' = [wpc EXCEPT ![p] = place]
    <3>1. ASSUME NEW e \in Requests PROVE HandedOn(e)'
      <4>1. Untouched(e) /\ (Unrenewed(e) => Unrenewed(e)')
        BY <2>3 DEF Untouched, Unrenewed
      <4>2. AtWork(e) => AtWork(e)'
        BY <1>0, <2>3 DEF AtWork, TypeWorker
      <4> QED
        BY <1>3, <2>3, <4>1, <4>2
    <3>2. ASSUME NEW q \in Procs, q # p PROVE RunRecorded(q)'
      BY <1>0, <1>2, <2>3, <3>2 DEF TypeWorker
    <3>3. RunRecorded(p)'
      <4>1. CASE UpdateEventToAnchored(p)
        BY <1>0, <1>c, <4>1 DEF UpdateEventToAnchored, RowAnchored, RunRecorded, TypeDb, TypeWorker, Settled
      <4>2. CASE UpdateEventToAnchorFailed(p)
        BY <1>0, <1>c, <4>2 DEF UpdateEventToAnchorFailed, RowFailed, RunRecorded, TypeDb, TypeWorker, Settled
      <4>3. ASSUME wpc'[p] \notin {"ack", "nack"} PROVE RunRecorded(p)'
        BY <4>3 DEF RunRecorded
      <4>4. \/ UpdateEventToAnchored(p) \/ UpdateEventToAnchorFailed(p)
            \/ wpc'[p] \notin {"ack", "nack"}
        BY <1>0, <1>9
        DEF WorkerStep, TakeJob, WriteContract, WriteContractRefused, WriteContractUnanswered,
            RetryOrFail, ReceiptArrives, ReceiptFails, UpdateEventToAnchoredFails, FinishJob, TypeWorker
      <4> QED
        BY <4>1, <4>2, <4>3, <4>4
    <3> QED
      BY <3>1, <3>2, <3>3
  <2> QED
    BY <1>9, <2>1, <2>2, <2>3, WorkerMoves
<1>10. ASSUME NEW p \in Procs, Crash(p) \/ Shutdown(p) PROVE Goal
  <2>1. /\ UNCHANGED <<status, queue>> /\ restarts' # 0
        /\ \A r \in Requests :
             /\ pc'[r] = "accepted" => pc[r] = "accepted"
             /\ task'[r] = task[r] \/ (task[r] \in {"scheduled", "enqueue"} /\ task'[r] = "dead")
        /\ \A q \in Procs : q # p => wpc'[q] = wpc[q] /\ wjob'[q] = wjob[q]
        /\ wpc'[p] = "idle" /\ wjob'[p] = NoEvent
    BY <1>0, <1>10 DEF Crash, Shutdown, LoseMemory, TypeWorker
  <2>2. ASSUME NEW r \in Requests, pc[r] = "accepted", status[r] \notin Settled
        PROVE  InHand(r)' \/ Stranded(r)'
    <3>1. CASE task[r] \in {"scheduled", "enqueue"}
      BY <2>1, <3>1 DEF JobsAddedOnce, InHand, Stranded
    <3>2. CASE job[r] = "waiting"
      BY <2>1, <3>2 DEF InHand
    <3>3. CASE job[r] = "active"
      <4>1. CASE lock[r] \in {NoProc, p}
        BY <1>0, <2>1, <3>3, <4>1 DEF InHand, Unrenewed
      <4>2. CASE lock[r] \notin {NoProc, p}
        <5>1. lock[r] \in Procs \ {p}
          BY <1>0, <4>2 DEF TypeQueue
        <5>2. Unrenewed(r) \/ (wjob[lock[r]] = r /\ wpc[lock[r]] # "idle")
          BY <4>2 DEF LocksAreHeld, Unrenewed
        <5>3. Unrenewed(r)' \/ AtWork(r)'
          BY <2>1, <5>1, <5>2 DEF Unrenewed, AtWork
        <5> QED
          BY <2>1, <3>3, <5>3 DEF InHand
      <4> QED
        BY <4>1, <4>2
    <3>4. CASE job[r] = "failed"
      BY <1>a, <2>1, <2>2, <3>4 DEF HandedOn, Stranded
    <3>5. CASE Stranded(r)
      BY <2>1, <3>5 DEF Stranded
    <3>6. AtWork(r) => job[r] # "none"
      BY DEF AtWork, JobsAddedOnce
    <3> QED
      BY <1>0, <1>a, <2>2, <3>1, <3>2, <3>3, <3>4, <3>5, <3>6 DEF HandedOn, InHand, TypeQueue
  <2>3. \A r \in Requests : HandedOn(r)'
    BY <1>a, <2>1, <2>2 DEF HandedOn
  <2>4. RunRecorded(p)'
    BY <2>1 DEF RunRecorded
  <2> QED
    BY <1>2, <2>1, <2>3, <2>4
<1>11. CASE Mine \/ UNCHANGED vars
  <2>1. UNCHANGED <<pc, task, queue, worker, restarts>>
    BY <1>11 DEF Mine
  <2> QED
    BY <1>2, <1>4, <2>1 DEF Untouched
<1> QED
  BY <1>5, <1>6, <1>7, <1>8, <1>9, <1>10, <1>11 DEF Next

\* An event that was answered with 202 is settled or in hand, whatever fails; what
\* strands it is a fault between the 202 and the queue, a failure that cannot be
\* recorded, or lost processes beyond maxStalledCount.
THEOREM NothingElseStrands == Spec => []StrandedOnlyByFault
<1>1. Init => HandoverInv
  BY DEF Init, HandoverInv
<1>2. PipelineInv /\ JobsAddedOnce /\ LocksAreHeld /\ HandoverInv /\ [Next]_vars => HandoverInv'
  BY HandoverInvStep
<1>3. HandoverInv => StrandedOnlyByFault
  BY DEF HandoverInv, StrandedOnlyByFault
<1> QED
  BY <1>1, <1>2, <1>3, PipelineInvariant, JobsAreAddedOnce, LocksHaveHolders, PTL DEF Spec
=============================================================================
