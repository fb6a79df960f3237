------------------------- MODULE EventQueryProofs -------------------------
(***************************************************************************)
(* Proofs about EventQuery for every finite set of events, every client    *)
(* and every page size, beside a pipeline of any size.                     *)
(***************************************************************************)
EXTENDS EventQuery, EventPipelineProofs

USE DEF db, ingest, queue, worker, txpool, chain, vars, asked, walk, query, qvars

----------------------------------------------------------------------------
(* The pipeline below the queries *)

\* A row without ciphertext has no hash yet.
HashOnlySealed == \A r \in Requests : canonicalHash[r] # NoHash => status[r] \in Prepared

LEMMA HashOnlySealedStep == PipelineInv /\ HashOnlySealed /\ [Next]_vars => HashOnlySealed'
<1> SUFFICES ASSUME PipelineInv, HashOnlySealed, [Next]_vars PROVE HashOnlySealed'
  OBVIOUS
<1>0. TypeDb
  BY DEF PipelineInv, TypeOK
<1>1. \A r \in Requests : status[r] \in Prepared => status'[r] \in Prepared
  BY <1>0, StatusSteps DEF TypeDb, Prepared, Settled
<1>2. CASE UNCHANGED canonicalHash
  BY <1>1, <1>2 DEF HashOnlySealed
<1>3. CASE \E r \in Requests : SealRow(r)
  BY <1>0, <1>3 DEF SealRow, HashOnlySealed, TypeDb, Prepared
<1> QED
  BY <1>2, <1>3
  DEF Next, IngestStep, Receive, FindEventByIdempotencyKey, CreateEvent, CreateEventConflict,
      IngestFails, InsertRow, Dispatch, ProcessStep, UpdateEventToAnchoring, AnchorQueueAdd,
      ProcessFails, LockExpires, StalledCheck, Requeue, WorkerStep, TakeJob, WriteContract, WriteContractRefused,
      WriteContractUnanswered, ReceiptArrives, ReceiptFails, UpdateEventToAnchored,
      UpdateEventToAnchoredFails, UpdateEventToAnchorFailed, RowAnchored, RowFailed, FinishJob,
      Crash, Shutdown, LoseMemory, Mine

\* Nothing that is on chain is ever taken back or changed.
LEMMA ChainGrows ==
  ASSUME PipelineInv, [Next]_vars
  PROVE  /\ mined \in Nat /\ mined' \in Nat /\ mined <= mined'
         /\ \A t \in 1..mined : txEvent'[t] = txEvent[t]
         /\ \A h \in Hashes : registry[h] # NoEvent => registry'[h] # NoEvent
<1>0. TypeChain /\ TxsFollowRows /\ MaxTx \in Nat /\ NoEvent \notin Requests
  BY ConstantsAssumption DEF PipelineInv, TypeOK
<1>1. CASE Mine
  BY <1>0, <1>1 DEF Mine, WouldRevert, TypeChain, TxsFollowRows
<1>2. ASSUME UNCHANGED chain,
             \/ UNCHANGED txpool
             \/ \E r : Broadcast(r)
      PROVE  /\ mined \in Nat /\ mined' \in Nat /\ mined <= mined'
             /\ \A t \in 1..mined : txEvent'[t] = txEvent[t]
             /\ \A h \in Hashes : registry[h] # NoEvent => registry'[h] # NoEvent
  BY <1>0, <1>2 DEF Broadcast, TypeChain, TxsFollowRows, Txs
<1> QED
  BY <1>1, <1>2
  DEF Next, IngestStep, Receive, FindEventByIdempotencyKey, CreateEvent, CreateEventConflict,
      IngestFails, Dispatch, ProcessStep, UpdateEventToAnchoring, AnchorQueueAdd, ProcessFails,
      LockExpires, StalledCheck, Requeue, WorkerStep, TakeJob, WriteContract, WriteContractRefused,
      WriteContractUnanswered, ReceiptArrives, ReceiptFails, UpdateEventToAnchored,
      UpdateEventToAnchoredFails, UpdateEventToAnchorFailed, FinishJob, Crash, Shutdown, LoseMemory

\* The pipeline keeps its invariants whoever queries it.
LEMMA PipelineUnderQueries == QSpec => []PipelineInv /\ []HashOnlySealed
<1>1. QInit => PipelineInv /\ HashOnlySealed
  BY PipelineInvInit DEF QInit, Init, HashOnlySealed
<1>2. [QNext]_qvars => [Next]_vars
  BY DEF QNext, PipelineStep, ClientStep, FindEventById, ToDetail, GetVerification, Answer,
         StartListing, ResolveUserId, ListEvents, CountEvents, NextPage, EndListing, NamedUserRemoved
<1> QED
  BY <1>1, <1>2, PipelineInvStep, HashOnlySealedStep, PTL DEF QSpec

----------------------------------------------------------------------------
(* Answers made of a row that was read earlier *)

\* What was true of a row when it was read is still true after any step.
LEMMA SnapshotsStayTrue ==
  ASSUME PipelineInv, [Next]_vars, NEW s, StillTrue(s)
  PROVE  StillTrue(s)'
<1>1. s.tx # 0 => s.tx <= mined' /\ txEvent'[s.tx] = s.event
  BY ChainGrows DEF StillTrue
<1>2. HashOf[s.event] \in Hashes
  BY ConstantsAssumption DEF StillTrue
<1> QED
  BY <1>1, <1>2, ChainGrows DEF StillTrue

\* A row that is read now is true now.
LEMMA FreshRowIsTrue ==
  ASSUME PipelineInv, HashOnlySealed, NEW r \in Requests, status[r] # "none"
  PROVE  StillTrue([event |-> r, status |-> status[r], text |-> text[r], tx |-> txHash[r],
                    hash |-> canonicalHash[r]])
<1>0. /\ TypeDb /\ TypeChain /\ RowsFollowTasks /\ TxsFollowRows /\ RegistryFollowsTxs
      /\ RowsFollowChain /\ MaxTx \in Nat
  BY ConstantsAssumption DEF PipelineInv, TypeOK
<1>1. txHash[r] # 0 => txHash[r] \in 1..mined /\ txHash[r] \in 1..sent /\ txEvent[txHash[r]] = r
  BY <1>0 DEF RowsFollowChain, TypeDb, TypeChain, TxsFollowRows
<1>2. canonicalHash[r] \in {NoHash, HashOf[r]}
  BY <1>0 DEF RowsFollowTasks, HashOnlySealed
<1>3. status[r] = "anchored" /\ ~ OtherReverts => registry[HashOf[r]] # NoEvent
  BY <1>0, <1>1 DEF RowsFollowChain, RegistryFollowsTxs
<1>4. text[r] # "cipher" => status[r] \notin Prepared
  BY <1>0 DEF RowsFollowTasks
<1>5. status[r] \notin Prepared => status[r] = "processing" /\ canonicalHash[r] = NoHash /\ txHash[r] = 0
  BY <1>0, <1>1 DEF TypeDb, Statuses, Prepared, Settled, HashOnlySealed, TxsFollowRows
<1>6. txHash[r] \in Nat
  BY <1>0 DEF TypeDb
<1> QED
  BY <1>1, <1>2, <1>3, <1>4, <1>5, <1>6 DEF StillTrue

\* No handler answers from anything but a row it has read in its own scope.
LEMMA AnswersInvStep ==
  PipelineInv /\ HashOnlySealed /\ AnswersInv /\ [QNext]_qvars => AnswersInv'
<1> SUFFICES ASSUME PipelineInv, HashOnlySealed, AnswersInv, [QNext]_qvars PROVE AnswersInv'
  OBVIOUS
<1> USE DEF AnswersInv, Permitted, InScope, ResolveDetailScope
<1>1. CASE PipelineStep
  <2>1. [Next]_vars /\ UNCHANGED <<client, qpc, row, answer>>
    BY <1>1 DEF PipelineStep
  <2>2. StillTrue(row) => StillTrue(row)'
    BY <2>1, SnapshotsStayTrue DEF StillTrue
  <2>3. StillTrue(answer.row) => StillTrue(answer.row)'
    BY <2>1, SnapshotsStayTrue DEF StillTrue
  <2> QED
    BY <2>1, <2>2, <2>3
<1>2. ASSUME UNCHANGED <<vars, client, answer>> PROVE StillTrue(answer.row) = StillTrue(answer.row)'
  BY <1>2 DEF StillTrue
<1>3. ASSUME NEW r \in Requests, NEW kind \in {"detail", "verification"}, FindEventById(r, kind)
      PROVE  AnswersInv'
  <2>1. StillTrue(row')
    BY <1>3, FreshRowIsTrue DEF FindEventById
  <2>2. StillTrue(row)'
    BY <1>3, <2>1 DEF FindEventById, StillTrue
  <2>3. row'.event = r
    BY <1>3 DEF FindEventById
  <2> QED
    BY <1>2, <1>3, <2>2, <2>3 DEF FindEventById
<1>4. ASSUME NEW kind, Answer(kind), StillTrue(row) PROVE StillTrue(answer.row)'
  BY <1>4 DEF Answer, StillTrue
<1>5. CASE ToDetail
  BY <1>4, <1>5 DEF ToDetail, Answer
<1>6. CASE GetVerification
  BY <1>4, <1>6 DEF GetVerification, Answer, Verifiable
<1>7. ASSUME UNCHANGED <<vars, client, row, answer>>, qpc' \notin {"detail", "verification"}
      PROVE  AnswersInv'
  BY <1>2, <1>7
<1>8. CASE StartListing \/ ResolveUserId \/ ListEvents \/ CountEvents \/ NextPage \/ EndListing
  BY <1>7, <1>8 DEF StartListing, ResolveUserId, ListEvents, CountEvents, NextPage, EndListing, NamedUserRemoved
<1>9. CASE UNCHANGED qvars
  BY <1>9 DEF StillTrue
<1>10. CASE NamedUserRemoved
  <2>1. UNCHANGED <<vars, client, qpc, row, answer>>
    BY <1>10 DEF NamedUserRemoved
  <2> QED
    BY <2>1 DEF StillTrue
<1> QED
  BY <1>1, <1>3, <1>5, <1>6, <1>8, <1>9, <1>10 DEF QNext, ClientStep

LEMMA AnswersInvariant == QSpec => []AnswersInv
<1>1. QInit => AnswersInv
  BY DEF QInit, AnswersInv
<1> QED
  BY <1>1, PipelineUnderQueries, AnswersInvStep, PTL DEF QSpec

\* A verification that was answered is true of the chain, and stays true
\* (getVerification against the workers).
THEOREM VerificationsAreTrue == QSpec => []VerifiedIsOnChain
<1>1. AnswersInv => VerifiedIsOnChain
  BY ConstantsAssumption DEF AnswersInv, StillTrue, VerifiedIsOnChain
<1> QED
  BY <1>1, AnswersInvariant, PTL

\* A detail that cannot be decrypted is of an event still in "processing"
\* (toDetail against updateEventToAnchoring).
THEOREM UnreadableIsUnsealed == QSpec => []UnreadableOnlyWhileProcessing
<1>1. AnswersInv => UnreadableOnlyWhileProcessing
  BY DEF AnswersInv, StillTrue, UnreadableOnlyWhileProcessing
<1> QED
  BY <1>1, AnswersInvariant, PTL

----------------------------------------------------------------------------
(* Listings *)

\* The rows that ORDER BY puts at or before r.
UpTo(r) == {e \in Selected : IF dir = "asc" THEN createdAt[e] <= createdAt[r]
                                            ELSE createdAt[e] >= createdAt[r]}

LEMMA Ranks ==
  ASSUME NEW r
  PROVE  /\ UpTo(r) \in SUBSET Selected /\ IsFiniteSet(UpTo(r)) /\ IsFiniteSet(Selected)
         /\ Rank(r) = Cardinality(UpTo(r)) /\ Rank(r) \in Nat
         /\ Cardinality(Selected) \in Nat /\ Rank(r) <= Cardinality(Selected)
<1>1. Selected \in SUBSET Requests /\ UpTo(r) \in SUBSET Selected
  BY DEF Selected, UpTo
<1>2. IsFiniteSet(Selected) /\ Cardinality(Selected) \in Nat
  BY <1>1, QueryAssumption, FS_Subset, FS_CardinalityType
<1>3. IsFiniteSet(UpTo(r)) /\ Cardinality(UpTo(r)) \in Nat /\ Cardinality(UpTo(r)) <= Cardinality(Selected)
  BY <1>1, <1>2, FS_Subset, FS_CardinalityType
<1>4. Rank(r) = Cardinality(UpTo(r))
  BY DEF Rank, UpTo
<1> QED
  BY <1>1, <1>2, <1>3, <1>4

\* No page skips no row, whatever the page size.
LEMMA NoPages == \A n \in Nat : 0 * n = 0
  OBVIOUS

\* The listing is in its initial state or has valid parameters.
Parameters ==
  /\ client \in Clients /\ createdAt \in [Requests -> Nat]
  /\ IF Listing
     THEN /\ wanted \in {Statuses, {"anchored"}} /\ Permitted("events:read")
          /\ page \in Nat \ {0} /\ size \in Nat
     ELSE wanted = {} /\ shown = {}
  /\ named /\ wanted \in {{}, Statuses} => steady
  /\ Listing /\ steady /\ ~ named => start = {}
  /\ qpc = "listed" => ~ nextPage

LEMMA ParametersStep == PipelineInv /\ Parameters /\ [QNext]_qvars => Parameters'
<1> SUFFICES ASSUME PipelineInv, Parameters, [QNext]_qvars PROVE Parameters'
  OBVIOUS
<1> USE DEF Parameters, Listing, Permitted
<1>1. CASE PipelineStep
  <2>1. UNCHANGED <<client, named, qpc, page, size, wanted, start, shown, nextPage>>
    BY <1>1 DEF PipelineStep
  <2>2. createdAt' \in [Requests -> Nat]
    <3>1. IsFiniteSet({e \in Requests : status[e] # "none"})
      BY QueryAssumption, FS_Subset
    <3>2. Cardinality({e \in Requests : status[e] # "none"}) \in Nat
      BY <3>1, FS_CardinalityType
    <3>3. 1 + Cardinality({e \in Requests : status[e] # "none"}) \in Nat
      BY <3>2
    <3> QED
      BY <1>1, <3>3 DEF PipelineStep, Created
  <2>3. named /\ wanted \in {{}, Statuses} => steady'
    <3> SUFFICES ASSUME named, wanted \in {{}, Statuses}, NEW r \in Requests, status[r] \in wanted
                 PROVE  status'[r] \in wanted
      BY <1>1 DEF PipelineStep, Matches
    <3>1. TypeDb /\ [Next]_vars
      BY <1>1 DEF PipelineStep, PipelineInv, TypeOK
    <3> QED
      BY <3>1, StatusSteps DEF TypeDb, Statuses
  <2>4. steady' => steady
    BY <1>1 DEF PipelineStep
  <2> QED
    BY <2>1, <2>2, <2>3, <2>4
<1>2. ASSUME NEW r \in Requests, NEW kind \in {"detail", "verification"}, FindEventById(r, kind)
      PROVE  Parameters'
  BY <1>2 DEF FindEventById
<1>3. CASE ToDetail \/ GetVerification
  BY <1>3 DEF ToDetail, GetVerification, Answer
<1>4. CASE StartListing
  <2>1. size' \in Nat
    BY <1>4, QueryAssumption DEF StartListing
  <2>2. {} # Statuses
    BY DEF Statuses
  <2> QED
    BY <1>4, <2>1 DEF StartListing
<1>5. CASE ResolveUserId \/ ListEvents \/ CountEvents \/ EndListing
  BY <1>5 DEF ResolveUserId, ListEvents, CountEvents, EndListing
<1>6. CASE NextPage
  BY <1>6 DEF NextPage
<1>7. CASE UNCHANGED qvars
  BY <1>7
<1>8. CASE NamedUserRemoved
  BY <1>8 DEF NamedUserRemoved
<1> QED
  BY <1>1, <1>2, <1>3, <1>4, <1>5, <1>6, <1>7, <1>8 DEF QNext, ClientStep

\* Only rows that pass the filters of the caller's scope are shown.
ShownInScope == shown \subseteq {r \in Requests : InScope(r, ResolveListScope)}

LEMMA ShownInScopeStep == ShownInScope /\ [QNext]_qvars => ShownInScope'
<1> SUFFICES ASSUME ShownInScope, [QNext]_qvars PROVE ShownInScope'
  OBVIOUS
<1> USE DEF ShownInScope, InScope, ResolveListScope
<1>1. CASE UNCHANGED <<client, shown>>
  BY <1>1
<1>2. CASE StartListing
  BY <1>2 DEF StartListing
<1>3. CASE ListEvents
  BY <1>3 DEF ListEvents, Selected, Matches
<1> QED
  BY <1>1, <1>2, <1>3
  DEF QNext, PipelineStep, ClientStep, FindEventById, ToDetail, GetVerification, Answer,
      ResolveUserId, CountEvents, NextPage, EndListing, NamedUserRemoved

\* Nothing that was selected at the beginning is missing from the pages read.
NothingMissed ==
  Listing /\ steady =>
    /\ start \subseteq Selected
    /\ \A r \in start : Rank(r) <= Covered => r \in shown
    /\ qpc \in {"page", "listed"} /\ ~ nextPage => start \subseteq shown

\* The rank of a row depends on nothing a client does after it began.
LEMMA SameRanks ==
  ASSUME UNCHANGED <<vars, createdAt, client, dir, wanted>>
  PROVE  Selected' = Selected /\ \A r \in Requests : Rank(r)' = Rank(r)
BY DEF Selected, Matches, InScope, ResolveListScope, Rank

\* While no row leaves the selection, no row moves to an earlier rank.
LEMMA RanksGrow ==
  ASSUME PipelineInv, Parameters, Listing, PipelineStep, steady'
  PROVE  Selected \in SUBSET Selected' /\ \A r \in Selected : Rank(r) <= Rank(r)'
<1>0. UNCHANGED <<client, dir, wanted>>
  BY DEF PipelineStep
<1>1. Selected \in SUBSET Selected'
  BY <1>0 DEF PipelineStep, Selected, Matches, InScope, ResolveListScope
<1>2. \A e \in Selected : e \in Requests /\ status[e] # "none"
  BY DEF Selected, Matches, Parameters, Statuses
<1>3. \A e \in Selected : createdAt'[e] = createdAt[e]
  BY <1>2 DEF PipelineStep, Created
<1>4. ASSUME NEW r \in Selected PROVE Rank(r) <= Rank(r)'
  <2>1. UpTo(r) \in SUBSET UpTo(r)'
    BY <1>0, <1>1, <1>3 DEF UpTo
  <2>2. IsFiniteSet(UpTo(r)') /\ Rank(r)' = Cardinality(UpTo(r)')
    <3>1. Selected' \in SUBSET Requests /\ UpTo(r)' \in SUBSET Selected'
      BY DEF Selected, UpTo
    <3>2. IsFiniteSet(UpTo(r)')
      BY <3>1, QueryAssumption, FS_Subset
    <3> QED
      BY <3>2 DEF Rank, UpTo
  <2> QED
    BY <2>1, <2>2, Ranks, FS_Subset
<1> QED
  BY <1>1, <1>4

LEMMA NothingMissedStep ==
  PipelineInv /\ Parameters /\ NothingMissed /\ [QNext]_qvars => NothingMissed'
<1> SUFFICES ASSUME PipelineInv, Parameters, Parameters', NothingMissed, [QNext]_qvars,
                    Listing', steady'
             PROVE  /\ start' \subseteq Selected'
                    /\ \A r \in start' : Rank(r)' <= Covered' => r \in shown'
                    /\ qpc' \in {"page", "listed"} /\ ~ nextPage' => start' \subseteq shown'
  BY ParametersStep DEF NothingMissed
<1> DEFINE Goal == /\ start' \subseteq Selected'
                   /\ \A r \in start' : Rank(r)' <= Covered' => r \in shown'
                   /\ qpc' \in {"page", "listed"} /\ ~ nextPage' => start' \subseteq shown'
<1>0. ASSUME Listing PROVE page \in Nat \ {0} /\ size \in Nat /\ Skip \in Nat /\ page * size \in Nat
                          /\ Skip + size = page * size
  <2>1. page \in Nat \ {0} /\ size \in Nat /\ page - 1 \in Nat
    BY <1>0 DEF Parameters
  <2>2. /\ size * (page - 1) \in Nat /\ size * page \in Nat
        /\ size * ((page - 1) + 1) = size * (page - 1) + size
    BY <2>1, Multiples
  <2>3. (page - 1) * size = size * (page - 1) /\ page * size = size * page /\ (page - 1) + 1 = page
    BY <2>1
  <2> QED
    BY <2>1, <2>2, <2>3 DEF Skip
<1>1. CASE PipelineStep
  <2>0. Listing /\ steady /\ UNCHANGED <<qpc, start, shown, nextPage, page, size>>
    BY <1>1 DEF PipelineStep, Listing
  <2>1. Covered' = Covered /\ Covered \in Nat
    BY <1>0, <2>0 DEF Covered, Skip
  <2>2. start \in SUBSET Selected
    BY <2>0 DEF NothingMissed
  <2>3. Selected \in SUBSET Selected' /\ \A r \in Selected : Rank(r) <= Rank(r)'
    BY <1>1, <2>0, RanksGrow
  <2>4. ASSUME NEW r \in start, Rank(r)' <= Covered PROVE r \in shown
    <3>1. Rank(r) \in Nat /\ Rank(r)' \in Nat /\ Rank(r) <= Rank(r)'
      <4>1. UpTo(r)' \in SUBSET Requests
        BY DEF UpTo, Selected
      <4>2. Cardinality(UpTo(r)') \in Nat
        BY <4>1, QueryAssumption, FS_Subset, FS_CardinalityType
      <4>3. Rank(r)' \in Nat
        BY <4>2 DEF Rank, UpTo
      <4> QED
        BY <2>2, <2>3, <4>3, Ranks
    <3>2. Rank(r) <= Covered
      BY <2>1, <2>4, <3>1
    <3> QED
      BY <2>0, <3>2 DEF NothingMissed
  <2> QED
    BY <2>0, <2>1, <2>2, <2>3, <2>4 DEF NothingMissed
<1>2. CASE StartListing
  <2>1. start' \subseteq Selected'
    BY <1>2 DEF StartListing, Selected, Matches, InScope, ResolveListScope
  <2>2. Covered' = 0 /\ qpc' = "resolve"
    <3>1. size' \in Nat /\ page' = 1 /\ qpc' = "resolve"
      BY <1>2 DEF StartListing, Parameters
    <3>2. page' - 1 = 0
      BY <3>1
    <3>3. (page' - 1) * size' = 0
      BY <3>1, <3>2, NoPages
    <3> QED
      BY <3>1, <3>3 DEF Covered, Skip
  <2>3. ASSUME NEW r \in Selected' PROVE Rank(r)' >= 1
    <3>1. r \in UpTo(r)'
      BY <2>3 DEF Parameters, UpTo, Selected
    <3>2. UpTo(r)' \in SUBSET Requests
      BY DEF UpTo, Selected
    <3>3. IsFiniteSet(UpTo(r)') /\ Cardinality(UpTo(r)') \in Nat
      BY <3>2, QueryAssumption, FS_Subset, FS_CardinalityType
    <3>4. Cardinality(UpTo(r)') # 0
      BY <3>1, <3>3, FS_EmptySet
    <3>5. Rank(r)' = Cardinality(UpTo(r)')
      BY DEF Rank, UpTo
    <3> QED
      BY <3>3, <3>4, <3>5
  <2>4. ASSUME NEW r \in Selected', Rank(r)' <= 0 PROVE FALSE
    <3>1. Rank(r)' \in Nat
      <4>1. UpTo(r)' \in SUBSET Requests
        BY DEF UpTo, Selected
      <4>2. Cardinality(UpTo(r)') \in Nat
        BY <4>1, QueryAssumption, FS_Subset, FS_CardinalityType
      <4> QED
        BY <4>2 DEF Rank, UpTo
    <3> QED
      BY <2>3, <2>4, <3>1
  <2> QED
    BY <2>1, <2>2, <2>4
<1>3. CASE ListEvents
  <2>0. /\ Listing /\ steady /\ qpc = "list" /\ qpc' = "total" /\ start' = start
        /\ page' = page /\ size' = size /\ UNCHANGED <<vars, createdAt, client, dir, wanted>>
    BY <1>3 DEF ListEvents, Listing
  <2>1. Covered = Skip /\ Covered' = page * size
    BY <2>0 DEF Covered
  <2>2. ASSUME NEW r \in start, Rank(r) <= page * size PROVE r \in shown'
    <3>1. r \in Selected /\ Rank(r) \in Nat
      BY <2>0, Ranks DEF NothingMissed
    <3>2. CASE Rank(r) <= Skip
      BY <1>3, <2>0, <2>1, <3>2 DEF NothingMissed, ListEvents
    <3>3. CASE Skip < Rank(r)
      BY <1>0, <1>3, <2>0, <2>2, <3>1, <3>3 DEF ListEvents
    <3> QED
      BY <1>0, <2>0, <3>1, <3>2, <3>3
  <2>3. start \subseteq Selected /\ Selected' = Selected /\ \A r \in Selected : Rank(r)' = Rank(r)
    BY <2>0, SameRanks DEF NothingMissed, Selected
  <2> QED
    BY <2>0, <2>1, <2>2, <2>3
<1>4. CASE CountEvents
  <2>0. /\ Listing /\ steady /\ qpc = "total" /\ qpc' = "page" /\ UNCHANGED <<start, shown>>
        /\ page' = page /\ size' = size /\ UNCHANGED <<vars, createdAt, client, dir, wanted>>
    BY <1>4 DEF CountEvents, Listing
  <2>1. Covered = page * size /\ Covered' = page * size
    BY <2>0 DEF Covered
  <2>2. start \subseteq Selected /\ Selected' = Selected /\ \A r \in Selected : Rank(r)' = Rank(r)
    BY <2>0, SameRanks DEF NothingMissed, Selected
  <2>3. ASSUME ~ nextPage', NEW r \in start PROVE r \in shown
    <3>1. ~ (page * size < Cardinality(Selected))
      BY <1>4, <2>3 DEF CountEvents, HasNext
    <3>2. Rank(r) <= page * size
      BY <1>0, <2>0, <3>1, Ranks
    <3> QED
      BY <2>0, <2>1, <3>2 DEF NothingMissed
  <2> QED
    BY <2>0, <2>1, <2>2, <2>3 DEF NothingMissed
<1>5. CASE NextPage
  <2>0. /\ Listing /\ steady /\ qpc = "page" /\ qpc' = "resolve" /\ UNCHANGED <<start, shown>>
        /\ page' = page + 1 /\ size' = size /\ UNCHANGED <<vars, createdAt, client, dir, wanted>>
    BY <1>5 DEF NextPage, Listing
  <2>1. Covered = page * size /\ Covered' = page * size
    <3>1. page' - 1 = page
      BY <1>0, <2>0
    <3> QED
      BY <2>0, <3>1 DEF Covered, Skip
  <2>2. start \subseteq Selected /\ Selected' = Selected /\ \A r \in Selected : Rank(r)' = Rank(r)
    BY <2>0, SameRanks DEF NothingMissed, Selected
  <2> QED
    BY <2>0, <2>1, <2>2 DEF NothingMissed
<1>6. CASE EndListing
  <2>0. /\ Listing /\ steady /\ qpc = "page" /\ qpc' = "listed" /\ UNCHANGED <<start, shown, nextPage>>
        /\ page' = page /\ size' = size /\ UNCHANGED <<vars, createdAt, client, dir, wanted>>
    BY <1>6 DEF EndListing, Listing
  <2>1. Covered = page * size /\ Covered' = page * size
    BY <2>0 DEF Covered
  <2>2. start \subseteq Selected /\ Selected' = Selected /\ \A r \in Selected : Rank(r)' = Rank(r)
    BY <2>0, SameRanks DEF NothingMissed, Selected
  <2> QED
    BY <2>0, <2>1, <2>2 DEF NothingMissed
<1>7. CASE (\E r \in Requests, kind \in {"detail", "verification"} : FindEventById(r, kind))
           \/ ToDetail \/ GetVerification
  BY <1>7 DEF FindEventById, ToDetail, GetVerification, Answer, Listing
<1>8. CASE UNCHANGED qvars
  <2>1. Selected' = Selected /\ \A r \in Selected : Rank(r)' = Rank(r)
    BY <1>8, SameRanks DEF Selected
  <2>2. Covered' = Covered /\ Listing /\ steady
    BY <1>8 DEF Covered, Skip, Listing
  <2> QED
    BY <1>8, <2>1, <2>2 DEF NothingMissed
<1>9. CASE ResolveUserId
  <2>0. /\ Listing /\ steady /\ qpc = "resolve" /\ UNCHANGED <<start, shown>>
        /\ page' = page /\ size' = size /\ UNCHANGED <<vars, createdAt, client, dir, wanted>>
    BY <1>9 DEF ResolveUserId, Listing
  <2>1. start \subseteq Selected /\ Selected' = Selected /\ \A r \in Selected : Rank(r)' = Rank(r)
    BY <2>0, SameRanks DEF NothingMissed, Selected
  <2>2. CASE named
    <3>1. qpc' = "list" /\ Covered' = Covered
      BY <1>9, <2>0, <2>2 DEF ResolveUserId, Covered, Skip
    <3> QED
      BY <2>0, <2>1, <3>1 DEF NothingMissed
  <2>3. CASE ~ named
    BY <2>0, <2>3 DEF Parameters
  <2> QED
    BY <2>2, <2>3
<1>10. CASE NamedUserRemoved
  BY <1>10 DEF NamedUserRemoved
<1> QED
  BY <1>1, <1>2, <1>3, <1>4, <1>5, <1>6, <1>7, <1>8, <1>9, <1>10 DEF QNext, ClientStep

\* The inductive invariant of a listing holds in every reachable state
\* (EventQueryService.list, getManyAndCount).
THEOREM ListingInvariant == QSpec => []ListingInv
<1>1. QInit => Parameters /\ ShownInScope /\ NothingMissed
  BY DEF QInit, Parameters, ShownInScope, NothingMissed, Listing
<1>2. Parameters /\ ShownInScope /\ NothingMissed => ListingInv
  BY DEF Parameters, ShownInScope, NothingMissed, ListingInv
<1> QED
  BY <1>1, <1>2, PipelineUnderQueries, ParametersStep, ShownInScopeStep, NothingMissedStep, PTL DEF QSpec

\* Following has_next to the end shows every event that was selected at the
\* beginning, whatever is inserted meanwhile (listEvents, has_next).
THEOREM ListingsAreComplete == QSpec => []ListingMissesNothing
<1>1. ListingInv => ListingMissesNothing
  BY DEF ListingInv, Listing, ListingMissesNothing
<1> QED
  BY <1>1, ListingInvariant, PTL

\* No client is shown an event of another organisation, no member another's, and
\* a key sees only what its permissions allow (resolveListScope,
\* resolveDetailScope).
THEOREM ScopesAreKept == QSpec => []ScopeIsKept
<1>1. AnswersInv /\ ListingInv => ScopeIsKept
  <2> SUFFICES ASSUME AnswersInv, ListingInv PROVE ScopeIsKept
    OBVIOUS
  <2>0. client \in Clients /\ (client.kind = "member" => client.user # AnyUser)
    BY QueryAssumption DEF ListingInv
  <2>1. ASSUME NEW r \in shown
        PROVE  /\ OrgOf[r] = client.org
               /\ client.kind = "member" => UserOf[r] = client.user
               /\ Permitted("events:read")
    BY <2>0, <2>1 DEF ListingInv, InScope, ResolveListScope
  <2>2. ASSUME answer.row.event # NoEvent
        PROVE  /\ OrgOf[answer.row.event] = client.org
               /\ client.kind = "member" => UserOf[answer.row.event] = client.user
    BY <2>0, <2>2 DEF AnswersInv, NoRow, InScope, ResolveDetailScope
  <2> QED
    BY <2>1, <2>2 DEF ScopeIsKept, AnswersInv, Permitted
<1> QED
  BY <1>1, AnswersInvariant, ListingInvariant, PTL
=============================================================================
