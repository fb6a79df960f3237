---------------------------- MODULE AnchorLedger ----------------------------
(***************************************************************************)
(* What the service promises about an audit event, with the queue, the     *)
(* workers, the retries and the processes left out: an accepted event is   *)
(* prepared once, its hash may enter the public ledger only afterwards,    *)
(* the ledger only grows, and the event is reported as anchored only while *)
(* its hash is in the ledger.                                              *)
(***************************************************************************)
CONSTANTS Events, HashOf

VARIABLES
  status,   \* the lifecycle of each event
  ledger    \* the hashes that the public registry holds

Prepared == {"anchoring", "anchored", "anchor_failed"}

LInit ==
  /\ status = [e \in Events |-> "none"]
  /\ ledger = {}

\* The event is stored and the caller told so.
Accept(e) ==
  /\ status[e] = "none"
  /\ status' = [status EXCEPT ![e] = "processing"]
  /\ UNCHANGED ledger

\* The event is hashed and its plaintext sealed.
Prepare(e) ==
  /\ status[e] = "processing"
  /\ status' = [status EXCEPT ![e] = "anchoring"]
  /\ UNCHANGED ledger

\* The hash of a prepared event becomes public.
Register(e) ==
  /\ status[e] \in Prepared
  /\ HashOf[e] \notin ledger
  /\ ledger' = ledger \cup {HashOf[e]}
  /\ UNCHANGED status

\* The event is reported as anchored.
Anchor(e) ==
  /\ status[e] \in Prepared
  /\ HashOf[e] \in ledger
  /\ status' = [status EXCEPT ![e] = "anchored"]
  /\ UNCHANGED ledger

\* The event is reported as failed.
Fail(e) ==
  /\ status[e] \in Prepared
  /\ status' = [status EXCEPT ![e] = "anchor_failed"]
  /\ UNCHANGED ledger

LNext ==
  \E e \in Events : Accept(e) \/ Prepare(e) \/ Register(e) \/ Anchor(e) \/ Fail(e)

LSpec == LInit /\ [][LNext]_<<status, ledger>>
=============================================================================
