-------------------------- MODULE RagOutboxProofs --------------------------
(* The safety invariants of the outbox, for any events, dispatchers, batch   *)
(* size and number of attempts.                                              *)
EXTENDS RagOutbox, FiniteSetTheorems, TLAPS

\* What a dispatcher has recorded as sent belongs to its batch and has reached
\* the broker: this is what its COMMIT relies on (_dispatch_event).
SentWasPublished ==
    \A p \in Dispatchers : sent[p] \subseteq batch[p] \cap published

\* A key without a row has no attempts (DEFAULT 0 of dispatch_attempts).
NoRowNoAttempts == \A e \in Events : evStatus[e] = "NONE" => attempts[e] = 0

\* The inductive invariant.
IInv ==
    /\ TypeOK
    /\ BatchesDisjoint
    /\ SentWasPublished
    /\ NoRowNoAttempts
    /\ DispatchedWasPublished
    /\ DeadMeansExhausted

\* The tables start empty and no dispatcher runs: the initial states satisfy
\* the invariant.
LEMMA InitIInv == Init => IInv
<1> USE OutboxAssumption
<1> SUFFICES ASSUME Init PROVE IInv
  OBVIOUS
<1>1. TypeOK
  BY DEF Init, TypeOK, EventStatus
<1>2. BatchesDisjoint /\ SentWasPublished
  BY DEF Init, BatchesDisjoint, SentWasPublished, Claimable
<1>3. NoRowNoAttempts /\ DispatchedWasPublished /\ DeadMeansExhausted
  BY DEF Init, NoRowNoAttempts, DispatchedWasPublished, DeadMeansExhausted
<1> QED
  BY <1>1, <1>2, <1>3 DEF IInv

\* The rows of the table are finitely many, so primary keys are numbers.
LEMMA RowsCardinality ==
    /\ IsFiniteSet(Rows) /\ Cardinality(Rows) \in Nat
    /\ \A new \in SUBSET Events : Cardinality(new \ Rows) \in Nat
<1>1. Rows \subseteq Events
  BY DEF Rows
<1>2. IsFiniteSet(Rows) /\ Cardinality(Rows) \in Nat
  BY <1>1, OutboxAssumption, FS_Subset, FS_CardinalityType
<1>3. ASSUME NEW new \in SUBSET Events PROVE Cardinality(new \ Rows) \in Nat
  BY OutboxAssumption, FS_Subset, FS_CardinalityType
<1> QED
  BY <1>2, <1>3

\* An API transaction that inserts events keeps the invariant: it touches only
\* keys that had no row (enqueue_document_index, enqueue_document_delete).
LEMMA InsertRowsIInv ==
    ASSUME IInv, NEW new \in SUBSET Events, InsertRows(new) PROVE IInv'
<1> DEFINE fresh == new \ Rows
<1> USE OutboxAssumption
<1>0. /\ evStatus' = [e \in Events |->
                         IF e \in fresh THEN "PENDING" ELSE evStatus[e]]
      /\ UNCHANGED <<attempts, batch, sent, published, dispatchFaults>>
  BY DEF InsertRows
<1>1. evId' \in [Events -> Nat]
  <2>1. PICK f \in [fresh -> Cardinality(Rows) + 1 ..
                             Cardinality(Rows) + Cardinality(fresh)] :
           evId' = [e \in Events |-> IF e \in fresh THEN f[e] ELSE evId[e]]
    BY DEF InsertRows
  <2>2. \A e \in fresh : f[e] \in Nat
    BY <2>1, RowsCardinality
  <2> QED
    BY <2>1, <2>2 DEF IInv, TypeOK
<1>2. TypeOK'
  BY <1>0, <1>1 DEF IInv, TypeOK, EventStatus
<1>3. \A e \in Events : evStatus'[e] # evStatus[e] =>
         evStatus[e] = "NONE" /\ evStatus'[e] = "PENDING"
  BY <1>0 DEF IInv, TypeOK, Rows
<1>4. BatchesDisjoint'
  BY <1>0, <1>3 DEF IInv, TypeOK, BatchesDisjoint, Claimable
<1>5. SentWasPublished'
  BY <1>0 DEF IInv, SentWasPublished
<1>6. NoRowNoAttempts' /\ DispatchedWasPublished' /\ DeadMeansExhausted'
  BY <1>0, <1>3 DEF IInv, TypeOK, NoRowNoAttempts, DispatchedWasPublished,
                    DeadMeansExhausted
<1> QED
  BY <1>2, <1>4, <1>5, <1>6 DEF IInv

\* A dispatcher that claims rows and publishes them keeps the invariant: the
\* batch is disjoint from every locked one (claim_pending_events).
LEMMA DispatchBatchIInv ==
    ASSUME IInv, NEW p \in Dispatchers, NEW B \in SUBSET Claimable,
           NEW out \in SUBSET B, NEW ok \in SUBSET B,
           DispatchBatch(p, B, ok, out)
    PROVE  IInv'
<1> USE OutboxAssumption
<1>0. /\ batch' = [batch EXCEPT ![p] = B]
      /\ sent' = [sent EXCEPT ![p] = ok]
      /\ published' = published \cup out
      /\ ok \subseteq out
      /\ UNCHANGED <<evStatus, evId, attempts>>
      /\ B \cap Locked = {} /\ B \subseteq Events
  BY DEF DispatchBatch, ClaimPendingEvents, Marked, Claimable
<1>1. dispatchFaults' \in 0 .. MaxDispatchFaults
  BY DEF DispatchBatch, DispatchFault, IInv, TypeOK
<1>2. TypeOK'
  BY <1>0, <1>1 DEF IInv, TypeOK
<1>3. BatchesDisjoint'
  <2>1. \A q \in Dispatchers : q # p => B \cap batch[q] = {}
    BY <1>0 DEF Locked
  <2> QED
    BY <1>0, <2>1 DEF IInv, TypeOK, BatchesDisjoint, Claimable
<1>4. SentWasPublished'
  BY <1>0 DEF IInv, TypeOK, SentWasPublished
<1>5. NoRowNoAttempts' /\ DispatchedWasPublished' /\ DeadMeansExhausted'
  BY <1>0 DEF IInv, NoRowNoAttempts, DispatchedWasPublished, DeadMeansExhausted
<1> QED
  BY <1>2, <1>3, <1>4, <1>5 DEF IInv

\* The COMMIT of a dispatcher keeps the invariant: its rows were locked since
\* they were claimed, so each had attempts left (mark_dispatched, mark_failed).
LEMMA DispatchCommitIInv ==
    ASSUME IInv, NEW p \in Dispatchers, DispatchCommit(p) PROVE IInv'
<1> USE OutboxAssumption
<1>0. /\ evStatus' = [e \in Events |->
                         IF e \in sent[p] THEN "DISPATCHED"
                         ELSE IF e \in batch[p] THEN FailedStatus(attempts[e] + 1)
                         ELSE evStatus[e]]
      /\ attempts' = [e \in Events |->
                         IF e \in batch[p] THEN attempts[e] + 1 ELSE attempts[e]]
      /\ batch' = [batch EXCEPT ![p] = {}]
      /\ sent' = [sent EXCEPT ![p] = {}]
      /\ UNCHANGED <<evId, published, dispatchFaults>>
  BY DEF DispatchCommit
<1>1. /\ batch[p] \subseteq Claimable
      /\ sent[p] \subseteq batch[p]
      /\ sent[p] \subseteq published
  BY DEF IInv, BatchesDisjoint, SentWasPublished
<1>2. \A e \in batch[p] : attempts[e] + 1 \in 1 .. MaxAttempts
  BY <1>1 DEF IInv, TypeOK, DeadMeansExhausted, Claimable
<1>3. TypeOK'
  <2>1. evStatus' \in [Events -> EventStatus]
    BY <1>0 DEF IInv, TypeOK, EventStatus, FailedStatus
  <2>2. attempts' \in [Events -> 0 .. MaxAttempts]
    BY <1>0, <1>2 DEF IInv, TypeOK
  <2> QED
    BY <1>0, <2>1, <2>2 DEF IInv, TypeOK
<1>4. BatchesDisjoint'
  <2>1. \A q \in Dispatchers : q # p => batch[q] \cap batch[p] = {}
    BY DEF IInv, BatchesDisjoint
  <2>2. \A q \in Dispatchers \ {p} : \A e \in batch[q] : evStatus'[e] = evStatus[e]
    BY <1>0, <1>1, <2>1 DEF IInv, TypeOK
  <2> QED
    BY <1>0, <2>2 DEF IInv, TypeOK, BatchesDisjoint, Claimable
<1>5. SentWasPublished'
  BY <1>0 DEF IInv, TypeOK, SentWasPublished
<1>6. NoRowNoAttempts' /\ DispatchedWasPublished'
  BY <1>0, <1>1 DEF IInv, TypeOK, NoRowNoAttempts, DispatchedWasPublished,
                    FailedStatus, Claimable
<1>7. DeadMeansExhausted'
  <2> SUFFICES ASSUME NEW e \in Events
               PROVE  /\ evStatus'[e] = "DEAD" => attempts'[e] = MaxAttempts
                      /\ evStatus'[e] \in {"PENDING", "FAILED"} =>
                            attempts'[e] < MaxAttempts
    BY DEF DeadMeansExhausted
  <2>1. CASE e \in batch[p]
    BY <1>0, <1>2, <2>1 DEF IInv, TypeOK, FailedStatus
  <2>2. CASE e \notin batch[p]
    BY <1>0, <1>1, <2>2 DEF IInv, DeadMeansExhausted
  <2> QED
    BY <2>1, <2>2
<1> QED
  BY <1>3, <1>4, <1>5, <1>6, <1>7 DEF IInv

\* A dispatcher that dies releases its locks and keeps the invariant.
LEMMA DispatchCrashIInv ==
    ASSUME IInv, NEW p \in Dispatchers, DispatchCrash(p) PROVE IInv'
<1> USE OutboxAssumption
<1>0. /\ batch' = [batch EXCEPT ![p] = {}]
      /\ sent' = [sent EXCEPT ![p] = {}]
      /\ UNCHANGED <<evStatus, evId, attempts, published>>
  BY DEF DispatchCrash
<1>1. TypeOK'
  BY <1>0 DEF DispatchCrash, DispatchFault, IInv, TypeOK
<1>2. BatchesDisjoint' /\ SentWasPublished'
  BY <1>0 DEF IInv, TypeOK, BatchesDisjoint, SentWasPublished, Claimable
<1>3. NoRowNoAttempts' /\ DispatchedWasPublished' /\ DeadMeansExhausted'
  BY <1>0 DEF IInv, NoRowNoAttempts, DispatchedWasPublished, DeadMeansExhausted
<1> QED
  BY <1>1, <1>2, <1>3 DEF IInv

\* Every step of the outbox, and every step that leaves it alone, keeps the
\* invariant.
LEMMA NextIInv == IInv /\ [Next]_vars => IInv'
<1> SUFFICES ASSUME IInv, [Next]_vars PROVE IInv'
  OBVIOUS
<1>1. CASE UNCHANGED vars
  BY <1>1 DEF vars, IInv, TypeOK, BatchesDisjoint, SentWasPublished,
              NoRowNoAttempts, DispatchedWasPublished, DeadMeansExhausted,
              Claimable
<1>2. ASSUME NEW new \in SUBSET Events, Enqueue(new) PROVE IInv'
  BY <1>2, InsertRowsIInv DEF Enqueue
<1>3. ASSUME NEW p \in Dispatchers, Dispatch(p) PROVE IInv'
  BY <1>3, DispatchBatchIInv, DispatchCommitIInv DEF Dispatch
<1>4. ASSUME NEW p \in Dispatchers, DispatchCrash(p) PROVE IInv'
  BY <1>4, DispatchCrashIInv
<1> QED
  BY <1>1, <1>2, <1>3, <1>4 DEF Next

\* The inductive invariant holds of every behaviour of the outbox.
THEOREM Invariance == Spec => []IInv
<1>1. Init => IInv
  BY InitIInv
<1>2. IInv /\ [Next]_vars => IInv'
  BY NextIInv
<1> QED
  BY <1>1, <1>2, PTL DEF Spec

\* Every column and every dispatcher's bookkeeping keeps its type, attempts
\* never pass the configured maximum.
THEOREM TypeCorrect == Spec => []TypeOK
<1>1. IInv => TypeOK
  BY DEF IInv
<1> QED
  BY <1>1, Invariance, PTL

\* However many dispatchers overlap, SKIP LOCKED gives each its own rows.
THEOREM Disjointness == Spec => []BatchesDisjoint
<1>1. IInv => BatchesDisjoint
  BY DEF IInv
<1> QED
  BY <1>1, Invariance, PTL

\* At-least-once: no crash between publication and COMMIT makes a row
\* DISPATCHED whose message never reached the broker.
THEOREM NothingLost == Spec => []DispatchedWasPublished
<1>1. IInv => DispatchedWasPublished
  BY DEF IInv
<1> QED
  BY <1>1, Invariance, PTL

\* A row is given up exactly when its attempts are used up.
THEOREM DeadRows == Spec => []DeadMeansExhausted
<1>1. IInv => DeadMeansExhausted
  BY DEF IInv
<1> QED
  BY <1>1, Invariance, PTL
=============================================================================
