----------------------------- MODULE RagOutbox -----------------------------
(***************************************************************************)
(* The transactional outbox of the RAG application: the rag_outbox_event    *)
(* table and the rag_dispatch_outbox task, which locks a batch of pending   *)
(* events with FOR UPDATE SKIP LOCKED, publishes each of them to the Celery *)
(* broker, records the outcome and commits.                                 *)
(*                                                                          *)
(* An event is identified by the unique key (event_type, aggregate_id,      *)
(* dedupe_key); the payload it carries is the message that is published.    *)
(***************************************************************************)
EXTENDS Integers, FiniteSets

CONSTANTS
    Events,       \* unique keys of outbox rows, and the messages they publish
    Poison,       \* events whose payload or type the dispatcher rejects
    Dispatchers,  \* concurrent runs of rag_dispatch_outbox
    Limit,        \* batch size of one run (limit = 100 in the code)
    MaxAttempts,  \* RAG_OUTBOX_MAX_DISPATCH_ATTEMPTS
    MaxDispatchFaults  \* bound: dispatcher faults in one behaviour

ASSUME OutboxAssumption ==
    /\ IsFiniteSet(Events)
    /\ Poison \subseteq Events
    /\ Limit \in Nat \ {0}
    /\ MaxAttempts \in Nat \ {0}
    /\ MaxDispatchFaults \in Nat

VARIABLES
    evStatus,  \* evStatus[e]: column status, "NONE" when there is no row
    evId,      \* evId[e]: primary key, 0 when there is no row
    attempts,  \* attempts[e]: column dispatch_attempts
    batch,     \* batch[p]: rows locked by the open transaction of p
    sent,      \* sent[p]: rows of that batch that p has published
    published, \* history: events whose message has reached the broker
    dispatchFaults  \* refused publications and crashed dispatchers so far

vars == <<evStatus, evId, attempts, batch, sent, published, dispatchFaults>>

EventStatus == {"NONE", "PENDING", "DISPATCHED", "FAILED", "DEAD"}

Init ==
    /\ evStatus = [e \in Events |-> "NONE"]
    /\ evId = [e \in Events |-> 0]
    /\ attempts = [e \in Events |-> 0]
    /\ batch = [p \in Dispatchers |-> {}]
    /\ sent = [p \in Dispatchers |-> {}]
    /\ published = {}
    /\ dispatchFaults = 0

DispatchFault ==
    /\ dispatchFaults < MaxDispatchFaults
    /\ dispatchFaults' = dispatchFaults + 1

Rows == {e \in Events : evStatus[e] # "NONE"}

----------------------------------------------------------------------------
(* Producers: enqueue_document_index and enqueue_document_delete.           *)

\* The INSERTs of one transaction: a key that already has a row is left alone,
\* a new row is PENDING with the next primary key.
InsertRows(new) ==
    LET fresh == new \ Rows
        ids   == {f \in [fresh -> Cardinality(Rows) + 1 ..
                                  Cardinality(Rows) + Cardinality(fresh)] :
                    \A a, b \in fresh : a # b => f[a] # f[b]}
    IN  /\ evStatus' = [e \in Events |->
                            IF e \in fresh THEN "PENDING" ELSE evStatus[e]]
        /\ \E f \in ids :
              evId' = [e \in Events |-> IF e \in fresh THEN f[e] ELSE evId[e]]
        /\ UNCHANGED <<attempts, batch, sent, published, dispatchFaults>>

\* One API transaction: upload, retry, delete, or delete of a knowledge base.
Enqueue(new) ==
    /\ new # {}
    /\ new \cap Rows = {}
    /\ InsertRows(new)

----------------------------------------------------------------------------
(* The dispatcher.                                                          *)

\* Variant: FOR UPDATE is left out of the claim.
LockedNone == {}

Locked == UNION {batch[p] : p \in Dispatchers}

Claimable == {e \in Events : evStatus[e] \in {"PENDING", "FAILED"}}

\* claim_pending_events: WHERE status IN (PENDING, FAILED) ORDER BY id
\* LIMIT limit FOR UPDATE SKIP LOCKED.
ClaimPendingEvents(p, B) ==
    LET free == Claimable \ Locked
    IN  /\ batch[p] = {}
        /\ B # {}
        /\ B \subseteq free
        /\ Cardinality(B) <= Limit
        /\ B # free => Cardinality(B) = Limit
        /\ \A e \in B, f \in free \ B : evId[e] < evId[f]

\* Variant: an event is marked whether or not delay() returned.
MarkedAnyway(ok, out) == TRUE

\* mark_dispatched comes after delay() has returned.
Marked(ok, out) == ok \subseteq out

\* The loop over the batch: each event is published, or its publication fails:
\* a rejected payload, or a broker error, after which the message may be out all
\* the same.  ok is recorded as sent, out has reached the broker.
DispatchBatch(p, B, ok, out) ==
    /\ ClaimPendingEvents(p, B)
    /\ Marked(ok, out)
    /\ out \subseteq B \ Poison
    /\ batch' = [batch EXCEPT ![p] = B]
    /\ sent' = [sent EXCEPT ![p] = ok]
    /\ published' = published \cup out
    /\ IF ok = B \ Poison THEN UNCHANGED dispatchFaults ELSE DispatchFault
    /\ UNCHANGED <<evStatus, evId, attempts>>

\* Variants: one attempt too many, a row that is not tried again.
FailedStatusLate(n) == IF n > MaxAttempts THEN "DEAD" ELSE "FAILED"
FailedStatusAtOnce(n) == "DEAD"

\* mark_failed: DEAD once the attempts reach the maximum, FAILED before.
FailedStatus(n) == IF n >= MaxAttempts THEN "DEAD" ELSE "FAILED"

\* mark_dispatched and mark_failed over the batch, then COMMIT.
DispatchCommit(p) ==
    /\ batch[p] # {}
    /\ evStatus' = [e \in Events |->
                        IF e \in sent[p] THEN "DISPATCHED"
                        ELSE IF e \in batch[p] THEN FailedStatus(attempts[e] + 1)
                        ELSE evStatus[e]]
    /\ attempts' = [e \in Events |->
                        IF e \in batch[p] THEN attempts[e] + 1 ELSE attempts[e]]
    /\ batch' = [batch EXCEPT ![p] = {}]
    /\ sent' = [sent EXCEPT ![p] = {}]
    /\ UNCHANGED <<evId, published, dispatchFaults>>

\* The worker dies, or COMMIT fails, after messages have left: the rows keep
\* their old state and lose their locks, the published messages stay published.
DispatchCrash(p) ==
    /\ batch[p] # {}
    /\ DispatchFault
    /\ batch' = [batch EXCEPT ![p] = {}]
    /\ sent' = [sent EXCEPT ![p] = {}]
    /\ UNCHANGED <<evStatus, evId, attempts, published>>

Dispatch(p) ==
    \/ \E B \in SUBSET Claimable : \E out \in SUBSET B : \E ok \in SUBSET B :
          DispatchBatch(p, B, ok, out)
    \/ DispatchCommit(p)

Next ==
    \/ \E new \in SUBSET Events : Enqueue(new)
    \/ \E p \in Dispatchers : Dispatch(p) \/ DispatchCrash(p)

Spec == Init /\ [][Next]_vars

\* Beat starts rag_dispatch_outbox every RAG_OUTBOX_DISPATCH_INTERVAL_SECONDS,
\* and a run that does not crash reaches its COMMIT.
Fairness == \A p \in Dispatchers : WF_vars(Dispatch(p))

FairSpec == Spec /\ Fairness

----------------------------------------------------------------------------
(* Properties.                                                              *)

\* The type of every variable of the outbox.
TypeOK ==
    /\ evStatus \in [Events -> EventStatus]
    /\ evId \in [Events -> Nat]
    /\ attempts \in [Events -> 0 .. MaxAttempts]
    /\ batch \in [Dispatchers -> SUBSET Events]
    /\ sent \in [Dispatchers -> SUBSET Events]
    /\ published \subseteq Events
    /\ dispatchFaults \in 0 .. MaxDispatchFaults

\* Several dispatchers run at once and SKIP LOCKED keeps their batches apart:
\* no event is in two open transactions, so none is counted or marked twice,
\* and a row in an open batch is still claimable for whoever comes after a
\* crash (claim_pending_events).
BatchesDisjoint ==
    /\ \A p, q \in Dispatchers : p # q => batch[p] \cap batch[q] = {}
    /\ \A p \in Dispatchers : batch[p] \subseteq Claimable

\* The outbox loses nothing across crashes between publication and COMMIT: a
\* row is DISPATCHED only if its message did reach the broker (mark_dispatched
\* after delay, both before COMMIT).
DispatchedWasPublished ==
    \A e \in Events : evStatus[e] = "DISPATCHED" => e \in published

\* A row leaves the rotation as DEAD only after MaxAttempts recorded failures,
\* and a row that has used its attempts is never claimed again (mark_failed).
DeadMeansExhausted ==
    \A e \in Events :
        /\ evStatus[e] = "DEAD" => attempts[e] = MaxAttempts
        /\ evStatus[e] \in {"PENDING", "FAILED"} => attempts[e] < MaxAttempts

\* An event the dispatcher can publish is eventually DISPATCHED, also when
\* events it cannot publish would fill a whole batch at every run (the
\* starvation mark_failed is written against).  Holds while the broker refuses
\* fewer than MaxAttempts times.
GoodEventsDispatched ==
    \A e \in Events \ Poison :
        evStatus[e] = "PENDING" ~> evStatus[e] = "DISPATCHED"
=============================================================================
