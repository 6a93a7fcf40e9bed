---------------------------- MODULE RagIndexing ----------------------------
(***************************************************************************)
(* The life of a document of one knowledge base: HTTP requests upload,      *)
(* retry and delete it, the outbox turns their commits into Celery          *)
(* messages, workers index or erase it, and a periodic task repairs what    *)
(* got stuck.                                                               *)
(*                                                                          *)
(* The database is PostgreSQL at READ COMMITTED: every transaction reads    *)
(* committed rows, SELECT ... FOR UPDATE and UPDATE wait for a locked row,  *)
(* and what a transaction writes appears when it commits.  An ORM UPDATE    *)
(* writes the columns whose value differs from the value that was read.     *)
(***************************************************************************)
EXTENDS Integers, FiniteSets

CONSTANTS
    Docs,              \* primary keys of document rows, each used once
    Keys,              \* storage keys: hash and suffix of an uploaded content
    KeyOf,             \* KeyOf[d]: the content uploaded as row d
    Workers,           \* Celery worker slots
    Requests,          \* HTTP requests served concurrently
    Repairers,         \* concurrent runs of rag_repair_stuck_document
    Dispatchers,       \* concurrent runs of rag_dispatch_outbox
    Limit,             \* batch size of the dispatcher
    MaxAttempts,       \* RAG_OUTBOX_MAX_DISPATCH_ATTEMPTS
    MaxRetries,        \* RAG_INDEX_MAX_RETRIES
    MaxDeleteRetries,  \* max_retries of rag_delete_document
    MaxVersion,        \* bound: versions a behaviour reaches
    MaxFaults,         \* bound: faults of workers, repairers and broker
    MaxDispatchFaults, \* bound: faults of dispatchers
    Nobody             \* "no worker", "no message", "no key"

Versions == 1 .. MaxVersion

IndexEvent(d, v) == [type |-> "index", doc |-> d, ver |-> v]
DeleteEvent(d) == [type |-> "delete", doc |-> d, ver |-> 0]

Events == {IndexEvent(d, v) : d \in Docs, v \in Versions}
            \cup {DeleteEvent(d) : d \in Docs}

\* A Celery message: the task and its arguments, and the retry count in its
\* headers.
Message(e, n) == [event |-> e, retries |-> n]
Messages == [event : Events, retries : Nat]

Nat1 == Nat \ {0}

ASSUME IndexingAssumption ==
    /\ KeyOf \in [Docs -> Keys]
    /\ Limit \in Nat1 /\ MaxAttempts \in Nat1 /\ MaxVersion \in Nat1
    /\ MaxRetries \in Nat /\ MaxDeleteRetries \in Nat
    /\ MaxFaults \in Nat /\ MaxDispatchFaults \in Nat
    /\ Nobody \notin Workers \cup Keys

VARIABLES
    status,   \* status[d]: column status; "NONE" before the row exists,
              \* "GONE" once it is erased
    version,  \* version[d]: column index_version
    chunks,   \* chunks[d]: index_version values of the chunk rows of d
    stale,    \* rows whose updated_time is older than RAG_INDEX_STALE_SECONDS
    holder,   \* holder[d]: worker whose open transaction locks row d
    kbLive,   \* the knowledge base is not soft-deleted
    objects,  \* keys under which object storage holds a file
    broker,   \* messages waiting in the Celery broker
    pc,       \* pc[w]: where the task of worker w stands
    msg,      \* msg[w]: the message worker w is executing
    req,      \* req[r]: what request r has read
    repairs,  \* repairs[q]: what repair run q still has to publish
    faults,   \* faults so far
    evStatus, evId, attempts, batch, sent, published, dispatchFaults

rowVars == <<status, version, chunks, stale, holder>>
workerVars == <<pc, msg>>
outboxVars == <<evStatus, evId, attempts, batch, sent, published,
                dispatchFaults>>
vars == <<rowVars, kbLive, objects, broker, workerVars, req, repairs, faults,
          outboxVars>>

O == INSTANCE RagOutbox WITH Poison <- {}

DocStatus == {"NONE", "PENDING", "PROCESSING", "READY", "FAILED", "DELETING",
              "GONE"}

IdleRequest == [op |-> "idle", key |-> Nobody,
                seen |-> [d \in Docs |-> "NONE"], ver |-> 0]

Init ==
    /\ status = [d \in Docs |-> "NONE"]
    /\ version = [d \in Docs |-> 0]
    /\ chunks = [d \in Docs |-> {}]
    /\ stale = {}
    /\ holder = [d \in Docs |-> Nobody]
    /\ kbLive = TRUE
    /\ objects = {}
    /\ broker = {}
    /\ pc = [w \in Workers |-> "idle"]
    /\ msg = [w \in Workers |-> Nobody]
    /\ req = [r \in Requests |-> IdleRequest]
    /\ repairs = [q \in Repairers |-> {}]
    /\ faults = 0
    /\ O!Init

Fault == faults < MaxFaults /\ faults' = faults + 1

Live(d) == status[d] \notin {"NONE", "GONE"}

\* Variant: rows are read without FOR UPDATE.
UnlockedAlways(d) == TRUE

\* get_live_for_update, or an UPDATE, gets the row lock now.
Unlocked(d) == holder[d] = Nobody

----------------------------------------------------------------------------
(* HTTP requests.  Each reads rows without a lock and writes later.         *)

\* Variant: an event that exists already is set back to PENDING.
EnqueueAgain(new) ==
    IF new # {} /\ new \subseteq O!Rows
    THEN /\ evStatus' = [e \in Events |->
                            IF e \in new THEN "PENDING" ELSE evStatus[e]]
         /\ UNCHANGED <<evId, attempts, batch, sent, published, dispatchFaults>>
    ELSE O!InsertRows(new)

\* enqueue_document_index and enqueue_document_delete.
Enqueue(new) == O!InsertRows(new)

\* knowledge_base_service.get(write=True), the first step of every request.
Authorize(r) ==
    /\ req[r].op = "idle"
    /\ kbLive
    /\ req' = [req EXCEPT ![r].op = "open"]
    /\ UNCHANGED <<rowVars, kbLive, objects, broker, workerVars, repairs,
                   faults, outboxVars>>

\* The request rolls back: not found, IntegrityError, StaleDataError, a lost
\* client.  A stored object stays.
RequestFail(r) ==
    /\ req[r].op # "idle"
    /\ req' = [req EXCEPT ![r] = IdleRequest]
    /\ UNCHANGED <<rowVars, kbLive, objects, broker, workerVars, repairs,
                   faults, outboxVars>>

\* create, first half: storage.put comes before the INSERT.
CreatePut(r, k) ==
    /\ req[r].op = "open"
    /\ objects' = objects \cup {k}
    /\ req' = [req EXCEPT ![r] = [IdleRequest EXCEPT !.op = "create",
                                                     !.key = k]]
    /\ UNCHANGED <<rowVars, kbLive, broker, workerVars, repairs, faults,
                   outboxVars>>

\* Variant: the key column has no unique constraint.
KeyFreeAlways(k) == TRUE

\* storage_key is unique: the INSERT waits for a transaction that is erasing
\* the key's row and fails while a row holds the key.
KeyFree(k) == \A d \in Docs : Live(d) => KeyOf[d] # k

\* create, second half: INSERT of row and outbox event, COMMIT.
CreateCommit(r, d) ==
    /\ req[r].op = "create"
    /\ status[d] = "NONE"
    /\ KeyOf[d] = req[r].key
    /\ KeyFree(req[r].key)
    /\ status' = [status EXCEPT ![d] = "PENDING"]
    /\ version' = [version EXCEPT ![d] = 1]
    /\ Enqueue({IndexEvent(d, 1)})
    /\ req' = [req EXCEPT ![r] = IdleRequest]
    /\ UNCHANGED <<chunks, stale, holder, kbLive, objects, broker, workerVars,
                   repairs, faults>>

\* The unlocked SELECT of get_in_kb, or of all documents of the base in
\* knowledge_base_service.delete; v is the version that was read.
ReadRows(r, op, ds, v) ==
    /\ req[r].op = "open"
    /\ req' = [req EXCEPT ![r] =
                  [op |-> op, key |-> Nobody, ver |-> v,
                   seen |-> [d \in Docs |->
                                IF d \in ds THEN status[d] ELSE "NONE"]]]
    /\ UNCHANGED <<rowVars, kbLive, objects, broker, workerVars, repairs,
                   faults, outboxVars>>

RetryRead(r, d) ==
    /\ Live(d)
    /\ version[d] < MaxVersion
    /\ ReadRows(r, "retry", {d}, version[d])

DeleteRead(r, d) == Live(d) /\ ReadRows(r, "delete", {d}, 0)

KbDeleteRead(r) == ReadRows(r, "drop", {d \in Docs : Live(d)}, 0)

Seen(r) == {d \in Docs : req[r].seen[d] # "NONE"}

\* The UPDATE of a status column: rows whose status was read as another value.
Changed(r, s) == {d \in Seen(r) : req[r].seen[d] # s}

SetStatus(ds, s) == [d \in Docs |-> IF d \in ds THEN s ELSE status[d]]

\* Variant: the event is built before index_version is incremented.
RetryEventEarly(r, d) == IndexEvent(d, req[r].ver)

RetryEvent(r, d) == IndexEvent(d, req[r].ver + 1)

\* retry: status PENDING, index_version one above the version that was read,
\* and the event of that version unless it exists.
RetryWrite(r) ==
    /\ req[r].op = "retry"
    /\ \E d \in Seen(r) :
          /\ Live(d) /\ Unlocked(d)
          /\ version' = [version EXCEPT ![d] = req[r].ver + 1]
          /\ Enqueue({RetryEvent(r, d)})
          /\ stale' = stale \ {d}
    /\ status' = SetStatus(Changed(r, "PENDING"), "PENDING")
    /\ req' = [req EXCEPT ![r] = IdleRequest]
    /\ UNCHANGED <<chunks, holder, kbLive, objects, broker, workerVars,
                   repairs, faults>>

DeleteEvents(r) == {DeleteEvent(d) : d \in Seen(r)}

\* DELETING for every row that was read, and a delete event for each.
MarkDeleting(r) ==
    /\ \A d \in Changed(r, "DELETING") : Live(d) /\ Unlocked(d)
    /\ status' = SetStatus(Changed(r, "DELETING"), "DELETING")
    /\ stale' = stale \ Changed(r, "DELETING")
    /\ Enqueue(DeleteEvents(r))
    /\ req' = [req EXCEPT ![r] = IdleRequest]
    /\ UNCHANGED <<version, chunks, holder, objects, broker, workerVars,
                   repairs, faults>>

\* document_service.delete.
DeleteWrite(r) ==
    /\ req[r].op = "delete"
    /\ MarkDeleting(r)
    /\ UNCHANGED kbLive

\* knowledge_base_service.delete: the base and the documents it had when they
\* were read.
KbDeleteWrite(r) ==
    /\ req[r].op = "drop"
    /\ MarkDeleting(r)
    /\ kbLive' = FALSE

Request(r) ==
    \/ Authorize(r) \/ RequestFail(r)
    \/ \E k \in Keys : CreatePut(r, k)
    \/ \E d \in Docs : CreateCommit(r, d) \/ RetryRead(r, d) \/ DeleteRead(r, d)
    \/ KbDeleteRead(r) \/ RetryWrite(r) \/ DeleteWrite(r) \/ KbDeleteWrite(r)

----------------------------------------------------------------------------
(* index_document.  acks_late: the message counts as consumed when the task  *)
(* returns; here it leaves the broker when it is taken and comes back if the *)
(* worker dies.                                                              *)

Doc(w) == msg[w].event.doc
Ver(w) == msg[w].event.ver

Goto(w, label) == pc' = [pc EXCEPT ![w] = label]

TaskDone(w) ==
    /\ Goto(w, "idle")
    /\ msg' = [msg EXCEPT ![w] = Nobody]

Take(w, m, type) ==
    /\ pc[w] = "idle"
    /\ m \in broker
    /\ m.event.type = type
    /\ Unlocked(m.event.doc)
    /\ broker' = broker \ {m}

CanClaim(d, v) == version[d] = v /\ status[d] = "PENDING"

\* claim_index, committed in a transaction of its own.
ClaimIndex(w, m) ==
    /\ Take(w, m, "index")
    /\ CanClaim(m.event.doc, m.event.ver)
    /\ status' = [status EXCEPT ![m.event.doc] = "PROCESSING"]
    /\ stale' = stale \ {m.event.doc}
    /\ Goto(w, "claimed")
    /\ msg' = [msg EXCEPT ![w] = m]
    /\ UNCHANGED <<version, chunks, holder, kbLive, objects, req, repairs,
                   faults, outboxVars>>

\* document_not_found, stale_index_request, already_ready, already_processing,
\* delete_requested, index_failed: the task returns.
ClaimRefused(w, m) ==
    /\ Take(w, m, "index")
    /\ ~CanClaim(m.event.doc, m.event.ver)
    /\ UNCHANGED <<rowVars, kbLive, objects, workerVars, req, repairs, faults,
                   outboxVars>>

\* Variant: the version is not compared again.
CanIndexAnyVersion(d, v) == status[d] = "PROCESSING"

CanIndex(d, v) == version[d] = v /\ status[d] = "PROCESSING"

\* index_claimed_document up to storage.get: the row is locked again, in a
\* second transaction, and stays locked while the document is embedded.
IndexBegin(w) ==
    /\ pc[w] = "claimed"
    /\ CanIndex(Doc(w), Ver(w))
    /\ Unlocked(Doc(w))
    /\ KeyOf[Doc(w)] \in objects
    /\ holder' = [holder EXCEPT ![Doc(w)] = w]
    /\ Goto(w, "indexing")
    /\ UNCHANGED <<status, version, chunks, stale, kbLive, objects, broker,
                   msg, req, repairs, faults, outboxVars>>

\* storage.get raises FileNotFoundError, which is not retried.
IndexNoObject(w) ==
    /\ pc[w] = "claimed"
    /\ CanIndex(Doc(w), Ver(w))
    /\ Unlocked(Doc(w))
    /\ KeyOf[Doc(w)] \notin objects
    /\ Goto(w, "failing")
    /\ UNCHANGED <<rowVars, kbLive, objects, broker, msg, req, repairs, faults,
                   outboxVars>>

\* document_not_found, stale_index_request, index_not_processing: the task
\* returns.
IndexSkip(w) ==
    /\ pc[w] = "claimed"
    /\ Unlocked(Doc(w))
    /\ ~CanIndex(Doc(w), Ver(w))
    /\ TaskDone(w)
    /\ UNCHANGED <<rowVars, kbLive, objects, broker, req, repairs, faults,
                   outboxVars>>

\* Variant: the old rows are not deleted.
ReindexedBeside(d, v) == chunks[d] \cup {v}

\* The chunks of the document once index_content has run: all old rows are
\* deleted, those of version v inserted.
Reindexed(d, v) == {v}

\* index_content writes the chunks and READY, and the transaction commits.
IndexCommit(w) ==
    /\ pc[w] = "indexing"
    /\ chunks' = [chunks EXCEPT ![Doc(w)] = Reindexed(Doc(w), Ver(w))]
    /\ status' = [status EXCEPT ![Doc(w)] = "READY"]
    /\ stale' = stale \ {Doc(w)}
    /\ holder' = [holder EXCEPT ![Doc(w)] = Nobody]
    /\ TaskDone(w)
    /\ UNCHANGED <<version, kbLive, objects, broker, req, repairs, faults,
                   outboxVars>>

\* index_content or COMMIT raises and the transaction rolls back.  The content
\* may be unusable; a transient error counts as a fault and is retried while
\* the message has retries left.
IndexFail(w) ==
    /\ pc[w] = "indexing"
    /\ holder' = [holder EXCEPT ![Doc(w)] = Nobody]
    /\ \/ Goto(w, "failing") /\ UNCHANGED faults
       \/ /\ Fault
          /\ Goto(w, IF msg[w].retries < MaxRetries THEN "retrying"
                                                    ELSE "failing")
    /\ UNCHANGED <<status, version, chunks, stale, kbLive, objects, broker,
                   msg, req, repairs, outboxVars>>

\* Variants: the version is not compared; the outcome is not.
CanMarkAnyVersion(d, v) == Live(d) /\ status[d] \notin {"READY", "DELETING"}
CanMarkAnyOutcome(d, v) == Live(d) /\ version[d] = v

CanMarkFailure(d, v) ==
    /\ Live(d)
    /\ version[d] = v
    /\ status[d] \notin {"READY", "DELETING"}

\* mark_index_failure, in a third transaction: PENDING before a retry, FAILED
\* otherwise, and nothing when the row has moved on.
MarkFailure(w) ==
    /\ pc[w] \in {"failing", "retrying"}
    /\ Unlocked(Doc(w))
    /\ IF CanMarkFailure(Doc(w), Ver(w))
       THEN /\ status' = [status EXCEPT ![Doc(w)] =
                             IF pc[w] = "retrying" THEN "PENDING" ELSE "FAILED"]
            /\ stale' = stale \ {Doc(w)}
       ELSE UNCHANGED <<status, stale>>
    /\ IF pc[w] = "retrying" THEN Goto(w, "requeueing") /\ UNCHANGED msg
                             ELSE TaskDone(w)
    /\ UNCHANGED <<version, chunks, holder, kbLive, objects, broker, req,
                   repairs, faults, outboxVars>>

Requeue(w) ==
    broker' = broker \cup {Message(msg[w].event, msg[w].retries + 1)}

\* task.retry publishes the message again, whatever mark_index_failure found.
PublishRetry(w) ==
    /\ pc[w] = "requeueing"
    /\ Requeue(w)
    /\ TaskDone(w)
    /\ UNCHANGED <<rowVars, kbLive, objects, req, repairs, faults, outboxVars>>

\* A claim, a mark or a retry raises: the task has failed, its message is
\* acknowledged.
TaskError(w) ==
    /\ pc[w] \in {"claimed", "failing", "retrying", "requeueing"}
    /\ Fault
    /\ TaskDone(w)
    /\ UNCHANGED <<rowVars, kbLive, objects, broker, req, repairs, outboxVars>>

----------------------------------------------------------------------------
(* delete_document: one transaction that holds the row lock; its message is *)
(* acknowledged when it is taken.                                           *)

CanErase(d) == status[d] = "DELETING"

DeleteBegin(w, m) ==
    /\ Take(w, m, "delete")
    /\ CanErase(m.event.doc)
    /\ holder' = [holder EXCEPT ![m.event.doc] = w]
    /\ Goto(w, "deleting")
    /\ msg' = [msg EXCEPT ![w] = m]
    /\ UNCHANGED <<status, version, chunks, stale, kbLive, objects, req,
                   repairs, faults, outboxVars>>

\* document_not_found, delete_not_requested.
DeleteRefused(w, m) ==
    /\ Take(w, m, "delete")
    /\ ~CanErase(m.event.doc)
    /\ UNCHANGED <<rowVars, kbLive, objects, workerVars, req, repairs, faults,
                   outboxVars>>

\* storage.delete: the file goes at once, whatever the transaction does.
DeleteUnlink(w) ==
    /\ pc[w] = "deleting"
    /\ objects' = objects \ {KeyOf[Doc(w)]}
    /\ Goto(w, "unlinked")
    /\ UNCHANGED <<rowVars, kbLive, broker, msg, req, repairs, faults,
                   outboxVars>>

\* Variant: the chunk rows are left to a cascade that no foreign key declares.
EraseRowOnly(d) == UNCHANGED chunks

EraseChunks(d) == chunks' = [chunks EXCEPT ![d] = {}]

DeleteCommit(w) ==
    /\ pc[w] = "unlinked"
    /\ EraseChunks(Doc(w))
    /\ status' = [status EXCEPT ![Doc(w)] = "GONE"]
    /\ holder' = [holder EXCEPT ![Doc(w)] = Nobody]
    /\ TaskDone(w)
    /\ UNCHANGED <<version, stale, kbLive, objects, broker, req, repairs,
                   faults, outboxVars>>

\* The transaction rolls back; an OSError is retried while the message has
\* retries left, any other error ends the task.
DeleteFail(w) ==
    /\ pc[w] \in {"deleting", "unlinked"}
    /\ Fault
    /\ holder' = [holder EXCEPT ![Doc(w)] = Nobody]
    /\ \/ msg[w].retries < MaxDeleteRetries /\ Requeue(w)
       \/ UNCHANGED broker
    /\ TaskDone(w)
    /\ UNCHANGED <<status, version, chunks, stale, kbLive, objects, req,
                   repairs, outboxVars>>

----------------------------------------------------------------------------
(* The worker process and the broker.                                       *)

\* The worker dies: its transaction rolls back, and the message returns only
\* if the task acknowledges late and rejects on worker loss.
Crash(w) ==
    /\ pc[w] # "idle"
    /\ Fault
    /\ holder' = [d \in Docs |-> IF holder[d] = w THEN Nobody ELSE holder[d]]
    /\ broker' = IF msg[w].event.type = "index" THEN broker \cup {msg[w]}
                                                ELSE broker
    /\ TaskDone(w)
    /\ UNCHANGED <<status, version, chunks, stale, kbLive, objects, req,
                   repairs, outboxVars>>

\* The broker delivers an unacknowledged message a second time; with a commit
\* in between, this is also a worker that dies before it acknowledges.
Redeliver(w) ==
    /\ pc[w] # "idle"
    /\ msg[w].event.type = "index"
    /\ Fault
    /\ broker' = broker \cup {msg[w]}
    /\ UNCHANGED <<rowVars, kbLive, objects, workerVars, req, repairs,
                   outboxVars>>

TakeMessage(m) ==
    \E w \in Workers : ClaimIndex(w, m) \/ ClaimRefused(w, m)
                          \/ DeleteBegin(w, m) \/ DeleteRefused(w, m)

Work(w) ==
    \/ IndexBegin(w) \/ IndexNoObject(w) \/ IndexSkip(w)
    \/ IndexCommit(w) \/ IndexFail(w)
    \/ MarkFailure(w) \/ PublishRetry(w)
    \/ DeleteUnlink(w) \/ DeleteCommit(w)

WorkerFault(w) == TaskError(w) \/ DeleteFail(w) \/ Crash(w) \/ Redeliver(w)

----------------------------------------------------------------------------
(* rag_repair_stuck_document.                                               *)

Working(d) == \E w \in Workers : pc[w] # "idle" /\ Doc(w) = d

\* A row in PENDING or PROCESSING is not written for RAG_INDEX_STALE_SECONDS.
\* A task that is that slow is a fault; a lost or waiting message is not.
Age(d) ==
    /\ status[d] \in {"PENDING", "PROCESSING"}
    /\ d \notin stale
    /\ stale' = stale \cup {d}
    /\ IF Working(d) THEN Fault ELSE UNCHANGED faults
    /\ UNCHANGED <<status, version, chunks, holder, kbLive, objects, broker,
                   workerVars, req, repairs, outboxVars>>

\* Variant: only PROCESSING is repaired.
StuckProcessing == {d \in stale : status[d] = "PROCESSING" /\ Unlocked(d)}

\* get_stale_index_documents: FOR UPDATE SKIP LOCKED.
Stuck == {d \in stale : status[d] \in {"PENDING", "PROCESSING"} /\ Unlocked(d)}

\* Variant: deletions are not published again.
DeletingNone == {}

\* get_deleting_document_ids.
Deleting == {d \in Docs : status[d] = "DELETING"}

\* recover_stale_indexes and the ids of documents to erase, then COMMIT.
RepairCommit(q) ==
    /\ repairs[q] = {}
    /\ Stuck \cup Deleting # {}
    /\ status' = SetStatus(Stuck, "PENDING")
    /\ stale' = stale \ Stuck
    /\ repairs' = [repairs EXCEPT ![q] =
                      {IndexEvent(d, version[d]) : d \in Stuck}
                        \cup {DeleteEvent(d) : d \in Deleting}]
    /\ UNCHANGED <<version, chunks, holder, kbLive, objects, broker,
                   workerVars, req, faults, outboxVars>>

\* The messages go out after COMMIT, past the outbox; a run that fails or dies
\* has published some of them.
RepairPublish(q) ==
    /\ repairs[q] # {}
    /\ \E done \in SUBSET repairs[q] :
          /\ broker' = broker \cup {Message(e, 0) : e \in done}
          /\ IF done = repairs[q] THEN UNCHANGED faults ELSE Fault
    /\ repairs' = [repairs EXCEPT ![q] = {}]
    /\ UNCHANGED <<rowVars, kbLive, objects, workerVars, req, outboxVars>>

Repair(q) == RepairCommit(q) \/ RepairPublish(q)

----------------------------------------------------------------------------
(* rag_dispatch_outbox: the actions of RagOutbox, with the broker attached. *)

DispatchBatch(p) ==
    /\ \E B \in SUBSET O!Claimable : \E out, ok \in SUBSET B :
          /\ O!DispatchBatch(p, B, ok, out)
          /\ broker' = broker \cup {Message(e, 0) : e \in out}
    /\ UNCHANGED <<rowVars, kbLive, objects, workerVars, req, repairs, faults>>

DispatchEnd(p) ==
    /\ O!DispatchCommit(p) \/ O!DispatchCrash(p)
    /\ UNCHANGED <<rowVars, kbLive, objects, broker, workerVars, req, repairs,
                   faults>>

Dispatch(p) == DispatchBatch(p) \/ DispatchEnd(p)

----------------------------------------------------------------------------

Next ==
    \/ \E r \in Requests : Request(r)
    \/ \E m \in broker : TakeMessage(m)
    \/ \E w \in Workers : Work(w) \/ WorkerFault(w)
    \/ \E d \in Docs : Age(d)
    \/ \E q \in Repairers : Repair(q)
    \/ \E p \in Dispatchers : Dispatch(p)

Spec == Init /\ [][Next]_vars

\* Workers run, and the broker's queue is first in first out, so a message
\* that workers keep being free for is taken.  Beat starts the dispatcher and
\* the repair task for ever, and time passes.
Fairness ==
    /\ \A w \in Workers : WF_vars(Work(w))
    /\ \A e \in Events : SF_vars(\E m \in broker : m.event = e /\ TakeMessage(m))
    /\ \A d \in Docs : WF_vars(Age(d))
    /\ \A q \in Repairers : WF_vars(Repair(q))
    /\ \A p \in Dispatchers : WF_vars(Dispatch(p))

FairSpec == Spec /\ Fairness

----------------------------------------------------------------------------
(* Properties.                                                              *)

\* The type of every variable outside the outbox.
TypeOK ==
    /\ status \in [Docs -> DocStatus]
    /\ version \in [Docs -> 0 .. MaxVersion]
    /\ chunks \in [Docs -> SUBSET Versions]
    /\ stale \subseteq Docs
    /\ holder \in [Docs -> Workers \cup {Nobody}]
    /\ kbLive \in BOOLEAN
    /\ objects \subseteq Keys
    /\ broker \subseteq Messages
    /\ pc \in [Workers -> {"idle", "claimed", "indexing", "failing",
                           "retrying", "requeueing", "deleting", "unlinked"}]
    /\ msg \in [Workers -> Messages \cup {Nobody}]
    /\ req \in [Requests ->
                  [op : {"idle", "open", "create", "retry", "delete", "drop"},
                   key : Keys \cup {Nobody},
                   seen : [Docs -> DocStatus],
                   ver : 0 .. MaxVersion]]
    /\ repairs \in [Repairers -> SUBSET Events]
    /\ faults \in 0 .. MaxFaults

\* No chunk outlives its document: an indexing transaction that waited for the
\* row lock of delete_document, a retried or a repeated task never writes
\* chunks for an erased row (get_live_for_update, delete of Chunk).
NoOrphanChunks == \A d \in Docs : chunks[d] # {} => Live(d)

\* Several deliveries, retries and versions of one document leave a READY
\* document with the chunks of exactly one version (index_content deletes the
\* old rows in the transaction that inserts the new ones).
ReadyHasOneIndex ==
    \A d \in Docs :
        /\ Cardinality(chunks[d]) <= 1
        /\ status[d] = "READY" => chunks[d] # {}

\* The original of a READY document is in object storage, although storage is
\* not part of any transaction: no upload of the same content, interrupted
\* deletion or retry after it makes a document READY without its file
\* (create puts before it inserts, delete_document unlinks under the row lock).
ReadyHasObject ==
    \A d \in Docs : status[d] = "READY" => KeyOf[d] \in objects

\* Nothing a document waits for is missing from the outbox: its current version
\* has an index event, a DELETING document has a delete event, whichever
\* requests raced (enqueue_* in the transaction of the status change).
OutboxCoversDocuments ==
    \A d \in Docs : Live(d) =>
        /\ IndexEvent(d, version[d]) \in O!Rows
        /\ status[d] = "DELETING" => DeleteEvent(d) \in O!Rows

\* What uploads of one content share: their file is there for a READY document,
\* whichever of them is deleted, every deletion has its outbox row, and chunks
\* go with their document.
SharedFileSafe == TypeOK /\ NoOrphanChunks /\ ReadyHasObject /\ OutboxCoversDocuments

\* Chunks change only by erasing the document or by a successful indexing of
\* the version that is current at that moment, never by a task of an older
\* version (index_claimed_document rechecks version and status under the lock).
IndexResultCurrent ==
    [][\A d \in Docs : chunks'[d] # chunks[d] =>
          \/ status'[d] = "GONE"
          \/ /\ chunks'[d] = {version[d]}
             /\ status[d] = "PROCESSING" /\ status'[d] = "READY"]_vars

\* Whatever a worker does late, about a version that is no longer current, the
\* row keeps its status (claim_index, index_claimed_document and
\* mark_index_failure compare index_version under the row lock).
StaleTaskHarmless ==
    [][\A w \in Workers :
          /\ pc[w] # "idle" /\ pc'[w] # pc[w]
          /\ msg[w].event.type = "index" /\ version[Doc(w)] # Ver(w)
          => status'[Doc(w)] = status[Doc(w)]]_vars

\* Only a request takes back READY or DELETING: no late failure, repeated
\* message or repair run does, and only the erasing task ends DELETING
\* (mark_index_failure, claim_index, get_stale_index_documents).
OutcomeKept ==
    [][\A d \in Docs : status[d] \in {"READY", "DELETING"} /\ status'[d] # status[d] =>
          \/ status[d] = "DELETING" /\ status'[d] = "GONE"
          \/ \E r \in Requests : d \in Seen(r) /\ req'[r].op = "idle"]_vars

\* The document life cycle drives the outbox only through its own operations.
OutboxSpec == O!Spec

\* A document that waits for indexing does not wait for ever, whatever was
\* lost: a message, a worker, a dispatcher, a repair run
\* (rag_repair_stuck_document, rag_dispatch_outbox).
DocumentsSettle ==
    \A d \in Docs : status[d] \in {"PENDING", "PROCESSING"} ~>
                        status[d] \notin {"PENDING", "PROCESSING"}

\* A deletion that was requested is carried out, unless a retry takes it back,
\* although its message is acknowledged before it is executed
\* (get_deleting_document_ids).
DeletionsFinish ==
    \A d \in Docs : status[d] = "DELETING" ~> status[d] # "DELETING"

----------------------------------------------------------------------------
(* What ARCHITECTURE.md says and the code does not do.                      *)

\* A manual retry increases index_version, and the result of an older task does
\* not stand for the new version: a READY document has the chunks of its current
\* version.  A retry that read PENDING leaves the status column alone, and the
\* task it overtakes completes.
ReadyMeansIndexed ==
    \A d \in Docs : status[d] = "READY" => chunks[d] = {version[d]}

\* Deleting a knowledge base deletes its data.  A document that is inserted or
\* retried by a request that was authorized before stays.
DeletedBaseHasNoDocuments ==
    ~kbLive => \A d \in Docs : status[d] \in {"NONE", "DELETING", "GONE"}

\* A document is dispatched for the first time only once its file is stored.
\* The deletion of an earlier upload of the same content may remove the file
\* between put and INSERT.
StoredBeforeDispatch ==
    \A d \in Docs : status[d] = "PENDING" /\ version[d] = 1
        /\ IndexEvent(d, 1) \in published => KeyOf[d] \in objects
=============================================================================
