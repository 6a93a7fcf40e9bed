------------------------- MODULE RagIndexingProofs -------------------------
(* The safety invariants of RagIndexing, and that it implements RagOutbox,   *)
(* for any documents, keys, workers, requests, repair runs, dispatchers and  *)
(* bounds.                                                                   *)
EXTENDS RagIndexing, FiniteSetTheorems, TLAPS

Erasing == {"deleting", "unlinked"}
Locking == {"indexing"} \cup Erasing

\* The functions of the outbox are functions on events.
OutboxDomains ==
    /\ evStatus = [e \in Events |-> evStatus[e]]
    /\ evId = [e \in Events |-> evId[e]]

\* A worker that is not idle executes a message of its kind.
MessageInv ==
    \A w \in Workers : pc[w] # "idle" =>
        /\ msg[w] \in Messages
        /\ msg[w].event.type = IF pc[w] \in Erasing THEN "delete" ELSE "index"

\* A retry has read one document, whose version was below the bound.
RequestInv ==
    \A r \in Requests : req[r].op = "retry" =>
        /\ req[r].ver < MaxVersion
        /\ \A d, e \in Seen(r) : d = e

\* A row is locked by a worker exactly while that worker's transaction is open.
LockInv ==
    /\ \A w \in Workers : pc[w] \in Locking => holder[Doc(w)] = w
    /\ \A d \in Docs : holder[d] # Nobody =>
          pc[holder[d]] \in Locking /\ Doc(holder[d]) = d

\* What a task has checked under the lock still holds while it keeps the lock.
WorkInv ==
    \A w \in Workers :
        /\ pc[w] = "indexing" =>
              /\ status[Doc(w)] = "PROCESSING"
              /\ version[Doc(w)] = Ver(w)
              /\ KeyOf[Doc(w)] \in objects
        /\ pc[w] \in Erasing => status[Doc(w)] = "DELETING"

\* storage_key is unique among the rows.
KeyInv ==
    \A d, e \in Docs : Live(d) /\ Live(e) /\ KeyOf[d] = KeyOf[e] => d = e

\* Versions of rows start at one.
VersionInv == \A d \in Docs : Live(d) => version[d] \in Versions

\* The chunks of a document are of one version.
ChunkInv ==
    \A d \in Docs :
        /\ chunks[d] = {} \/ \E v \in Versions : chunks[d] = {v}
        /\ status[d] = "READY" => chunks[d] # {}

Typed == TypeOK /\ OutboxDomains /\ MessageInv /\ RequestInv

RowInv ==
    /\ LockInv /\ WorkInv /\ KeyInv /\ VersionInv /\ ChunkInv
    /\ NoOrphanChunks /\ ReadyHasObject

\* The inductive invariant.
IInv == Typed /\ RowInv /\ OutboxCoversDocuments

----------------------------------------------------------------------------
(* Events and messages.                                                     *)

\* The fields of an outbox event, which are those of its message.
LEMMA EventFields ==
    \A e \in Events : /\ e.doc \in Docs
                      /\ e.type \in {"index", "delete"}
                      /\ e.type = "index" => e.ver \in Versions
BY DEF Events, IndexEvent, DeleteEvent

\* An event built for a document is an outbox event.
LEMMA EventsBuilt ==
    /\ \A d \in Docs : DeleteEvent(d) \in Events
    /\ \A d \in Docs, v \in Versions : IndexEvent(d, v) \in Events
BY DEF Events

\* A message carries an event and a count of retries.
LEMMA MessageFields ==
    /\ \A m \in Messages : m.event \in Events /\ m.retries \in Nat
    /\ \A e \in Events, n \in Nat : Message(e, n) \in Messages
BY DEF Messages, Message

\* The document and the version a busy worker is at.
LEMMA WorkerFields ==
    ASSUME MessageInv, NEW w \in Workers, pc[w] # "idle"
    PROVE  /\ Doc(w) \in Docs
           /\ msg[w].event \in Events
           /\ msg[w].retries \in Nat
           /\ pc[w] \notin Erasing => Ver(w) \in Versions
BY EventFields, MessageFields DEF MessageInv, Doc, Ver

\* What a request holds, at the start and later.
RequestRecord ==
    [op : {"idle", "open", "create", "retry", "delete", "drop"},
     key : Keys \cup {Nobody}, seen : [Docs -> DocStatus],
     ver : 0 .. MaxVersion]

\* An idle request is one.
LEMMA IdleRecord ==
    IdleRequest \in RequestRecord /\ IdleRequest.op = "idle"
BY IndexingAssumption DEF IdleRequest, RequestRecord, DocStatus, Nat1

\* The empty system satisfies the invariant.
LEMMA InitIInv == Init => IInv
<1> SUFFICES ASSUME Init PROVE IInv
  OBVIOUS
<1> USE IndexingAssumption
<1>1. TypeOK
  BY DEF Init, TypeOK, DocStatus, IdleRequest, Nat1
<1>2. OutboxDomains
  BY DEF Init, O!Init, OutboxDomains
<1>3. MessageInv /\ RequestInv
  BY DEF Init, MessageInv, RequestInv, IdleRequest
<1>4. LockInv /\ WorkInv
  BY DEF Init, LockInv, WorkInv, Locking, Erasing
<1>5. /\ KeyInv /\ VersionInv /\ ChunkInv
      /\ NoOrphanChunks /\ ReadyHasObject /\ OutboxCoversDocuments
  BY DEF Init, KeyInv, VersionInv, ChunkInv, NoOrphanChunks, ReadyHasObject,
         OutboxCoversDocuments, Live
<1> QED
  BY <1>1, <1>2, <1>3, <1>4, <1>5 DEF IInv, Typed, RowInv

----------------------------------------------------------------------------
(* Frames.                                                                  *)

\* The row invariants speak of rows, files and workers only.
LEMMA RowFrame ==
    ASSUME RowInv,
           UNCHANGED <<status, version, chunks, holder, objects, pc, msg>>
    PROVE  RowInv'
BY DEF RowInv, LockInv, WorkInv, KeyInv, VersionInv, ChunkInv, NoOrphanChunks,
       ReadyHasObject, Doc, Ver, Live

\* A step that neither moves a version, nor starts a row or a deletion, nor
\* loses an outbox row, keeps the outbox complete.
LEMMA CoverFrame ==
    ASSUME OutboxCoversDocuments, O!Rows \subseteq O!Rows', UNCHANGED version,
           \A d \in Docs : Live(d)' =>
               Live(d) /\ (status'[d] = "DELETING" => status[d] = "DELETING")
    PROVE  OutboxCoversDocuments'
BY DEF OutboxCoversDocuments, Live, IndexEvent, DeleteEvent

\* The outbox is not touched.
LEMMA OutboxFrame ==
    ASSUME OutboxDomains, UNCHANGED outboxVars
    PROVE  OutboxDomains' /\ O!Rows' = O!Rows
BY DEF OutboxDomains, outboxVars, O!Rows

\* The invariants of messages and requests under steps that leave their
\* variables alone.
LEMMA MessageFrame ==
    ASSUME MessageInv, UNCHANGED workerVars PROVE MessageInv'
BY DEF MessageInv, workerVars

\* The requests that did not move.
LEMMA RequestFrame ==
    ASSUME RequestInv, UNCHANGED req PROVE RequestInv'
BY DEF RequestInv, Seen

\* The insertion of outbox rows keeps the domains and loses no row.
LEMMA InsertKeepsRows ==
    ASSUME OutboxDomains, NEW new \in SUBSET Events, O!InsertRows(new)
    PROVE  OutboxDomains' /\ O!Rows' = O!Rows \cup new
<1>1. OutboxDomains'
  BY DEF OutboxDomains, O!InsertRows
<1>2. \A e \in Events : evStatus'[e] =
          IF e \in new \ O!Rows THEN "PENDING" ELSE evStatus[e]
  BY DEF O!InsertRows
<1>3. O!Rows' = O!Rows \cup new
  BY <1>2 DEF O!Rows
<1> QED
  BY <1>1, <1>3

----------------------------------------------------------------------------
(* Requests.                                                                *)

\* A request that only reads keeps the invariant; what a retry has read is one
\* document below the version bound.
LEMMA ReadIInv ==
    ASSUME IInv, NEW r \in Requests,
           \/ Authorize(r) \/ RequestFail(r) \/ KbDeleteRead(r)
           \/ \E d \in Docs : RetryRead(r, d) \/ DeleteRead(r, d)
    PROVE  IInv'
<1> USE IndexingAssumption DEF IInv, Typed
<1>1. UNCHANGED <<rowVars, kbLive, objects, broker, workerVars, repairs,
                  faults, outboxVars>>
  BY DEF Authorize, RequestFail, KbDeleteRead, RetryRead, DeleteRead, ReadRows
<1>2. OutboxDomains' /\ MessageInv'
  BY <1>1, OutboxFrame, MessageFrame
<1>3. RowInv'
  BY <1>1, RowFrame DEF rowVars, workerVars
<1>4. OutboxCoversDocuments'
  BY <1>1, OutboxFrame, CoverFrame DEF rowVars, Live
<1>5. ASSUME req' = [req EXCEPT ![r].op = "open"] \/
             req' = [req EXCEPT ![r] = IdleRequest]
      PROVE  TypeOK' /\ RequestInv'
  <2>1. \A q \in Requests \ {r} : req'[q] = req[q]
    BY <1>5 DEF TypeOK
  <2>2. req'[r] \in RequestRecord /\ req'[r].op # "retry"
    <3>1. req \in [Requests -> RequestRecord]
      BY DEF TypeOK, RequestRecord
    <3>2. CASE req' = [req EXCEPT ![r].op = "open"]
      <4>1. req'[r] = [req[r] EXCEPT !.op = "open"]
        BY <3>1, <3>2
      <4> QED
        BY <3>1, <4>1 DEF RequestRecord
    <3>3. CASE req' = [req EXCEPT ![r] = IdleRequest]
      BY <3>1, <3>3, IdleRecord
    <3> QED
      BY <1>5, <3>2, <3>3
  <2>3. req' \in [Requests -> RequestRecord]
    BY <1>5, <2>1, <2>2 DEF TypeOK, RequestRecord
  <2> QED
    BY <1>1, <2>1, <2>2, <2>3
    DEF TypeOK, RequestRecord, RequestInv, Seen, rowVars, workerVars, outboxVars
<1>6. ASSUME NEW op \in {"delete", "drop"}, NEW ds \in SUBSET Docs,
             ReadRows(r, op, ds, 0)
      PROVE  TypeOK' /\ RequestInv'
  BY <1>1, <1>6 DEF TypeOK, RequestInv, ReadRows, Seen, rowVars, workerVars,
                    outboxVars, DocStatus, Nat1
<1>7. ASSUME NEW d \in Docs, RetryRead(r, d)
      PROVE  TypeOK' /\ RequestInv'
  BY <1>1, <1>7 DEF TypeOK, RequestInv, RetryRead, ReadRows, Seen, rowVars,
                    workerVars, outboxVars, DocStatus, Nat1
<1>8. TypeOK' /\ RequestInv'
  <2>1. CASE Authorize(r) \/ RequestFail(r)
    BY <1>5, <2>1 DEF Authorize, RequestFail
  <2>2. CASE KbDeleteRead(r) \/ \E d \in Docs : DeleteRead(r, d)
    <3>1. {d \in Docs : Live(d)} \in SUBSET Docs
      OBVIOUS
    <3>2. CASE KbDeleteRead(r)
      BY <1>6, <3>1, <3>2 DEF KbDeleteRead
    <3>3. CASE \E d \in Docs : DeleteRead(r, d)
      BY <1>6, <3>3 DEF DeleteRead
    <3> QED
      BY <2>2, <3>2, <3>3
  <2>3. CASE \E d \in Docs : RetryRead(r, d)
    BY <1>7, <2>3
  <2> QED
    BY <2>1, <2>2, <2>3
<1> QED
  BY <1>2, <1>3, <1>4, <1>8

\* A file that is stored keeps the invariant.
LEMMA CreatePutIInv ==
    ASSUME IInv, NEW r \in Requests, NEW k \in Keys, CreatePut(r, k)
    PROVE  IInv'
<1> USE IndexingAssumption DEF IInv, Typed
<1>1. /\ objects' = objects \cup {k}
      /\ req' = [req EXCEPT ![r] = [IdleRequest EXCEPT !.op = "create",
                                                       !.key = k]]
      /\ UNCHANGED <<rowVars, kbLive, broker, workerVars, repairs, faults,
                     outboxVars>>
  BY DEF CreatePut
<1>2. OutboxDomains' /\ MessageInv'
  BY <1>1, OutboxFrame, MessageFrame
<1>3. TypeOK' /\ RequestInv'
  <2>1. \A q \in Requests \ {r} : req'[q] = req[q]
    BY <1>1 DEF TypeOK
  <2>2. req'[r] \in RequestRecord /\ req'[r].op # "retry"
    BY <1>1, IdleRecord DEF TypeOK, RequestRecord
  <2>3. req' \in [Requests -> RequestRecord]
    BY <1>1, <2>1, <2>2 DEF TypeOK, RequestRecord
  <2> QED
    BY <1>1, <2>1, <2>2, <2>3
    DEF TypeOK, RequestRecord, RequestInv, Seen, rowVars, workerVars, outboxVars
<1>4. RowInv'
  BY <1>1 DEF RowInv, LockInv, WorkInv, KeyInv, VersionInv, ChunkInv,
              NoOrphanChunks, ReadyHasObject, Doc, Ver, Live, rowVars,
              workerVars
<1>5. OutboxCoversDocuments'
  BY <1>1, OutboxFrame, CoverFrame DEF rowVars, Live
<1> QED
  BY <1>2, <1>3, <1>4, <1>5

\* The INSERT of an upload keeps the invariant: no row holds the key, and the
\* event of version one comes with the row.
LEMMA CreateCommitIInv ==
    ASSUME IInv, NEW r \in Requests, NEW d \in Docs, CreateCommit(r, d)
    PROVE  IInv'
<1> USE IndexingAssumption DEF IInv, Typed
<1>1. /\ status[d] = "NONE" /\ KeyFree(KeyOf[d])
      /\ status' = [status EXCEPT ![d] = "PENDING"]
      /\ version' = [version EXCEPT ![d] = 1]
      /\ O!InsertRows({IndexEvent(d, 1)})
      /\ req' = [req EXCEPT ![r] = IdleRequest]
      /\ UNCHANGED <<chunks, stale, holder, kbLive, objects, broker,
                     workerVars, repairs, faults>>
  BY DEF CreateCommit, Enqueue
<1>2. OutboxDomains' /\ O!Rows' = O!Rows \cup {IndexEvent(d, 1)}
  BY <1>1, EventsBuilt, InsertKeepsRows DEF Versions, Nat1
<1>3. TypeOK' /\ RequestInv' /\ MessageInv'
  BY <1>1, MessageFrame DEF TypeOK, RequestInv, IdleRequest, Seen, workerVars,
                            DocStatus, Nat1
<1>4. KeyInv' /\ VersionInv'
  BY <1>1 DEF RowInv, TypeOK, KeyInv, VersionInv, KeyFree, Live, Versions, Nat1
<1>5. LockInv' /\ WorkInv'
  BY <1>1 DEF RowInv, TypeOK, LockInv, WorkInv, Doc, Ver, workerVars
<1>6. ChunkInv' /\ NoOrphanChunks' /\ ReadyHasObject'
  BY <1>1 DEF RowInv, TypeOK, ChunkInv, NoOrphanChunks, ReadyHasObject, Live
<1>7. OutboxCoversDocuments'
  BY <1>1, <1>2 DEF TypeOK, OutboxCoversDocuments, Live
<1> QED
  BY <1>2, <1>3, <1>4, <1>5, <1>6, <1>7 DEF RowInv

\* The UPDATE of a retry keeps the invariant: it waits for the row lock, and
\* the event of its version is in the outbox.
LEMMA RetryWriteIInv ==
    ASSUME IInv, NEW r \in Requests, RetryWrite(r) PROVE IInv'
<1> USE IndexingAssumption DEF IInv, Typed
<1>1. PICK d \in Seen(r) :
         /\ Live(d) /\ Unlocked(d)
         /\ version' = [version EXCEPT ![d] = req[r].ver + 1]
         /\ O!InsertRows({IndexEvent(d, req[r].ver + 1)})
         /\ stale' = stale \ {d}
  BY DEF RetryWrite, Enqueue, RetryEvent
<1>2. /\ req[r].op = "retry"
      /\ status' = SetStatus(Changed(r, "PENDING"), "PENDING")
      /\ req' = [req EXCEPT ![r] = IdleRequest]
      /\ UNCHANGED <<chunks, holder, kbLive, objects, broker, workerVars,
                     repairs, faults>>
  BY DEF RetryWrite
<1>3. d \in Docs /\ Changed(r, "PENDING") \subseteq {d}
  BY <1>2 DEF RequestInv, Seen, Changed
<1>4. req[r].ver + 1 \in Versions
  BY <1>2 DEF RequestInv, TypeOK, Versions, Nat1
<1>5. /\ \A e \in Docs \ {d} : status'[e] = status[e] /\ version'[e] = version[e]
      /\ status'[d] \in {"PENDING", status[d]}
      /\ version'[d] = req[r].ver + 1
      /\ status' \in [Docs -> DocStatus] /\ version' \in [Docs -> 0 .. MaxVersion]
  BY <1>1, <1>2, <1>3, <1>4 DEF TypeOK, SetStatus, Versions, DocStatus
<1>6. OutboxDomains' /\ O!Rows' = O!Rows \cup {IndexEvent(d, req[r].ver + 1)}
  BY <1>1, <1>3, <1>4, EventsBuilt, InsertKeepsRows
<1>7. TypeOK' /\ RequestInv' /\ MessageInv'
  BY <1>1, <1>2, <1>5, MessageFrame
  DEF TypeOK, RequestInv, IdleRequest, Seen, workerVars, DocStatus, Nat1
<1>8. KeyInv' /\ VersionInv'
  BY <1>1, <1>3, <1>4, <1>5 DEF RowInv, KeyInv, VersionInv, Live
<1>9. LockInv' /\ WorkInv'
  <2>1. \A w \in Workers : pc[w] \in Locking => Doc(w) # d
    BY <1>1 DEF RowInv, LockInv, Unlocked
  <2>2. \A w \in Workers : pc[w] \in Locking => Doc(w) \in Docs
    BY WorkerFields DEF Locking, Erasing
  <2> QED
    BY <1>2, <1>5, <2>1, <2>2
    DEF RowInv, LockInv, WorkInv, Doc, Ver, workerVars, Locking, Erasing
<1>10. ChunkInv' /\ NoOrphanChunks' /\ ReadyHasObject'
  BY <1>1, <1>2, <1>3, <1>5 DEF RowInv, ChunkInv, NoOrphanChunks, ReadyHasObject,
                                Live
<1>11. OutboxCoversDocuments'
  BY <1>1, <1>3, <1>5, <1>6 DEF OutboxCoversDocuments, Live
<1> QED
  BY <1>6, <1>7, <1>8, <1>9, <1>10, <1>11 DEF RowInv

\* Marking documents for deletion keeps the invariant: rows that change are
\* unlocked, and every DELETING row gets its event.
LEMMA MarkDeletingIInv ==
    ASSUME IInv, NEW r \in Requests, MarkDeleting(r), kbLive' \in BOOLEAN
    PROVE  IInv'
<1> USE IndexingAssumption DEF IInv, Typed
<1> DEFINE ds == Changed(r, "DELETING")
<1>1. /\ \A d \in ds : Live(d) /\ Unlocked(d)
      /\ status' = SetStatus(ds, "DELETING")
      /\ stale' = stale \ ds
      /\ O!InsertRows(DeleteEvents(r))
      /\ req' = [req EXCEPT ![r] = IdleRequest]
      /\ UNCHANGED <<version, chunks, holder, objects, broker, workerVars,
                     repairs, faults>>
  BY DEF MarkDeleting, Enqueue
<1>2. ds \subseteq Seen(r) /\ Seen(r) \subseteq Docs
  BY DEF Changed, Seen
<1>3. /\ \A d \in Docs \ ds : status'[d] = status[d]
      /\ \A d \in ds : status'[d] = "DELETING"
      /\ status' \in [Docs -> DocStatus]
  BY <1>1, <1>2 DEF TypeOK, SetStatus, DocStatus
<1>4. DeleteEvents(r) \subseteq Events
  BY <1>2, EventsBuilt DEF DeleteEvents
<1>5. OutboxDomains' /\ O!Rows' = O!Rows \cup DeleteEvents(r)
  BY <1>1, <1>4, InsertKeepsRows
<1>6. TypeOK' /\ RequestInv' /\ MessageInv'
  BY <1>1, <1>3, MessageFrame
  DEF TypeOK, RequestInv, IdleRequest, Seen, workerVars, DocStatus, Nat1
<1>7. KeyInv' /\ VersionInv'
  BY <1>1, <1>3 DEF RowInv, KeyInv, VersionInv, Live
<1>8. LockInv' /\ WorkInv'
  <2>1. \A w \in Workers : pc[w] \in Locking => Doc(w) \notin ds
    BY <1>1 DEF RowInv, LockInv, Unlocked
  <2>2. \A w \in Workers : pc[w] \in Locking => Doc(w) \in Docs
    BY WorkerFields DEF Locking, Erasing
  <2> QED
    BY <1>1, <1>3, <2>1, <2>2
    DEF RowInv, LockInv, WorkInv, Doc, Ver, workerVars, Locking, Erasing
<1>9. ChunkInv' /\ NoOrphanChunks' /\ ReadyHasObject'
  BY <1>1, <1>2, <1>3 DEF RowInv, ChunkInv, NoOrphanChunks, ReadyHasObject, Live
<1>10. OutboxCoversDocuments'
  BY <1>1, <1>2, <1>3, <1>5 DEF OutboxCoversDocuments, Live, DeleteEvents
<1> QED
  BY <1>5, <1>6, <1>7, <1>8, <1>9, <1>10 DEF RowInv

\* Every step of a request keeps the invariant.
LEMMA RequestIInv ==
    ASSUME IInv, NEW r \in Requests, Request(r) PROVE IInv'
<1>1. ASSUME DeleteWrite(r) \/ KbDeleteWrite(r) PROVE IInv'
  <2>1. MarkDeleting(r) /\ kbLive' \in BOOLEAN
    BY <1>1 DEF DeleteWrite, KbDeleteWrite, IInv, Typed, TypeOK
  <2> QED
    BY <2>1, MarkDeletingIInv
<1> QED
  BY <1>1, ReadIInv, CreatePutIInv, CreateCommitIInv, RetryWriteIInv DEF Request

----------------------------------------------------------------------------
(* Workers.                                                                 *)

\* A task that takes a message without an effect, or with a claim, keeps the
\* invariant.
LEMMA TakeIndexIInv ==
    ASSUME IInv, NEW w \in Workers, NEW m \in broker,
           ClaimIndex(w, m) \/ ClaimRefused(w, m)
    PROVE  IInv'
<1> USE IndexingAssumption DEF IInv, Typed
<1>0. m \in Messages /\ m.event \in Events /\ m.event.doc \in Docs
  BY MessageFields, EventFields DEF TypeOK
<1>1. CASE ClaimRefused(w, m)
  <2>1. /\ broker' = broker \ {m}
        /\ UNCHANGED <<rowVars, kbLive, objects, workerVars, req, repairs,
                       faults, outboxVars>>
    BY <1>1 DEF ClaimRefused, Take
  <2>2. OutboxDomains' /\ MessageInv' /\ RequestInv'
    BY <2>1, OutboxFrame, MessageFrame, RequestFrame
  <2>3. TypeOK'
    BY <2>1 DEF TypeOK, rowVars, workerVars, outboxVars
  <2>4. RowInv'
    BY <2>1, RowFrame DEF rowVars, workerVars
  <2>5. OutboxCoversDocuments'
    BY <2>1, OutboxFrame, CoverFrame DEF rowVars, Live
  <2> QED
    BY <2>2, <2>3, <2>4, <2>5
<1>2. CASE ClaimIndex(w, m)
  <2> DEFINE d == m.event.doc
  <2>1. /\ pc[w] = "idle" /\ m.event.type = "index"
        /\ Unlocked(d) /\ status[d] = "PENDING"
        /\ broker' = broker \ {m}
        /\ status' = [status EXCEPT ![d] = "PROCESSING"]
        /\ stale' = stale \ {d}
        /\ pc' = [pc EXCEPT ![w] = "claimed"]
        /\ msg' = [msg EXCEPT ![w] = m]
        /\ UNCHANGED <<version, chunks, holder, kbLive, objects, req, repairs,
                       faults, outboxVars>>
    BY <1>2 DEF ClaimIndex, Take, CanClaim, Goto
  <2>2. OutboxDomains' /\ RequestInv'
    BY <2>1, OutboxFrame, RequestFrame
  <2>3. TypeOK'
    BY <1>0, <2>1 DEF TypeOK, DocStatus, outboxVars
  <2>4. MessageInv'
    BY <1>0, <2>1 DEF TypeOK, MessageInv, Erasing
  <2>5. LockInv' /\ WorkInv'
    <3>1. \A v \in Workers : pc[v] \in Locking => v # w /\ Doc(v) # d
      BY <2>1 DEF RowInv, LockInv, Unlocked, Locking, Erasing
    <3>2. \A v \in Workers : pc[v] \in Locking => Doc(v) \in Docs
      BY WorkerFields DEF Locking, Erasing
    <3> QED
      BY <1>0, <2>1, <3>1, <3>2
      DEF TypeOK, RowInv, LockInv, WorkInv, Doc, Ver, Locking, Erasing
  <2>6. KeyInv' /\ VersionInv' /\ ChunkInv' /\ NoOrphanChunks' /\ ReadyHasObject'
    BY <1>0, <2>1 DEF TypeOK, RowInv, KeyInv, VersionInv, ChunkInv,
                      NoOrphanChunks, ReadyHasObject, Live
  <2>7. OutboxCoversDocuments'
    BY <1>0, <2>1, OutboxFrame, CoverFrame DEF TypeOK, Live
  <2> QED
    BY <2>2, <2>3, <2>4, <2>5, <2>6, <2>7 DEF RowInv
<1> QED
  BY <1>1, <1>2

\* The start of a deletion keeps the invariant: the row is DELETING when its
\* lock is taken.
LEMMA TakeDeleteIInv ==
    ASSUME IInv, NEW w \in Workers, NEW m \in broker,
           DeleteBegin(w, m) \/ DeleteRefused(w, m)
    PROVE  IInv'
<1> USE IndexingAssumption DEF IInv, Typed
<1>0. m \in Messages /\ m.event \in Events /\ m.event.doc \in Docs
  BY MessageFields, EventFields DEF TypeOK
<1>1. CASE DeleteRefused(w, m)
  <2>1. /\ broker' = broker \ {m}
        /\ UNCHANGED <<rowVars, kbLive, objects, workerVars, req, repairs,
                       faults, outboxVars>>
    BY <1>1 DEF DeleteRefused, Take
  <2>2. OutboxDomains' /\ MessageInv' /\ RequestInv'
    BY <2>1, OutboxFrame, MessageFrame, RequestFrame
  <2>3. TypeOK'
    BY <2>1 DEF TypeOK, rowVars, workerVars, outboxVars
  <2>4. RowInv'
    BY <2>1, RowFrame DEF rowVars, workerVars
  <2>5. OutboxCoversDocuments'
    BY <2>1, OutboxFrame, CoverFrame DEF rowVars, Live
  <2> QED
    BY <2>2, <2>3, <2>4, <2>5
<1>2. CASE DeleteBegin(w, m)
  <2> DEFINE d == m.event.doc
  <2>1. /\ pc[w] = "idle" /\ m.event.type = "delete"
        /\ Unlocked(d) /\ status[d] = "DELETING"
        /\ broker' = broker \ {m}
        /\ holder' = [holder EXCEPT ![d] = w]
        /\ pc' = [pc EXCEPT ![w] = "deleting"]
        /\ msg' = [msg EXCEPT ![w] = m]
        /\ UNCHANGED <<status, version, chunks, stale, kbLive, objects, req,
                       repairs, faults, outboxVars>>
    BY <1>2 DEF DeleteBegin, Take, CanErase, Goto
  <2>2. OutboxDomains' /\ RequestInv'
    BY <2>1, OutboxFrame, RequestFrame
  <2>3. TypeOK'
    BY <1>0, <2>1 DEF TypeOK, outboxVars
  <2>4. MessageInv'
    BY <1>0, <2>1 DEF TypeOK, MessageInv, Erasing
  <2>5. LockInv' /\ WorkInv'
    <3>1. \A v \in Workers : pc[v] \in Locking => v # w /\ Doc(v) # d
      BY <2>1 DEF RowInv, LockInv, Unlocked, Locking, Erasing
    <3>2. \A e \in Docs \ {d} : holder'[e] = holder[e] /\ holder[e] # w
      BY <1>0, <2>1 DEF TypeOK, RowInv, LockInv, Locking, Erasing
    <3>3. LockInv'
      BY <1>0, <2>1, <3>1, <3>2
      DEF TypeOK, RowInv, LockInv, Doc, Locking, Erasing
    <3>4. WorkInv'
      BY <1>0, <2>1, <3>1 DEF TypeOK, RowInv, WorkInv, Doc, Ver, Locking, Erasing
    <3> QED
      BY <3>3, <3>4
  <2>6. KeyInv' /\ VersionInv' /\ ChunkInv' /\ NoOrphanChunks' /\ ReadyHasObject'
    BY <2>1 DEF RowInv, KeyInv, VersionInv, ChunkInv, NoOrphanChunks,
                ReadyHasObject, Live
  <2>7. OutboxCoversDocuments'
    BY <2>1, OutboxFrame, CoverFrame DEF Live
  <2> QED
    BY <2>2, <2>3, <2>4, <2>5, <2>6, <2>7 DEF RowInv
<1> QED
  BY <1>1, <1>2

\* The start of the indexing transaction keeps the invariant: what it has
\* checked under the lock is what WorkInv says.
LEMMA IndexBeginIInv ==
    ASSUME IInv, NEW w \in Workers, IndexBegin(w) PROVE IInv'
<1> USE IndexingAssumption DEF IInv, Typed
<1> DEFINE d == Doc(w)
<1>1. /\ pc[w] = "claimed" /\ Unlocked(d)
      /\ status[d] = "PROCESSING" /\ version[d] = Ver(w) /\ KeyOf[d] \in objects
      /\ holder' = [holder EXCEPT ![d] = w]
      /\ pc' = [pc EXCEPT ![w] = "indexing"]
      /\ UNCHANGED <<status, version, chunks, stale, kbLive, objects, broker,
                     msg, req, repairs, faults, outboxVars>>
  BY DEF IndexBegin, CanIndex, Goto
<1>2. d \in Docs
  BY <1>1, WorkerFields
<1>3. OutboxDomains' /\ RequestInv'
  BY <1>1, OutboxFrame, RequestFrame
<1>4. TypeOK'
  BY <1>1, <1>2 DEF TypeOK, outboxVars
<1>5. MessageInv'
  BY <1>1 DEF TypeOK, MessageInv, Erasing
<1>6. LockInv' /\ WorkInv'
  <2>1. \A v \in Workers : pc[v] \in Locking => v # w /\ Doc(v) # d
    BY <1>1 DEF RowInv, LockInv, Unlocked, Locking, Erasing
  <2>2. \A e \in Docs \ {d} : holder'[e] = holder[e] /\ holder[e] # w
    BY <1>1, <1>2 DEF TypeOK, RowInv, LockInv, Locking, Erasing
  <2>3. LockInv'
    BY <1>1, <1>2, <2>1, <2>2 DEF TypeOK, RowInv, LockInv, Doc, Locking, Erasing
  <2>4. WorkInv'
    BY <1>1 DEF TypeOK, RowInv, WorkInv, Doc, Ver, Erasing
  <2> QED
    BY <2>3, <2>4
<1>7. KeyInv' /\ VersionInv' /\ ChunkInv' /\ NoOrphanChunks' /\ ReadyHasObject'
  BY <1>1 DEF RowInv, KeyInv, VersionInv, ChunkInv, NoOrphanChunks,
              ReadyHasObject, Live
<1>8. OutboxCoversDocuments'
  BY <1>1, OutboxFrame, CoverFrame DEF Live
<1> QED
  BY <1>3, <1>4, <1>5, <1>6, <1>7, <1>8 DEF RowInv

\* What a worker that stops holding locks does: it gives up its lock, if it has
\* one, and goes on to a step without a lock.
Release(w, label) ==
    /\ holder' = [d \in Docs |-> IF holder[d] = w THEN Nobody ELSE holder[d]]
    /\ Goto(w, label)
    /\ \/ label = "idle" /\ msg' = [msg EXCEPT ![w] = Nobody]
       \/ UNCHANGED msg

\* A worker holds the lock of its own document or none.
LEMMA HolderReleased ==
    ASSUME IInv, NEW w \in Workers, pc[w] # "idle"
    PROVE  [d \in Docs |-> IF holder[d] = w THEN Nobody ELSE holder[d]]
             = IF pc[w] \in Locking THEN [holder EXCEPT ![Doc(w)] = Nobody]
                                    ELSE holder
<1> USE IndexingAssumption DEF IInv, Typed
<1>1. Doc(w) \in Docs
  BY WorkerFields
<1>2. CASE pc[w] \in Locking
  <2>1. \A d \in Docs : holder[d] = w <=> d = Doc(w)
    BY <1>1, <1>2 DEF RowInv, LockInv
  <2> QED
    BY <1>1, <1>2, <2>1 DEF TypeOK
<1>3. CASE pc[w] \notin Locking
  <2>1. \A d \in Docs : holder[d] # w
    BY <1>3 DEF RowInv, LockInv
  <2> QED
    BY <1>3, <2>1 DEF TypeOK
<1> QED
  BY <1>2, <1>3

\* Release keeps the locks right and what other workers rely on.
LEMMA ReleaseLocks ==
    ASSUME IInv, NEW w \in Workers, pc[w] # "idle",
           NEW label \in {"idle", "failing", "retrying", "requeueing"},
           Release(w, label)
    PROVE  /\ LockInv'
           /\ \A v \in Workers \ {w} : pc'[v] = pc[v] /\ msg'[v] = msg[v]
           /\ pc'[w] = label
           /\ holder' \in [Docs -> Workers \cup {Nobody}]
<1> USE IndexingAssumption DEF IInv, Typed
<1>1. /\ \A v \in Workers \ {w} : pc'[v] = pc[v] /\ msg'[v] = msg[v]
      /\ pc'[w] = label /\ label \notin Locking
      /\ \A d \in Docs : holder'[d] = IF holder[d] = w THEN Nobody ELSE holder[d]
      /\ holder' \in [Docs -> Workers \cup {Nobody}]
  BY DEF Release, Goto, TypeOK, Locking, Erasing
<1>2. \A v \in Workers \ {w} : pc[v] \in Locking =>
         Doc(v) \in Docs /\ holder[Doc(v)] = v
  BY WorkerFields DEF RowInv, LockInv, Locking, Erasing
<1>3. \A d \in Docs : holder'[d] # Nobody =>
         holder'[d] \in Workers \ {w} /\ holder'[d] = holder[d]
  BY <1>1 DEF TypeOK
<1>4. LockInv'
  BY <1>1, <1>2, <1>3 DEF RowInv, LockInv, Doc
<1> QED
  BY <1>1, <1>4

\* A worker that releases its lock and writes no row keeps the invariant.
LEMMA ReleaseIInv ==
    ASSUME IInv, NEW w \in Workers, pc[w] # "idle",
           NEW label \in {"idle", "failing", "retrying", "requeueing"},
           label # "idle" => pc[w] \notin Erasing,
           Release(w, label),
           broker' \subseteq Messages, faults' \in 0 .. MaxFaults,
           UNCHANGED <<status, version, chunks, stale, kbLive, objects, req,
                       repairs, outboxVars>>
    PROVE  IInv'
<1> USE IndexingAssumption DEF IInv, Typed
<1>1. OutboxDomains' /\ RequestInv'
  BY OutboxFrame, RequestFrame
<1>2. TypeOK'
  BY ReleaseLocks DEF Release, Goto, TypeOK, outboxVars
<1>3. MessageInv'
  BY DEF Release, Goto, TypeOK, MessageInv, Erasing
<1>4. LockInv'
  BY ReleaseLocks
<1>5. WorkInv'
  BY ReleaseLocks DEF RowInv, WorkInv, Doc, Ver, Erasing
<1>6. KeyInv' /\ VersionInv' /\ ChunkInv' /\ NoOrphanChunks' /\ ReadyHasObject'
  BY DEF RowInv, KeyInv, VersionInv, ChunkInv, NoOrphanChunks, ReadyHasObject,
         Live
<1>7. OutboxCoversDocuments'
  BY OutboxFrame, CoverFrame DEF Live
<1> QED
  BY <1>1, <1>2, <1>3, <1>4, <1>5, <1>6, <1>7 DEF RowInv

\* Steps that end without a write: a refused second look, a missing file, a
\* failed transaction, a published retry, a lost task or worker.
LEMMA NoWriteIInv ==
    ASSUME IInv, NEW w \in Workers,
           \/ IndexSkip(w) \/ IndexNoObject(w) \/ IndexFail(w)
           \/ PublishRetry(w) \/ TaskError(w) \/ DeleteFail(w) \/ Crash(w)
    PROVE  IInv'
<1> USE IndexingAssumption DEF IInv, Typed
<1>1. pc[w] # "idle"
  BY DEF IndexSkip, IndexNoObject, IndexFail, PublishRetry, TaskError,
         DeleteFail, Crash, TypeOK
<1>2. msg[w] \in Messages /\ Message(msg[w].event, msg[w].retries + 1) \in Messages
  BY <1>1, WorkerFields, MessageFields DEF MessageInv
<1>3. Fault => faults' \in 0 .. MaxFaults
  BY DEF Fault, TypeOK
<1>4. CASE IndexSkip(w)
  <2>1. Release(w, "idle")
    BY <1>1, <1>4, HolderReleased
    DEF IndexSkip, TaskDone, Release, Locking, Erasing, rowVars
  <2> QED
    BY <1>1, <1>4, <2>1, ReleaseIInv DEF IndexSkip, rowVars, TypeOK
<1>5. CASE IndexNoObject(w)
  <2>1. Release(w, "failing") /\ pc[w] \notin Erasing
    BY <1>1, <1>5, HolderReleased
    DEF IndexNoObject, Release, Locking, Erasing, rowVars
  <2> QED
    BY <1>1, <1>5, <2>1, ReleaseIInv DEF IndexNoObject, rowVars, TypeOK
<1>6. CASE IndexFail(w)
  <2>1. PICK label \in {"failing", "retrying"} :
           Release(w, label) /\ faults' \in 0 .. MaxFaults
    BY <1>1, <1>3, <1>6, HolderReleased
    DEF IndexFail, Release, Locking, Erasing, TypeOK
  <2>2. pc[w] \notin Erasing
    BY <1>6 DEF IndexFail, Erasing
  <2> QED
    BY <1>1, <1>6, <2>1, <2>2, ReleaseIInv DEF IndexFail, TypeOK
<1>7. CASE PublishRetry(w)
  <2>1. Release(w, "idle")
    BY <1>1, <1>7, HolderReleased
    DEF PublishRetry, TaskDone, Release, Locking, Erasing, rowVars
  <2> QED
    BY <1>1, <1>2, <1>7, <2>1, ReleaseIInv
    DEF PublishRetry, Requeue, rowVars, TypeOK
<1>8. CASE TaskError(w)
  <2>1. Release(w, "idle")
    BY <1>1, <1>8, HolderReleased
    DEF TaskError, TaskDone, Release, Locking, Erasing, rowVars
  <2> QED
    BY <1>1, <1>3, <1>8, <2>1, ReleaseIInv DEF TaskError, rowVars, TypeOK
<1>9. CASE DeleteFail(w)
  <2>1. Release(w, "idle")
    BY <1>1, <1>9, HolderReleased
    DEF DeleteFail, TaskDone, Release, Locking, Erasing
  <2> QED
    BY <1>1, <1>2, <1>3, <1>9, <2>1, ReleaseIInv
    DEF DeleteFail, Requeue, TypeOK
<1>10. CASE Crash(w)
  <2>1. Release(w, "idle")
    BY <1>10 DEF Crash, TaskDone, Release
  <2> QED
    BY <1>1, <1>2, <1>3, <1>10, <2>1, ReleaseIInv DEF Crash, TypeOK
<1> QED
  BY <1>4, <1>5, <1>6, <1>7, <1>8, <1>9, <1>10

\* A step that writes the outcome of an attempt keeps the outbox complete.
LEMMA OutcomeCovered ==
    ASSUME IInv, NEW d \in Docs,
           NEW s \in {"READY", "PENDING", "FAILED", "GONE"},
           s # "GONE" => Live(d), status' = [status EXCEPT ![d] = s],
           UNCHANGED <<version, outboxVars>>
    PROVE  OutboxCoversDocuments'
BY OutboxFrame, CoverFrame DEF IInv, Typed, TypeOK, Live

\* The COMMIT of an indexing task keeps the invariant: one version of chunks,
\* and the file the task has read is there.
LEMMA IndexCommitIInv ==
    ASSUME IInv, NEW w \in Workers, IndexCommit(w) PROVE IInv'
<1> USE IndexingAssumption DEF IInv, Typed
<1> DEFINE d == Doc(w)
<1>1. /\ pc[w] = "indexing"
      /\ chunks' = [chunks EXCEPT ![d] = {Ver(w)}]
      /\ status' = [status EXCEPT ![d] = "READY"]
      /\ stale' = stale \ {d}
      /\ holder' = [holder EXCEPT ![d] = Nobody]
      /\ pc' = [pc EXCEPT ![w] = "idle"]
      /\ msg' = [msg EXCEPT ![w] = Nobody]
      /\ UNCHANGED <<version, kbLive, objects, broker, req, repairs, faults,
                     outboxVars>>
  BY DEF IndexCommit, Reindexed, TaskDone, Goto
<1>2. d \in Docs /\ Ver(w) \in Versions
  BY <1>1, WorkerFields DEF Erasing
<1>3. status[d] = "PROCESSING" /\ KeyOf[d] \in objects
  BY <1>1 DEF RowInv, WorkInv
<1>4. Release(w, "idle")
  BY <1>1, HolderReleased DEF Release, Goto, Locking
<1>5. /\ LockInv'
      /\ \A v \in Workers \ {w} : pc'[v] = pc[v] /\ msg'[v] = msg[v]
      /\ pc'[w] = "idle"
      /\ holder' \in [Docs -> Workers \cup {Nobody}]
  BY <1>1, <1>4, ReleaseLocks
<1>6. OutboxDomains' /\ RequestInv'
  BY <1>1, OutboxFrame, RequestFrame
<1>7. TypeOK'
  BY <1>1, <1>2, <1>5 DEF TypeOK, DocStatus, outboxVars
<1>8. MessageInv'
  BY <1>5 DEF MessageInv
<1>9. WorkInv'
  <2>1. \A v \in Workers \ {w} : pc[v] \in Locking => Doc(v) \in Docs \ {d}
    BY <1>1, WorkerFields DEF RowInv, LockInv, Locking, Erasing
  <2> QED
    BY <1>1, <1>5, <2>1 DEF RowInv, WorkInv, Doc, Ver, Locking, Erasing, TypeOK
<1>10. KeyInv' /\ VersionInv' /\ ChunkInv' /\ NoOrphanChunks' /\ ReadyHasObject'
  BY <1>1, <1>2, <1>3 DEF TypeOK, RowInv, KeyInv, VersionInv, ChunkInv,
                          NoOrphanChunks, ReadyHasObject, Live
<1>11. OutboxCoversDocuments'
  BY <1>1, <1>2, <1>3, OutcomeCovered DEF Live
<1> QED
  BY <1>5, <1>6, <1>7, <1>8, <1>9, <1>10, <1>11 DEF RowInv

\* A failure report keeps the invariant: it waits for the row lock and leaves
\* READY and DELETING rows alone.
LEMMA MarkFailureIInv ==
    ASSUME IInv, NEW w \in Workers, MarkFailure(w) PROVE IInv'
<1> USE IndexingAssumption DEF IInv, Typed
<1> DEFINE d == Doc(w)
<1>1. /\ pc[w] \in {"failing", "retrying"} /\ Unlocked(d)
      /\ UNCHANGED <<version, chunks, holder, kbLive, objects, broker, req,
                     repairs, faults, outboxVars>>
  BY DEF MarkFailure
<1>2. d \in Docs
  BY <1>1, WorkerFields
<1>3. PICK s \in {"PENDING", "FAILED", status[d]} :
         /\ status' = [status EXCEPT ![d] = s]
         /\ s # status[d] => Live(d)
         /\ stale' \subseteq stale
  BY <1>2 DEF MarkFailure, CanMarkFailure, TypeOK
<1>4. PICK label \in {"idle", "requeueing"} :
         /\ pc' = [pc EXCEPT ![w] = label]
         /\ \/ label = "idle" /\ msg' = [msg EXCEPT ![w] = Nobody]
            \/ UNCHANGED msg
  BY DEF MarkFailure, Goto, TaskDone
<1>5. OutboxDomains' /\ RequestInv'
  BY <1>1, OutboxFrame, RequestFrame
<1>6. TypeOK'
  BY <1>1, <1>2, <1>3, <1>4 DEF TypeOK, DocStatus, outboxVars
<1>7. MessageInv'
  BY <1>1, <1>4 DEF TypeOK, MessageInv, Erasing
<1>8. LockInv' /\ WorkInv'
  <2>1. /\ \A v \in Workers \ {w} : pc'[v] = pc[v] /\ msg'[v] = msg[v]
        /\ pc'[w] \notin Locking /\ pc[w] \notin Locking
    BY <1>1, <1>4 DEF TypeOK, Locking, Erasing
  <2>2. \A v \in Workers \ {w} : pc[v] \in Locking => Doc(v) \in Docs \ {d}
    BY <1>1, WorkerFields DEF RowInv, LockInv, Unlocked, Locking, Erasing
  <2>3. LockInv'
    BY <1>1, <2>1 DEF RowInv, LockInv, Doc, TypeOK
  <2>4. WorkInv'
    BY <1>1, <1>3, <2>1, <2>2
    DEF RowInv, WorkInv, Doc, Ver, Locking, Erasing, TypeOK
  <2> QED
    BY <2>3, <2>4
<1>9. KeyInv' /\ VersionInv' /\ ChunkInv' /\ NoOrphanChunks' /\ ReadyHasObject'
  BY <1>1, <1>2, <1>3 DEF TypeOK, RowInv, KeyInv, VersionInv, ChunkInv,
                          NoOrphanChunks, ReadyHasObject, Live
<1>10. OutboxCoversDocuments'
  BY <1>1, <1>2, <1>3, OutboxFrame, CoverFrame DEF TypeOK, Live
<1> QED
  BY <1>5, <1>6, <1>7, <1>8, <1>9, <1>10 DEF RowInv

\* The removal of a file keeps the invariant: the row that is being erased is
\* the only one with its key, and it is not READY nor being indexed.
LEMMA DeleteUnlinkIInv ==
    ASSUME IInv, NEW w \in Workers, DeleteUnlink(w) PROVE IInv'
<1> USE IndexingAssumption DEF IInv, Typed
<1> DEFINE d == Doc(w)
<1>1. /\ pc[w] = "deleting"
      /\ objects' = objects \ {KeyOf[d]}
      /\ pc' = [pc EXCEPT ![w] = "unlinked"]
      /\ UNCHANGED <<rowVars, kbLive, broker, msg, req, repairs, faults,
                     outboxVars>>
  BY DEF DeleteUnlink, Goto
<1>2. d \in Docs /\ status[d] = "DELETING"
  BY <1>1, WorkerFields DEF RowInv, WorkInv, Erasing
<1>3. \A e \in Docs : status[e] \in {"READY", "PROCESSING"} =>
         (KeyOf[e] \in objects => KeyOf[e] \in objects')
  BY <1>1, <1>2 DEF RowInv, KeyInv, Live
<1>4. OutboxDomains' /\ RequestInv'
  BY <1>1, OutboxFrame, RequestFrame
<1>5. TypeOK'
  BY <1>1 DEF TypeOK, rowVars, outboxVars
<1>6. MessageInv'
  BY <1>1 DEF TypeOK, MessageInv, Erasing
<1>7. LockInv'
  BY <1>1 DEF TypeOK, RowInv, LockInv, Doc, rowVars, Locking, Erasing
<1>8. WorkInv'
  <2>1. \A v \in Workers : pc[v] \in Locking => Doc(v) \in Docs
    BY WorkerFields DEF Locking, Erasing
  <2> QED
    BY <1>1, <1>3, <2>1
    DEF TypeOK, RowInv, WorkInv, Doc, Ver, rowVars, Locking, Erasing
<1>9. KeyInv' /\ VersionInv' /\ ChunkInv' /\ NoOrphanChunks' /\ ReadyHasObject'
  BY <1>1, <1>3 DEF RowInv, KeyInv, VersionInv, ChunkInv, NoOrphanChunks,
                    ReadyHasObject, Live, rowVars
<1>10. OutboxCoversDocuments'
  BY <1>1, OutboxFrame, CoverFrame DEF Live, rowVars
<1> QED
  BY <1>4, <1>5, <1>6, <1>7, <1>8, <1>9, <1>10 DEF RowInv

\* The COMMIT of a deletion keeps the invariant: the chunks go with the row.
LEMMA DeleteCommitIInv ==
    ASSUME IInv, NEW w \in Workers, DeleteCommit(w) PROVE IInv'
<1> USE IndexingAssumption DEF IInv, Typed
<1> DEFINE d == Doc(w)
<1>1. /\ pc[w] = "unlinked"
      /\ chunks' = [chunks EXCEPT ![d] = {}]
      /\ status' = [status EXCEPT ![d] = "GONE"]
      /\ holder' = [holder EXCEPT ![d] = Nobody]
      /\ pc' = [pc EXCEPT ![w] = "idle"]
      /\ msg' = [msg EXCEPT ![w] = Nobody]
      /\ UNCHANGED <<version, stale, kbLive, objects, broker, req, repairs,
                     faults, outboxVars>>
  BY DEF DeleteCommit, EraseChunks, TaskDone, Goto
<1>2. d \in Docs
  BY <1>1, WorkerFields
<1>3. Release(w, "idle")
  BY <1>1, HolderReleased DEF Release, Goto, Locking, Erasing
<1>4. /\ LockInv'
      /\ \A v \in Workers \ {w} : pc'[v] = pc[v] /\ msg'[v] = msg[v]
      /\ pc'[w] = "idle"
      /\ holder' \in [Docs -> Workers \cup {Nobody}]
  BY <1>1, <1>3, ReleaseLocks
<1>5. OutboxDomains' /\ RequestInv'
  BY <1>1, OutboxFrame, RequestFrame
<1>6. TypeOK'
  BY <1>1, <1>2, <1>4 DEF TypeOK, DocStatus, outboxVars
<1>7. MessageInv'
  BY <1>4 DEF MessageInv
<1>8. WorkInv'
  <2>1. \A v \in Workers \ {w} : pc[v] \in Locking => Doc(v) \in Docs \ {d}
    BY <1>1, WorkerFields DEF RowInv, LockInv, Locking, Erasing
  <2> QED
    BY <1>1, <1>4, <2>1 DEF RowInv, WorkInv, Doc, Ver, Locking, Erasing, TypeOK
<1>9. KeyInv' /\ VersionInv' /\ ChunkInv' /\ NoOrphanChunks' /\ ReadyHasObject'
  BY <1>1, <1>2 DEF TypeOK, RowInv, KeyInv, VersionInv, ChunkInv,
                    NoOrphanChunks, ReadyHasObject, Live
<1>10. OutboxCoversDocuments'
  BY <1>1, <1>2, OutcomeCovered
<1> QED
  BY <1>4, <1>5, <1>6, <1>7, <1>8, <1>9, <1>10 DEF RowInv

----------------------------------------------------------------------------
(* Broker, repair and dispatch.                                             *)

\* A step that only moves messages, time and repair runs keeps the invariant.
LEMMA QuietIInv ==
    ASSUME IInv, broker' \subseteq Messages, stale' \subseteq Docs,
           repairs' \in [Repairers -> SUBSET Events],
           faults' \in 0 .. MaxFaults,
           UNCHANGED <<status, version, chunks, holder, kbLive, objects, pc,
                       msg, req, outboxVars>>
    PROVE  IInv'
<1> USE IndexingAssumption DEF IInv, Typed
<1>1. OutboxDomains' /\ MessageInv' /\ RequestInv'
  BY OutboxFrame, MessageFrame, RequestFrame DEF workerVars
<1>2. TypeOK'
  BY DEF TypeOK, outboxVars
<1>3. RowInv'
  BY RowFrame
<1>4. OutboxCoversDocuments'
  BY OutboxFrame, CoverFrame DEF Live
<1> QED
  BY <1>1, <1>2, <1>3, <1>4

\* A second delivery, the passing of time and the messages of a repair run.
LEMMA DeliveryIInv ==
    ASSUME IInv,
           \/ \E w \in Workers : Redeliver(w)
           \/ \E d \in Docs : Age(d)
           \/ \E q \in Repairers : RepairPublish(q)
    PROVE  IInv'
<1> USE IndexingAssumption DEF IInv, Typed
<1>1. Fault => faults' \in 0 .. MaxFaults
  BY DEF Fault, TypeOK
<1>2. ASSUME NEW w \in Workers, Redeliver(w) PROVE IInv'
  <2>1. msg[w] \in Messages
    BY <1>2 DEF Redeliver, MessageInv
  <2> QED
    BY <1>1, <1>2, <2>1, QuietIInv DEF Redeliver, rowVars, workerVars, TypeOK
<1>3. ASSUME NEW d \in Docs, Age(d) PROVE IInv'
  BY <1>1, <1>3, QuietIInv DEF Age, workerVars, TypeOK
<1>4. ASSUME NEW q \in Repairers, RepairPublish(q) PROVE IInv'
  <2>1. PICK done \in SUBSET repairs[q] :
           /\ broker' = broker \cup {Message(e, 0) : e \in done}
           /\ UNCHANGED faults \/ Fault
    BY <1>4 DEF RepairPublish
  <2>2. done \subseteq Events
    BY DEF TypeOK
  <2>3. broker' \subseteq Messages
    BY <2>1, <2>2, MessageFields DEF TypeOK
  <2> QED
    BY <1>1, <1>4, <2>1, <2>3, QuietIInv
    DEF RepairPublish, rowVars, workerVars, TypeOK
<1> QED
  BY <1>2, <1>3, <1>4

\* The COMMIT of a repair run keeps the invariant: it skips locked rows.
LEMMA RepairCommitIInv ==
    ASSUME IInv, NEW q \in Repairers, RepairCommit(q) PROVE IInv'
<1> USE IndexingAssumption DEF IInv, Typed
<1>1. /\ status' = SetStatus(Stuck, "PENDING")
      /\ stale' = stale \ Stuck
      /\ repairs' = [repairs EXCEPT ![q] =
                        {IndexEvent(d, version[d]) : d \in Stuck}
                          \cup {DeleteEvent(d) : d \in Deleting}]
      /\ UNCHANGED <<version, chunks, holder, kbLive, objects, broker,
                     workerVars, req, faults, outboxVars>>
  BY DEF RepairCommit
<1>2. /\ Stuck \subseteq Docs /\ Deleting \subseteq Docs
      /\ \A d \in Stuck : /\ status[d] \in {"PENDING", "PROCESSING"}
                          /\ Unlocked(d)
  BY DEF Stuck, Deleting, TypeOK
<1>3. /\ \A d \in Docs \ Stuck : status'[d] = status[d]
      /\ \A d \in Stuck : status'[d] = "PENDING"
      /\ status' \in [Docs -> DocStatus]
  BY <1>1, <1>2 DEF TypeOK, SetStatus, DocStatus
<1>4. \A d \in Stuck : version[d] \in Versions
  BY <1>2 DEF RowInv, VersionInv, Live
<1>5. repairs' \in [Repairers -> SUBSET Events]
  BY <1>1, <1>2, <1>4, EventsBuilt DEF TypeOK
<1>6. OutboxDomains' /\ MessageInv' /\ RequestInv'
  BY <1>1, OutboxFrame, MessageFrame, RequestFrame
<1>7. TypeOK'
  BY <1>1, <1>3, <1>5 DEF TypeOK, workerVars, outboxVars
<1>8. LockInv' /\ WorkInv'
  <2>1. \A w \in Workers : pc[w] \in Locking => Doc(w) \in Docs \ Stuck
    BY <1>2, WorkerFields DEF RowInv, LockInv, Unlocked, Locking, Erasing
  <2> QED
    BY <1>1, <1>3, <2>1
    DEF RowInv, LockInv, WorkInv, Doc, Ver, workerVars, Locking, Erasing
<1>9. KeyInv' /\ VersionInv' /\ ChunkInv' /\ NoOrphanChunks' /\ ReadyHasObject'
  BY <1>1, <1>2, <1>3 DEF RowInv, KeyInv, VersionInv, ChunkInv,
                          NoOrphanChunks, ReadyHasObject, Live
<1>10. OutboxCoversDocuments'
  BY <1>1, <1>2, <1>3, OutboxFrame, CoverFrame DEF Live
<1> QED
  BY <1>6, <1>7, <1>8, <1>9, <1>10 DEF RowInv

\* A dispatcher keeps the invariant: it publishes events of the outbox, and no
\* row of the outbox disappears.
LEMMA DispatchIInv ==
    ASSUME IInv, NEW p \in Dispatchers, Dispatch(p) PROVE IInv'
<1> USE IndexingAssumption DEF IInv, Typed
<1>1. /\ UNCHANGED <<rowVars, kbLive, objects, workerVars, req, repairs, faults>>
      /\ broker' \subseteq Messages
  <2>1. CASE DispatchBatch(p)
    <3>1. PICK out \in SUBSET O!Claimable :
             broker' = broker \cup {Message(e, 0) : e \in out}
      BY <2>1 DEF DispatchBatch
    <3>2. out \subseteq Events
      BY DEF O!Claimable
    <3> QED
      BY <2>1, <3>1, <3>2, MessageFields DEF DispatchBatch, TypeOK
  <2>2. CASE DispatchEnd(p)
    BY <2>2 DEF DispatchEnd, TypeOK
  <2> QED
    BY <2>1, <2>2 DEF Dispatch
<1>2. OutboxDomains' /\ O!Rows \subseteq O!Rows'
  <2>1. CASE DispatchBatch(p)
    <3>1. UNCHANGED <<evStatus, evId>>
      BY <2>1 DEF DispatchBatch, O!DispatchBatch
    <3> QED
      BY <3>1 DEF OutboxDomains, O!Rows
  <2>2. CASE O!DispatchCrash(p)
    BY <2>2 DEF O!DispatchCrash, OutboxDomains, O!Rows
  <2>3. CASE O!DispatchCommit(p)
    BY <2>3 DEF O!DispatchCommit, OutboxDomains, O!Rows, O!FailedStatus
  <2> QED
    BY <2>1, <2>2, <2>3 DEF Dispatch, DispatchEnd
<1>3. MessageInv' /\ RequestInv'
  BY <1>1, MessageFrame, RequestFrame
<1>4. TypeOK'
  BY <1>1 DEF TypeOK, rowVars, workerVars
<1>5. RowInv'
  BY <1>1, RowFrame DEF rowVars, workerVars
<1>6. OutboxCoversDocuments'
  BY <1>1, <1>2, CoverFrame DEF rowVars, Live
<1> QED
  BY <1>2, <1>3, <1>4, <1>5, <1>6

----------------------------------------------------------------------------
(* The theorems.                                                            *)

\* Every step of the system keeps the invariant.
LEMMA NextIInv == IInv /\ [Next]_vars => IInv'
<1> SUFFICES ASSUME IInv, [Next]_vars PROVE IInv'
  OBVIOUS
<1>1. CASE UNCHANGED vars
  <2>1. /\ UNCHANGED <<status, version, chunks, holder, kbLive, objects, pc,
                       msg, req, outboxVars>>
        /\ UNCHANGED <<broker, stale, repairs, faults>>
    BY <1>1 DEF vars, rowVars, workerVars
  <2> QED
    BY <2>1, QuietIInv DEF IInv, Typed, TypeOK
<1>2. ASSUME NEW r \in Requests, Request(r) PROVE IInv'
  BY <1>2, RequestIInv
<1>3. ASSUME NEW m \in broker, TakeMessage(m) PROVE IInv'
  BY <1>3, TakeIndexIInv, TakeDeleteIInv DEF TakeMessage
<1>4. ASSUME NEW w \in Workers, Work(w) PROVE IInv'
  BY <1>4, IndexBeginIInv, NoWriteIInv, IndexCommitIInv, MarkFailureIInv,
     DeleteUnlinkIInv, DeleteCommitIInv DEF Work
<1>5. ASSUME NEW w \in Workers, WorkerFault(w) PROVE IInv'
  BY <1>5, NoWriteIInv, DeliveryIInv DEF WorkerFault
<1>6. ASSUME NEW d \in Docs, Age(d) PROVE IInv'
  BY <1>6, DeliveryIInv
<1>7. ASSUME NEW q \in Repairers, Repair(q) PROVE IInv'
  BY <1>7, RepairCommitIInv, DeliveryIInv DEF Repair
<1>8. ASSUME NEW p \in Dispatchers, Dispatch(p) PROVE IInv'
  BY <1>8, DispatchIInv
<1> QED
  BY <1>1, <1>2, <1>3, <1>4, <1>5, <1>6, <1>7, <1>8 DEF Next

\* The inductive invariant holds of every behaviour.
THEOREM Invariance == Spec => []IInv
<1>1. Init => IInv
  BY InitIInv
<1>2. IInv /\ [Next]_vars => IInv'
  BY NextIInv
<1> QED
  BY <1>1, <1>2, PTL DEF Spec

\* Every variable outside the outbox keeps its type.
THEOREM TypeCorrect == Spec => []TypeOK
<1>1. IInv => TypeOK
  BY DEF IInv, Typed
<1> QED
  BY <1>1, Invariance, PTL

\* No chunk outlives its document, whatever tasks and deletions race.
THEOREM ChunksHaveRows == Spec => []NoOrphanChunks
<1>1. IInv => NoOrphanChunks
  BY DEF IInv, RowInv
<1> QED
  BY <1>1, Invariance, PTL

\* A READY document has the chunks of exactly one version.
THEOREM OneIndex == Spec => []ReadyHasOneIndex
<1>1. IInv => ReadyHasOneIndex
  <2> SUFFICES ASSUME IInv, NEW d \in Docs
               PROVE  /\ Cardinality(chunks[d]) <= 1
                      /\ status[d] = "READY" => chunks[d] # {}
    BY DEF ReadyHasOneIndex
  <2>1. chunks[d] = {} \/ \E v \in Versions : chunks[d] = {v}
    BY DEF IInv, RowInv, ChunkInv
  <2>2. Cardinality(chunks[d]) <= 1
    <3>1. CASE chunks[d] = {}
      <4>1. Cardinality(chunks[d]) = 0
        BY <3>1, FS_EmptySet
      <4> QED
        BY <4>1
    <3>2. ASSUME NEW v \in Versions, chunks[d] = {v}
          PROVE  Cardinality(chunks[d]) <= 1
      <4>1. Cardinality(chunks[d]) = 1
        BY <3>2, FS_Singleton
      <4> QED
        BY <4>1
    <3> QED
      BY <2>1, <3>1, <3>2
  <2> QED
    BY <2>2 DEF IInv, RowInv, ChunkInv
<1> QED
  BY <1>1, Invariance, PTL

\* The file of a READY document is in storage, although storage takes part in
\* no transaction and successive uploads of one content share its key.
THEOREM FilesKept == Spec => []ReadyHasObject
<1>1. IInv => ReadyHasObject
  BY DEF IInv, RowInv
<1> QED
  BY <1>1, Invariance, PTL

\* Whichever requests race, what a document waits for is in the outbox.
THEOREM OutboxComplete == Spec => []OutboxCoversDocuments
<1>1. IInv => OutboxCoversDocuments
  BY DEF IInv
<1> QED
  BY <1>1, Invariance, PTL

\* What several uploads of one content share stays right, however many of them
\* are deleted while others are stored.
THEOREM SharedContent == Spec => []SharedFileSafe
<1>1. IInv => SharedFileSafe
  BY DEF IInv, Typed, RowInv, SharedFileSafe
<1> QED
  BY <1>1, Invariance, PTL

----------------------------------------------------------------------------
(* The indexing system implements the outbox.                               *)

\* An insertion is the outbox's own enqueueing of the keys that are new, or
\* changes nothing when every key has its row (ON CONFLICT DO NOTHING).
LEMMA InsertImplements ==
    ASSUME OutboxDomains, NEW new \in SUBSET Events, O!InsertRows(new)
    PROVE  [O!Next]_(O!vars)
<1> DEFINE fresh == new \ O!Rows
<1>1. CASE fresh = {}
  <2>1. UNCHANGED <<attempts, batch, sent, published, dispatchFaults>>
    BY DEF O!InsertRows
  <2>2. evStatus' = [e \in Events |-> evStatus[e]]
    BY <1>1 DEF O!InsertRows
  <2>3. evId' = [e \in Events |-> evId[e]]
    BY <1>1 DEF O!InsertRows
  <2> QED
    BY <2>1, <2>2, <2>3 DEF OutboxDomains, O!vars
<1>2. CASE fresh # {}
  <2>1. fresh \ O!Rows = fresh /\ fresh \cap O!Rows = {}
    OBVIOUS
  <2>2. O!InsertRows(fresh)
    BY <2>1, ZenonT(60) DEF O!InsertRows
  <2>3. O!Enqueue(fresh)
    BY <1>2, <2>1, <2>2 DEF O!Enqueue
  <2> QED
    BY <2>3 DEF O!Next
<1> QED
  BY <1>1, <1>2

\* A step of a request inserts rows or leaves the outbox alone.
LEMMA RequestImplements ==
    ASSUME IInv, NEW r \in Requests, Request(r) PROVE [O!Next]_(O!vars)
<1> USE IndexingAssumption DEF IInv, Typed
<1>1. CASE UNCHANGED outboxVars
  BY <1>1 DEF outboxVars, O!vars
<1>2. CASE \E d \in Docs : CreateCommit(r, d)
  <2>1. PICK d \in Docs : O!InsertRows({IndexEvent(d, 1)})
    BY <1>2 DEF CreateCommit, Enqueue
  <2>2. IndexEvent(d, 1) \in Events
    BY EventsBuilt DEF Versions, Nat1
  <2> QED
    BY <2>1, <2>2, InsertImplements
<1>3. CASE RetryWrite(r)
  <2>1. PICK d \in Seen(r) : O!InsertRows({IndexEvent(d, req[r].ver + 1)})
    BY <1>3 DEF RetryWrite, RetryEvent, Enqueue
  <2>2. d \in Docs /\ req[r].ver + 1 \in Versions
    BY <1>3 DEF RetryWrite, RequestInv, Seen, TypeOK, Versions, Nat1
  <2> QED
    BY <2>1, <2>2, EventsBuilt, InsertImplements
<1>4. CASE DeleteWrite(r) \/ KbDeleteWrite(r)
  <2>1. O!InsertRows(DeleteEvents(r))
    BY <1>4 DEF DeleteWrite, KbDeleteWrite, MarkDeleting, Enqueue
  <2>2. DeleteEvents(r) \subseteq Events
    BY EventsBuilt DEF DeleteEvents, Seen
  <2> QED
    BY <2>1, <2>2, InsertImplements
<1> QED
  BY <1>1, <1>2, <1>3, <1>4
  DEF Request, Authorize, RequestFail, CreatePut, RetryRead, DeleteRead,
      KbDeleteRead, ReadRows

\* Workers, time and repair runs leave the outbox alone.
LEMMA OthersImplement ==
    ASSUME \/ \E m \in broker : TakeMessage(m)
           \/ \E w \in Workers : Work(w) \/ WorkerFault(w)
           \/ \E d \in Docs : Age(d)
           \/ \E q \in Repairers : Repair(q)
    PROVE  UNCHANGED outboxVars
<1>1. ASSUME NEW m \in broker, TakeMessage(m) PROVE UNCHANGED outboxVars
  BY <1>1 DEF TakeMessage, ClaimIndex, ClaimRefused, DeleteBegin, DeleteRefused
<1>2. ASSUME NEW w \in Workers, Work(w) PROVE UNCHANGED outboxVars
  BY <1>2 DEF Work, IndexBegin, IndexNoObject, IndexSkip, IndexCommit,
              IndexFail, MarkFailure, PublishRetry, DeleteUnlink, DeleteCommit
<1>3. ASSUME NEW w \in Workers, WorkerFault(w) PROVE UNCHANGED outboxVars
  BY <1>3 DEF WorkerFault, TaskError, DeleteFail, Crash, Redeliver
<1>4. ASSUME NEW d \in Docs, Age(d) PROVE UNCHANGED outboxVars
  BY <1>4 DEF Age
<1>5. ASSUME NEW q \in Repairers, Repair(q) PROVE UNCHANGED outboxVars
  BY <1>5 DEF Repair, RepairCommit, RepairPublish
<1> QED
  BY <1>1, <1>2, <1>3, <1>4, <1>5

\* Every step of the system is a step of the outbox or leaves it alone.
LEMMA NextImplements == IInv /\ [Next]_vars => [O!Next]_(O!vars)
<1> SUFFICES ASSUME IInv, [Next]_vars PROVE [O!Next]_(O!vars)
  OBVIOUS
<1>1. CASE UNCHANGED vars
  BY <1>1 DEF vars, outboxVars, O!vars
<1>2. ASSUME NEW r \in Requests, Request(r) PROVE [O!Next]_(O!vars)
  BY <1>2, RequestImplements
<1>3. CASE \/ \E m \in broker : TakeMessage(m)
           \/ \E w \in Workers : Work(w) \/ WorkerFault(w)
           \/ \E d \in Docs : Age(d)
           \/ \E q \in Repairers : Repair(q)
  <2>1. UNCHANGED outboxVars
    BY <1>3, OthersImplement
  <2> QED
    BY <2>1 DEF outboxVars, O!vars
<1>4. ASSUME NEW p \in Dispatchers, Dispatch(p) PROVE [O!Next]_(O!vars)
  <2>1. CASE DispatchBatch(p)
    <3>1. O!Dispatch(p)
      BY <2>1 DEF DispatchBatch, O!Dispatch
    <3> QED
      BY <3>1 DEF O!Next
  <2>2. CASE DispatchEnd(p)
    <3>1. O!Dispatch(p) \/ O!DispatchCrash(p)
      BY <2>2 DEF DispatchEnd, O!Dispatch
    <3> QED
      BY <3>1 DEF O!Next
  <2> QED
    BY <1>4, <2>1, <2>2 DEF Dispatch
<1> QED
  BY <1>1, <1>2, <1>3, <1>4 DEF Next

\* The document life cycle uses the outbox only through its own operations, so
\* what is proved of RagOutbox holds of the composed system.
THEOREM Refinement == Spec => OutboxSpec
<1>1. Init => O!Init
  BY DEF Init
<1>2. IInv /\ [Next]_vars => [O!Next]_(O!vars)
  BY NextImplements
<1> QED
  BY <1>1, <1>2, Invariance, PTL DEF Spec, OutboxSpec, O!Spec

----------------------------------------------------------------------------
(* Chunks are written for the current version only.                         *)

\* Only the COMMIT of an indexing or erasing task writes chunks.
LEMMA ChunkWriters ==
    ASSUME [Next]_vars
    PROVE  \/ UNCHANGED chunks
           \/ \E w \in Workers : IndexCommit(w) \/ DeleteCommit(w)
<1>1. ASSUME NEW r \in Requests, Request(r) PROVE UNCHANGED chunks
  BY <1>1 DEF Request, Authorize, RequestFail, CreatePut, CreateCommit,
              RetryRead, DeleteRead, KbDeleteRead, ReadRows, RetryWrite,
              DeleteWrite, KbDeleteWrite, MarkDeleting, rowVars
<1>2. ASSUME NEW m \in broker, TakeMessage(m) PROVE UNCHANGED chunks
  BY <1>2 DEF TakeMessage, ClaimIndex, ClaimRefused, DeleteBegin,
              DeleteRefused, rowVars
<1>3. ASSUME NEW w \in Workers, Work(w)
      PROVE  UNCHANGED chunks \/ IndexCommit(w) \/ DeleteCommit(w)
  BY <1>3 DEF Work, IndexBegin, IndexNoObject, IndexSkip, IndexFail,
              MarkFailure, PublishRetry, DeleteUnlink, rowVars
<1>4. ASSUME NEW w \in Workers, WorkerFault(w) PROVE UNCHANGED chunks
  BY <1>4 DEF WorkerFault, TaskError, DeleteFail, Crash, Redeliver, rowVars
<1>5. ASSUME NEW d \in Docs, Age(d) PROVE UNCHANGED chunks
  BY <1>5 DEF Age
<1>6. ASSUME NEW q \in Repairers, Repair(q) PROVE UNCHANGED chunks
  BY <1>6 DEF Repair, RepairCommit, RepairPublish, rowVars
<1>7. ASSUME NEW p \in Dispatchers, Dispatch(p) PROVE UNCHANGED chunks
  BY <1>7 DEF Dispatch, DispatchBatch, DispatchEnd, rowVars
<1>8. CASE UNCHANGED vars
  BY <1>8 DEF vars, rowVars
<1> QED
  BY <1>1, <1>2, <1>3, <1>4, <1>5, <1>6, <1>7, <1>8 DEF Next

\* Chunks change only with the erasure of their document or by a successful
\* indexing of the version that is current at that moment.
THEOREM ChunksCurrent == Spec => IndexResultCurrent
<1> DEFINE Current ==
      \A d \in Docs : chunks'[d] # chunks[d] =>
          \/ status'[d] = "GONE"
          \/ /\ chunks'[d] = {version[d]}
             /\ status[d] = "PROCESSING" /\ status'[d] = "READY"
<1>1. IInv /\ [Next]_vars => [Current]_vars
  <2> SUFFICES ASSUME IInv, [Next]_vars PROVE Current
    OBVIOUS
  <2> USE DEF IInv, Typed
  <2>1. CASE UNCHANGED chunks
    BY <2>1
  <2>2. ASSUME NEW w \in Workers, IndexCommit(w) PROVE Current
    <3>1. /\ chunks' = [chunks EXCEPT ![Doc(w)] = {Ver(w)}]
          /\ status' = [status EXCEPT ![Doc(w)] = "READY"]
          /\ pc[w] = "indexing"
      BY <2>2 DEF IndexCommit, Reindexed
    <3>2. Doc(w) \in Docs
      BY <3>1, WorkerFields
    <3>3. version[Doc(w)] = Ver(w) /\ status[Doc(w)] = "PROCESSING"
      BY <3>1 DEF RowInv, WorkInv
    <3> QED
      BY <3>1, <3>2, <3>3 DEF TypeOK
  <2>3. ASSUME NEW w \in Workers, DeleteCommit(w) PROVE Current
    <3>1. /\ chunks' = [chunks EXCEPT ![Doc(w)] = {}]
          /\ status' = [status EXCEPT ![Doc(w)] = "GONE"]
      BY <2>3 DEF DeleteCommit, EraseChunks
    <3> QED
      BY <3>1 DEF TypeOK
  <2> QED
    BY <2>1, <2>2, <2>3, ChunkWriters
<1> QED
  BY <1>1, Invariance, PTL DEF Spec, IndexResultCurrent

----------------------------------------------------------------------------
(* Late and stale tasks.                                                    *)

\* The step of a busy worker changes only when that worker, or its loss, moves.
LEMMA WorkerMoves ==
    ASSUME IInv, [Next]_vars, NEW w \in Workers, pc[w] # "idle",
           pc'[w] # pc[w]
    PROVE  Work(w) \/ WorkerFault(w)
<1> USE DEF IInv, Typed
<1>1. ASSUME NEW r \in Requests, Request(r) PROVE UNCHANGED pc
  BY <1>1 DEF Request, Authorize, RequestFail, CreatePut, CreateCommit,
              RetryRead, DeleteRead, KbDeleteRead, ReadRows, RetryWrite,
              DeleteWrite, KbDeleteWrite, MarkDeleting, workerVars
<1>2. ASSUME NEW m \in broker, TakeMessage(m) PROVE pc'[w] = pc[w]
  BY <1>2 DEF TakeMessage, ClaimIndex, ClaimRefused, DeleteBegin, DeleteRefused,
              Take, Goto, workerVars, TypeOK
<1>3. ASSUME NEW v \in Workers \ {w}, Work(v) PROVE pc'[w] = pc[w]
  BY <1>3 DEF Work, IndexBegin, IndexNoObject, IndexSkip, IndexCommit,
              IndexFail, MarkFailure, PublishRetry, DeleteUnlink, DeleteCommit,
              TaskDone, Goto, TypeOK
<1>4. ASSUME NEW v \in Workers \ {w}, WorkerFault(v) PROVE pc'[w] = pc[w]
  BY <1>4 DEF WorkerFault, TaskError, DeleteFail, Crash, Redeliver, TaskDone,
              Goto, workerVars, TypeOK
<1>5. ASSUME NEW d \in Docs, Age(d) PROVE UNCHANGED pc
  BY <1>5 DEF Age, workerVars
<1>6. ASSUME NEW q \in Repairers, Repair(q) PROVE UNCHANGED pc
  BY <1>6 DEF Repair, RepairCommit, RepairPublish, workerVars
<1>7. ASSUME NEW p \in Dispatchers, Dispatch(p) PROVE UNCHANGED pc
  BY <1>7 DEF Dispatch, DispatchBatch, DispatchEnd, workerVars
<1>8. CASE UNCHANGED vars
  BY <1>8 DEF vars, workerVars
<1> QED
  BY <1>1, <1>2, <1>3, <1>4, <1>5, <1>6, <1>7, <1>8 DEF Next

\* A step of an indexing task about another version leaves the status of the
\* document alone.
THEOREM StaleTasksHarmless == Spec => StaleTaskHarmless
<1> DEFINE Harmless ==
      \A w \in Workers :
          /\ pc[w] # "idle" /\ pc'[w] # pc[w]
          /\ msg[w].event.type = "index" /\ version[Doc(w)] # Ver(w)
          => status'[Doc(w)] = status[Doc(w)]
<1>1. IInv /\ [Next]_vars => [Harmless]_vars
  <2> SUFFICES ASSUME IInv, [Next]_vars, NEW w \in Workers,
                      pc[w] # "idle", pc'[w] # pc[w],
                      msg[w].event.type = "index", version[Doc(w)] # Ver(w)
               PROVE  status'[Doc(w)] = status[Doc(w)]
    OBVIOUS
  <2> USE DEF IInv, Typed
  <2>1. pc[w] \notin Erasing
    BY DEF MessageInv
  <2>2. pc[w] # "indexing"
    BY DEF RowInv, WorkInv
  <2>3. CASE Work(w)
    BY <2>1, <2>2, <2>3
    DEF Work, IndexBegin, IndexNoObject, IndexSkip, IndexCommit, IndexFail,
        MarkFailure, CanMarkFailure, PublishRetry, DeleteUnlink, DeleteCommit,
        Erasing, rowVars
  <2>4. CASE WorkerFault(w)
    BY <2>4 DEF WorkerFault, TaskError, DeleteFail, Crash, Redeliver, rowVars
  <2> QED
    BY <2>3, <2>4, WorkerMoves
<1> QED
  BY <1>1, Invariance, PTL DEF Spec, StaleTaskHarmless

\* READY and DELETING end only by the erasing task or by a request that had read
\* the row.
THEOREM OutcomesKept == Spec => OutcomeKept
<1> DEFINE Ended(d) ==
      \/ status[d] = "DELETING" /\ status'[d] = "GONE"
      \/ \E r \in Requests : d \in Seen(r) /\ req'[r].op = "idle"
    Kept == \A d \in Docs :
      status[d] \in {"READY", "DELETING"} /\ status'[d] # status[d] => Ended(d)
<1>1. IInv /\ [Next]_vars => [Kept]_vars
  <2> SUFFICES ASSUME IInv, [Next]_vars, NEW d \in Docs,
                      status[d] \in {"READY", "DELETING"},
                      status'[d] # status[d]
               PROVE  Ended(d)
    OBVIOUS
  <2> USE DEF IInv, Typed
  <2>1. ASSUME NEW r \in Requests, Request(r) PROVE Ended(d)
    <3>1. CASE UNCHANGED status
      BY <3>1
    <3>2. ASSUME NEW e \in Docs, CreateCommit(r, e) PROVE Ended(d)
      BY <3>2 DEF CreateCommit, TypeOK
    <3>3. CASE RetryWrite(r) \/ MarkDeleting(r)
      <4>1. PICK s : status' = SetStatus(Changed(r, s), s)
        BY <3>3 DEF RetryWrite, MarkDeleting
      <4>2. d \in Seen(r)
        BY <4>1 DEF SetStatus, Changed
      <4>3. req'[r].op = "idle"
        BY <3>3 DEF RetryWrite, MarkDeleting, IdleRequest, TypeOK
      <4> QED
        BY <4>2, <4>3
    <3> QED
      BY <2>1, <3>1, <3>2, <3>3
      DEF Request, Authorize, RequestFail, CreatePut, RetryRead, DeleteRead,
          KbDeleteRead, ReadRows, DeleteWrite, KbDeleteWrite, rowVars
  <2>2. ASSUME NEW m \in broker, TakeMessage(m) PROVE Ended(d)
    BY <2>2 DEF TakeMessage, ClaimIndex, ClaimRefused, DeleteBegin,
                DeleteRefused, CanClaim, TypeOK, rowVars
  <2>3. ASSUME NEW w \in Workers, Work(w) PROVE Ended(d)
    <3>1. CASE UNCHANGED status
      BY <3>1
    <3>2. CASE IndexCommit(w)
      BY <3>2 DEF IndexCommit, RowInv, WorkInv, TypeOK
    <3>3. CASE DeleteCommit(w)
      BY <3>3 DEF DeleteCommit, RowInv, WorkInv, TypeOK, Erasing
    <3>4. CASE MarkFailure(w)
      BY <3>4 DEF MarkFailure, CanMarkFailure, TypeOK
    <3> QED
      BY <2>3, <3>1, <3>2, <3>3, <3>4
      DEF Work, IndexBegin, IndexNoObject, IndexSkip, IndexFail, PublishRetry,
          DeleteUnlink, rowVars
  <2>4. ASSUME NEW w \in Workers, WorkerFault(w) PROVE Ended(d)
    BY <2>4 DEF WorkerFault, TaskError, DeleteFail, Crash, Redeliver, rowVars
  <2>5. ASSUME NEW e \in Docs, Age(e) PROVE Ended(d)
    BY <2>5 DEF Age
  <2>6. ASSUME NEW q \in Repairers, Repair(q) PROVE Ended(d)
    BY <2>6 DEF Repair, RepairCommit, RepairPublish, SetStatus, Stuck, rowVars
  <2>7. ASSUME NEW p \in Dispatchers, Dispatch(p) PROVE Ended(d)
    BY <2>7 DEF Dispatch, DispatchBatch, DispatchEnd, rowVars
  <2>8. CASE UNCHANGED vars
    BY <2>8 DEF vars, rowVars
  <2> QED
    BY <2>1, <2>2, <2>3, <2>4, <2>5, <2>6, <2>7, <2>8 DEF Next
<1> QED
  BY <1>1, Invariance, PTL DEF Spec, OutcomeKept
=============================================================================
