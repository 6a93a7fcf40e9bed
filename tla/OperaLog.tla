------------------------------ MODULE OperaLog ------------------------------
(***************************************************************************)
(* The operation log: the middleware puts one record per request into a    *)
(* bounded queue, one consumer collects batches (common/queue.py) and      *)
(* inserts each in a transaction.  The collector is cancelled when its     *)
(* time is up, the insertion may fail, the process may shut down.          *)
(***************************************************************************)
EXTENDS Naturals, Sequences, FiniteSets

CONSTANTS Call,         \* the HTTP requests
          QueueMax,     \* settings.OPERA_LOG_QUEUE_MAXSIZE
          BatchMax,     \* settings.OPERA_LOG_QUEUE_BATCH_CONSUME_SIZE
          MaxInsertErrors \* bound: transactions of the consumer that fail

ASSUME OperaLogAssumption ==
    /\ {QueueMax, BatchMax} \subseteq Nat \ {0} /\ MaxInsertErrors \in Nat

VARIABLES call,      \* "new", "put" while it waits for room, "done", or "skipped"
          queue,     \* opera_log_queue
          batch,     \* items: what the collector holds
          consumer,  \* "collect", "insert", "stopped"
          unfinished,\* records put and not yet marked by task_done
          table,     \* rows of sys_opera_log, in the order of their INSERT
          dropped,   \* history: records of failed batches
          arrival,   \* history: records in the order in which they were put
          insertErrors

logVars == <<call, queue, batch, consumer, unfinished, table, dropped, arrival, insertErrors>>

LogTypeOK ==
    /\ call \in [Call -> {"new", "put", "done", "skipped"}]
    /\ queue \in Seq(Call) /\ Len(queue) <= QueueMax
    /\ batch \in Seq(Call) /\ Len(batch) <= BatchMax
    /\ consumer \in {"collect", "insert", "stopped"}
    /\ unfinished \in Nat
    /\ table \in Seq(Call) /\ arrival \in Seq(Call) /\ dropped \subseteq Call
    /\ insertErrors \in 0..MaxInsertErrors

LogInit ==
    /\ call = [r \in Call |-> "new"]
    /\ queue = <<>> /\ batch = <<>> /\ consumer = "collect" /\ unfinished = 0
    /\ table = <<>> /\ dropped = {} /\ arrival = <<>> /\ insertErrors = 0

\* dispatch: the record is put after the request was handled, whether it
\* succeeded, failed or was refused; excluded paths and OPTIONS have none.
Dispatched(r) ==
    /\ call[r] = "new"
    /\ \E next \in {"put", "skipped"} : call' = [call EXCEPT ![r] = next]
    /\ UNCHANGED <<queue, batch, consumer, unfinished, table, dropped, arrival, insertErrors>>

\* Queue.put waits while the queue is full; the response waits with it.
PutRecord(r) ==
    /\ call[r] = "put" /\ Len(queue) < QueueMax
    /\ queue' = Append(queue, r)
    /\ unfinished' = unfinished + 1
    /\ arrival' = Append(arrival, r)
    /\ call' = [call EXCEPT ![r] = "done"]
    /\ UNCHANGED <<batch, consumer, table, dropped, insertErrors>>

\* collector: take until the batch is full.  Queue.get hands an item over
\* and the collector appends it without an await in between.
CollectRecord ==
    /\ consumer = "collect" /\ queue # <<>> /\ Len(batch) < BatchMax
    /\ batch' = Append(batch, Head(queue))
    /\ queue' = Tail(queue)
    /\ UNCHANGED <<call, consumer, unfinished, table, dropped, arrival, insertErrors>>

\* Mutant: batch_dequeue returns a new list when its time is up.
TimeUpForgets ==
    /\ consumer = "collect" /\ batch # <<>>
    /\ \/ Len(batch) = BatchMax /\ consumer' = "insert" /\ UNCHANGED batch
       \/ Len(batch) < BatchMax /\ batch' = <<>> /\ UNCHANGED consumer
    /\ UNCHANGED <<call, queue, unfinished, table, dropped, arrival, insertErrors>>

\* The batch is full, or the time is up and there is something in it.
TimeUp ==
    /\ consumer = "collect" /\ batch # <<>>
    /\ consumer' = "insert"
    /\ UNCHANGED <<call, queue, batch, unfinished, table, dropped, arrival, insertErrors>>

\* bulk_create in one transaction; after it task_done for every record.
InsertBatch ==
    /\ consumer = "insert"
    /\ table' = table \o batch
    /\ unfinished' = unfinished - Len(batch)
    /\ batch' = <<>> /\ consumer' = "collect"
    /\ UNCHANGED <<call, queue, dropped, arrival, insertErrors>>

\* Mutant: an error of the handler ends the loop.
InsertFailsStop ==
    /\ consumer = "insert" /\ insertErrors < MaxInsertErrors
    /\ insertErrors' = insertErrors + 1
    /\ dropped' = dropped \cup {batch[i] : i \in 1..Len(batch)}
    /\ unfinished' = unfinished - Len(batch)
    /\ batch' = <<>> /\ consumer' = "stopped"
    /\ UNCHANGED <<call, queue, table, arrival>>

\* An error of the handler rolls the batch back, is logged, and the loop goes on.
InsertFails ==
    /\ consumer = "insert" /\ insertErrors < MaxInsertErrors
    /\ insertErrors' = insertErrors + 1
    /\ dropped' = dropped \cup {batch[i] : i \in 1..Len(batch)}
    /\ unfinished' = unfinished - Len(batch)
    /\ batch' = <<>> /\ consumer' = "collect"
    /\ UNCHANGED <<call, queue, table, arrival>>

\* register_init cancels the consumer at shutdown; no request is served any
\* more.  A cancelled insertion is rolled back, or had already committed.
CancelConsumer ==
    /\ consumer # "stopped" /\ consumer' = "stopped"
    /\ \A r \in Call : call[r] \in {"done", "skipped"}
    /\ IF consumer = "insert"
       THEN /\ table' \in {table, table \o batch}
            /\ unfinished' = unfinished - Len(batch)
       ELSE UNCHANGED <<table, unfinished>>
    /\ batch' = <<>>
    /\ dropped' = dropped \cup ({batch[i] : i \in 1..Len(batch)} \ {table'[i] : i \in 1..Len(table')})
    /\ UNCHANGED <<call, queue, arrival, insertErrors>>

LogNext ==
    \/ \E r \in Call : Dispatched(r) \/ PutRecord(r)
    \/ CollectRecord \/ TimeUp \/ InsertBatch \/ InsertFails \/ CancelConsumer

\* The event loop runs the consumer and wakes those that wait for room.
LogFair ==
    /\ WF_logVars(CollectRecord) /\ WF_logVars(TimeUp)
    /\ WF_logVars(InsertBatch \/ InsertFails)
    /\ WF_logVars(\E r \in Call : PutRecord(r))
----------------------------------------------------------------------------
Records(s) == {s[i] : i \in 1..Len(s)}

\* Every record that was put is in exactly one place: the queue, the batch,
\* the table, or a batch that the database refused.
EachRecordOnce ==
    /\ Len(arrival) = Len(queue) + Len(batch) + Len(table) + Cardinality(dropped)
    /\ Records(arrival) = Records(queue) \cup Records(batch) \cup Records(table) \cup dropped

\* Rows are inserted in the order in which the requests ended, whatever
\* batches failed in between.
TableInOrder ==
    \A i, j \in 1..Len(table) :
        i < j => \E a, b \in 1..Len(arrival) : a < b /\ arrival[a] = table[i] /\ arrival[b] = table[j]

\* task_done keeps the count of the queue right through failed batches.
CountRight == consumer # "stopped" => unfinished = Len(queue) + Len(batch)

\* No request waits for ever on a full queue: failing insertions do not stop
\* the consumer.
PutsEnd == []<>(\A r \in Call : call[r] # "put")

\* No record is lost, doubled or moved.
LogInv ==
    /\ LogTypeOK /\ EachRecordOnce /\ TableInOrder /\ CountRight
=============================================================================
