------------------------------- MODULE Cache -------------------------------
(***************************************************************************)
(* The two-level cache of common/cache: a dictionary in every process (L1) *)
(* and Redis (L2) in front of one row.  A miss reads the row and fills     *)
(* both levels; a change drops its own L1, tells the other processes by    *)
(* publish/subscribe and drops L2, all before its transaction commits.     *)
(* Awaits of different requests interleave.  Dictionary data and settings  *)
(* are the users: a change of theirs invalidates the whole namespace, so   *)
(* one key and the version of its row are enough.                          *)
(***************************************************************************)
EXTENDS Integers, FiniteSets

CONSTANTS CacheNode,           \* server processes
          CacheRequest,   \* requests
          NodeOf,         \* the process that serves a request
          MaxReconnects,  \* settings.CACHE_PUBSUB_MAX_RECONNECT_ATTEMPTS
          MaxVersion,     \* bound: committed changes of the row
          MaxCacheFaults  \* bound: Redis errors and lost connections

ASSUME CacheAssumption ==
    /\ NodeOf \in [CacheRequest -> CacheNode]
    /\ MaxReconnects \in Nat \ {0} /\ MaxVersion \in Nat /\ MaxCacheFaults \in Nat

NoEntry == -1

VARIABLES l1,        \* the entry in each process, or NoEntry
          l2,        \* the entry in Redis, or NoEntry
          row,       \* version of the committed row
          writer,    \* the requests that hold the row lock (at most one)
          listener,  \* "on", "off" or "dead": the subscription of a process
          attempts,  \* reconnect_attempts
          pending,   \* invalidations on their way to a process
          creq,      \* step and value of each request
          cacheFaults,
          raced,     \* history: a miss overlapped a change
          lost       \* history: an invalidation did not reach a process

cacheVars == <<l1, l2, row, writer, listener, attempts, pending, creq, cacheFaults, raced, lost>>

CacheEntry == 0..MaxVersion \cup {NoEntry}
ReadSteps  == {"getL2", "backfill", "readDb", "fill", "store"}
WriteSteps == {"dropL1", "publish", "dropL2", "commit"}

CacheTypeOK ==
    /\ l1 \in [CacheNode -> CacheEntry] /\ l2 \in CacheEntry /\ row \in 0..MaxVersion
    /\ writer = {r \in CacheRequest : creq[r].pc \in WriteSteps} /\ Cardinality(writer) <= 1
    /\ listener \in [CacheNode -> {"on", "off", "dead"}]
    /\ attempts \in [CacheNode -> 0..MaxReconnects]
    /\ \A n \in CacheNode : /\ listener[n] = "dead" <=> attempts[n] = MaxReconnects
                            /\ listener[n] = "on" => attempts[n] = 0
    /\ pending \in [CacheNode -> Nat]
    /\ creq \in [CacheRequest -> [pc : {"idle"} \cup ReadSteps \cup WriteSteps, val : CacheEntry]]
    /\ cacheFaults \in 0..MaxCacheFaults /\ raced \in BOOLEAN /\ lost \in BOOLEAN

CacheInit ==
    /\ l1 = [n \in CacheNode |-> NoEntry] /\ l2 = NoEntry /\ row = 0 /\ writer = {}
    /\ listener = [n \in CacheNode |-> "on"] /\ attempts = [n \in CacheNode |-> 0]
    /\ pending = [n \in CacheNode |-> 0]
    /\ creq = [r \in CacheRequest |-> [pc |-> "idle", val |-> NoEntry]]
    /\ cacheFaults = 0 /\ raced = FALSE /\ lost = FALSE

CacheAt(r, pc) == creq[r].pc = pc
CacheGoto(r, pc, v) ==
    /\ creq' = [creq EXCEPT ![r] = [pc |-> pc, val |-> v]]
    /\ writer' = {q \in CacheRequest : creq'[q].pc \in WriteSteps}
    /\ raced' = (raced \/ /\ writer' # {}
                          /\ \E q \in CacheRequest : creq'[q].pc \in ReadSteps)

CacheFault == cacheFaults < MaxCacheFaults /\ cacheFaults' = cacheFaults + 1
Subscriptions == <<listener, attempts, pending, lost>>
----------------------------------------------------------------------------
(* cached *)

\* Mutant: a hit is written through to Redis.
LookUpWriteBack(r) ==
    /\ CacheAt(r, "idle")
    /\ CacheGoto(r, IF l1[NodeOf[r]] = NoEntry THEN "getL2" ELSE "idle", NoEntry)
    /\ l2' = IF l1[NodeOf[r]] = NoEntry THEN l2 ELSE l1[NodeOf[r]]
    /\ UNCHANGED <<l1, row, cacheFaults, Subscriptions>>

\* L1: a hit answers at once and changes nothing, a miss asks Redis.
LookUp(r) ==
    /\ CacheAt(r, "idle") /\ l1[NodeOf[r]] = NoEntry
    /\ CacheGoto(r, "getL2", NoEntry)
    /\ UNCHANGED <<l1, l2, row, cacheFaults, Subscriptions>>

\* L2: a hit is put into L1; an error of Redis counts as a miss.
GetRemote(r) ==
    /\ CacheAt(r, "getL2")
    /\ \/ /\ CacheGoto(r, IF l2 = NoEntry THEN "readDb" ELSE "backfill", l2)
          /\ UNCHANGED cacheFaults
       \/ CacheGoto(r, "readDb", NoEntry) /\ CacheFault
    /\ UNCHANGED <<l1, l2, row, Subscriptions>>

Backfill(r) ==
    /\ CacheAt(r, "backfill")
    /\ l1' = [l1 EXCEPT ![NodeOf[r]] = creq[r].val]
    /\ CacheGoto(r, "idle", NoEntry)
    /\ UNCHANGED <<l2, row, cacheFaults, Subscriptions>>

ReadRow(r) ==
    /\ CacheAt(r, "readDb") /\ CacheGoto(r, "fill", row)
    /\ UNCHANGED <<l1, l2, row, cacheFaults, Subscriptions>>

\* The value read goes into L1, then into L2; the latter may fail.
FillLocal(r) ==
    /\ CacheAt(r, "fill")
    /\ l1' = [l1 EXCEPT ![NodeOf[r]] = creq[r].val]
    /\ CacheGoto(r, "store", creq[r].val)
    /\ UNCHANGED <<l2, row, cacheFaults, Subscriptions>>

FillRemote(r) ==
    /\ CacheAt(r, "store") /\ CacheGoto(r, "idle", NoEntry)
    /\ \/ l2' = creq[r].val /\ UNCHANGED cacheFaults
       \/ UNCHANGED l2 /\ CacheFault
    /\ UNCHANGED <<l1, row, Subscriptions>>

CacheRead(r) == \/ LookUp(r) \/ GetRemote(r) \/ Backfill(r)
                \/ ReadRow(r) \/ FillLocal(r) \/ FillRemote(r)
----------------------------------------------------------------------------
(* cache_invalidate *)

\* The service changes the row: it waits for the row lock.
ChangeRow(r) ==
    /\ CacheAt(r, "idle") /\ writer = {} /\ row < MaxVersion
    /\ CacheGoto(r, "dropL1", NoEntry)
    /\ UNCHANGED <<l1, l2, row, cacheFaults, Subscriptions>>

DropLocal(r) ==
    /\ CacheAt(r, "dropL1")
    /\ l1' = [l1 EXCEPT ![NodeOf[r]] = NoEntry]
    /\ CacheGoto(r, "publish", NoEntry)
    /\ UNCHANGED <<l2, row, cacheFaults, Subscriptions>>

\* publish_invalidation reaches those that listen and swallows its errors.
PublishInvalidation(r) ==
    /\ CacheAt(r, "publish") /\ CacheGoto(r, "dropL2", NoEntry)
    /\ \/ /\ pending' = [n \in CacheNode |-> pending[n] + IF listener[n] = "on" THEN 1 ELSE 0]
          /\ lost' = (lost \/ \E n \in CacheNode : listener[n] # "on")
          /\ UNCHANGED cacheFaults
       \/ lost' = TRUE /\ UNCHANGED pending /\ CacheFault
    /\ UNCHANGED <<l1, l2, row, listener, attempts>>

\* An error here fails the request, and its transaction with it (atomic).
DropRemote(r) ==
    /\ CacheAt(r, "dropL2")
    /\ \/ l2' = NoEntry /\ CacheGoto(r, "commit", NoEntry) /\ UNCHANGED cacheFaults
       \/ UNCHANGED l2 /\ CacheGoto(r, "idle", NoEntry) /\ CacheFault
    /\ UNCHANGED <<l1, row, Subscriptions>>

CommitRow(r) ==
    /\ CacheAt(r, "commit") /\ CacheGoto(r, "idle", NoEntry)
    /\ row' = row + 1
    /\ UNCHANGED <<l1, l2, cacheFaults, Subscriptions>>

\* A request that is cancelled: ROLLBACK, the caches keep what they have.
CacheCancelled(r) ==
    /\ ~CacheAt(r, "idle") /\ CacheFault /\ CacheGoto(r, "idle", NoEntry)
    /\ UNCHANGED <<l1, l2, row, Subscriptions>>

CacheWrite(r) == \/ ChangeRow(r) \/ DropLocal(r) \/ PublishInvalidation(r)
                 \/ DropRemote(r) \/ CommitRow(r)
----------------------------------------------------------------------------
(* subscribe_and_listen *)
Caches == <<l1, l2, row, writer, creq, raced>>

\* Mutant: an invalidation is taken off the channel and not carried out.
HandleNothing(n) ==
    /\ listener[n] = "on" /\ pending[n] > 0
    /\ pending' = [pending EXCEPT ![n] = @ - 1]
    /\ UNCHANGED <<Caches, listener, attempts, cacheFaults, lost>>

HandleInvalidation(n) ==
    /\ listener[n] = "on" /\ pending[n] > 0
    /\ pending' = [pending EXCEPT ![n] = @ - 1]
    /\ l1' = [l1 EXCEPT ![n] = NoEntry]
    /\ UNCHANGED <<l2, row, writer, creq, raced, listener, attempts, cacheFaults, lost>>

\* The connection breaks, or cannot be made again: what was on its way is
\* lost, and after MaxReconnects failures in a row nobody listens any more.
ConnectionBroken(n) ==
    /\ listener[n] # "dead" /\ CacheFault
    /\ attempts' = [attempts EXCEPT ![n] = @ + 1]
    /\ listener' = [listener EXCEPT ![n] = IF attempts'[n] = MaxReconnects THEN "dead" ELSE "off"]
    /\ lost' = (lost \/ pending[n] > 0)
    /\ pending' = [pending EXCEPT ![n] = 0]
    /\ UNCHANGED Caches

\* A new subscription: the entries of L1 stay.
Reconnect(n) ==
    /\ listener[n] = "off"
    /\ listener' = [listener EXCEPT ![n] = "on"]
    /\ attempts' = [attempts EXCEPT ![n] = 0]
    /\ UNCHANGED <<Caches, pending, cacheFaults, lost>>

\* CACHE_LOCAL_TTL and CACHE_REDIS_TTL.
ExpireLocal(n) ==
    /\ l1[n] # NoEntry /\ l1' = [l1 EXCEPT ![n] = NoEntry]
    /\ UNCHANGED <<l2, row, writer, creq, raced, cacheFaults, Subscriptions>>

ExpireRemote ==
    /\ l2 # NoEntry /\ l2' = NoEntry
    /\ UNCHANGED <<l1, row, writer, creq, raced, cacheFaults, Subscriptions>>

CacheNext ==
    \/ \E r \in CacheRequest : CacheRead(r) \/ CacheWrite(r) \/ CacheCancelled(r)
    \/ \E n \in CacheNode : HandleInvalidation(n) \/ ConnectionBroken(n) \/ Reconnect(n) \/ ExpireLocal(n)
    \/ ExpireRemote

\* A request goes on once it has begun, and the time limits of both levels end.
CacheFair ==
    /\ \A r \in CacheRequest : WF_cacheVars(~CacheAt(r, "idle") /\ (CacheRead(r) \/ CacheWrite(r)))
    /\ \A n \in CacheNode : WF_cacheVars(ExpireLocal(n))
    /\ WF_cacheVars(ExpireRemote)
----------------------------------------------------------------------------
FreshEntry(v) == v \in {NoEntry, row}
AllFresh == FreshEntry(l2) /\ \A n \in CacheNode : FreshEntry(l1[n])

\* Every stale answer has one of two causes: a miss that overlapped a change,
\* or an invalidation that did not arrive.  Otherwise, once a change is over
\* and its messages are handled, every level is empty or current.
StaleHasCause ==
    AllFresh \/ raced \/ lost \/ writer # {} \/ \E n \in CacheNode : pending[n] > 0

\* Whatever was raced or lost, the two time limits get rid of it: nothing
\* copies an entry of L1 back into L2, so a stale value cannot keep itself
\* alive by moving between the levels.
StaleDiesOut == <>[]AllFresh

\* No level is stale without a cause.
CacheInv ==
    /\ CacheTypeOK /\ StaleHasCause
=============================================================================
