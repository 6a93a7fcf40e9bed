------------------------------ MODULE Limiter ------------------------------
(***************************************************************************)
(* The request limiter (utils/limiter.py): a bucket of time stamps per     *)
(* identifier in Redis, and in a process a small cache of bucket objects   *)
(* whose eviction cleans Redis up.  The cache is guarded by a lock, the    *)
(* buckets are not: other requests, here and in other processes, put their *)
(* stamps while an eviction leaks, counts and flushes.                     *)
(***************************************************************************)
EXTENDS Integers, Sequences, FiniteSets

CONSTANTS Identifier,
          MaxArrivals, \* bound: requests, numbered as they arrive
          RateLimit, RateInterval, \* the Rate, its interval in ticks
          CacheTtl,  \* cache_ttl: the interval and the buffer
          CacheMax,  \* max_cache_size
          MaxNow     \* bound: ticks of the Redis clock

ASSUME LimiterAssumption ==
    /\ {RateLimit, RateInterval, CacheMax, MaxArrivals} \subseteq Nat \ {0} /\ MaxNow \in Nat
    /\ CacheTtl \in Nat /\ CacheTtl > RateInterval

LimitRequest == 1..MaxArrivals

VARIABLES now,      \* Redis TIME
          stamps,   \* the bucket of each identifier in Redis
          buckets,  \* the cached buckets, least recently used first
          lreq,     \* the step of each request
          admitted, \* history: requests let through, with their times
          leaked,   \* history: the latest time a bucket was leaked for
          crossing  \* history: identifiers with a put between count and flush, or behind a leak

limiterVars == <<now, stamps, buckets, lreq, admitted, leaked, crossing>>

Stamp   == [at : 0..MaxNow, by : LimitRequest]
Locking == {"evict", "count", "flush"}

LimiterTypeOK ==
    /\ now \in 0..MaxNow
    /\ stamps \in [Identifier -> SUBSET Stamp] /\ admitted \in [Identifier -> SUBSET Stamp]
    /\ \A i \in 1..Len(buckets) : buckets[i].id \in Identifier /\ buckets[i].seen \in 0..MaxNow
    /\ \A i, j \in 1..Len(buckets) : buckets[i].id = buckets[j].id => i = j
    /\ \A r \in LimitRequest :
        /\ lreq[r].pc \in {"new", "get", "put", "done"} \cup Locking
        /\ lreq[r].pc \notin {"new", "done"} => lreq[r].id \in Identifier /\ lreq[r].at \in 0..MaxNow
        /\ lreq[r].pc \in {"count", "flush"} => lreq[r].victim \in Identifier
    /\ Cardinality({r \in LimitRequest : lreq[r].pc \in Locking}) <= 1
    /\ leaked \in [Identifier -> 0..MaxNow] /\ crossing \subseteq Identifier

LimiterInit ==
    /\ now = 0 /\ stamps = [k \in Identifier |-> {}] /\ buckets = <<>>
    /\ lreq = [r \in LimitRequest |-> [pc |-> "new"]]
    /\ admitted = [k \in Identifier |-> {}] /\ crossing = {}
    /\ leaked = [k \in Identifier |-> 0]

StepTo(r, from, to) == lreq[r].pc = from /\ lreq' = [lreq EXCEPT ![r].pc = to]
Unseen(b, t) == t - b.seen > CacheTtl
BucketsBut(i) == SubSeq(buckets, 1, i - 1) \o SubSeq(buckets, i + 1, Len(buckets))

Arrives(r, pc, k) ==
    /\ lreq[r].pc = "new" /\ \A q \in 1..r - 1 : lreq[q].pc # "new"
    /\ lreq' = [lreq EXCEPT ![r] = [pc |-> pc, id |-> k, at |-> now, victim |-> k]]

\* try_acquire: wrap_item reads the time, as does get before it waits.
ArriveAt(r, k) ==
    /\ Arrives(r, "get", k)
    /\ UNCHANGED <<now, stamps, buckets, admitted, leaked, crossing>>

\* A request of another process: it has its own cache.
ArriveElsewhere(r, k) ==
    /\ Arrives(r, "put", k)
    /\ UNCHANGED <<now, stamps, buckets, admitted, leaked, crossing>>

\* Under the lock: a bucket that is known goes to the end; a new one is
\* appended, and makes the others be looked at.
GetBucket(r) ==
    LET k == lreq[r].id
        b == [id |-> k, seen |-> lreq[r].at] IN
    /\ lreq[r].pc = "get" /\ \A q \in LimitRequest : lreq[q].pc \notin Locking
    /\ \/ \E i \in 1..Len(buckets) :
              /\ buckets[i].id = k /\ StepTo(r, "get", "put")
              /\ buckets' = Append(BucketsBut(i), b)
       \/ /\ \A i \in 1..Len(buckets) : buckets[i].id # k
          /\ StepTo(r, "get", "evict") /\ buckets' = Append(buckets, b)
    /\ UNCHANGED <<now, stamps, admitted, leaked, crossing>>

\* _evict: a bucket not seen for CacheTtl is dropped and its old stamps are
\* leaked; without such a bucket the oldest go until the size is right.
Evict(r) ==
    LET old == {i \in 1..Len(buckets) : Unseen(buckets[i], lreq[r].at)} IN
    /\ lreq[r].pc = "evict"
    /\ \/ \E i \in old :
              LET k == buckets[i].id IN
              /\ \A j \in old : i <= j
              /\ buckets' = BucketsBut(i)
              /\ stamps' = [stamps EXCEPT ![k] = {s \in @ : s.at > lreq[r].at - RateInterval}]
              /\ lreq' = [lreq EXCEPT ![r].pc = "count", ![r].victim = k]
              /\ leaked' = [leaked EXCEPT ![k] = IF @ > lreq[r].at THEN @ ELSE lreq[r].at]
       \/ /\ old = {} /\ StepTo(r, "evict", "put")
          /\ buckets' = IF Len(buckets) > CacheMax
                        THEN SubSeq(buckets, Len(buckets) - CacheMax + 1, Len(buckets)) ELSE buckets
          /\ UNCHANGED <<stamps, leaked>>
    /\ UNCHANGED <<now, admitted, crossing>>

\* Mutant: the bucket is flushed whatever is left in it.
CountStampsNot(r) ==
    /\ StepTo(r, "count", "flush")
    /\ UNCHANGED <<now, stamps, buckets, admitted, leaked, crossing>>

\* _dispose: a bucket that counts nothing any more is flushed.
CountStamps(r) ==
    /\ StepTo(r, "count", IF stamps[lreq[r].victim] = {} THEN "flush" ELSE "evict")
    /\ UNCHANGED <<now, stamps, buckets, admitted, leaked, crossing>>

\* Stamps put since the count go as well.
FlushBucket(r) ==
    LET k == lreq[r].victim IN
    /\ lreq[r].pc = "flush" /\ lreq' = [lreq EXCEPT ![r].pc = "evict", ![r].victim = lreq[r].id]
    /\ stamps' = [stamps EXCEPT ![k] = {}]
    /\ UNCHANGED <<now, buckets, admitted, leaked, crossing>>

\* The script of the bucket: the stamps of the last interval are counted, and
\* the stamp is added if there is room.
Put(r) ==
    LET k == lreq[r].id  s == [at |-> lreq[r].at, by |-> r] IN
    /\ lreq[r].pc = "put" /\ lreq' = [lreq EXCEPT ![r] = [pc |-> "done"]]
    /\ \/ /\ Cardinality({x \in stamps[k] : x.at > s.at - RateInterval}) < RateLimit
          /\ stamps' = [stamps EXCEPT ![k] = @ \cup {s}]
          /\ admitted' = [admitted EXCEPT ![k] = @ \cup {s}]
       \/ /\ Cardinality({x \in stamps[k] : x.at > s.at - RateInterval}) >= RateLimit
          /\ UNCHANGED <<stamps, admitted>>
    /\ crossing' = crossing \cup {i \in {k} : s.at < leaked[i] \/ \E q \in LimitRequest :
                                       lreq[q].pc = "flush" /\ lreq[q].victim = i}
    /\ UNCHANGED <<now, buckets, leaked>>

LimiterTick ==
    /\ now < MaxNow /\ now' = now + 1
    /\ UNCHANGED <<stamps, buckets, lreq, admitted, leaked, crossing>>

LimiterNext ==
    \/ \E r \in LimitRequest :
        \/ \E k \in Identifier : ArriveAt(r, k) \/ ArriveElsewhere(r, k)
        \/ GetBucket(r) \/ Evict(r) \/ CountStamps(r) \/ FlushBucket(r) \/ Put(r)
    \/ LimiterTick
----------------------------------------------------------------------------
\* No interval lets more than RateLimit requests of an identifier through,
\* whatever buckets are evicted and cleaned, unless a request put its stamp
\* between the count and the flush of its bucket, or one older than a leak.
WithinRate ==
    \A k \in Identifier \ crossing : \A t \in 0..MaxNow :
        Cardinality({s \in admitted[k] : s.at <= t /\ s.at > t - RateInterval}) <= RateLimit

\* The cache of buckets keeps its size once nobody is evicting.
CacheKept ==
    (\A r \in LimitRequest : lreq[r].pc \notin Locking) => Len(buckets) <= CacheMax

\* The limit holds through eviction and cleaning.
LimiterInv ==
    /\ LimiterTypeOK /\ WithinRate /\ CacheKept
=============================================================================
