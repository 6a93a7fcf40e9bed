---------------------------- MODULE ServicesProofs ----------------------------
(***************************************************************************)
(* The services that share no state: the two-level cache, the operation    *)
(* log, the presence of WebSocket sessions, and the password of an         *)
(* account.  For each an inductive invariant, one lemma per action, and    *)
(* the safety invariant that follows from it.                              *)
(***************************************************************************)
EXTENDS Cache, OperaLog, Presence, PasswordSecurity, FiniteSetTheorems, FunctionTheorems, TLAPS

-------------------------------------------------------------------------------
(* The two-level cache.                                                     *)

CacheSpec == CacheInit /\ [][CacheNext]_cacheVars

\* One request changes the row at a time, and none reads the caches meanwhile
\* unless the history says so.
WriterInv ==
    /\ \A q, r \in CacheRequest : creq[q].pc \in WriteSteps /\ creq[r].pc \in WriteSteps => q = r
    /\ ~raced => \A q, r \in CacheRequest :
                     ~(creq[q].pc \in WriteSteps /\ creq[r].pc \in ReadSteps)

\* A change has room for its version.
BoundInv == \A r \in CacheRequest : creq[r].pc \in WriteSteps => row < MaxVersion

\* Without such a race Redis is empty or current, it is empty when a change
\* commits, and what a reader carries is the committed row.
RemoteInv ==
    ~raced =>
        /\ FreshEntry(l2)
        /\ \A r \in CacheRequest :
              /\ creq[r].pc = "commit" => l2 = NoEntry
              /\ creq[r].pc \in {"backfill", "fill", "store"} => creq[r].val = row

\* If no invalidation was lost either, an entry of a process is current or has
\* its invalidation on the way; once published, that holds of every entry.
LocalInv ==
    ~raced /\ ~lost =>
        \A n \in CacheNode :
            /\ pending[n] > 0 \/ FreshEntry(l1[n])
            /\ (\E r \in CacheRequest : creq[r].pc \in {"dropL2", "commit"}) =>
                  pending[n] > 0 \/ l1[n] = NoEntry

\* The inductive invariant of the cache.
CacheIInv == CacheTypeOK /\ WriterInv /\ BoundInv /\ RemoteInv /\ LocalInv

\* A set whose elements are equal has one of them at most.
LEMMA OneWriter ==
    ASSUME NEW W, \A q, r \in W : q = r
    PROVE  Cardinality(W) <= 1
<1>1. CASE W = {}
  BY <1>1, FS_EmptySet
<1>2. CASE W # {}
  <2>1. PICK r \in W : TRUE
    BY <1>2
  <2>2. W = {r}
    BY <2>1
  <2>3. QED
    BY <2>2, FS_Singleton
<1>3. QED
  BY <1>1, <1>2


\* A step of a request keeps the types, and one writer at most: a request
\* begins to write only when there is none.
LEMMA CacheGotoStep ==
    ASSUME CacheIInv, NEW r \in CacheRequest, NEW v \in CacheEntry,
           NEW pc \in {"idle"} \cup ReadSteps \cup WriteSteps, CacheGoto(r, pc, v),
           pc \in WriteSteps => creq[r].pc \in WriteSteps \/ writer = {}
    PROVE  /\ creq' \in [CacheRequest -> [pc : {"idle"} \cup ReadSteps \cup WriteSteps, val : CacheEntry]]
           /\ writer' = {q \in CacheRequest : creq'[q].pc \in WriteSteps}
           /\ Cardinality(writer') <= 1
           /\ raced' \in BOOLEAN
           /\ WriterInv'
<1>1. creq' \in [CacheRequest -> [pc : {"idle"} \cup ReadSteps \cup WriteSteps, val : CacheEntry]]
  BY DEF CacheGoto, CacheIInv, CacheTypeOK
<1>2. /\ writer' = {q \in CacheRequest : creq'[q].pc \in WriteSteps}
      /\ raced' = (raced \/ /\ writer' # {}
                            /\ \E q \in CacheRequest : creq'[q].pc \in ReadSteps)
  BY DEF CacheGoto
<1>3. /\ creq'[r].pc = pc
      /\ \A q \in CacheRequest : q # r => creq'[q] = creq[q]
  BY DEF CacheGoto, CacheIInv, CacheTypeOK
<1>4. writer = {q \in CacheRequest : creq[q].pc \in WriteSteps}
  BY DEF CacheIInv, CacheTypeOK
<1>5. \A p, q \in CacheRequest : creq'[p].pc \in WriteSteps /\ creq'[q].pc \in WriteSteps => p = q
  BY <1>3, <1>4 DEF CacheIInv, WriterInv
<1>6. Cardinality(writer') <= 1
  <2>1. \A p, q \in writer' : p = q
    BY <1>2, <1>5
  <2>2. QED
    BY <2>1, OneWriter
<1>7. raced' \in BOOLEAN
  BY <1>2 DEF CacheIInv, CacheTypeOK
<1>8. WriterInv'
  BY <1>2, <1>5 DEF WriterInv
<1>9. QED
  BY <1>1, <1>2, <1>6, <1>7, <1>8

\* LookUp (cached) keeps the invariant.
LEMMA LookUpStep ==
    ASSUME CacheIInv, NEW r \in CacheRequest, LookUp(r)
    PROVE  CacheIInv'
<1> USE DEF CacheIInv
<1>1. CacheTypeOK'
  BY CacheAssumption DEF LookUp, CacheTypeOK, CacheAt, NoEntry, CacheGoto,
    Subscriptions, CacheEntry, WriteSteps, ReadSteps
<1>2. WriterInv'
  <2>1. CacheGoto(r, "getL2", NoEntry) /\ NoEntry \in CacheEntry
    BY DEF LookUp, CacheEntry
  <2>2. QED
    BY <2>1, CacheGotoStep DEF LookUp, CacheAt, ReadSteps, WriteSteps
<1>3. BoundInv'
  BY CacheAssumption DEF LookUp, BoundInv, CacheTypeOK, WriterInv, CacheAt,
    NoEntry, CacheGoto, Subscriptions, WriteSteps, CacheEntry, ReadSteps
<1>4. RemoteInv'
  BY CacheAssumption DEF LookUp, RemoteInv, CacheTypeOK, WriterInv, CacheAt,
    NoEntry, CacheGoto, Subscriptions, FreshEntry, CacheEntry, WriteSteps,
    ReadSteps
<1>5. LocalInv'
  BY CacheAssumption DEF LookUp, LocalInv, CacheTypeOK, WriterInv, RemoteInv,
    CacheAt, NoEntry, CacheGoto, Subscriptions, FreshEntry, CacheEntry,
    WriteSteps, ReadSteps
<1> QED
  BY <1>1, <1>2, <1>3, <1>4, <1>5

\* GetRemote (cached) keeps the invariant.
LEMMA GetRemoteStep ==
    ASSUME CacheIInv, NEW r \in CacheRequest, GetRemote(r)
    PROVE  CacheIInv'
<1> USE DEF CacheIInv
<1>1. CacheTypeOK'
  <2>1. cacheFaults' \in 0..MaxCacheFaults
    BY CacheAssumption DEF GetRemote, CacheFault, CacheTypeOK
  <2>2. NoEntry \in CacheEntry /\ l2 \in CacheEntry
    BY DEF CacheEntry, CacheTypeOK
  <2>3. \/ CacheGoto(r, "readDb", l2) \/ CacheGoto(r, "backfill", l2)
        \/ CacheGoto(r, "readDb", NoEntry)
    BY DEF GetRemote
  <2>4. QED
    BY <2>1, <2>2, <2>3, CacheGotoStep
       DEF GetRemote, ReadSteps, WriteSteps, Subscriptions, CacheTypeOK
<1>2. WriterInv'
  BY CacheAssumption, SMTT(30) DEF GetRemote, WriterInv, CacheTypeOK, CacheAt,
    CacheGoto, NoEntry, CacheFault, Subscriptions, WriteSteps, ReadSteps,
    CacheEntry
<1>3. BoundInv'
  BY CacheAssumption DEF GetRemote, BoundInv, CacheTypeOK, WriterInv, CacheAt,
    CacheGoto, NoEntry, CacheFault, Subscriptions, WriteSteps, CacheEntry,
    ReadSteps
<1>4. RemoteInv'
  BY CacheAssumption DEF GetRemote, RemoteInv, CacheTypeOK, WriterInv,
    CacheAt, CacheGoto, NoEntry, CacheFault, Subscriptions, FreshEntry,
    CacheEntry, WriteSteps, ReadSteps
<1>5. LocalInv'
  BY CacheAssumption DEF GetRemote, LocalInv, CacheTypeOK, WriterInv,
    RemoteInv, CacheAt, CacheGoto, NoEntry, CacheFault, Subscriptions,
    FreshEntry, CacheEntry, WriteSteps, ReadSteps
<1> QED
  BY <1>1, <1>2, <1>3, <1>4, <1>5

\* Backfill (LocalCacheManager.get, set) keeps the invariant.
LEMMA BackfillStep ==
    ASSUME CacheIInv, NEW r \in CacheRequest, Backfill(r)
    PROVE  CacheIInv'
<1> USE DEF CacheIInv
<1>1. CacheTypeOK'
  BY CacheAssumption DEF Backfill, CacheTypeOK, CacheAt, CacheGoto, NoEntry,
    Subscriptions, CacheEntry, WriteSteps, ReadSteps
<1>2. WriterInv'
  BY CacheAssumption DEF Backfill, WriterInv, CacheTypeOK, CacheAt, CacheGoto,
    NoEntry, Subscriptions, WriteSteps, ReadSteps, CacheEntry
<1>3. BoundInv'
  BY CacheAssumption DEF Backfill, BoundInv, CacheTypeOK, WriterInv, CacheAt,
    CacheGoto, NoEntry, Subscriptions, WriteSteps, CacheEntry, ReadSteps
<1>4. RemoteInv'
  BY CacheAssumption DEF Backfill, RemoteInv, CacheTypeOK, WriterInv, CacheAt,
    CacheGoto, NoEntry, Subscriptions, FreshEntry, CacheEntry, WriteSteps,
    ReadSteps
<1>5. LocalInv'
  BY CacheAssumption DEF Backfill, LocalInv, CacheTypeOK, WriterInv,
    RemoteInv, CacheAt, CacheGoto, NoEntry, Subscriptions, FreshEntry,
    CacheEntry, WriteSteps, ReadSteps
<1> QED
  BY <1>1, <1>2, <1>3, <1>4, <1>5

\* ReadRow (ConfigService.get, get_all) keeps the invariant.
LEMMA ReadRowStep ==
    ASSUME CacheIInv, NEW r \in CacheRequest, ReadRow(r)
    PROVE  CacheIInv'
<1> USE DEF CacheIInv
<1>1. CacheTypeOK'
  BY CacheAssumption DEF ReadRow, CacheTypeOK, CacheAt, CacheGoto,
    Subscriptions, CacheEntry, WriteSteps, ReadSteps, NoEntry
<1>2. WriterInv'
  BY CacheAssumption DEF ReadRow, WriterInv, CacheTypeOK, CacheAt, CacheGoto,
    Subscriptions, WriteSteps, ReadSteps, CacheEntry, NoEntry
<1>3. BoundInv'
  BY CacheAssumption DEF ReadRow, BoundInv, CacheTypeOK, WriterInv, CacheAt,
    CacheGoto, Subscriptions, WriteSteps, CacheEntry, ReadSteps, NoEntry
<1>4. RemoteInv'
  BY CacheAssumption DEF ReadRow, RemoteInv, CacheTypeOK, WriterInv, CacheAt,
    CacheGoto, Subscriptions, FreshEntry, NoEntry, CacheEntry, WriteSteps,
    ReadSteps
<1>5. LocalInv'
  BY CacheAssumption DEF ReadRow, LocalInv, CacheTypeOK, WriterInv, RemoteInv,
    CacheAt, CacheGoto, Subscriptions, FreshEntry, NoEntry, CacheEntry,
    WriteSteps, ReadSteps
<1> QED
  BY <1>1, <1>2, <1>3, <1>4, <1>5

\* FillLocal (cached) keeps the invariant.
LEMMA FillLocalStep ==
    ASSUME CacheIInv, NEW r \in CacheRequest, FillLocal(r)
    PROVE  CacheIInv'
<1> USE DEF CacheIInv
<1>1. CacheTypeOK'
  BY CacheAssumption DEF FillLocal, CacheTypeOK, CacheAt, CacheGoto,
    Subscriptions, CacheEntry, WriteSteps, ReadSteps, NoEntry
<1>2. WriterInv'
  BY CacheAssumption DEF FillLocal, WriterInv, CacheTypeOK, CacheAt,
    CacheGoto, Subscriptions, WriteSteps, ReadSteps, CacheEntry, NoEntry
<1>3. BoundInv'
  BY CacheAssumption DEF FillLocal, BoundInv, CacheTypeOK, WriterInv, CacheAt,
    CacheGoto, Subscriptions, WriteSteps, CacheEntry, ReadSteps, NoEntry
<1>4. RemoteInv'
  BY CacheAssumption DEF FillLocal, RemoteInv, CacheTypeOK, WriterInv,
    CacheAt, CacheGoto, Subscriptions, FreshEntry, NoEntry, CacheEntry,
    WriteSteps, ReadSteps
<1>5. LocalInv'
  BY CacheAssumption DEF FillLocal, LocalInv, CacheTypeOK, WriterInv,
    RemoteInv, CacheAt, CacheGoto, Subscriptions, FreshEntry, NoEntry,
    CacheEntry, WriteSteps, ReadSteps
<1> QED
  BY <1>1, <1>2, <1>3, <1>4, <1>5

\* FillRemote (cached) keeps the invariant.
LEMMA FillRemoteStep ==
    ASSUME CacheIInv, NEW r \in CacheRequest, FillRemote(r)
    PROVE  CacheIInv'
<1> USE DEF CacheIInv
<1>1. CacheTypeOK'
  <2>1. CacheGoto(r, "idle", NoEntry) /\ NoEntry \in CacheEntry
    BY DEF FillRemote, CacheEntry
  <2>2. cacheFaults' \in 0..MaxCacheFaults /\ l2' \in CacheEntry
    BY CacheAssumption DEF FillRemote, CacheFault, Subscriptions, CacheTypeOK, CacheEntry
  <2>3. QED
    BY <2>1, <2>2, CacheGotoStep DEF FillRemote, CacheAt, ReadSteps, WriteSteps, Subscriptions, CacheTypeOK
<1>2. WriterInv'
  BY CacheAssumption DEF FillRemote, WriterInv, CacheTypeOK, CacheAt,
    CacheGoto, NoEntry, CacheFault, Subscriptions, WriteSteps, ReadSteps,
    CacheEntry
<1>3. BoundInv'
  BY CacheAssumption DEF FillRemote, BoundInv, CacheTypeOK, WriterInv,
    CacheAt, CacheGoto, NoEntry, CacheFault, Subscriptions, WriteSteps,
    CacheEntry, ReadSteps
<1>4. RemoteInv'
  BY CacheAssumption DEF FillRemote, RemoteInv, CacheTypeOK, WriterInv,
    CacheAt, CacheGoto, NoEntry, CacheFault, Subscriptions, FreshEntry,
    CacheEntry, WriteSteps, ReadSteps
<1>5. LocalInv'
  BY CacheAssumption DEF FillRemote, LocalInv, CacheTypeOK, WriterInv,
    RemoteInv, CacheAt, CacheGoto, NoEntry, CacheFault, Subscriptions,
    FreshEntry, CacheEntry, WriteSteps, ReadSteps
<1> QED
  BY <1>1, <1>2, <1>3, <1>4, <1>5

\* ChangeRow (ConfigService.create, update, bulk_update, delete) keeps the
\* invariant.
LEMMA ChangeRowStep ==
    ASSUME CacheIInv, NEW r \in CacheRequest, ChangeRow(r)
    PROVE  CacheIInv'
<1> USE DEF CacheIInv
<1>1. CacheTypeOK'
  <2>1. CacheGoto(r, "dropL1", NoEntry) /\ NoEntry \in CacheEntry
    BY DEF ChangeRow, CacheEntry
  <2>2. cacheFaults' \in 0..MaxCacheFaults
    BY CacheAssumption DEF ChangeRow, CacheFault, Subscriptions, CacheTypeOK, CacheEntry
  <2>3. QED
    BY <2>1, <2>2, CacheGotoStep DEF ChangeRow, CacheAt, ReadSteps, WriteSteps, Subscriptions, CacheTypeOK
<1>2. WriterInv'
  <2>1. CacheGoto(r, "dropL1", NoEntry) /\ NoEntry \in CacheEntry
    BY DEF ChangeRow, CacheEntry
  <2>2. QED
    BY <2>1, CacheGotoStep DEF ChangeRow, CacheAt, ReadSteps, WriteSteps
<1>3. BoundInv'
  BY CacheAssumption DEF ChangeRow, BoundInv, CacheTypeOK, WriterInv, CacheAt,
    CacheGoto, NoEntry, Subscriptions, WriteSteps, CacheEntry, ReadSteps
<1>4. RemoteInv'
  BY CacheAssumption DEF ChangeRow, RemoteInv, CacheTypeOK, WriterInv,
    CacheAt, CacheGoto, NoEntry, Subscriptions, FreshEntry, CacheEntry,
    WriteSteps, ReadSteps
<1>5. LocalInv'
  BY CacheAssumption DEF ChangeRow, LocalInv, CacheTypeOK, WriterInv,
    RemoteInv, CacheAt, CacheGoto, NoEntry, Subscriptions, FreshEntry,
    CacheEntry, WriteSteps, ReadSteps
<1> QED
  BY <1>1, <1>2, <1>3, <1>4, <1>5

\* DropLocal (cache_invalidate) keeps the invariant.
LEMMA DropLocalStep ==
    ASSUME CacheIInv, NEW r \in CacheRequest, DropLocal(r)
    PROVE  CacheIInv'
<1> USE DEF CacheIInv
<1>1. CacheTypeOK'
  BY CacheAssumption DEF DropLocal, CacheTypeOK, CacheAt, NoEntry, CacheGoto,
    Subscriptions, CacheEntry, WriteSteps, ReadSteps
<1>2. WriterInv'
  BY CacheAssumption DEF DropLocal, WriterInv, CacheTypeOK, CacheAt, NoEntry,
    CacheGoto, Subscriptions, WriteSteps, ReadSteps, CacheEntry
<1>3. BoundInv'
  BY CacheAssumption DEF DropLocal, BoundInv, CacheTypeOK, WriterInv, CacheAt,
    NoEntry, CacheGoto, Subscriptions, WriteSteps, CacheEntry, ReadSteps
<1>4. RemoteInv'
  BY CacheAssumption DEF DropLocal, RemoteInv, CacheTypeOK, WriterInv,
    CacheAt, NoEntry, CacheGoto, Subscriptions, FreshEntry, CacheEntry,
    WriteSteps, ReadSteps
<1>5. LocalInv'
  BY CacheAssumption DEF DropLocal, LocalInv, CacheTypeOK, WriterInv,
    RemoteInv, CacheAt, NoEntry, CacheGoto, Subscriptions, FreshEntry,
    CacheEntry, WriteSteps, ReadSteps
<1> QED
  BY <1>1, <1>2, <1>3, <1>4, <1>5

\* PublishInvalidation (CachePubSubManager.publish_invalidation) keeps the
\* invariant.
LEMMA PublishInvalidationStep ==
    ASSUME CacheIInv, NEW r \in CacheRequest, PublishInvalidation(r)
    PROVE  CacheIInv'
<1> USE DEF CacheIInv
<1>1. CacheTypeOK'
  <2>1. CacheGoto(r, "dropL2", NoEntry) /\ NoEntry \in CacheEntry
    BY DEF PublishInvalidation, CacheEntry
  <2>2. cacheFaults' \in 0..MaxCacheFaults
    BY CacheAssumption DEF PublishInvalidation, CacheFault, CacheTypeOK
  <2>3. pending' \in [CacheNode -> Nat]
    <3>1. ASSUME NEW n \in CacheNode PROVE pending[n] + (IF listener[n] = "on" THEN 1 ELSE 0) \in Nat
      BY DEF CacheTypeOK
    <3>2. QED
      BY <3>1 DEF PublishInvalidation, CacheTypeOK
  <2>4. lost' \in BOOLEAN
    BY DEF PublishInvalidation, CacheTypeOK
  <2>5. QED
    BY <2>1, <2>2, <2>3, <2>4, CacheGotoStep
       DEF PublishInvalidation, CacheAt, ReadSteps, WriteSteps, CacheTypeOK
<1>2. WriterInv'
  BY CacheAssumption DEF PublishInvalidation, WriterInv, CacheTypeOK, CacheAt,
    CacheGoto, NoEntry, CacheFault, WriteSteps, ReadSteps, CacheEntry
<1>3. BoundInv'
  BY CacheAssumption DEF PublishInvalidation, BoundInv, CacheTypeOK,
    WriterInv, CacheAt, CacheGoto, NoEntry, CacheFault, WriteSteps,
    CacheEntry, ReadSteps
<1>4. RemoteInv'
  BY CacheAssumption DEF PublishInvalidation, RemoteInv, CacheTypeOK,
    WriterInv, CacheAt, CacheGoto, NoEntry, CacheFault, FreshEntry,
    CacheEntry, WriteSteps, ReadSteps
<1>5. LocalInv'
  <2>1. SUFFICES ASSUME ~raced', ~lost' PROVE \A n \in CacheNode : pending'[n] > 0
    BY DEF LocalInv
  <2>2. ~lost /\ \A n \in CacheNode : listener[n] = "on"
    BY <2>1 DEF PublishInvalidation, CacheTypeOK
  <2>3. pending' = [n \in CacheNode |-> pending[n] + 1]
    BY <2>1, <2>2 DEF PublishInvalidation, CacheTypeOK
  <2>4. QED
    BY <2>3 DEF CacheTypeOK
<1> QED
  BY <1>1, <1>2, <1>3, <1>4, <1>5

\* DropRemote (cache_invalidate) keeps the invariant.
LEMMA DropRemoteStep ==
    ASSUME CacheIInv, NEW r \in CacheRequest, DropRemote(r)
    PROVE  CacheIInv'
<1> USE DEF CacheIInv
<1>1. CacheTypeOK'
  <2>1. PICK pc \in {"idle"} \cup ReadSteps \cup WriteSteps, v \in CacheEntry :
           CacheGoto(r, pc, v) /\ (pc \in WriteSteps => creq[r].pc \in WriteSteps)
    BY DEF DropRemote, CacheAt, CacheTypeOK, ReadSteps, WriteSteps, CacheEntry
  <2>2. cacheFaults' \in 0..MaxCacheFaults /\ l2' \in CacheEntry
    BY CacheAssumption DEF DropRemote, CacheFault, Subscriptions, CacheTypeOK, CacheEntry
  <2>3. QED
    BY <2>1, <2>2, CacheGotoStep DEF DropRemote, Subscriptions, CacheTypeOK
<1>2. WriterInv'
  BY CacheAssumption DEF DropRemote, WriterInv, CacheTypeOK, CacheAt, NoEntry,
    CacheGoto, CacheFault, Subscriptions, WriteSteps, ReadSteps, CacheEntry
<1>3. BoundInv'
  BY CacheAssumption DEF DropRemote, BoundInv, CacheTypeOK, WriterInv,
    CacheAt, NoEntry, CacheGoto, CacheFault, Subscriptions, WriteSteps,
    CacheEntry, ReadSteps
<1>4. RemoteInv'
  BY CacheAssumption DEF DropRemote, RemoteInv, CacheTypeOK, WriterInv,
    CacheAt, NoEntry, CacheGoto, CacheFault, Subscriptions, FreshEntry,
    CacheEntry, WriteSteps, ReadSteps
<1>5. LocalInv'
  BY CacheAssumption DEF DropRemote, LocalInv, CacheTypeOK, WriterInv,
    RemoteInv, CacheAt, NoEntry, CacheGoto, CacheFault, Subscriptions,
    FreshEntry, CacheEntry, WriteSteps, ReadSteps
<1> QED
  BY <1>1, <1>2, <1>3, <1>4, <1>5

\* CommitRow (get_db_transaction) keeps the invariant.
LEMMA CommitRowStep ==
    ASSUME CacheIInv, NEW r \in CacheRequest, CommitRow(r)
    PROVE  CacheIInv'
<1> USE DEF CacheIInv
<1>1. CacheTypeOK'
  <2>1. PICK pc \in {"idle"} \cup ReadSteps \cup WriteSteps, v \in CacheEntry :
           CacheGoto(r, pc, v) /\ (pc \in WriteSteps => creq[r].pc \in WriteSteps)
    BY DEF CommitRow, CacheAt, CacheTypeOK, ReadSteps, WriteSteps, CacheEntry
  <2>2. row' \in 0..MaxVersion
    BY CacheAssumption DEF CommitRow, CacheFault, Subscriptions, CacheTypeOK, CacheEntry, CacheAt, BoundInv, WriteSteps
  <2>3. QED
    BY <2>1, <2>2, CacheGotoStep DEF CommitRow, Subscriptions, CacheTypeOK
<1>2. WriterInv'
  BY CacheAssumption DEF CommitRow, WriterInv, CacheTypeOK, CacheAt,
    CacheGoto, NoEntry, Subscriptions, WriteSteps, ReadSteps, CacheEntry
<1>3. BoundInv'
  BY CacheAssumption DEF CommitRow, BoundInv, CacheTypeOK, WriterInv, CacheAt,
    CacheGoto, NoEntry, Subscriptions, WriteSteps, CacheEntry, ReadSteps
<1>4. RemoteInv'
  BY CacheAssumption DEF CommitRow, RemoteInv, CacheTypeOK, WriterInv,
    CacheAt, CacheGoto, NoEntry, Subscriptions, FreshEntry, CacheEntry,
    WriteSteps, ReadSteps
<1>5. LocalInv'
  BY CacheAssumption DEF CommitRow, LocalInv, CacheTypeOK, WriterInv,
    RemoteInv, CacheAt, CacheGoto, NoEntry, Subscriptions, FreshEntry,
    CacheEntry, WriteSteps, ReadSteps
<1> QED
  BY <1>1, <1>2, <1>3, <1>4, <1>5

\* A request is cancelled between two of its commands.
LEMMA CacheCancelledStep ==
    ASSUME CacheIInv, NEW r \in CacheRequest, CacheCancelled(r)
    PROVE  CacheIInv'
<1> USE DEF CacheIInv
<1>1. CacheTypeOK'
  <2>1. CacheGoto(r, "idle", NoEntry) /\ NoEntry \in CacheEntry
    BY DEF CacheCancelled, CacheEntry
  <2>2. cacheFaults' \in 0..MaxCacheFaults
    BY CacheAssumption DEF CacheCancelled, CacheFault, Subscriptions, CacheTypeOK, CacheEntry
  <2>3. QED
    BY <2>1, <2>2, CacheGotoStep DEF CacheCancelled, CacheAt, ReadSteps, WriteSteps, Subscriptions, CacheTypeOK
<1>2. WriterInv'
  BY CacheAssumption DEF CacheCancelled, WriterInv, CacheTypeOK, CacheAt,
    CacheFault, CacheGoto, NoEntry, Subscriptions, WriteSteps, ReadSteps,
    CacheEntry
<1>3. BoundInv'
  BY CacheAssumption DEF CacheCancelled, BoundInv, CacheTypeOK, WriterInv,
    CacheAt, CacheFault, CacheGoto, NoEntry, Subscriptions, WriteSteps,
    CacheEntry, ReadSteps
<1>4. RemoteInv'
  BY CacheAssumption DEF CacheCancelled, RemoteInv, CacheTypeOK, WriterInv,
    CacheAt, CacheFault, CacheGoto, NoEntry, Subscriptions, FreshEntry,
    CacheEntry, WriteSteps, ReadSteps
<1>5. LocalInv'
  BY CacheAssumption DEF CacheCancelled, LocalInv, CacheTypeOK, WriterInv,
    RemoteInv, CacheAt, CacheFault, CacheGoto, NoEntry, Subscriptions,
    FreshEntry, CacheEntry, WriteSteps, ReadSteps
<1> QED
  BY <1>1, <1>2, <1>3, <1>4, <1>5

\* HandleInvalidation (CachePubSubManager.subscribe_and_listen) keeps the
\* invariant.
LEMMA HandleInvalidationStep ==
    ASSUME CacheIInv, NEW n \in CacheNode, HandleInvalidation(n)
    PROVE  CacheIInv'
<1> USE DEF CacheIInv
<1>1. CacheTypeOK'
  BY CacheAssumption DEF HandleInvalidation, CacheTypeOK, NoEntry, CacheEntry,
    WriteSteps, ReadSteps
<1>2. LocalInv'
  BY CacheAssumption DEF HandleInvalidation, LocalInv, CacheTypeOK, WriterInv,
    RemoteInv, NoEntry, FreshEntry, CacheEntry, WriteSteps, ReadSteps
<1>3. WriterInv' /\ BoundInv' /\ RemoteInv'
  BY DEF HandleInvalidation, WriterInv, BoundInv, RemoteInv, WriteSteps,
    ReadSteps, FreshEntry, NoEntry
<1> QED
  BY <1>1, <1>2, <1>3

\* ConnectionBroken (CachePubSubManager.subscribe_and_listen) keeps the
\* invariant.
LEMMA ConnectionBrokenStep ==
    ASSUME CacheIInv, NEW n \in CacheNode, ConnectionBroken(n)
    PROVE  CacheIInv'
<1> USE DEF CacheIInv
<1>1. CacheTypeOK'
  <2>1. attempts[n] \in 0..MaxReconnects /\ attempts[n] # MaxReconnects
    <3>1. listener[n] # "dead"
      BY DEF ConnectionBroken
    <3>2. \A p \in CacheNode : listener[p] = "dead" <=> attempts[p] = MaxReconnects
      BY DEF CacheTypeOK
    <3>3. attempts[n] \in 0..MaxReconnects
      BY DEF CacheTypeOK
    <3>4. QED
      BY <3>1, <3>2, <3>3
  <2>2. attempts[n] + 1 \in 1..MaxReconnects
    BY <2>1, CacheAssumption
  <2>3. /\ attempts' = [attempts EXCEPT ![n] = attempts[n] + 1]
        /\ listener' = [listener EXCEPT ![n] = IF attempts[n] + 1 = MaxReconnects THEN "dead" ELSE "off"]
    BY <2>2 DEF ConnectionBroken, CacheTypeOK
  <2>4. /\ attempts' \in [CacheNode -> 0..MaxReconnects]
        /\ listener' \in [CacheNode -> {"on", "off", "dead"}]
    BY <2>2, <2>3 DEF CacheTypeOK
  <2>5. ASSUME NEW p \in CacheNode
        PROVE  /\ listener'[p] = "dead" <=> attempts'[p] = MaxReconnects
               /\ listener'[p] = "on" => attempts'[p] = 0
    <3>1. CASE p = n
      BY <2>2, <2>3, <3>1 DEF CacheTypeOK
    <3>2. CASE p # n
      <4>1. listener'[p] = listener[p] /\ attempts'[p] = attempts[p]
        BY <2>3, <3>2 DEF CacheTypeOK
      <4>2. /\ listener[p] = "dead" <=> attempts[p] = MaxReconnects
            /\ listener[p] = "on" => attempts[p] = 0
        BY DEF CacheTypeOK
      <4>3. QED
        BY <4>1, <4>2
    <3>3. QED
      BY <3>1, <3>2
  <2>6. cacheFaults' \in 0..MaxCacheFaults
    BY CacheAssumption DEF ConnectionBroken, CacheFault, CacheTypeOK
  <2>7. pending' \in [CacheNode -> Nat] /\ lost' \in BOOLEAN
    BY DEF ConnectionBroken, CacheTypeOK
  <2>8. QED
    BY <2>4, <2>5, <2>6, <2>7 DEF ConnectionBroken, Caches, CacheTypeOK
<1>2. LocalInv'
  BY CacheAssumption, ZenonT(60) DEF ConnectionBroken, LocalInv, CacheTypeOK, WriterInv,
    RemoteInv, CacheFault, Caches, FreshEntry, NoEntry, CacheEntry,
    WriteSteps, ReadSteps
<1>3. WriterInv' /\ BoundInv' /\ RemoteInv'
  BY DEF ConnectionBroken, Caches, WriterInv, BoundInv, RemoteInv, WriteSteps,
    ReadSteps, FreshEntry, NoEntry
<1> QED
  BY <1>1, <1>2, <1>3

\* Reconnect (CachePubSubManager.subscribe_and_listen) keeps the invariant.
LEMMA ReconnectStep ==
    ASSUME CacheIInv, NEW n \in CacheNode, Reconnect(n)
    PROVE  CacheIInv'
<1> USE DEF CacheIInv
<1>1. CacheTypeOK'
  BY CacheAssumption DEF Reconnect, CacheTypeOK, Caches, CacheEntry,
    WriteSteps, ReadSteps, NoEntry
<1>2. WriterInv' /\ BoundInv' /\ RemoteInv' /\ LocalInv'
  BY DEF Reconnect, Caches, WriterInv, BoundInv, RemoteInv, LocalInv,
    WriteSteps, ReadSteps, FreshEntry, NoEntry
<1> QED
  BY <1>1, <1>2

\* ExpireLocal (LocalCacheManager.delete, clear, delete_by_prefix) keeps the
\* invariant.
LEMMA ExpireLocalStep ==
    ASSUME CacheIInv, NEW n \in CacheNode, ExpireLocal(n)
    PROVE  CacheIInv'
<1> USE DEF CacheIInv
<1>1. CacheTypeOK'
  BY CacheAssumption DEF ExpireLocal, CacheTypeOK, NoEntry, Subscriptions,
    CacheEntry, WriteSteps, ReadSteps
<1>2. LocalInv'
  BY CacheAssumption DEF ExpireLocal, LocalInv, CacheTypeOK, WriterInv,
    RemoteInv, NoEntry, Subscriptions, FreshEntry, CacheEntry, WriteSteps,
    ReadSteps
<1>3. WriterInv' /\ BoundInv' /\ RemoteInv'
  BY DEF ExpireLocal, Subscriptions, WriterInv, BoundInv, RemoteInv,
    WriteSteps, ReadSteps, FreshEntry, NoEntry
<1> QED
  BY <1>1, <1>2, <1>3

\* ExpireRemote (RedisCli.delete_by_prefix) keeps the invariant.
LEMMA ExpireRemoteStep ==
    ASSUME CacheIInv, ExpireRemote
    PROVE  CacheIInv'
<1> USE DEF CacheIInv
<1>1. CacheTypeOK'
  BY CacheAssumption DEF ExpireRemote, CacheTypeOK, NoEntry, Subscriptions,
    CacheEntry, WriteSteps, ReadSteps
<1>2. RemoteInv'
  BY CacheAssumption DEF ExpireRemote, RemoteInv, CacheTypeOK, WriterInv,
    NoEntry, Subscriptions, FreshEntry, CacheEntry, WriteSteps, ReadSteps
<1>3. WriterInv' /\ BoundInv' /\ LocalInv'
  BY DEF ExpireRemote, Subscriptions, WriterInv, BoundInv, LocalInv,
    WriteSteps, ReadSteps, FreshEntry, NoEntry
<1> QED
  BY <1>1, <1>2, <1>3

\* The initial state satisfies the invariant.
LEMMA CacheInitInv == CacheInit => CacheIInv
<1> SUFFICES ASSUME CacheInit PROVE CacheIInv
  OBVIOUS
<1>1. creq \in [CacheRequest -> [pc : {"idle"} \cup ReadSteps \cup WriteSteps, val : CacheEntry]]
  BY DEF CacheInit, CacheEntry
<1>2. writer = {r \in CacheRequest : creq[r].pc \in WriteSteps} /\ Cardinality(writer) <= 1
  BY FS_EmptySet DEF CacheInit, WriteSteps
<1>3. /\ l1 \in [CacheNode -> CacheEntry] /\ l2 \in CacheEntry /\ row \in 0..MaxVersion
      /\ attempts \in [CacheNode -> 0..MaxReconnects] /\ pending \in [CacheNode -> Nat]
      /\ cacheFaults \in 0..MaxCacheFaults
  BY CacheAssumption DEF CacheInit, CacheEntry
<1>4. /\ listener \in [CacheNode -> {"on", "off", "dead"}]
      /\ \A n \in CacheNode : /\ listener[n] = "dead" <=> attempts[n] = MaxReconnects
                              /\ listener[n] = "on" => attempts[n] = 0
      /\ raced \in BOOLEAN /\ lost \in BOOLEAN
  BY CacheAssumption DEF CacheInit
<1>5. CacheTypeOK
  BY <1>1, <1>2, <1>3, <1>4 DEF CacheTypeOK
<1>6. WriterInv /\ BoundInv /\ RemoteInv /\ LocalInv
  BY DEF CacheInit, WriterInv, BoundInv, RemoteInv, LocalInv, FreshEntry, ReadSteps, WriteSteps
<1>7. QED
  BY <1>5, <1>6 DEF CacheIInv

\* Every step keeps it.
LEMMA CacheNextInv == CacheIInv /\ [CacheNext]_cacheVars => CacheIInv'
<1> SUFFICES ASSUME CacheIInv, [CacheNext]_cacheVars PROVE CacheIInv'
  OBVIOUS
<1>1. CASE UNCHANGED cacheVars
  BY <1>1 DEF cacheVars, CacheIInv, CacheTypeOK, WriterInv, BoundInv, RemoteInv, LocalInv, FreshEntry
<1>2. ASSUME NEW r \in CacheRequest, CacheRead(r) PROVE CacheIInv'
  BY <1>2, LookUpStep, GetRemoteStep, BackfillStep, ReadRowStep, FillLocalStep, FillRemoteStep
     DEF CacheRead
<1>3. ASSUME NEW r \in CacheRequest, CacheWrite(r) PROVE CacheIInv'
  BY <1>3, ChangeRowStep, DropLocalStep, PublishInvalidationStep, DropRemoteStep, CommitRowStep
     DEF CacheWrite
<1>4. QED
  BY <1>1, <1>2, <1>3, CacheCancelledStep, HandleInvalidationStep, ConnectionBrokenStep,
     ReconnectStep, ExpireLocalStep, ExpireRemoteStep DEF CacheNext

\* The inductive invariant of the cache holds in every reachable state.
THEOREM CacheInductive == CacheSpec => []CacheIInv
BY CacheInitInv, CacheNextInv, PTL DEF CacheSpec

\* However misses, changes, messages and failures interleave, a level of the
\* cache is stale only because a miss overlapped a change, an invalidation was
\* lost, or a change or its message is still under way.
THEOREM CacheSafe == CacheSpec => []CacheInv
<1>1. CacheIInv => CacheInv
  BY DEF CacheIInv, CacheInv, StaleHasCause, AllFresh, RemoteInv, LocalInv
<1>2. QED
  BY <1>1, CacheInductive, PTL

-------------------------------------------------------------------------------
(* The operation log.                                                       *)

LogSpec == LogInit /\ [][LogNext]_logVars

\* Record x was put before record y.
Before(x, y) == \E a, b \in 1..Len(arrival) : a < b /\ arrival[a] = x /\ arrival[b] = y

Ordered(s) == \A i, j \in 1..Len(s) : i < j => Before(s[i], s[j])

\* The records that were not dropped, from the oldest row to the newest of the queue.
Flow == (table \o batch) \o queue

\* A request puts its record once.
ArrivalInv ==
    /\ \A i, j \in 1..Len(arrival) : arrival[i] = arrival[j] => i = j
    /\ \A i \in 1..Len(arrival) : call[arrival[i]] = "done"

\* No record leaves the flow but into dropped, and none overtakes another.
FlowInv ==
    /\ Ordered(Flow)
    /\ Records(arrival) = Records(Flow) \cup dropped
    /\ Records(Flow) \cap dropped = {} /\ IsFiniteSet(dropped)
    /\ Len(arrival) = Len(Flow) + Cardinality(dropped)

\* The inductive invariant of the operation log.
LogIInv == LogTypeOK /\ ArrivalInv /\ FlowInv /\ CountRight

\* What a concatenation holds, and in which order.
LEMMA RecordsConcat ==
    ASSUME NEW S, NEW s \in Seq(S), NEW t \in Seq(S)
    PROVE  /\ s \o t \in Seq(S) /\ Len(s \o t) = Len(s) + Len(t)
           /\ Records(s \o t) = Records(s) \cup Records(t)
<1>1. /\ s \o t \in Seq(S) /\ Len(s \o t) = Len(s) + Len(t) /\ Len(s) \in Nat /\ Len(t) \in Nat
      /\ \A i \in 1..Len(s) : (s \o t)[i] = s[i]
      /\ \A i \in 1..Len(t) : (s \o t)[Len(s) + i] = t[i]
  OBVIOUS
<1>2. \A i \in 1..Len(t) : Len(s) + i \in 1..Len(s \o t)
  BY <1>1
<1>3. \A i \in 1..Len(s) : i \in 1..Len(s \o t)
  BY <1>1
<1>4. ASSUME NEW i \in 1..Len(s \o t) PROVE (s \o t)[i] \in Records(s) \cup Records(t)
  <2>1. CASE i \in 1..Len(s)
    BY <1>1, <2>1 DEF Records
  <2>2. CASE i \notin 1..Len(s)
    <3>1. i - Len(s) \in 1..Len(t) /\ i = Len(s) + (i - Len(s))
      BY <1>1, <2>2
    <3>2. QED
      BY <1>1, <3>1 DEF Records
  <2>3. QED
    BY <2>1, <2>2
<1>5. \A x \in Records(s) \cup Records(t) : x \in Records(s \o t)
  BY <1>1, <1>2, <1>3 DEF Records
<1>6. QED
  BY <1>1, <1>4, <1>5 DEF Records

\* Order, over the parts of a concatenation.
LEMMA OrderedConcat ==
    ASSUME NEW S, NEW s \in Seq(S), NEW t \in Seq(S)
    PROVE  Ordered(s \o t) <=>
              /\ Ordered(s) /\ Ordered(t)
              /\ \A x \in Records(s), y \in Records(t) : Before(x, y)
<1> DEFINE st == s \o t
<1>1. /\ Len(st) = Len(s) + Len(t) /\ Len(s) \in Nat /\ Len(t) \in Nat
      /\ \A i \in 1..Len(s) : i \in 1..Len(st) /\ st[i] = s[i]
      /\ \A i \in 1..Len(t) : Len(s) + i \in 1..Len(st) /\ st[Len(s) + i] = t[i]
  OBVIOUS
<1> HIDE DEF st
<1>2. ASSUME Ordered(st)
      PROVE  /\ Ordered(s) /\ Ordered(t)
             /\ \A x \in Records(s), y \in Records(t) : Before(x, y)
  <2>1. Ordered(s)
    BY <1>1, <1>2 DEF Ordered
  <2>2. ASSUME NEW i \in 1..Len(t), NEW j \in 1..Len(t), i < j PROVE Before(t[i], t[j])
    <3>1. Len(s) + i < Len(s) + j
      BY <1>1, <2>2
    <3>2. QED
      BY <1>1, <1>2, <3>1 DEF Ordered
  <2>3. ASSUME NEW i \in 1..Len(s), NEW j \in 1..Len(t) PROVE Before(s[i], t[j])
    <3>1. i < Len(s) + j
      BY <1>1
    <3>2. QED
      BY <1>1, <1>2, <3>1 DEF Ordered
  <2>4. QED
    BY <2>1, <2>2, <2>3 DEF Ordered, Records
<1>3. ASSUME Ordered(s), Ordered(t), \A x \in Records(s), y \in Records(t) : Before(x, y)
      PROVE  Ordered(st)
  <2> SUFFICES ASSUME NEW i \in 1..Len(st), NEW j \in 1..Len(st), i < j PROVE Before(st[i], st[j])
    BY DEF Ordered
  <2>1. CASE j \in 1..Len(s)
    <3>1. i \in 1..Len(s)
      BY <1>1, <2>1
    <3>2. QED
      BY <1>1, <1>3, <2>1, <3>1 DEF Ordered
  <2>2. CASE j \notin 1..Len(s)
    <3> DEFINE k == j - Len(s)
    <3>1. k \in 1..Len(t) /\ j = Len(s) + k
      BY <1>1, <2>2
    <3>2. CASE i \in 1..Len(s)
      <4>1. st[i] \in Records(s) /\ st[j] \in Records(t)
        BY <1>1, <3>1, <3>2 DEF Records
      <4>2. QED
        BY <1>3, <4>1
    <3>3. CASE i \notin 1..Len(s)
      <4> DEFINE h == i - Len(s)
      <4>1. h \in 1..Len(t) /\ i = Len(s) + h /\ h < k
        BY <1>1, <3>3
      <4>2. QED
        BY <1>1, <1>3, <3>1, <4>1 DEF Ordered
    <3>4. QED
      BY <3>2, <3>3
  <2>3. QED
    BY <2>1, <2>2
<1>4. QED
  BY <1>2, <1>3 DEF st

\* A list in the order of arrival holds no record twice.
LEMMA OrderedCard ==
    ASSUME LogTypeOK, ArrivalInv, NEW s \in Seq(Call), Ordered(s)
    PROVE  IsFiniteSet(Records(s)) /\ Cardinality(Records(s)) = Len(s)
<1>1. Len(s) \in Nat /\ \A i \in 1..Len(s) : s[i] \in Records(s)
  BY DEF Records
<1>2. \A x : ~Before(x, x)
  BY DEF Before, ArrivalInv, LogTypeOK
<1>3. \A i, j \in 1..Len(s) : s[i] = s[j] => i = j
  BY <1>1, <1>2 DEF Ordered
<1> DEFINE f == [i \in 1..Len(s) |-> s[i]]
<1>4. f \in Bijection(1..Len(s), Records(s))
  <2>1. f \in [1..Len(s) -> Records(s)]
    BY <1>1
  <2>2. \A i, j \in 1..Len(s) : f[i] = f[j] => i = j
    BY <1>3
  <2>3. \A x \in Records(s) : \E i \in 1..Len(s) : f[i] = x
    BY DEF Records
  <2>4. QED
    BY <2>1, <2>2, <2>3, Fun_IsBij
<1>5. ExistsBijection(1..Len(s), Records(s))
  BY <1>4 DEF ExistsBijection
<1>6. QED
  BY <1>1, <1>5, FS_CountingElements, FS_NatBijection

\* The flow by its parts.
LEMMA FlowParts ==
    ASSUME LogTypeOK
    PROVE  /\ table \o batch \in Seq(Call) /\ Flow \in Seq(Call)
           /\ Len(Flow) = Len(table) + Len(batch) + Len(queue)
           /\ Records(Flow) = Records(table) \cup Records(batch) \cup Records(queue)
           /\ Ordered(Flow) <=>
                 /\ Ordered(table) /\ Ordered(batch) /\ Ordered(queue)
                 /\ \A x \in Records(table), y \in Records(batch) : Before(x, y)
                 /\ \A x \in Records(table), y \in Records(queue) : Before(x, y)
                 /\ \A x \in Records(batch), y \in Records(queue) : Before(x, y)
<1>1. table \in Seq(Call) /\ batch \in Seq(Call) /\ queue \in Seq(Call)
  BY DEF LogTypeOK
<1>2. /\ table \o batch \in Seq(Call) /\ Len(table \o batch) = Len(table) + Len(batch)
      /\ Records(table \o batch) = Records(table) \cup Records(batch)
  BY <1>1, RecordsConcat
<1>3. /\ Flow \in Seq(Call) /\ Len(Flow) = Len(table \o batch) + Len(queue)
      /\ Records(Flow) = Records(table \o batch) \cup Records(queue)
  <2> DEFINE tb == table \o batch
  <2> HIDE DEF tb
  <2>1. tb \in Seq(Call)
    BY <1>2 DEF tb
  <2>2. /\ tb \o queue \in Seq(Call) /\ Len(tb \o queue) = Len(tb) + Len(queue)
        /\ Records(tb \o queue) = Records(tb) \cup Records(queue)
    BY <1>1, <2>1, RecordsConcat
  <2>3. QED
    BY <2>2 DEF Flow, tb
<1>4. Ordered(Flow) <=>
         /\ Ordered(table \o batch) /\ Ordered(queue)
         /\ \A x \in Records(table \o batch), y \in Records(queue) : Before(x, y)
  BY <1>1, <1>2, OrderedConcat DEF Flow
<1>5. Ordered(table \o batch) <=>
         /\ Ordered(table) /\ Ordered(batch)
         /\ \A x \in Records(table), y \in Records(batch) : Before(x, y)
  BY <1>1, OrderedConcat
<1>6. QED
  BY <1>2, <1>3, <1>4, <1>5

\* A step that moves records along the flow, or none.
LEMMA FlowKept ==
    ASSUME FlowInv, Flow' = Flow, arrival' = arrival, dropped' = dropped
    PROVE  FlowInv'
<1>1. \A x, y : Before(x, y)' <=> Before(x, y)
  BY DEF Before
<1>2. Ordered(Flow)'
  BY <1>1 DEF FlowInv, Ordered
<1>3. Records(Flow)' = Records(Flow) /\ Records(arrival)' = Records(arrival)
  BY DEF Records
<1>4. QED
  BY <1>2, <1>3 DEF FlowInv

\* A batch that is given up.
LEMMA FlowCut ==
    ASSUME LogTypeOK, LogTypeOK', ArrivalInv, FlowInv, arrival' = arrival, table' = table,
           queue' = queue, batch' = <<>>, dropped' = dropped \cup Records(batch)
    PROVE  FlowInv'
<1>1. Ordered(batch)
  BY FlowParts DEF FlowInv
<1>2. IsFiniteSet(Records(batch)) /\ Cardinality(Records(batch)) = Len(batch)
  BY <1>1, OrderedCard DEF LogTypeOK
<1>3. \A x : ~Before(x, x)
  BY DEF Before, ArrivalInv, LogTypeOK
<1>4. /\ Records(Flow') = Records(table) \cup Records(queue)
      /\ Len(Flow') = Len(table) + Len(queue)
  <2>1. Flow' = (table \o <<>>) \o queue /\ table \o <<>> = table
    BY DEF Flow, LogTypeOK
  <2>2. QED
    BY <2>1, RecordsConcat DEF LogTypeOK
<1>5. Ordered(Flow')
  <2>1. Flow' = table \o queue
    BY DEF Flow, LogTypeOK
  <2>2. Ordered(table \o queue)
    BY FlowParts, OrderedConcat DEF FlowInv, LogTypeOK
  <2>3. QED
    BY <2>1, <2>2
<1>6. Ordered(Flow)'
  BY <1>5 DEF Ordered, Before
<1>7. Records(arrival') = Records(Flow') \cup dropped' /\ Records(Flow') \cap dropped' = {}
  BY <1>3, <1>4, FlowParts DEF FlowInv
<1>8. IsFiniteSet(dropped') /\ Cardinality(dropped') = Cardinality(dropped) + Len(batch)
  <2>1. dropped \cap Records(batch) = {}
    BY FlowParts DEF FlowInv
  <2>2. Cardinality(dropped \cap Records(batch)) = 0
    BY <2>1, FS_EmptySet
  <2>3. Cardinality(dropped) \in Nat /\ Len(batch) \in Nat
    BY FS_CardinalityType DEF FlowInv, LogTypeOK
  <2>4. LET both == dropped \cup Records(batch)
        IN  IsFiniteSet(both) /\ Cardinality(both) =
               Cardinality(dropped) + Cardinality(Records(batch)) - Cardinality(dropped \cap Records(batch))
    BY <1>2, FS_Union DEF FlowInv
  <2>5. QED
    BY <1>2, <2>2, <2>3, <2>4
<1>9. Len(arrival') = Len(Flow') + Cardinality(dropped')
  <2>1. /\ Len(table) \in Nat /\ Len(queue) \in Nat /\ Len(batch) \in Nat
        /\ Cardinality(dropped) \in Nat
    BY FS_CardinalityType DEF FlowInv, LogTypeOK
  <2>2. QED
    BY <1>4, <1>8, <2>1, FlowParts DEF FlowInv
<1>10. QED
  BY <1>6, <1>7, <1>8, <1>9 DEF FlowInv, Records

\* Dispatched (OperaLogMiddleware.dispatch) keeps the invariant.
LEMMA DispatchedStep ==
    ASSUME LogIInv, NEW r \in Call, Dispatched(r)
    PROVE  LogIInv'
<1> USE DEF LogIInv
<1>1. LogTypeOK'
  BY DEF Dispatched, LogTypeOK
<1>2. ArrivalInv'
  BY DEF Dispatched, ArrivalInv, LogTypeOK
<1>3. FlowInv' /\ CountRight'
  BY FlowKept DEF Dispatched, Flow, CountRight
<1>4. QED
  BY <1>1, <1>2, <1>3

\* PutRecord (OperaLogMiddleware.dispatch) keeps the invariant.
LEMMA PutRecordStep ==
    ASSUME LogIInv, NEW r \in Call, PutRecord(r)
    PROVE  LogIInv'
<1> USE DEF LogIInv
<1>1. LogTypeOK'
  BY OperaLogAssumption DEF PutRecord, LogTypeOK
<1>2. r \notin Records(arrival)
  BY DEF PutRecord, ArrivalInv, Records
<1>3. /\ Len(arrival) \in Nat /\ Len(arrival') = Len(arrival) + 1
      /\ arrival'[Len(arrival) + 1] = r
      /\ \A i \in 1..Len(arrival) : arrival'[i] = arrival[i] /\ arrival[i] # r
  BY <1>2 DEF PutRecord, LogTypeOK, Records
<1>4. ArrivalInv'
  <2>1. \A i, j \in 1..Len(arrival') : arrival'[i] = arrival'[j] => i = j
    BY <1>3 DEF ArrivalInv
  <2>2. call' = [call EXCEPT ![r] = "done"] /\ \A i \in 1..Len(arrival) : arrival[i] \in Call
    BY DEF PutRecord, LogTypeOK
  <2>3. \A i \in 1..Len(arrival') : call'[arrival'[i]] = "done"
    BY <1>3, <2>2, SMTT(30) DEF ArrivalInv, LogTypeOK
  <2>4. QED
    BY <2>1, <2>3 DEF ArrivalInv
<1>5. /\ Flow \in Seq(Call) /\ Len(Flow) \in Nat
      /\ Len(Flow') = Len(Flow) + 1 /\ Flow'[Len(Flow) + 1] = r
      /\ \A i \in 1..Len(Flow) : Flow'[i] = Flow[i]
  <2>1. table \o batch \in Seq(Call) /\ Flow \in Seq(Call)
    BY FlowParts
  <2>2. Flow' = (table \o batch) \o Append(queue, r)
    BY DEF Flow, PutRecord
  <2>3. QED
    BY <2>1, <2>2 DEF Flow, LogTypeOK
<1>6. Records(arrival') = Records(arrival) \cup {r} /\ Records(Flow') = Records(Flow) \cup {r}
  BY <1>3, <1>5 DEF Records
<1>7. Ordered(Flow)'
  <2>1. \A x, y : Before(x, y) => Before(x, y)'
    BY <1>3 DEF Before
  <2>2. ASSUME NEW x \in Records(arrival) PROVE Before(x, r)'
    <3>1. PICK a \in 1..Len(arrival) : arrival[a] = x
      BY DEF Records
    <3>2. a \in 1..Len(arrival') /\ Len(arrival) + 1 \in 1..Len(arrival') /\ a < Len(arrival) + 1
          /\ arrival'[a] = x
      BY <1>3, <3>1
    <3>3. QED
      BY <1>3, <3>2 DEF Before
  <2>3. \A i \in 1..Len(Flow) : Flow[i] \in Records(arrival)
    BY DEF FlowInv, Records
  <2>4. ASSUME NEW i \in 1..Len(Flow'), NEW j \in 1..Len(Flow'), i < j
        PROVE  Before(Flow[i], Flow[j])'
    <3>1. CASE j \in 1..Len(Flow)
      <4>1. i \in 1..Len(Flow)
        BY <1>5, <2>4, <3>1
      <4>2. Before(Flow[i], Flow[j])
        BY <2>4, <3>1, <4>1 DEF FlowInv, Ordered
      <4>3. Flow'[i] = Flow[i] /\ Flow'[j] = Flow[j]
        BY <1>5, <3>1, <4>1
      <4>4. QED
        BY <2>1, <4>2, <4>3 DEF Before
    <3>2. CASE j \notin 1..Len(Flow)
      <4>1. i \in 1..Len(Flow) /\ Flow'[j] = r /\ Flow'[i] = Flow[i]
        BY <1>5, <2>4, <3>2
      <4>2. QED
        BY <2>2, <2>3, <4>1 DEF Before
    <3>3. QED
      BY <3>1, <3>2
  <2>5. QED
    BY <2>4 DEF Ordered
<1>8. FlowInv'
  <2>1. Cardinality(dropped) \in Nat /\ dropped' = dropped
    BY FS_CardinalityType DEF FlowInv, PutRecord
  <2>2. Len(arrival') = Len(Flow') + Cardinality(dropped')
    BY <1>3, <1>5, <2>1 DEF FlowInv
  <2>3. Records(Flow') \cap dropped' = {} /\ Records(arrival') = Records(Flow') \cup dropped'
    BY <1>2, <1>6, <2>1 DEF FlowInv
  <2>4. QED
    BY <1>7, <2>1, <2>2, <2>3 DEF FlowInv, Records
<1>9. CountRight'
  BY DEF PutRecord, CountRight, LogTypeOK
<1>10. QED
  BY <1>1, <1>4, <1>8, <1>9

\* CollectRecord (batch_dequeue) keeps the invariant.
LEMMA CollectRecordStep ==
    ASSUME LogIInv, CollectRecord
    PROVE  LogIInv'
<1> USE DEF LogIInv
<1>1. LogTypeOK'
  BY OperaLogAssumption DEF CollectRecord, LogTypeOK
<1>2. Flow' = Flow
  <2>1. Flow' = (table \o Append(batch, Head(queue))) \o Tail(queue)
    BY DEF Flow, CollectRecord
  <2>2. Flow' \in Seq(Call) /\ Flow \in Seq(Call)
    BY <1>1 DEF Flow, LogTypeOK
  <2>3. Len(Flow') = Len(Flow)
    BY <2>1 DEF Flow, CollectRecord, LogTypeOK
  <2>4. ASSUME NEW i \in 1..Len(Flow) PROVE Flow'[i] = Flow[i]
    <3> DEFINE tb == table \o batch
               tc == table \o Append(batch, Head(queue))
    <3>1. /\ table \in Seq(Call) /\ batch \in Seq(Call) /\ queue \in Seq(Call)
          /\ queue # <<>> /\ Head(queue) \in Call /\ Head(queue) = queue[1]
          /\ Tail(queue) \in Seq(Call) /\ Len(Tail(queue)) = Len(queue) - 1
          /\ \A k \in 1..Len(queue) - 1 : Tail(queue)[k] = queue[k + 1]
      BY DEF CollectRecord, LogTypeOK
    <3>2. /\ tb \in Seq(Call) /\ tc \in Seq(Call)
          /\ Len(tb) = Len(table) + Len(batch) /\ Len(tc) = Len(tb) + 1
          /\ tc[Len(tb) + 1] = Head(queue)
          /\ \A k \in 1..Len(tb) : tc[k] = tb[k]
      BY <3>1
    <3> HIDE DEF tb, tc
    <3>3. Flow = tb \o queue /\ Flow' = tc \o Tail(queue)
      BY <2>1 DEF Flow, tb, tc
    <3>4. CASE i <= Len(tb)
      BY <3>1, <3>2, <3>3, <3>4
    <3>5. CASE i > Len(tb)
      BY <3>1, <3>2, <3>3, <3>5
    <3>6. QED
      BY <3>2, <3>4, <3>5
  <2>5. QED
    BY <2>2, <2>3, <2>4
<1>3. ArrivalInv' /\ FlowInv' /\ CountRight'
  BY <1>2, FlowKept DEF CollectRecord, ArrivalInv, CountRight, LogTypeOK
<1>4. QED
  BY <1>1, <1>3

\* TimeUp (batch_dequeue) keeps the invariant.
LEMMA TimeUpStep ==
    ASSUME LogIInv, TimeUp
    PROVE  LogIInv'
BY FlowKept DEF LogIInv, TimeUp, LogTypeOK, ArrivalInv, Flow, CountRight

\* InsertBatch (CRUDOperaLogDao.bulk_create) keeps the invariant.
LEMMA InsertBatchStep ==
    ASSUME LogIInv, InsertBatch
    PROVE  LogIInv'
<1> USE DEF LogIInv
<1>1. LogTypeOK'
  BY OperaLogAssumption DEF InsertBatch, LogTypeOK, CountRight
<1>2. Flow' = Flow
  BY FlowParts DEF Flow, InsertBatch, LogTypeOK
<1>3. ArrivalInv' /\ FlowInv'
  BY <1>2, FlowKept DEF InsertBatch, ArrivalInv
<1>4. CountRight'
  BY DEF InsertBatch, CountRight, LogTypeOK
<1>5. QED
  BY <1>1, <1>3, <1>4

\* InsertFails (batch_consume) keeps the invariant.
LEMMA InsertFailsStep ==
    ASSUME LogIInv, InsertFails
    PROVE  LogIInv'
<1> USE DEF LogIInv
<1>1. LogTypeOK'
  BY OperaLogAssumption DEF InsertFails, LogTypeOK, CountRight
<1>2. FlowInv'
  BY <1>1, FlowCut DEF InsertFails, Records
<1>3. ArrivalInv' /\ CountRight'
  BY DEF InsertFails, ArrivalInv, CountRight, LogTypeOK
<1>4. QED
  BY <1>1, <1>2, <1>3

\* CancelConsumer (register_init) keeps the invariant.
LEMMA CancelConsumerStep ==
    ASSUME LogIInv, CancelConsumer
    PROVE  LogIInv'
<1> USE DEF LogIInv
<1>1. LogTypeOK'
  <2>1. table' \in Seq(Call) /\ unfinished' \in Nat
    <3>1. table \o batch \in Seq(Call) /\ table \in Seq(Call)
      BY FlowParts DEF LogTypeOK
    <3>2. consumer = "insert" => unfinished - Len(batch) \in Nat
      BY DEF CountRight, LogTypeOK
    <3>3. QED
      BY <3>1, <3>2 DEF CancelConsumer, LogTypeOK
  <2>2. \A i \in 1..Len(batch) : batch[i] \in Call
    BY DEF LogTypeOK
  <2>3. QED
    BY <2>1, <2>2, OperaLogAssumption DEF CancelConsumer, LogTypeOK
<1>2. FlowInv'
  <2>1. dropped' = dropped \cup (Records(batch) \ Records(table'))
    BY DEF CancelConsumer, Records
  <2>2. CASE table' = table
    <3>1. Records(batch) \cap Records(table) = {}
      <4>1. \A x : ~Before(x, x)
        BY DEF Before, ArrivalInv, LogTypeOK
      <4>2. QED
        BY <4>1, FlowParts DEF FlowInv
    <3>2. dropped' = dropped \cup Records(batch)
      BY <2>1, <2>2, <3>1
    <3>3. QED
      BY <1>1, <2>2, <3>2, FlowCut DEF CancelConsumer
  <2>3. CASE table' = table \o batch
    <3>1. dropped' = dropped
      BY <2>1, <2>3, RecordsConcat DEF LogTypeOK
    <3>2. Flow' = Flow
      BY <2>3, FlowParts DEF Flow, CancelConsumer, LogTypeOK
    <3>3. QED
      BY <3>1, <3>2, FlowKept DEF CancelConsumer
  <2>4. QED
    BY <2>2, <2>3 DEF CancelConsumer
<1>3. ArrivalInv' /\ CountRight'
  BY DEF CancelConsumer, ArrivalInv, CountRight
<1>4. QED
  BY <1>1, <1>2, <1>3

\* The initial state satisfies the invariant.
LEMMA LogInitInv == LogInit => LogIInv
<1> SUFFICES ASSUME LogInit PROVE LogIInv
  OBVIOUS
<1>1. LogTypeOK /\ ArrivalInv /\ CountRight
  BY OperaLogAssumption DEF LogInit, LogTypeOK, ArrivalInv, CountRight
<1>2. Flow = <<>>
  BY DEF LogInit, Flow
<1>3. FlowInv
  BY <1>2, FS_EmptySet DEF LogInit, FlowInv, Ordered, Records
<1>4. QED
  BY <1>1, <1>3 DEF LogIInv

\* Every step keeps it.
LEMMA LogNextInv == LogIInv /\ [LogNext]_logVars => LogIInv'
<1> SUFFICES ASSUME LogIInv, [LogNext]_logVars PROVE LogIInv'
  OBVIOUS
<1>1. CASE UNCHANGED logVars
  BY <1>1, FlowKept DEF logVars, LogIInv, LogTypeOK, ArrivalInv, Flow, CountRight
<1>2. QED
  BY <1>1, DispatchedStep, PutRecordStep, CollectRecordStep, TimeUpStep, InsertBatchStep,
     InsertFailsStep, CancelConsumerStep DEF LogNext

\* The inductive invariant of the operation log holds in every reachable state.
THEOREM LogInductive == LogSpec => []LogIInv
BY LogInitInv, LogNextInv, PTL DEF LogSpec

\* However requests, batches, failed insertions and a shutdown interleave, a
\* record is in one place, the rows are in the order of the requests, and the
\* queue knows how many records are unfinished.
THEOREM LogSafe == LogSpec => []LogInv
<1>1. LogIInv => LogInv
  <2> SUFFICES ASSUME LogIInv PROVE LogInv
    OBVIOUS
  <2>1. EachRecordOnce
    <3>1. /\ Len(table) \in Nat /\ Len(batch) \in Nat /\ Len(queue) \in Nat
          /\ Cardinality(dropped) \in Nat
      BY FS_CardinalityType DEF LogIInv, LogTypeOK, FlowInv
    <3>2. QED
      BY <3>1, FlowParts, SMTT(30) DEF LogIInv, FlowInv, EachRecordOnce
  <2>2. TableInOrder
    <3>1. Ordered(table)
      BY FlowParts DEF LogIInv, FlowInv
    <3>2. QED
      BY <3>1 DEF Ordered, Before, TableInOrder
  <2>3. QED
    BY <2>1, <2>2 DEF LogIInv, LogInv
<1>2. QED
  BY <1>1, LogInductive, PTL

-------------------------------------------------------------------------------
(* The sessions that are online.                                            *)

PresenceSpec == PresenceInit /\ [][PresenceNext]_presVars

\* A socket between addMember and the removal from the members.
Registered == {"addOnline", "up", "getSid", "dropSid", "dropMember"}
\* A socket that answers for its session being online.
Answering  == Registered \cup {"count", "dropKey", "dropOnline"}

\* A registered socket has its own key until it drops it, and only registered
\* sockets are members.
KeyInv ==
    /\ \A s \in Socket : socket[s] \in {"addMember", "addOnline", "up", "getSid"} => s \in sidKey
    /\ \A d \in Device : \A s \in members[d] : socket[s] \in Registered

\* While an online session is not settled or has no socket, one of its sockets
\* is under way that will take it off.
OnlineInv ==
    \A d \in online : \E s \in Socket : DeviceOf[s] = d /\ socket[s] \in Answering

\* Where no connect met a disconnect, registered sockets are members, sockets
\* that are up are online, and a disconnect that takes the session off is the
\* last of it.
MetInv ==
    \A s \in Socket : DeviceOf[s] \notin met =>
        /\ socket[s] \in Registered => s \in members[DeviceOf[s]]
        /\ socket[s] \in Registered \ {"addOnline"} => DeviceOf[s] \in online
        /\ \A q \in Socket : DeviceOf[q] = DeviceOf[s] =>
              /\ ~(socket[s] \in Connecting /\ socket[q] \in Disconnecting)
              /\ socket[q] \in {"dropKey", "dropOnline"} => socket[s] \notin Registered

\* The inductive invariant of the presence.
PresenceIInv == PresenceTypeOK /\ KeyInv /\ OnlineInv /\ MetInv

\* The history of a step: a connect and a disconnect at once are noticed.
LEMMA MetStep ==
    ASSUME PresenceTypeOK, NEW s \in Socket, NEW from, NEW to, SocketStep(s, from, to)
    PROVE  /\ met \subseteq met' /\ socket[s] = from
           /\ \A q \in Socket : socket'[q] = IF q = s THEN to ELSE socket[q]
           /\ \A q, p \in Socket :
                  DeviceOf[q] = DeviceOf[p] /\ DeviceOf[q] \notin met' =>
                      ~(socket'[q] \in Connecting /\ socket'[p] \in Disconnecting)
BY PresenceAssumption DEF SocketStep, PresenceTypeOK

\* Authenticated (connect) keeps the invariant.
LEMMA AuthenticatedStep ==
    ASSUME PresenceIInv, NEW s \in Socket, Authenticated(s)
    PROVE  PresenceIInv'
<1> USE DEF PresenceIInv
<1>1. PresenceTypeOK'
  BY PresenceAssumption DEF Authenticated, PresenceTypeOK, SocketStep,
    Connecting, Disconnecting
<1>2. KeyInv'
  BY PresenceAssumption DEF Authenticated, KeyInv, PresenceTypeOK, SocketStep,
    Registered, Connecting, Disconnecting
<1>3. OnlineInv'
  BY PresenceAssumption DEF Authenticated, OnlineInv, PresenceTypeOK, KeyInv,
    SocketStep, Answering, Connecting, Disconnecting, Registered
<1>4. MetInv'
  <2>1. SocketStep(s, "new", "setSid") /\ online' = online
        /\ \A d \in Device : members[d] \subseteq members'[d]
    BY PresenceAssumption DEF Authenticated, PresenceTypeOK
  <2>2. SUFFICES ASSUME NEW p \in Socket, DeviceOf[p] \notin met'
                 PROVE  /\ socket'[p] \in Registered => p \in members'[DeviceOf[p]]
                        /\ socket'[p] \in Registered \ {"addOnline"} => DeviceOf[p] \in online'
                        /\ \A q \in Socket : DeviceOf[q] = DeviceOf[p] =>
                              /\ ~(socket'[p] \in Connecting /\ socket'[q] \in Disconnecting)
                              /\ socket'[q] \in {"dropKey", "dropOnline"} =>
                                    socket'[p] \notin Registered
    BY DEF MetInv
  <2>3. DeviceOf[p] \notin met /\ DeviceOf[p] \in Device
    BY <2>1, <2>2, MetStep, PresenceAssumption
  <2>4. socket'[p] \in Registered => p \in members'[DeviceOf[p]]
    BY <2>1, <2>3, MetStep, PresenceAssumption DEF MetInv, Registered, Authenticated, PresenceTypeOK
  <2>5. socket'[p] \in Registered \ {"addOnline"} => DeviceOf[p] \in online'
    BY <2>1, <2>3, MetStep DEF MetInv, Registered
  <2>6. ASSUME NEW q \in Socket, DeviceOf[q] = DeviceOf[p]
        PROVE  /\ ~(socket'[p] \in Connecting /\ socket'[q] \in Disconnecting)
               /\ socket'[q] \in {"dropKey", "dropOnline"} => socket'[p] \notin Registered
    <3>1. ~(socket'[p] \in Connecting /\ socket'[q] \in Disconnecting)
      BY <2>1, <2>2, <2>6, MetStep
    <3>2. ASSUME socket'[q] \in {"dropKey", "dropOnline"} PROVE socket'[p] \notin Registered
      <4>1. q # s /\ socket[q] = socket'[q]
        BY <2>1, <3>2, MetStep
      <4>2. socket'[p] \notin Connecting
        BY <2>1, <2>2, <2>6, <3>2, MetStep DEF Disconnecting
      <4>3. p # s /\ socket[p] = socket'[p]
        BY <2>1, <4>2, MetStep DEF Connecting
      <4>4. QED
        BY <2>3, <2>6, <3>2, <4>1, <4>3 DEF MetInv
    <3>3. QED
      BY <3>1, <3>2
  <2>7. QED
    BY <2>4, <2>5, <2>6
<1> QED
  BY <1>1, <1>2, <1>3, <1>4

\* Refused (connect) keeps the invariant.
LEMMA RefusedStep ==
    ASSUME PresenceIInv, NEW s \in Socket, Refused(s)
    PROVE  PresenceIInv'
<1> USE DEF PresenceIInv
<1>1. PresenceTypeOK'
  BY PresenceAssumption DEF Refused, PresenceTypeOK, SocketStep, Connecting,
    Disconnecting
<1>2. KeyInv'
  BY PresenceAssumption DEF Refused, KeyInv, PresenceTypeOK, SocketStep,
    Registered, Connecting, Disconnecting
<1>3. OnlineInv'
  BY PresenceAssumption DEF Refused, OnlineInv, PresenceTypeOK, KeyInv,
    SocketStep, Answering, Connecting, Disconnecting, Registered
<1>4. MetInv'
  BY PresenceAssumption DEF Refused, MetInv, PresenceTypeOK, KeyInv,
    SocketStep, Registered, Connecting, Disconnecting
<1> QED
  BY <1>1, <1>2, <1>3, <1>4

\* SetSid (connect) keeps the invariant.
LEMMA SetSidStep ==
    ASSUME PresenceIInv, NEW s \in Socket, SetSid(s)
    PROVE  PresenceIInv'
<1> USE DEF PresenceIInv
<1>1. PresenceTypeOK'
  BY PresenceAssumption DEF SetSid, PresenceTypeOK, SocketStep, Connecting,
    Disconnecting
<1>2. KeyInv'
  BY PresenceAssumption DEF SetSid, KeyInv, PresenceTypeOK, SocketStep,
    Registered, Connecting, Disconnecting
<1>3. OnlineInv'
  BY PresenceAssumption DEF SetSid, OnlineInv, PresenceTypeOK, KeyInv,
    SocketStep, Answering, Connecting, Disconnecting, Registered
<1>4. MetInv'
  BY PresenceAssumption DEF SetSid, MetInv, PresenceTypeOK, KeyInv,
    SocketStep, Registered, Connecting, Disconnecting
<1> QED
  BY <1>1, <1>2, <1>3, <1>4

\* AddMember (connect) keeps the invariant.
LEMMA AddMemberStep ==
    ASSUME PresenceIInv, NEW s \in Socket, AddMember(s)
    PROVE  PresenceIInv'
<1> USE DEF PresenceIInv
<1>1. PresenceTypeOK'
  BY PresenceAssumption DEF AddMember, PresenceTypeOK, SocketStep, Connecting,
    Disconnecting
<1>2. KeyInv'
  BY PresenceAssumption DEF AddMember, KeyInv, PresenceTypeOK, SocketStep,
    Registered, Connecting, Disconnecting
<1>3. OnlineInv'
  BY PresenceAssumption DEF AddMember, OnlineInv, PresenceTypeOK, KeyInv,
    SocketStep, Answering, Connecting, Disconnecting, Registered
<1>4. MetInv'
  <2>1. SocketStep(s, "addMember", "addOnline") /\ online' = online
        /\ \A d \in Device : members[d] \subseteq members'[d]
    BY PresenceAssumption DEF AddMember, PresenceTypeOK
  <2>2. SUFFICES ASSUME NEW p \in Socket, DeviceOf[p] \notin met'
                 PROVE  /\ socket'[p] \in Registered => p \in members'[DeviceOf[p]]
                        /\ socket'[p] \in Registered \ {"addOnline"} => DeviceOf[p] \in online'
                        /\ \A q \in Socket : DeviceOf[q] = DeviceOf[p] =>
                              /\ ~(socket'[p] \in Connecting /\ socket'[q] \in Disconnecting)
                              /\ socket'[q] \in {"dropKey", "dropOnline"} =>
                                    socket'[p] \notin Registered
    BY DEF MetInv
  <2>3. DeviceOf[p] \notin met /\ DeviceOf[p] \in Device
    BY <2>1, <2>2, MetStep, PresenceAssumption
  <2>4. socket'[p] \in Registered => p \in members'[DeviceOf[p]]
    BY <2>1, <2>3, MetStep, PresenceAssumption DEF MetInv, Registered, AddMember, PresenceTypeOK
  <2>5. socket'[p] \in Registered \ {"addOnline"} => DeviceOf[p] \in online'
    BY <2>1, <2>3, MetStep DEF MetInv, Registered
  <2>6. ASSUME NEW q \in Socket, DeviceOf[q] = DeviceOf[p]
        PROVE  /\ ~(socket'[p] \in Connecting /\ socket'[q] \in Disconnecting)
               /\ socket'[q] \in {"dropKey", "dropOnline"} => socket'[p] \notin Registered
    <3>1. ~(socket'[p] \in Connecting /\ socket'[q] \in Disconnecting)
      BY <2>1, <2>2, <2>6, MetStep
    <3>2. ASSUME socket'[q] \in {"dropKey", "dropOnline"} PROVE socket'[p] \notin Registered
      <4>1. q # s /\ socket[q] = socket'[q]
        BY <2>1, <3>2, MetStep
      <4>2. socket'[p] \notin Connecting
        BY <2>1, <2>2, <2>6, <3>2, MetStep DEF Disconnecting
      <4>3. p # s /\ socket[p] = socket'[p]
        BY <2>1, <4>2, MetStep DEF Connecting
      <4>4. QED
        BY <2>3, <2>6, <3>2, <4>1, <4>3 DEF MetInv
    <3>3. QED
      BY <3>1, <3>2
  <2>7. QED
    BY <2>4, <2>5, <2>6
<1> QED
  BY <1>1, <1>2, <1>3, <1>4

\* AddOnline (connect) keeps the invariant.
LEMMA AddOnlineStep ==
    ASSUME PresenceIInv, NEW s \in Socket, AddOnline(s)
    PROVE  PresenceIInv'
<1> USE DEF PresenceIInv
<1>1. PresenceTypeOK'
  BY PresenceAssumption DEF AddOnline, PresenceTypeOK, SocketStep, Connecting,
    Disconnecting
<1>2. KeyInv'
  BY PresenceAssumption DEF AddOnline, KeyInv, PresenceTypeOK, SocketStep,
    Registered, Connecting, Disconnecting
<1>3. OnlineInv'
  BY PresenceAssumption DEF AddOnline, OnlineInv, PresenceTypeOK, KeyInv,
    SocketStep, Answering, Connecting, Disconnecting, Registered
<1>4. MetInv'
  BY PresenceAssumption DEF AddOnline, MetInv, PresenceTypeOK, KeyInv,
    SocketStep, Registered, Connecting, Disconnecting
<1> QED
  BY <1>1, <1>2, <1>3, <1>4

\* Disconnect (disconnect) keeps the invariant.
LEMMA DisconnectStep ==
    ASSUME PresenceIInv, NEW s \in Socket, Disconnect(s)
    PROVE  PresenceIInv'
<1> USE DEF PresenceIInv
<1>1. PresenceTypeOK'
  BY PresenceAssumption DEF Disconnect, PresenceTypeOK, SocketStep,
    Connecting, Disconnecting
<1>2. KeyInv'
  BY PresenceAssumption DEF Disconnect, KeyInv, PresenceTypeOK, SocketStep,
    Registered, Connecting, Disconnecting
<1>3. OnlineInv'
  BY PresenceAssumption DEF Disconnect, OnlineInv, PresenceTypeOK, KeyInv,
    SocketStep, Answering, Connecting, Disconnecting, Registered
<1>4. MetInv'
  BY PresenceAssumption DEF Disconnect, MetInv, PresenceTypeOK, KeyInv,
    SocketStep, Registered, Connecting, Disconnecting
<1> QED
  BY <1>1, <1>2, <1>3, <1>4

\* GetSid (disconnect) keeps the invariant.
LEMMA GetSidStep ==
    ASSUME PresenceIInv, NEW s \in Socket, GetSid(s)
    PROVE  PresenceIInv'
<1> USE DEF PresenceIInv
<1>1. PresenceTypeOK'
  BY PresenceAssumption DEF GetSid, PresenceTypeOK, SocketStep, Connecting,
    Disconnecting
<1>2. KeyInv'
  BY PresenceAssumption DEF GetSid, KeyInv, PresenceTypeOK, SocketStep,
    Registered, Connecting, Disconnecting
<1>3. OnlineInv'
  BY PresenceAssumption DEF GetSid, OnlineInv, PresenceTypeOK, KeyInv,
    SocketStep, Answering, Connecting, Disconnecting, Registered
<1>4. MetInv'
  BY PresenceAssumption DEF GetSid, MetInv, PresenceTypeOK, KeyInv,
    SocketStep, Registered, Connecting, Disconnecting
<1> QED
  BY <1>1, <1>2, <1>3, <1>4

\* DropSid (disconnect) keeps the invariant.
LEMMA DropSidStep ==
    ASSUME PresenceIInv, NEW s \in Socket, DropSid(s)
    PROVE  PresenceIInv'
<1> USE DEF PresenceIInv
<1>1. PresenceTypeOK'
  BY PresenceAssumption DEF DropSid, PresenceTypeOK, SocketStep, Connecting,
    Disconnecting
<1>2. KeyInv'
  BY PresenceAssumption DEF DropSid, KeyInv, PresenceTypeOK, SocketStep,
    Registered, Connecting, Disconnecting
<1>3. OnlineInv'
  BY PresenceAssumption DEF DropSid, OnlineInv, PresenceTypeOK, KeyInv,
    SocketStep, Answering, Connecting, Disconnecting, Registered
<1>4. MetInv'
  BY PresenceAssumption DEF DropSid, MetInv, PresenceTypeOK, KeyInv,
    SocketStep, Registered, Connecting, Disconnecting
<1> QED
  BY <1>1, <1>2, <1>3, <1>4

\* DropMember (disconnect) keeps the invariant.
LEMMA DropMemberStep ==
    ASSUME PresenceIInv, NEW s \in Socket, DropMember(s)
    PROVE  PresenceIInv'
<1> USE DEF PresenceIInv
<1>1. PresenceTypeOK'
  BY PresenceAssumption DEF DropMember, PresenceTypeOK, SocketStep,
    Connecting, Disconnecting
<1>2. KeyInv'
  BY PresenceAssumption DEF DropMember, KeyInv, PresenceTypeOK, SocketStep,
    Registered, Connecting, Disconnecting
<1>3. OnlineInv'
  BY PresenceAssumption DEF DropMember, OnlineInv, PresenceTypeOK, KeyInv,
    SocketStep, Answering, Connecting, Disconnecting, Registered
<1>4. MetInv'
  BY PresenceAssumption DEF DropMember, MetInv, PresenceTypeOK, KeyInv,
    SocketStep, Registered, Connecting, Disconnecting
<1> QED
  BY <1>1, <1>2, <1>3, <1>4

\* Count (disconnect) keeps the invariant.
LEMMA CountStep ==
    ASSUME PresenceIInv, NEW s \in Socket, Count(s)
    PROVE  PresenceIInv'
<1> USE DEF PresenceIInv
<1>1. PresenceTypeOK'
  BY PresenceAssumption DEF Count, PresenceTypeOK, SocketStep, Connecting,
    Disconnecting
<1>2. KeyInv'
  BY PresenceAssumption DEF Count, KeyInv, PresenceTypeOK, SocketStep,
    Registered, Connecting, Disconnecting
<1>3. OnlineInv'
  BY PresenceAssumption DEF Count, OnlineInv, PresenceTypeOK, KeyInv,
    SocketStep, Answering, Connecting, Disconnecting, Registered
<1>4. MetInv'
  BY PresenceAssumption DEF Count, MetInv, PresenceTypeOK, KeyInv, SocketStep,
    Registered, Connecting, Disconnecting
<1> QED
  BY <1>1, <1>2, <1>3, <1>4

\* DropKey (disconnect) keeps the invariant.
LEMMA DropKeyStep ==
    ASSUME PresenceIInv, NEW s \in Socket, DropKey(s)
    PROVE  PresenceIInv'
<1> USE DEF PresenceIInv
<1>1. PresenceTypeOK'
  BY PresenceAssumption DEF DropKey, PresenceTypeOK, SocketStep, Connecting,
    Disconnecting
<1>2. KeyInv'
  BY PresenceAssumption DEF DropKey, KeyInv, PresenceTypeOK, SocketStep,
    Registered, Connecting, Disconnecting
<1>3. OnlineInv'
  BY PresenceAssumption DEF DropKey, OnlineInv, PresenceTypeOK, KeyInv,
    SocketStep, Answering, Connecting, Disconnecting, Registered
<1>4. MetInv'
  BY PresenceAssumption DEF DropKey, MetInv, PresenceTypeOK, KeyInv,
    SocketStep, Registered, Connecting, Disconnecting
<1> QED
  BY <1>1, <1>2, <1>3, <1>4

\* DropOnline (disconnect) keeps the invariant.
LEMMA DropOnlineStep ==
    ASSUME PresenceIInv, NEW s \in Socket, DropOnline(s)
    PROVE  PresenceIInv'
<1> USE DEF PresenceIInv
<1>1. PresenceTypeOK'
  BY PresenceAssumption DEF DropOnline, PresenceTypeOK, SocketStep,
    Connecting, Disconnecting
<1>2. KeyInv'
  BY PresenceAssumption DEF DropOnline, KeyInv, PresenceTypeOK, SocketStep,
    Registered, Connecting, Disconnecting
<1>3. OnlineInv'
  BY PresenceAssumption DEF DropOnline, OnlineInv, PresenceTypeOK, KeyInv,
    SocketStep, Answering, Connecting, Disconnecting, Registered
<1>4. MetInv'
  BY PresenceAssumption DEF DropOnline, MetInv, PresenceTypeOK, KeyInv,
    SocketStep, Registered, Connecting, Disconnecting
<1> QED
  BY <1>1, <1>2, <1>3, <1>4

\* The initial state satisfies the invariant.
LEMMA PresenceInitInv == PresenceInit => PresenceIInv
BY PresenceAssumption
   DEF PresenceInit, PresenceIInv, PresenceTypeOK, KeyInv, OnlineInv, MetInv, Registered,
       Connecting, Disconnecting

\* Every step keeps it.
LEMMA PresenceNextInv == PresenceIInv /\ [PresenceNext]_presVars => PresenceIInv'
<1> SUFFICES ASSUME PresenceIInv, [PresenceNext]_presVars PROVE PresenceIInv'
  OBVIOUS
<1>1. CASE UNCHANGED presVars
  BY <1>1 DEF presVars, PresenceIInv, PresenceTypeOK, KeyInv, OnlineInv, MetInv
<1>2. ASSUME NEW s \in Socket, Connect(s) PROVE PresenceIInv'
  BY <1>2, AuthenticatedStep, RefusedStep, SetSidStep, AddMemberStep, AddOnlineStep DEF Connect
<1>3. ASSUME NEW s \in Socket, Leave(s) PROVE PresenceIInv'
  BY <1>3, DisconnectStep, GetSidStep, DropSidStep, DropMemberStep, CountStep, DropKeyStep,
     DropOnlineStep DEF Leave
<1>4. QED
  BY <1>1, <1>2, <1>3 DEF PresenceNext

\* The inductive invariant of the presence holds in every reachable state.
THEOREM PresenceInductive == PresenceSpec => []PresenceIInv
BY PresenceInitInv, PresenceNextInv, PTL DEF PresenceSpec

\* However the sockets of a session connect and disconnect, it does not stay
\* online when the last has left; and a session with a socket is online unless
\* a connect of it met a disconnect.
THEOREM PresenceSafe == PresenceSpec => []PresenceInv
<1>1. PresenceIInv => PresenceInv
  <2> SUFFICES ASSUME PresenceIInv PROVE PresenceInv
    OBVIOUS
  <2>1. NoGhostOnline
    BY DEF PresenceIInv, NoGhostOnline, OnlineInv, Settled, Answering, Registered
  <2>2. OnlineUnlessMet
    BY DEF PresenceIInv, OnlineUnlessMet, MetInv, Registered
  <2>3. QED
    BY <2>1, <2>2 DEF PresenceIInv, PresenceInv
<1>2. QED
  BY <1>1, PresenceInductive, PTL

-------------------------------------------------------------------------------
(* The password of an account.                                              *)

PasswordSpec == PasswordInit /\ [][PasswordNext]_pwVars

\* The logins with a wrong password that have not read the counter yet.
Wrong == {r \in Login : login[r].pc = "wrong"}

\* A wrong password is counted once at most, by its own login: the counter, and
\* what a login is about to store, leave room for those not counted yet.
CountInv ==
    /\ IsFiniteSet(Wrong)
    /\ failures + Cardinality(Wrong) <= failed
    /\ \A r \in Login :
          /\ login[r].pc = "counted" => login[r].n + Cardinality(Wrong) <= failed
          /\ login[r].pc = "locking" => failed >= Threshold
    /\ locked => failed >= Threshold

\* Unless the history says so, one request is at the counter and one at a
\* change at most.
SoleInv ==
    ~overlapped =>
        \A q, r \in Login :
            /\ login[q].pc \in Counting /\ login[r].pc \in Counting => q = r
            /\ login[q].pc \in Changing /\ login[r].pc \in Changing => q = r

\* What the login at the counter knows of it.
ExactInv ==
    Threshold > 0 /\ ~overlapped =>
        /\ (\A r \in Login : login[r].pc \notin Counting) => failures = since
        /\ \A r \in Login :
              /\ login[r].pc = "wrong" => since = failures + 1
              /\ login[r].pc = "counted" => since = login[r].n
              /\ login[r].pc \in {"locking", "unlock", "reset"} => failures = since

\* A change that holds the row lock has room for its entry, and unless two
\* changes overlapped its password is not a recent one.
HistoryInv ==
    /\ \A r \in Login :
          /\ login[r].pc = "written" => Len(history) < MaxChanges
          /\ ~overlapped /\ login[r].pc \in Changing => login[r].pw \notin Recent
    /\ HistoryHasCurrent /\ NoRecentReuse

\* The inductive invariant of the password.
PasswordIInv == PasswordTypeOK /\ CountInv /\ SoleInv /\ ExactInv /\ HistoryInv

\* The logins not counted yet, when one request steps.
LEMMA WrongStep ==
    ASSUME PasswordTypeOK, IsFiniteSet(Wrong), NEW r \in Login, NEW from, NEW to, NEW pw, NEW n,
           LoginAt(r, from, to, pw, n)
    PROVE  /\ IsFiniteSet(Wrong') /\ Cardinality(Wrong) \in Nat /\ Cardinality(Wrong') \in Nat
           /\ from = "wrong" => Cardinality(Wrong) > 0
           /\ Cardinality(Wrong') = (IF to = "wrong" THEN 1 ELSE 0) +
                 (IF from = "wrong" THEN Cardinality(Wrong) - 1 ELSE Cardinality(Wrong))
<1>1. /\ login[r].pc = from /\ login'[r].pc = to
      /\ \A q \in Login : q # r => login'[q] = login[q]
  BY DEF LoginAt, PasswordTypeOK
<1> DEFINE Others == Wrong \ {r}
<1>2. Wrong' = IF to = "wrong" THEN Others \cup {r} ELSE Others
  BY <1>1 DEF Wrong
<1>3. /\ IsFiniteSet(Others) /\ r \notin Others /\ Cardinality(Others) \in Nat
      /\ Cardinality(Wrong) \in Nat
      /\ Cardinality(Others) = IF from = "wrong" THEN Cardinality(Wrong) - 1 ELSE Cardinality(Wrong)
  <2>1. r \in Wrong <=> from = "wrong"
    BY <1>1 DEF Wrong
  <2>2. QED
    BY <2>1, FS_RemoveElement, FS_CardinalityType
<1>4. /\ IsFiniteSet(Others \cup {r})
      /\ Cardinality(Others \cup {r}) = Cardinality(Others) + 1
  BY <1>3, FS_AddElement
<1>5. from = "wrong" => Cardinality(Wrong) > 0
  BY <1>3
<1>6. QED
  BY <1>2, <1>3, <1>4, <1>5

\* A step of a request that is not the first of its kind is noticed.
LEMMA SoleStep ==
    ASSUME PasswordTypeOK, SoleInv, NEW r \in Login, NEW from, NEW to, NEW pw, NEW n,
           LoginAt(r, from, to, pw, n)
    PROVE  /\ SoleInv'
           /\ ~overlapped' => /\ ~overlapped
                              /\ to \in Counting =>
                                    \A q \in Login \ {r} : login[q].pc \notin Counting
<1>1. /\ login[r].pc = from /\ login'[r].pc = to
      /\ \A q \in Login : q # r => login'[q] = login[q]
  BY DEF LoginAt, PasswordTypeOK
<1>2. ~overlapped' => /\ ~overlapped
                      /\ \A q \in Login \ {r} : /\ to \in Counting => login[q].pc \notin Counting
                                                /\ to \in Changing => login[q].pc \notin Changing
  BY DEF LoginAt
<1>3. SoleInv'
  <2> SUFFICES ASSUME ~overlapped', NEW q \in Login, NEW p \in Login
               PROVE  /\ login'[q].pc \in Counting /\ login'[p].pc \in Counting => q = p
                      /\ login'[q].pc \in Changing /\ login'[p].pc \in Changing => q = p
    BY DEF SoleInv
  <2>1. CASE q = r \/ p = r
    BY <1>1, <1>2, <2>1
  <2>2. CASE q # r /\ p # r
    BY <1>1, <1>2, <2>2 DEF SoleInv
  <2>3. QED
    BY <2>1, <2>2
<1>4. QED
  BY <1>2, <1>3

\* EnterRight (AuthService.user_verify) keeps the invariant.
LEMMA EnterRightStep ==
    ASSUME PasswordIInv, NEW r \in Login, EnterRight(r)
    PROVE  PasswordIInv'
<1> USE DEF PasswordIInv
<1>1. PasswordTypeOK'
  BY PasswordAssumption DEF EnterRight, PasswordTypeOK, LoginGo, Expired,
    Account, Counters, LoginState, LoginAt, Counting, Changing
<1>2. CountInv'
  BY PasswordAssumption DEF EnterRight, CountInv, PasswordTypeOK, LoginGo,
    Expired, Account, Counters, Wrong, LoginState, LoginAt, Counting, Changing
<1>3. SoleInv'
  BY SoleStep DEF EnterRight, LoginGo
<1>4. ExactInv'
  <2> DEFINE to == IF Expired THEN "idle" ELSE "unlock"
  <2>1. LoginAt(r, "idle", to, login[r].pw, login[r].n)
    BY DEF EnterRight, LoginGo
  <2>2. /\ login[r].pc = "idle" /\ login'[r].pc = to
        /\ \A q \in Login : q # r => login'[q] = login[q]
    BY <2>1 DEF LoginAt, PasswordTypeOK
  <2>3. SUFFICES ASSUME Threshold > 0, ~overlapped'
                 PROVE  /\ (\A q \in Login : login'[q].pc \notin Counting) => failures' = since'
                        /\ \A q \in Login :
                              /\ login'[q].pc = "wrong" => since' = failures' + 1
                              /\ login'[q].pc = "counted" => since' = login'[q].n
                              /\ login'[q].pc \in {"locking", "unlock", "reset"} => failures' = since'
    BY DEF ExactInv
  <2>4. ~overlapped /\ (to \in Counting => \A q \in Login \ {r} : login[q].pc \notin Counting)
    BY <2>1, <2>3, SoleStep
  <2>5. CASE to = "idle"
    BY PasswordAssumption, <2>2, <2>3, <2>4, <2>5 DEF ExactInv, Counting, EnterRight, Counters
  <2>6. CASE to = "unlock"
    <3>1. \A q \in Login \ {r} : login'[q].pc \notin Counting /\ login[q].pc \notin Counting
      BY <2>2, <2>4, <2>6 DEF Counting
    <3>2. failures = since
      BY <2>2, <2>3, <2>4, <3>1 DEF ExactInv, Counting
    <3>3. login'[r].pc = "unlock"
      BY <2>2, <2>6
    <3>4. failures' = since'
      BY <3>2 DEF EnterRight, Counters, PasswordTypeOK
    <3>5. QED
      BY <2>2, <3>1, <3>3, <3>4 DEF Counting
  <2>7. QED
    BY <2>5, <2>6
<1>5. HistoryInv'
  BY PasswordAssumption DEF EnterRight, HistoryInv, PasswordTypeOK, SoleInv,
    LoginGo, Expired, Account, Counters, Changing, Recent, HistoryHasCurrent,
    NoRecentReuse, LoginState, Counting, LoginAt
<1> QED
  BY <1>1, <1>2, <1>3, <1>4, <1>5

\* EnterWrong (password_verify) keeps the invariant.
LEMMA EnterWrongStep ==
    ASSUME PasswordIInv, NEW r \in Login, EnterWrong(r)
    PROVE  PasswordIInv'
<1> USE DEF PasswordIInv
<1>1. PasswordTypeOK'
  BY PasswordAssumption DEF EnterWrong, PasswordTypeOK, LoginGo, Account,
    LoginState, LoginAt, Counting, Changing
<1>2. CountInv'
  <2>1. LoginAt(r, "idle", IF Threshold = 0 THEN "idle" ELSE "wrong", login[r].pw, login[r].n)
    BY DEF EnterWrong, LoginGo
  <2>2. /\ login'[r].pc = (IF Threshold = 0 THEN "idle" ELSE "wrong") /\ \A q \in Login : q # r => login'[q] = login[q]
    BY <2>1 DEF LoginAt, PasswordTypeOK
  <2>3. IsFiniteSet(Wrong') /\ Cardinality(Wrong) \in Nat /\ Cardinality(Wrong') \in Nat
        /\ Cardinality(Wrong') <= Cardinality(Wrong) + 1
    BY <2>1, WrongStep DEF CountInv
  <2>4. failures \in Nat /\ failed \in Nat /\ \A q \in Login : login[q].n \in Nat
    BY DEF PasswordTypeOK, LoginState
  <2>5. failures' = failures /\ locked' = locked /\ failed' = failed + 1
    BY DEF EnterWrong
  <2>6. failures' + Cardinality(Wrong') <= failed'
    BY <2>3, <2>4, <2>5 DEF CountInv
  <2>7. locked' => failed' >= Threshold
    BY <2>4, <2>5, PasswordAssumption DEF CountInv
  <2>8. ASSUME NEW q \in Login
        PROVE  /\ login'[q].pc = "counted" => login'[q].n + Cardinality(Wrong') <= failed'
               /\ login'[q].pc = "locking" => failed' >= Threshold
    BY <2>2, <2>3, <2>4, <2>5, PasswordAssumption DEF CountInv
  <2>9. QED
    BY <2>3, <2>6, <2>7, <2>8 DEF CountInv
<1>3. SoleInv'
  BY SoleStep DEF EnterWrong, LoginGo
<1>4. ExactInv'
  <2> DEFINE to == IF Threshold = 0 THEN "idle" ELSE "wrong"
  <2>1. LoginAt(r, "idle", to, login[r].pw, login[r].n)
    BY DEF EnterWrong, LoginGo
  <2>2. /\ login[r].pc = "idle" /\ login'[r].pc = to
        /\ \A q \in Login : q # r => login'[q] = login[q]
    BY <2>1 DEF LoginAt, PasswordTypeOK
  <2>3. SUFFICES ASSUME Threshold > 0, ~overlapped'
                 PROVE  /\ (\A q \in Login : login'[q].pc \notin Counting) => failures' = since'
                        /\ \A q \in Login :
                              /\ login'[q].pc = "wrong" => since' = failures' + 1
                              /\ login'[q].pc = "counted" => since' = login'[q].n
                              /\ login'[q].pc \in {"locking", "unlock", "reset"} => failures' = since'
    BY DEF ExactInv
  <2>4. ~overlapped /\ (to \in Counting => \A q \in Login \ {r} : login[q].pc \notin Counting)
    BY <2>1, <2>3, SoleStep
  <2>5. CASE to = "idle"
    BY PasswordAssumption, <2>2, <2>3, <2>4, <2>5 DEF ExactInv, Counting, EnterWrong, Counters
  <2>6. CASE to = "wrong"
    <3>1. \A q \in Login \ {r} : login'[q].pc \notin Counting /\ login[q].pc \notin Counting
      BY <2>2, <2>4, <2>6 DEF Counting
    <3>2. failures = since
      BY <2>2, <2>3, <2>4, <3>1 DEF ExactInv, Counting
    <3>3. login'[r].pc = "wrong"
      BY <2>2, <2>6
    <3>4. since' = failures' + 1
      BY <3>2 DEF EnterWrong, Counters, PasswordTypeOK
    <3>5. QED
      BY <2>2, <3>1, <3>3, <3>4 DEF Counting
  <2>7. QED
    BY <2>5, <2>6
<1>5. HistoryInv'
  BY PasswordAssumption DEF EnterWrong, HistoryInv, PasswordTypeOK, SoleInv,
    LoginGo, Account, Changing, Recent, HistoryHasCurrent, NoRecentReuse,
    LoginState, Counting, LoginAt
<1> QED
  BY <1>1, <1>2, <1>3, <1>4, <1>5

\* ReadFailures (UserPasswordHistoryService.handle_login_failure) keeps the
\* invariant.
LEMMA ReadFailuresStep ==
    ASSUME PasswordIInv, NEW r \in Login, ReadFailures(r)
    PROVE  PasswordIInv'
<1> USE DEF PasswordIInv
<1>1. PasswordTypeOK'
  <2>1. LoginAt(r, "wrong", "counted", login[r].pw, failures + 1)
    BY DEF ReadFailures
  <2>2. Cardinality(Wrong) \in Nat /\ Cardinality(Wrong) > 0
    BY <2>1, WrongStep DEF CountInv
  <2>3. failures + 1 \in 0..MaxFailures
    BY <2>2, PasswordAssumption DEF CountInv, PasswordTypeOK
  <2>4. login' \in [Login -> LoginState]
    BY <2>1, <2>3 DEF LoginAt, PasswordTypeOK, LoginState, Counting
  <2>5. overlapped' \in BOOLEAN
    BY <2>1 DEF LoginAt, PasswordTypeOK
  <2>6. \A p, q \in Login : login'[p].pc = "written" /\ login'[q].pc = "written" => p = q
    BY <2>1 DEF LoginAt, PasswordTypeOK
  <2>7. QED
    BY <2>4, <2>5, <2>6 DEF ReadFailures, Account, Counters, PasswordTypeOK
<1>2. CountInv'
  <2>1. LoginAt(r, "wrong", "counted", login[r].pw, failures + 1)
    BY DEF ReadFailures, LoginGo
  <2>2. /\ login'[r].pc = "counted" /\ \A q \in Login : q # r => login'[q] = login[q]
    BY <2>1 DEF LoginAt, PasswordTypeOK
  <2>3. IsFiniteSet(Wrong') /\ Cardinality(Wrong) \in Nat /\ Cardinality(Wrong') \in Nat
        /\ Cardinality(Wrong) = Cardinality(Wrong') + 1
    BY <2>1, WrongStep DEF CountInv
  <2>4. failures \in Nat /\ failed \in Nat /\ \A q \in Login : login[q].n \in Nat
    BY DEF PasswordTypeOK, LoginState
  <2>5. failures' = failures /\ locked' = locked /\ failed' = failed
    BY DEF ReadFailures, Counters
  <2>6. failures' + Cardinality(Wrong') <= failed'
    BY <2>1, <2>3, <2>4, <2>5 DEF CountInv, LoginAt
  <2>7. locked' => failed' >= Threshold
    BY <2>1, <2>4, <2>5, PasswordAssumption DEF CountInv, LoginAt
  <2>8. ASSUME NEW q \in Login
        PROVE  /\ login'[q].pc = "counted" => login'[q].n + Cardinality(Wrong') <= failed'
               /\ login'[q].pc = "locking" => failed' >= Threshold
    <3>1. CASE q = r
      BY <2>1, <2>2, <2>3, <2>4, <2>5, <3>1, PasswordAssumption DEF CountInv, LoginAt, PasswordTypeOK
    <3>2. CASE q # r
      BY <2>2, <2>3, <2>4, <2>5, <3>2, PasswordAssumption DEF CountInv
    <3>3. QED
      BY <3>1, <3>2
  <2>9. QED
    BY <2>3, <2>6, <2>7, <2>8 DEF CountInv
<1>3. SoleInv'
  BY SoleStep DEF ReadFailures
<1>4. ExactInv'
  BY PasswordAssumption DEF ReadFailures, ExactInv, PasswordTypeOK, SoleInv,
    LoginAt, Account, Counters, Counting, LoginState, Changing
<1>5. HistoryInv'
  BY PasswordAssumption DEF ReadFailures, HistoryInv, PasswordTypeOK, SoleInv,
    LoginAt, Account, Counters, Changing, Recent, HistoryHasCurrent,
    NoRecentReuse, LoginState, Counting
<1> QED
  BY <1>1, <1>2, <1>3, <1>4, <1>5

\* StoreFailures (UserPasswordHistoryService.handle_login_failure) keeps the
\* invariant.
LEMMA StoreFailuresStep ==
    ASSUME PasswordIInv, NEW r \in Login, StoreFailures(r)
    PROVE  PasswordIInv'
<1> USE DEF PasswordIInv
<1>1. PasswordTypeOK'
  BY PasswordAssumption DEF StoreFailures, PasswordTypeOK, LoginGo, Account,
    LoginState, LoginAt, Counting, Changing
<1>2. CountInv'
  <2>1. LoginAt(r, "counted", IF login[r].n >= Threshold THEN "locking" ELSE "idle", login[r].pw, login[r].n)
    BY DEF StoreFailures, LoginGo
  <2>2. /\ login'[r].pc = (IF login[r].n >= Threshold THEN "locking" ELSE "idle") /\ \A q \in Login : q # r => login'[q] = login[q]
    BY <2>1 DEF LoginAt, PasswordTypeOK
  <2>3. IsFiniteSet(Wrong') /\ Cardinality(Wrong) \in Nat /\ Cardinality(Wrong') \in Nat
        /\ Cardinality(Wrong') = Cardinality(Wrong)
    BY <2>1, WrongStep DEF CountInv
  <2>4. failures \in Nat /\ failed \in Nat /\ \A q \in Login : login[q].n \in Nat
    BY DEF PasswordTypeOK, LoginState
  <2>5. failures' = login[r].n /\ locked' = locked /\ failed' = failed
    BY DEF StoreFailures, Counters
  <2>6. failures' + Cardinality(Wrong') <= failed'
    BY <2>1, <2>3, <2>4, <2>5 DEF CountInv, LoginAt
  <2>7. locked' => failed' >= Threshold
    BY <2>1, <2>4, <2>5, PasswordAssumption DEF CountInv, LoginAt
  <2>8. ASSUME NEW q \in Login
        PROVE  /\ login'[q].pc = "counted" => login'[q].n + Cardinality(Wrong') <= failed'
               /\ login'[q].pc = "locking" => failed' >= Threshold
    <3>1. CASE q = r
      BY <2>1, <2>2, <2>3, <2>4, <2>5, <3>1, PasswordAssumption DEF CountInv, LoginAt, PasswordTypeOK
    <3>2. CASE q # r
      BY <2>2, <2>3, <2>4, <2>5, <3>2, PasswordAssumption DEF CountInv
    <3>3. QED
      BY <3>1, <3>2
  <2>9. QED
    BY <2>3, <2>6, <2>7, <2>8 DEF CountInv
<1>3. SoleInv'
  BY SoleStep DEF StoreFailures, LoginGo
<1>4. ExactInv'
  BY PasswordAssumption DEF StoreFailures, ExactInv, PasswordTypeOK, SoleInv,
    LoginGo, Account, Counting, LoginState, Changing, LoginAt
<1>5. HistoryInv'
  BY PasswordAssumption DEF StoreFailures, HistoryInv, PasswordTypeOK,
    SoleInv, LoginGo, Account, Changing, Recent, HistoryHasCurrent,
    NoRecentReuse, LoginState, Counting, LoginAt
<1> QED
  BY <1>1, <1>2, <1>3, <1>4, <1>5

\* SetLock (UserPasswordHistoryService.handle_login_failure) keeps the
\* invariant.
LEMMA SetLockStep ==
    ASSUME PasswordIInv, NEW r \in Login, SetLock(r)
    PROVE  PasswordIInv'
<1> USE DEF PasswordIInv
<1>1. PasswordTypeOK'
  BY PasswordAssumption DEF SetLock, PasswordTypeOK, LoginGo, Account,
    LoginState, LoginAt, Counting, Changing
<1>2. CountInv'
  BY PasswordAssumption DEF SetLock, CountInv, PasswordTypeOK, LoginGo,
    Account, Wrong, LoginState, LoginAt, Counting, Changing
<1>3. SoleInv'
  BY SoleStep DEF SetLock, LoginGo
<1>4. ExactInv'
  BY PasswordAssumption DEF SetLock, ExactInv, PasswordTypeOK, SoleInv,
    LoginGo, Account, Counting, LoginState, Changing, LoginAt
<1>5. HistoryInv'
  BY PasswordAssumption DEF SetLock, HistoryInv, PasswordTypeOK, SoleInv,
    LoginGo, Account, Changing, Recent, HistoryHasCurrent, NoRecentReuse,
    LoginState, Counting, LoginAt
<1> QED
  BY <1>1, <1>2, <1>3, <1>4, <1>5

\* DeleteLock (UserPasswordHistoryService.handle_login_success) keeps the
\* invariant.
LEMMA DeleteLockStep ==
    ASSUME PasswordIInv, NEW r \in Login, DeleteLock(r)
    PROVE  PasswordIInv'
<1> USE DEF PasswordIInv
<1>1. PasswordTypeOK'
  BY PasswordAssumption DEF DeleteLock, PasswordTypeOK, LoginGo, Account,
    LoginState, LoginAt, Counting, Changing
<1>2. CountInv'
  BY PasswordAssumption DEF DeleteLock, CountInv, PasswordTypeOK, LoginGo,
    Account, Wrong, LoginState, LoginAt, Counting, Changing
<1>3. SoleInv'
  BY SoleStep DEF DeleteLock, LoginGo
<1>4. ExactInv'
  BY PasswordAssumption DEF DeleteLock, ExactInv, PasswordTypeOK, SoleInv,
    LoginGo, Account, Counting, LoginState, Changing, LoginAt
<1>5. HistoryInv'
  BY PasswordAssumption DEF DeleteLock, HistoryInv, PasswordTypeOK, SoleInv,
    LoginGo, Account, Changing, Recent, HistoryHasCurrent, NoRecentReuse,
    LoginState, Counting, LoginAt
<1> QED
  BY <1>1, <1>2, <1>3, <1>4, <1>5

\* DeleteCounter (UserPasswordHistoryService.handle_login_success) keeps the
\* invariant.
LEMMA DeleteCounterStep ==
    ASSUME PasswordIInv, NEW r \in Login, DeleteCounter(r)
    PROVE  PasswordIInv'
<1> USE DEF PasswordIInv
<1>1. PasswordTypeOK'
  BY PasswordAssumption DEF DeleteCounter, PasswordTypeOK, LoginGo, Account,
    LoginState, LoginAt, Counting, Changing
<1>2. CountInv'
  <2>1. LoginAt(r, "reset", "idle", login[r].pw, login[r].n)
    BY DEF DeleteCounter, LoginGo
  <2>2. /\ login'[r].pc = "idle" /\ \A q \in Login : q # r => login'[q] = login[q]
    BY <2>1 DEF LoginAt, PasswordTypeOK
  <2>3. IsFiniteSet(Wrong') /\ Cardinality(Wrong) \in Nat /\ Cardinality(Wrong') \in Nat
        /\ Cardinality(Wrong') = Cardinality(Wrong)
    BY <2>1, WrongStep DEF CountInv
  <2>4. failures \in Nat /\ failed \in Nat /\ \A q \in Login : login[q].n \in Nat
    BY DEF PasswordTypeOK, LoginState
  <2>5. failures' = 0 /\ locked' = locked /\ failed' = failed
    BY DEF DeleteCounter, Counters
  <2>6. failures' + Cardinality(Wrong') <= failed'
    BY <2>1, <2>3, <2>4, <2>5 DEF CountInv, LoginAt
  <2>7. locked' => failed' >= Threshold
    BY <2>1, <2>4, <2>5, PasswordAssumption DEF CountInv, LoginAt
  <2>8. ASSUME NEW q \in Login
        PROVE  /\ login'[q].pc = "counted" => login'[q].n + Cardinality(Wrong') <= failed'
               /\ login'[q].pc = "locking" => failed' >= Threshold
    <3>1. CASE q = r
      BY <2>1, <2>2, <2>3, <2>4, <2>5, <3>1, PasswordAssumption DEF CountInv, LoginAt, PasswordTypeOK
    <3>2. CASE q # r
      BY <2>2, <2>3, <2>4, <2>5, <3>2, PasswordAssumption DEF CountInv
    <3>3. QED
      BY <3>1, <3>2
  <2>9. QED
    BY <2>3, <2>6, <2>7, <2>8 DEF CountInv
<1>3. SoleInv'
  BY SoleStep DEF DeleteCounter, LoginGo
<1>4. ExactInv'
  BY PasswordAssumption DEF DeleteCounter, ExactInv, PasswordTypeOK, SoleInv,
    LoginGo, Account, Counting, LoginState, Changing, LoginAt
<1>5. HistoryInv'
  BY PasswordAssumption DEF DeleteCounter, HistoryInv, PasswordTypeOK,
    SoleInv, LoginGo, Account, Changing, Recent, HistoryHasCurrent,
    NoRecentReuse, LoginState, Counting, LoginAt
<1> QED
  BY <1>1, <1>2, <1>3, <1>4, <1>5

\* LockEnds (UserPasswordHistoryService.check_status) keeps the invariant.
LEMMA LockEndsStep ==
    ASSUME PasswordIInv, LockEnds
    PROVE  PasswordIInv'
<1> USE DEF PasswordIInv
<1>1. PasswordTypeOK'
  BY PasswordAssumption DEF LockEnds, PasswordTypeOK, Account, LoginState,
    Counting, Changing
<1>2. CountInv'
  BY PasswordAssumption DEF LockEnds, CountInv, PasswordTypeOK, Account,
    Wrong, LoginState, Counting, Changing
<1>3. SoleInv' /\ ExactInv' /\ HistoryInv'
  BY DEF LockEnds, Account, SoleInv, ExactInv, HistoryInv, Counting, Changing,
    Recent, HistoryHasCurrent, NoRecentReuse
<1> QED
  BY <1>1, <1>2, <1>3

\* The counter of failures expires.
LEMMA CounterEndsStep ==
    ASSUME PasswordIInv, CounterEnds
    PROVE  PasswordIInv'
<1> USE DEF PasswordIInv
<1>1. PasswordTypeOK'
  BY PasswordAssumption DEF CounterEnds, PasswordTypeOK, Counting, Account,
    LoginState, Changing
<1>2. CountInv'
  <2>1. Wrong' = Wrong /\ login' = login /\ failures' = 0 /\ failed' = failed /\ locked' = locked
    BY DEF CounterEnds, Wrong
  <2>2. Cardinality(Wrong) \in Nat /\ failures \in Nat /\ failed \in Nat
    BY FS_CardinalityType DEF CountInv, PasswordTypeOK
  <2>3. QED
    BY <2>1, <2>2 DEF CountInv
<1>3. SoleInv'
  BY PasswordAssumption DEF CounterEnds, SoleInv, PasswordTypeOK, Counting,
    Account, Changing, LoginState
<1>4. ExactInv'
  BY PasswordAssumption DEF CounterEnds, ExactInv, PasswordTypeOK, SoleInv,
    Counting, Account, LoginState, Changing
<1>5. HistoryInv'
  BY PasswordAssumption DEF CounterEnds, HistoryInv, PasswordTypeOK, SoleInv,
    Counting, Account, Changing, Recent, HistoryHasCurrent, NoRecentReuse,
    LoginState
<1> QED
  BY <1>1, <1>2, <1>3, <1>4, <1>5

\* ChooseNew (validate_new_password) keeps the invariant.
LEMMA ChooseNewStep ==
    ASSUME PasswordIInv, NEW r \in Login, NEW pw \in Password, ChooseNew(r,
           pw)
    PROVE  PasswordIInv'
<1> USE DEF PasswordIInv
<1>1. PasswordTypeOK'
  BY PasswordAssumption DEF ChooseNew, PasswordTypeOK, Recent, LoginAt,
    Account, Counters, LoginState, Counting, Changing
<1>2. CountInv'
  BY PasswordAssumption DEF ChooseNew, CountInv, PasswordTypeOK, Recent,
    LoginAt, Account, Counters, Wrong, LoginState, Counting, Changing
<1>3. SoleInv'
  BY SoleStep DEF ChooseNew
<1>4. ExactInv'
  BY PasswordAssumption DEF ChooseNew, ExactInv, PasswordTypeOK, SoleInv,
    Recent, LoginAt, Account, Counters, Counting, LoginState, Changing
<1>5. HistoryInv'
  BY PasswordAssumption DEF ChooseNew, HistoryInv, PasswordTypeOK, SoleInv,
    Recent, LoginAt, Account, Counters, Changing, HistoryHasCurrent,
    NoRecentReuse, LoginState, Counting
<1> QED
  BY <1>1, <1>2, <1>3, <1>4, <1>5

\* WriteNew (UserService.update_password) keeps the invariant.
LEMMA WriteNewStep ==
    ASSUME PasswordIInv, NEW r \in Login, WriteNew(r)
    PROVE  PasswordIInv'
<1> USE DEF PasswordIInv
<1>1. PasswordTypeOK'
  BY PasswordAssumption DEF WriteNew, PasswordTypeOK, LoginGo, Account,
    Counters, LoginState, LoginAt, Counting, Changing
<1>2. CountInv'
  BY PasswordAssumption DEF WriteNew, CountInv, PasswordTypeOK, LoginGo,
    Account, Counters, Wrong, LoginState, LoginAt, Counting, Changing
<1>3. SoleInv'
  BY SoleStep DEF WriteNew, LoginGo
<1>4. ExactInv'
  BY PasswordAssumption DEF WriteNew, ExactInv, PasswordTypeOK, SoleInv,
    LoginGo, Account, Counters, Counting, LoginState, Changing, LoginAt
<1>5. HistoryInv'
  BY PasswordAssumption, SMTT(30) DEF WriteNew, HistoryInv, PasswordTypeOK, SoleInv,
    LoginGo, Account, Counters, Changing, Recent, HistoryHasCurrent,
    NoRecentReuse, LoginState, Counting, LoginAt
<1> QED
  BY <1>1, <1>2, <1>3, <1>4, <1>5

\* CommitNew (UserPasswordHistoryService.save_password_history) keeps the
\* invariant.
LEMMA CommitNewStep ==
    ASSUME PasswordIInv, NEW r \in Login, CommitNew(r)
    PROVE  PasswordIInv'
<1> USE DEF PasswordIInv
<1>1. PasswordTypeOK'
  <2>1. LoginAt(r, "written", "idle", login[r].pw, login[r].n)
    BY DEF CommitNew, LoginGo
  <2>2. login' \in [Login -> LoginState] /\ login[r].pw \in Password
    BY <2>1 DEF LoginAt, PasswordTypeOK, LoginState
  <2>3. history' \in Seq(Password) /\ Len(history') <= MaxChanges
    <3>1. Len(history) < MaxChanges /\ Len(history) \in Nat
      BY <2>1 DEF LoginAt, HistoryInv, PasswordTypeOK
    <3>2. Len(history') = Len(history) + 1 /\ history' \in Seq(Password)
      BY <2>2 DEF CommitNew, PasswordTypeOK
    <3>3. QED
      BY <3>1, <3>2, PasswordAssumption
  <2>4. \A p, q \in Login : login'[p].pc = "written" /\ login'[q].pc = "written" => p = q
    BY <2>1 DEF LoginAt, PasswordTypeOK
  <2>5. overlapped' \in BOOLEAN
    BY <2>1 DEF LoginAt, PasswordTypeOK
  <2>6. password' \in Password /\ age' \in 0..MaxAge
    BY <2>2, PasswordAssumption DEF CommitNew
  <2>7. QED
    BY <2>2, <2>3, <2>4, <2>5, <2>6 DEF CommitNew, Counters, PasswordTypeOK
<1>2. CountInv'
  BY PasswordAssumption DEF CommitNew, CountInv, PasswordTypeOK, LoginGo,
    Counters, Wrong, LoginState, LoginAt, Counting, Changing
<1>3. SoleInv'
  BY SoleStep DEF CommitNew, LoginGo
<1>4. ExactInv'
  BY PasswordAssumption DEF CommitNew, ExactInv, PasswordTypeOK, SoleInv,
    LoginGo, Counters, Counting, LoginState, Changing, LoginAt
<1>5. HistoryInv'
  BY PasswordAssumption, SMTT(30) DEF CommitNew, HistoryInv, PasswordTypeOK, SoleInv,
    LoginGo, Counters, Changing, Recent, HistoryHasCurrent, NoRecentReuse,
    LoginState, Counting, LoginAt
<1> QED
  BY <1>1, <1>2, <1>3, <1>4, <1>5

\* CancelChange (get_db_transaction) keeps the invariant.
LEMMA CancelChangeStep ==
    ASSUME PasswordIInv, NEW r \in Login, CancelChange(r)
    PROVE  PasswordIInv'
<1> USE DEF PasswordIInv
<1>1. PasswordTypeOK'
  BY PasswordAssumption DEF CancelChange, PasswordTypeOK, Changing, LoginGo,
    Account, Counters, LoginState, LoginAt, Counting
<1>2. CountInv'
  BY PasswordAssumption DEF CancelChange, CountInv, PasswordTypeOK, Changing,
    LoginGo, Account, Counters, Wrong, LoginState, LoginAt, Counting
<1>3. SoleInv'
  BY SoleStep DEF CancelChange, LoginGo
<1>4. ExactInv'
  BY PasswordAssumption DEF CancelChange, ExactInv, PasswordTypeOK, SoleInv,
    Changing, LoginGo, Account, Counters, Counting, LoginState, LoginAt
<1>5. HistoryInv'
  BY PasswordAssumption DEF CancelChange, HistoryInv, PasswordTypeOK, SoleInv,
    Changing, LoginGo, Account, Counters, Recent, HistoryHasCurrent,
    NoRecentReuse, LoginState, Counting, LoginAt
<1> QED
  BY <1>1, <1>2, <1>3, <1>4, <1>5

\* Day (CRUDUser.update_password_changed_time) keeps the invariant.
LEMMA DayStep ==
    ASSUME PasswordIInv, Day
    PROVE  PasswordIInv'
<1> USE DEF PasswordIInv
<1>1. PasswordTypeOK'
  BY PasswordAssumption DEF Day, PasswordTypeOK, Counters, LoginState,
    Counting, Changing
<1>2. CountInv' /\ SoleInv' /\ ExactInv' /\ HistoryInv'
  BY DEF Day, Counters, CountInv, SoleInv, ExactInv, HistoryInv, Wrong,
    Counting, Changing, Recent, HistoryHasCurrent, NoRecentReuse
<1> QED
  BY <1>1, <1>2

\* The initial state satisfies the invariant.
LEMMA PasswordInitInv == PasswordInit => PasswordIInv
<1> SUFFICES ASSUME PasswordInit PROVE PasswordIInv
  OBVIOUS
<1>1. PasswordTypeOK
  <2>1. /\ age \in 0..MaxAge /\ failures \in 0..MaxFailures /\ failed \in 0..MaxFailures
        /\ since \in 0..failed
    BY PasswordAssumption DEF PasswordInit
  <2>2. login \in [Login -> LoginState]
    BY PasswordAssumption DEF PasswordInit, LoginState
  <2>3. history \in Seq(Password) /\ Len(history) <= MaxChanges
    BY PasswordAssumption DEF PasswordInit
  <2>4. QED
    BY <2>1, <2>2, <2>3 DEF PasswordInit, PasswordTypeOK
<1>2. Wrong = {} /\ IsFiniteSet(Wrong) /\ Cardinality(Wrong) = 0
  BY FS_EmptySet DEF PasswordInit, Wrong
<1>3. CountInv
  BY <1>2 DEF PasswordInit, CountInv
<1>4. SoleInv /\ ExactInv /\ HistoryInv
  BY DEF PasswordInit, SoleInv, ExactInv, HistoryInv, HistoryHasCurrent, NoRecentReuse, Counting, Changing
<1>5. QED
  BY <1>1, <1>3, <1>4 DEF PasswordIInv

\* Every step keeps it.
LEMMA PasswordNextInv == PasswordIInv /\ [PasswordNext]_pwVars => PasswordIInv'
<1> SUFFICES ASSUME PasswordIInv, [PasswordNext]_pwVars PROVE PasswordIInv'
  OBVIOUS
<1>1. CASE UNCHANGED pwVars
  BY <1>1 DEF pwVars, PasswordIInv, PasswordTypeOK, CountInv, Wrong, SoleInv, ExactInv, HistoryInv,
     HistoryHasCurrent, NoRecentReuse, Recent
<1>2. ASSUME NEW r \in Login, NEW pw \in Password, ChooseNew(r, pw) PROVE PasswordIInv'
  BY <1>2, ChooseNewStep
<1>3. QED
  BY <1>1, <1>2, EnterRightStep, EnterWrongStep, ReadFailuresStep, StoreFailuresStep, SetLockStep,
     DeleteLockStep, DeleteCounterStep, WriteNewStep, CommitNewStep, CancelChangeStep,
     LockEndsStep, CounterEndsStep, DayStep DEF PasswordNext

\* The inductive invariant of the password holds in every reachable state.
THEOREM PasswordInductive == PasswordSpec => []PasswordIInv
BY PasswordInitInv, PasswordNextInv, PTL DEF PasswordSpec

\* However logins and changes overlap, the lock has been earned, a wrong
\* password goes uncounted only where the history says so, the history ends
\* with the password in force, and a recent password comes back only when two
\* changes overlapped.
THEOREM PasswordSafe == PasswordSpec => []PasswordInv
<1>1. PasswordIInv => PasswordInv
  BY PasswordAssumption
     DEF PasswordIInv, PasswordInv, LockedAfterFailures, CountExact, CountInv, ExactInv, HistoryInv
<1>2. QED
  BY <1>1, PasswordInductive, PTL
===============================================================================
