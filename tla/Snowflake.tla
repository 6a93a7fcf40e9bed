----------------------------- MODULE Snowflake -----------------------------
(***************************************************************************)
(* Snowflake identifiers (utils/snowflake.py).  A process takes a free     *)
(* node number from Redis as a lease, keeps it alive by heartbeats and     *)
(* builds identifiers from its clock, the node and a sequence.  The clock  *)
(* may step back; a process may die, or stall for longer than its lease.   *)
(***************************************************************************)
EXTENDS Integers, FiniteSets

CONSTANTS Process,
          MaxNode,      \* node numbers 0..MaxNode: the 1024 pairs of data centre and worker
          MaxSequence,  \* SnowflakeConfig.SEQUENCE_MASK
          Tolerance,    \* SnowflakeConfig.CLOCK_BACKWARD_TOLERANCE_MS
          Lease,        \* settings.SNOWFLAKE_NODE_TTL_SECONDS, in heartbeats
          MaxClock,     \* bound: milliseconds
          MaxBack,      \* bound: steps of the clock back
          MaxStalls,    \* bound: processes that stall or die
          MaxStarts     \* bound: starts of a process

ASSUME SnowflakeAssumption ==
    /\ {MaxNode, MaxSequence, Tolerance, Lease, MaxClock, MaxBack, MaxStalls, MaxStarts} \subseteq Nat
    /\ Lease > 0 \* Redis refuses an expiry of 0

Unset == -1
NodeId == 0..MaxNode

VARIABLES ttl,      \* heartbeats until the key of a node expires, 0: no such key
          owner,    \* history: the process that registered a node last
          proc,     \* "off", "on", "stalled" or "released"
          node,     \* datacenter_id and worker_id of a process
          wait,     \* why generate waits for the next millisecond: "no", "back", "full"
          sequence, \* Snowflake.sequence
          last,     \* Snowflake.last_timestamp
          clock,    \* wall clock, in milliseconds
          issued,   \* history: identifiers handed out
          twice,    \* history: an identifier was handed out again
          lapsed,   \* history: a process issued an identifier without the lease
          reused,   \* history: a node with identifiers was taken again
          behind,   \* history: it was taken not later than its last identifier
          backs, stalls, starts \* counters for the bounds

snowVars == <<ttl, owner, proc, node, wait, sequence, last, clock, issued,
              twice, lapsed, reused, behind, backs, stalls, starts>>

Id == [time : 0..MaxClock, node : NodeId, seq : 0..MaxSequence]

SnowTypeOK ==
    /\ ttl \in [NodeId -> 0..Lease] /\ owner \in [NodeId -> Process \cup {Unset}]
    /\ proc \in [Process -> {"off", "on", "stalled", "released"}]
    /\ node \in [Process -> NodeId \cup {Unset}]
    /\ \A p \in Process : proc[p] # "off" => node[p] # Unset
    /\ wait \in [Process -> {"no", "back", "full"}]
    /\ sequence \in [Process -> 0..MaxSequence]
    /\ last \in [Process -> 0..MaxClock \cup {Unset}]
    /\ clock \in 0..MaxClock /\ issued \subseteq Id
    /\ {twice, lapsed, reused, behind} \subseteq BOOLEAN
    /\ backs \in 0..MaxBack /\ stalls \in 0..MaxStalls
    /\ starts \in 0..MaxStarts

SnowInit ==
    /\ ttl = [n \in NodeId |-> 0] /\ owner = [n \in NodeId |-> Unset]
    /\ proc = [p \in Process |-> "off"] /\ node = [p \in Process |-> Unset]
    /\ wait = [p \in Process |-> "no"]
    /\ sequence = [p \in Process |-> 0] /\ last = [p \in Process |-> Unset]
    /\ clock = 0 /\ issued = {}
    /\ twice = FALSE /\ lapsed = FALSE /\ reused = FALSE /\ behind = FALSE /\ backs = 0 /\ stalls = 0 /\ starts = 0

LeaseVars == <<ttl, owner, proc, node, reused, behind>>
Generator == <<wait, sequence, last, issued, twice, lapsed>>
Bounds    == <<clock, backs, stalls, starts>>
----------------------------------------------------------------------------
(* SnowflakeNodeManager *)

Free == {n \in NodeId : ttl[n] = 0}

\* init: the first node without a key, set with NX and an expiry.  A node
\* that is taken after the scan fails its SET NX and the next one is tried.
AcquireNode(p) ==
    /\ proc[p] = "off" /\ starts < MaxStarts /\ starts' = starts + 1
    /\ \E n \in Free :
        /\ \A m \in Free : n <= m
        /\ ttl' = [ttl EXCEPT ![n] = Lease]
        /\ owner' = [owner EXCEPT ![n] = p]
        /\ node' = [node EXCEPT ![p] = n]
        /\ reused' = (reused \/ \E i \in issued : i.node = n)
        /\ behind' = (behind \/ \E i \in issued : i.node = n /\ i.time >= clock)
    /\ proc' = [proc EXCEPT ![p] = "on"]
    /\ UNCHANGED <<Generator, clock, backs, stalls>>

\* EXPIRE does nothing when the key is gone and does not look at its owner.
Heartbeat(p) ==
    /\ proc[p] = "on" /\ ttl[node[p]] > 0
    /\ ttl' = [ttl EXCEPT ![node[p]] = Lease]
    /\ UNCHANGED <<owner, proc, node, reused, behind, Generator, Bounds>>

\* release: DEL, whoever owns the key by now.
Release(p) ==
    /\ proc[p] = "on" /\ wait[p] = "no"
    /\ ttl' = [ttl EXCEPT ![node[p]] = 0]
    /\ proc' = [proc EXCEPT ![p] = "released"]
    /\ UNCHANGED <<owner, node, reused, behind, Generator, Bounds>>

\* A heartbeat interval passes in Redis.  A process that runs, and whose key
\* is there, has renewed it in time.
LeaseTick ==
    /\ \E n \in NodeId : ttl[n] > 0
    /\ \A p \in Process : proc[p] = "on" => ttl[node[p]] # 1
    /\ ttl' = [n \in NodeId |-> IF ttl[n] = 0 THEN 0 ELSE ttl[n] - 1]
    /\ UNCHANGED <<owner, proc, node, reused, behind, Generator, Bounds>>

\* A process hangs, or does not reach Redis, and comes back; or it dies, and a
\* new process starts in its place with a fresh generator.
Stall(p) ==
    /\ proc[p] = "on" /\ stalls < MaxStalls
    /\ proc' = [proc EXCEPT ![p] = "stalled"] /\ stalls' = stalls + 1
    /\ UNCHANGED <<ttl, owner, node, reused, behind, Generator, clock, backs, starts>>

Resume(p) ==
    /\ proc[p] = "stalled" /\ proc' = [proc EXCEPT ![p] = "on"]
    /\ UNCHANGED <<ttl, owner, node, reused, behind, Generator, Bounds>>

Restart(p) ==
    /\ proc[p] \in {"stalled", "released"}
    /\ proc' = [proc EXCEPT ![p] = "off"] /\ node' = [node EXCEPT ![p] = Unset]
    /\ wait' = [wait EXCEPT ![p] = "no"]
    /\ sequence' = [sequence EXCEPT ![p] = 0] /\ last' = [last EXCEPT ![p] = Unset]
    /\ UNCHANGED <<ttl, owner, reused, behind, issued, twice, lapsed, Bounds>>
----------------------------------------------------------------------------
(* Snowflake.generate *)

Holds(p) == ttl[node[p]] > 0 /\ owner[node[p]] = p

\* The identifier of millisecond t and sequence s is handed out.
Issue(p, t, s) ==
    LET id == [time |-> t, node |-> node[p], seq |-> s]
    IN  /\ issued' = issued \cup {id}
        /\ twice' = (twice \/ id \in issued)
        /\ lapsed' = (lapsed \/ ~Holds(p))
        /\ sequence' = [sequence EXCEPT ![p] = s]
        /\ last' = [last EXCEPT ![p] = t]
        /\ wait' = [wait EXCEPT ![p] = "no"]

Waiting(p, why) ==
    /\ wait' = [wait EXCEPT ![p] = why]
    /\ sequence' = [sequence EXCEPT ![p] = IF why = "full" THEN 0 ELSE @]
    /\ UNCHANGED <<last, issued, twice, lapsed>>

\* The clock ahead of the last identifier; in its millisecond; the sequence
\* used up; the clock back by no more than the tolerance (else an error).
Generate(p) ==
    /\ proc[p] = "on" /\ wait[p] = "no"
    /\ \/ clock > last[p] /\ Issue(p, clock, 0)
       \/ clock = last[p] /\ sequence[p] < MaxSequence /\ Issue(p, clock, sequence[p] + 1)
       \/ clock = last[p] /\ sequence[p] = MaxSequence /\ Waiting(p, "full")
       \/ clock < last[p] /\ last[p] - clock <= Tolerance /\ Waiting(p, "back")
    /\ UNCHANGED <<LeaseVars, Bounds>>

\* Mutant: it returns in the same millisecond.
WaitOverEarly(p) ==
    /\ proc[p] = "on" /\ wait[p] # "no" /\ clock >= last[p]
    /\ Issue(p, clock, 0)
    /\ UNCHANGED <<LeaseVars, Bounds>>

\* _till_next_ms returns once the clock has passed the last timestamp.
WaitOver(p) ==
    /\ proc[p] = "on" /\ wait[p] # "no" /\ clock > last[p]
    /\ Issue(p, clock, 0)
    /\ UNCHANGED <<LeaseVars, Bounds>>

ClockForward ==
    /\ clock < MaxClock /\ clock' = clock + 1
    /\ UNCHANGED <<LeaseVars, Generator, backs, stalls, starts>>

ClockBack ==
    /\ backs < MaxBack /\ backs' = backs + 1
    /\ \E t \in 0..clock - 1 : clock' = t
    /\ UNCHANGED <<LeaseVars, Generator, stalls, starts>>

SnowNext ==
    \/ \E p \in Process :
        \/ AcquireNode(p) \/ Heartbeat(p) \/ Release(p) \/ Stall(p) \/ Resume(p)
        \/ Restart(p) \/ Generate(p) \/ WaitOver(p)
    \/ LeaseTick \/ ClockForward \/ ClockBack

SnowSpec == SnowInit /\ [][SnowNext]_snowVars
----------------------------------------------------------------------------
\* No identifier twice, whatever the clock does, unless a process went on
\* without its lease, or a node with identifiers was taken again and the
\* clock was not past them or stepped back (last_timestamp is not in Redis).
IdsUnique == twice => lapsed \/ behind \/ (reused /\ backs > 0)

\* As long as no process stalls, a process that runs holds its node: its
\* heartbeats come in time, and nobody else takes or deletes its key.
LeaseKept == stalls = 0 => \A p \in Process : proc[p] = "on" => Holds(p)

\* Nodes are leased, and identifiers unique.
SnowInv ==
    /\ SnowTypeOK /\ IdsUnique /\ LeaseKept
=============================================================================
