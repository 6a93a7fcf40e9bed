--------------------------- MODULE PlatformProofs ---------------------------
(***************************************************************************)
(* Proofs about what the platform is built on: identifiers, login and      *)
(* e-mail codes, task results, the life of a process, user administration  *)
(* and the rate limiter.                                                   *)
(***************************************************************************)
EXTENDS Snowflake, Captchas, TaskResults, Lifespan, UserAdmin, Limiter,
        FiniteSetTheorems, FunctionTheorems, TLAPS

-----------------------------------------------------------------------------
(* Snowflake identifiers.                                                   *)

\* The types, by the groups of the variables.
LeaseOK ==
    /\ ttl \in [NodeId -> 0..Lease] /\ owner \in [NodeId -> Process \cup {Unset}]
    /\ proc \in [Process -> {"off", "on", "stalled", "released"}]
    /\ node \in [Process -> NodeId \cup {Unset}]
    /\ \A p \in Process : proc[p] # "off" => node[p] \in NodeId

GeneratorOK ==
    /\ wait \in [Process -> {"no", "back", "full"}]
    /\ sequence \in [Process -> 0..MaxSequence]
    /\ last \in [Process -> 0..MaxClock \cup {Unset}]
    /\ issued \subseteq Id

FlagsOK  == twice \in BOOLEAN /\ lapsed \in BOOLEAN /\ reused \in BOOLEAN /\ behind \in BOOLEAN
BoundsOK ==
    clock \in 0..MaxClock /\ backs \in 0..MaxBack /\ stalls \in 0..MaxStalls /\ starts \in 0..MaxStarts

Running(p) == proc[p] \in {"on", "stalled"}

\* A process that is off has a fresh generator, and none is stalled before the
\* first stall.
FreshInv ==
    \A p \in Process :
        /\ proc[p] = "off" => last[p] = Unset /\ wait[p] = "no"
        /\ stalls = 0 => proc[p] # "stalled"

\* The history still rules out a doubled identifier.
Untroubled == ~lapsed /\ ~behind /\ (~reused \/ backs = 0)

\* Identifier i comes before the next one of process p: that of an earlier
\* holder is of the past, one of its own is not after the last.
Precedes(i, p) ==
    IF last[p] = Unset THEN reused /\ i.time < clock
    ELSE \/ i.time < last[p]
         \/ i.time = last[p] /\ (i.seq <= sequence[p] \/ wait[p] = "full")

\* All identifiers of a node come before the next one of its holder.
IdsInv ==
    Untroubled =>
        /\ ~twice
        /\ \A p \in Process : Running(p) /\ Holds(p) =>
               \A i \in issued : i.node = node[p] => Precedes(i, p)

\* The inductive invariant of the identifiers.
SnowIInv ==
    LeaseOK /\ GeneratorOK /\ FlagsOK /\ BoundsOK /\ FreshInv /\ LeaseKept /\ IdsInv

\* A process that runs hands out the identifier of the present millisecond:
\* the first of a later one than its last, or the next of the same.
LEMMA IssueStep ==
    ASSUME SnowIInv, NEW p \in Process, proc[p] = "on", NEW s \in 0..MaxSequence,
           Issue(p, clock, s), UNCHANGED <<LeaseVars, Bounds>>,
           \/ clock > last[p]
           \/ clock = last[p] /\ wait[p] = "no" /\ s = sequence[p] + 1
    PROVE  GeneratorOK' /\ IdsInv'
<1> USE DEF SnowIInv
<1> DEFINE id == [time |-> clock, node |-> node[p], seq |-> s]
<1>1. /\ issued' = issued \cup {id} /\ twice' = (twice \/ id \in issued)
      /\ lapsed' = (lapsed \/ ~Holds(p))
      /\ sequence' = [sequence EXCEPT ![p] = s] /\ last' = [last EXCEPT ![p] = clock]
      /\ wait' = [wait EXCEPT ![p] = "no"]
  BY DEF Issue
<1>2. /\ ttl' = ttl /\ owner' = owner /\ proc' = proc /\ node' = node /\ reused' = reused
      /\ behind' = behind /\ clock' = clock /\ backs' = backs
  BY DEF LeaseVars, Bounds
<1>3. node[p] \in NodeId /\ clock \in 0..MaxClock
  BY DEF LeaseOK, BoundsOK
<1>4. GeneratorOK'
  <2>1. id \in Id
    BY <1>3 DEF Id
  <2>2. QED
    BY <1>1, <1>3, <2>1 DEF GeneratorOK
<1>5. IdsInv'
  <2> SUFFICES ASSUME Untroubled'
               PROVE  /\ ~twice'
                      /\ \A q \in Process : Running(q)' /\ Holds(q)' =>
                             \A i \in issued' : i.node = node'[q] => Precedes(i, q)'
    BY DEF IdsInv
  <2>1. Untroubled /\ Holds(p)
    BY <1>1, <1>2 DEF Untroubled, FlagsOK
  <2>2. ~twice /\ \A i \in issued : i.node = node[p] => Precedes(i, p)
    BY <2>1 DEF IdsInv, Running
  <2>3. last[p] \in 0..MaxClock \cup {Unset} /\ sequence[p] \in 0..MaxSequence
        /\ \A i \in issued : i.time \in 0..MaxClock /\ i.seq \in 0..MaxSequence
    BY DEF GeneratorOK, Id
  <2>4. id \notin issued
    <3>1. SUFFICES ASSUME id \in issued PROVE FALSE
      OBVIOUS
    <3>2. Precedes(id, p)
      BY <2>2, <3>1
    <3>3. QED
      BY <1>3, <2>3, <3>2, SnowflakeAssumption DEF Precedes, Unset
  <2>5. ~twice'
    BY <1>1, <2>2, <2>4
  <2>6. ASSUME NEW q \in Process, Running(q)', Holds(q)', NEW i \in issued', i.node = node'[q]
        PROVE  Precedes(i, q)'
    <3>1. CASE q = p
      <4>1. last'[p] = clock /\ sequence'[p] = s /\ clock # Unset
        BY <1>1, <1>3, SnowflakeAssumption DEF GeneratorOK, Unset
      <4>2. CASE i = id
        BY <1>2, <3>1, <4>1, <4>2, SnowflakeAssumption DEF Precedes
      <4>3. CASE i \in issued
        <5>1. Precedes(i, p)
          BY <1>2, <2>2, <2>6, <3>1, <4>3
        <5>2. i.time < clock \/ (i.time = clock /\ i.seq <= s)
          BY <1>3, <2>3, <4>3, <5>1, SnowflakeAssumption DEF Precedes
        <5>3. QED
          BY <3>1, <4>1, <5>2 DEF Precedes
      <4>4. QED
        BY <1>1, <4>2, <4>3
    <3>2. CASE q # p
      <4>1. Holds(q) /\ Running(q) /\ node[q] # node[p]
        BY <1>2, <2>1, <2>6, <3>2 DEF Holds, Running
      <4>2. i \in issued /\ i.node = node[q]
        BY <1>1, <1>2, <2>6, <4>1
      <4>3. Precedes(i, q)
        BY <2>1, <4>1, <4>2 DEF IdsInv
      <4>4. last'[q] = last[q] /\ sequence'[q] = sequence[q] /\ wait'[q] = wait[q]
        BY <1>1, <3>2 DEF GeneratorOK
      <4>5. QED
        BY <1>2, <4>3, <4>4 DEF Precedes
    <3>3. QED
      BY <3>1, <3>2
  <2>7. QED
    BY <2>5, <2>6
<1>6. QED
  BY <1>4, <1>5

\* AcquireNode (Snowflake.init) keeps the invariant.
LEMMA AcquireNodeStep ==
    ASSUME SnowIInv, NEW p \in Process, AcquireNode(p)
    PROVE  SnowIInv'
<1> USE DEF SnowIInv
<1>1. LeaseOK'
  BY SnowflakeAssumption DEF AcquireNode, LeaseOK, Free, Generator, NodeId,
    Unset
<1>2. FlagsOK'
  BY SnowflakeAssumption DEF AcquireNode, FlagsOK, Free, Generator, NodeId
<1>3. BoundsOK'
  BY SnowflakeAssumption DEF AcquireNode, BoundsOK, Free, Generator, NodeId
<1>4. FreshInv'
  BY SnowflakeAssumption DEF AcquireNode, FreshInv, LeaseOK, GeneratorOK,
    BoundsOK, Free, Generator, Unset, NodeId, Id
<1>5. LeaseKept'
  BY SnowflakeAssumption DEF AcquireNode, LeaseKept, LeaseOK, FreshInv,
    BoundsOK, Free, Generator, Holds, NodeId, Unset
<1>6. IdsInv'
  <2>1. PICK n \in Free :
            /\ ttl' = [ttl EXCEPT ![n] = Lease] /\ owner' = [owner EXCEPT ![n] = p]
            /\ node' = [node EXCEPT ![p] = n]
            /\ reused' = (reused \/ \E i \in issued : i.node = n)
            /\ behind' = (behind \/ \E i \in issued : i.node = n /\ i.time >= clock)
    BY DEF AcquireNode
  <2>2. /\ proc[p] = "off" /\ proc' = [proc EXCEPT ![p] = "on"] /\ n \in NodeId
        /\ UNCHANGED <<wait, sequence, last, issued, twice, lapsed, clock, backs>>
    BY <2>1 DEF AcquireNode, Generator, Free
  <2> SUFFICES ASSUME Untroubled'
               PROVE  /\ ~twice'
                      /\ \A q \in Process : Running(q)' /\ Holds(q)' =>
                             \A i \in issued' : i.node = node'[q] => Precedes(i, q)'
    BY DEF IdsInv
  <2>3. Untroubled
    BY <2>1, <2>2 DEF Untroubled
  <2>4. ASSUME NEW q \in Process, Running(q)', Holds(q)', NEW i \in issued, i.node = node'[q]
        PROVE  Precedes(i, q)'
    <3>1. CASE q = p
      <4>1. node'[q] = n /\ i.node = n
        BY <2>1, <2>4, <3>1 DEF LeaseOK
      <4>2. reused' /\ ~(i.time >= clock)
        BY <2>1, <4>1 DEF Untroubled
      <4>3. i.time < clock
        BY <4>2 DEF GeneratorOK, Id, BoundsOK
      <4>4. last'[q] = Unset
        BY <2>2, <3>1 DEF FreshInv
      <4>5. QED
        BY <2>2, <4>2, <4>3, <4>4 DEF Precedes
    <3>2. CASE q # p
      <4>1. node'[q] = node[q] /\ Running(q)
        BY <2>1, <2>2, <2>4, <3>2 DEF LeaseOK, Running
      <4>2. node[q] \in NodeId /\ node[q] # n
        BY <2>1, <2>2, <2>4, <3>2, <4>1 DEF LeaseOK, Running, Holds
      <4>3. Holds(q)
        BY <2>1, <2>4, <4>1, <4>2 DEF Holds, LeaseOK
      <4>4. Precedes(i, q)
        BY <2>3, <2>4, <4>1, <4>3 DEF IdsInv
      <4>5. QED
        BY <2>1, <2>2, <4>4 DEF Precedes
    <3>3. QED
      BY <3>1, <3>2
  <2>5. QED
    BY <2>2, <2>3, <2>4 DEF IdsInv
<1>7. GeneratorOK'
  BY DEF AcquireNode, Generator, GeneratorOK, Unset, Id, NodeId
<1> QED
  BY <1>1, <1>2, <1>3, <1>4, <1>5, <1>6, <1>7

\* Heartbeat (SnowflakeNodeManager.start_heartbeat) keeps the invariant.
LEMMA HeartbeatStep ==
    ASSUME SnowIInv, NEW p \in Process, Heartbeat(p)
    PROVE  SnowIInv'
<1> USE DEF SnowIInv
<1>1. LeaseOK'
  BY SnowflakeAssumption DEF Heartbeat, LeaseOK, Generator, Bounds, NodeId,
    Unset
<1>2. LeaseKept'
  BY SnowflakeAssumption DEF Heartbeat, LeaseKept, LeaseOK, FreshInv,
    BoundsOK, Generator, Bounds, Holds, NodeId, Unset
<1>3. IdsInv'
  BY SnowflakeAssumption DEF Heartbeat, IdsInv, LeaseOK, GeneratorOK, FlagsOK,
    BoundsOK, FreshInv, Generator, Bounds, Untroubled, Running, Holds,
    Precedes, NodeId, Unset, Id
<1>4. GeneratorOK' /\ FlagsOK' /\ BoundsOK' /\ FreshInv'
  BY DEF Heartbeat, Generator, Bounds, GeneratorOK, FlagsOK, BoundsOK,
    FreshInv, Unset, Id, NodeId
<1> QED
  BY <1>1, <1>2, <1>3, <1>4

\* Release (SnowflakeNodeManager.release) keeps the invariant.
LEMMA ReleaseStep ==
    ASSUME SnowIInv, NEW p \in Process, Release(p)
    PROVE  SnowIInv'
<1> USE DEF SnowIInv
<1>1. LeaseOK'
  BY SnowflakeAssumption DEF Release, LeaseOK, Generator, Bounds, NodeId,
    Unset
<1>2. FreshInv'
  BY SnowflakeAssumption DEF Release, FreshInv, LeaseOK, GeneratorOK,
    BoundsOK, Generator, Bounds, Unset, NodeId, Id
<1>3. LeaseKept'
  BY SnowflakeAssumption DEF Release, LeaseKept, LeaseOK, FreshInv, BoundsOK,
    Generator, Bounds, Holds, NodeId, Unset
<1>4. IdsInv'
  BY SnowflakeAssumption, SMTT(30) DEF Release, IdsInv, LeaseOK, GeneratorOK, FlagsOK,
    BoundsOK, FreshInv, Generator, Bounds, Untroubled, Running, Holds,
    Precedes, NodeId, Unset, Id
<1>5. GeneratorOK' /\ FlagsOK' /\ BoundsOK'
  BY DEF Release, Generator, Bounds, GeneratorOK, FlagsOK, BoundsOK, Unset,
    Id, NodeId
<1> QED
  BY <1>1, <1>2, <1>3, <1>4, <1>5

\* LeaseTick (SnowflakeNodeManager._register) keeps the invariant.
LEMMA LeaseTickStep ==
    ASSUME SnowIInv, LeaseTick
    PROVE  SnowIInv'
<1> USE DEF SnowIInv
<1>1. LeaseOK'
  BY SnowflakeAssumption DEF LeaseTick, LeaseOK, NodeId, Generator, Bounds,
    Unset
<1>2. LeaseKept'
  BY SnowflakeAssumption DEF LeaseTick, LeaseKept, LeaseOK, FreshInv,
    BoundsOK, NodeId, Generator, Bounds, Holds, Unset
<1>3. IdsInv'
  <2>1. \A q \in Process : Running(q) /\ Holds(q)' => Holds(q)
    BY SnowflakeAssumption DEF LeaseTick, Holds, Running, LeaseOK
  <2>2. QED
    BY <2>1 DEF LeaseTick, Generator, Bounds, IdsInv, Untroubled, Running, Precedes
<1>4. GeneratorOK' /\ FlagsOK' /\ BoundsOK' /\ FreshInv'
  BY DEF LeaseTick, Generator, Bounds, GeneratorOK, FlagsOK, BoundsOK,
    FreshInv, Unset, Id, NodeId
<1> QED
  BY <1>1, <1>2, <1>3, <1>4

\* A process stops being scheduled.
LEMMA StallStep ==
    ASSUME SnowIInv, NEW p \in Process, Stall(p)
    PROVE  SnowIInv'
<1> USE DEF SnowIInv
<1>1. LeaseOK'
  BY SnowflakeAssumption DEF Stall, LeaseOK, Generator, NodeId, Unset
<1>2. BoundsOK'
  BY SnowflakeAssumption DEF Stall, BoundsOK, Generator
<1>3. FreshInv'
  BY SnowflakeAssumption DEF Stall, FreshInv, LeaseOK, GeneratorOK, BoundsOK,
    Generator, Unset, NodeId, Id
<1>4. LeaseKept'
  BY SnowflakeAssumption DEF Stall, LeaseKept, LeaseOK, FreshInv, BoundsOK,
    Generator, Holds, NodeId, Unset
<1>5. IdsInv'
  BY SnowflakeAssumption DEF Stall, IdsInv, LeaseOK, GeneratorOK, FlagsOK,
    BoundsOK, FreshInv, Generator, Untroubled, Running, Holds, Precedes,
    NodeId, Unset, Id
<1>6. GeneratorOK' /\ FlagsOK'
  BY DEF Stall, Generator, GeneratorOK, FlagsOK, Unset, Id, NodeId
<1> QED
  BY <1>1, <1>2, <1>3, <1>4, <1>5, <1>6

\* A stalled process goes on.
LEMMA ResumeStep ==
    ASSUME SnowIInv, NEW p \in Process, Resume(p)
    PROVE  SnowIInv'
<1> USE DEF SnowIInv
<1>1. LeaseOK'
  BY SnowflakeAssumption DEF Resume, LeaseOK, Generator, Bounds, NodeId, Unset
<1>2. FreshInv'
  BY SnowflakeAssumption DEF Resume, FreshInv, LeaseOK, GeneratorOK, BoundsOK,
    Generator, Bounds, Unset, NodeId, Id
<1>3. LeaseKept'
  BY SnowflakeAssumption DEF Resume, LeaseKept, LeaseOK, FreshInv, BoundsOK,
    Generator, Bounds, Holds, NodeId, Unset
<1>4. IdsInv'
  BY SnowflakeAssumption DEF Resume, IdsInv, LeaseOK, GeneratorOK, FlagsOK,
    BoundsOK, FreshInv, Generator, Bounds, Untroubled, Running, Holds,
    Precedes, NodeId, Unset, Id
<1>5. GeneratorOK' /\ FlagsOK' /\ BoundsOK'
  BY DEF Resume, Generator, Bounds, GeneratorOK, FlagsOK, BoundsOK, Unset, Id,
    NodeId
<1> QED
  BY <1>1, <1>2, <1>3, <1>4, <1>5

\* Restart (Snowflake.shutdown) keeps the invariant.
LEMMA RestartStep ==
    ASSUME SnowIInv, NEW p \in Process, Restart(p)
    PROVE  SnowIInv'
<1> USE DEF SnowIInv
<1>1. LeaseOK'
  BY SnowflakeAssumption DEF Restart, LeaseOK, Unset, Bounds, NodeId
<1>2. GeneratorOK'
  BY SnowflakeAssumption DEF Restart, GeneratorOK, LeaseOK, BoundsOK, Unset,
    Bounds, Id, NodeId
<1>3. FreshInv'
  BY SnowflakeAssumption DEF Restart, FreshInv, LeaseOK, GeneratorOK,
    BoundsOK, Unset, Bounds, NodeId, Id
<1>4. LeaseKept'
  BY SnowflakeAssumption DEF Restart, LeaseKept, LeaseOK, FreshInv, BoundsOK,
    Unset, Bounds, Holds, NodeId
<1>5. IdsInv'
  BY SnowflakeAssumption, ZenonT(60) DEF Restart, IdsInv, LeaseOK, GeneratorOK, FlagsOK,
    BoundsOK, FreshInv, Unset, Bounds, Untroubled, Running, Holds, Precedes,
    NodeId, Id
<1>6. FlagsOK' /\ BoundsOK'
  BY DEF Restart, Bounds, FlagsOK, BoundsOK
<1> QED
  BY <1>1, <1>2, <1>3, <1>4, <1>5, <1>6

\* Generate (Snowflake.generate) keeps the invariant.
LEMMA GenerateStep ==
    ASSUME SnowIInv, NEW p \in Process, Generate(p)
    PROVE  SnowIInv'
<1> USE DEF SnowIInv
<1>1. GeneratorOK'
  <2>0. /\ proc[p] = "on" /\ wait[p] = "no" /\ UNCHANGED <<LeaseVars, Bounds>>
        /\ last[p] \in 0..MaxClock \cup {Unset} /\ clock \in 0..MaxClock
        /\ sequence[p] \in 0..MaxSequence
    BY DEF Generate, GeneratorOK, BoundsOK
  <2>1. CASE clock > last[p] /\ Issue(p, clock, 0)
    BY <2>0, <2>1, IssueStep, SnowflakeAssumption
  <2>2. CASE clock = last[p] /\ sequence[p] < MaxSequence /\ Issue(p, clock, sequence[p] + 1)
    <3>1. sequence[p] + 1 \in 0..MaxSequence
      BY <2>0, <2>2, SnowflakeAssumption
    <3>2. QED
      BY <2>0, <2>2, <3>1, IssueStep
  <2>3. CASE clock = last[p] /\ sequence[p] = MaxSequence /\ Waiting(p, "full")
    BY <2>0, <2>3, SnowflakeAssumption DEF Waiting, GeneratorOK
  <2>4. CASE Waiting(p, "back")
    BY <2>0, <2>4, SnowflakeAssumption DEF Waiting, GeneratorOK
  <2>5. QED
    BY <2>1, <2>2, <2>3, <2>4 DEF Generate
<1>2. FlagsOK'
  BY SnowflakeAssumption DEF Generate, FlagsOK, Issue, Waiting, LeaseVars,
    Bounds, Holds
<1>3. FreshInv'
  BY SnowflakeAssumption DEF Generate, FreshInv, LeaseOK, GeneratorOK,
    BoundsOK, Issue, Waiting, LeaseVars, Bounds, Unset, NodeId, Id, Holds
<1>4. IdsInv'
  <2>0. /\ proc[p] = "on" /\ wait[p] = "no" /\ UNCHANGED <<LeaseVars, Bounds>>
        /\ last[p] \in 0..MaxClock \cup {Unset} /\ clock \in 0..MaxClock
        /\ sequence[p] \in 0..MaxSequence
    BY DEF Generate, GeneratorOK, BoundsOK
  <2>1. CASE clock > last[p] /\ Issue(p, clock, 0)
    BY <2>0, <2>1, IssueStep, SnowflakeAssumption
  <2>2. CASE clock = last[p] /\ sequence[p] < MaxSequence /\ Issue(p, clock, sequence[p] + 1)
    <3>1. sequence[p] + 1 \in 0..MaxSequence
      BY <2>0, <2>2, SnowflakeAssumption
    <3>2. QED
      BY <2>0, <2>2, <3>1, IssueStep
  <2>3. CASE clock = last[p] /\ sequence[p] = MaxSequence /\ Waiting(p, "full")
    BY <2>0, <2>3, SnowflakeAssumption DEF Waiting, IdsInv, Untroubled, Running, Holds, Precedes,
       LeaseVars, Bounds, GeneratorOK, Unset
  <2>4. CASE Waiting(p, "back")
    BY <2>0, <2>4, SnowflakeAssumption DEF Waiting, IdsInv, Untroubled, Running, Holds, Precedes,
       LeaseVars, Bounds, GeneratorOK, Unset
  <2>5. QED
    BY <2>1, <2>2, <2>3, <2>4 DEF Generate
<1>5. LeaseOK' /\ BoundsOK' /\ LeaseKept'
  BY DEF Generate, Waiting, LeaseVars, Bounds, LeaseOK, BoundsOK, LeaseKept,
    NodeId, Unset, Holds
<1> QED
  BY <1>1, <1>2, <1>3, <1>4, <1>5

\* WaitOver (Snowflake.generate, _till_next_ms) keeps the invariant.
LEMMA WaitOverStep ==
    ASSUME SnowIInv, NEW p \in Process, WaitOver(p)
    PROVE  SnowIInv'
<1> USE DEF SnowIInv
<1>1. GeneratorOK'
  BY IssueStep, SnowflakeAssumption DEF WaitOver
<1>2. FlagsOK'
  BY SnowflakeAssumption DEF WaitOver, FlagsOK, Issue, LeaseVars, Bounds,
    Holds
<1>3. FreshInv'
  BY SnowflakeAssumption DEF WaitOver, FreshInv, LeaseOK, GeneratorOK,
    BoundsOK, Issue, LeaseVars, Bounds, Unset, NodeId, Id, Holds
<1>4. IdsInv'
  BY IssueStep, SnowflakeAssumption DEF WaitOver
<1>5. LeaseOK' /\ BoundsOK' /\ LeaseKept'
  BY DEF WaitOver, LeaseVars, Bounds, LeaseOK, BoundsOK, LeaseKept, NodeId,
    Unset, Holds
<1> QED
  BY <1>1, <1>2, <1>3, <1>4, <1>5

\* ClockForward (Snowflake._current_ms) keeps the invariant.
LEMMA ClockForwardStep ==
    ASSUME SnowIInv, ClockForward
    PROVE  SnowIInv'
<1> USE DEF SnowIInv
<1>1. BoundsOK'
  BY SnowflakeAssumption DEF ClockForward, BoundsOK, LeaseVars, Generator
<1>2. IdsInv'
  BY SnowflakeAssumption, SMTT(30) DEF ClockForward, IdsInv, LeaseOK, GeneratorOK,
    FlagsOK, BoundsOK, FreshInv, LeaseVars, Generator, Untroubled, Running,
    Holds, Precedes, NodeId, Unset, Id
<1>3. LeaseOK' /\ GeneratorOK' /\ FlagsOK' /\ FreshInv' /\ LeaseKept'
  BY DEF ClockForward, LeaseVars, Generator, LeaseOK, GeneratorOK, FlagsOK,
    FreshInv, LeaseKept, NodeId, Unset, Id, Holds
<1> QED
  BY <1>1, <1>2, <1>3

\* ClockBack (Snowflake.generate) keeps the invariant.
LEMMA ClockBackStep ==
    ASSUME SnowIInv, ClockBack
    PROVE  SnowIInv'
<1> USE DEF SnowIInv
<1>1. BoundsOK'
  BY SnowflakeAssumption DEF ClockBack, BoundsOK, LeaseVars, Generator
<1>2. IdsInv'
  BY SnowflakeAssumption DEF ClockBack, IdsInv, LeaseOK, GeneratorOK, FlagsOK,
    BoundsOK, FreshInv, LeaseVars, Generator, Untroubled, Running, Holds,
    Precedes, NodeId, Unset, Id
<1>3. LeaseOK' /\ GeneratorOK' /\ FlagsOK' /\ FreshInv' /\ LeaseKept'
  BY DEF ClockBack, LeaseVars, Generator, LeaseOK, GeneratorOK, FlagsOK,
    FreshInv, LeaseKept, NodeId, Unset, Id, Holds
<1> QED
  BY <1>1, <1>2, <1>3

\* The initial state satisfies the invariant.
LEMMA SnowInitInv == SnowInit => SnowIInv
<1> SUFFICES ASSUME SnowInit PROVE SnowIInv
  OBVIOUS
<1>1. LeaseOK
  BY SnowflakeAssumption DEF SnowInit, LeaseOK
<1>2. GeneratorOK
  BY SnowflakeAssumption DEF SnowInit, GeneratorOK
<1>3. FlagsOK
  BY DEF SnowInit, FlagsOK
<1>4. BoundsOK
  <2>1. clock = 0 /\ backs = 0 /\ stalls = 0 /\ starts = 0
    BY DEF SnowInit
  <2>2. QED
    BY <2>1, SnowflakeAssumption DEF BoundsOK
<1>5. FreshInv /\ LeaseKept /\ IdsInv
  BY DEF SnowInit, FreshInv, LeaseKept, IdsInv, Running
<1>6. QED
  BY <1>1, <1>2, <1>3, <1>4, <1>5 DEF SnowIInv

\* Every step keeps it.
LEMMA SnowNextInv == SnowIInv /\ [SnowNext]_snowVars => SnowIInv'
<1> SUFFICES ASSUME SnowIInv, [SnowNext]_snowVars PROVE SnowIInv'
  OBVIOUS
<1>1. CASE UNCHANGED snowVars
  BY <1>1 DEF snowVars, SnowIInv, LeaseOK, GeneratorOK, FlagsOK, BoundsOK, FreshInv, LeaseKept,
     IdsInv, Untroubled, Running, Holds, Precedes
<1>2. QED
  BY <1>1, AcquireNodeStep, HeartbeatStep, ReleaseStep, LeaseTickStep, StallStep, ResumeStep,
     RestartStep, GenerateStep, WaitOverStep, ClockForwardStep, ClockBackStep DEF SnowNext

\* The inductive invariant of the identifiers holds in every reachable state.
THEOREM SnowInductive == SnowSpec => []SnowIInv
BY SnowInitInv, SnowNextInv, PTL DEF SnowSpec

\* However many processes lease nodes, stall and start again, and whatever the
\* clock does, no identifier is handed out twice but for the causes named, and
\* a process that runs keeps its node until the first stall.
THEOREM SnowSafe == SnowSpec => []SnowInv
<1>1. SnowIInv => SnowInv
  <2> SUFFICES ASSUME SnowIInv PROVE SnowInv
    OBVIOUS
  <2>1. \A p \in Process : proc[p] # "off" => node[p] # Unset
    BY SnowflakeAssumption DEF SnowIInv, LeaseOK, NodeId, Unset
  <2>2. SnowTypeOK
    BY <2>1 DEF SnowIInv, SnowTypeOK, LeaseOK, GeneratorOK, FlagsOK, BoundsOK
  <2>3. IdsUnique
    <3>1. Untroubled => ~twice
      BY DEF SnowIInv, IdsInv
    <3>2. backs > 0 \/ backs = 0
      BY SnowflakeAssumption DEF SnowIInv, BoundsOK
    <3>3. QED
      BY <3>1, <3>2 DEF IdsUnique, Untroubled, SnowIInv, FlagsOK
  <2>4. QED
    BY <2>2, <2>3 DEF SnowIInv, SnowInv
<1>2. QED
  BY <1>1, SnowInductive, PTL
-----------------------------------------------------------------------------
(* One-time codes.                                                          *)

CaptchasSpec == CaptchasInit /\ [][CaptchasNext]_codeVars

\* The requests that have compared code c and have yet to delete it.
Holders(c) == {r \in Presenter : present[r] = c}

\* A code that is still under its key was handed out and never accepted.
SlotInv == \A s \in Slot : slot[s] # NoCode => slot[s] \in handed /\ used[slot[s]] = 0

\* A request about to delete its code finds that code, nothing, or a code that
\* was stored in between.
PresentInv ==
    \A r \in Presenter :
        present[r] # NoCode =>
            present[r] \in handed /\ slot[SlotOf[present[r]]] \in {NoCode, present[r]} \cup swept

\* A code that no two requests had compared at once has one holder at most, and
\* none once it was accepted.
HolderInv ==
    \A c \in Code \ doubled :
        /\ used[c] <= 1
        /\ \A q \in Presenter : present[q] = c => used[c] = 0
        /\ \A q, r \in Presenter : present[q] = c /\ present[r] = c => q = r

\* Each request that compared a code accepts it once.
RoomInv == \A c \in Code : used[c] + Cardinality(Holders(c)) <= Cardinality(Presenter)

\* The inductive invariant of the one-time codes.
CaptchasIInv ==
    CaptchasTypeOK /\ SlotInv /\ PresentInv /\ HolderInv /\ RoomInv /\ CodeStaysGood

\* The holders of a code are some of the requests.
LEMMA HoldersFinite ==
    ASSUME NEW f, NEW c
    PROVE  LET H == {r \in Presenter : f[r] = c}
           IN  /\ IsFiniteSet(H) /\ Cardinality(H) \in Nat
               /\ Cardinality(Presenter) \in Nat /\ Cardinality(H) <= Cardinality(Presenter)
BY FS_Subset, FS_CardinalityType, CaptchasAssumption

\* A request that gives its code up, used or not.
LEMMA HolderLeaves ==
    ASSUME CaptchasTypeOK, NEW r \in Presenter, present[r] # NoCode,
           present' = [present EXCEPT ![r] = NoCode], NEW c \in Code
    PROVE  /\ Cardinality(Holders(c)) \in Nat
           /\ Cardinality(Holders(c)') =
                 IF c = present[r] THEN Cardinality(Holders(c)) - 1 ELSE Cardinality(Holders(c))
<1>1. IsFiniteSet(Holders(c)) /\ Cardinality(Holders(c)) \in Nat
  BY HoldersFinite DEF Holders
<1>2. Holders(c)' = Holders(c) \ {r}
  BY CaptchasAssumption DEF Holders, CaptchasTypeOK
<1>3. r \in Holders(c) <=> c = present[r]
  BY DEF Holders
<1>4. QED
  BY <1>1, <1>2, <1>3, FS_RemoveElement

\* StoreCode (get_captcha) keeps the invariant.
LEMMA StoreCodeStep ==
    ASSUME CaptchasIInv, NEW c \in Code, StoreCode(c)
    PROVE  CaptchasIInv'
<1> USE DEF CaptchasIInv
<1>1. CaptchasTypeOK'
  BY CaptchasAssumption DEF StoreCode, CaptchasTypeOK, SlotInv, Dropping
<1>2. SlotInv'
  BY CaptchasAssumption DEF StoreCode, SlotInv, CaptchasTypeOK, Dropping
<1>3. PresentInv'
  BY CaptchasAssumption DEF StoreCode, PresentInv, CaptchasTypeOK, SlotInv,
    Dropping
<1>4. CodeStaysGood'
  BY CaptchasAssumption DEF StoreCode, CodeStaysGood, CaptchasTypeOK, SlotInv,
    PresentInv, Dropping
<1>5. HolderInv' /\ RoomInv'
  BY DEF StoreCode, HolderInv, RoomInv, Holders
<1> QED
  BY <1>1, <1>2, <1>3, <1>4, <1>5

\* CodeExpires (get_captcha) keeps the invariant.
LEMMA CodeExpiresStep ==
    ASSUME CaptchasIInv, NEW s \in Slot, CodeExpires(s)
    PROVE  CaptchasIInv'
<1> USE DEF CaptchasIInv
<1>1. CaptchasTypeOK'
  BY CaptchasAssumption DEF CodeExpires, CaptchasTypeOK, SlotInv
<1>2. SlotInv'
  BY CaptchasAssumption DEF CodeExpires, SlotInv, CaptchasTypeOK
<1>3. PresentInv'
  BY CaptchasAssumption DEF CodeExpires, PresentInv, CaptchasTypeOK, SlotInv
<1>4. CodeStaysGood'
  BY CaptchasAssumption DEF CodeExpires, CodeStaysGood, CaptchasTypeOK,
    SlotInv, PresentInv
<1>5. HolderInv' /\ RoomInv'
  BY DEF CodeExpires, HolderInv, RoomInv, Holders
<1> QED
  BY <1>1, <1>2, <1>3, <1>4, <1>5

\* PresentCode (AuthService.login) keeps the invariant.
LEMMA PresentCodeStep ==
    ASSUME CaptchasIInv, NEW r \in Presenter, NEW c \in Code, PresentCode(r,
           c)
    PROVE  CaptchasIInv'
<1> USE DEF CaptchasIInv
<1>1. CaptchasTypeOK'
  BY CaptchasAssumption DEF PresentCode, CaptchasTypeOK, SlotInv
<1>2. PresentInv'
  BY CaptchasAssumption DEF PresentCode, PresentInv, CaptchasTypeOK, SlotInv
<1>3. HolderInv'
  BY CaptchasAssumption DEF PresentCode, HolderInv, CaptchasTypeOK, SlotInv
<1>4. RoomInv'
  <2> SUFFICES ASSUME NEW d \in Code
               PROVE  used[d] + Cardinality(Holders(d)') <= Cardinality(Presenter)
    BY DEF RoomInv, PresentCode, Holders
  <2>1. CASE d = c
    <3>1. used[c] = 0
      BY CaptchasAssumption DEF PresentCode, SlotInv
    <3>2. Cardinality(Holders(d)') \in Nat /\ Cardinality(Holders(d)') <= Cardinality(Presenter)
      BY HoldersFinite DEF Holders
    <3>3. QED
      BY <2>1, <3>1, <3>2
  <2>2. CASE d # c
    <3>1. Holders(d)' = Holders(d)
      BY <2>2, CaptchasAssumption DEF PresentCode, Holders, CaptchasTypeOK
    <3>2. QED
      BY <3>1 DEF RoomInv
  <2>3. QED
    BY <2>1, <2>2
<1>5. SlotInv' /\ CodeStaysGood'
  BY DEF PresentCode, SlotInv, CodeStaysGood
<1> QED
  BY <1>1, <1>2, <1>3, <1>4, <1>5

\* DropCode (UserService.update_email) keeps the invariant.
LEMMA DropCodeStep ==
    ASSUME CaptchasIInv, NEW r \in Presenter, DropCode(r)
    PROVE  CaptchasIInv'
<1> USE DEF CaptchasIInv
<1>1. CaptchasTypeOK'
  <2> DEFINE d == present[r]
  <2>1. d \in Code /\ d \in handed
    BY DEF DropCode, CaptchasTypeOK, PresentInv
  <2>2. used[d] + 1 \in 0..Cardinality(Presenter)
    <3>1. present' = [present EXCEPT ![r] = NoCode] /\ d # NoCode
      BY DEF DropCode
    <3>2. used[d] + Cardinality(Holders(d)) <= Cardinality(Presenter) /\ used[d] \in Nat
      BY <2>1 DEF RoomInv, CaptchasTypeOK
    <3>3. IsFiniteSet(Holders(d)) /\ Cardinality(Holders(d)) \in Nat /\ Cardinality(Presenter) \in Nat
      BY HoldersFinite DEF Holders
    <3>4. r \in Holders(d)
      BY DEF Holders
    <3>5. Cardinality(Holders(d)) # 0
      BY <3>3, <3>4, FS_EmptySet
    <3>6. QED
      BY <3>2, <3>3, <3>5
  <2>3. used' \in [Code -> 0..Cardinality(Presenter)] /\ \A e \in Code \ handed' : used'[e] = 0
    BY <2>1, <2>2 DEF DropCode, CaptchasTypeOK
  <2>4. /\ slot' \in [Slot -> Code \cup {NoCode}]
        /\ \A s \in Slot : slot'[s] # NoCode => SlotOf[slot'[s]] = s
    BY <2>1, CaptchasAssumption DEF DropCode, CaptchasTypeOK
  <2>5. present' \in [Presenter -> Code \cup {NoCode}]
    BY DEF DropCode, CaptchasTypeOK
  <2>6. QED
    BY <2>3, <2>4, <2>5 DEF DropCode, CaptchasTypeOK
<1>2. SlotInv'
  BY CaptchasAssumption DEF DropCode, SlotInv, CaptchasTypeOK
<1>3. PresentInv'
  BY CaptchasAssumption DEF DropCode, PresentInv, CaptchasTypeOK, SlotInv
<1>4. HolderInv'
  BY CaptchasAssumption DEF DropCode, HolderInv, CaptchasTypeOK, SlotInv
<1>5. RoomInv'
  <2>1. present[r] # NoCode /\ present' = [present EXCEPT ![r] = NoCode]
        /\ used' = [used EXCEPT ![present[r]] = @ + 1]
    BY DEF DropCode
  <2>2. Cardinality(Presenter) \in Nat
    BY FS_CardinalityType, CaptchasAssumption
  <2>3. ASSUME NEW d \in Code PROVE used'[d] + Cardinality(Holders(d)') <= Cardinality(Presenter)
    <3>1. /\ Cardinality(Holders(d)) \in Nat
          /\ Cardinality(Holders(d)') =
                IF d = present[r] THEN Cardinality(Holders(d)) - 1 ELSE Cardinality(Holders(d))
      BY <2>1, HolderLeaves
    <3>2. used[d] \in Nat /\ used[d] + Cardinality(Holders(d)) <= Cardinality(Presenter)
      BY DEF RoomInv, CaptchasTypeOK
    <3>3. used'[d] = IF d = present[r] THEN used[d] + 1 ELSE used[d]
      BY <2>1 DEF CaptchasTypeOK
    <3>4. QED
      BY <2>2, <3>1, <3>2, <3>3
  <2>4. QED
    BY <2>3 DEF RoomInv
<1>6. CodeStaysGood'
  BY CaptchasAssumption DEF DropCode, CodeStaysGood, CaptchasTypeOK, SlotInv,
    PresentInv
<1> QED
  BY <1>1, <1>2, <1>3, <1>4, <1>5, <1>6

\* GiveUp (UserService.update_email) keeps the invariant.
LEMMA GiveUpStep ==
    ASSUME CaptchasIInv, NEW r \in Presenter, GiveUp(r)
    PROVE  CaptchasIInv'
<1> USE DEF CaptchasIInv
<1>1. CaptchasTypeOK'
  BY CaptchasAssumption DEF GiveUp, CaptchasTypeOK, SlotInv
<1>2. PresentInv'
  BY CaptchasAssumption DEF GiveUp, PresentInv, CaptchasTypeOK, SlotInv
<1>3. HolderInv'
  BY CaptchasAssumption DEF GiveUp, HolderInv, CaptchasTypeOK, SlotInv
<1>4. RoomInv'
  <2>1. present[r] # NoCode /\ present' = [present EXCEPT ![r] = NoCode] /\ used' = used
    BY CaptchasAssumption DEF GiveUp
  <2>2. Cardinality(Presenter) \in Nat
    BY FS_CardinalityType, CaptchasAssumption
  <2>3. ASSUME NEW d \in Code PROVE used'[d] + Cardinality(Holders(d)') <= Cardinality(Presenter)
    <3>1. /\ Cardinality(Holders(d)) \in Nat
          /\ Cardinality(Holders(d)') =
                IF d = present[r] THEN Cardinality(Holders(d)) - 1 ELSE Cardinality(Holders(d))
      BY <2>1, HolderLeaves
    <3>2. used[d] \in Nat /\ used[d] + Cardinality(Holders(d)) <= Cardinality(Presenter)
      BY DEF RoomInv, CaptchasTypeOK
    <3>3. QED
      BY <2>1, <2>2, <3>1, <3>2
  <2>4. QED
    BY <2>3 DEF RoomInv
<1>5. SlotInv' /\ CodeStaysGood'
  BY DEF GiveUp, SlotInv, CodeStaysGood
<1> QED
  BY <1>1, <1>2, <1>3, <1>4, <1>5

\* The initial state satisfies the invariant.
LEMMA CaptchasInitInv == CaptchasInit => CaptchasIInv
<1> SUFFICES ASSUME CaptchasInit PROVE CaptchasIInv
  OBVIOUS
<1>1. Cardinality(Presenter) \in Nat
  BY FS_CardinalityType, CaptchasAssumption
<1>2. CaptchasTypeOK /\ SlotInv /\ PresentInv /\ HolderInv /\ CodeStaysGood
  BY <1>1, CaptchasAssumption
     DEF CaptchasInit, CaptchasTypeOK, SlotInv, PresentInv, HolderInv, CodeStaysGood
<1>3. RoomInv
  <2>1. ASSUME NEW c \in Code PROVE used[c] + Cardinality(Holders(c)) <= Cardinality(Presenter)
    <3>1. used[c] = 0
      BY DEF CaptchasInit
    <3>2. /\ Cardinality(Holders(c)) \in Nat
          /\ Cardinality(Holders(c)) <= Cardinality(Presenter)
      BY HoldersFinite DEF Holders
    <3>3. QED
      BY <3>1, <3>2
  <2>2. QED
    BY <2>1 DEF RoomInv
<1>4. QED
  BY <1>2, <1>3 DEF CaptchasIInv

\* Every step keeps it.
LEMMA CaptchasNextInv == CaptchasIInv /\ [CaptchasNext]_codeVars => CaptchasIInv'
<1> SUFFICES ASSUME CaptchasIInv, [CaptchasNext]_codeVars PROVE CaptchasIInv'
  OBVIOUS
<1>1. CASE UNCHANGED codeVars
  BY <1>1 DEF codeVars, CaptchasIInv, CaptchasTypeOK, SlotInv, PresentInv, HolderInv, RoomInv,
     Holders, CodeStaysGood
<1>2. QED
  BY <1>1, StoreCodeStep, CodeExpiresStep, PresentCodeStep, DropCodeStep, GiveUpStep
     DEF CaptchasNext, GetCaptcha, SendEmailCaptcha

\* The inductive invariant of the one-time codes holds in every reachable state.
THEOREM CaptchasInductive == CaptchasSpec => []CaptchasIInv
BY CaptchasInitInv, CaptchasNextInv, PTL DEF CaptchasSpec

\* However codes are stored, replaced, presented and deleted, one opens a single
\* login unless two requests had compared it at once, and is good until then.
THEOREM CaptchasSafe == CaptchasSpec => []CaptchasInv
<1>1. CaptchasIInv => CaptchasInv
  BY DEF CaptchasIInv, CaptchasInv, CodeUsedOnce, HolderInv
<1>2. QED
  BY <1>1, CaptchasInductive, PTL
-----------------------------------------------------------------------------
(* Task results.                                                            *)

ResultsSpec == ResultsInit /\ [][ResultsNext]_resultVars

\* An execution whose outcome is not stored yet.
Ending(e) == exec[e].pc \in {"select", "write"} /\ exec[e].status \in Outcomes

\* What an execution that has attempts left stores.
AttemptInv ==
    \A e \in Execution :
        /\ exec[e].pc = "new" => exec[e].status = "STARTED"
        /\ exec[e].pc \in {"new", "select", "write"} => exec[e].attempts < MaxAttempts

\* As long as no record of the task was deleted and no worker killed: a record
\* that was found is there, every execution but the first stores find one, and
\* one that says STARTED has an execution whose outcome is still to come.
RecordInv ==
    \A e \in Execution :
        LET t == TaskOf[e] IN
        t \notin removed \cup cut =>
            /\ exec[e].pc = "write" /\ exec[e].found => record[t] # NoResult
            /\ exec[e].pc \in {"running", "over"} \/ Ending(e) => record[t] # NoResult
            /\ exec[e].pc = "write" /\ Ending(e) => exec[e].found

StartedInv ==
    \A t \in TaskId \ (removed \cup cut) :
        record[t] = "STARTED" =>
            \E e \in Execution : TaskOf[e] = t /\ (exec[e].pc = "running" \/ Ending(e))

\* The inductive invariant of the task results.
ResultsIInv == ResultsTypeOK /\ AttemptInv /\ RecordInv /\ StartedInv

\* StartExecution (init_celery) keeps the invariant.
LEMMA StartExecutionStep ==
    ASSUME ResultsIInv, NEW e \in Execution, StartExecution(e)
    PROVE  ResultsIInv'
<1> USE DEF ResultsIInv
<1>1. ResultsTypeOK'
  BY TaskResultsAssumption DEF StartExecution, ResultsTypeOK, ExecAt,
    NoResult, Outcomes, ExecState
<1>2. AttemptInv'
  BY TaskResultsAssumption DEF StartExecution, AttemptInv, ResultsTypeOK,
    ExecAt, NoResult, Outcomes, ExecState
<1>3. RecordInv'
  BY TaskResultsAssumption DEF StartExecution, RecordInv, ResultsTypeOK,
    AttemptInv, ExecAt, NoResult, Ending, Outcomes, ExecState
<1>4. StartedInv'
  BY TaskResultsAssumption DEF StartExecution, StartedInv, ResultsTypeOK,
    AttemptInv, RecordInv, ExecAt, Ending, NoResult, Outcomes, ExecState
<1> QED
  BY <1>1, <1>2, <1>3, <1>4

\* EndExecution (DatabaseBackend._store_result) keeps the invariant.
LEMMA EndExecutionStep ==
    ASSUME ResultsIInv, NEW e \in Execution, EndExecution(e)
    PROVE  ResultsIInv'
<1> USE DEF ResultsIInv
<1>1. ResultsTypeOK'
  BY TaskResultsAssumption DEF EndExecution, ResultsTypeOK, ExecAt, Outcomes,
    NoResult, ExecState
<1>2. AttemptInv'
  BY TaskResultsAssumption DEF EndExecution, AttemptInv, ResultsTypeOK,
    ExecAt, Outcomes, NoResult, ExecState
<1>3. RecordInv'
  BY TaskResultsAssumption DEF EndExecution, RecordInv, ResultsTypeOK,
    AttemptInv, ExecAt, Outcomes, NoResult, Ending, ExecState
<1>4. StartedInv'
  BY TaskResultsAssumption DEF EndExecution, StartedInv, ResultsTypeOK,
    AttemptInv, RecordInv, ExecAt, Outcomes, Ending, NoResult, ExecState
<1> QED
  BY <1>1, <1>2, <1>3, <1>4

\* SelectRow (DatabaseBackend._store_result) keeps the invariant.
LEMMA SelectRowStep ==
    ASSUME ResultsIInv, NEW e \in Execution, SelectRow(e)
    PROVE  ResultsIInv'
<1> USE DEF ResultsIInv
<1>1. ResultsTypeOK'
  BY TaskResultsAssumption, ZenonT(60) DEF SelectRow, ResultsTypeOK, ExecAt, NoResult,
    Outcomes, ExecState
<1>2. AttemptInv'
  BY TaskResultsAssumption DEF SelectRow, AttemptInv, ResultsTypeOK, ExecAt,
    NoResult, Outcomes, ExecState
<1>3. RecordInv'
  BY TaskResultsAssumption DEF SelectRow, RecordInv, ResultsTypeOK,
    AttemptInv, ExecAt, NoResult, Ending, Outcomes, ExecState
<1>4. StartedInv'
  BY TaskResultsAssumption DEF SelectRow, StartedInv, ResultsTypeOK,
    AttemptInv, RecordInv, ExecAt, NoResult, Ending, Outcomes, ExecState
<1> QED
  BY <1>1, <1>2, <1>3, <1>4

\* StoreResult (DatabaseBackend._update_result) keeps the invariant.
LEMMA StoreResultStep ==
    ASSUME ResultsIInv, NEW e \in Execution, StoreResult(e)
    PROVE  ResultsIInv'
<1> USE DEF ResultsIInv
<1>1. ResultsTypeOK'
  BY TaskResultsAssumption, ZenonT(60) DEF StoreResult, ResultsTypeOK, ExecAt, Duplicated,
    NextPc, NoResult, Outcomes, ExecState
<1>2. AttemptInv'
  BY TaskResultsAssumption DEF StoreResult, AttemptInv, ResultsTypeOK, ExecAt,
    Duplicated, NextPc, NoResult, Outcomes, ExecState
<1>3. RecordInv'
  BY TaskResultsAssumption, ZenonT(60) DEF StoreResult, RecordInv, ResultsTypeOK,
    AttemptInv, ExecAt, Duplicated, NextPc, NoResult, Ending, Outcomes,
    ExecState
<1>4. StartedInv'
  BY TaskResultsAssumption DEF StoreResult, StartedInv, ResultsTypeOK,
    AttemptInv, RecordInv, ExecAt, Duplicated, NextPc, Ending, NoResult,
    Outcomes, ExecState
<1> QED
  BY <1>1, <1>2, <1>3, <1>4

\* StoreRefused (DatabaseBackend._store_result) keeps the invariant.
LEMMA StoreRefusedStep ==
    ASSUME ResultsIInv, NEW e \in Execution, StoreRefused(e)
    PROVE  ResultsIInv'
<1> USE DEF ResultsIInv
<1>1. ResultsTypeOK'
  BY TaskResultsAssumption DEF StoreRefused, ResultsTypeOK, ExecAt,
    Duplicated, NextPc, NoResult, Outcomes, ExecState
<1>2. AttemptInv'
  BY TaskResultsAssumption DEF StoreRefused, AttemptInv, ResultsTypeOK,
    ExecAt, Duplicated, NextPc, NoResult, Outcomes, ExecState
<1>3. RecordInv'
  BY TaskResultsAssumption DEF StoreRefused, RecordInv, ResultsTypeOK,
    AttemptInv, ExecAt, Duplicated, NextPc, NoResult, Ending, Outcomes,
    ExecState
<1>4. StartedInv'
  BY TaskResultsAssumption DEF StoreRefused, StartedInv, ResultsTypeOK,
    AttemptInv, RecordInv, ExecAt, Duplicated, NextPc, Ending, NoResult,
    Outcomes, ExecState
<1> QED
  BY <1>1, <1>2, <1>3, <1>4

\* A worker is killed in an execution.
LEMMA KillWorkerStep ==
    ASSUME ResultsIInv, NEW e \in Execution, KillWorker(e)
    PROVE  ResultsIInv'
<1> USE DEF ResultsIInv
<1>1. ResultsTypeOK'
  <2>1. kills' \in 0..MaxKills
    BY TaskResultsAssumption DEF KillWorker, ResultsTypeOK
  <2>2. exec' \in [Execution -> ExecState]
    BY DEF KillWorker, ResultsTypeOK, ExecState
  <2>3. cut' \subseteq TaskId
    BY TaskResultsAssumption DEF KillWorker, ResultsTypeOK
  <2>4. \A f \in Execution : exec'[f].pc = "running" => exec'[f].status = "STARTED"
    BY DEF KillWorker, ResultsTypeOK, ExecState
  <2>5. QED
    BY <2>1, <2>2, <2>3, <2>4 DEF KillWorker, ResultsTypeOK
<1>2. AttemptInv'
  BY TaskResultsAssumption DEF KillWorker, AttemptInv, ResultsTypeOK,
    NoResult, Outcomes, ExecState
<1>3. RecordInv'
  BY TaskResultsAssumption DEF KillWorker, RecordInv, ResultsTypeOK,
    AttemptInv, NoResult, Ending, Outcomes, ExecState
<1>4. StartedInv'
  BY TaskResultsAssumption DEF KillWorker, StartedInv, ResultsTypeOK,
    AttemptInv, RecordInv, Ending, NoResult, Outcomes, ExecState
<1> QED
  BY <1>1, <1>2, <1>3, <1>4

\* DeleteResult (DatabaseBackend._forget, cleanup) keeps the invariant.
LEMMA DeleteResultStep ==
    ASSUME ResultsIInv, NEW t \in TaskId, DeleteResult(t)
    PROVE  ResultsIInv'
<1> USE DEF ResultsIInv
<1>1. ResultsTypeOK'
  BY TaskResultsAssumption DEF DeleteResult, ResultsTypeOK, NoResult,
    Outcomes, ExecState
<1>2. RecordInv'
  BY TaskResultsAssumption DEF DeleteResult, RecordInv, ResultsTypeOK,
    AttemptInv, NoResult, Ending, Outcomes, ExecState
<1>3. StartedInv'
  BY TaskResultsAssumption DEF DeleteResult, StartedInv, ResultsTypeOK,
    AttemptInv, RecordInv, NoResult, Ending, Outcomes, ExecState
<1>4. AttemptInv'
  BY DEF DeleteResult, AttemptInv
<1> QED
  BY <1>1, <1>2, <1>3, <1>4

\* The initial state satisfies the invariant.
LEMMA ResultsInitInv == ResultsInit => ResultsIInv
BY TaskResultsAssumption
   DEF ResultsInit, ResultsIInv, ResultsTypeOK, ExecState, AttemptInv, RecordInv, StartedInv,
       Ending, Outcomes, NoResult

\* Every step keeps it.
LEMMA ResultsNextInv == ResultsIInv /\ [ResultsNext]_resultVars => ResultsIInv'
<1> SUFFICES ASSUME ResultsIInv, [ResultsNext]_resultVars PROVE ResultsIInv'
  OBVIOUS
<1>1. CASE UNCHANGED resultVars
  BY <1>1 DEF resultVars, ResultsIInv, ResultsTypeOK, AttemptInv, RecordInv, StartedInv, Ending
<1>2. QED
  BY <1>1, StartExecutionStep, EndExecutionStep, SelectRowStep, StoreResultStep,
     StoreRefusedStep, KillWorkerStep, DeleteResultStep DEF ResultsNext

\* The inductive invariant of the task results holds in every reachable state.
THEOREM ResultsInductive == ResultsSpec => []ResultsIInv
BY ResultsInitInv, ResultsNextInv, PTL DEF ResultsSpec

\* In whatever order the executions of a task store what they have to store, its
\* record shows an outcome once they are over, unless a worker was killed or the
\* record deleted.
THEOREM ResultsSafe == ResultsSpec => []ResultsInv
<1>1. ResultsIInv => ResultsInv
  <2> SUFFICES ASSUME ResultsIInv,
                      NEW t \in TaskId \ (removed \cup cut), RunsOf(t) # {}, AllOver(t)
               PROVE  record[t] \in Outcomes
    BY DEF ResultsIInv, ResultsInv, OutcomeShown
  <2>1. PICK e \in Execution : TaskOf[e] = t /\ exec[e].pc = "over"
    BY DEF RunsOf, AllOver, ExecAt
  <2>2. record[t] # NoResult
    BY <2>1 DEF ResultsIInv, RecordInv
  <2>3. record[t] # "STARTED"
    BY DEF ResultsIInv, StartedInv, RunsOf, AllOver, ExecAt, Ending
  <2>4. QED
    BY <2>2, <2>3 DEF ResultsIInv, ResultsTypeOK
<1>2. QED
  BY <1>1, ResultsInductive, PTL
-----------------------------------------------------------------------------
(* The life of a server process.                                            *)

LifespanSpec == LifespanInit /\ [][LifespanNext]_lifeVars

SeqsOK ==
    /\ ordered \in Seq(Addon) /\ visiting \in Seq(Addon)
    /\ hooks \in Seq(Addon) /\ opened \in Seq(Addon) /\ hooked \in Nat

\* The types and the lists, by what they hang on.
PartsOK ==
    /\ enabled \subseteq Addon /\ needs \in [Addon -> SUBSET Addon]
    /\ stage \in Stages /\ core \subseteq CoreParts /\ halted \subseteq {"init", "release"}

ListsOK ==
    /\ Elems(ordered) \subseteq enabled /\ Once(ordered)
    /\ Elems(visiting) \subseteq enabled \ Elems(ordered) /\ Once(visiting)

HooksOK ==
    /\ hooked \in 0..Len(ordered) /\ Elems(hooks) \subseteq {ordered[i] : i \in 1..hooked}
    /\ Once(hooks)

OpenOK == Len(opened) <= Len(hooks) /\ \A i \in 1..Len(opened) : opened[i] = hooks[i]

\* The list is sorted at every step, and the search follows dependencies.
SortInv ==
    /\ \A i \in 1..Len(ordered) : needs[ordered[i]] \subseteq {ordered[j] : j \in 1..(i - 1)}
    /\ \A i \in 1..(Len(visiting) - 1) : visiting[i + 1] \in needs[visiting[i]]

\* Lifespans are registered in the order of the list.
HookInv ==
    \A i, j \in 1..Len(hooks) : i < j =>
        \A a, b \in 1..hooked : hooks[i] = ordered[a] /\ hooks[j] = ordered[b] => a < b

\* What is open at each stage.
StageInv ==
    /\ stage \in {"sorting", "refused"} => hooked = 0 /\ hooks = <<>>
    /\ stage \in {"sorting", "refused", "hooks"} => core = {}
    /\ stage \in {"plugins", "serving"} => core = CoreParts
    /\ stage # "down" => halted = {}
    /\ opened # <<>> => stage \in {"plugins", "serving", "closing"} /\ core = CoreParts

\* The inductive invariant of the life of a process.
LifespanIInv ==
    /\ SeqsOK /\ PartsOK /\ ListsOK /\ HooksOK /\ OpenOK /\ SortInv /\ HookInv /\ StageInv
    /\ RefusedWithCause /\ ClosedAtEnd

\* What appending to a list, and taking its end away, does.
LEMMA AppendElems ==
    ASSUME NEW S, NEW s \in Seq(S), NEW x \in S
    PROVE  /\ Append(s, x) \in Seq(S) /\ Len(Append(s, x)) = Len(s) + 1 /\ Len(s) \in Nat
           /\ \A i \in 1..Len(s) : Append(s, x)[i] = s[i]
           /\ Append(s, x)[Len(s) + 1] = x
           /\ Elems(s) = {s[i] : i \in 1..Len(s)}
           /\ Elems(Append(s, x)) = Elems(s) \cup {x}
           /\ Once(s) /\ x \notin Elems(s) => Once(Append(s, x))
<1>1. /\ Append(s, x) \in Seq(S) /\ Len(Append(s, x)) = Len(s) + 1 /\ Len(s) \in Nat
      /\ \A i \in 1..Len(s) : Append(s, x)[i] = s[i]
      /\ Append(s, x)[Len(s) + 1] = x
      /\ DOMAIN s = 1..Len(s) /\ DOMAIN Append(s, x) = 1..(Len(s) + 1)
  OBVIOUS
<1>2. Elems(Append(s, x)) = Elems(s) \cup {x}
  BY <1>1 DEF Elems
<1>3. Once(s) /\ x \notin Elems(s) => Once(Append(s, x))
  BY <1>1 DEF Elems, Once
<1>4. QED
  BY <1>1, <1>2, <1>3 DEF Elems

\* What popping the last element of a sequence leaves.
LEMMA PopElems ==
    ASSUME NEW S, NEW s \in Seq(S), s # <<>>
    PROVE  /\ Pop(s) \in Seq(S) /\ Len(s) \in Nat \ {0} /\ Len(Pop(s)) = Len(s) - 1
           /\ \A i \in 1..(Len(s) - 1) : Pop(s)[i] = s[i]
           /\ Top(s) \in S /\ Top(s) \in Elems(s) /\ Elems(Pop(s)) \subseteq Elems(s)
           /\ Elems(s) = {s[i] : i \in 1..Len(s)}
           /\ Once(s) => Once(Pop(s)) /\ Top(s) \notin Elems(Pop(s))
<1>1. /\ Pop(s) \in Seq(S) /\ Len(s) \in Nat \ {0} /\ Len(Pop(s)) = Len(s) - 1
      /\ \A i \in 1..(Len(s) - 1) : Pop(s)[i] = s[i]
      /\ DOMAIN s = 1..Len(s) /\ DOMAIN Pop(s) = 1..(Len(s) - 1)
  BY DEF Pop
<1>2. Top(s) = s[Len(s)] /\ Len(s) \in 1..Len(s)
  BY <1>1 DEF Top
<1>3. Elems(Pop(s)) \subseteq Elems(s) /\ Top(s) \in Elems(s) /\ Top(s) \in S
  BY <1>1, <1>2 DEF Elems
<1>4. Once(s) => Once(Pop(s)) /\ Top(s) \notin Elems(Pop(s))
  BY <1>1, <1>2 DEF Elems, Once
<1>5. QED
  BY <1>1, <1>3, <1>4 DEF Elems


\* What no step changes stays true.
LEMMA LifeKept ==
    /\ SeqsOK /\ UNCHANGED <<ordered, visiting, hooks, opened, hooked>> => SeqsOK'
    /\ PartsOK /\ UNCHANGED <<enabled, needs, stage, core, halted>> => PartsOK'
    /\ ListsOK /\ UNCHANGED <<enabled, ordered, visiting>> => ListsOK'
    /\ HooksOK /\ UNCHANGED <<hooked, hooks, ordered>> => HooksOK'
    /\ OpenOK /\ UNCHANGED <<opened, hooks>> => OpenOK'
    /\ SortInv /\ UNCHANGED <<needs, ordered, visiting>> => SortInv'
    /\ HookInv /\ UNCHANGED <<hooks, hooked, ordered>> => HookInv'
    /\ StageInv /\ UNCHANGED <<stage, hooked, hooks, core, halted, opened>> => StageInv'
    /\ RefusedWithCause /\ UNCHANGED <<stage, enabled, needs>> => RefusedWithCause'
    /\ ClosedAtEnd /\ UNCHANGED <<stage, opened, halted, core>> => ClosedAtEnd'
<1>1. SeqsOK /\ UNCHANGED <<ordered, visiting, hooks, opened, hooked>> => SeqsOK'
  BY DEF SeqsOK
<1>2. PartsOK /\ UNCHANGED <<enabled, needs, stage, core, halted>> => PartsOK'
  BY DEF PartsOK
<1>3. ListsOK /\ UNCHANGED <<enabled, ordered, visiting>> => ListsOK'
  BY DEF ListsOK, Elems, Once
<1>4. HooksOK /\ UNCHANGED <<hooked, hooks, ordered>> => HooksOK'
  BY DEF HooksOK, Elems, Once
<1>5. OpenOK /\ UNCHANGED <<opened, hooks>> => OpenOK'
  BY DEF OpenOK
<1>6. SortInv /\ UNCHANGED <<needs, ordered, visiting>> => SortInv'
  BY DEF SortInv
<1>7. HookInv /\ UNCHANGED <<hooks, hooked, ordered>> => HookInv'
  BY DEF HookInv
<1>8. StageInv /\ UNCHANGED <<stage, hooked, hooks, core, halted, opened>> => StageInv'
  BY DEF StageInv
<1>9. RefusedWithCause /\ UNCHANGED <<stage, enabled, needs>> => RefusedWithCause'
  BY DEF RefusedWithCause
<1>10. ClosedAtEnd /\ UNCHANGED <<stage, opened, halted, core>> => ClosedAtEnd'
  BY DEF ClosedAtEnd
<1>11. QED
  BY <1>1, <1>2, <1>3, <1>4, <1>5, <1>6, <1>7, <1>8, <1>9, <1>10

\* Visit (resolve_plugin_order) keeps the invariant.
LEMMA VisitStep ==
    ASSUME LifespanIInv, NEW p \in Addon, Visit(p)
    PROVE  LifespanIInv'
<1> USE DEF LifespanIInv
<1>1. SeqsOK'
  BY DEF Visit, SeqsOK
<1>2. ListsOK'
  <2>1. p \in enabled \ Elems(ordered) /\ p \notin Elems(visiting) /\ visiting \in Seq(Addon)
    BY DEF Visit, SeqsOK
  <2>2. visiting' = Append(visiting, p) /\ ordered' = ordered /\ enabled' = enabled
    BY DEF Visit
  <2>3. Elems(Append(visiting, p)) = Elems(visiting) \cup {p} /\ Once(Append(visiting, p))
    BY <2>1, AppendElems DEF ListsOK
  <2>4. Elems(visiting') = Elems(visiting) \cup {p} /\ Once(visiting') /\ Elems(ordered') = Elems(ordered)
    BY <2>2, <2>3
  <2>5. /\ Elems(ordered') \subseteq enabled' /\ Once(ordered')
        /\ Elems(visiting') \subseteq enabled' \ Elems(ordered') /\ Once(visiting')
    BY <2>1, <2>2, <2>4 DEF ListsOK, Once
  <2>6. QED
    BY <2>5 DEF ListsOK, Elems, Once
<1>3. SortInv'
  <2>1. /\ visiting \in Seq(Addon) /\ visiting' = Append(visiting, p)
        /\ visiting # <<>> => p \in needs[visiting[Len(visiting)]]
        /\ ordered' = ordered /\ needs' = needs
    BY DEF Visit, SeqsOK, Top
  <2>2. /\ Len(visiting) \in Nat /\ Len(visiting') = Len(visiting) + 1
        /\ visiting'[Len(visiting) + 1] = p /\ \A i \in 1..Len(visiting) : visiting'[i] = visiting[i]
    BY <2>1, AppendElems
  <2>3. ASSUME NEW i \in 1..(Len(visiting') - 1) PROVE visiting'[i + 1] \in needs[visiting'[i]]
    <3>1. CASE i = Len(visiting)
      BY <2>1, <2>2, <3>1
    <3>2. CASE i # Len(visiting)
      BY <2>2, <3>2 DEF SortInv
    <3>3. QED
      BY <3>1, <3>2
  <2>4. /\ \A i \in 1..Len(ordered) : needs[ordered[i]] \subseteq {ordered[j] : j \in 1..(i - 1)}
        /\ \A i \in 1..(Len(visiting') - 1) : visiting'[i + 1] \in needs[visiting'[i]]
    BY <2>3 DEF SortInv
  <2>5. \A i \in 1..Len(ordered') : needs'[ordered'[i]] \subseteq {ordered'[j] : j \in 1..(i - 1)}
    <3>1. ordered' = ordered /\ needs' = needs
      BY <2>1
    <3>2. ASSUME NEW i \in 1..Len(ordered)
          PROVE  {ordered'[j] : j \in 1..(i - 1)} = {ordered[j] : j \in 1..(i - 1)}
      BY <3>1
    <3>3. QED
      BY <2>4, <3>1, <3>2
  <2>6. \A i \in 1..(Len(visiting') - 1) : visiting'[i + 1] \in needs'[visiting'[i]]
    BY <2>1, <2>4
  <2>7. QED
    BY <2>5, <2>6 DEF SortInv
<1>4. PartsOK' /\ HooksOK' /\ OpenOK' /\ HookInv' /\ StageInv' /\ RefusedWithCause' /\ ClosedAtEnd'
  <2>1. UNCHANGED <<enabled, needs, ordered, hooked, hooks, stage, core, opened, halted>>
    BY DEF Visit
  <2>2. QED
    BY <2>1, LifeKept
<1> QED
  BY <1>1, <1>2, <1>3, <1>4

\* Settle (resolve_plugin_order) keeps the invariant.
LEMMA SettleStep ==
    ASSUME LifespanIInv, Settle
    PROVE  LifespanIInv'
<1> USE DEF LifespanIInv
<1>1. SeqsOK'
  <2>1. /\ ordered \in Seq(Addon) /\ visiting \in Seq(Addon) /\ visiting # <<>>
        /\ ordered' = Append(ordered, Top(visiting)) /\ visiting' = Pop(visiting)
        /\ needs[Top(visiting)] \subseteq Elems(ordered)
        /\ enabled' = enabled /\ needs' = needs /\ hooks' = hooks /\ opened' = opened /\ hooked' = hooked
    BY DEF Settle, SeqsOK
  <2>2. /\ Pop(visiting) \in Seq(Addon) /\ Len(visiting) \in Nat \ {0}
        /\ Len(Pop(visiting)) = Len(visiting) - 1
        /\ \A i \in 1..(Len(visiting) - 1) : Pop(visiting)[i] = visiting[i]
        /\ Top(visiting) \in Addon /\ Top(visiting) \in Elems(visiting)
        /\ Elems(Pop(visiting)) \subseteq Elems(visiting)
        /\ Once(visiting) => Once(Pop(visiting)) /\ Top(visiting) \notin Elems(Pop(visiting))
    BY <2>1, PopElems
  <2>3. ordered' \in Seq(Addon)
    BY <2>1, <2>2
  <2>4. QED
    BY <2>1, <2>2, <2>3 DEF SeqsOK
<1>2. ListsOK'
  <2>1. /\ ordered \in Seq(Addon) /\ visiting \in Seq(Addon) /\ visiting # <<>>
        /\ ordered' = Append(ordered, Top(visiting)) /\ visiting' = Pop(visiting)
        /\ needs[Top(visiting)] \subseteq Elems(ordered)
        /\ enabled' = enabled /\ needs' = needs /\ hooks' = hooks /\ opened' = opened /\ hooked' = hooked
    BY DEF Settle, SeqsOK
  <2>2. /\ Pop(visiting) \in Seq(Addon) /\ Len(visiting) \in Nat \ {0}
        /\ Len(Pop(visiting)) = Len(visiting) - 1
        /\ \A i \in 1..(Len(visiting) - 1) : Pop(visiting)[i] = visiting[i]
        /\ Top(visiting) \in Addon /\ Top(visiting) \in Elems(visiting)
        /\ Elems(Pop(visiting)) \subseteq Elems(visiting)
        /\ Once(visiting) => Once(Pop(visiting)) /\ Top(visiting) \notin Elems(Pop(visiting))
    BY <2>1, PopElems
  <2>3. Top(visiting) \in enabled /\ Top(visiting) \notin Elems(ordered)
    BY <2>2 DEF ListsOK
  <2>4. /\ Elems(Append(ordered, Top(visiting))) = Elems(ordered) \cup {Top(visiting)}
        /\ Once(Append(ordered, Top(visiting)))
    BY <2>1, <2>2, <2>3, AppendElems DEF ListsOK
  <2>5. /\ Elems(ordered') \subseteq enabled' /\ Once(ordered')
        /\ Elems(visiting') \subseteq enabled' \ Elems(ordered') /\ Once(visiting')
    BY <2>1, <2>2, <2>3, <2>4 DEF ListsOK
  <2>6. QED
    BY <2>5 DEF ListsOK, Elems, Once
<1>3. HooksOK'
  BY DEF Settle, HooksOK, SeqsOK, ListsOK, StageInv, CoreParts
<1>4. SortInv'
  <2>1. /\ ordered \in Seq(Addon) /\ visiting \in Seq(Addon) /\ visiting # <<>>
        /\ ordered' = Append(ordered, Top(visiting)) /\ visiting' = Pop(visiting)
        /\ needs[Top(visiting)] \subseteq Elems(ordered)
        /\ enabled' = enabled /\ needs' = needs /\ hooks' = hooks /\ opened' = opened /\ hooked' = hooked
    BY DEF Settle, SeqsOK
  <2>2. /\ Pop(visiting) \in Seq(Addon) /\ Len(visiting) \in Nat \ {0}
        /\ Len(Pop(visiting)) = Len(visiting) - 1
        /\ \A i \in 1..(Len(visiting) - 1) : Pop(visiting)[i] = visiting[i]
        /\ Top(visiting) \in Addon /\ Top(visiting) \in Elems(visiting)
        /\ Elems(Pop(visiting)) \subseteq Elems(visiting)
        /\ Once(visiting) => Once(Pop(visiting)) /\ Top(visiting) \notin Elems(Pop(visiting))
    BY <2>1, PopElems
  <2>3. /\ Len(ordered) \in Nat /\ Len(ordered') = Len(ordered) + 1
        /\ ordered'[Len(ordered) + 1] = Top(visiting)
        /\ \A i \in 1..Len(ordered) : ordered'[i] = ordered[i]
        /\ Elems(ordered) = {ordered[i] : i \in 1..Len(ordered)}
    BY <2>1, <2>2, AppendElems
  <2>4. ASSUME NEW i \in 1..Len(ordered')
        PROVE  needs[ordered'[i]] \subseteq {ordered'[j] : j \in 1..(i - 1)}
    <3>1. CASE i = Len(ordered) + 1
      <4>1. {ordered'[j] : j \in 1..(i - 1)} = Elems(ordered)
        BY <2>3, <3>1
      <4>2. QED
        BY <2>1, <2>3, <3>1, <4>1
    <3>2. CASE i # Len(ordered) + 1
      <4>1. i \in 1..Len(ordered) /\ \A j \in 1..(i - 1) : ordered'[j] = ordered[j]
        BY <2>3, <3>2
      <4>2. {ordered'[j] : j \in 1..(i - 1)} = {ordered[j] : j \in 1..(i - 1)}
        BY <4>1
      <4>3. QED
        BY <2>3, <4>1, <4>2 DEF SortInv
    <3>3. QED
      BY <3>1, <3>2
  <2>5. \A i \in 1..(Len(visiting') - 1) : visiting'[i + 1] \in needs[visiting'[i]]
    BY <2>1, <2>2 DEF SortInv
  <2>6. QED
    BY <2>1, <2>4, <2>5 DEF SortInv
<1>5. HookInv'
  BY DEF Settle, HookInv, SeqsOK, StageInv, CoreParts
<1>6. PartsOK' /\ OpenOK' /\ StageInv' /\ RefusedWithCause' /\ ClosedAtEnd'
  <2>1. UNCHANGED <<enabled, needs, hooked, hooks, stage, core, opened, halted>>
    BY DEF Settle
  <2>2. QED
    BY <2>1, LifeKept
<1> QED
  BY <1>1, <1>2, <1>3, <1>4, <1>5, <1>6

\* Refuse (resolve_plugin_order) keeps the invariant.
LEMMA RefuseStep ==
    ASSUME LifespanIInv, Refuse
    PROVE  LifespanIInv'
<1> USE DEF LifespanIInv
<1>1. PartsOK'
  BY DEF Refuse, PartsOK, Stages, CoreParts
<1>2. StageInv'
  BY DEF Refuse, StageInv, PartsOK, CoreParts, Stages
<1>3. RefusedWithCause'
  <2>1. PICK d \in needs[Top(visiting)] : d \notin enabled \/ d \in Elems(visiting)
    BY DEF Refuse
  <2>2. /\ visiting \in Seq(Addon) /\ visiting # <<>> /\ Len(visiting) \in Nat \ {0}
        /\ Top(visiting) = visiting[Len(visiting)] /\ Top(visiting) \in enabled
        /\ Elems(visiting) = {visiting[i] : i \in 1..Len(visiting)} /\ Elems(visiting) \subseteq enabled
    BY PopElems DEF Refuse, SeqsOK, ListsOK, Top
  <2>3. enabled' = enabled /\ needs' = needs
    BY DEF Refuse
  <2>4. CASE d \notin enabled
    BY <2>1, <2>2, <2>3, <2>4 DEF RefusedWithCause
  <2>5. CASE d \in Elems(visiting)
    <3>1. PICK k \in 1..Len(visiting) : visiting[k] = d
      BY <2>2, <2>5
    <3> DEFINE C == {visiting[i] : i \in k..Len(visiting)}
    <3>2. C \in (SUBSET enabled) \ {{}}
      <4>1. C \subseteq Elems(visiting)
        BY <2>2
      <4>2. d \in C
        BY <2>2, <3>1
      <4>3. QED
        BY <2>2, <4>1, <4>2
    <3>3. ASSUME NEW q \in C PROVE needs[q] \cap C # {}
      <4>1. PICK i \in k..Len(visiting) : q = visiting[i]
        OBVIOUS
      <4>2. CASE i = Len(visiting)
        <5>1. d \in needs[q] /\ d \in C
          BY <2>1, <2>2, <3>1, <4>1, <4>2
        <5>2. QED
          BY <5>1
      <4>3. CASE i # Len(visiting)
        <5>1. i + 1 \in k..Len(visiting) /\ i \in 1..(Len(visiting) - 1)
          BY <2>2, <4>3
        <5>2. visiting[i + 1] \in needs[q] /\ visiting[i + 1] \in C
          BY <4>1, <5>1 DEF SortInv
        <5>3. QED
          BY <5>2
      <4>4. QED
        BY <4>2, <4>3
    <3> HIDE DEF C
    <3>4. QED
      BY <2>3, <3>2, <3>3 DEF RefusedWithCause
  <2>6. QED
    BY <2>1, <2>4, <2>5
<1>4. ClosedAtEnd'
  BY DEF Refuse, ClosedAtEnd, StageInv, PartsOK, CoreParts, Stages
<1>5. SeqsOK' /\ ListsOK' /\ HooksOK' /\ OpenOK' /\ SortInv' /\ HookInv'
  <2>1. UNCHANGED <<enabled, needs, ordered, visiting, hooked, hooks, opened>>
    BY DEF Refuse
  <2>2. QED
    BY <2>1, LifeKept
<1> QED
  BY <1>1, <1>2, <1>3, <1>4, <1>5

\* Sorted (resolve_plugin_order, get_ordered_enabled_plugins) keeps the
\* invariant.
LEMMA SortedStep ==
    ASSUME LifespanIInv, Sorted
    PROVE  LifespanIInv'
<1> USE DEF LifespanIInv
<1>1. PartsOK'
  BY DEF Sorted, PartsOK, Stages, CoreParts
<1>2. StageInv'
  BY DEF Sorted, StageInv, PartsOK, CoreParts, Stages
<1>3. RefusedWithCause'
  BY DEF Sorted, RefusedWithCause
<1>4. ClosedAtEnd'
  BY DEF Sorted, ClosedAtEnd, StageInv, PartsOK, CoreParts, Stages
<1>5. SeqsOK' /\ ListsOK' /\ HooksOK' /\ OpenOK' /\ SortInv' /\ HookInv'
  <2>1. UNCHANGED <<enabled, needs, ordered, visiting, hooked, hooks, opened>>
    BY DEF Sorted
  <2>2. QED
    BY <2>1, LifeKept
<1> QED
  BY <1>1, <1>2, <1>3, <1>4, <1>5

\* RunHooks (_get_plugin_hook_modules, register_plugin_hooks) keeps the
\* invariant.
LEMMA RunHooksStep ==
    ASSUME LifespanIInv, RunHooks
    PROVE  LifespanIInv'
<1> USE DEF LifespanIInv
<1>1. SeqsOK'
  <2>1. /\ hooked < Len(ordered) /\ hooked' = hooked + 1 /\ ordered' = ordered
        /\ ordered \in Seq(Addon) /\ hooks \in Seq(Addon) /\ hooked \in Nat /\ Len(ordered) \in Nat
        /\ hooks' \in {hooks, Append(hooks, ordered[hooked + 1])}
    BY DEF RunHooks, SeqsOK
  <2>2. hooked + 1 \in 1..Len(ordered) /\ ordered[hooked + 1] \in Addon
    BY <2>1
  <2>3. \A i, j \in 1..Len(ordered) : ordered[i] = ordered[j] => i = j
    BY <2>1 DEF ListsOK, Once
  <2>4. ordered[hooked + 1] \notin Elems(hooks)
    <3>1. Elems(hooks) \subseteq {ordered[i] : i \in 1..hooked}
      BY DEF HooksOK
    <3>2. \A i \in 1..hooked : ordered[i] # ordered[hooked + 1]
      BY <2>1, <2>2, <2>3
    <3>3. QED
      BY <3>1, <3>2
  <2>5. hooks' \in Seq(Addon)
    BY <2>1, <2>2, AppendElems
  <2>6. QED
    BY <2>1, <2>2, <2>5 DEF RunHooks, SeqsOK
<1>2. HooksOK'
  <2>1. /\ hooked < Len(ordered) /\ hooked' = hooked + 1 /\ ordered' = ordered
        /\ ordered \in Seq(Addon) /\ hooks \in Seq(Addon) /\ hooked \in Nat /\ Len(ordered) \in Nat
        /\ hooks' \in {hooks, Append(hooks, ordered[hooked + 1])}
    BY DEF RunHooks, SeqsOK
  <2>2. hooked + 1 \in 1..Len(ordered) /\ ordered[hooked + 1] \in Addon
    BY <2>1
  <2>3. \A i, j \in 1..Len(ordered) : ordered[i] = ordered[j] => i = j
    BY <2>1 DEF ListsOK, Once
  <2>4. ordered[hooked + 1] \notin Elems(hooks)
    <3>1. Elems(hooks) \subseteq {ordered[i] : i \in 1..hooked}
      BY DEF HooksOK
    <3>2. \A i \in 1..hooked : ordered[i] # ordered[hooked + 1]
      BY <2>1, <2>2, <2>3
    <3>3. QED
      BY <3>1, <3>2
  <2>5. Elems(hooks') \subseteq Elems(hooks) \cup {ordered[hooked + 1]} /\ Once(hooks')
    <3>1. CASE hooks' = hooks
      BY <3>1 DEF HooksOK, Elems, Once
    <3>2. CASE hooks' = Append(hooks, ordered[hooked + 1])
      <4>1. /\ Elems(Append(hooks, ordered[hooked + 1])) = Elems(hooks) \cup {ordered[hooked + 1]}
            /\ Once(Append(hooks, ordered[hooked + 1]))
        BY <2>1, <2>2, <2>4, AppendElems DEF HooksOK
      <4>2. QED
        BY <3>2, <4>1
    <3>3. QED
      BY <2>1, <3>1, <3>2
  <2>6. Elems(hooks') \subseteq {ordered'[i] : i \in 1..hooked'}
    BY <2>1, <2>5 DEF HooksOK
  <2>7. hooked' \in 0..Len(ordered')
    BY <2>1
  <2>8. QED
    BY <2>5, <2>6, <2>7 DEF HooksOK, Elems, Once
<1>3. OpenOK'
  BY DEF RunHooks, OpenOK, SeqsOK, StageInv, CoreParts
<1>4. HookInv'
  <2>1. /\ hooked < Len(ordered) /\ hooked' = hooked + 1 /\ ordered' = ordered
        /\ ordered \in Seq(Addon) /\ hooks \in Seq(Addon) /\ hooked \in Nat /\ Len(ordered) \in Nat
        /\ hooks' \in {hooks, Append(hooks, ordered[hooked + 1])}
    BY DEF RunHooks, SeqsOK
  <2>2. hooked + 1 \in 1..Len(ordered) /\ ordered[hooked + 1] \in Addon
    BY <2>1
  <2>3. \A i, j \in 1..Len(ordered) : ordered[i] = ordered[j] => i = j
    BY <2>1 DEF ListsOK, Once
  <2>4. ordered[hooked + 1] \notin Elems(hooks)
    <3>1. Elems(hooks) \subseteq {ordered[i] : i \in 1..hooked}
      BY DEF HooksOK
    <3>2. \A i \in 1..hooked : ordered[i] # ordered[hooked + 1]
      BY <2>1, <2>2, <2>3
    <3>3. QED
      BY <3>1, <3>2
  <2>5. /\ Len(hooks) \in Nat /\ Elems(hooks) = {hooks[i] : i \in 1..Len(hooks)}
        /\ Len(hooks') \in {Len(hooks), Len(hooks) + 1}
        /\ \A i \in 1..Len(hooks) : hooks'[i] = hooks[i]
        /\ Len(hooks') = Len(hooks) + 1 => hooks'[Len(hooks) + 1] = ordered[hooked + 1]
    <3>1. Len(hooks) \in Nat /\ Elems(hooks) = {hooks[i] : i \in 1..Len(hooks)}
      BY <2>1, <2>2, AppendElems
    <3>2. CASE hooks' = hooks
      BY <3>1, <3>2
    <3>3. CASE hooks' = Append(hooks, ordered[hooked + 1])
      BY <2>1, <2>2, <3>1, <3>3, AppendElems
    <3>4. QED
      BY <2>1, <3>1, <3>2, <3>3
  <2> SUFFICES ASSUME NEW i \in 1..Len(hooks'), NEW j \in 1..Len(hooks'), i < j,
                      NEW a \in 1..hooked', NEW b \in 1..hooked',
                      hooks'[i] = ordered'[a], hooks'[j] = ordered'[b]
               PROVE  a < b
    BY DEF HookInv
  <2>6. i \in 1..Len(hooks) /\ hooks[i] = ordered[a]
    <3>1. i \in 1..Len(hooks)
      BY <2>5
    <3>2. QED
      BY <2>1, <2>5, <3>1
  <2>7. a \in 1..hooked
    <3>1. PICK c \in 1..hooked : hooks[i] = ordered[c]
      BY <2>5, <2>6 DEF HooksOK
    <3>2. a \in 1..Len(ordered) /\ c \in 1..Len(ordered)
      BY <2>1
    <3>3. a = c
      BY <2>3, <2>6, <3>1, <3>2
    <3>4. QED
      BY <3>3
  <2>8. CASE j \in 1..Len(hooks)
    <3>1. hooks[j] = ordered[b]
      BY <2>1, <2>5, <2>8
    <3>2. PICK c \in 1..hooked : hooks[j] = ordered[c]
      BY <2>5, <2>8 DEF HooksOK
    <3>a. b \in 1..Len(ordered) /\ c \in 1..Len(ordered)
      BY <2>1
    <3>3. b = c
      BY <2>3, <3>1, <3>2, <3>a
    <3>4. QED
      BY <2>6, <2>7, <2>8, <3>2, <3>3 DEF HookInv
  <2>9. CASE j \notin 1..Len(hooks)
    <3>0. Len(hooks') = Len(hooks) + 1 /\ j = Len(hooks) + 1
      BY <2>5, <2>9
    <3>1. ordered[b] = ordered[hooked + 1]
      BY <2>1, <2>5, <3>0
    <3>2. b = hooked + 1
      BY <2>1, <2>2, <2>3, <3>1
    <3>3. QED
      BY <2>1, <2>7, <3>2
  <2>10. QED
    BY <2>8, <2>9
<1>5. StageInv'
  BY DEF RunHooks, StageInv, PartsOK, CoreParts, Stages
<1>6. PartsOK' /\ ListsOK' /\ SortInv' /\ RefusedWithCause' /\ ClosedAtEnd'
  <2>1. UNCHANGED <<enabled, needs, ordered, visiting, stage, core, opened, halted>>
    BY DEF RunHooks
  <2>2. QED
    BY <2>1, LifeKept
<1> QED
  BY <1>1, <1>2, <1>3, <1>4, <1>5, <1>6

\* HooksFail (run_plugin_setup_hook, run_plugin_otel_hook) keeps the
\* invariant.
LEMMA HooksFailStep ==
    ASSUME LifespanIInv, HooksFail
    PROVE  LifespanIInv'
<1> USE DEF LifespanIInv
<1>1. PartsOK'
  BY DEF HooksFail, PartsOK, Stages, CoreParts
<1>2. StageInv'
  BY DEF HooksFail, StageInv, PartsOK, CoreParts, Stages
<1>3. RefusedWithCause'
  BY DEF HooksFail, RefusedWithCause
<1>4. ClosedAtEnd'
  BY DEF HooksFail, ClosedAtEnd, StageInv, PartsOK, CoreParts, Stages
<1>5. SeqsOK' /\ ListsOK' /\ HooksOK' /\ OpenOK' /\ SortInv' /\ HookInv'
  <2>1. UNCHANGED <<enabled, needs, ordered, visiting, hooked, hooks, opened>>
    BY DEF HooksFail
  <2>2. QED
    BY <2>1, LifeKept
<1> QED
  BY <1>1, <1>2, <1>3, <1>4, <1>5

\* BuildApp (register_app) keeps the invariant.
LEMMA BuildAppStep ==
    ASSUME LifespanIInv, BuildApp
    PROVE  LifespanIInv'
<1> USE DEF LifespanIInv
<1>1. PartsOK'
  BY DEF BuildApp, PartsOK, Stages, CoreParts
<1>2. StageInv'
  BY DEF BuildApp, StageInv, PartsOK, CoreParts, Stages
<1>3. RefusedWithCause'
  BY DEF BuildApp, RefusedWithCause
<1>4. ClosedAtEnd'
  BY DEF BuildApp, ClosedAtEnd, StageInv, PartsOK, CoreParts, Stages
<1>5. SeqsOK' /\ ListsOK' /\ HooksOK' /\ OpenOK' /\ SortInv' /\ HookInv'
  <2>1. UNCHANGED <<enabled, needs, ordered, visiting, hooked, hooks, opened>>
    BY DEF BuildApp
  <2>2. QED
    BY <2>1, LifeKept
<1> QED
  BY <1>1, <1>2, <1>3, <1>4, <1>5

\* OpenCore (register_init) keeps the invariant.
LEMMA OpenCoreStep ==
    ASSUME LifespanIInv, NEW c \in CoreParts, OpenCore(c)
    PROVE  LifespanIInv'
<1> USE DEF LifespanIInv
<1>1. PartsOK'
  BY DEF OpenCore, PartsOK, Follows, CoreParts, Stages
<1>2. StageInv'
  BY DEF OpenCore, StageInv, PartsOK, Follows, CoreParts, Stages
<1>3. RefusedWithCause'
  BY DEF OpenCore, RefusedWithCause, Follows, CoreParts
<1>4. ClosedAtEnd'
  BY DEF OpenCore, ClosedAtEnd, StageInv, PartsOK, Follows, CoreParts, Stages
<1>5. SeqsOK' /\ ListsOK' /\ HooksOK' /\ OpenOK' /\ SortInv' /\ HookInv'
  <2>1. UNCHANGED <<enabled, needs, ordered, visiting, hooked, hooks, opened>>
    BY DEF OpenCore
  <2>2. QED
    BY <2>1, LifeKept
<1> QED
  BY <1>1, <1>2, <1>3, <1>4, <1>5

\* CloseCore (register_init) keeps the invariant.
LEMMA CloseCoreStep ==
    ASSUME LifespanIInv, NEW c \in CoreParts, CloseCore(c)
    PROVE  LifespanIInv'
<1> USE DEF LifespanIInv
<1>1. PartsOK'
  BY DEF CloseCore, PartsOK, Follows, Stages, CoreParts
<1>2. StageInv'
  BY DEF CloseCore, StageInv, PartsOK, Follows, CoreParts, Stages
<1>3. RefusedWithCause'
  BY DEF CloseCore, RefusedWithCause, Follows
<1>4. ClosedAtEnd'
  BY DEF CloseCore, ClosedAtEnd, StageInv, PartsOK, Follows, CoreParts, Stages
<1>5. SeqsOK' /\ ListsOK' /\ HooksOK' /\ OpenOK' /\ SortInv' /\ HookInv'
  <2>1. UNCHANGED <<enabled, needs, ordered, visiting, hooked, hooks, opened>>
    BY DEF CloseCore
  <2>2. QED
    BY <2>1, LifeKept
<1> QED
  BY <1>1, <1>2, <1>3, <1>4, <1>5

\* CoreFails (RedisCli.init) keeps the invariant.
LEMMA CoreFailsStep ==
    ASSUME LifespanIInv, CoreFails
    PROVE  LifespanIInv'
<1> USE DEF LifespanIInv
<1>1. PartsOK'
  BY DEF CoreFails, PartsOK, Stages, CoreParts
<1>2. StageInv'
  BY DEF CoreFails, StageInv, PartsOK, CoreParts, Stages
<1>3. RefusedWithCause'
  BY DEF CoreFails, RefusedWithCause
<1>4. ClosedAtEnd'
  BY DEF CoreFails, ClosedAtEnd, StageInv, PartsOK, CoreParts, Stages
<1>5. SeqsOK' /\ ListsOK' /\ HooksOK' /\ OpenOK' /\ SortInv' /\ HookInv'
  <2>1. UNCHANGED <<enabled, needs, ordered, visiting, hooked, hooks, opened>>
    BY DEF CoreFails
  <2>2. QED
    BY <2>1, LifeKept
<1> QED
  BY <1>1, <1>2, <1>3, <1>4, <1>5

\* ReleaseFails (SnowflakeNodeManager.release) keeps the invariant.
LEMMA ReleaseFailsStep ==
    ASSUME LifespanIInv, ReleaseFails
    PROVE  LifespanIInv'
<1> USE DEF LifespanIInv
<1>1. PartsOK'
  BY DEF ReleaseFails, PartsOK, Stages, CoreParts
<1>2. StageInv'
  BY DEF ReleaseFails, StageInv, PartsOK, CoreParts, Stages
<1>3. RefusedWithCause'
  BY DEF ReleaseFails, RefusedWithCause
<1>4. ClosedAtEnd'
  BY DEF ReleaseFails, ClosedAtEnd, StageInv, PartsOK, CoreParts, Stages
<1>5. SeqsOK' /\ ListsOK' /\ HooksOK' /\ OpenOK' /\ SortInv' /\ HookInv'
  <2>1. UNCHANGED <<enabled, needs, ordered, visiting, hooked, hooks, opened>>
    BY DEF ReleaseFails
  <2>2. QED
    BY <2>1, LifeKept
<1> QED
  BY <1>1, <1>2, <1>3, <1>4, <1>5

\* OpenPlugin (LifespanManager.register) keeps the invariant.
LEMMA OpenPluginStep ==
    ASSUME LifespanIInv, OpenPlugin
    PROVE  LifespanIInv'
<1> USE DEF LifespanIInv
<1>1. SeqsOK'
  BY DEF OpenPlugin, SeqsOK
<1>2. OpenOK'
  BY DEF OpenPlugin, OpenOK, SeqsOK, StageInv, CoreParts
<1>3. StageInv'
  BY DEF OpenPlugin, StageInv, PartsOK, CoreParts, Stages
<1>4. ClosedAtEnd'
  BY DEF OpenPlugin, ClosedAtEnd, StageInv, PartsOK, CoreParts, Stages
<1>5. PartsOK' /\ ListsOK' /\ HooksOK' /\ SortInv' /\ HookInv' /\ RefusedWithCause'
  <2>1. UNCHANGED <<enabled, needs, ordered, visiting, hooked, hooks, stage, core, halted>>
    BY DEF OpenPlugin
  <2>2. QED
    BY <2>1, LifeKept
<1> QED
  BY <1>1, <1>2, <1>3, <1>4, <1>5

\* OpenFails (LifespanManager.build) keeps the invariant.
LEMMA OpenFailsStep ==
    ASSUME LifespanIInv, OpenFails
    PROVE  LifespanIInv'
<1> USE DEF LifespanIInv
<1>1. PartsOK'
  BY DEF OpenFails, PartsOK, Stages, CoreParts
<1>2. StageInv'
  BY DEF OpenFails, StageInv, PartsOK, CoreParts, Stages
<1>3. RefusedWithCause'
  BY DEF OpenFails, RefusedWithCause
<1>4. ClosedAtEnd'
  BY DEF OpenFails, ClosedAtEnd, StageInv, PartsOK, CoreParts, Stages
<1>5. SeqsOK' /\ ListsOK' /\ HooksOK' /\ OpenOK' /\ SortInv' /\ HookInv'
  <2>1. UNCHANGED <<enabled, needs, ordered, visiting, hooked, hooks, opened>>
    BY DEF OpenFails
  <2>2. QED
    BY <2>1, LifeKept
<1> QED
  BY <1>1, <1>2, <1>3, <1>4, <1>5

\* Serve (LifespanManager.build) keeps the invariant.
LEMMA ServeStep ==
    ASSUME LifespanIInv, Serve
    PROVE  LifespanIInv'
<1> USE DEF LifespanIInv
<1>1. PartsOK'
  BY DEF Serve, PartsOK, Stages, CoreParts
<1>2. StageInv'
  BY DEF Serve, StageInv, PartsOK, CoreParts, Stages
<1>3. RefusedWithCause'
  BY DEF Serve, RefusedWithCause
<1>4. ClosedAtEnd'
  BY DEF Serve, ClosedAtEnd, StageInv, PartsOK, CoreParts, Stages
<1>5. SeqsOK' /\ ListsOK' /\ HooksOK' /\ OpenOK' /\ SortInv' /\ HookInv'
  <2>1. UNCHANGED <<enabled, needs, ordered, visiting, hooked, hooks, opened>>
    BY DEF Serve
  <2>2. QED
    BY <2>1, LifeKept
<1> QED
  BY <1>1, <1>2, <1>3, <1>4, <1>5

\* Stop (LifespanManager.build) keeps the invariant.
LEMMA StopStep ==
    ASSUME LifespanIInv, Stop
    PROVE  LifespanIInv'
<1> USE DEF LifespanIInv
<1>1. PartsOK'
  BY DEF Stop, PartsOK, Stages, CoreParts
<1>2. StageInv'
  BY DEF Stop, StageInv, PartsOK, CoreParts, Stages
<1>3. RefusedWithCause'
  BY DEF Stop, RefusedWithCause
<1>4. ClosedAtEnd'
  BY DEF Stop, ClosedAtEnd, StageInv, PartsOK, CoreParts, Stages
<1>5. SeqsOK' /\ ListsOK' /\ HooksOK' /\ OpenOK' /\ SortInv' /\ HookInv'
  <2>1. UNCHANGED <<enabled, needs, ordered, visiting, hooked, hooks, opened>>
    BY DEF Stop
  <2>2. QED
    BY <2>1, LifeKept
<1> QED
  BY <1>1, <1>2, <1>3, <1>4, <1>5

\* ClosePlugin (LifespanManager.build) keeps the invariant.
LEMMA ClosePluginStep ==
    ASSUME LifespanIInv, ClosePlugin
    PROVE  LifespanIInv'
<1> USE DEF LifespanIInv
<1>1. SeqsOK'
  <2>1. /\ opened \in Seq(Addon) /\ opened # <<>> /\ opened' = Pop(opened) /\ hooks' = hooks
    BY DEF ClosePlugin, SeqsOK
  <2>2. /\ Pop(opened) \in Seq(Addon) /\ Len(opened) \in Nat \ {0} /\ Len(Pop(opened)) = Len(opened) - 1
        /\ \A i \in 1..(Len(opened) - 1) : Pop(opened)[i] = opened[i]
    BY <2>1, PopElems
  <2>3. QED
    BY <2>1, <2>2 DEF ClosePlugin, SeqsOK
<1>2. OpenOK'
  <2>1. /\ opened \in Seq(Addon) /\ opened # <<>> /\ opened' = Pop(opened) /\ hooks' = hooks
    BY DEF ClosePlugin, SeqsOK
  <2>2. /\ Pop(opened) \in Seq(Addon) /\ Len(opened) \in Nat \ {0} /\ Len(Pop(opened)) = Len(opened) - 1
        /\ \A i \in 1..(Len(opened) - 1) : Pop(opened)[i] = opened[i]
    BY <2>1, PopElems
  <2>3. Len(hooks) \in Nat
    BY DEF SeqsOK
  <2>4. QED
    BY <2>1, <2>2, <2>3 DEF OpenOK
<1>3. StageInv'
  BY DEF ClosePlugin, StageInv, PartsOK, CoreParts, Stages
<1>4. ClosedAtEnd'
  BY DEF ClosePlugin, ClosedAtEnd, StageInv, PartsOK, CoreParts, Stages
<1>5. PartsOK' /\ ListsOK' /\ HooksOK' /\ SortInv' /\ HookInv' /\ RefusedWithCause'
  <2>1. UNCHANGED <<enabled, needs, ordered, visiting, hooked, hooks, stage, core, halted>>
    BY DEF ClosePlugin
  <2>2. QED
    BY <2>1, LifeKept
<1> QED
  BY <1>1, <1>2, <1>3, <1>4, <1>5

\* The initial state satisfies the invariant.
LEMMA LifespanInitInv == LifespanInit => LifespanIInv
<1> SUFFICES ASSUME LifespanInit PROVE LifespanIInv
  OBVIOUS
<1>1. SeqsOK /\ PartsOK
  BY DEF LifespanInit, SeqsOK, PartsOK, Stages
<1>2. Elems(<<>>) = {} /\ Once(<<>>)
  BY DEF Elems, Once
<1>3. ListsOK /\ HooksOK /\ OpenOK
  BY <1>2 DEF LifespanInit, ListsOK, HooksOK, OpenOK
<1>4. SortInv /\ HookInv /\ StageInv /\ RefusedWithCause /\ ClosedAtEnd
  BY DEF LifespanInit, SortInv, HookInv, StageInv, RefusedWithCause, ClosedAtEnd
<1>5. QED
  BY <1>1, <1>3, <1>4 DEF LifespanIInv

\* Every step keeps it.
LEMMA LifespanNextInv == LifespanIInv /\ [LifespanNext]_lifeVars => LifespanIInv'
<1> SUFFICES ASSUME LifespanIInv, [LifespanNext]_lifeVars PROVE LifespanIInv'
  OBVIOUS
<1>1. CASE UNCHANGED lifeVars
  BY <1>1, LifeKept DEF lifeVars, LifespanIInv
<1>2. QED
  BY <1>1, VisitStep, SettleStep, RefuseStep, SortedStep, RunHooksStep, HooksFailStep, BuildAppStep,
     OpenCoreStep, CloseCoreStep, CoreFailsStep, ReleaseFailsStep, OpenPluginStep, OpenFailsStep,
     ServeStep, StopStep, ClosePluginStep DEF LifespanNext

\* The inductive invariant of the life of a process holds in every reachable
\* state.
THEOREM LifespanInductive == LifespanSpec => []LifespanIInv
BY LifespanInitInv, LifespanNextInv, PTL DEF LifespanSpec

\* A lifespan that is open comes after those it depends on, which are open too.
LEMMA OpenBelow == LifespanIInv => DependenciesOpen
<1> SUFFICES ASSUME LifespanIInv, NEW i \in DOMAIN opened
             PROVE  /\ core = CoreParts
                    /\ needs[opened[i]] \cap Elems(hooks) \subseteq Elems(opened)
  BY DEF DependenciesOpen
<1>1. /\ ordered \in Seq(Addon) /\ hooks \in Seq(Addon) /\ opened \in Seq(Addon)
      /\ Len(ordered) \in Nat /\ Len(hooks) \in Nat /\ Len(opened) \in Nat /\ hooked \in 0..Len(ordered)
      /\ DOMAIN opened = 1..Len(opened) /\ DOMAIN hooks = 1..Len(hooks)
      /\ DOMAIN ordered = 1..Len(ordered)
  BY DEF LifespanIInv, SeqsOK, HooksOK
<1>2. core = CoreParts
  BY <1>1 DEF LifespanIInv, StageInv
<1>3. i \in 1..Len(hooks) /\ opened[i] = hooks[i]
  BY <1>1 DEF LifespanIInv, OpenOK
<1>4. ASSUME NEW d \in needs[opened[i]] \cap Elems(hooks) PROVE d \in Elems(opened)
  <2>1. PICK j \in 1..Len(hooks) : d = hooks[j]
    BY <1>1 DEF Elems
  <2>2. hooks[i] \in Elems(hooks) /\ Elems(hooks) \subseteq {ordered[k] : k \in 1..hooked}
    BY <1>1, <1>3 DEF LifespanIInv, HooksOK, Elems
  <2>3. PICK b \in 1..hooked : hooks[i] = ordered[b]
    BY <2>2
  <2>4. b \in 1..Len(ordered) /\ needs[ordered[b]] \subseteq {ordered[k] : k \in 1..(b - 1)}
    BY <1>1 DEF LifespanIInv, SortInv
  <2>5. PICK a \in 1..(b - 1) : d = ordered[a]
    BY <1>3, <2>3, <2>4
  <2>6. a \in 1..hooked /\ a \in 1..Len(ordered) /\ a < b /\ a # b
    BY <1>1, <2>3, <2>5
  <2>7. ordered[a] # ordered[b]
    BY <1>1, <2>4, <2>6 DEF LifespanIInv, ListsOK, Once
  <2>8. j # i
    BY <2>1, <2>3, <2>5, <2>7
  <2>9. ~(i < j)
    <3>1. i < j => b < a
      BY <1>3, <2>1, <2>3, <2>5, <2>6 DEF LifespanIInv, HookInv
    <3>2. QED
      BY <1>1, <2>3, <2>6, <3>1
  <2>10. j \in 1..Len(opened)
    BY <1>1, <2>8, <2>9
  <2>11. QED
    BY <1>1, <2>1, <2>10 DEF LifespanIInv, OpenOK, Elems
<1>5. QED
  BY <1>2, <1>4

\* Whatever fails, plugins come after what they depend on, a start is refused
\* only over a missing dependency or a cycle, and what was opened is closed.
THEOREM LifespanSafe == LifespanSpec => []LifespanInv
<1>1. LifespanIInv => LifespanInv
  <2> SUFFICES ASSUME LifespanIInv PROVE LifespanInv
    OBVIOUS
  <2>1. opened = SubSeq(hooks, 1, Len(opened))
    <3>1. /\ hooks \in Seq(Addon) /\ opened \in Seq(Addon) /\ Len(hooks) \in Nat
          /\ Len(opened) \in Nat /\ Len(opened) <= Len(hooks)
          /\ \A i \in 1..Len(opened) : opened[i] = hooks[i]
      BY SMTT(30) DEF LifespanIInv, SeqsOK, OpenOK
    <3> DEFINE t == SubSeq(hooks, 1, Len(opened))
    <3>2. t \in Seq(Addon) /\ Len(t) = Len(opened) /\ \A i \in 1..Len(opened) : t[i] = hooks[i]
      BY <3>1
    <3> HIDE DEF t
    <3>3. opened = t
      BY <3>1, <3>2
    <3>4. QED
      BY <3>3 DEF t
  <2>2. LifespanTypeOK
    BY <2>1 DEF LifespanIInv, LifespanTypeOK, PartsOK, ListsOK, HooksOK, OpenOK
  <2>3. DependenciesSorted
    <3>1. DOMAIN ordered = 1..Len(ordered)
      BY DEF LifespanIInv, SeqsOK
    <3>2. QED
      BY <3>1 DEF LifespanIInv, SortInv, DependenciesSorted
  <2>4. QED
    BY <2>2, <2>3, OpenBelow DEF LifespanIInv, LifespanInv
<1>2. QED
  BY <1>1, LifespanInductive, PTL
-----------------------------------------------------------------------------
(* Administration of users.                                                 *)

UserAdminSpec == UserAdminInit /\ [][UserAdminNext]_adminVars

\* What a request knows at each of its steps.
Writes == [pc : {"write", "key", "commit"}, by : Person, whom : Person,
           kind : {"toggle", "delete", "rename", "create"}, switch : Switch, want : BOOLEAN,
           name : Name]
Works  == [pc : {"idle"}] \cup [pc : {"fetched"}, by : Person, on : SUBSET Switch]
             \cup [pc : {"admitted", "deleting"}, by : Person] \cup Writes

WorkOK ==
    /\ work \in [AdminRequest -> Works]
    /\ toggles \in [Person -> [Switch -> Nat]] /\ unruled \in BOOLEAN

\* A request past its UPDATE holds the row, which is as it needs it.
HeldInv ==
    \A r \in AdminRequest :
        work[r].pc \in {"key", "commit"} =>
            /\ locker[work[r].whom] = r
            /\ account[work[r].whom].state = IF work[r].kind = "create" THEN "free" ELSE "live"

\* A user whose switches are read exists and is not the one who reads; a founder exists.
StateInv ==
    /\ \A r \in AdminRequest :
          work[r] \in Writes /\ work[r].kind = "toggle" =>
              work[r].whom # work[r].by /\ account[work[r].whom].state # "free"
    /\ \A p \in Founder : account[p].state # "free"

\* Unless two requests had read a switch, the one that has knows how it is.
ReadInv ==
    \A p \in Person, s \in Switch :
        <<p, s>> \notin crossed =>
            /\ \A q, r \in Reading(p, s) : q = r
            /\ \A r \in Reading(p, s) : work[r].want <=> s \notin account[p].on

\* The inductive invariant of the administration of users.
UserAdminIInv ==
    /\ UserAdminTypeOK /\ WorkOK /\ HeldInv /\ StateInv /\ ReadInv
    /\ TogglesCounted /\ SomeoneRules

\* What the step of a request says of what it knows.
LEMMA WorkFields ==
    ASSUME WorkOK, NEW r \in AdminRequest
    PROVE  /\ work[r] \in Writes <=> work[r].pc \in {"write", "key", "commit"}
           /\ work[r].pc \in {"admitted", "deleting", "fetched"} => work[r].by \in Person
           /\ work[r].pc = "fetched" => work[r].on \in SUBSET Switch
           /\ work[r].pc \in {"admitted", "deleting"} => work[r] \in [pc : {"admitted", "deleting"}, by : Person]
           /\ work[r].pc = "fetched" => work[r] \in [pc : {"fetched"}, by : Person, on : SUBSET Switch]
           /\ work[r] \in Writes => /\ work[r].by \in Person /\ work[r].whom \in Person
                                    /\ work[r].kind \in {"toggle", "delete", "rename", "create"}
                                    /\ work[r].switch \in Switch /\ work[r].want \in BOOLEAN
                                    /\ work[r].name \in Name
BY DEF WorkOK, Works, Writes

\* A step that has no request read a switch, and changes none.
LEMMA ReadKept ==
    ASSUME ReadInv, account' = account, crossed' = crossed,
           \A q \in AdminRequest :
               work'[q].pc \in {"write", "key", "commit"} /\ work'[q].kind = "toggle" =>
                   /\ work[q].pc \in {"write", "key", "commit"} /\ work[q].kind = "toggle"
                   /\ work'[q].whom = work[q].whom /\ work'[q].switch = work[q].switch
                   /\ work'[q].want = work[q].want
    PROVE  ReadInv'
<1> SUFFICES ASSUME NEW p \in Person, NEW s \in Switch, <<p, s>> \notin crossed
             PROVE  /\ \A q, r \in Reading(p, s)' : q = r
                    /\ \A r \in Reading(p, s)' : work'[r].want <=> s \notin account[p].on
  BY DEF ReadInv
<1>1. \A r \in Reading(p, s)' : r \in Reading(p, s) /\ work'[r].want = work[r].want
  BY DEF Reading, Writing
<1>2. /\ \A q, r \in Reading(p, s) : q = r
      /\ \A r \in Reading(p, s) : work[r].want <=> s \notin account[p].on
  BY DEF ReadInv
<1>3. QED
  BY <1>1, <1>2

\* A copy that is dropped leaves the others.
LEMMA CopyDropped ==
    ASSUME NEW C, NEW f \in [Person -> C \cup {NoCopy}], NEW p \in Person
    PROVE  [f EXCEPT ![p] = NoCopy] \in [Person -> C \cup {NoCopy}]
OBVIOUS

\* One step of a write under way keeps all it knows.
LEMMA NextStep ==
    ASSUME WorkOK, NEW r \in AdminRequest, work[r] \in Writes, NEW pc \in {"key", "commit"},
           work' = [work EXCEPT ![r].pc = pc]
    PROVE  /\ work' \in [AdminRequest -> Works]
           /\ \A q \in AdminRequest : q # r => work'[q] = work[q]
           /\ work'[r] \in Writes /\ work'[r].pc = pc /\ work'[r].by = work[r].by
           /\ work'[r].whom = work[r].whom /\ work'[r].kind = work[r].kind
           /\ work'[r].switch = work[r].switch /\ work'[r].want = work[r].want
           /\ work'[r].name = work[r].name
<1>1. work' = [work EXCEPT ![r] = [work[r] EXCEPT !.pc = pc]]
  BY DEF WorkOK
<1>2. [work[r] EXCEPT !.pc = pc] \in Writes
  BY DEF Writes
<1>3. QED
  BY <1>1, <1>2 DEF WorkOK, Works, Writes

\* FetchUser (get_current_user) keeps the invariant.
LEMMA FetchUserStep ==
    ASSUME UserAdminIInv, NEW r \in AdminRequest, NEW by \in Person,
           FetchUser(r, by)
    PROVE  UserAdminIInv'
<1> USE DEF UserAdminIInv
<1>1. UserAdminTypeOK'
  <2>1. account' = account /\ copy' = copy /\ locker' = locker
    BY DEF FetchUser
  <2>2. \A q \in AdminRequest : q # r => work'[q] = work[q]
    BY DEF FetchUser, WorkOK
  <2>3. work[r].pc \notin {"key", "commit"}
    BY DEF FetchUser
  <2>4. received' \in 0..MaxAdminRequests
    BY UserAdminAssumption DEF FetchUser, UserAdminTypeOK
  <2>5. ASSUME NEW q \in Person, locker[q] # Nobody
        PROVE  work'[locker[q]].pc \in {"key", "commit"} /\ work'[locker[q]].whom = q
    BY <2>2, <2>3, <2>5 DEF UserAdminTypeOK
  <2>6. QED
    BY <2>1, <2>4, <2>5 DEF UserAdminTypeOK, Live
<1>2. WorkOK'
  BY WorkFields, UserAdminAssumption DEF FetchUser, WorkOK, UserAdminTypeOK,
    Live, NoCopy, History, Works, Switch, AccountRow, Writes
<1>3. HeldInv'
  BY WorkFields, UserAdminAssumption DEF FetchUser, HeldInv, UserAdminTypeOK,
    WorkOK, Live, NoCopy, History, AccountRow, Switch, Works, Writes
<1>4. StateInv'
  BY WorkFields, UserAdminAssumption DEF FetchUser, StateInv, UserAdminTypeOK,
    WorkOK, Live, NoCopy, History, Writes, AccountRow, Switch, Works
<1>5. ReadInv'
  <2>1. \A q \in AdminRequest : q # r => work'[q] = work[q]
    BY DEF FetchUser, WorkOK
  <2>2. work'[r].pc \notin {"write", "key", "commit"}
    BY WorkFields DEF FetchUser, WorkOK, Idle, Admitted
  <2>3. account' = account /\ crossed' = crossed
    BY DEF FetchUser, History
  <2>4. QED
    BY <2>1, <2>2, <2>3, ReadKept
<1>6. TogglesCounted' /\ SomeoneRules'
  BY DEF FetchUser, History, TogglesCounted, SomeoneRules, Switch, Ruler,
    Live, Rules
<1> QED
  BY <1>1, <1>2, <1>3, <1>4, <1>5, <1>6

\* KeepCopy (get_jwt_user) keeps the invariant.
LEMMA KeepCopyStep ==
    ASSUME UserAdminIInv, NEW r \in AdminRequest, KeepCopy(r)
    PROVE  UserAdminIInv'
<1> USE DEF UserAdminIInv
<1>1. UserAdminTypeOK'
  BY WorkFields, UserAdminAssumption DEF KeepCopy, UserAdminTypeOK, WorkOK,
    Deletes, Admitted, Idle, History, AccountRow, Switch, NoCopy, Live, Works,
    Rules, Writes
<1>2. WorkOK'
  BY WorkFields, UserAdminAssumption DEF KeepCopy, WorkOK, UserAdminTypeOK,
    Deletes, Admitted, Idle, History, Works, Switch, AccountRow, NoCopy, Live,
    Rules, Writes
<1>3. HeldInv'
  BY WorkFields, UserAdminAssumption DEF KeepCopy, HeldInv, UserAdminTypeOK,
    WorkOK, Deletes, Admitted, Idle, History, AccountRow, Switch, NoCopy,
    Live, Works, Rules, Writes
<1>4. StateInv'
  BY WorkFields, UserAdminAssumption DEF KeepCopy, StateInv, UserAdminTypeOK,
    WorkOK, Deletes, Admitted, Idle, History, Writes, AccountRow, Switch,
    NoCopy, Live, Works, Rules
<1>5. ReadInv'
  <2>1. \A q \in AdminRequest : q # r => work'[q] = work[q]
    BY DEF KeepCopy, WorkOK
  <2>2. work'[r].pc \notin {"write", "key", "commit"}
    BY WorkFields DEF KeepCopy, WorkOK, Idle, Admitted
  <2>3. account' = account /\ crossed' = crossed
    BY DEF KeepCopy, History
  <2>4. QED
    BY <2>1, <2>2, <2>3, ReadKept
<1>6. TogglesCounted' /\ SomeoneRules'
  BY DEF KeepCopy, History, TogglesCounted, SomeoneRules, Switch, Ruler, Live,
    Rules
<1> QED
  BY <1>1, <1>2, <1>3, <1>4, <1>5, <1>6

\* UseCopy (get_jwt_user) keeps the invariant.
LEMMA UseCopyStep ==
    ASSUME UserAdminIInv, NEW r \in AdminRequest, NEW by \in Person,
           UseCopy(r, by)
    PROVE  UserAdminIInv'
<1> USE DEF UserAdminIInv
<1>1. UserAdminTypeOK'
  <2>1. account' = account /\ copy' = copy /\ locker' = locker
    BY DEF UseCopy
  <2>2. \A q \in AdminRequest : q # r => work'[q] = work[q]
    BY DEF UseCopy, WorkOK
  <2>3. work[r].pc \notin {"key", "commit"}
    BY DEF UseCopy
  <2>4. received' \in 0..MaxAdminRequests
    BY UserAdminAssumption DEF UseCopy, UserAdminTypeOK
  <2>5. ASSUME NEW q \in Person, locker[q] # Nobody
        PROVE  work'[locker[q]].pc \in {"key", "commit"} /\ work'[locker[q]].whom = q
    BY <2>2, <2>3, <2>5 DEF UserAdminTypeOK
  <2>6. QED
    BY <2>1, <2>4, <2>5 DEF UserAdminTypeOK, Live
<1>2. WorkOK'
  BY WorkFields, UserAdminAssumption DEF UseCopy, WorkOK, UserAdminTypeOK,
    Live, NoCopy, Deletes, Admitted, History, Works, Switch, AccountRow,
    Rules, Writes
<1>3. HeldInv'
  BY WorkFields, UserAdminAssumption DEF UseCopy, HeldInv, UserAdminTypeOK,
    WorkOK, Live, NoCopy, Deletes, Admitted, History, AccountRow, Switch,
    Works, Rules, Writes
<1>4. StateInv'
  BY WorkFields, UserAdminAssumption DEF UseCopy, StateInv, UserAdminTypeOK,
    WorkOK, Live, NoCopy, Deletes, Admitted, History, Writes, AccountRow,
    Switch, Works, Rules
<1>5. ReadInv'
  <2>1. \A q \in AdminRequest : q # r => work'[q] = work[q]
    BY DEF UseCopy, WorkOK
  <2>2. work'[r].pc \notin {"write", "key", "commit"}
    BY WorkFields DEF UseCopy, WorkOK, Idle, Admitted
  <2>3. account' = account /\ crossed' = crossed
    BY DEF UseCopy, History
  <2>4. QED
    BY <2>1, <2>2, <2>3, ReadKept
<1>6. TogglesCounted' /\ SomeoneRules'
  BY DEF UseCopy, History, TogglesCounted, SomeoneRules, Switch, Ruler, Live,
    Rules
<1> QED
  BY <1>1, <1>2, <1>3, <1>4, <1>5, <1>6

\* CopyLapses (get_jwt_user) keeps the invariant.
LEMMA CopyLapsesStep ==
    ASSUME UserAdminIInv, NEW p \in Person, CopyLapses(p)
    PROVE  UserAdminIInv'
<1> USE DEF UserAdminIInv
<1>1. UserAdminTypeOK'
  <2>1. copy' \in [Person -> (SUBSET Switch) \cup {NoCopy}]
    BY CopyDropped DEF CopyLapses, UserAdminTypeOK
  <2>2. UNCHANGED <<account, locker, work, received>>
    BY DEF CopyLapses
  <2>3. QED
    BY <2>1, <2>2 DEF UserAdminTypeOK, Live
<1>2. WorkOK' /\ HeldInv' /\ StateInv' /\ ReadInv' /\ TogglesCounted' /\ SomeoneRules'
  BY DEF CopyLapses, History, WorkOK, HeldInv, StateInv, ReadInv,
    TogglesCounted, SomeoneRules, Works, Switch, Writes, Reading, Ruler,
    Writing, Live, Rules
<1> QED
  BY <1>1, <1>2

\* ReadSwitch (UserService.update_permission) keeps the invariant.
LEMMA ReadSwitchStep ==
    ASSUME UserAdminIInv, NEW r \in AdminRequest, NEW p \in Person, NEW s \in
           Switch, ReadSwitch(r, p, s)
    PROVE  UserAdminIInv'
<1> USE DEF UserAdminIInv
<1>1. UserAdminTypeOK'
  <2>1. account' = account /\ copy' = copy /\ locker' = locker
    BY DEF ReadSwitch
  <2>2. \A q \in AdminRequest : q # r => work'[q] = work[q]
    BY DEF ReadSwitch, WorkOK
  <2>3. work[r].pc \notin {"key", "commit"}
    BY DEF ReadSwitch
  <2>4. received' \in 0..MaxAdminRequests
    BY UserAdminAssumption DEF ReadSwitch, UserAdminTypeOK
  <2>5. ASSUME NEW q \in Person, locker[q] # Nobody
        PROVE  work'[locker[q]].pc \in {"key", "commit"} /\ work'[locker[q]].whom = q
    BY <2>2, <2>3, <2>5 DEF UserAdminTypeOK
  <2>6. QED
    BY <2>1, <2>4, <2>5 DEF UserAdminTypeOK, Live
<1>2. WorkOK'
  BY WorkFields, UserAdminAssumption DEF ReadSwitch, WorkOK, UserAdminTypeOK,
    Live, Reading, Works, Switch, AccountRow, NoCopy, Writing, Writes
<1>3. HeldInv'
  BY WorkFields, UserAdminAssumption DEF ReadSwitch, HeldInv, UserAdminTypeOK,
    WorkOK, Live, Reading, AccountRow, Switch, NoCopy, Works, Writing, Writes
<1>4. StateInv'
  BY WorkFields, UserAdminAssumption DEF ReadSwitch, StateInv,
    UserAdminTypeOK, WorkOK, Live, Reading, Writes, AccountRow, Switch,
    NoCopy, Works, Writing
<1>5. ReadInv'
  <2>1. /\ work[r].pc = "admitted" /\ account' = account
        /\ work'[r].pc = "write" /\ work'[r].kind = "toggle" /\ work'[r].whom = p
        /\ work'[r].switch = s /\ (work'[r].want <=> s \notin account[p].on)
        /\ \A q \in AdminRequest : q # r => work'[q] = work[q]
        /\ crossed' = IF Reading(p, s) = {} THEN crossed ELSE crossed \cup {<<p, s>>}
    BY DEF ReadSwitch, WorkOK
  <2> SUFFICES ASSUME NEW x \in Person, NEW y \in Switch, <<x, y>> \notin crossed'
               PROVE  /\ \A q, z \in Reading(x, y)' : q = z
                      /\ \A z \in Reading(x, y)' : work'[z].want <=> y \notin account[x].on
    BY <2>1 DEF ReadInv
  <2>2. <<x, y>> \notin crossed
    BY <2>1
  <2>3. CASE x = p /\ y = s
    <3>1. Reading(x, y) = {}
      BY <2>1, <2>3
    <3>2. ASSUME NEW q \in Reading(x, y)' PROVE q = r
      <4>1. q # r => q \in Reading(x, y)
        BY <2>1 DEF Reading, Writing
      <4>2. QED
        BY <3>1, <4>1
    <3>3. work'[r].want <=> y \notin account[x].on
      BY <2>1, <2>3
    <3>4. \A z \in Reading(x, y)' : work'[z].want <=> y \notin account[x].on
      BY <3>2, <3>3
    <3>5. QED
      BY <3>2, <3>4
  <2>4. CASE ~(x = p /\ y = s)
    <3>1. \A q \in Reading(x, y)' : q \in Reading(x, y) /\ work'[q].want = work[q].want
      BY <2>1, <2>4 DEF Reading, Writing
    <3>2. /\ \A q, z \in Reading(x, y) : q = z
          /\ \A z \in Reading(x, y) : work[z].want <=> y \notin account[x].on
      BY <2>2 DEF ReadInv
    <3>3. QED
      BY <3>1, <3>2
  <2>5. QED
    BY <2>3, <2>4
<1>6. TogglesCounted'
  <2>1. account' = account /\ toggles' = toggles /\ crossed \subseteq crossed'
    BY DEF ReadSwitch
  <2>2. QED
    BY <2>1 DEF TogglesCounted
<1>7. SomeoneRules'
  BY DEF ReadSwitch, SomeoneRules, Ruler, Live, Rules, Switch
<1> QED
  BY <1>1, <1>2, <1>3, <1>4, <1>5, <1>6, <1>7

\* ReadName (UserService.create, update) keeps the invariant.
LEMMA ReadNameStep ==
    ASSUME UserAdminIInv, NEW r \in AdminRequest, NEW p \in Person, NEW n \in
           Name, ReadName(r, p, n)
    PROVE  UserAdminIInv'
<1> USE DEF UserAdminIInv
<1>1. UserAdminTypeOK'
  BY WorkFields, UserAdminAssumption DEF ReadName, UserAdminTypeOK, WorkOK,
    Live, Writing, History, AccountRow, Switch, NoCopy, Works, Writes
<1>2. WorkOK'
  BY WorkFields, UserAdminAssumption DEF ReadName, WorkOK, UserAdminTypeOK,
    Live, Writing, History, Works, Switch, AccountRow, NoCopy, Writes
<1>3. HeldInv'
  BY WorkFields, UserAdminAssumption DEF ReadName, HeldInv, UserAdminTypeOK,
    WorkOK, Live, Writing, History, AccountRow, Switch, NoCopy, Works, Writes
<1>4. StateInv'
  BY WorkFields, UserAdminAssumption DEF ReadName, StateInv, UserAdminTypeOK,
    WorkOK, Live, Writing, History, Writes, AccountRow, Switch, NoCopy, Works
<1>5. ReadInv'
  <2>1. \A q \in AdminRequest : q # r => work'[q] = work[q]
    BY DEF ReadName, WorkOK
  <2>2. work'[r].kind # "toggle"
    BY WorkFields DEF ReadName, WorkOK, Idle, Admitted
  <2>3. account' = account /\ crossed' = crossed
    BY DEF ReadName, History
  <2>4. QED
    BY <2>1, <2>2, <2>3, ReadKept
<1>6. TogglesCounted' /\ SomeoneRules'
  BY DEF ReadName, History, TogglesCounted, SomeoneRules, Switch, Ruler, Live,
    Rules
<1> QED
  BY <1>1, <1>2, <1>3, <1>4, <1>5, <1>6

\* ReadToDelete (UserService.delete) keeps the invariant.
LEMMA ReadToDeleteStep ==
    ASSUME UserAdminIInv, NEW r \in AdminRequest, NEW p \in Person,
           ReadToDelete(r, p)
    PROVE  UserAdminIInv'
<1> USE DEF UserAdminIInv
<1>1. UserAdminTypeOK'
  BY WorkFields, UserAdminAssumption DEF ReadToDelete, UserAdminTypeOK,
    WorkOK, Live, History, AccountRow, Switch, NoCopy, Works, Writes
<1>2. WorkOK'
  BY WorkFields, UserAdminAssumption DEF ReadToDelete, WorkOK,
    UserAdminTypeOK, Live, History, Works, Switch, AccountRow, NoCopy, Writes
<1>3. HeldInv'
  BY WorkFields, UserAdminAssumption DEF ReadToDelete, HeldInv,
    UserAdminTypeOK, WorkOK, Live, History, AccountRow, Switch, NoCopy, Works,
    Writes
<1>4. StateInv'
  BY WorkFields, UserAdminAssumption DEF ReadToDelete, StateInv,
    UserAdminTypeOK, WorkOK, Live, History, Writes, AccountRow, Switch,
    NoCopy, Works
<1>5. ReadInv'
  <2>1. \A q \in AdminRequest : q # r => work'[q] = work[q]
    BY DEF ReadToDelete, WorkOK
  <2>2. work'[r].kind # "toggle"
    BY WorkFields DEF ReadToDelete, WorkOK, Idle, Admitted
  <2>3. account' = account /\ crossed' = crossed
    BY DEF ReadToDelete, History
  <2>4. QED
    BY <2>1, <2>2, <2>3, ReadKept
<1>6. TogglesCounted' /\ SomeoneRules'
  BY DEF ReadToDelete, History, TogglesCounted, SomeoneRules, Switch, Ruler,
    Live, Rules
<1> QED
  BY <1>1, <1>2, <1>3, <1>4, <1>5, <1>6

\* WriteAccount (CRUDUser.set_super, set_staff, set_status, set_multi_login,
\* delete) keeps the invariant.
LEMMA WriteAccountStep ==
    ASSUME UserAdminIInv, NEW r \in AdminRequest, WriteAccount(r)
    PROVE  UserAdminIInv'
<1> USE DEF UserAdminIInv
<1>1. UserAdminTypeOK'
  <2> DEFINE p == work[r].whom
             fits == /\ account[p].state = (IF work[r].kind = "create" THEN "free" ELSE "live")
                     /\ ~NameTaken(r)
  <2>0. /\ work[r].pc = "write" /\ work[r] \in Writes /\ p \in Person /\ locker[p] = Nobody
        /\ account' = account /\ copy' = copy /\ received' = received /\ UNCHANGED History
    BY WorkFields DEF WriteAccount
  <2>1. CASE fits
    <3>1. work' = [work EXCEPT ![r].pc = "key"] /\ locker' = [locker EXCEPT ![p] = r]
      BY <2>1 DEF WriteAccount
    <3>2. /\ work' \in [AdminRequest -> Works] /\ work'[r] \in Writes /\ work'[r].pc = "key"
          /\ work'[r].whom = p /\ work'[r].kind = work[r].kind /\ work'[r].by = work[r].by
          /\ work'[r].switch = work[r].switch /\ work'[r].want = work[r].want
          /\ \A q \in AdminRequest : q # r => work'[q] = work[q]
      BY <2>0, <3>1, NextStep
    <3>3. QED
      BY <2>0, <2>1, <3>1, <3>2, UserAdminAssumption DEF UserAdminTypeOK, Live
  <2>2. CASE ~fits
    <3>1. work' = [work EXCEPT ![r] = Idle] /\ locker' = locker
      BY <2>2 DEF WriteAccount
    <3>2. work'[r] = Idle /\ \A q \in AdminRequest : q # r => work'[q] = work[q]
      BY <3>1 DEF WorkOK
    <3>3. QED
      BY <2>0, <3>1, <3>2, UserAdminAssumption DEF UserAdminTypeOK, Live, Idle
  <2>3. QED
    BY <2>1, <2>2
<1>2. WorkOK'
  <2> DEFINE p == work[r].whom
             fits == /\ account[p].state = (IF work[r].kind = "create" THEN "free" ELSE "live")
                     /\ ~NameTaken(r)
  <2>0. /\ work[r].pc = "write" /\ work[r] \in Writes /\ p \in Person /\ locker[p] = Nobody
        /\ account' = account /\ copy' = copy /\ received' = received /\ UNCHANGED History
    BY WorkFields DEF WriteAccount
  <2>1. CASE fits
    <3>1. work' = [work EXCEPT ![r].pc = "key"] /\ locker' = [locker EXCEPT ![p] = r]
      BY <2>1 DEF WriteAccount
    <3>2. /\ work' \in [AdminRequest -> Works] /\ work'[r] \in Writes /\ work'[r].pc = "key"
          /\ work'[r].whom = p /\ work'[r].kind = work[r].kind /\ work'[r].by = work[r].by
          /\ work'[r].switch = work[r].switch /\ work'[r].want = work[r].want
          /\ \A q \in AdminRequest : q # r => work'[q] = work[q]
      BY <2>0, <3>1, NextStep
    <3>3. QED
      BY <2>0, <2>1, <3>1, <3>2, UserAdminAssumption DEF WorkOK, History
  <2>2. CASE ~fits
    <3>1. work' = [work EXCEPT ![r] = Idle] /\ locker' = locker
      BY <2>2 DEF WriteAccount
    <3>2. work'[r] = Idle /\ \A q \in AdminRequest : q # r => work'[q] = work[q]
      BY <3>1 DEF WorkOK
    <3>3. QED
      BY <2>0, <3>1, <3>2, UserAdminAssumption DEF WorkOK, History, Works, Idle
  <2>3. QED
    BY <2>1, <2>2
<1>3. HeldInv'
  <2> DEFINE p == work[r].whom
             fits == /\ account[p].state = (IF work[r].kind = "create" THEN "free" ELSE "live")
                     /\ ~NameTaken(r)
  <2>0. /\ work[r].pc = "write" /\ work[r] \in Writes /\ p \in Person /\ locker[p] = Nobody
        /\ account' = account /\ copy' = copy /\ received' = received /\ UNCHANGED History
    BY WorkFields DEF WriteAccount
  <2>1. CASE fits
    <3>1. work' = [work EXCEPT ![r].pc = "key"] /\ locker' = [locker EXCEPT ![p] = r]
      BY <2>1 DEF WriteAccount
    <3>2. /\ work' \in [AdminRequest -> Works] /\ work'[r] \in Writes /\ work'[r].pc = "key"
          /\ work'[r].whom = p /\ work'[r].kind = work[r].kind /\ work'[r].by = work[r].by
          /\ work'[r].switch = work[r].switch /\ work'[r].want = work[r].want
          /\ \A q \in AdminRequest : q # r => work'[q] = work[q]
      BY <2>0, <3>1, NextStep
    <3>3. QED
      BY <2>0, <2>1, <3>1, <3>2, UserAdminAssumption DEF HeldInv, UserAdminTypeOK
  <2>2. CASE ~fits
    <3>1. work' = [work EXCEPT ![r] = Idle] /\ locker' = locker
      BY <2>2 DEF WriteAccount
    <3>2. work'[r] = Idle /\ \A q \in AdminRequest : q # r => work'[q] = work[q]
      BY <3>1 DEF WorkOK
    <3>3. QED
      BY <2>0, <3>1, <3>2, UserAdminAssumption DEF HeldInv, Idle
  <2>3. QED
    BY <2>1, <2>2
<1>4. StateInv'
  <2> DEFINE p == work[r].whom
             fits == /\ account[p].state = (IF work[r].kind = "create" THEN "free" ELSE "live")
                     /\ ~NameTaken(r)
  <2>0. /\ work[r].pc = "write" /\ work[r] \in Writes /\ p \in Person /\ locker[p] = Nobody
        /\ account' = account /\ copy' = copy /\ received' = received /\ UNCHANGED History
    BY WorkFields DEF WriteAccount
  <2>1. CASE fits
    <3>1. work' = [work EXCEPT ![r].pc = "key"] /\ locker' = [locker EXCEPT ![p] = r]
      BY <2>1 DEF WriteAccount
    <3>2. /\ work' \in [AdminRequest -> Works] /\ work'[r] \in Writes /\ work'[r].pc = "key"
          /\ work'[r].whom = p /\ work'[r].kind = work[r].kind /\ work'[r].by = work[r].by
          /\ work'[r].switch = work[r].switch /\ work'[r].want = work[r].want
          /\ \A q \in AdminRequest : q # r => work'[q] = work[q]
      BY <2>0, <3>1, NextStep
    <3>3. QED
      BY <2>0, <2>1, <3>1, <3>2, UserAdminAssumption DEF StateInv
  <2>2. CASE ~fits
    <3>1. work' = [work EXCEPT ![r] = Idle] /\ locker' = locker
      BY <2>2 DEF WriteAccount
    <3>2. work'[r] = Idle /\ \A q \in AdminRequest : q # r => work'[q] = work[q]
      BY <3>1 DEF WorkOK
    <3>3. QED
      BY <2>0, <3>1, <3>2, UserAdminAssumption DEF StateInv, Idle, Writes
  <2>3. QED
    BY <2>1, <2>2
<1>5. ReadInv'
  <2> DEFINE p == work[r].whom
             fits == /\ account[p].state = (IF work[r].kind = "create" THEN "free" ELSE "live")
                     /\ ~NameTaken(r)
  <2>0. /\ work[r].pc = "write" /\ work[r] \in Writes /\ p \in Person /\ locker[p] = Nobody
        /\ account' = account /\ copy' = copy /\ received' = received /\ UNCHANGED History
    BY WorkFields DEF WriteAccount
  <2>1. CASE fits
    <3>1. work' = [work EXCEPT ![r].pc = "key"] /\ locker' = [locker EXCEPT ![p] = r]
      BY <2>1 DEF WriteAccount
    <3>2. /\ work' \in [AdminRequest -> Works] /\ work'[r] \in Writes /\ work'[r].pc = "key"
          /\ work'[r].whom = p /\ work'[r].kind = work[r].kind /\ work'[r].by = work[r].by
          /\ work'[r].switch = work[r].switch /\ work'[r].want = work[r].want
          /\ \A q \in AdminRequest : q # r => work'[q] = work[q]
      BY <2>0, <3>1, NextStep
    <3>3. QED
      BY <2>0, <2>1, <3>1, <3>2, UserAdminAssumption, ReadKept DEF History
  <2>2. CASE ~fits
    <3>1. work' = [work EXCEPT ![r] = Idle] /\ locker' = locker
      BY <2>2 DEF WriteAccount
    <3>2. work'[r] = Idle /\ \A q \in AdminRequest : q # r => work'[q] = work[q]
      BY <3>1 DEF WorkOK
    <3>3. QED
      BY <2>0, <3>1, <3>2, UserAdminAssumption, ReadKept DEF History, Idle
  <2>3. QED
    BY <2>1, <2>2
<1>6. TogglesCounted' /\ SomeoneRules'
  BY DEF WriteAccount, History, TogglesCounted, SomeoneRules, Switch, Ruler,
    Live, Rules
<1> QED
  BY <1>1, <1>2, <1>3, <1>4, <1>5, <1>6

\* DropCopy (UserService.update_permission) keeps the invariant.
LEMMA DropCopyStep ==
    ASSUME UserAdminIInv, NEW r \in AdminRequest, DropCopy(r)
    PROVE  UserAdminIInv'
<1> USE DEF UserAdminIInv
<1>1. UserAdminTypeOK'
  <2>1. /\ work[r].pc = "key" /\ work[r] \in Writes /\ work[r].whom \in Person
        /\ copy' = [copy EXCEPT ![work[r].whom] = NoCopy]
        /\ account' = account /\ locker' = locker /\ received' = received /\ UNCHANGED History
    BY WorkFields DEF DropCopy
  <2>2. /\ work' \in [AdminRequest -> Works] /\ work'[r] \in Writes /\ work'[r].pc = "commit"
        /\ work'[r].whom = work[r].whom /\ work'[r].kind = work[r].kind /\ work'[r].by = work[r].by
        /\ work'[r].switch = work[r].switch /\ work'[r].want = work[r].want
        /\ \A q \in AdminRequest : q # r => work'[q] = work[q]
    BY <2>1, NextStep DEF DropCopy
  <2>3. copy' \in [Person -> (SUBSET Switch) \cup {NoCopy}]
    BY <2>1, CopyDropped DEF UserAdminTypeOK
  <2>4. QED
    BY <2>1, <2>2, <2>3 DEF UserAdminTypeOK, Live
<1>2. WorkOK'
  <2>1. /\ work[r].pc = "key" /\ work[r] \in Writes /\ work[r].whom \in Person
        /\ copy' = [copy EXCEPT ![work[r].whom] = NoCopy]
        /\ account' = account /\ locker' = locker /\ received' = received /\ UNCHANGED History
    BY WorkFields DEF DropCopy
  <2>2. /\ work' \in [AdminRequest -> Works] /\ work'[r] \in Writes /\ work'[r].pc = "commit"
        /\ work'[r].whom = work[r].whom /\ work'[r].kind = work[r].kind /\ work'[r].by = work[r].by
        /\ work'[r].switch = work[r].switch /\ work'[r].want = work[r].want
        /\ \A q \in AdminRequest : q # r => work'[q] = work[q]
    BY <2>1, NextStep DEF DropCopy
  <2>3. QED
    BY <2>1, <2>2 DEF WorkOK, History
<1>3. HeldInv'
  <2>1. /\ work[r].pc = "key" /\ work[r] \in Writes /\ work[r].whom \in Person
        /\ copy' = [copy EXCEPT ![work[r].whom] = NoCopy]
        /\ account' = account /\ locker' = locker /\ received' = received /\ UNCHANGED History
    BY WorkFields DEF DropCopy
  <2>2. /\ work' \in [AdminRequest -> Works] /\ work'[r] \in Writes /\ work'[r].pc = "commit"
        /\ work'[r].whom = work[r].whom /\ work'[r].kind = work[r].kind /\ work'[r].by = work[r].by
        /\ work'[r].switch = work[r].switch /\ work'[r].want = work[r].want
        /\ \A q \in AdminRequest : q # r => work'[q] = work[q]
    BY <2>1, NextStep DEF DropCopy
  <2>3. QED
    BY <2>1, <2>2 DEF HeldInv
<1>4. StateInv'
  <2>1. /\ work[r].pc = "key" /\ work[r] \in Writes /\ work[r].whom \in Person
        /\ copy' = [copy EXCEPT ![work[r].whom] = NoCopy]
        /\ account' = account /\ locker' = locker /\ received' = received /\ UNCHANGED History
    BY WorkFields DEF DropCopy
  <2>2. /\ work' \in [AdminRequest -> Works] /\ work'[r] \in Writes /\ work'[r].pc = "commit"
        /\ work'[r].whom = work[r].whom /\ work'[r].kind = work[r].kind /\ work'[r].by = work[r].by
        /\ work'[r].switch = work[r].switch /\ work'[r].want = work[r].want
        /\ \A q \in AdminRequest : q # r => work'[q] = work[q]
    BY <2>1, NextStep DEF DropCopy
  <2>3. QED
    BY <2>1, <2>2 DEF StateInv
<1>5. ReadInv'
  <2>1. /\ work[r].pc = "key" /\ work[r] \in Writes /\ work[r].whom \in Person
        /\ copy' = [copy EXCEPT ![work[r].whom] = NoCopy]
        /\ account' = account /\ locker' = locker /\ received' = received /\ UNCHANGED History
    BY WorkFields DEF DropCopy
  <2>2. /\ work' \in [AdminRequest -> Works] /\ work'[r] \in Writes /\ work'[r].pc = "commit"
        /\ work'[r].whom = work[r].whom /\ work'[r].kind = work[r].kind /\ work'[r].by = work[r].by
        /\ work'[r].switch = work[r].switch /\ work'[r].want = work[r].want
        /\ \A q \in AdminRequest : q # r => work'[q] = work[q]
    BY <2>1, NextStep DEF DropCopy
  <2>3. QED
    BY <2>1, <2>2, ReadKept DEF History
<1>6. TogglesCounted' /\ SomeoneRules'
  BY DEF DropCopy, History, TogglesCounted, SomeoneRules, Switch, Ruler, Live,
    Rules
<1> QED
  BY <1>1, <1>2, <1>3, <1>4, <1>5, <1>6

\* RollBack (get_db_transaction) keeps the invariant.
LEMMA RollBackStep ==
    ASSUME UserAdminIInv, NEW r \in AdminRequest, RollBack(r)
    PROVE  UserAdminIInv'
<1> USE DEF UserAdminIInv
<1>1. UserAdminTypeOK'
  <2>1. /\ account' = account /\ copy' = copy /\ received' = received
        /\ locker' = [q \in Person |-> IF locker[q] = r THEN Nobody ELSE locker[q]]
        /\ \A q \in AdminRequest : q # r => work'[q] = work[q]
    BY DEF RollBack, WorkOK
  <2>2. locker' \in [Person -> AdminRequest \cup {Nobody}]
    BY <2>1 DEF UserAdminTypeOK
  <2>3. ASSUME NEW q \in Person, locker'[q] # Nobody
        PROVE  work'[locker'[q]].pc \in {"key", "commit"} /\ work'[locker'[q]].whom = q
    <3>1. locker[q] # r /\ locker'[q] = locker[q] /\ locker[q] \in AdminRequest
      BY <2>1, <2>3 DEF UserAdminTypeOK
    <3>2. QED
      BY <2>1, <2>3, <3>1 DEF UserAdminTypeOK
  <2>4. QED
    BY <2>1, <2>2, <2>3 DEF UserAdminTypeOK, Live
<1>2. WorkOK'
  BY WorkFields, UserAdminAssumption DEF RollBack, WorkOK, UserAdminTypeOK,
    Idle, History, Works, Switch, AccountRow, NoCopy, Live, Writes
<1>3. HeldInv'
  BY WorkFields, UserAdminAssumption DEF RollBack, HeldInv, UserAdminTypeOK,
    WorkOK, Idle, History, AccountRow, Switch, NoCopy, Live, Works, Writes
<1>4. StateInv'
  BY WorkFields, UserAdminAssumption DEF RollBack, StateInv, UserAdminTypeOK,
    WorkOK, Idle, History, Writes, AccountRow, Switch, NoCopy, Live, Works
<1>5. ReadInv'
  <2>1. \A q \in AdminRequest : q # r => work'[q] = work[q]
    BY DEF RollBack, WorkOK
  <2>2. work'[r].pc \notin {"write", "key", "commit"}
    BY WorkFields DEF RollBack, WorkOK, Idle, Admitted
  <2>3. account' = account /\ crossed' = crossed
    BY DEF RollBack, History
  <2>4. QED
    BY <2>1, <2>2, <2>3, ReadKept
<1>6. TogglesCounted' /\ SomeoneRules'
  BY DEF RollBack, History, TogglesCounted, SomeoneRules, Switch, Ruler, Live,
    Rules
<1> QED
  BY <1>1, <1>2, <1>3, <1>4, <1>5, <1>6

\* CommitAccount (CRUDUser.add) keeps the invariant.
LEMMA CommitAccountStep ==
    ASSUME UserAdminIInv, NEW r \in AdminRequest, CommitAccount(r)
    PROVE  UserAdminIInv'
<1> USE DEF UserAdminIInv
<1> DEFINE p == work[r].whom
           k == work[r].kind
           w == work[r].switch
<1>1. /\ work[r].pc = "commit" /\ work[r] \in Writes /\ p \in Person /\ w \in Switch
      /\ work[r].by \in Person /\ work[r].name \in Name /\ work[r].want \in BOOLEAN
      /\ k \in {"toggle", "delete", "rename", "create"}
      /\ locker[p] = r /\ account[p].state = IF k = "create" THEN "free" ELSE "live"
  BY WorkFields DEF CommitAccount, HeldInv
<1>2. /\ work' = [work EXCEPT ![r] = Idle] /\ locker' = [locker EXCEPT ![p] = Nobody]
      /\ copy' = copy /\ received' = received /\ crossed' = crossed
  BY DEF CommitAccount
<1>3. work'[r] = Idle /\ \A q \in AdminRequest : q # r => work'[q] = work[q]
  BY <1>2 DEF WorkOK
<1>4. work' \in [AdminRequest -> Works] /\ locker' \in [Person -> AdminRequest \cup {Nobody}]
  BY <1>2 DEF WorkOK, Works, Idle, UserAdminTypeOK
<1>5. \A q \in AdminRequest : q # r /\ work[q].pc \in {"key", "commit"} => work[q].whom # p
  BY <1>1 DEF HeldInv
<1>6. \A q \in Person : locker'[q] # Nobody =>
          work'[locker'[q]].pc \in {"key", "commit"} /\ work'[locker'[q]].whom = q
  <2> SUFFICES ASSUME NEW q \in Person, locker'[q] # Nobody
               PROVE  work'[locker'[q]].pc \in {"key", "commit"} /\ work'[locker'[q]].whom = q
    OBVIOUS
  <2>1. q # p /\ locker'[q] = locker[q] /\ locker[q] \in AdminRequest
    BY <1>2 DEF UserAdminTypeOK
  <2>2. work[locker[q]].pc \in {"key", "commit"} /\ work[locker[q]].whom = q
    BY <2>1 DEF UserAdminTypeOK
  <2>3. QED
    BY <1>3, <2>1, <2>2
<1>7. CASE NameTaken(r)
  <2>1. account' = account /\ toggles' = toggles /\ unruled' = unruled
    BY <1>7 DEF CommitAccount
  <2>2. UserAdminTypeOK'
    BY <1>2, <1>4, <1>6, <2>1 DEF UserAdminTypeOK, Live
  <2>3. WorkOK'
    BY <1>4, <2>1 DEF WorkOK
  <2>4. HeldInv'
    BY <1>2, <1>3, <1>5, <2>1, WorkFields DEF HeldInv, Idle, UserAdminTypeOK
  <2>5. StateInv'
    BY <1>3, <2>1 DEF StateInv, Idle, Writes
  <2>6. ReadInv'
    BY <1>2, <1>3, <2>1, ReadKept DEF Idle
  <2>7. TogglesCounted' /\ SomeoneRules'
    BY <1>2, <2>1 DEF TogglesCounted, SomeoneRules, Ruler, Live
  <2>8. QED
    BY <2>2, <2>3, <2>4, <2>5, <2>6, <2>7
<1>8. CASE ~NameTaken(r)
  <2> DEFINE a == account[p]
             b == account'[p]
  <2>1. /\ account' = [account EXCEPT ![p] = Altered(a, work[r])]
        /\ toggles' = IF k = "toggle" THEN [toggles EXCEPT ![p][w] = @ + 1] ELSE toggles
        /\ unruled' = (unruled \/ (Ruler(p) /\ (k = "delete" \/ ~Ruler(work[r].by))))
    BY <1>8 DEF CommitAccount, UserAdminTypeOK
  <2>2. a \in AccountRow
    BY <1>1 DEF UserAdminTypeOK
  <2>3. /\ b \in AccountRow
        /\ k = "toggle" => /\ b.state = a.state /\ b.name = a.name
                           /\ b.on = IF work[r].want THEN a.on \cup {w} ELSE a.on \ {w}
        /\ k = "delete" => b.state = "gone" /\ b.name = a.name /\ b.on = a.on
        /\ k = "rename" => b.state = a.state /\ b.name = work[r].name /\ b.on = a.on
        /\ k = "create" => b.state = "live" /\ b.name = work[r].name
    <3>1. b = Altered(a, work[r])
      BY <1>1, <2>1 DEF UserAdminTypeOK
    <3>2. CASE k = "toggle"
      BY <1>1, <2>2, <3>1, <3>2 DEF Altered, AccountRow
    <3>3. CASE k = "delete"
      BY <1>1, <2>2, <3>1, <3>3 DEF Altered, AccountRow
    <3>4. CASE k = "rename"
      BY <1>1, <2>2, <3>1, <3>4 DEF Altered, AccountRow
    <3>5. CASE k = "create"
      BY <1>1, <2>2, <3>1, <3>5 DEF Altered, AccountRow, Switch
    <3>6. QED
      BY <1>1, <3>2, <3>3, <3>4, <3>5
  <2>4. \A q \in Person : q # p => account'[q] = account[q]
    BY <2>1 DEF UserAdminTypeOK
  <2> HIDE DEF b
  <2>5. UserAdminTypeOK'
    <3>1. account' \in [Person -> AccountRow]
      BY <2>1, <2>3, <2>4 DEF UserAdminTypeOK, b
    <3>2. ASSUME NEW x \in Live', NEW y \in Live', account'[x].name = account'[y].name
          PROVE  x = y
      <4>1. ASSUME NEW q \in Live', q # p, account'[p].name = account'[q].name, p \in Live' PROVE FALSE
        <5>1. q \in Live /\ account'[q].name = account[q].name
          BY <2>4, <4>1 DEF Live
        <5>2. CASE k \in {"rename", "create"}
          BY <1>8, <2>3, <4>1, <5>1, <5>2 DEF NameTaken, b
        <5>3. CASE k = "toggle"
          <6>1. p \in Live /\ account'[p].name = account[p].name
            BY <1>1, <2>3, <5>3 DEF Live, b
          <6>2. QED
            BY <4>1, <5>1, <6>1 DEF UserAdminTypeOK
        <5>4. CASE k = "delete"
          BY <2>3, <4>1, <5>4 DEF Live, b
        <5>5. QED
          BY <1>1, <5>2, <5>3, <5>4
      <4>2. CASE x # p /\ y # p
        BY <2>4, <3>2, <4>2 DEF Live, UserAdminTypeOK
      <4>3. QED
        BY <3>2, <4>1, <4>2
    <3>3. QED
      BY <1>2, <1>4, <1>6, <3>1, <3>2 DEF UserAdminTypeOK
  <2>6. WorkOK'
    <3>1. toggles' \in [Person -> [Switch -> Nat]]
      BY <1>1, <2>1 DEF WorkOK
    <3>2. unruled' \in BOOLEAN
      BY <2>1 DEF WorkOK
    <3>3. QED
      BY <1>4, <3>1, <3>2 DEF WorkOK
  <2>7. HeldInv'
    <3>1. ASSUME NEW q \in AdminRequest, work'[q].pc \in {"key", "commit"}
          PROVE  /\ locker'[work'[q].whom] = q
                 /\ account'[work'[q].whom].state = IF work'[q].kind = "create" THEN "free" ELSE "live"
      <4>1. q # r /\ work'[q] = work[q]
        BY <1>3, <3>1 DEF Idle
      <4>2. work[q].whom # p /\ work[q].whom \in Person
        BY <1>5, <3>1, <4>1, WorkFields
      <4>3. locker'[work[q].whom] = locker[work[q].whom]
        BY <1>2, <4>2 DEF UserAdminTypeOK
      <4>4. QED
        BY <2>4, <3>1, <4>1, <4>2, <4>3 DEF HeldInv
    <3>2. QED
      BY <3>1 DEF HeldInv
  <2>8. \A q \in Person : account[q].state # "free" => account'[q].state # "free"
    BY <1>1, <2>3, <2>4 DEF b
  <2>9. StateInv'
    <3>1. \A q \in Founder : account'[q].state # "free"
      BY <2>8, UserAdminAssumption DEF StateInv
    <3>2. ASSUME NEW q \in AdminRequest, work'[q] \in Writes, work'[q].kind = "toggle"
          PROVE  work'[q].whom # work'[q].by /\ account'[work'[q].whom].state # "free"
      <4>1. q # r /\ work'[q] = work[q]
        BY <1>3, <3>2 DEF Idle, Writes
      <4>2. QED
        BY <2>8, <3>2, <4>1, WorkFields DEF StateInv
    <3>3. QED
      BY <3>1, <3>2 DEF StateInv
  <2>10. ReadInv'
    <3> SUFFICES ASSUME NEW x \in Person, NEW y \in Switch, <<x, y>> \notin crossed
                 PROVE  /\ \A q, z \in Reading(x, y)' : q = z
                        /\ \A z \in Reading(x, y)' : work'[z].want <=> y \notin account'[x].on
      BY <1>2 DEF ReadInv
    <3>1. \A z \in Reading(x, y)' : z \in Reading(x, y) /\ z # r /\ work'[z].want = work[z].want
      BY <1>3 DEF Reading, Writing, Idle
    <3>2. /\ \A q, z \in Reading(x, y) : q = z
          /\ \A z \in Reading(x, y) : work[z].want <=> y \notin account[x].on
      BY DEF ReadInv
    <3>3. ASSUME NEW z \in Reading(x, y)' PROVE y \in account'[x].on <=> y \in account[x].on
      <4>1. CASE x # p
        BY <2>4, <4>1
      <4>2. CASE x = p
        <5>1. r \notin Reading(x, y)
          BY <3>1, <3>2
        <5>2. k = "toggle" => w # y
          BY <1>1, <4>2, <5>1 DEF Reading, Writing
        <5>3. k # "create"
          <6>1. account[x].state # "free"
            BY <3>1, WorkFields DEF Reading, Writing, StateInv
          <6>2. QED
            BY <1>1, <4>2, <6>1
        <5>4. QED
          BY <1>1, <2>3, <4>2, <5>2, <5>3 DEF b
      <4>3. QED
        BY <4>1, <4>2
    <3>4. QED
      BY <3>1, <3>2, <3>3
  <2>11. TogglesCounted'
    <3> SUFFICES ASSUME NEW x \in Founder, NEW y \in Switch, <<x, y>> \notin crossed
                 PROVE  y \in account'[x].on <=> toggles'[x][y] % 2 = 0
      BY <1>2 DEF TogglesCounted
    <3>1. x \in Person /\ (y \in account[x].on <=> toggles[x][y] % 2 = 0) /\ toggles[x][y] \in Nat
      BY UserAdminAssumption DEF TogglesCounted, WorkOK
    <3>2. CASE k = "toggle" /\ x = p /\ y = w
      <4>1. work[r].want <=> y \notin account[x].on
        BY <1>1, <3>1, <3>2 DEF ReadInv, Reading, Writing
      <4>2. y \in account'[x].on <=> y \notin account[x].on
        BY <2>3, <3>2, <4>1 DEF b
      <4>3. toggles'[x][y] = toggles[x][y] + 1
        BY <1>1, <2>1, <3>1, <3>2 DEF WorkOK
      <4>4. (toggles[x][y] + 1) % 2 = 0 <=> ~(toggles[x][y] % 2 = 0)
        BY <3>1
      <4>5. QED
        BY <3>1, <4>2, <4>3, <4>4
    <3>3. CASE ~(k = "toggle" /\ x = p /\ y = w)
      <4>1. toggles'[x][y] = toggles[x][y]
        BY <1>1, <2>1, <3>1, <3>3 DEF WorkOK
      <4>2. y \in account'[x].on <=> y \in account[x].on
        <5>1. CASE x # p
          BY <2>4, <3>1, <5>1
        <5>2. CASE x = p
          <6>1. k # "create"
            BY <1>1, <5>2 DEF StateInv
          <6>2. QED
            BY <1>1, <2>3, <3>3, <5>2, <6>1 DEF b
        <5>3. QED
          BY <5>1, <5>2
      <4>3. QED
        BY <3>1, <4>1, <4>2
    <3>4. QED
      BY <3>2, <3>3
  <2>12. SomeoneRules'
    <3> SUFFICES ASSUME Founder # {}, ~unruled' PROVE \E q \in Person : Ruler(q)'
      BY DEF SomeoneRules
    <3>1. ~unruled /\ ~(Ruler(p) /\ (k = "delete" \/ ~Ruler(work[r].by)))
      BY <2>1
    <3>2. PICK z \in Person : Ruler(z)
      BY <3>1 DEF SomeoneRules
    <3>3. \A q \in Person : q # p /\ Ruler(q) => Ruler(q)'
      BY <2>4 DEF Ruler, Live
    <3>4. CASE z # p
      BY <3>2, <3>3, <3>4
    <3>5. CASE z = p
      <4>1. k \in {"toggle", "rename"}
        BY <1>1, <3>1, <3>2, <3>5 DEF Ruler, Live
      <4>2. CASE k = "toggle"
        BY <1>1, <3>1, <3>2, <3>3, <3>5, <4>2 DEF StateInv
      <4>3. CASE k = "rename"
        <5>1. Ruler(z)'
          BY <1>1, <2>3, <3>2, <3>5, <4>3 DEF Ruler, Live, b
        <5>2. QED
          BY <1>1, <5>1
      <4>4. QED
        BY <4>1, <4>2, <4>3
    <3>6. QED
      BY <3>4, <3>5
  <2>13. QED
    BY <2>5, <2>6, <2>7, <2>9, <2>10, <2>11, <2>12
<1>9. QED
  BY <1>7, <1>8

\* The initial state satisfies the invariant.
LEMMA UserAdminInitInv == UserAdminInit => UserAdminIInv
<1> SUFFICES ASSUME UserAdminInit PROVE UserAdminIInv
  OBVIOUS
<1> DEFINE first == CHOOSE n \in Name : TRUE
<1>1. first \in Name
  BY UserAdminAssumption
<1> HIDE DEF first
<1>2. account = [p \in Person |-> [state |-> IF p \in Founder THEN "live" ELSE "free",
                                   name  |-> IF p \in Founder THEN FirstName[p] ELSE first,
                                   on    |-> IF p \in Founder THEN Switch ELSE {}]]
  BY DEF UserAdminInit, first
<1>3. account \in [Person -> AccountRow]
  BY <1>1, <1>2, UserAdminAssumption DEF AccountRow
<1>4. \A p \in Person : /\ account[p].state = "live" <=> p \in Founder
                        /\ p \in Founder => account[p].name = FirstName[p] /\ account[p].on = Switch
  BY <1>2
<1>5. UserAdminTypeOK
  <2>1. \A p, q \in Live : account[p].name = account[q].name => p = q
    BY <1>4, UserAdminAssumption DEF Live
  <2>2. received \in 0..MaxAdminRequests
    BY UserAdminAssumption DEF UserAdminInit
  <2>3. /\ locker \in [Person -> AdminRequest \cup {Nobody}] /\ \A p \in Person : locker[p] = Nobody
        /\ copy \in [Person -> (SUBSET Switch) \cup {NoCopy}]
    BY DEF UserAdminInit
  <2>4. QED
    BY <1>3, <2>1, <2>2, <2>3 DEF UserAdminTypeOK
<1>6. WorkOK
  BY DEF UserAdminInit, WorkOK, Works, Idle
<1>7. HeldInv /\ StateInv /\ ReadInv
  BY <1>4, UserAdminAssumption
     DEF UserAdminInit, HeldInv, StateInv, ReadInv, Reading, Writing, Idle, Writes
<1>8. TogglesCounted
  <2>1. \A p \in Founder, s \in Switch : s \in account[p].on /\ toggles[p][s] = 0
    BY <1>4, UserAdminAssumption DEF UserAdminInit
  <2>2. QED
    BY <2>1 DEF TogglesCounted
<1>9. SomeoneRules
  BY <1>4, UserAdminAssumption DEF SomeoneRules, Ruler, Rules, Live
<1>10. QED
  BY <1>5, <1>6, <1>7, <1>8, <1>9 DEF UserAdminIInv

\* Every step keeps it.
LEMMA UserAdminNextInv == UserAdminIInv /\ [UserAdminNext]_adminVars => UserAdminIInv'
<1> SUFFICES ASSUME UserAdminIInv, [UserAdminNext]_adminVars PROVE UserAdminIInv'
  OBVIOUS
<1>1. CASE UNCHANGED adminVars
  BY <1>1 DEF adminVars, UserAdminIInv, UserAdminTypeOK, WorkOK, HeldInv, StateInv, ReadInv,
     TogglesCounted, SomeoneRules, Live, Reading, Writing, Ruler
<1>2. QED
  BY <1>1, FetchUserStep, KeepCopyStep, UseCopyStep, CopyLapsesStep, ReadSwitchStep, ReadNameStep,
     ReadToDeleteStep, WriteAccountStep, DropCopyStep, CommitAccountStep, RollBackStep
     DEF UserAdminNext

\* The inductive invariant of the administration of users holds in every
\* reachable state.
THEOREM UserAdminInductive == UserAdminSpec => []UserAdminIInv
BY UserAdminInitInv, UserAdminNextInv, PTL DEF UserAdminSpec

\* However the requests interleave, a committed toggle turned its switch over
\* unless two requests had read it, live names differ, and someone can still
\* administer the users unless a superuser was deleted or put down by one who
\* had lost that right.
THEOREM UserAdminSafe == UserAdminSpec => []UserAdminInv
<1>1. UserAdminIInv => UserAdminInv
  BY DEF UserAdminIInv, UserAdminInv
<1>2. QED
  BY <1>1, UserAdminInductive, PTL
-----------------------------------------------------------------------------
(* The rate limiter.                                                         *)

LimiterSpec == LimiterInit /\ [][LimiterNext]_limiterVars

LimIdle    == [pc : {"new", "done"}]
LimRunning == [pc : {"get", "put"} \cup Locking, id : Identifier, at : 0..MaxNow, victim : Identifier]
LimBucket  == [id : Identifier, seen : 0..MaxNow]

LimReqsOK == lreq \in [LimitRequest -> LimIdle \cup LimRunning]

LimStampsOK ==
    /\ now \in 0..MaxNow
    /\ stamps \in [Identifier -> SUBSET Stamp] /\ admitted \in [Identifier -> SUBSET Stamp]
    /\ leaked \in [Identifier -> 0..MaxNow] /\ crossing \subseteq Identifier
    /\ \A k \in Identifier : IsFiniteSet(stamps[k])

LimBucketsOK ==
    /\ buckets \in Seq(LimBucket)
    /\ \A i, j \in 1..Len(buckets) : buckets[i].id = buckets[j].id => i = j

\* The lock of the cache has one holder.
OneEvicts ==
    \A q, r \in LimitRequest : lreq[q].pc \in Locking /\ lreq[r].pc \in Locking => q = r

\* Between the count of a bucket and its flush nothing is put in it, but by
\* the requests the history names.
FlushEmpty ==
    \A r \in LimitRequest : lreq[r].pc = "flush" =>
        lreq[r].victim \in crossing \/ stamps[lreq[r].victim] = {}

\* A stamp that was admitted is in its bucket, or older than the interval of
\* the latest leak.
LeakedOld ==
    \A k \in Identifier \ crossing : \A s \in admitted[k] :
        s \in stamps[k] \/ s.at <= leaked[k] - RateInterval

\* The inductive invariant of the limiter.
LimiterIInv ==
    /\ LimReqsOK /\ LimStampsOK /\ LimBucketsOK
    /\ OneEvicts /\ CacheKept /\ FlushEmpty /\ LeakedOld /\ WithinRate

AllBut(s, i) == SubSeq(s, 1, i - 1) \o SubSeq(s, i + 1, Len(s))

\* Two sequences in a row, and a sequence without its i-th element.
LEMMA ConcatParts ==
    ASSUME NEW S, NEW a \in Seq(S), NEW b \in Seq(S)
    PROVE  /\ a \o b \in Seq(S) /\ Len(a \o b) = Len(a) + Len(b)
           /\ \A j \in 1..Len(a) : (a \o b)[j] = a[j]
           /\ \A j \in 1..Len(b) : (a \o b)[Len(a) + j] = b[j]
<1>1. Len(a) \in Nat /\ Len(b) \in Nat /\ a \o b \in Seq(S) /\ Len(a \o b) = Len(a) + Len(b)
  OBVIOUS
<1>2. ASSUME NEW j \in 1..Len(a) PROVE (a \o b)[j] = a[j]
  BY <1>1
<1>3. ASSUME NEW j \in 1..Len(b) PROVE (a \o b)[Len(a) + j] = b[j]
  BY <1>1
<1>4. QED
  BY <1>1, <1>2, <1>3

\* A sequence without the element at i.
LEMMA WithoutOne ==
    ASSUME NEW S, NEW s \in Seq(S), NEW i \in 1..Len(s)
    PROVE  /\ AllBut(s, i) \in Seq(S) /\ Len(AllBut(s, i)) = Len(s) - 1 /\ Len(s) \in Nat
           /\ \A j \in 1..Len(AllBut(s, i)) : AllBut(s, i)[j] = IF j < i THEN s[j] ELSE s[j + 1]
<1> DEFINE t == AllBut(s, i)
           a == SubSeq(s, 1, i - 1)
           b == SubSeq(s, i + 1, Len(s))
<1>1. Len(s) \in Nat /\ i \in Nat /\ 1 <= i /\ i <= Len(s)
  OBVIOUS
<1>2. a \in Seq(S) /\ Len(a) = i - 1 /\ \A j \in 1..(i - 1) : a[j] = s[j]
  BY <1>1
<1>3. b \in Seq(S) /\ Len(b) = Len(s) - i /\ \A j \in 1..(Len(s) - i) : b[j] = s[i + j]
  BY <1>1
<1>4. t = a \o b
  BY DEF AllBut
<1> HIDE DEF t, a, b
<1>5. /\ a \o b \in Seq(S) /\ Len(a \o b) = Len(a) + Len(b)
      /\ \A j \in 1..Len(a) : (a \o b)[j] = a[j]
      /\ \A j \in 1..Len(b) : (a \o b)[Len(a) + j] = b[j]
  <2>1. a \in Seq(S) /\ b \in Seq(S)
    BY <1>2, <1>3
  <2>2. QED
    BY <2>1, ConcatParts
<1>6. t \in Seq(S) /\ Len(t) = Len(s) - 1
  <2>1. Len(a) + Len(b) = Len(s) - 1
    BY <1>1, <1>2, <1>3
  <2>2. QED
    BY <1>4, <1>5, <2>1
<1>7. ASSUME NEW j \in 1..Len(t) PROVE t[j] = IF j < i THEN s[j] ELSE s[j + 1]
  <2>1. j \in Nat /\ 1 <= j /\ j <= Len(s) - 1
    BY <1>1, <1>6
  <2>2. CASE j < i
    <3>1. j \in 1..(i - 1) /\ j \in 1..Len(a)
      BY <1>1, <1>2, <2>1, <2>2
    <3>2. QED
      BY <1>2, <1>4, <1>5, <2>2, <3>1
  <2>3. CASE ~(j < i)
    <3> DEFINE m == j - (i - 1)
    <3>1. m \in 1..(Len(s) - i) /\ i + m = j + 1 /\ Len(a) + m = j
      BY <1>1, <1>2, <2>1, <2>3
    <3> HIDE DEF m
    <3>2. (a \o b)[j] = b[m] /\ b[m] = s[j + 1]
      BY <1>3, <1>5, <3>1
    <3>3. QED
      BY <1>4, <2>3, <3>2
  <2>4. QED
    BY <2>2, <2>3
<1>8. QED
  BY <1>1, <1>6, <1>7 DEF t

\* Without a bucket, and with a new one at the end, the identifiers are still
\* different.
LEMMA BucketsWithout ==
    ASSUME LimBucketsOK, NEW i \in 1..Len(buckets)
    PROVE  /\ BucketsBut(i) \in Seq(LimBucket) /\ Len(BucketsBut(i)) = Len(buckets) - 1
           /\ Len(buckets) \in Nat \ {0}
           /\ \A j \in 1..Len(BucketsBut(i)) : BucketsBut(i)[j].id # buckets[i].id
           /\ \A j, m \in 1..Len(BucketsBut(i)) : BucketsBut(i)[j].id = BucketsBut(i)[m].id => j = m
<1> DEFINE t == BucketsBut(i)
<1>1. /\ t \in Seq(LimBucket) /\ Len(t) = Len(buckets) - 1 /\ Len(buckets) \in Nat
      /\ \A j \in 1..Len(t) : t[j] = IF j < i THEN buckets[j] ELSE buckets[j + 1]
  <2>1. t = AllBut(buckets, i)
    BY DEF BucketsBut, AllBut
  <2> HIDE DEF t
  <2>2. buckets \in Seq(LimBucket)
    BY DEF LimBucketsOK
  <2>3. QED
    BY <2>1, <2>2, WithoutOne
<1> HIDE DEF t
<1>2. \A j, m \in 1..Len(buckets) : buckets[j].id = buckets[m].id => j = m
  BY DEF LimBucketsOK
<1>3. ASSUME NEW j \in 1..Len(t) PROVE t[j].id # buckets[i].id
  BY <1>1, <1>2
<1>4. ASSUME NEW j \in 1..Len(t), NEW m \in 1..Len(t), t[j].id = t[m].id PROVE j = m
  BY <1>1, <1>2, <1>4
<1>5. QED
  BY <1>1, <1>3, <1>4 DEF t

\* A bucket that is new to the cache is appended, and identifiers stay
\* unique.
LEMMA BucketsAppend ==
    ASSUME NEW s \in Seq(LimBucket), NEW b \in LimBucket, NEW t, t = Append(s, b),
           \A j \in 1..Len(s) : s[j].id # b.id,
           \A j, m \in 1..Len(s) : s[j].id = s[m].id => j = m
    PROVE  /\ t \in Seq(LimBucket) /\ Len(t) = Len(s) + 1 /\ Len(s) \in Nat
           /\ \A j, m \in 1..Len(t) : t[j].id = t[m].id => j = m
<1>1. /\ t \in Seq(LimBucket) /\ Len(t) = Len(s) + 1 /\ Len(s) \in Nat
      /\ \A j \in 1..Len(s) : t[j] = s[j]
      /\ t[Len(s) + 1] = b
  OBVIOUS
<1>2. ASSUME NEW j \in 1..Len(t), NEW m \in 1..Len(t), t[j].id = t[m].id PROVE j = m
  <2>1. j \in 1..Len(s) \/ j = Len(s) + 1
    BY <1>1
  <2>2. m \in 1..Len(s) \/ m = Len(s) + 1
    BY <1>1
  <2>3. QED
    BY <1>1, <1>2, <2>1, <2>2
<1>3. QED
  BY <1>1, <1>2

\* A request that takes a step.
LEMMA LimStepTo ==
    ASSUME LimReqsOK, NEW r \in LimitRequest, NEW from, NEW to \in {"get", "put"} \cup Locking,
           from \notin {"new", "done"}, StepTo(r, from, to)
    PROVE  /\ LimReqsOK' /\ lreq[r] \in LimRunning /\ lreq[r].pc = from /\ lreq'[r].pc = to
           /\ lreq'[r].victim = lreq[r].victim
           /\ \A q \in LimitRequest : q # r => lreq'[q] = lreq[q]
<1>1. lreq[r] \in LimRunning /\ lreq[r].pc = from
  BY DEF LimReqsOK, StepTo, LimIdle
<1>2. lreq' = [lreq EXCEPT ![r] = [lreq[r] EXCEPT !.pc = to]]
  BY DEF StepTo
<1>3. /\ [lreq[r] EXCEPT !.pc = to] \in LimRunning /\ [lreq[r] EXCEPT !.pc = to].pc = to
      /\ [lreq[r] EXCEPT !.pc = to].victim = lreq[r].victim
  BY <1>1 DEF LimRunning
<1>4. /\ lreq'[r] = [lreq[r] EXCEPT !.pc = to]
      /\ \A q \in LimitRequest : q # r => lreq'[q] = lreq[q]
      /\ lreq' \in [LimitRequest -> LimIdle \cup LimRunning]
  BY <1>2, <1>3 DEF LimReqsOK
<1>5. QED
  BY <1>1, <1>3, <1>4 DEF LimReqsOK

\* What holds of the stamps is kept by a step that leaves them alone, and
\* sends nobody to flush.
LEMMA LimStampsKept ==
    ASSUME LimiterIInv, UNCHANGED <<stamps, admitted, leaked, crossing>>, now' \in 0..MaxNow,
           \A q \in LimitRequest : lreq'[q].pc = "flush" => lreq'[q] = lreq[q]
    PROVE  LimStampsOK' /\ FlushEmpty' /\ LeakedOld' /\ WithinRate'
<1>1. LimStampsOK'
  BY DEF LimiterIInv, LimStampsOK, Stamp
<1>2. FlushEmpty'
  BY DEF LimiterIInv, FlushEmpty
<1>3. LeakedOld'
  BY DEF LimiterIInv, LeakedOld
<1>4. WithinRate'
  BY DEF LimiterIInv, WithinRate
<1>5. QED
  BY <1>1, <1>2, <1>3, <1>4

\* A request arrives at the limiter.
LEMMA LimArrives ==
    ASSUME LimiterIInv, NEW r \in LimitRequest, NEW k \in Identifier, NEW pc \in {"get", "put"},
           Arrives(r, pc, k), UNCHANGED <<now, stamps, buckets, admitted, leaked, crossing>>
    PROVE  LimiterIInv'
<1> DEFINE q0 == [pc |-> pc, id |-> k, at |-> now, victim |-> k]
<1>1. q0 \in LimRunning /\ q0.pc \notin Locking
  BY DEF LimRunning, LimiterIInv, LimStampsOK, Locking
<1>2. lreq' = [lreq EXCEPT ![r] = q0] /\ lreq[r].pc \notin Locking
  BY DEF Arrives, Locking
<1> HIDE DEF q0
<1>3. /\ LimReqsOK' /\ lreq'[r] = q0 /\ \A q \in LimitRequest : q # r => lreq'[q] = lreq[q]
  BY <1>1, <1>2 DEF LimiterIInv, LimReqsOK
<1>4. LimBucketsOK'
  BY DEF LimiterIInv, LimBucketsOK
<1>5. OneEvicts'
  BY <1>1, <1>3 DEF LimiterIInv, OneEvicts
<1>6. CacheKept'
  BY <1>1, <1>2, <1>3 DEF LimiterIInv, CacheKept
<1>7. LimStampsOK' /\ FlushEmpty' /\ LeakedOld' /\ WithinRate'
  <2>1. now' \in 0..MaxNow /\ UNCHANGED <<stamps, admitted, leaked, crossing>>
    BY DEF LimiterIInv, LimStampsOK
  <2>2. \A q \in LimitRequest : lreq'[q].pc = "flush" => lreq'[q] = lreq[q]
    BY <1>1, <1>3 DEF Locking
  <2>3. QED
    BY <2>1, <2>2, LimStampsKept
<1>8. QED
  BY <1>3, <1>4, <1>5, <1>6, <1>7 DEF LimiterIInv

\* GetBucket (RedisBucketFactory.get, get_bucket) keeps the invariant.
LEMMA GetBucketStep ==
    ASSUME LimiterIInv, NEW r \in LimitRequest, GetBucket(r)
    PROVE  LimiterIInv'
<1> DEFINE k == lreq[r].id
           b == [id |-> k, seen |-> lreq[r].at]
<1>1. /\ lreq[r].pc = "get" /\ \A q \in LimitRequest : lreq[q].pc \notin Locking
      /\ UNCHANGED <<now, stamps, admitted, leaked, crossing>>
  BY DEF GetBucket
<1>2. \/ \E i \in 1..Len(buckets) :
            buckets[i].id = k /\ StepTo(r, "get", "put") /\ buckets' = Append(BucketsBut(i), b)
      \/ /\ \A i \in 1..Len(buckets) : buckets[i].id # k
         /\ StepTo(r, "get", "evict") /\ buckets' = Append(buckets, b)
  BY DEF GetBucket
<1>3. /\ LimReqsOK' /\ lreq[r] \in LimRunning /\ lreq'[r].pc \in {"put", "evict"}
      /\ \A q \in LimitRequest : q # r => lreq'[q] = lreq[q]
  BY <1>2, LimStepTo DEF LimiterIInv, Locking
<1>4. b \in LimBucket /\ b.id = k
  BY <1>3 DEF LimRunning, LimBucket
<1> HIDE DEF k, b
<1>5. LimBucketsOK' /\ CacheKept'
  <2>1. ASSUME NEW i \in 1..Len(buckets), buckets[i].id = k, StepTo(r, "get", "put"),
               buckets' = Append(BucketsBut(i), b)
        PROVE  LimBucketsOK' /\ CacheKept'
    <3>1. /\ BucketsBut(i) \in Seq(LimBucket) /\ Len(BucketsBut(i)) = Len(buckets) - 1
          /\ Len(buckets) \in Nat \ {0}
          /\ \A j \in 1..Len(BucketsBut(i)) : BucketsBut(i)[j].id # b.id
          /\ \A j, m \in 1..Len(BucketsBut(i)) : BucketsBut(i)[j].id = BucketsBut(i)[m].id => j = m
      BY <1>4, <2>1, BucketsWithout DEF LimiterIInv
    <3>2. /\ buckets' \in Seq(LimBucket) /\ Len(buckets') = Len(BucketsBut(i)) + 1
          /\ \A j, m \in 1..Len(buckets') : buckets'[j].id = buckets'[m].id => j = m
      BY <1>4, <2>1, <3>1, BucketsAppend
    <3>3. Len(buckets') = Len(buckets) /\ Len(buckets) <= CacheMax
      BY <1>1, <3>1, <3>2 DEF LimiterIInv, CacheKept
    <3>4. QED
      BY <3>2, <3>3 DEF LimBucketsOK, CacheKept
  <2>2. ASSUME \A i \in 1..Len(buckets) : buckets[i].id # k, StepTo(r, "get", "evict"),
               buckets' = Append(buckets, b)
        PROVE  LimBucketsOK' /\ CacheKept'
    <3>1. /\ buckets' \in Seq(LimBucket)
          /\ \A j, m \in 1..Len(buckets') : buckets'[j].id = buckets'[m].id => j = m
      BY <1>4, <2>2, BucketsAppend DEF LimiterIInv, LimBucketsOK
    <3>2. lreq'[r].pc \in Locking
      BY <2>2, LimStepTo DEF LimiterIInv, Locking
    <3>3. QED
      BY <3>1, <3>2 DEF LimBucketsOK, CacheKept
  <2>3. QED
    BY <1>2, <2>1, <2>2
<1>6. OneEvicts'
  BY <1>1, <1>3 DEF OneEvicts
<1>7. LimStampsOK' /\ FlushEmpty' /\ LeakedOld' /\ WithinRate'
  <2>1. now' \in 0..MaxNow /\ UNCHANGED <<stamps, admitted, leaked, crossing>>
    BY <1>1 DEF LimiterIInv, LimStampsOK
  <2>2. \A q \in LimitRequest : lreq'[q].pc = "flush" => lreq'[q] = lreq[q]
    BY <1>3
  <2>3. QED
    BY <2>1, <2>2, LimStampsKept
<1>8. QED
  BY <1>3, <1>5, <1>6, <1>7 DEF LimiterIInv

\* What is left when some stamps of a bucket are taken out of it: none are
\* added, and those in the interval of the latest leak stay.
LEMMA LimStampsLess ==
    ASSUME LimiterIInv, NEW k \in Identifier, NEW S \in SUBSET stamps[k],
           stamps' = [stamps EXCEPT ![k] = S], UNCHANGED <<now, admitted, crossing>>,
           leaked' \in [Identifier -> 0..MaxNow],
           \A x \in Identifier : leaked[x] <= leaked'[x],
           k \notin crossing => \A s \in stamps[k] : s \in S \/ s.at <= leaked'[k] - RateInterval
    PROVE  LimStampsOK' /\ LeakedOld' /\ WithinRate'
<1>1. stamps \in [Identifier -> SUBSET Stamp] /\ leaked \in [Identifier -> 0..MaxNow]
  BY DEF LimiterIInv, LimStampsOK
<1>2. /\ stamps'[k] = S /\ \A x \in Identifier : x # k => stamps'[x] = stamps[x]
      /\ stamps' \in [Identifier -> SUBSET Stamp]
  BY <1>1
<1>3. LimStampsOK'
  <2>1. IsFiniteSet(S)
    BY FS_Subset DEF LimiterIInv, LimStampsOK
  <2>2. \A x \in Identifier : IsFiniteSet(stamps'[x])
    BY <1>2, <2>1 DEF LimiterIInv, LimStampsOK
  <2>3. /\ now' \in 0..MaxNow /\ admitted' \in [Identifier -> SUBSET Stamp]
        /\ crossing' \subseteq Identifier
    BY DEF LimiterIInv, LimStampsOK
  <2>4. QED
    BY <1>2, <2>2, <2>3 DEF LimStampsOK, Stamp
<1>4. LeakedOld'
  <2> SUFFICES ASSUME NEW x \in Identifier \ crossing, NEW s \in admitted[x]
               PROVE  s \in stamps'[x] \/ s.at <= leaked'[x] - RateInterval
    BY DEF LeakedOld
  <2>1. s \in Stamp /\ s.at \in Nat /\ leaked[x] \in Nat /\ leaked'[x] \in Nat /\ leaked[x] <= leaked'[x]
    BY <1>1 DEF LimiterIInv, LimStampsOK, Stamp
  <2>2. RateInterval \in Nat
    BY LimiterAssumption
  <2>3. s \in stamps[x] \/ s.at <= leaked[x] - RateInterval
    BY DEF LimiterIInv, LeakedOld
  <2>4. s \in stamps[x] => s \in stamps'[x] \/ s.at <= leaked'[x] - RateInterval
    BY <1>2
  <2>5. QED
    BY <2>1, <2>2, <2>3, <2>4
<1>5. WithinRate'
  BY DEF LimiterIInv, WithinRate
<1>6. QED
  BY <1>3, <1>4, <1>5

\* A request under the lock takes a step and keeps it.
LEMMA LimLocked ==
    ASSUME LimiterIInv, NEW r \in LimitRequest, NEW from \in Locking, NEW to \in Locking,
           StepTo(r, from, to)
    PROVE  OneEvicts' /\ CacheKept'
<1>1. /\ lreq[r].pc \in Locking /\ lreq'[r].pc \in Locking
      /\ \A q \in LimitRequest : q # r => lreq'[q] = lreq[q]
  BY LimStepTo DEF LimiterIInv, Locking
<1>2. OneEvicts'
  BY <1>1 DEF LimiterIInv, OneEvicts
<1>3. CacheKept'
  BY <1>1 DEF CacheKept
<1>4. QED
  BY <1>2, <1>3

\* Evict (RedisBucketFactory._evict) keeps the invariant.
LEMMA EvictStep ==
    ASSUME LimiterIInv, NEW r \in LimitRequest, Evict(r)
    PROVE  LimiterIInv'
<1> DEFINE old == {i \in 1..Len(buckets) : Unseen(buckets[i], lreq[r].at)}
           at == lreq[r].at
<1>1. lreq[r].pc = "evict" /\ UNCHANGED <<now, admitted, crossing>>
  BY DEF Evict
<1>2. lreq[r] \in LimRunning /\ lreq[r] \in [pc : {"get", "put"} \cup Locking, id : Identifier,
                                             at : 0..MaxNow, victim : Identifier]
  BY <1>1 DEF LimiterIInv, LimReqsOK, LimIdle, LimRunning
<1>3. ASSUME NEW i \in 1..Len(buckets), buckets' = BucketsBut(i),
             stamps' = [stamps EXCEPT ![buckets[i].id] = {s \in @ : s.at > at - RateInterval}],
             lreq' = [lreq EXCEPT ![r].pc = "count", ![r].victim = buckets[i].id],
             leaked' = [leaked EXCEPT ![buckets[i].id] = IF @ > at THEN @ ELSE at]
      PROVE  LimiterIInv'
  <2> DEFINE k == buckets[i].id
             S == {s \in stamps[k] : s.at > at - RateInterval}
  <2>1. k \in Identifier
    <3>1. buckets \in Seq(LimBucket) /\ i \in 1..Len(buckets)
      BY DEF LimiterIInv, LimBucketsOK
    <3>2. buckets[i] \in LimBucket
      BY <3>1
    <3>3. QED
      BY <3>2 DEF LimBucket
  <2>2. at \in 0..MaxNow
    BY <1>2
  <2>3. /\ LimReqsOK' /\ lreq'[r].pc = "count"
        /\ \A q \in LimitRequest : q # r => lreq'[q] = lreq[q]
    <3>1. /\ [lreq[r] EXCEPT !.pc = "count", !.victim = k] \in LimRunning
          /\ [lreq[r] EXCEPT !.pc = "count", !.victim = k].pc = "count"
      BY <1>2, <2>1 DEF LimRunning, Locking
    <3>2. lreq' = [lreq EXCEPT ![r] = [lreq[r] EXCEPT !.pc = "count", !.victim = k]]
      BY <1>3
    <3>3. QED
      BY <3>1, <3>2 DEF LimiterIInv, LimReqsOK
  <2>4. stamps' = [stamps EXCEPT ![k] = S]
    BY <1>3
  <2>5. leaked \in [Identifier -> 0..MaxNow] /\ leaked' = [leaked EXCEPT ![k] = IF @ > at THEN @ ELSE at]
    BY <1>3 DEF LimiterIInv, LimStampsOK
  <2> HIDE DEF k, at
  <2>6. /\ leaked' \in [Identifier -> 0..MaxNow] /\ at <= leaked'[k] /\ leaked'[k] \in Nat
        /\ \A x \in Identifier : leaked[x] <= leaked'[x]
    BY <2>1, <2>2, <2>5
  <2>7. \A s \in stamps[k] : s \in S \/ s.at <= leaked'[k] - RateInterval
    <3> SUFFICES ASSUME NEW s \in stamps[k], ~(s.at > at - RateInterval)
                 PROVE  s.at <= leaked'[k] - RateInterval
      OBVIOUS
    <3>1. s.at \in Nat
      BY <2>1 DEF LimiterIInv, LimStampsOK, Stamp
    <3>2. QED
      BY <2>2, <2>6, <3>1, LimiterAssumption
  <2>8. S \in SUBSET stamps[k]
    OBVIOUS
  <2> HIDE DEF S
  <2>9. LimStampsOK' /\ LeakedOld' /\ WithinRate'
    BY <1>1, <2>1, <2>4, <2>6, <2>7, <2>8, LimStampsLess
  <2>10. \A x \in Identifier : stamps'[x] \subseteq stamps[x]
    BY <2>1, <2>4, <2>8 DEF LimiterIInv, LimStampsOK
  <2>11. FlushEmpty'
    <3> SUFFICES ASSUME NEW q \in LimitRequest, lreq'[q].pc = "flush"
                 PROVE  lreq'[q].victim \in crossing' \/ stamps'[lreq'[q].victim] = {}
      BY DEF FlushEmpty
    <3>1. q # r /\ lreq'[q] = lreq[q]
      BY <2>3
    <3>2. lreq[q].victim \in Identifier
      BY <3>1 DEF LimiterIInv, LimReqsOK, LimIdle, LimRunning
    <3>3. QED
      BY <1>1, <2>10, <3>1, <3>2 DEF LimiterIInv, FlushEmpty
  <2>12. LimBucketsOK'
    BY <1>3, BucketsWithout DEF LimiterIInv, LimBucketsOK
  <2>13. OneEvicts'
    BY <1>1, <2>3 DEF LimiterIInv, OneEvicts, Locking
  <2>14. CacheKept'
    BY <2>3 DEF CacheKept, Locking
  <2>15. QED
    BY <2>3, <2>9, <2>11, <2>12, <2>13, <2>14 DEF LimiterIInv
<1>4. ASSUME StepTo(r, "evict", "put"), UNCHANGED <<stamps, leaked>>,
             buckets' = IF Len(buckets) > CacheMax
                        THEN SubSeq(buckets, Len(buckets) - CacheMax + 1, Len(buckets)) ELSE buckets
      PROVE  LimiterIInv'
  <2>1. /\ LimReqsOK' /\ lreq'[r].pc = "put"
        /\ \A q \in LimitRequest : q # r => lreq'[q] = lreq[q]
    BY <1>4, LimStepTo DEF LimiterIInv
  <2>2. LimBucketsOK' /\ Len(buckets') <= CacheMax
    <3>1. /\ buckets \in Seq(LimBucket) /\ Len(buckets) \in Nat /\ CacheMax \in Nat
          /\ \A j, m \in 1..Len(buckets) : buckets[j].id = buckets[m].id => j = m
      BY LimiterAssumption DEF LimiterIInv, LimBucketsOK
    <3>2. CASE Len(buckets) > CacheMax
      <4> DEFINE d == Len(buckets) - CacheMax
      <4>1. /\ buckets' \in Seq(LimBucket) /\ Len(buckets') = CacheMax
            /\ \A j \in 1..CacheMax : buckets'[j] = buckets[j + d]
        BY <1>4, <3>1, <3>2
      <4>2. \A j \in 1..CacheMax : j + d \in 1..Len(buckets)
        BY <3>1, <3>2
      <4> HIDE DEF d
      <4>3. ASSUME NEW j \in 1..CacheMax, NEW m \in 1..CacheMax, buckets'[j].id = buckets'[m].id
            PROVE  j = m
        <5>1. j + d = m + d
          BY <3>1, <4>1, <4>2, <4>3
        <5>2. d \in Int
          BY <3>1 DEF d
        <5>3. QED
          BY <3>1, <5>1, <5>2
      <4>4. QED
        BY <3>1, <4>1, <4>3 DEF LimBucketsOK
    <3>3. CASE ~(Len(buckets) > CacheMax)
      BY <1>4, <3>1, <3>3 DEF LimBucketsOK
    <3>4. QED
      BY <3>2, <3>3
  <2>3. OneEvicts'
    BY <2>1 DEF LimiterIInv, OneEvicts, Locking
  <2>4. CacheKept'
    BY <2>2 DEF CacheKept
  <2>5. LimStampsOK' /\ FlushEmpty' /\ LeakedOld' /\ WithinRate'
    <3>1. now' \in 0..MaxNow /\ UNCHANGED <<stamps, admitted, leaked, crossing>>
      BY <1>1, <1>4 DEF LimiterIInv, LimStampsOK
    <3>2. \A q \in LimitRequest : lreq'[q].pc = "flush" => lreq'[q] = lreq[q]
      BY <2>1
    <3>3. QED
      BY <3>1, <3>2, LimStampsKept
  <2>6. QED
    BY <2>1, <2>2, <2>3, <2>4, <2>5 DEF LimiterIInv
<1>5. QED
  BY <1>3, <1>4 DEF Evict

\* CountStamps (RedisBucketFactory._dispose) keeps the invariant.
LEMMA CountStampsStep ==
    ASSUME LimiterIInv, NEW r \in LimitRequest, CountStamps(r)
    PROVE  LimiterIInv'
<1> DEFINE to == IF stamps[lreq[r].victim] = {} THEN "flush" ELSE "evict"
<1>1. /\ StepTo(r, "count", to) /\ to \in Locking /\ "count" \in Locking
      /\ UNCHANGED <<now, stamps, buckets, admitted, leaked, crossing>>
  BY DEF CountStamps, Locking
<1>2. to = "flush" => stamps[lreq[r].victim] = {}
  OBVIOUS
<1> HIDE DEF to
<1>3. /\ LimReqsOK' /\ lreq'[r].pc = to /\ lreq'[r].victim = lreq[r].victim
      /\ \A q \in LimitRequest : q # r => lreq'[q] = lreq[q]
  BY <1>1, LimStepTo DEF LimiterIInv
<1>4. OneEvicts' /\ CacheKept'
  BY <1>1, LimLocked
<1>5. LimBucketsOK'
  BY <1>1 DEF LimiterIInv, LimBucketsOK
<1>6. LimStampsOK' /\ LeakedOld' /\ WithinRate'
  BY <1>1 DEF LimiterIInv, LimStampsOK, Stamp, LeakedOld, WithinRate
<1>7. FlushEmpty'
  BY <1>1, <1>2, <1>3 DEF LimiterIInv, FlushEmpty
<1>8. QED
  BY <1>3, <1>4, <1>5, <1>6, <1>7 DEF LimiterIInv

\* FlushBucket (RedisBucketFactory._dispose) keeps the invariant.
LEMMA FlushBucketStep ==
    ASSUME LimiterIInv, NEW r \in LimitRequest, FlushBucket(r)
    PROVE  LimiterIInv'
<1> DEFINE k == lreq[r].victim
           q1 == [lreq[r] EXCEPT !.pc = "evict", !.victim = lreq[r].id]
<1>1. /\ lreq[r].pc = "flush" /\ lreq' = [lreq EXCEPT ![r] = q1]
      /\ stamps' = [stamps EXCEPT ![k] = {}] /\ UNCHANGED <<now, buckets, admitted, leaked, crossing>>
  BY DEF FlushBucket
<1>2. lreq[r] \in LimRunning
  BY <1>1 DEF LimiterIInv, LimReqsOK, LimIdle
<1>3. k \in Identifier /\ q1 \in LimRunning /\ q1.pc = "evict"
  BY <1>2 DEF LimRunning, Locking
<1>4. k \in crossing \/ stamps[k] = {}
  BY <1>1 DEF LimiterIInv, FlushEmpty
<1> HIDE DEF k, q1
<1>5. LimReqsOK' /\ lreq'[r] = q1 /\ \A q \in LimitRequest : q # r => lreq'[q] = lreq[q]
  BY <1>1, <1>3 DEF LimiterIInv, LimReqsOK
<1>6. OneEvicts' /\ CacheKept'
  BY <1>1, <1>3, <1>5 DEF LimiterIInv, OneEvicts, CacheKept, Locking
<1>7. LimBucketsOK'
  BY <1>1 DEF LimiterIInv, LimBucketsOK
<1>8. LimStampsOK' /\ LeakedOld' /\ WithinRate'
  <2>1. leaked \in [Identifier -> 0..MaxNow]
    BY DEF LimiterIInv, LimStampsOK
  <2>2. leaked' \in [Identifier -> 0..MaxNow] /\ \A x \in Identifier : leaked[x] <= leaked'[x]
    BY <1>1, <2>1
  <2>3. k \notin crossing => \A s \in stamps[k] : s \in {} \/ s.at <= leaked'[k] - RateInterval
    BY <1>4
  <2>4. {} \in SUBSET stamps[k] /\ UNCHANGED <<now, admitted, crossing>>
    BY <1>1
  <2>5. QED
    BY <1>1, <1>3, <2>2, <2>3, <2>4, LimStampsLess
<1>9. FlushEmpty'
  <2> SUFFICES ASSUME NEW q \in LimitRequest, lreq'[q].pc = "flush"
               PROVE  lreq'[q].victim \in crossing' \/ stamps'[lreq'[q].victim] = {}
    BY DEF FlushEmpty
  <2>1. q # r /\ lreq'[q] = lreq[q]
    BY <1>3, <1>5
  <2>2. lreq[q].victim \in Identifier
    BY <2>1 DEF LimiterIInv, LimReqsOK, LimIdle, LimRunning
  <2>3. \A x \in Identifier : stamps'[x] \subseteq stamps[x]
    BY <1>1, <1>3 DEF LimiterIInv, LimStampsOK
  <2>4. QED
    BY <1>1, <2>1, <2>2, <2>3 DEF LimiterIInv, FlushEmpty
<1>10. QED
  BY <1>5, <1>6, <1>7, <1>8, <1>9 DEF LimiterIInv

\* A request that is let through: what it saw of its interval, it saw in the
\* bucket, unless it came behind a leak.
LEMMA PutStep ==
    ASSUME LimiterIInv, NEW r \in LimitRequest, Put(r)
    PROVE  LimiterIInv'
<1> DEFINE k == lreq[r].id
           s == [at |-> lreq[r].at, by |-> r]
           W == {x \in stamps[k] : x.at > s.at - RateInterval}
           late == {i \in {k} : s.at < leaked[i] \/ \E q \in LimitRequest :
                                    lreq[q].pc = "flush" /\ lreq[q].victim = i}
<1>1. /\ lreq[r].pc = "put" /\ lreq' = [lreq EXCEPT ![r] = [pc |-> "done"]]
      /\ crossing' = crossing \cup late /\ UNCHANGED <<now, buckets, leaked>>
  BY DEF Put
<1>2. \/ /\ Cardinality(W) < RateLimit
         /\ stamps' = [stamps EXCEPT ![k] = @ \cup {s}]
         /\ admitted' = [admitted EXCEPT ![k] = @ \cup {s}]
      \/ UNCHANGED <<stamps, admitted>>
  BY DEF Put
<1>3. lreq[r] \in LimRunning
  BY <1>1 DEF LimiterIInv, LimReqsOK, LimIdle
<1>4. k \in Identifier /\ s \in Stamp /\ s.at \in Nat
  BY <1>3 DEF LimRunning, Stamp
<1>5. k \notin crossing' => k \notin crossing /\ ~(s.at < leaked[k])
  BY <1>1
<1>6. \A q \in LimitRequest : lreq[q].pc = "flush" /\ lreq[q].victim \notin crossing' => lreq[q].victim # k
  BY <1>1
<1>7. crossing \subseteq crossing' /\ crossing' \subseteq Identifier
  BY <1>1, <1>4 DEF LimiterIInv, LimStampsOK
<1>8. /\ LimReqsOK' /\ lreq'[r].pc = "done"
      /\ \A q \in LimitRequest : q # r => lreq'[q] = lreq[q]
  <2>1. [pc |-> "done"] \in LimIdle
    BY DEF LimIdle
  <2>2. QED
    BY <1>1, <2>1 DEF LimiterIInv, LimReqsOK
<1> HIDE DEF k, s, W, late
<1>9. OneEvicts' /\ CacheKept' /\ LimBucketsOK'
  <2>1. OneEvicts'
    BY <1>8 DEF LimiterIInv, OneEvicts, Locking
  <2>2. CacheKept'
    BY <1>1, <1>8 DEF LimiterIInv, CacheKept, Locking
  <2>3. LimBucketsOK'
    BY <1>1 DEF LimiterIInv, LimBucketsOK
  <2>4. QED
    BY <2>1, <2>2, <2>3
<1>10. CASE UNCHANGED <<stamps, admitted>>
  <2>1. LimStampsOK'
    BY <1>1, <1>7, <1>10 DEF LimiterIInv, LimStampsOK, Stamp
  <2>2. FlushEmpty'
    BY <1>7, <1>8, <1>10 DEF LimiterIInv, FlushEmpty
  <2>3. LeakedOld'
    BY <1>1, <1>7, <1>10 DEF LimiterIInv, LeakedOld
  <2>4. WithinRate'
    BY <1>7, <1>10 DEF LimiterIInv, WithinRate
  <2>5. QED
    BY <1>8, <1>9, <2>1, <2>2, <2>3, <2>4 DEF LimiterIInv
<1>11. CASE /\ Cardinality(W) < RateLimit
            /\ stamps' = [stamps EXCEPT ![k] = @ \cup {s}]
            /\ admitted' = [admitted EXCEPT ![k] = @ \cup {s}]
  <2>1. /\ stamps'[k] = stamps[k] \cup {s} /\ admitted'[k] = admitted[k] \cup {s}
        /\ \A x \in Identifier : x # k => stamps'[x] = stamps[x] /\ admitted'[x] = admitted[x]
        /\ stamps' \in [Identifier -> SUBSET Stamp] /\ admitted' \in [Identifier -> SUBSET Stamp]
    BY <1>4, <1>11 DEF LimiterIInv, LimStampsOK
  <2>2. LimStampsOK'
    <3>1. IsFiniteSet(stamps[k] \cup {s})
      BY <1>4, FS_AddElement DEF LimiterIInv, LimStampsOK
    <3>2. \A x \in Identifier : IsFiniteSet(stamps'[x])
      BY <2>1, <3>1 DEF LimiterIInv, LimStampsOK
    <3>3. now' \in 0..MaxNow /\ leaked' \in [Identifier -> 0..MaxNow]
      BY <1>1 DEF LimiterIInv, LimStampsOK
    <3>4. QED
      BY <1>7, <2>1, <3>2, <3>3 DEF LimStampsOK, Stamp
  <2>3. FlushEmpty'
    <3> SUFFICES ASSUME NEW q \in LimitRequest, lreq'[q].pc = "flush", lreq'[q].victim \notin crossing'
                 PROVE  stamps'[lreq'[q].victim] = {}
      BY DEF FlushEmpty
    <3>1. q # r /\ lreq'[q] = lreq[q]
      BY <1>8
    <3>2. lreq[q].victim \in Identifier
      BY <3>1 DEF LimiterIInv, LimReqsOK, LimIdle, LimRunning
    <3>3. lreq[q].victim # k /\ stamps[lreq[q].victim] = {}
      BY <1>6, <1>7, <3>1 DEF LimiterIInv, FlushEmpty
    <3>4. QED
      BY <2>1, <3>1, <3>2, <3>3
  <2>4. LeakedOld'
    <3> SUFFICES ASSUME NEW x \in Identifier \ crossing', NEW y \in admitted'[x]
                 PROVE  y \in stamps'[x] \/ y.at <= leaked'[x] - RateInterval
      BY DEF LeakedOld
    <3>1. CASE y \in admitted[x]
      <4>1. y \in stamps[x] \/ y.at <= leaked[x] - RateInterval
        BY <1>7, <3>1 DEF LimiterIInv, LeakedOld
      <4>2. stamps[x] \subseteq stamps'[x] /\ leaked' = leaked
        BY <1>1, <2>1
      <4>3. QED
        BY <4>1, <4>2
    <3>2. CASE y \notin admitted[x]
      BY <2>1, <3>2
    <3>3. QED
      BY <3>1, <3>2
  <2>5. WithinRate'
    <3> SUFFICES ASSUME NEW x \in Identifier \ crossing', NEW t \in 0..MaxNow
                 PROVE  Cardinality({y \in admitted'[x] : y.at <= t /\ y.at > t - RateInterval}) <= RateLimit
      BY DEF WithinRate
    <3> DEFINE A == {y \in admitted[x] : y.at <= t /\ y.at > t - RateInterval}
               B == {y \in admitted'[x] : y.at <= t /\ y.at > t - RateInterval}
    <3>1. Cardinality(A) <= RateLimit
      BY <1>7 DEF LimiterIInv, WithinRate
    <3>2. CASE x # k
      <4>1. B = A
        BY <2>1, <3>2
      <4>2. QED
        BY <3>1, <4>1
    <3>3. CASE x = k /\ ~(s.at <= t /\ s.at > t - RateInterval)
      <4>1. B = A
        BY <2>1, <3>3
      <4>2. QED
        BY <3>1, <4>1
    <3>4. CASE x = k /\ s.at <= t /\ s.at > t - RateInterval
      <4>1. B \subseteq W \cup {s}
        <5> SUFFICES ASSUME NEW y \in admitted[k], y.at <= t, y.at > t - RateInterval PROVE y \in W
          BY <2>1, <3>4
        <5>1. y.at \in Nat /\ leaked[k] \in Nat /\ RateInterval \in Nat /\ t \in Nat
          BY <1>4, LimiterAssumption DEF LimiterIInv, LimStampsOK, Stamp
        <5>2. y \in stamps[k] \/ y.at <= leaked[k] - RateInterval
          BY <1>7, <3>4 DEF LimiterIInv, LeakedOld
        <5>3. y.at > s.at - RateInterval
          BY <1>4, <3>4, <5>1
        <5>4. ~(y.at <= leaked[k] - RateInterval)
          BY <1>4, <1>5, <3>4, <5>1, <5>3
        <5>5. QED
          BY <5>2, <5>3, <5>4 DEF W
      <4>2. IsFiniteSet(W)
        <5>1. W \subseteq stamps[k] /\ IsFiniteSet(stamps[k])
          BY <1>4 DEF LimiterIInv, LimStampsOK, W
        <5>2. QED
          BY <5>1, FS_Subset
      <4>3. /\ IsFiniteSet(W \cup {s}) /\ Cardinality(W) \in Nat
            /\ Cardinality(W \cup {s}) <= Cardinality(W) + 1
        <5>1. Cardinality(W) \in Nat /\ IsFiniteSet(W \cup {s})
          BY <4>2, FS_AddElement, FS_CardinalityType
        <5>2. Cardinality(W \cup {s}) \in {Cardinality(W), Cardinality(W) + 1}
          BY <4>2, FS_AddElement
        <5>3. QED
          BY <5>1, <5>2
      <4> HIDE DEF A, B
      <4>4. Cardinality(B) <= Cardinality(W \cup {s}) /\ Cardinality(B) \in Nat
            /\ Cardinality(W \cup {s}) \in Nat
        BY <4>1, <4>3, FS_Subset, FS_CardinalityType
      <4>5. Cardinality(B) <= RateLimit
        BY <1>11, <4>3, <4>4, LimiterAssumption
      <4>6. QED
        BY <4>5 DEF B
    <3>5. QED
      BY <3>2, <3>3, <3>4
  <2>6. QED
    BY <1>8, <1>9, <2>2, <2>3, <2>4, <2>5 DEF LimiterIInv
<1>12. QED
  BY <1>2, <1>10, <1>11

\* LimiterTick (_redis_time_ms) keeps the invariant.
LEMMA LimiterTickStep ==
    ASSUME LimiterIInv, LimiterTick
    PROVE  LimiterIInv'
<1>1. now' \in 0..MaxNow /\ UNCHANGED <<stamps, buckets, lreq, admitted, leaked, crossing>>
  BY LimiterAssumption DEF LimiterTick, LimiterIInv, LimStampsOK
<1>2. LimStampsOK' /\ FlushEmpty' /\ LeakedOld' /\ WithinRate'
  BY <1>1, LimStampsKept
<1>3. LimReqsOK' /\ LimBucketsOK' /\ OneEvicts' /\ CacheKept'
  BY <1>1 DEF LimiterIInv, LimReqsOK, LimBucketsOK, OneEvicts, CacheKept, LimRunning
<1>4. QED
  BY <1>2, <1>3 DEF LimiterIInv

\* The initial state satisfies the invariant.
LEMMA LimiterInitInv == LimiterInit => LimiterIInv
<1> SUFFICES ASSUME LimiterInit PROVE LimiterIInv
  OBVIOUS
<1>1. IsFiniteSet({}) /\ Cardinality({}) = 0
  BY FS_EmptySet
<1>2. LimReqsOK /\ LimBucketsOK
  BY DEF LimiterInit, LimReqsOK, LimIdle, LimBucketsOK
<1>3. LimStampsOK
  BY <1>1, LimiterAssumption DEF LimiterInit, LimStampsOK
<1>4. OneEvicts /\ FlushEmpty /\ LeakedOld
  BY DEF LimiterInit, OneEvicts, FlushEmpty, LeakedOld, Locking
<1>5. CacheKept
  BY LimiterAssumption DEF LimiterInit, CacheKept
<1>6. WithinRate
  <2> SUFFICES ASSUME NEW k \in Identifier, NEW t \in 0..MaxNow
               PROVE  Cardinality({s \in admitted[k] : s.at <= t /\ s.at > t - RateInterval}) <= RateLimit
    BY DEF WithinRate
  <2>1. {s \in admitted[k] : s.at <= t /\ s.at > t - RateInterval} = {}
    BY DEF LimiterInit
  <2>2. QED
    BY <1>1, <2>1, LimiterAssumption
<1>7. QED
  BY <1>2, <1>3, <1>4, <1>5, <1>6 DEF LimiterIInv

\* Every step keeps it.
LEMMA LimiterNextInv == LimiterIInv /\ [LimiterNext]_limiterVars => LimiterIInv'
<1> SUFFICES ASSUME LimiterIInv, [LimiterNext]_limiterVars PROVE LimiterIInv'
  OBVIOUS
<1>1. CASE UNCHANGED limiterVars
  <2>1. UNCHANGED <<now, stamps, buckets, lreq, admitted, leaked, crossing>>
    BY <1>1 DEF limiterVars
  <2>2. now' \in 0..MaxNow
    BY <2>1 DEF LimiterIInv, LimStampsOK
  <2>3. LimStampsOK' /\ FlushEmpty' /\ LeakedOld' /\ WithinRate'
    BY <2>1, <2>2, LimStampsKept
  <2>4. LimReqsOK' /\ LimBucketsOK' /\ OneEvicts' /\ CacheKept'
    BY <2>1 DEF LimiterIInv, LimReqsOK, LimBucketsOK, OneEvicts, CacheKept, LimRunning
  <2>5. QED
    BY <2>3, <2>4 DEF LimiterIInv
<1>2. ASSUME NEW r \in LimitRequest, NEW k \in Identifier, ArriveAt(r, k) PROVE LimiterIInv'
  BY <1>2, LimArrives DEF ArriveAt
<1>3. ASSUME NEW r \in LimitRequest, NEW k \in Identifier, ArriveElsewhere(r, k) PROVE LimiterIInv'
  BY <1>3, LimArrives DEF ArriveElsewhere
<1>4. QED
  BY <1>1, <1>2, <1>3, GetBucketStep, EvictStep, CountStampsStep, FlushBucketStep, PutStep,
     LimiterTickStep DEF LimiterNext

\* The inductive invariant of the limiter holds in every reachable state.
THEOREM LimiterInductive == LimiterSpec => []LimiterIInv
BY LimiterInitInv, LimiterNextInv, PTL DEF LimiterSpec

\* No interval lets more than the limit through, whatever is evicted, leaked
\* and flushed, and the cache of buckets keeps its size.
THEOREM LimiterSafe == LimiterSpec => []LimiterInv
<1>1. LimiterIInv => LimiterInv
  <2> SUFFICES ASSUME LimiterIInv PROVE LimiterInv
    OBVIOUS
  <2> DEFINE L == {r \in LimitRequest : lreq[r].pc \in Locking}
  <2>1. Cardinality(L) <= 1
    <3>1. CASE L = {}
      BY <3>1, FS_EmptySet
    <3>2. CASE L # {}
      <4>1. PICK r \in L : TRUE
        BY <3>2
      <4>2. L = {r}
        BY <4>1 DEF LimiterIInv, OneEvicts
      <4>3. QED
        BY <4>2, FS_Singleton
    <3>3. QED
      BY <3>1, <3>2
  <2>2. /\ now \in 0..MaxNow
        /\ stamps \in [Identifier -> SUBSET Stamp] /\ admitted \in [Identifier -> SUBSET Stamp]
        /\ leaked \in [Identifier -> 0..MaxNow] /\ crossing \subseteq Identifier
    BY DEF LimiterIInv, LimStampsOK
  <2>3. /\ \A i \in 1..Len(buckets) : buckets[i].id \in Identifier /\ buckets[i].seen \in 0..MaxNow
        /\ \A i, j \in 1..Len(buckets) : buckets[i].id = buckets[j].id => i = j
    <3>1. \A i \in 1..Len(buckets) : buckets[i] \in LimBucket
      BY DEF LimiterIInv, LimBucketsOK
    <3>2. QED
      BY <3>1 DEF LimiterIInv, LimBucketsOK, LimBucket
  <2>4. ASSUME NEW r \in LimitRequest
        PROVE  /\ lreq[r].pc \in {"new", "get", "put", "done"} \cup Locking
               /\ lreq[r].pc \notin {"new", "done"} => lreq[r].id \in Identifier /\ lreq[r].at \in 0..MaxNow
               /\ lreq[r].pc \in {"count", "flush"} => lreq[r].victim \in Identifier
    <3>1. lreq[r] \in LimIdle \/ lreq[r] \in LimRunning
      BY DEF LimiterIInv, LimReqsOK
    <3>2. QED
      BY <3>1 DEF LimIdle, LimRunning, Locking
  <2>5. LimiterTypeOK
    BY <2>1, <2>2, <2>3, <2>4 DEF LimiterTypeOK
  <2>6. QED
    BY <2>5 DEF LimiterIInv, LimiterInv
<1>2. QED
  BY <1>1, LimiterInductive, PTL
=============================================================================
