-------------------------- MODULE SchedulerProofs --------------------------
(* That a beat process which lost its lock sends one more task at most, and  *)
(* that no beat enables a row, for any tasks, processes and requests.        *)
EXTENDS DatabaseScheduler, TLAPS

\* A process that has sent a task without the lock has finished that tick, is
\* still without the lock, and cannot get it back: it asks only when it starts.
StrayInv ==
    \A b \in Beat : stray[b] > 0 => stray[b] = 1 /\ beat[b] = "idle" /\ lock # b

\* A request to delete leaves a row that is not live.
DeleteInv ==
    \A q \in Admin : request[q].op = "delete" => ~request[q].row.live

\* The inductive invariant.
SchedIInv == SchedTypeOK /\ StrayInv /\ DeleteInv

----------------------------------------------------------------------------
(* Rows, entries and the comparison with the stamp.                         *)

\* A schedule read from the table holds enabled entries.
LEMMA LoadedTyped ==
    \A tab \in [Task -> Row] : Loaded(tab) \in [Task -> Entry]
BY DEF Loaded, Enabled, Missing, Entry, Row

\* Saving counts leaves rows, and changes none but their counts.
LEMMA SavedTyped ==
    ASSUME NEW tab \in [Task -> Row], NEW m \in [Task -> Entry], NEW names
    PROVE  /\ Saved(tab, m, names) \in [Task -> Row]
           /\ \A t \in Task : Enabled(Saved(tab, m, names)[t]) <=> Enabled(tab[t])
<1>1. ASSUME NEW t \in Task
      PROVE  /\ Saved(tab, m, names)[t] \in Row
             /\ Saved(tab, m, names)[t].live = tab[t].live
             /\ Saved(tab, m, names)[t].enabled = tab[t].enabled
  <2>1. tab[t] \in Row /\ m[t].ran \in BOOLEAN
    BY DEF Row, Entry
  <2>2. /\ [tab[t] EXCEPT !.ran = m[t].ran] \in Row
        /\ [tab[t] EXCEPT !.ran = m[t].ran].live = tab[t].live
        /\ [tab[t] EXCEPT !.ran = m[t].ran].enabled = tab[t].enabled
    BY <2>1 DEF Row
  <2>3. QED
    BY <2>1, <2>2 DEF Saved
<1>2. DOMAIN Saved(tab, m, names) = Task
  BY DEF Saved
<1>3. QED
  BY <1>1, <1>2 DEF Saved, Enabled

\* The flags of the comparison are flags.
LEMMA CompareTyped ==
    ASSUME SchedTypeOK, NEW b \in Beat, Compare(b)
    PROVE  /\ stamp' \in BOOLEAN
           /\ compared' \in [Beat -> BOOLEAN]
           /\ second' \in [Beat -> BOOLEAN]
           /\ newer' \in [Beat -> BOOLEAN]
BY DEF SchedTypeOK, Compare

\* What the property schedule leaves is a table and a schedule, and it enables
\* no row.
LEMMA AccessTyped ==
    ASSUME SchedTypeOK, NEW b \in Beat, Access(b)
    PROVE  /\ table' \in [Task -> Row]
           /\ mem' \in [Beat -> [Task -> Entry]]
           /\ dirty' \in [Beat -> SUBSET Task]
           /\ \A t \in Task : Enabled(table'[t]) <=> Enabled(table[t])
<1>0. mem[b] \in [Task -> Entry] /\ dirty[b] \in SUBSET Task
  BY DEF SchedTypeOK
<1>1. CASE Changed(b)
  <2>1. /\ table' = Saved(table, mem[b], dirty[b])
        /\ mem' = [mem EXCEPT ![b] = Loaded(table')]
        /\ dirty' = [dirty EXCEPT ![b] = Unknown(mem[b], @)]
    BY <1>1 DEF Access
  <2>2. table' \in [Task -> Row] /\ \A t \in Task : Enabled(table'[t]) <=> Enabled(table[t])
    BY <1>0, <2>1, SavedTyped DEF SchedTypeOK
  <2>3. mem' \in [Beat -> [Task -> Entry]]
    BY <2>1, <2>2, LoadedTyped DEF SchedTypeOK
  <2>4. dirty' \in [Beat -> SUBSET Task]
    BY <1>0, <2>1 DEF Unknown, SchedTypeOK
  <2>5. QED
    BY <2>2, <2>3, <2>4
<1>2. CASE ~Changed(b)
  BY <1>2 DEF Access, SchedTypeOK
<1>3. QED
  BY <1>1, <1>2

\* So does sync, whichever name it pops first.
LEMMA SyncTyped ==
    ASSUME SchedTypeOK, NEW b \in Beat, Sync(b)
    PROVE  /\ table' \in [Task -> Row]
           /\ mem' \in [Beat -> [Task -> Entry]]
           /\ dirty' \in [Beat -> SUBSET Task]
           /\ \A t \in Task : Enabled(table'[t]) <=> Enabled(table[t])
<1>0. mem[b] \in [Task -> Entry] /\ dirty[b] \in SUBSET Task
  BY DEF SchedTypeOK
<1>1. PICK first \in dirty[b] :
          IF Changed(b)
          THEN /\ table' = Saved(table, mem[b], dirty[b] \ {first})
               /\ mem' = [mem EXCEPT ![b] = Loaded(table')]
               /\ dirty' = [dirty EXCEPT ![b] = Unknown(mem[b], dirty[b] \ {first})
                                            \cup Unknown(Loaded(table'), {first})]
          ELSE /\ table' = Saved(table, mem[b], dirty[b])
               /\ dirty' = [dirty EXCEPT ![b] = Unknown(mem[b], @)]
               /\ UNCHANGED mem
  BY DEF Sync
<1>2. table' \in [Task -> Row] /\ \A t \in Task : Enabled(table'[t]) <=> Enabled(table[t])
  <2>1. PICK names : table' = Saved(table, mem[b], names)
    BY <1>1
  <2>2. table \in [Task -> Row]
    BY DEF SchedTypeOK
  <2>3. QED
    BY <1>0, <2>1, <2>2, SavedTyped
<1>3. mem' \in [Beat -> [Task -> Entry]]
  BY <1>1, <1>2, LoadedTyped DEF SchedTypeOK
<1>4. dirty' \in [Beat -> SUBSET Task]
  <2>1. CASE Changed(b)
    BY <1>0, <1>1, <2>1 DEF Unknown, SchedTypeOK
  <2>2. CASE ~Changed(b)
    BY <1>0, <1>1, <2>2 DEF Unknown, SchedTypeOK
  <2>3. QED
    BY <2>1, <2>2
<1>5. QED
  BY <1>2, <1>3, <1>4

----------------------------------------------------------------------------
(* Each step preserves the invariant. *)

\* Change (TaskSchedulerService.create, update, update_status, delete) keeps
\* the invariant.
LEMMA ChangeStep ==
    ASSUME SchedIInv, NEW q \in Admin, NEW t \in Task, NEW op \in {"create",
           "toggle", "delete"}, Change(q, t, op)
    PROVE  SchedIInv'
<1> USE DEF SchedIInv
<1>1. SchedTypeOK'
  <2>1. request' \in [Admin -> Request]
    <3>1. table[t] \in Row
      BY DEF SchedTypeOK
    <3>2. /\ New \in Row
          /\ [table[t] EXCEPT !.enabled = ~table[t].enabled] \in Row
          /\ [table[t] EXCEPT !.live = FALSE] \in Row
      BY <3>1 DEF New, Row
    <3> DEFINE r == CASE op = "create" -> New
                      [] op = "toggle" -> [table[t] EXCEPT !.enabled = ~table[t].enabled]
                      [] op = "delete" -> [table[t] EXCEPT !.live = FALSE]
    <3>3. r \in Row
      BY <3>2
    <3>4. request' = [request EXCEPT ![q] = [op |-> op, t |-> t, row |-> r]]
      BY DEF Change
    <3> HIDE DEF r
    <3>5. QED
      BY <3>3, <3>4 DEF SchedTypeOK, Request
  <2>2. changes' \in 0..MaxTaskChanges /\ pending' \in SUBSET (Admin \cup Beat)
    BY SchedulerAssumption DEF Change, SchedTypeOK
  <2>3. QED
    BY <2>1, <2>2 DEF Change, beatVars, SchedTypeOK
<1>2. DeleteInv'
  BY SchedulerAssumption DEF Change, DeleteInv, SchedTypeOK, Unlocked, New,
    beatVars, Row, Request, Entry
<1>3. StrayInv'
  BY DEF Change, beatVars, StrayInv
<1> QED
  BY <1>1, <1>2, <1>3

\* EndRequest (CRUDTaskScheduler.create, update, set_status, delete) keeps
\* the invariant.
LEMMA EndRequestStep ==
    ASSUME SchedIInv, NEW q \in Admin, NEW ok \in BOOLEAN, EndRequest(q, ok)
    PROVE  SchedIInv'
<1> USE DEF SchedIInv
<1>1. SchedTypeOK'
  BY SchedulerAssumption, SMTT(30) DEF EndRequest, SchedTypeOK, beatVars, Row, Request,
    Entry
<1>2. DeleteInv'
  BY SchedulerAssumption DEF EndRequest, DeleteInv, SchedTypeOK, beatVars,
    Row, Request, Entry
<1>3. StrayInv'
  BY DEF EndRequest, beatVars, StrayInv
<1> QED
  BY <1>1, <1>2, <1>3

\* Stamp (TaskScheduler.before_insert_or_update, changed, update_changed)
\* keeps the invariant.
LEMMA StampStep ==
    ASSUME SchedIInv, NEW x \in pending, Stamp(x)
    PROVE  SchedIInv'
<1> USE DEF SchedIInv
<1>1. SchedTypeOK'
  BY SchedulerAssumption DEF Stamp, SchedTypeOK, beatVars, Row, Request, Entry
<1>2. StrayInv' /\ DeleteInv'
  BY DEF Stamp, beatVars, StrayInv, DeleteInv
<1> QED
  BY <1>1, <1>2

\* Second (TimeZone.now) keeps the invariant.
LEMMA SecondStep ==
    ASSUME SchedIInv, Second
    PROVE  SchedIInv'
<1> USE DEF SchedIInv
<1>1. SchedTypeOK'
  BY SchedulerAssumption DEF Second, SchedTypeOK, Up, Row, Request, Entry
<1>2. StrayInv' /\ DeleteInv'
  BY DEF Second, StrayInv, DeleteInv
<1> QED
  BY <1>1, <1>2

\* LockTimeout (acquire_distributed_beat_lock) keeps the invariant.
LEMMA LockTimeoutStep ==
    ASSUME SchedIInv, LockTimeout
    PROVE  SchedIInv'
<1> USE DEF SchedIInv
<1>1. SchedTypeOK'
  BY SchedulerAssumption DEF LockTimeout, SchedTypeOK, InUse, Fault, Row,
    Request, Entry
<1>2. StrayInv'
  BY SchedulerAssumption DEF LockTimeout, StrayInv, SchedTypeOK, InUse, Fault,
    Row, Request, Entry
<1>3. DeleteInv'
  BY DEF LockTimeout, DeleteInv
<1> QED
  BY <1>1, <1>2, <1>3

\* StartBeat (DatabaseScheduler.setup_schedule) keeps the invariant.
LEMMA StartBeatStep ==
    ASSUME SchedIInv, NEW b \in Beat, StartBeat(b)
    PROVE  SchedIInv'
<1> USE DEF SchedIInv
<1>1. SchedTypeOK'
  <2>1. mem' \in [Beat -> [Task -> Entry]]
    BY LoadedTyped DEF StartBeat, SchedTypeOK
  <2>2. /\ beat' \in [Beat -> {"down", "waiting", "idle", "tick"}]
        /\ dirty' \in [Beat -> SUBSET Task] /\ stray' \in [Beat -> 0..2]
    BY DEF StartBeat, SchedTypeOK
  <2>3. QED
    BY <2>1, <2>2, CompareTyped DEF StartBeat, SchedTypeOK
<1>2. StrayInv'
  BY SchedulerAssumption DEF StartBeat, StrayInv, SchedTypeOK, Loaded,
    Compare, Row, Request, Entry, Enabled, Missing
<1>3. DeleteInv'
  BY DEF StartBeat, DeleteInv
<1> QED
  BY <1>1, <1>2, <1>3

\* Acquire (acquire_distributed_beat_lock) keeps the invariant.
LEMMA AcquireStep ==
    ASSUME SchedIInv, NEW b \in Beat, Acquire(b)
    PROVE  SchedIInv'
<1> USE DEF SchedIInv
<1>1. SchedTypeOK'
  BY SchedulerAssumption DEF Acquire, SchedTypeOK, Row, Request, Entry
<1>2. StrayInv'
  BY SchedulerAssumption DEF Acquire, StrayInv, SchedTypeOK, Row, Request,
    Entry
<1>3. DeleteInv'
  BY DEF Acquire, DeleteInv
<1> QED
  BY <1>1, <1>2, <1>3

\* Tick (DatabaseScheduler.tick) keeps the invariant.
LEMMA TickStep ==
    ASSUME SchedIInv, NEW b \in Beat, Tick(b)
    PROVE  SchedIInv'
<1> USE DEF SchedIInv
<1>1. SchedTypeOK'
  <2>1. beat' \in [Beat -> {"down", "waiting", "idle", "tick"}]
    BY DEF Tick, SchedTypeOK
  <2>2. QED
    BY <2>1, CompareTyped, AccessTyped DEF Tick, Access, SchedTypeOK
<1>2. StrayInv'
  BY SchedulerAssumption DEF Tick, StrayInv, SchedTypeOK, Access, Row,
    Request, Entry, Compare, Changed, Unlocked, Saved, Loaded, Unknown,
    Enabled, Missing
<1>3. DeleteInv'
  BY DEF Tick, Access, DeleteInv
<1> QED
  BY <1>1, <1>2, <1>3

\* NothingDue (ModelEntry.is_due) keeps the invariant.
LEMMA NothingDueStep ==
    ASSUME SchedIInv, NEW b \in Beat, NothingDue(b)
    PROVE  SchedIInv'
<1> USE DEF SchedIInv
<1>1. SchedTypeOK'
  BY SchedulerAssumption DEF NothingDue, SchedTypeOK, Row, Request, Entry
<1>2. StrayInv'
  BY SchedulerAssumption DEF NothingDue, StrayInv, SchedTypeOK, Row, Request,
    Entry
<1>3. DeleteInv'
  BY DEF NothingDue, DeleteInv
<1> QED
  BY <1>1, <1>2, <1>3

\* DisableOneOff (ModelEntry._disable, is_due) keeps the invariant.
LEMMA DisableOneOffStep ==
    ASSUME SchedIInv, NEW b \in Beat, NEW t \in Task, DisableOneOff(b, t)
    PROVE  SchedIInv'
<1> USE DEF SchedIInv
<1>1. SchedTypeOK'
  BY SchedulerAssumption DEF DisableOneOff, SchedTypeOK, Unlocked, Enabled,
    Row, Request, Entry
<1>2. StrayInv'
  BY SchedulerAssumption DEF DisableOneOff, StrayInv, SchedTypeOK, Unlocked,
    Enabled, Row, Request, Entry
<1>3. DeleteInv'
  BY DEF DisableOneOff, DeleteInv
<1> QED
  BY <1>1, <1>2, <1>3

\* Run (ModelEntry.__next__) keeps the invariant.
LEMMA RunStep ==
    ASSUME SchedIInv, NEW b \in Beat, NEW t \in Task, Run(b, t)
    PROVE  SchedIInv'
<1> USE DEF SchedIInv
<1>1. SchedTypeOK'
  <2>1. mem[b] \in [Task -> Entry] /\ mem[b][t].live /\ mem[b][t].enabled
    BY DEF Run, Enabled, SchedTypeOK
  <2>2. [mem[b][t] EXCEPT !.ran = TRUE] \in Entry
    BY <2>1 DEF Entry, Row
  <2>3. mem' = [mem EXCEPT ![b] = [mem[b] EXCEPT ![t] = [mem[b][t] EXCEPT !.ran = TRUE]]]
    BY DEF Run
  <2>4. mem' \in [Beat -> [Task -> Entry]]
    BY <2>1, <2>2, <2>3 DEF SchedTypeOK
  <2>5. /\ beat' \in [Beat -> {"down", "waiting", "idle", "tick"}]
        /\ dirty' \in [Beat -> SUBSET Task] /\ stray' \in [Beat -> 0..2]
    BY DEF Run, More, SchedTypeOK
  <2>6. QED
    BY <2>4, <2>5 DEF Run, SchedTypeOK
<1>2. StrayInv'
  BY SchedulerAssumption DEF Run, StrayInv, SchedTypeOK, Enabled, More, Row,
    Request, Entry
<1>3. DeleteInv'
  BY DEF Run, DeleteInv
<1> QED
  BY <1>1, <1>2, <1>3

\* Sync (DatabaseScheduler.sync) keeps the invariant.
LEMMA SyncStep ==
    ASSUME SchedIInv, NEW b \in Beat, Sync(b)
    PROVE  SchedIInv'
<1> USE DEF SchedIInv
<1>1. SchedTypeOK'
  BY SyncTyped, CompareTyped DEF Sync, SchedTypeOK
<1>2. StrayInv' /\ DeleteInv'
  BY DEF Sync, StrayInv, DeleteInv
<1> QED
  BY <1>1, <1>2

\* Close (DatabaseScheduler.close) keeps the invariant.
LEMMA CloseStep ==
    ASSUME SchedIInv, NEW b \in Beat, Close(b)
    PROVE  SchedIInv'
<1> USE DEF SchedIInv
<1>1. SchedTypeOK'
  <2>1. mem[b] \in [Task -> Entry]
    BY DEF SchedTypeOK
  <2>2. table' \in [Task -> Row]
    BY <2>1, SavedTyped DEF Close, SchedTypeOK
  <2>3. mem' \in [Beat -> [Task -> Entry]]
    BY DEF Close, Gone, Missing, Entry, Row, SchedTypeOK
  <2>4. faults' \in 0..MaxBeatFaults /\ lock' \in Beat \cup {NoBeat}
    BY SchedulerAssumption DEF Close, Fault, SchedTypeOK
  <2>5. QED
    BY <2>2, <2>3, <2>4 DEF Close, Gone, SchedTypeOK
<1>2. StrayInv'
  BY SchedulerAssumption DEF Close, StrayInv, SchedTypeOK, Fault, Unlocked,
    Saved, Gone, Row, Request, Entry, Missing
<1>3. DeleteInv'
  BY DEF Close, DeleteInv
<1> QED
  BY <1>1, <1>2, <1>3

\* The process of a beat is killed.
LEMMA KillStep ==
    ASSUME SchedIInv, NEW b \in Beat, Kill(b)
    PROVE  SchedIInv'
<1> USE DEF SchedIInv
<1>1. SchedTypeOK'
  BY SchedulerAssumption DEF Kill, SchedTypeOK, Up, Fault, Gone, Row, Request,
    Entry, Missing
<1>2. StrayInv'
  BY SchedulerAssumption DEF Kill, StrayInv, SchedTypeOK, Up, Fault, Gone,
    Row, Request, Entry, Missing
<1>3. DeleteInv'
  BY DEF Kill, DeleteInv
<1> QED
  BY <1>1, <1>2, <1>3

\* SyncFail (DatabaseScheduler.sync) keeps the invariant.
LEMMA SyncFailStep ==
    ASSUME SchedIInv, NEW b \in Beat, NEW t \in Task, SyncFail(b, t)
    PROVE  SchedIInv'
<1> USE DEF SchedIInv
<1>1. SchedTypeOK'
  BY SchedulerAssumption DEF SyncFail, SchedTypeOK, Fault, Row, Request, Entry
<1>2. StrayInv' /\ DeleteInv'
  BY DEF SyncFail, StrayInv, DeleteInv
<1> QED
  BY <1>1, <1>2
----------------------------------------------------------------------------

\* The initial state satisfies the invariant.
LEMMA SchedInitInv == SchedInit => SchedIInv
<1> SUFFICES ASSUME SchedInit PROVE SchedIInv
  OBVIOUS
<1>1. table \in [Task -> Row]
  <2>1. Missing \in Row /\ New \in Row /\ [New EXCEPT !.enabled = FALSE] \in Row
    BY DEF Missing, New, Row
  <2>2. QED
    BY <2>1 DEF SchedInit
<1>2. request \in [Admin -> Request] /\ DeleteInv
  BY SchedulerAssumption DEF SchedInit, Request, Missing, Row, DeleteInv
<1>3. mem \in [Beat -> [Task -> Entry]]
  BY DEF SchedInit, Missing, Entry, Row
<1>4. StrayInv
  BY DEF SchedInit, StrayInv
<1>5. /\ stamp \in BOOLEAN /\ pending \in SUBSET (Admin \cup Beat)
      /\ lock \in Beat \cup {NoBeat}
      /\ beat \in [Beat -> {"down", "waiting", "idle", "tick"}]
      /\ dirty \in [Beat -> SUBSET Task]
      /\ stray \in [Beat -> 0..2]
      /\ changes \in 0..MaxTaskChanges /\ faults \in 0..MaxBeatFaults
  <2>1. /\ stamp \in BOOLEAN /\ pending \in SUBSET (Admin \cup Beat)
        /\ lock \in Beat \cup {NoBeat}
    BY DEF SchedInit
  <2>2. /\ beat \in [Beat -> {"down", "waiting", "idle", "tick"}]
        /\ dirty \in [Beat -> SUBSET Task]
    BY DEF SchedInit
  <2>3. /\ stray \in [Beat -> 0..2]
        /\ changes \in 0..MaxTaskChanges /\ faults \in 0..MaxBeatFaults
    BY SchedulerAssumption DEF SchedInit
  <2>4. QED
    BY <2>1, <2>2, <2>3
<1>6. /\ newer \in [Beat -> BOOLEAN] /\ second \in [Beat -> BOOLEAN]
      /\ compared \in [Beat -> BOOLEAN]
  BY DEF SchedInit
<1>7. QED
  BY <1>1, <1>2, <1>3, <1>4, <1>5, <1>6 DEF SchedIInv, SchedTypeOK

\* Every step keeps it.
LEMMA SchedNextInv == SchedIInv /\ [SchedNext]_schedVars => SchedIInv'
<1> SUFFICES ASSUME SchedIInv, [SchedNext]_schedVars PROVE SchedIInv'
  OBVIOUS
<1>1. CASE UNCHANGED schedVars
  BY <1>1 DEF schedVars, beatVars, SchedIInv, SchedTypeOK, StrayInv, DeleteInv
<1>2. ASSUME NEW b \in Beat, TickEnd(b) PROVE SchedIInv'
  BY <1>2, NothingDueStep, DisableOneOffStep, RunStep DEF TickEnd, Look
<1>3. QED
  BY <1>1, <1>2, ChangeStep, EndRequestStep, StampStep, SecondStep, LockTimeoutStep,
     StartBeatStep, AcquireStep, TickStep, SyncStep, CloseStep, KillStep, SyncFailStep
     DEF SchedNext

\* A step in which a row that was not enabled is enabled.
RequestEnables ==
    \A t \in Task : Enabled(table'[t]) /\ ~Enabled(table[t]) =>
        \E q \in Admin : request[q].op \in {"create", "toggle"} /\ request[q].t = t
                         /\ request'[q].op = "none"

\* No step of a beat enables a row: counts are saved to the column of the count
\* alone, and a one-off task that ran is disabled.
LEMMA EnablingStep == SchedIInv /\ [SchedNext]_schedVars => RequestEnables
<1> SUFFICES ASSUME SchedIInv, [SchedNext]_schedVars PROVE RequestEnables
  OBVIOUS
<1> USE DEF SchedIInv
<1>1. ASSUME NEW q \in Admin, NEW ok \in BOOLEAN, EndRequest(q, ok) PROVE RequestEnables
  <2> SUFFICES ASSUME NEW t \in Task, Enabled(table'[t]), ~Enabled(table[t])
               PROVE  /\ request[q].op \in {"create", "toggle"} /\ request[q].t = t
                      /\ request'[q].op = "none"
    BY <1>1 DEF RequestEnables
  <2>1. request[q] \in Request
    BY DEF SchedTypeOK
  <2>2. request'[q].op = "none"
    BY <1>1, <2>1 DEF EndRequest, SchedTypeOK, Request
  <2>3. request[q].t = t /\ table'[t] = request[q].row
    BY <1>1, <2>1 DEF EndRequest, SchedTypeOK, Request
  <2>4. request[q].op # "delete"
    BY <2>3 DEF DeleteInv, Enabled
  <2>5. QED
    BY <1>1, <2>1, <2>2, <2>3, <2>4 DEF EndRequest, Request
<1>2. ASSUME NEW b \in Beat, Tick(b) PROVE RequestEnables
  BY <1>2, AccessTyped DEF Tick, RequestEnables
<1>3. ASSUME NEW b \in Beat, Sync(b) PROVE RequestEnables
  BY <1>3, SyncTyped DEF RequestEnables
<1>4. ASSUME NEW b \in Beat, Close(b) PROVE RequestEnables
  <2>1. mem[b] \in [Task -> Entry]
    BY DEF SchedTypeOK
  <2>2. QED
    BY <1>4, <2>1, SavedTyped DEF Close, SchedTypeOK, RequestEnables
<1>5. ASSUME NEW b \in Beat, NEW t \in Task, DisableOneOff(b, t) PROVE RequestEnables
  BY <1>5, ZenonT(60) DEF DisableOneOff, RequestEnables, Enabled, SchedTypeOK, Row
<1>6. CASE UNCHANGED table
  BY <1>6 DEF RequestEnables
<1>7. QED
  BY <1>1, <1>2, <1>3, <1>4, <1>5, <1>6
     DEF SchedNext, schedVars, Change, Stamp, Second, LockTimeout, StartBeat, Acquire,
         TickEnd, Look, NothingDue, Run, Kill, SyncFail

----------------------------------------------------------------------------

\* The inductive invariant holds in every reachable state.
THEOREM SchedInductive == SchedSpec => []SchedIInv
BY SchedInitInv, SchedNextInv, PTL DEF SchedSpec

\* A beat process that lost its lock, to the time limit or to a fault, sends at
\* most the task of the tick it is in.
THEOREM SchedSafe == SchedSpec => []SchedInv
<1>1. SchedIInv => SchedInv
  BY DEF SchedIInv, SchedInv, SchedTypeOK, StrayInv, AtMostOneStray
<1>2. QED
  BY <1>1, SchedInductive, PTL

\* What a beat writes back never enables a task: only a request does, however
\* old the entry is that the beat has in memory.
THEOREM BeatsNeverEnable == SchedSpec => BeatNeverEnables
<1>1. SchedIInv /\ [SchedNext]_schedVars => [RequestEnables]_schedVars
  BY EnablingStep
<1>2. SchedSpec => [][RequestEnables]_schedVars
  BY <1>1, SchedInductive, PTL DEF SchedSpec
<1>3. QED
  BY <1>2 DEF BeatNeverEnables, RequestEnables
=============================================================================
