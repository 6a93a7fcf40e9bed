------------------------- MODULE DatabaseScheduler -------------------------
(***************************************************************************)
(* Celery beat with its schedule in the table task_scheduler.  A beat      *)
(* process keeps the enabled rows in memory, runs what is due, counts the  *)
(* runs in memory and writes the counts back now and then.  Requests       *)
(* change the table and leave a time stamp in Redis by which a beat sees   *)
(* that it has to read the table again.  A lock in Redis with a time limit *)
(* is meant to keep a second beat waiting.                                 *)
(*                                                                         *)
(* The time stamp is written in whole seconds and compared with the moment *)
(* of the last comparison.  All that matters is whether a second has begun *)
(* since then (second), and whether the stamp is from such a second (newer).*)
(* Of total_run_count only zero or not decides anything (ran).             *)
(***************************************************************************)
EXTENDS Naturals

CONSTANTS Task,      \* rows of task_scheduler
          OneOff,    \* those with one_off
          Beat,      \* beat processes
          Admin,     \* requests that change the table
          NoBeat,    \* nobody holds the lock
          MaxTaskChanges,\* bound: requests
          MaxBeatFaults  \* bound: lost beats, database errors, locks that run out

ASSUME SchedulerAssumption ==
    /\ Task # {} /\ OneOff \subseteq Task /\ NoBeat \notin Beat
    /\ MaxTaskChanges \in Nat /\ MaxBeatFaults \in Nat

VARIABLES table,     \* the committed rows
          stamp,     \* fba:celery:last_update exists
          pending,   \* who has yet to write the stamp (asyncio.create_task)
          request,   \* the open transaction of each request
          lock,      \* the beat whose token is in fba:celery:beat_lock
          beat,      \* the state of each process
          mem,       \* its schedule
          dirty,     \* names whose counts are not saved yet
          newer,     \* the stamp is later than its _last_update
          second,    \* a second has begun since its _last_update
          compared,  \* it has a _last_update
          stray,     \* history: runs since the process lost its lock (0, 1, 2 or more)
          changes, faults

beatVars  == <<lock, beat, mem, dirty, second, compared>>
schedVars == <<table, stamp, pending, request, beatVars, newer, stray,
               changes, faults>>

\* A row, and an entry in memory: an entry that is not there is Missing, and
\* one that is there is enabled, or else was disabled after its only run.
Row      == [live: BOOLEAN, enabled: BOOLEAN, ran: BOOLEAN]
Entry    == {e \in Row : e.live => e.enabled \/ ~e.ran}
Missing  == [live |-> FALSE, enabled |-> FALSE, ran |-> FALSE]
New      == [live |-> TRUE, enabled |-> TRUE, ran |-> FALSE]
Request  == [op: {"none", "create", "toggle", "delete"}, t: Task, row: Row]
More(n)  == IF n < 2 THEN n + 1 ELSE 2

SchedTypeOK ==
    /\ table \in [Task -> Row]
    /\ stamp \in BOOLEAN
    /\ pending \in SUBSET (Admin \cup Beat)
    /\ request \in [Admin -> Request]
    /\ lock \in Beat \cup {NoBeat}
    /\ beat \in [Beat -> {"down", "waiting", "idle", "tick"}]
    /\ mem \in [Beat -> [Task -> Entry]]
    /\ dirty \in [Beat -> SUBSET Task]
    /\ newer \in [Beat -> BOOLEAN] /\ second \in [Beat -> BOOLEAN]
    /\ compared \in [Beat -> BOOLEAN]
    /\ stray \in [Beat -> 0..2]
    /\ changes \in 0..MaxTaskChanges /\ faults \in 0..MaxBeatFaults

SchedInit ==
    /\ table \in [Task -> {Missing, New, [New EXCEPT !.enabled = FALSE]}]
    /\ stamp = FALSE /\ pending = {}
    /\ request = [q \in Admin |-> [op |-> "none", t |-> CHOOSE t \in Task : TRUE,
                                   row |-> Missing]]
    /\ lock = NoBeat
    /\ beat = [b \in Beat |-> "down"]
    /\ mem = [b \in Beat |-> [t \in Task |-> Missing]]
    /\ dirty = [b \in Beat |-> {}]
    /\ newer = [b \in Beat |-> FALSE] /\ second = [b \in Beat |-> FALSE]
    /\ compared = [b \in Beat |-> FALSE]
    /\ stray = [b \in Beat |-> 0]
    /\ changes = 0 /\ faults = 0

Fault == faults < MaxBeatFaults /\ faults' = faults + 1
Up(b) == beat[b] # "down"

----------------------------------------------------------------------------
(* The table and its requests                                              *)

\* A row that a transaction has changed stays locked to its end.
Unlocked(t) == \A q \in Admin : request[q].op # "none" => request[q].t # t

\* Flush of an INSERT or UPDATE: the listeners after_insert and after_update
\* start a task that writes the stamp.  A deletion is an UPDATE statement past
\* the listeners.
Change(q, t, op) ==
    /\ changes < MaxTaskChanges /\ changes' = changes + 1
    /\ request[q].op = "none" /\ q \notin pending /\ Unlocked(t)
    /\ table[t].live <=> op # "create"
    /\ request' = [request EXCEPT ![q] =
           [op |-> op, t |-> t,
            row |-> CASE op = "create" -> New
                      [] op = "toggle" -> [table[t] EXCEPT !.enabled = ~@]
                      [] op = "delete" -> [table[t] EXCEPT !.live = FALSE]]]
    /\ pending' = IF op = "delete" THEN pending ELSE pending \cup {q}
    /\ UNCHANGED <<table, stamp, beatVars, newer, stray, faults>>

\* COMMIT, or ROLLBACK.
EndRequest(q, ok) ==
    LET t == request[q].t IN
    /\ request[q].op # "none"
    /\ request' = [request EXCEPT ![q].op = "none"]
    /\ table' = IF ok THEN [table EXCEPT ![t] = request[q].row] ELSE table
    /\ UNCHANGED <<stamp, pending, beatVars, newer, stray, changes, faults>>

\* update_changed_async writes the stamp, before or after the COMMIT.
Stamp(x) ==
    /\ x \in pending /\ pending' = pending \ {x}
    /\ stamp' = TRUE
    /\ newer' = [b \in Beat |-> second[b]]
    /\ UNCHANGED <<table, request, beatVars, stray, changes, faults>>

\* The clock begins another second.
Second ==
    /\ \E b \in Beat : Up(b) /\ ~second[b]
    /\ second' = [b \in Beat |-> Up(b)]
    /\ UNCHANGED <<table, stamp, pending, request, lock, beat, mem, dirty,
                   compared, newer, stray, changes, faults>>

----------------------------------------------------------------------------
(* The schedule of a beat                                                  *)

Enabled(row) == row.live /\ row.enabled

\* get_all_task_schedulers, from table tab.
Loaded(tab) == [t \in Task |-> IF Enabled(tab[t]) THEN tab[t] ELSE Missing]

\* Mutant: all columns are saved.
SavedAll(tab, m, names) ==
    [t \in Task |-> IF t \in names /\ m[t].live /\ tab[t].live THEN m[t] ELSE tab[t]]

\* ModelEntry.save for each of the names that the schedule m still has, on rows
\* that still exist.
Saved(tab, m, names) ==
    [t \in Task |-> IF t \in names /\ m[t].live /\ tab[t].live
                    THEN [tab[t] EXCEPT !.ran = m[t].ran] ELSE tab[t]]

\* sync keeps the names that the schedule does not have (KeyError).
Unknown(m, names) == {t \in names : ~m[t].live}

\* schedule_changed: without a stamp one is written; the first comparison finds
\* nothing; every comparison is remembered.
Changed(b) == stamp /\ compared[b] /\ newer[b]

Compare(b) ==
    /\ stamp' = TRUE
    /\ compared' = [compared EXCEPT ![b] = stamp \/ @]
    /\ second' = [second EXCEPT ![b] = @ /\ ~stamp]
    /\ newer' = [c \in Beat |-> IF ~stamp THEN second[c]
                                ELSE newer[c] /\ c # b]

\* The property schedule: after a change the counts are saved and the table is
\* read again.
Access(b) ==
    /\ Compare(b)
    /\ IF Changed(b)
       THEN /\ \A t \in dirty[b] : Unlocked(t)
            /\ table' = Saved(table, mem[b], dirty[b])
            /\ mem' = [mem EXCEPT ![b] = Loaded(table')]
            /\ dirty' = [dirty EXCEPT ![b] = Unknown(mem[b], @)]
       ELSE UNCHANGED <<table, mem, dirty>>

\* sync: it pops the names one by one and reaches each entry through the
\* property schedule.  When that finds a change for the first name, the others
\* are saved, the table is read again, and the first name is saved with the
\* entry just read.
Sync(b) ==
    /\ beat[b] = "idle" /\ dirty[b] # {}
    /\ \A t \in dirty[b] : Unlocked(t)
    /\ Compare(b)
    /\ \E first \in dirty[b] :
        LET others == dirty[b] \ {first} IN
        IF Changed(b)
        THEN /\ table' = Saved(table, mem[b], others)
             /\ mem' = [mem EXCEPT ![b] = Loaded(table')]
             /\ dirty' = [dirty EXCEPT ![b] = Unknown(mem[b], others)
                                          \cup Unknown(Loaded(table'), {first})]
        ELSE /\ table' = Saved(table, mem[b], dirty[b])
             /\ dirty' = [dirty EXCEPT ![b] = Unknown(mem[b], @)]
             /\ UNCHANGED mem
    /\ UNCHANGED <<pending, request, lock, beat, stray, changes, faults>>

\* A database error ends sync; the name that was popped is forgotten.
SyncFail(b, t) ==
    /\ Fault /\ beat[b] = "idle" /\ t \in dirty[b]
    /\ dirty' = [dirty EXCEPT ![b] = @ \ {t}]
    /\ UNCHANGED <<table, stamp, pending, request, lock, beat, mem, second,
                   compared, newer, stray, changes>>

----------------------------------------------------------------------------
(* The life of a beat                                                      *)

\* The scheduler is built, and reads the table twice, before the lock is
\* asked for: the second access makes the first comparison.
StartBeat(b) ==
    /\ beat[b] = "down" /\ b \notin pending
    /\ beat' = [beat EXCEPT ![b] = "waiting"]
    /\ mem' = [mem EXCEPT ![b] = Loaded(table)]
    /\ dirty' = [dirty EXCEPT ![b] = {}]
    /\ Compare(b)
    /\ stray' = [stray EXCEPT ![b] = 0]
    /\ UNCHANGED <<table, pending, request, lock, changes, faults>>

\* acquire_distributed_beat_lock
Acquire(b) ==
    /\ beat[b] = "waiting" /\ lock = NoBeat
    /\ lock' = b
    /\ beat' = [beat EXCEPT ![b] = "idle"]
    /\ UNCHANGED <<table, stamp, pending, request, mem, dirty, second, compared,
                   newer, stray, changes, faults>>

\* The process is gone and with it what it had in memory.
Gone(b) ==
    /\ beat' = [beat EXCEPT ![b] = "down"]
    /\ mem' = [mem EXCEPT ![b] = [t \in Task |-> Missing]]
    /\ dirty' = [dirty EXCEPT ![b] = {}]
    /\ newer' = [newer EXCEPT ![b] = FALSE]
    /\ second' = [second EXCEPT ![b] = FALSE]
    /\ compared' = [compared EXCEPT ![b] = FALSE]
    /\ stray' = [stray EXCEPT ![b] = 0]

\* Mutant: the lock is not extended, so its loss is not seen.
TickUnchecked(b) ==
    /\ beat[b] = "idle" /\ Access(b)
    /\ beat' = [beat EXCEPT ![b] = "tick"]
    /\ UNCHANGED <<pending, request, lock, stray, changes, faults>>

\* tick extends the lock, which raises when the lock is lost, and looks at the
\* schedule ...
Tick(b) ==
    /\ beat[b] = "idle" /\ lock = b
    /\ Access(b)
    /\ beat' = [beat EXCEPT ![b] = "tick"]
    /\ UNCHANGED <<pending, request, lock, stray, changes, faults>>

\* ... and at the entry on top of the heap.  Nothing may be due,
NothingDue(b) ==
    /\ beat[b] = "tick"
    /\ beat' = [beat EXCEPT ![b] = "idle"]
    /\ UNCHANGED <<table, stamp, pending, request, lock, mem, dirty, second,
                   compared, newer, stray, changes, faults>>

\* Mutant: only the count is reset.
DisableForgotten(b, t) ==
    /\ beat[b] = "tick" /\ Unlocked(t)
    /\ Enabled(mem[b][t]) /\ mem[b][t].ran /\ t \in OneOff
    /\ beat' = [beat EXCEPT ![b] = "idle"]
    /\ mem' = [mem EXCEPT ![b][t].ran = FALSE]
    /\ table' = IF table[t].live THEN [table EXCEPT ![t].ran = FALSE] ELSE table
    /\ UNCHANGED <<stamp, pending, request, lock, dirty, second, compared, newer,
                   stray, changes, faults>>

\* a task that is to run once may have run: it is disabled, in memory and in
\* the table,
DisableOneOff(b, t) ==
    /\ beat[b] = "tick" /\ Unlocked(t)
    /\ Enabled(mem[b][t]) /\ mem[b][t].ran /\ t \in OneOff
    /\ beat' = [beat EXCEPT ![b] = "idle"]
    /\ mem' = [mem EXCEPT ![b][t].enabled = FALSE, ![b][t].ran = FALSE]
    /\ IF table[t].live
       THEN /\ table' = [table EXCEPT ![t].enabled = FALSE, ![t].ran = FALSE]
            /\ pending' = pending \cup {b}
       ELSE UNCHANGED <<table, pending>>
    /\ UNCHANGED <<stamp, request, lock, dirty, second, compared, newer, stray, changes, faults>>

\* or the task is counted and sent (reserve, apply_entry).
Run(b, t) ==
    /\ beat[b] = "tick"
    /\ Enabled(mem[b][t]) /\ ~(mem[b][t].ran /\ t \in OneOff)
    /\ beat' = [beat EXCEPT ![b] = "idle"]
    /\ mem' = [mem EXCEPT ![b][t].ran = TRUE]
    /\ dirty' = [dirty EXCEPT ![b] = @ \cup {t}]
    /\ stray' = [stray EXCEPT ![b] = IF lock = b THEN @ ELSE More(@)]
    /\ UNCHANGED <<table, stamp, pending, request, lock, second, compared,
                   newer, changes, faults>>

\* close, when the process is told to stop or its lock is lost: the lock is
\* released, and the counts are saved after that.
Close(b) ==
    /\ beat[b] = "idle"
    /\ IF lock = b THEN Fault ELSE UNCHANGED faults
    /\ \A t \in dirty[b] : Unlocked(t)
    /\ lock' = IF lock = b THEN NoBeat ELSE lock
    /\ table' = Saved(table, mem[b], dirty[b])
    /\ Gone(b)
    /\ UNCHANGED <<stamp, pending, request, changes>>

Kill(b) ==
    /\ Up(b) /\ Fault /\ Gone(b)
    /\ pending' = pending \ {b}
    /\ UNCHANGED <<table, stamp, request, lock, changes>>

\* The time limit of the lock: of a process that is gone, or in a tick that
\* takes too long.
InUse == lock # NoBeat /\ beat[lock] \in {"idle", "tick"}

LockTimeout ==
    /\ lock # NoBeat /\ lock' = NoBeat
    /\ IF InUse THEN Fault ELSE UNCHANGED faults
    /\ UNCHANGED <<table, stamp, pending, request, beat, mem, dirty, second,
                   compared, newer, stray, changes>>

Look(b, t) == DisableOneOff(b, t) \/ Run(b, t)
TickEnd(b) == NothingDue(b) \/ \E t \in Task : Look(b, t)

SchedNext ==
    \/ \E q \in Admin, t \in Task :
        \E op \in {"create", "toggle", "delete"} : Change(q, t, op)
    \/ \E q \in Admin, ok \in BOOLEAN : EndRequest(q, ok)
    \/ \E x \in pending : Stamp(x)
    \/ Second \/ LockTimeout
    \/ \E b \in Beat :
        \/ StartBeat(b) \/ Acquire(b) \/ Tick(b) \/ TickEnd(b)
        \/ Sync(b) \/ Close(b) \/ Kill(b)
        \/ \E t \in Task : SyncFail(b, t)

\* Requests end and write their stamp, time passes, a beat that has the lock
\* ticks on and one that has lost it stops, and every entry is due again.
SchedFairness ==
    /\ WF_schedVars(\E q \in Admin : EndRequest(q, TRUE))
    /\ WF_schedVars(\E x \in pending : Stamp(x))
    /\ WF_schedVars(Second)
    /\ \A b \in Beat :
        /\ WF_schedVars(Tick(b) \/ TickEnd(b) \/ (Close(b) /\ lock # b))
        /\ \A t \in OneOff : SF_schedVars(Look(b, t))

SchedSpec == SchedInit /\ [][SchedNext]_schedVars /\ SchedFairness

----------------------------------------------------------------------------
(* Properties                                                              *)

\* A process that has lost its lock sends at most one more task: the next tick
\* cannot extend the lock and ends it.
AtMostOneStray == \A b \in Beat : stray[b] <= 1

\* What a beat writes back never enables a task: only a request does, however
\* old the entry is that the beat has in memory.
BeatNeverEnables ==
    [][\A t \in Task : Enabled(table'[t]) /\ ~Enabled(table[t]) =>
          \E q \in Admin : request[q].op \in {"create", "toggle"} /\ request[q].t = t
                           /\ request'[q].op = "none"]_schedVars

\* A task that is to run once and that a beat has run leaves the schedule of
\* this beat, although its count may be forgotten by an error, replaced by a
\* reload, or saved over a row that was changed meanwhile.
OneOffDisabled ==
    \A b \in Beat, t \in OneOff :
        Enabled(mem[b][t]) /\ mem[b][t].ran /\ beat[b] # "waiting"
            ~> ~Enabled(mem[b][t])

\* At most one stray task of a beat that lost its lock.
SchedInv ==
    /\ SchedTypeOK /\ AtMostOneStray
=============================================================================
