----------------------------- MODULE TaskResults -----------------------------
(***************************************************************************)
(* The result backend (app/task/database.py): each execution of a task,    *)
(* and a task may be delivered twice, stores STARTED and then its outcome  *)
(* in the record of the task.  A store is a SELECT, and an INSERT or       *)
(* UPDATE with its COMMIT, repeated by @retry when the database refuses    *)
(* it.  The administrator and the cleanup delete records.                  *)
(***************************************************************************)
EXTENDS Naturals, FiniteSets

CONSTANTS TaskId, Execution, TaskOf, \* deliveries, and the task each one runs
          MaxAttempts,               \* max_retries of celery's @retry
          MaxResultDeletes, MaxKills \* bounds: deletions of rows, killed workers

ASSUME TaskResultsAssumption ==
    /\ TaskOf \in [Execution -> TaskId] /\ MaxAttempts \in Nat \ {0}
    /\ {MaxResultDeletes, MaxKills} \subseteq Nat

Outcomes == {"SUCCESS", "FAILURE", "RETRY"}
NoResult == "none"

VARIABLES record,  \* status of the record of each task
          exec,    \* of each execution: its step, the status it stores, the record it found, its attempts
          deletes, kills,
          removed, \* history: tasks whose record was deleted
          cut      \* history: tasks of which an execution was killed

resultVars == <<record, exec, deletes, kills, removed, cut>>

ExecState == [pc : {"new", "select", "write", "running", "over"}, status : {"STARTED"} \cup Outcomes,
              found : BOOLEAN, attempts : 0..MaxAttempts]

ResultsTypeOK ==
    /\ record \in [TaskId -> {NoResult, "STARTED"} \cup Outcomes]
    /\ exec \in [Execution -> ExecState]
    /\ \A e \in Execution : exec[e].pc = "running" => exec[e].status = "STARTED"
    /\ deletes \in 0..MaxResultDeletes /\ kills \in 0..MaxKills
    /\ removed \subseteq TaskId /\ cut \subseteq TaskId

ResultsInit ==
    /\ record = [t \in TaskId |-> NoResult]
    /\ exec = [e \in Execution |-> [pc |-> "new", status |-> "STARTED", found |-> FALSE, attempts |-> 0]]
    /\ deletes = 0 /\ kills = 0 /\ removed = {} /\ cut = {}

ExecAt(e, pc) == exec[e].pc = pc

\* The worker takes the message and stores STARTED (task_track_started).
StartExecution(e) ==
    /\ ExecAt(e, "new") /\ exec' = [exec EXCEPT ![e].pc = "select"]
    /\ UNCHANGED <<record, deletes, kills, removed, cut>>

EndExecution(e) ==
    /\ ExecAt(e, "running")
    /\ \E s \in Outcomes : exec' = [exec EXCEPT ![e].pc = "select", ![e].status = s, ![e].attempts = 0]
    /\ UNCHANGED <<record, deletes, kills, removed, cut>>

SelectRow(e) ==
    /\ ExecAt(e, "select")
    /\ exec' = [exec EXCEPT ![e].pc = "write", ![e].found = record[TaskOf[e]] # NoResult]
    /\ UNCHANGED <<record, deletes, kills, removed, cut>>

NextPc(e) == IF exec[e].status = "STARTED" THEN "running" ELSE "over"

\* The INSERT finds the record that another execution has inserted meanwhile, or
\* the UPDATE finds none (StaleDataError).
Duplicated(e) == exec[e].found # (record[TaskOf[e]] # NoResult)

\* Mutant: a record that is already there keeps its status.
StoreResultFirst(e) ==
    /\ ExecAt(e, "write") /\ ~Duplicated(e)
    /\ record' = IF exec[e].found THEN record ELSE [record EXCEPT ![TaskOf[e]] = exec[e].status]
    /\ exec' = [exec EXCEPT ![e].pc = NextPc(e)]
    /\ UNCHANGED <<deletes, kills, removed, cut>>

\* _update_result: every column is set, whatever was there.
StoreResult(e) ==
    /\ ExecAt(e, "write") /\ ~Duplicated(e)
    /\ record' = [record EXCEPT ![TaskOf[e]] = exec[e].status]
    /\ exec' = [exec EXCEPT ![e].pc = NextPc(e)]
    /\ UNCHANGED <<deletes, kills, removed, cut>>

\* @retry starts again from the SELECT; after the last attempt it raises, and
\* the execution goes on, or ends, without having stored its status.
StoreRefused(e) ==
    LET n == exec[e].attempts + 1 IN
    /\ ExecAt(e, "write") /\ Duplicated(e)
    /\ exec' = [exec EXCEPT ![e].attempts = n, ![e].pc = IF n < MaxAttempts THEN "select" ELSE NextPc(e)]
    /\ UNCHANGED <<record, deletes, kills, removed, cut>>

\* A worker is killed; the message is delivered again as another execution.
KillWorker(e) ==
    /\ exec[e].pc \in {"select", "write", "running"} /\ kills < MaxKills /\ kills' = kills + 1
    /\ exec' = [exec EXCEPT ![e].pc = "over"] /\ cut' = cut \cup {TaskOf[e]}
    /\ UNCHANGED <<record, deletes, removed>>

\* delete of the result service, _forget, and cleanup of what is out of date.
DeleteResult(t) ==
    /\ record[t] # NoResult /\ deletes < MaxResultDeletes /\ deletes' = deletes + 1
    /\ record' = [record EXCEPT ![t] = NoResult] /\ removed' = removed \cup {t}
    /\ UNCHANGED <<exec, kills, cut>>

ResultsNext ==
    \/ \E e \in Execution : \/ StartExecution(e) \/ EndExecution(e) \/ SelectRow(e)
                            \/ StoreResult(e) \/ StoreRefused(e) \/ KillWorker(e)
    \/ \E t \in TaskId : DeleteResult(t)
----------------------------------------------------------------------------
RunsOf(t) == {e \in Execution : TaskOf[e] = t /\ exec[e].pc # "new"}
AllOver(t) == \A e \in RunsOf(t) : ExecAt(e, "over")

\* When all executions of a task are over, its record shows an outcome and not
\* that it runs, however many there were and in whatever order they stored;
\* except for a task of which a worker was killed, or whose record was deleted.
OutcomeShown ==
    \A t \in TaskId \ (removed \cup cut) : RunsOf(t) # {} /\ AllOver(t) => record[t] \in Outcomes

\* What is over is shown as over.
ResultsInv ==
    /\ ResultsTypeOK /\ OutcomeShown
=============================================================================
