----------------------------- MODULE Dictionary -----------------------------
(***************************************************************************)
(* Dictionaries (plugin dict): types with a code, and data rows that hold  *)
(* the number of their type and a copy of its code, by which they are      *)
(* looked up and cached.  A request checks, writes at its end, and, if it  *)
(* changes data, empties the cache before its transaction commits; changes *)
(* of types do not.                                                        *)
(***************************************************************************)
EXTENDS Naturals, FiniteSets

CONSTANTS DictType, DictData, \* rows that come to exist
          Code, Label,        \* type codes and labels
          StartCode,          \* code of each type that is there at the start
          DictRequest,
          MaxTasks            \* bound: changes begun

ASSUME DictionaryAssumption ==
    /\ DOMAIN StartCode \subseteq DictType /\ MaxTasks \in Nat
    /\ \A t \in DOMAIN StartCode : StartCode[t] \in Code
    /\ \A t, u \in DOMAIN StartCode : StartCode[t] = StartCode[u] => t = u

NoList == [known |-> FALSE, rows |-> {}]
NoTask == [op |-> "none"]

VARIABLES types,    \* the row of each type
          datas,    \* the row of each data
          task,     \* what each request has checked and is about to commit
          fetched,  \* a list read for a code and not yet stored
          lists,    \* fba:dict: the cached list of each code
          tasks,    \* counter for the bound
          parted,   \* history: types deleted while a request was to put data into them
          recoded,  \* history: types whose code was changed
          doubtful  \* history: codes whose list met a change, or lost rows with their type

dictVars == <<types, datas, task, fetched, lists, tasks, parted, recoded, doubtful>>

Absent  == [state : {"new", "gone"}]
Gone    == [state |-> "gone"]
TypeRow == Absent \cup [state : {"live"}, code : Code]
DataRow == Absent \cup [state : {"live"}, type : DictType, code : Code, label : Label]
Task == [op : {"addType", "recode"}, type : DictType, code : Code]
        \cup [op : {"dropType"}, type : DictType, rows : SUBSET DictData]
        \cup [op : {"addData", "putData"}, data : DictData, type : DictType, code : Code, label : Label]
        \cup [op : {"dropData"}, data : DictData]
DataOps == {"addData", "putData", "dropData"}

LiveTypes == {t \in DictType : types[t].state = "live"}
LiveDatas == {d \in DictData : datas[d].state = "live"}
List(c)   == [known |-> TRUE, rows |-> {d \in LiveDatas : datas[d].code = c}]

DictTypeOK ==
    /\ types \in [DictType -> TypeRow] /\ datas \in [DictData -> DataRow]
    /\ \A t, u \in LiveTypes : types[t].code = types[u].code => t = u
    /\ \A d, e \in LiveDatas : datas[d].code = datas[e].code /\ datas[d].label = datas[e].label => d = e
    /\ \A r \in DictRequest : task[r] \in Task \cup {NoTask}
    /\ \A c \in Code : \A l \in {lists[c], fetched[c]} :
        l.known \in BOOLEAN /\ l.rows \subseteq DictData /\ (l.known <=> l.rows # {})
    /\ tasks \in 0..MaxTasks
    /\ parted \subseteq DictType /\ recoded \subseteq DictType /\ doubtful \subseteq Code

DictInit ==
    /\ types = [t \in DictType |-> IF t \in DOMAIN StartCode THEN [state |-> "live", code |-> StartCode[t]]
                                   ELSE [state |-> "new"]]
    /\ datas = [d \in DictData |-> [state |-> "new"]] /\ tasks = 0
    /\ task = [r \in DictRequest |-> NoTask]
    /\ fetched = [c \in Code |-> NoList] /\ lists = [c \in Code |-> NoList]
    /\ parted = {} /\ recoded = {} /\ doubtful = {}

Running(ops) == {r \in DictRequest : task[r].op \in ops}
----------------------------------------------------------------------------
(* get_by_type_code: a list without rows is an error and is not stored *)

FetchList(c) ==
    /\ ~lists[c].known /\ ~fetched[c].known /\ List(c).rows # {}
    /\ fetched' = [fetched EXCEPT ![c] = List(c)]
    /\ doubtful' = IF Running(DataOps) = {} THEN doubtful ELSE doubtful \cup {c}
    /\ UNCHANGED <<types, datas, task, lists, tasks, parted, recoded>>

StoreList(c) ==
    /\ fetched[c].known
    /\ lists' = [lists EXCEPT ![c] = fetched[c]] /\ fetched' = [fetched EXCEPT ![c] = NoList]
    /\ UNCHANGED <<types, datas, task, tasks, parted, recoded, doubtful>>

ListExpires(c) ==
    /\ lists[c].known /\ lists' = [lists EXCEPT ![c] = NoList]
    /\ UNCHANGED <<types, datas, task, fetched, tasks, parted, recoded, doubtful>>
----------------------------------------------------------------------------
(* Requests: the checks, and cache_invalidate *)

\* Mutant: nothing is invalidated.
InvalidatedNothing(j) == UNCHANGED lists

\* Only changes of data invalidate, and then the whole namespace.
Invalidated(j) == lists' = IF j.op \in DataOps THEN [c \in Code |-> NoList] ELSE lists

Referring(j) == IF j.op \in {"addData", "putData"} THEN {j.type} ELSE {}
Dropping(j)  == IF j.op = "dropType" THEN {j.type} ELSE {}

BeginTask(r, j) ==
    /\ task[r] = NoTask /\ task' = [task EXCEPT ![r] = j]
    /\ tasks < MaxTasks /\ tasks' = tasks + 1
    /\ Invalidated(j)
    /\ doubtful' = IF j.op \in DataOps THEN doubtful \cup {c \in Code : fetched[c].known} ELSE doubtful
    /\ parted' = parted \cup UNION {(Referring(j) \cap Dropping(task[q])) \cup (Dropping(j) \cap Referring(task[q])) :
                                    q \in DictRequest}
    /\ UNCHANGED <<types, datas, fetched, recoded>>

Pending(r, op) == {q \in Running({op}) : q # r}

CreateType(r, t, c) ==
    /\ types[t].state = "new" /\ \A q \in Pending(r, "addType") : task[q].type # t
    /\ \A u \in LiveTypes : types[u].code # c
    /\ BeginTask(r, [op |-> "addType", type |-> t, code |-> c])

UpdateType(r, t, c) ==
    /\ t \in LiveTypes /\ types[t].code # c /\ \A u \in LiveTypes : types[u].code # c
    /\ BeginTask(r, [op |-> "recode", type |-> t, code |-> c])

\* delete_by_type_id, then the type.
DeleteType(r, t) ==
    /\ t \in LiveTypes
    /\ BeginTask(r, [op |-> "dropType", type |-> t, rows |-> {d \in LiveDatas : datas[d].type = t}])

LabelFree(l, c, but) == \A e \in LiveDatas \ but : datas[e].code # c \/ datas[e].label # l

CreateData(r, d, t, l) ==
    /\ datas[d].state = "new" /\ \A q \in Pending(r, "addData") : task[q].data # d
    /\ t \in LiveTypes /\ LabelFree(l, types[t].code, {})
    /\ BeginTask(r, [op |-> "addData", data |-> d, type |-> t, code |-> types[t].code, label |-> l])

UpdateData(r, d, t, l) ==
    /\ d \in LiveDatas /\ t \in LiveTypes /\ LabelFree(l, types[t].code, {d})
    /\ BeginTask(r, [op |-> "putData", data |-> d, type |-> t, code |-> types[t].code, label |-> l])

DeleteData(r, d) == d \in LiveDatas /\ BeginTask(r, [op |-> "dropData", data |-> d])
----------------------------------------------------------------------------
(* COMMIT, with the unique constraints *)

\* uk_sys_dict_data_type_code_label_deleted.
KeepsUnique(j) == LabelFree(j.label, j.code, {j.data})

\* The data rows after the commit; a row deleted meanwhile is not updated.
DataCommits(j) ==
    CASE j.op = "addData" \/ (j.op = "putData" /\ j.data \in LiveDatas) ->
            IF KeepsUnique(j)
            THEN [datas EXCEPT ![j.data] = [state |-> "live", type |-> j.type, code |-> j.code, label |-> j.label]]
            ELSE datas
      [] j.op = "dropData" -> [datas EXCEPT ![j.data] = Gone]
      [] j.op = "dropType" -> [d \in DictData |-> IF d \in j.rows THEN Gone ELSE datas[d]]
      [] OTHER -> datas

TypeCommits(j) ==
    CASE j.op = "addType" \/ (j.op = "recode" /\ j.type \in LiveTypes) ->
            IF \E u \in LiveTypes \ {j.type} : types[u].code = j.code THEN types
            ELSE [types EXCEPT ![j.type] = [state |-> "live", code |-> j.code]]
      [] j.op = "dropType" -> [types EXCEPT ![j.type] = Gone]
      [] OTHER -> types

CommitTask(r) ==
    LET j == task[r] IN
    /\ j # NoTask /\ task' = [task EXCEPT ![r] = NoTask]
    /\ types' = TypeCommits(j) /\ datas' = DataCommits(j)
    /\ recoded' = IF j.op = "recode" THEN recoded \cup {j.type} ELSE recoded
    /\ doubtful' = IF j.op = "dropType" THEN doubtful \cup {datas[d].code : d \in j.rows \cap LiveDatas} ELSE doubtful
    /\ UNCHANGED <<fetched, lists, tasks, parted>>

TaskFails(r) ==
    /\ task[r] # NoTask /\ task' = [task EXCEPT ![r] = NoTask]
    /\ UNCHANGED <<types, datas, fetched, lists, tasks, parted, recoded, doubtful>>

DictNext ==
    \/ \E c \in Code : FetchList(c) \/ StoreList(c) \/ ListExpires(c)
    \/ \E r \in DictRequest :
        \/ \E t \in DictType, c \in Code : CreateType(r, t, c) \/ UpdateType(r, t, c)
        \/ \E t \in DictType : DeleteType(r, t)
        \/ \E d \in DictData : \/ \E t \in DictType, l \in Label : CreateData(r, d, t, l) \/ UpdateData(r, d, t, l)
                               \/ DeleteData(r, d)
        \/ CommitTask(r) \/ TaskFails(r)
----------------------------------------------------------------------------
\* Data rows go with their type, unless a request that puts data into the type
\* was in flight together with the one that deletes it.
DataOfLiveType == \A d \in LiveDatas : datas[d].type \in LiveTypes \cup parted

\* The copied code is that of the type, through all moves of the row, unless
\* the code of the type was changed: that does not reach the rows.
CodeOfType ==
    \A d \in LiveDatas : datas[d].type \in LiveTypes \ recoded => datas[d].code = types[datas[d].type].code

\* A cached list is what the table holds, unless it was read while a change was
\* in flight or rows went with their type, which does not empty the cache.
ListCurrent == \A c \in Code \ doubtful : lists[c].known /\ Running(DataOps) = {} => lists[c] = List(c)

\* Rows, codes and cached lists agree.
DictInv ==
    /\ DictTypeOK /\ DataOfLiveType /\ CodeOfType /\ ListCurrent
=============================================================================
