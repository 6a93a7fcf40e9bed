---------------------------- MODULE Departments ----------------------------
(***************************************************************************)
(* The tree of departments and the users in them.  A request checks parent *)
(* children and members in one session and writes at its end; nothing is   *)
(* locked in between.  The tree that is returned is built from those rows  *)
(* a user may see.                                                         *)
(***************************************************************************)
EXTENDS Naturals, FiniteSets

CONSTANTS Dept,        \* rows of sys_dept that come to exist
          Member,      \* users
          DeptRequest,
          NoDept       \* parent_id or dept_id is NULL

ASSUME DeptAssumption == IsFiniteSet(Dept) /\ NoDept \notin Dept

NoPlan == [op |-> "none"]

VARIABLES dept,     \* "new", "live" or "gone"
          parent,   \* parent_id
          memberOf, \* dept_id of each user
          plan,     \* what each request has checked and is about to write
          named     \* history: departments that one request was to refer to and another to delete

deptVars == <<dept, parent, memberOf, plan, named>>

DeptRef == Dept \cup {NoDept}
Plan == [op : {"create", "update"}, dept : Dept, parent : DeptRef]
        \cup [op : {"delete"}, dept : Dept] \cup [op : {"assign"}, member : Member, dept : DeptRef]

DeptTypeOK ==
    /\ dept \in [Dept -> {"new", "live", "gone"}]
    /\ parent \in [Dept -> DeptRef] /\ memberOf \in [Member -> DeptRef]
    /\ \A d \in Dept : parent[d] # d
    /\ plan \in [DeptRequest -> Plan \cup {NoPlan}]
    /\ named \subseteq Dept

DeptInit ==
    /\ dept = [d \in Dept |-> "new"] /\ parent = [d \in Dept |-> NoDept]
    /\ memberOf = [m \in Member |-> NoDept]
    /\ plan = [r \in DeptRequest |-> NoPlan] /\ named = {}

\* dept_dao.get finds it; no department at all is fine as well.
Found(d) == d = NoDept \/ d \in {c \in Dept : dept[c] = "live"}

\* The departments a planned write refers to, and deletes.
Refers(p)  == CASE p.op \in {"create", "update"} -> {p.parent}
                [] p.op = "assign" -> {p.dept} [] OTHER -> {}
Deletes(p) == IF p.op = "delete" THEN {p.dept} ELSE {}

Checked(r, p) ==
    /\ plan[r] = NoPlan /\ plan' = [plan EXCEPT ![r] = p]
    /\ named' = named \cup UNION {(Refers(p) \cap Deletes(plan[q])) \cup (Deletes(p) \cap Refers(plan[q])) :
                                  q \in DeptRequest}
    /\ UNCHANGED <<dept, parent, memberOf>>

CreateDept(r, d, p) ==
    /\ dept[d] = "new" /\ Found(p) /\ p # d
    /\ \A q \in DeptRequest : plan[q] # NoPlan /\ plan[q].op = "create" => plan[q].dept # d
    /\ Checked(r, [op |-> "create", dept |-> d, parent |-> p])

UpdateDept(r, d, p) ==
    /\ dept[d] = "live" /\ Found(p) /\ p # d
    /\ Checked(r, [op |-> "update", dept |-> d, parent |-> p])

\* Mutant: children are not asked for.
DeleteDeptLeaf(r, d) ==
    /\ dept[d] = "live" /\ \A m \in Member : memberOf[m] # d
    /\ Checked(r, [op |-> "delete", dept |-> d])

DeleteDept(r, d) ==
    /\ dept[d] = "live"
    /\ \A m \in Member : memberOf[m] # d
    /\ \A c \in Dept : dept[c] = "live" => parent[c] # d
    /\ Checked(r, [op |-> "delete", dept |-> d])

\* A user is created in, or moved to, a department.
AssignMember(r, m, d) ==
    /\ Found(d) /\ Checked(r, [op |-> "assign", member |-> m, dept |-> d])

\* The write and its COMMIT; a row deleted meanwhile is not found any more.
WriteDept(r) ==
    LET p == plan[r] IN
    /\ p # NoPlan /\ plan' = [plan EXCEPT ![r] = NoPlan]
    /\ \/ /\ p.op = "create" \/ (p.op = "update" /\ dept[p.dept] = "live")
          /\ dept' = [dept EXCEPT ![p.dept] = "live"]
          /\ parent' = [parent EXCEPT ![p.dept] = p.parent]
          /\ UNCHANGED memberOf
       \/ /\ p.op = "delete" /\ dept[p.dept] = "live"
          /\ dept' = [dept EXCEPT ![p.dept] = "gone"]
          /\ parent' = [parent EXCEPT ![p.dept] = NoDept] \* of a deleted row nobody reads it
          /\ UNCHANGED memberOf
       \/ /\ p.op = "assign"
          /\ memberOf' = [memberOf EXCEPT ![p.member] = p.dept]
          /\ UNCHANGED <<dept, parent>>
       \/ /\ p.op \in {"update", "delete"} /\ dept[p.dept] = "gone"
          /\ UNCHANGED <<dept, parent, memberOf>>
    /\ UNCHANGED named

WriteDeptFails(r) ==
    /\ plan[r] # NoPlan /\ plan' = [plan EXCEPT ![r] = NoPlan]
    /\ UNCHANGED <<dept, parent, memberOf, named>>

DeptNext ==
    \E r \in DeptRequest :
        \/ \E d \in Dept, p \in DeptRef : CreateDept(r, d, p) \/ UpdateDept(r, d, p)
        \/ \E d \in Dept : DeleteDept(r, d)
        \/ \E m \in Member, d \in DeptRef : AssignMember(r, m, d)
        \/ WriteDept(r) \/ WriteDeptFails(r)
----------------------------------------------------------------------------
(* build_tree.traversal_to_tree, on the rows V that the data filter lets through *)

Live == {d \in Dept : dept[d] = "live"}

\* A node without a parent, or whose parent is not among the rows, is a root.
Tops(V) == {d \in V : parent[d] = NoDept \/ parent[d] \notin V}

\* Every other node is hung below its parent; what hangs below a root is shown.
Shown(V) ==
    LET level[k \in 0..Cardinality(V)] ==
            IF k = 0 THEN Tops(V) ELSE level[k - 1] \cup {d \in V : parent[d] \in level[k - 1]}
    IN  level[Cardinality(V)]

\* The nodes on a cycle of parents, or below one.
Looped(V) == UNION {C \in SUBSET V : \A d \in C : parent[d] \in C}

\* Whatever rows a user may see, all of them are in the tree, also those whose
\* parent is hidden or deleted, except on or below a cycle: two updates that
\* make departments each other's parents take them out of every tree.
TreeComplete == \A V \in SUBSET Live : Shown(V) = V \ Looped(V)

\* A department keeps its parent, and a user the department that
\* get_current_user insists on, unless a request that refers to it was in
\* flight together with the one that deletes it.
ParentsLive == \A d \in Live : parent[d] \in Live \cup {NoDept} \cup named
MembersLive == \A m \in Member : memberOf[m] \in Live \cup {NoDept} \cup named

\* The tree shows every department, and what is referred to exists.
DeptInv ==
    /\ DeptTypeOK /\ TreeComplete /\ ParentsLive /\ MembersLive
=============================================================================
