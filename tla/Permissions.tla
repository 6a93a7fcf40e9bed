----------------------------- MODULE Permissions -----------------------------
(***************************************************************************)
(* What a user may do and see: roles, their menus (permission marks) and   *)
(* data scopes, and the rules of a scope, as rows and association tables,  *)
(* with the copy of each user that get_jwt_user keeps in Redis.  An        *)
(* administrator's request checks, writes and deletes the copies of the    *)
(* users concerned, all before its transaction commits; another request    *)
(* may read a user, or change the same rows, in between.                   *)
(***************************************************************************)
EXTENDS Naturals, FiniteSets

CONSTANTS User, Role, Menu, Scope, Rule, \* the rows
          Filtering,  \* roles with is_filter_scopes
          Admin,      \* requests of administrators
          StartLinks, \* the associations at the start
          MaxEdits    \* bound: changes begun

Item  == Role \cup Menu \cup Scope \cup Rule
Owner == User \cup Role \cup Scope
\* user_role, role_menu, role_data_scope and data_scope_rule.
Tables == (User \X {Role}) \cup (Role \X {Menu, Scope}) \cup (Scope \X {Rule})
Links  == UNION {{t[1]} \X t[2] : t \in Tables}

ASSUME PermissionsAssumption ==
    /\ Filtering \subseteq Role /\ StartLinks \subseteq Links /\ MaxEdits \in Nat
    /\ User \cap Item = {} /\ Role \cap (Menu \cup Scope \cup Rule) = {}
    /\ Menu \cap (Scope \cup Rule) = {} /\ Scope \cap Rule = {}

NoCopy == [known |-> FALSE, perms |-> {}, all |-> FALSE, rules |-> {}]
NoEdit == [kind |-> "none"]

VARIABLES state,   \* of each row: "new" (to be created), "on", "off" (or other contents), "gone"
          links,   \* the rows of the association tables
          edit,    \* the change each administrator has in flight
          late,    \* links others have inserted since that change began
          read,    \* a user as read from the database and not yet stored
          copy,    \* fba:user:<id> in Redis
          edits,
          chosen,  \* history: the links as the last change of each set chose them
          merged,  \* history: sets that two changes replaced at once
          crossed  \* history: users read while a change was in flight

permVars == <<state, links, edit, late, read, copy, edits, chosen, merged, crossed>>

Copies == [known : BOOLEAN, perms : SUBSET Menu, all : BOOLEAN, rules : SUBSET (Rule \X {"on", "off"})]
RowEdit  == [kind : {"row"}, item : Item, to : {"on", "off", "gone"}]
LinkEdit == [kind : {"links"}, owner : Owner, table : {Role, Menu, Scope, Rule}, items : SUBSET Item]

PermTypeOK ==
    /\ state \in [Item -> {"new", "on", "off", "gone"}]
    /\ links \subseteq Links /\ chosen \subseteq Links
    /\ \A a \in Admin : edit[a] = NoEdit \/ edit[a] \in RowEdit \/ edit[a] \in LinkEdit
    /\ \A a \in Admin : late[a] \subseteq Links
    /\ read \in [User -> Copies] /\ copy \in [User -> Copies]
    /\ edits \in 0..MaxEdits /\ merged \subseteq Tables /\ crossed \subseteq User

PermInit ==
    /\ state = [i \in Item |-> IF \E l \in StartLinks : i \in {l[1], l[2]} THEN "on" ELSE "new"]
    /\ links = StartLinks /\ chosen = StartLinks
    /\ edit = [a \in Admin |-> NoEdit] /\ late = [a \in Admin |-> {}]
    /\ read = [u \in User |-> NoCopy] /\ copy = [u \in User |-> NoCopy]
    /\ edits = 0 /\ merged = {} /\ crossed = {}

Exists(i) == state[i] \in {"on", "off"}
InFlight == {a \in Admin : edit[a] # NoEdit}
----------------------------------------------------------------------------
(* Reading a user *)

RolesOf(u)   == {r \in Role : <<u, r>> \in links /\ Exists(r)}
EnabledOf(u) == {r \in RolesOf(u) : state[r] = "on"}

\* rbac_verify: the marks of the enabled menus of the enabled roles.
Perms(u) == {m \in Menu : state[m] = "on" /\ \E r \in EnabledOf(u) : <<r, m>> \in links}

\* filter_data_permission: all data with one enabled role that does not
\* filter, else what the rules of the enabled scopes of the roles select.
AllData(u) == EnabledOf(u) \ Filtering # {}
RulesOf(u) ==
    {<<x, state[x]>> : x \in {y \in Rule : Exists(y) /\ \E r \in EnabledOf(u), s \in Scope :
                                  state[s] = "on" /\ {<<r, s>>, <<s, y>>} \subseteq links}}

Rights(u) == [known |-> TRUE, perms |-> Perms(u), all |-> AllData(u), rules |-> RulesOf(u)]

\* get_jwt_user: without a copy the user is read, unless get_current_user
\* refuses one whose roles are all disabled; then the copy is stored.
ReadUserRights(u) ==
    /\ ~copy[u].known /\ ~read[u].known
    /\ RolesOf(u) = {} \/ EnabledOf(u) # {}
    /\ read' = [read EXCEPT ![u] = Rights(u)]
    /\ crossed' = IF InFlight = {} THEN crossed ELSE crossed \cup {u}
    /\ UNCHANGED <<state, links, edit, late, copy, edits, chosen, merged>>

StoreCopy(u) ==
    /\ read[u].known
    /\ copy' = [copy EXCEPT ![u] = read[u]] /\ read' = [read EXCEPT ![u] = NoCopy]
    /\ UNCHANGED <<state, links, edit, late, edits, chosen, merged, crossed>>

CopyExpires(u) ==
    /\ copy[u].known /\ copy' = [copy EXCEPT ![u] = NoCopy]
    /\ UNCHANGED <<state, links, edit, late, read, edits, chosen, merged, crossed>>
----------------------------------------------------------------------------
(* UserCacheManager: the users whose copies a change deletes *)

ByRole(r)  == {u \in User : <<u, r>> \in links}
ByMenu(m)  == UNION {ByRole(r) : r \in {q \in Role : <<q, m>> \in links}}

\* Mutant: only the enabled roles are followed.
ByScopeEnabled(s) == UNION {ByRole(r) : r \in {q \in Role : <<q, s>> \in links /\ state[q] = "on" /\ state[s] = "on"}}

ByScope(s) == UNION {ByRole(r) : r \in {q \in Role : <<q, s>> \in links}}
ByRule(x)  == UNION {ByScope(s) : s \in {q \in Scope : <<q, x>> \in links}}

\* A deleted menu has lost its role_menu rows before they are looked up.
Cleared(e) ==
    LET i == IF e.kind = "row" THEN e.item ELSE e.owner IN
    CASE i \in Role -> ByRole(i)
      [] i \in Menu -> IF e.to = "gone" THEN {} ELSE ByMenu(i)
      [] i \in Scope -> ByScope(i)
      [] i \in Rule -> ByRule(i)
      [] i \in User -> {i}

Begin(a, e) ==
    /\ edit[a] = NoEdit /\ edits < MaxEdits /\ edits' = edits + 1
    /\ edit' = [edit EXCEPT ![a] = e] /\ late' = [late EXCEPT ![a] = {}]
    /\ copy' = [u \in User |-> IF u \in Cleared(e) THEN NoCopy ELSE copy[u]]
    /\ crossed' = crossed \cup {u \in User : read[u].known}
    /\ UNCHANGED <<state, links, read, chosen>>

\* update and delete of a row: the UPDATE waits for the lock of the row.
EditRow(a, i, to) ==
    /\ Exists(i) /\ to # state[i]
    /\ \A b \in InFlight : edit[b].kind = "row" => edit[b].item # i
    /\ Begin(a, [kind |-> "row", item |-> i, to |-> to])
    /\ UNCHANGED merged

\* Only the update of a user writes the row of the owner first, and waits.
OwnerFree(o) ==
    o \in User => \A b \in InFlight : edit[b].kind = "links" => edit[b].owner # o

\* One owner's rows of an association table are deleted and inserted again;
\* owner and items must exist.
EditLinks(a, o, t, items) ==
    /\ o \notin User => Exists(o)
    /\ items \subseteq {i \in t : Exists(i)}
    /\ OwnerFree(o)
    /\ Begin(a, [kind |-> "links", owner |-> o, table |-> t, items |-> items])
    /\ merged' = merged \cup {<<edit[b].owner, edit[b].table>> : b \in
                     {c \in InFlight : edit[c].kind = "links" /\ edit[c].owner = o /\ edit[c].table = t}}

\* The rows a change deletes, of those it saw, and the rows it inserts.
Removes(e) == IF e.kind = "links" THEN {e.owner} \X e.table
              ELSE IF e.item \in Menu /\ e.to = "gone" THEN Role \X {e.item} ELSE {}
Inserts(e) == IF e.kind = "links" THEN {e.owner} \X e.items ELSE {}

\* COMMIT.  Rows that others inserted since the DELETE began are not deleted.
CommitEdit(a) ==
    LET e == edit[a] IN
    /\ e # NoEdit
    /\ links' = (links \ (Removes(e) \ late[a])) \cup Inserts(e)
    /\ chosen' = (chosen \ Removes(e)) \cup Inserts(e)
    /\ late' = [b \in Admin |-> IF b \in InFlight \ {a} THEN late[b] \cup Inserts(e) ELSE {}]
    /\ state' = IF e.kind = "row" THEN [state EXCEPT ![e.item] = e.to] ELSE state
    /\ edit' = [edit EXCEPT ![a] = NoEdit]
    /\ UNCHANGED <<read, copy, edits, merged, crossed>>

\* A request that fails: ROLLBACK, the copies stay deleted.
RollbackEdit(a) ==
    /\ edit[a] # NoEdit /\ edit' = [edit EXCEPT ![a] = NoEdit]
    /\ late' = [late EXCEPT ![a] = {}]
    /\ UNCHANGED <<state, links, read, copy, edits, chosen, merged, crossed>>

----------------------------------------------------------------------------
(* The handlers *)

\* A new row is in no association table yet, and no copy is concerned.
CreateItem(i) ==
    /\ state[i] = "new" /\ state' = [state EXCEPT ![i] = "on"]
    /\ UNCHANGED <<links, edit, late, read, copy, edits, chosen, merged, crossed>>

CreateRole(r)  == CreateItem(r)
CreateMenu(m)  == CreateItem(m)
CreateScope(s) == CreateItem(s)
CreateRule(x)  == CreateItem(x)

UpdateRole(a, r)  == \E to \in {"on", "off"} : EditRow(a, r, to)
UpdateMenu(a, m)  == \E to \in {"on", "off"} : EditRow(a, m, to)
UpdateScope(a, s) == \E to \in {"on", "off"} : EditRow(a, s, to)
UpdateRule(a, x)  == \E to \in {"on", "off"} : EditRow(a, x, to)
DeleteRole(a, r)  == EditRow(a, r, "gone")
DeleteMenu(a, m)  == EditRow(a, m, "gone")
DeleteScope(a, s) == EditRow(a, s, "gone")
DeleteRule(a, x)  == EditRow(a, x, "gone")

UpdateUserRoles(a, u)  == \E rs \in SUBSET Role : EditLinks(a, u, Role, rs)
UpdateRoleMenus(a, r)  == \E ms \in SUBSET Menu : EditLinks(a, r, Menu, ms)
UpdateRoleScopes(a, r) == \E ss \in SUBSET Scope : EditLinks(a, r, Scope, ss)
UpdateScopeRules(a, s) == \E xs \in SUBSET Rule : EditLinks(a, s, Rule, xs)

RoleRequest(a) ==
    \E r \in Role : \/ CreateRole(r) \/ UpdateRole(a, r) \/ DeleteRole(a, r)
                   \/ UpdateRoleMenus(a, r) \/ UpdateRoleScopes(a, r)
MenuRequest(a)  == \E m \in Menu : CreateMenu(m) \/ UpdateMenu(a, m) \/ DeleteMenu(a, m)
ScopeRequest(a) ==
    \E s \in Scope : CreateScope(s) \/ UpdateScope(a, s) \/ DeleteScope(a, s) \/ UpdateScopeRules(a, s)
RuleRequest(a)  == \E x \in Rule : CreateRule(x) \/ UpdateRule(a, x) \/ DeleteRule(a, x)

PermNext ==
    \/ \E u \in User : ReadUserRights(u) \/ StoreCopy(u) \/ CopyExpires(u)
    \/ \E a \in Admin : \/ RoleRequest(a) \/ MenuRequest(a) \/ ScopeRequest(a) \/ RuleRequest(a)
                        \/ \E u \in User : UpdateUserRoles(a, u)
                        \/ CommitEdit(a) \/ RollbackEdit(a)
----------------------------------------------------------------------------
\* A copy without the menus that no longer exist.
Surviving(c) == [c EXCEPT !.perms = {m \in @ : Exists(m)}]

\* Every change finds the users it concerns, through up to three association
\* tables: a copy that was not read while a change was in flight grants what
\* the database grants, except for deleted menus.
RightsCurrent ==
    \A u \in User \ crossed : copy[u].known => Surviving(copy[u]) = Rights(u)

\* The roles of a user are those the last change chose, however changes
\* overlap; menus, scopes and rules are, unless two changes replaced the same
\* set at once: then it is the union of what both chose.
LinksAsChosen ==
    \A l \in Links : (l \in links) # (l \in chosen) =>
        \/ l[2] \in Menu /\ state[l[2]] = "gone"
        \/ \E t \in merged : l[1] = t[1] /\ l[2] \in t[2] /\ l[1] \notin User

\* Cached rights and links follow the requests.
PermInv ==
    /\ PermTypeOK /\ RightsCurrent /\ LinksAsChosen
=============================================================================
