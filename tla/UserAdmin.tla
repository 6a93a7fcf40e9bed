----------------------------- MODULE UserAdmin ------------------------------
(***************************************************************************)
(* Administration of users: they are created, renamed, deleted, and their  *)
(* three switches (superuser, staff, status) toggled, by requests of users *)
(* who pass as superusers (deletions: who have the right), by the copy of  *)
(* their row that Redis holds or by the row itself.  A toggle reads the    *)
(* switch and then writes its inverse.                                     *)
(***************************************************************************)
EXTENDS Naturals, FiniteSets

CONSTANTS Person, Founder, \* users, and those who exist, with every right
          Name, FirstName, \* user names, and those of the founders
          AdminRequest, MaxAdminRequests, Nobody

ASSUME UserAdminAssumption ==
    /\ Founder \subseteq Person /\ FirstName \in [Founder -> Name] /\ Nobody \notin AdminRequest
    /\ Name # {} /\ MaxAdminRequests \in Nat
    /\ \A p, q \in Founder : FirstName[p] = FirstName[q] => p = q

VARIABLES account, \* of each user: free, live or gone, the name, the switches that are on
          locker,  \* the request that holds the row of each user locked, or none
          copy,    \* the switches in the copy Redis holds, or none
          work,     \* requests under way
          received,   \* how many there were
          toggles, \* history: committed toggles of each switch of each user
          crossed, \* history: switches two requests had read at once
          unruled  \* history: a superuser was deleted, or lost a right to one who had lost his

adminVars == <<account, locker, copy, work, received, toggles, crossed, unruled>>

Switch  == {"superuser", "staff", "status"}
NoCopy  == {"none"}
Idle    == [pc |-> "idle"]
AccountRow == [state : {"free", "live", "gone"}, name : Name, on : SUBSET Switch]
Live    == {p \in Person : account[p].state = "live"}

\* What passes DependsSuperUser, and was let in as an enabled user.
Rules(on) == on = Switch

\* What passes DependsRBAC for a deletion: superusers, and staff whose role
\* has a menu with sys:user:del.
Deletes(on) == on \cap {"superuser", "staff"} # {}

Admitted(by, on) == [pc |-> IF Rules(on) THEN "admitted" ELSE "deleting", by |-> by]

UserAdminTypeOK ==
    /\ account \in [Person -> AccountRow]
    /\ locker \in [Person -> AdminRequest \cup {Nobody}]
    /\ copy \in [Person -> (SUBSET Switch) \cup {NoCopy}]
    /\ received \in 0..MaxAdminRequests
    /\ \A p \in Person : locker[p] # Nobody => work[locker[p]].pc \in {"key", "commit"} /\ work[locker[p]].whom = p
    /\ \A p, q \in Live : account[p].name = account[q].name => p = q

UserAdminInit ==
    /\ account = [p \in Person |-> [state |-> IF p \in Founder THEN "live" ELSE "free",
                                    name  |-> IF p \in Founder THEN FirstName[p] ELSE CHOOSE n \in Name : TRUE,
                                    on    |-> IF p \in Founder THEN Switch ELSE {}]]
    /\ locker = [p \in Person |-> Nobody] /\ copy = [p \in Person |-> NoCopy]
    /\ work = [r \in AdminRequest |-> Idle] /\ received = 0
    /\ toggles = [p \in Person |-> [s \in Switch |-> 0]] /\ crossed = {} /\ unruled = FALSE

History == <<toggles, crossed, unruled>>

\* The row of a user who is logged in is read; one who is disabled is turned away.
FetchUser(r, by) ==
    /\ work[r].pc = "idle" /\ received < MaxAdminRequests /\ received' = received + 1
    /\ by \in Live /\ copy[by] = NoCopy /\ "status" \in account[by].on
    /\ work' = [work EXCEPT ![r] = [pc |-> "fetched", by |-> by, on |-> account[by].on]]
    /\ UNCHANGED <<account, locker, copy, History>>

KeepCopy(r) ==
    /\ work[r].pc = "fetched" /\ copy' = [copy EXCEPT ![work[r].by] = work[r].on]
    /\ work' = [work EXCEPT ![r] = IF Deletes(@.on) THEN Admitted(@.by, @.on) ELSE Idle]
    /\ UNCHANGED <<account, locker, received, History>>

\* The copy is there: the row is not looked at.
UseCopy(r, by) ==
    /\ work[r].pc = "idle" /\ received < MaxAdminRequests /\ received' = received + 1
    /\ by \in Live /\ copy[by] # NoCopy /\ Deletes(copy[by])
    /\ work' = [work EXCEPT ![r] = Admitted(by, copy[by])]
    /\ UNCHANGED <<account, locker, copy, History>>

CopyLapses(p) ==
    /\ copy[p] # NoCopy /\ copy' = [copy EXCEPT ![p] = NoCopy]
    /\ UNCHANGED <<account, locker, work, received, History>>

Writing == {r \in AdminRequest : work[r].pc \in {"write", "key", "commit"}}
Reading(p, s) == {r \in Writing : work[r].whom = p /\ work[r].kind = "toggle" /\ work[r].switch = s}

\* Mutant: the switch is read from the copy, where there is one.
ReadSwitchOfCopy(r, p, s) ==
    LET on == IF copy[p] = NoCopy THEN account[p].on ELSE copy[p] IN
    /\ work[r].pc = "admitted" /\ p \in Live /\ p # work[r].by
    /\ work' = [work EXCEPT ![r] = [pc |-> "write", by |-> work[r].by, whom |-> p, kind |-> "toggle", switch |-> s,
                                  want |-> s \notin on, name |-> account[p].name]]
    /\ crossed' = IF Reading(p, s) = {} THEN crossed ELSE crossed \cup {<<p, s>>}
    /\ UNCHANGED <<account, locker, copy, received, toggles, unruled>>

\* update_permission: the switch is read; one's own are out of reach.
ReadSwitch(r, p, s) ==
    /\ work[r].pc = "admitted" /\ p \in Live /\ p # work[r].by
    /\ work' = [work EXCEPT ![r] = [pc |-> "write", by |-> work[r].by, whom |-> p, kind |-> "toggle", switch |-> s,
                                  want |-> s \notin account[p].on, name |-> account[p].name]]
    /\ crossed' = IF Reading(p, s) = {} THEN crossed ELSE crossed \cup {<<p, s>>}
    /\ UNCHANGED <<account, locker, copy, received, toggles, unruled>>

\* update and create: the name is not that of another live user.
ReadName(r, p, n) ==
    /\ work[r].pc = "admitted" /\ account[p].state # "gone"
    /\ \A q \in Live : account[q].name # n
    /\ account[p].state = "free" => p \notin {work[q].whom : q \in Writing}
    /\ work' = [work EXCEPT ![r] = [pc |-> "write", by |-> work[r].by, whom |-> p,
                                  kind |-> IF p \in Live THEN "rename" ELSE "create",
                                  switch |-> "status", want |-> FALSE, name |-> n]]
    /\ UNCHANGED <<account, locker, copy, received, History>>

ReadToDelete(r, p) ==
    /\ work[r].pc \in {"admitted", "deleting"} /\ p \in Live
    /\ work' = [work EXCEPT ![r] = [pc |-> "write", by |-> work[r].by, whom |-> p, kind |-> "delete",
                                  switch |-> "status", want |-> FALSE, name |-> account[p].name]]
    /\ UNCHANGED <<account, locker, copy, received, History>>

NameTaken(r) == \E q \in Live \ {work[r].whom} : account[q].name = work[r].name

\* UPDATE or INSERT, once no other request holds the row, of a row that is
\* still as the request needs it.  Otherwise the answer is an error.
WriteAccount(r) ==
    LET p == work[r].whom IN
    /\ work[r].pc = "write" /\ locker[p] = Nobody
    /\ IF account[p].state = (IF work[r].kind = "create" THEN "free" ELSE "live") /\ ~NameTaken(r)
       THEN work' = [work EXCEPT ![r].pc = "key"] /\ locker' = [locker EXCEPT ![p] = r]
       ELSE work' = [work EXCEPT ![r] = Idle] /\ UNCHANGED locker
    /\ UNCHANGED <<account, copy, received, History>>

DropCopy(r) ==
    /\ work[r].pc = "key"
    /\ copy' = [copy EXCEPT ![work[r].whom] = NoCopy]
    /\ work' = [work EXCEPT ![r].pc = "commit"]
    /\ UNCHANGED <<account, locker, received, History>>

Altered(a, q) ==
    CASE q.kind = "toggle" -> [a EXCEPT !.on = IF q.want THEN @ \cup {q.switch} ELSE @ \ {q.switch}]
      [] q.kind = "delete" -> [a EXCEPT !.state = "gone"]
      [] q.kind = "rename" -> [a EXCEPT !.name = q.name]
      [] q.kind = "create" -> [state |-> "live", name |-> q.name, on |-> {"status"}]

Ruler(p) == p \in Live /\ Rules(account[p].on)

\* The unique index on name and deletion refuses the second of two names; a
\* deleted user keeps his under an index entry of its own.
CommitAccount(r) ==
    LET q == work[r] p == q.whom IN
    /\ q.pc = "commit"
    /\ work' = [work EXCEPT ![r] = Idle] /\ locker' = [locker EXCEPT ![p] = Nobody]
    /\ IF NameTaken(r) THEN UNCHANGED <<account, toggles, unruled>>
       ELSE /\ account' = [account EXCEPT ![p] = Altered(@, q)]
            /\ toggles' = IF q.kind = "toggle" THEN [toggles EXCEPT ![p][q.switch] = @ + 1] ELSE toggles
            /\ unruled' = (unruled \/ (Ruler(p) /\ (q.kind = "delete" \/ ~Ruler(q.by))))
    /\ UNCHANGED <<copy, received, crossed>>

\* Another check fails, or the connection: nothing is written.
RollBack(r) ==
    /\ work[r].pc \notin {"idle", "fetched"} /\ work' = [work EXCEPT ![r] = Idle]
    /\ locker' = [p \in Person |-> IF locker[p] = r THEN Nobody ELSE locker[p]]
    /\ UNCHANGED <<account, copy, received, History>>

UserAdminNext ==
    \/ \E r \in AdminRequest :
          \/ KeepCopy(r) \/ WriteAccount(r) \/ DropCopy(r) \/ CommitAccount(r) \/ RollBack(r)
          \/ \E p \in Person :
                \/ FetchUser(r, p) \/ UseCopy(r, p) \/ ReadToDelete(r, p)
                \/ \E s \in Switch : ReadSwitch(r, p, s)
                \/ \E n \in Name : ReadName(r, p, n)
    \/ \E p \in Person : CopyLapses(p)

----------------------------------------------------------------------------
\* Every toggle that was committed turned the switch over, unless two
\* requests had read it before either wrote.
TogglesCounted ==
    \A p \in Founder, s \in Switch :
        <<p, s>> \notin crossed => (s \in account[p].on <=> toggles[p][s] % 2 = 0)

\* Someone can still administer the users, unless a superuser was deleted, or
\* was put down by one who had himself been put down meanwhile.
SomeoneRules == Founder # {} /\ ~unruled => \E p \in Person : Ruler(p)

\* Toggles count, and someone rules.
UserAdminInv ==
    /\ UserAdminTypeOK /\ TogglesCounted /\ SomeoneRules
=============================================================================
