------------------------------ MODULE Generator ------------------------------
(***************************************************************************)
(* The code generator: businesses (tables) with their columns, and the     *)
(* generation of an application from one of them, which copies files below *)
(* backend/app and adds the application to app/router.py, under the lock   *)
(* of utils/locks.py.  A business is read before the lock is waited for.   *)
(***************************************************************************)
EXTENDS Naturals, FiniteSets

CONSTANTS Business, App, Column, GenRequest,
          MaxGenEdits,    \* bound: changes of businesses and columns
          MaxGenerations, \* bound: generations begun
          MaxGenTrouble   \* bound: locks that expire, waits that end, generations that fail

NoFile == "none"

ASSUME GeneratorAssumption ==
    /\ {MaxGenEdits, MaxGenerations, MaxGenTrouble} \subseteq Nat
    /\ App # {} /\ NoFile \notin Business \* a table has an application, and a name
NoGen  == [pc |-> "idle"]

VARIABLES business,  \* rows of gen_business: state, app_name, and whether gen_path is set
          columns,   \* rows of gen_column: <<business, name>>
          tree,      \* of each app: the business its router and its model package name, and the modules on disk
          appRouter, \* the apps app/router.py includes
          gen,       \* each generation: its step, the business as read, files to copy, router.py as read
          genLock,   \* who holds the lock
          genEdits, generations, genTroubles,
          elsewhere, \* history: apps included after a generation to a path of its own
          broken,    \* history: apps of which a generation failed between two files
          mixed      \* history: two generations were under the lock at once

genVars == <<business, columns, tree, appRouter, gen, genLock, genEdits, generations, genTroubles, elsewhere, broken, mixed>>

BusinessRow == [state : {"new", "live", "gone"}, app : App, away : BOOLEAN]
Tree == [router : Business \cup {NoFile}, models : Business \cup {NoFile}, modules : SUBSET Business]
Kinds == {"router", "models"}
UnderLock == {"render", "copy", "read", "write"}

GenTypeOK ==
    /\ business \in [Business -> BusinessRow]
    /\ columns \subseteq {b \in Business : business[b].state # "new"} \X Column
    /\ tree \in [App -> Tree] /\ appRouter \subseteq App
    /\ \A r \in GenRequest : gen[r] = NoGen \/ gen[r].pc \in {"wait", "leave"} \cup UnderLock
    /\ genLock \subseteq GenRequest /\ Cardinality(genLock) <= 1
    /\ genEdits \in 0..MaxGenEdits /\ generations \in 0..MaxGenerations /\ genTroubles \in 0..MaxGenTrouble
    /\ elsewhere \subseteq App /\ broken \subseteq App /\ mixed \in BOOLEAN

GenInit ==
    /\ business = [b \in Business |-> [state |-> "new", app |-> CHOOSE a \in App : TRUE, away |-> FALSE]]
    /\ columns = {} /\ appRouter = {}
    /\ tree = [a \in App |-> [router |-> NoFile, models |-> NoFile, modules |-> {}]]
    /\ gen = [r \in GenRequest |-> NoGen] /\ genLock = {}
    /\ genEdits = 0 /\ generations = 0 /\ genTroubles = 0 /\ elsewhere = {} /\ broken = {} /\ mixed = FALSE

Alive(b) == business[b].state = "live"
Edited == genEdits < MaxGenEdits /\ genEdits' = genEdits + 1
UnderWay == <<gen, genLock, generations, genTroubles, elsewhere, broken, mixed>>
----------------------------------------------------------------------------
(* Businesses and columns *)

CreateBusiness(b) ==
    /\ business[b].state = "new"
    /\ \E a \in App, away \in BOOLEAN : business' = [business EXCEPT ![b] = [state |-> "live", app |-> a, away |-> away]]
    /\ Edited /\ UNCHANGED <<columns, tree, appRouter, UnderWay>>

UpdateBusiness(b) ==
    /\ Alive(b)
    /\ \E a \in App, away \in BOOLEAN : business' = [business EXCEPT ![b].app = a, ![b].away = away]
    /\ Edited /\ UNCHANGED <<columns, tree, appRouter, UnderWay>>

\* A logical deletion; the columns stay.
DeleteBusiness(b) ==
    /\ Alive(b) /\ business' = [business EXCEPT ![b].state = "gone"]
    /\ Edited /\ UNCHANGED <<columns, tree, appRouter, UnderWay>>

\* The columns of the table are imported with the business.
ImportTable(b) ==
    /\ business[b].state = "new"
    /\ \E a \in App : business' = [business EXCEPT ![b] = [state |-> "live", app |-> a, away |-> FALSE]]
    /\ \E cs \in SUBSET Column : columns' = columns \cup ({b} \X cs)
    /\ Edited /\ UNCHANGED <<tree, appRouter, UnderWay>>

CreateColumn(b, c) ==
    /\ Alive(b) /\ <<b, c>> \notin columns /\ columns' = columns \cup {<<b, c>>}
    /\ Edited /\ UNCHANGED <<business, tree, appRouter, UnderWay>>

\* A column may move to another business; what the check of names does not
\* find when the name stays, the unique constraint refuses.
UpdateColumn(b, c, b2, c2) ==
    /\ Alive(b) /\ Alive(b2) /\ <<b, c>> \in columns /\ <<b2, c2>> \notin columns
    /\ columns' = (columns \ {<<b, c>>}) \cup {<<b2, c2>>}
    /\ Edited /\ UNCHANGED <<business, tree, appRouter, UnderWay>>

DeleteColumn(b, c) ==
    /\ Alive(b) /\ <<b, c>> \in columns /\ columns' = columns \ {<<b, c>>}
    /\ Edited /\ UNCHANGED <<business, tree, appRouter, UnderWay>>
----------------------------------------------------------------------------
(* GenService.generate *)

GenAt(r, pc) == gen[r].pc = pc
GenGo(r, pc) == gen' = [gen EXCEPT ![r].pc = pc]
Working == {r \in GenRequest : gen[r].pc \in UnderLock}
Trouble == genTroubles < MaxGenTrouble /\ genTroubles' = genTroubles + 1

BeginGenerate(r, b) ==
    /\ gen[r] = NoGen /\ Alive(b)
    /\ generations < MaxGenerations /\ generations' = generations + 1
    /\ gen' = [gen EXCEPT ![r] = [pc |-> "wait", business |-> b, app |-> business[b].app, away |-> business[b].away,
                                  todo |-> Kinds, seen |-> {}]]
    /\ UNCHANGED <<business, columns, genEdits, tree, appRouter, genLock, genTroubles, elsewhere, broken, mixed>>

\* The lock, or what goes on without it after blocking_timeout.
EnterReload(r) ==
    /\ GenAt(r, "wait") /\ GenGo(r, "render")
    /\ \/ genLock = {} /\ genLock' = {r} /\ UNCHANGED genTroubles
       \/ genLock # {} /\ Trouble /\ UNCHANGED genLock
    /\ mixed' = (mixed \/ Working # {})
    /\ UNCHANGED <<business, columns, genEdits, tree, appRouter, generations, elsewhere, broken>>

ReloadLockExpires ==
    /\ genLock # {} /\ Trouble /\ genLock' = {}
    /\ UNCHANGED <<business, columns, genEdits, tree, appRouter, gen, generations, elsewhere, broken, mixed>>

LeaveReload(r) ==
    /\ GenAt(r, "leave") /\ gen' = [gen EXCEPT ![r] = NoGen] /\ genLock' = genLock \ {r}
    /\ UNCHANGED <<business, columns, genEdits, tree, appRouter, generations, genTroubles, elsewhere, broken, mixed>>

\* _render_tpl_code: into a temporary directory, unless there is no column now.
Render(r) ==
    /\ GenAt(r, "render")
    /\ GenGo(r, IF \E c \in Column : <<gen[r].business, c>> \in columns THEN "copy" ELSE "leave")
    /\ UNCHANGED <<business, columns, genEdits, tree, appRouter, genLock, generations, genTroubles, elsewhere, broken, mixed>>

\* Mutant: a file that exists is not copied again.
CopyFileKept(r, kind) ==
    LET g == gen[r] IN
    /\ GenAt(r, "copy") /\ kind \in g.todo
    /\ gen' = [gen EXCEPT ![r].todo = @ \ {kind}, ![r].pc = IF g.todo = {kind} THEN "read" ELSE "copy"]
    /\ tree' = [tree EXCEPT ![g.app].modules = @ \cup {g.business},
                            ![g.app].router = IF kind = "router" THEN g.business ELSE @,
                            ![g.app].models = IF kind = "models" /\ @ = NoFile THEN g.business ELSE @]
    /\ UNCHANGED <<business, columns, genEdits, appRouter, genLock, generations, genTroubles, elsewhere, broken, mixed>>

\* shutil.copytree, file by file: the api's router and the model package name
\* only the business of this generation.  With a gen_path all of it goes there.
CopyFile(r, kind) ==
    LET g == gen[r] IN
    /\ GenAt(r, "copy") /\ kind \in g.todo
    /\ gen' = [gen EXCEPT ![r].todo = @ \ {kind}, ![r].pc = IF g.todo = {kind} THEN "read" ELSE "copy"]
    /\ IF g.away THEN UNCHANGED tree
       ELSE tree' = [tree EXCEPT ![g.app].modules = @ \cup {g.business},
                                 ![g.app].router = IF kind = "router" THEN g.business ELSE @,
                                 ![g.app].models = IF kind = "models" THEN g.business ELSE @]
    /\ UNCHANGED <<business, columns, genEdits, appRouter, genLock, generations, genTroubles, elsewhere, broken, mixed>>

\* _inject_app_router: router.py is read, and written with the addition.
ReadRouter(r) ==
    /\ GenAt(r, "read")
    /\ gen' = [gen EXCEPT ![r].pc = IF gen[r].app \in appRouter THEN "leave" ELSE "write", ![r].seen = appRouter]
    /\ UNCHANGED <<business, columns, genEdits, tree, appRouter, genLock, generations, genTroubles, elsewhere, broken, mixed>>

WriteRouter(r) ==
    /\ GenAt(r, "write") /\ GenGo(r, "leave") /\ appRouter' = gen[r].seen \cup {gen[r].app}
    /\ elsewhere' = IF gen[r].away THEN elsewhere \cup {gen[r].app} ELSE elsewhere
    /\ UNCHANGED <<business, columns, genEdits, tree, genLock, generations, genTroubles, broken, mixed>>

\* A disk error, or a process that is killed, whose lock then expires.
GenFails(r) ==
    /\ GenAt(r, "copy") /\ Trouble
    /\ \/ GenGo(r, "leave") \/ gen' = [gen EXCEPT ![r] = NoGen]
    /\ broken' = broken \cup {gen[r].app}
    /\ UNCHANGED <<business, columns, genEdits, tree, appRouter, genLock, generations, elsewhere, mixed>>

BusinessRequest == \E b \in Business : CreateBusiness(b) \/ UpdateBusiness(b) \/ DeleteBusiness(b)
ColumnRequest ==
    \E b \in Business, c \in Column :
        \/ CreateColumn(b, c) \/ DeleteColumn(b, c)
        \/ \E b2 \in Business, c2 \in Column : UpdateColumn(b, c, b2, c2)

GenNext ==
    \/ BusinessRequest \/ ColumnRequest \/ \E b \in Business : ImportTable(b)
    \/ \E r \in GenRequest :
        \/ \E b \in Business : BeginGenerate(r, b)
        \/ EnterReload(r) \/ Render(r) \/ ReadRouter(r) \/ WriteRouter(r) \/ LeaveReload(r) \/ GenFails(r)
        \/ \E kind \in Kinds : CopyFile(r, kind)
    \/ ReloadLockExpires
----------------------------------------------------------------------------
\* The server imports what app/router.py includes: each app is there, with the
\* router of a business, unless it was generated to a path of its own (which
\* router.py is told nothing of) or a copy of it failed half-way.
RouterNamesApps == \A a \in appRouter \ (elsewhere \cup broken) : tree[a].router # NoFile

\* When no copy is under way, the router and the model package of an app name
\* the same business, unless a copy failed or two were under the lock at once.
RouterMatchesModels ==
    \A a \in App \ broken :
        mixed \/ tree[a].router = tree[a].models \/ \E r \in Working : GenAt(r, "copy") /\ gen[r].app = a

\* The generated tree can be imported.
GenInv ==
    /\ GenTypeOK /\ RouterNamesApps /\ RouterMatchesModels
=============================================================================
