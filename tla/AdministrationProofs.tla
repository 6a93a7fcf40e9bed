------------------------ MODULE AdministrationProofs ------------------------
(***************************************************************************)
(* The administration: the code generator, the OAuth2 login, the           *)
(* dictionaries, the plugins, the permissions and the departments. For     *)
(* each an inductive invariant, that every step preserves it, and the      *)
(* invariant that the run checks.                                          *)
(***************************************************************************)
EXTENDS Generator, SocialLogin, Dictionary, Plugins, Permissions, Departments,
        FiniteSetTheorems, WellFoundedInduction, TLAPS

-----------------------------------------------------------------------------
(* The code generator.                                                       *)

GenSpec == GenInit /\ [][GenNext]_genVars

\* A generation that has begun.
Generation == [pc : {"wait", "leave"} \cup UnderLock, business : Business, app : App, away : BOOLEAN,
               todo : SUBSET Kinds, seen : SUBSET App]

GenRowsOK ==
    /\ business \in [Business -> BusinessRow]
    /\ columns \subseteq {b \in Business : business[b].state # "new"} \X Column
    /\ genEdits \in 0..MaxGenEdits

GenTreeOK ==
    /\ tree \in [App -> Tree] /\ appRouter \subseteq App
    /\ elsewhere \subseteq App /\ broken \subseteq App /\ mixed \in BOOLEAN

GenRunsOK ==
    /\ gen \in [GenRequest -> {NoGen} \cup Generation]
    /\ \A r \in GenRequest : /\ gen[r].pc = "copy" => gen[r].todo # {}
                            /\ gen[r].pc \in {"wait", "render"} => gen[r].todo = Kinds

GenLockOK ==
    /\ genLock = {} \/ \E r \in GenRequest : genLock = {r}
    /\ generations \in 0..MaxGenerations /\ genTroubles \in 0..MaxGenTrouble

\* Two are under the lock only when the history says so.
OneGenerates == ~mixed => \A q, r \in Working : q = r

\* A copy that has put its router there, or is past it, leaves one behind; what
\* is about to be written to router.py was in it.
RouterCopied ==
    \A r \in GenRequest :
        /\ \/ gen[r].pc \in {"read", "write"}
           \/ gen[r].pc = "copy" /\ "router" \notin gen[r].todo
           => gen[r].away \/ tree[gen[r].app].router # NoFile
        /\ gen[r].pc = "write" =>
               \A a \in gen[r].seen \ (elsewhere \cup broken) : tree[a].router # NoFile

\* One that copies alone has left its name in what it has copied.
CopiedAlone ==
    ~mixed => \A r \in GenRequest : gen[r].pc = "copy" =>
        IF gen[r].away
        THEN gen[r].app \in broken \/ tree[gen[r].app].router = tree[gen[r].app].models
        ELSE /\ "router" \notin gen[r].todo => tree[gen[r].app].router = gen[r].business
             /\ "models" \notin gen[r].todo => tree[gen[r].app].models = gen[r].business

\* The inductive invariant of the generator.
GenIInv ==
    /\ GenRowsOK /\ GenTreeOK /\ GenRunsOK /\ GenLockOK
    /\ OneGenerates /\ RouterCopied /\ CopiedAlone /\ RouterNamesApps /\ RouterMatchesModels


\* A step of a generation keeps the others, and what it knows.
LEMMA GenFields ==
    ASSUME GenRunsOK, NEW r \in GenRequest, gen[r].pc # "idle"
    PROVE  /\ gen[r] \in Generation /\ gen[r].business \in Business /\ gen[r].app \in App
           /\ gen[r].away \in BOOLEAN /\ gen[r].todo \in SUBSET Kinds /\ gen[r].seen \in SUBSET App
BY DEF GenRunsOK, NoGen, Generation

\* Only the record of the request that moves changes.
LEMMA GenMoves ==
    ASSUME GenRunsOK, NEW r \in GenRequest, NEW g \in {NoGen} \cup Generation,
           gen' = [gen EXCEPT ![r] = g]
    PROVE  /\ gen' \in [GenRequest -> {NoGen} \cup Generation] /\ gen'[r] = g
           /\ \A q \in GenRequest : q # r => gen'[q] = gen[q]
BY DEF GenRunsOK

\* A generation that goes on to another step keeps everything else it knows.
LEMMA GenStepTo ==
    ASSUME GenRunsOK, NEW r \in GenRequest, gen[r].pc # "idle",
           NEW pc \in {"wait", "leave"} \cup UnderLock, GenGo(r, pc)
    PROVE  /\ gen[r] \in Generation /\ gen' \in [GenRequest -> {NoGen} \cup Generation]
           /\ gen'[r].pc = pc /\ gen'[r].business = gen[r].business /\ gen'[r].app = gen[r].app
           /\ gen'[r].away = gen[r].away /\ gen'[r].todo = gen[r].todo /\ gen'[r].seen = gen[r].seen
           /\ \A q \in GenRequest : q # r => gen'[q] = gen[q]
<1>1. gen' = [gen EXCEPT ![r] = [gen[r] EXCEPT !.pc = pc]]
  BY DEF GenGo
<1>2. gen[r] \in Generation
  BY GenFields
<1>3. /\ [gen[r] EXCEPT !.pc = pc] \in Generation /\ [gen[r] EXCEPT !.pc = pc].pc = pc
      /\ [gen[r] EXCEPT !.pc = pc].business = gen[r].business
      /\ [gen[r] EXCEPT !.pc = pc].app = gen[r].app /\ [gen[r] EXCEPT !.pc = pc].away = gen[r].away
      /\ [gen[r] EXCEPT !.pc = pc].todo = gen[r].todo /\ [gen[r] EXCEPT !.pc = pc].seen = gen[r].seen
  BY <1>2 DEF Generation
<1>4. QED
  BY <1>1, <1>2, <1>3, GenMoves

\* CreateBusiness (GenBusinessService.create) keeps the invariant.
LEMMA CreateBusinessStep ==
    ASSUME GenIInv, NEW b \in Business, CreateBusiness(b)
    PROVE  GenIInv'
<1> USE DEF GenIInv
<1>1. GenRowsOK'
  BY GeneratorAssumption DEF CreateBusiness, GenRowsOK, Edited, UnderWay,
    BusinessRow
<1>2. GenTreeOK' /\ GenRunsOK' /\ GenLockOK' /\ OneGenerates' /\ RouterCopied' /\ CopiedAlone' /\ RouterNamesApps' /\ RouterMatchesModels'
  <2>1. UNCHANGED <<tree, appRouter, gen, genLock, generations, genTroubles, elsewhere, broken, mixed>>
    BY DEF CreateBusiness, UnderWay
  <2>2. QED
    BY <2>1 DEF GenTreeOK, GenRunsOK, GenLockOK, OneGenerates, RouterCopied,
      CopiedAlone, RouterNamesApps, RouterMatchesModels, Tree, NoGen,
      Generation, Kinds, Working, NoFile, GenAt, UnderLock
<1> QED
  BY <1>1, <1>2

\* UpdateBusiness (GenBusinessService.update) keeps the invariant.
LEMMA UpdateBusinessStep ==
    ASSUME GenIInv, NEW b \in Business, UpdateBusiness(b)
    PROVE  GenIInv'
<1> USE DEF GenIInv
<1>1. GenRowsOK'
  <2>1. PICK a \in App, away \in BOOLEAN : business' = [business EXCEPT ![b].app = a, ![b].away = away]
    BY DEF UpdateBusiness
  <2>2. /\ business' = [business EXCEPT ![b] = [business[b] EXCEPT !.app = a, !.away = away]]
        /\ business[b] \in BusinessRow
    BY <2>1 DEF GenRowsOK
  <2>3. /\ [business[b] EXCEPT !.app = a, !.away = away] \in BusinessRow
        /\ [business[b] EXCEPT !.app = a, !.away = away].state = business[b].state
    BY <2>2 DEF BusinessRow
  <2>4. business' \in [Business -> BusinessRow] /\ \A x \in Business : business'[x].state = business[x].state
    BY <2>2, <2>3 DEF GenRowsOK
  <2>5. columns' = columns /\ genEdits' \in 0..MaxGenEdits
    BY GeneratorAssumption DEF UpdateBusiness, Edited, GenRowsOK
  <2>6. QED
    BY <2>4, <2>5 DEF GenRowsOK
<1>2. GenTreeOK' /\ GenRunsOK' /\ GenLockOK' /\ OneGenerates' /\ RouterCopied' /\ CopiedAlone' /\ RouterNamesApps' /\ RouterMatchesModels'
  <2>1. UNCHANGED <<tree, appRouter, gen, genLock, generations, genTroubles, elsewhere, broken, mixed>>
    BY DEF UpdateBusiness, UnderWay
  <2>2. QED
    BY <2>1 DEF GenTreeOK, GenRunsOK, GenLockOK, OneGenerates, RouterCopied,
      CopiedAlone, RouterNamesApps, RouterMatchesModels, Tree, NoGen,
      Generation, Kinds, Working, NoFile, GenAt, UnderLock
<1> QED
  BY <1>1, <1>2

\* DeleteBusiness (CRUDGenBusiness.delete) keeps the invariant.
LEMMA DeleteBusinessStep ==
    ASSUME GenIInv, NEW b \in Business, DeleteBusiness(b)
    PROVE  GenIInv'
<1> USE DEF GenIInv
<1>1. GenRowsOK'
  BY GeneratorAssumption DEF DeleteBusiness, GenRowsOK, Alive, Edited,
    UnderWay, BusinessRow
<1>2. GenTreeOK' /\ GenRunsOK' /\ GenLockOK' /\ OneGenerates' /\ RouterCopied' /\ CopiedAlone' /\ RouterNamesApps' /\ RouterMatchesModels'
  <2>1. UNCHANGED <<tree, appRouter, gen, genLock, generations, genTroubles, elsewhere, broken, mixed>>
    BY DEF DeleteBusiness, UnderWay
  <2>2. QED
    BY <2>1 DEF GenTreeOK, GenRunsOK, GenLockOK, OneGenerates, RouterCopied,
      CopiedAlone, RouterNamesApps, RouterMatchesModels, Tree, NoGen,
      Generation, Kinds, Working, NoFile, GenAt, UnderLock
<1> QED
  BY <1>1, <1>2

\* ImportTable (GenService.import_business_and_model) keeps the invariant.
LEMMA ImportTableStep ==
    ASSUME GenIInv, NEW b \in Business, ImportTable(b)
    PROVE  GenIInv'
<1> USE DEF GenIInv
<1>1. GenRowsOK'
  BY GeneratorAssumption DEF ImportTable, GenRowsOK, Edited, UnderWay,
    BusinessRow
<1>2. GenTreeOK' /\ GenRunsOK' /\ GenLockOK' /\ OneGenerates' /\ RouterCopied' /\ CopiedAlone' /\ RouterNamesApps' /\ RouterMatchesModels'
  <2>1. UNCHANGED <<tree, appRouter, gen, genLock, generations, genTroubles, elsewhere, broken, mixed>>
    BY DEF ImportTable, UnderWay
  <2>2. QED
    BY <2>1 DEF GenTreeOK, GenRunsOK, GenLockOK, OneGenerates, RouterCopied,
      CopiedAlone, RouterNamesApps, RouterMatchesModels, Tree, NoGen,
      Generation, Kinds, Working, NoFile, GenAt, UnderLock
<1> QED
  BY <1>1, <1>2

\* CreateColumn (GenColumnService.create) keeps the invariant.
LEMMA CreateColumnStep ==
    ASSUME GenIInv, NEW b \in Business, NEW c \in Column, CreateColumn(b, c)
    PROVE  GenIInv'
<1> USE DEF GenIInv
<1>1. GenRowsOK'
  BY GeneratorAssumption DEF CreateColumn, GenRowsOK, Alive, Edited, UnderWay,
    BusinessRow
<1>2. GenTreeOK' /\ GenRunsOK' /\ GenLockOK' /\ OneGenerates' /\ RouterCopied' /\ CopiedAlone' /\ RouterNamesApps' /\ RouterMatchesModels'
  <2>1. UNCHANGED <<tree, appRouter, gen, genLock, generations, genTroubles, elsewhere, broken, mixed>>
    BY DEF CreateColumn, UnderWay
  <2>2. QED
    BY <2>1 DEF GenTreeOK, GenRunsOK, GenLockOK, OneGenerates, RouterCopied,
      CopiedAlone, RouterNamesApps, RouterMatchesModels, Tree, NoGen,
      Generation, Kinds, Working, NoFile, GenAt, UnderLock
<1> QED
  BY <1>1, <1>2

\* DeleteColumn (GenColumnService.delete) keeps the invariant.
LEMMA DeleteColumnStep ==
    ASSUME GenIInv, NEW b \in Business, NEW c \in Column, DeleteColumn(b, c)
    PROVE  GenIInv'
<1> USE DEF GenIInv
<1>1. GenRowsOK'
  BY GeneratorAssumption DEF DeleteColumn, GenRowsOK, Alive, Edited, UnderWay,
    BusinessRow
<1>2. GenTreeOK' /\ GenRunsOK' /\ GenLockOK' /\ OneGenerates' /\ RouterCopied' /\ CopiedAlone' /\ RouterNamesApps' /\ RouterMatchesModels'
  <2>1. UNCHANGED <<tree, appRouter, gen, genLock, generations, genTroubles, elsewhere, broken, mixed>>
    BY DEF DeleteColumn, UnderWay
  <2>2. QED
    BY <2>1 DEF GenTreeOK, GenRunsOK, GenLockOK, OneGenerates, RouterCopied,
      CopiedAlone, RouterNamesApps, RouterMatchesModels, Tree, NoGen,
      Generation, Kinds, Working, NoFile, GenAt, UnderLock
<1> QED
  BY <1>1, <1>2

\* UpdateColumn (GenColumnService.update) keeps the invariant.
LEMMA UpdateColumnStep ==
    ASSUME GenIInv, NEW b \in Business, NEW c \in Column, NEW b2 \in Business,
           NEW c2 \in Column, UpdateColumn(b, c, b2, c2)
    PROVE  GenIInv'
<1> USE DEF GenIInv
<1>1. GenRowsOK'
  BY GeneratorAssumption DEF UpdateColumn, GenRowsOK, Alive, Edited, UnderWay,
    BusinessRow
<1>2. GenTreeOK' /\ GenRunsOK' /\ GenLockOK' /\ OneGenerates' /\ RouterCopied' /\ CopiedAlone' /\ RouterNamesApps' /\ RouterMatchesModels'
  <2>1. UNCHANGED <<tree, appRouter, gen, genLock, generations, genTroubles, elsewhere, broken, mixed>>
    BY DEF UpdateColumn, UnderWay
  <2>2. QED
    BY <2>1 DEF GenTreeOK, GenRunsOK, GenLockOK, OneGenerates, RouterCopied,
      CopiedAlone, RouterNamesApps, RouterMatchesModels, Tree, NoGen,
      Generation, Kinds, Working, NoFile, GenAt, UnderLock
<1> QED
  BY <1>1, <1>2

\* BeginGenerate (GenService.generate) keeps the invariant.
LEMMA BeginGenerateStep ==
    ASSUME GenIInv, NEW r \in GenRequest, NEW b \in Business, BeginGenerate(r,
           b)
    PROVE  GenIInv'
<1> USE DEF GenIInv
<1>a. /\ gen' \in [GenRequest -> {NoGen} \cup Generation]
      /\ \A q \in GenRequest : q # r => gen'[q] = gen[q]
      /\ gen'[r].todo = Kinds
      /\ gen[r].pc = "idle" /\ gen'[r].pc = "wait"
      /\ generations < MaxGenerations /\ generations' = generations + 1
      /\ UNCHANGED <<business, columns, tree, appRouter, genLock, genEdits, genTroubles, elsewhere, broken, mixed>>
  <2> DEFINE g == [pc |-> "wait", business |-> b, app |-> business[b].app, away |-> business[b].away,
                   todo |-> Kinds, seen |-> {}]
  <2>1. g \in Generation /\ g.pc = "wait" /\ g.todo = Kinds
    BY DEF Generation, GenRowsOK, BusinessRow
  <2>2. gen' = [gen EXCEPT ![r] = g] /\ gen[r].pc = "idle"
    BY DEF BeginGenerate, NoGen
  <2> HIDE DEF g
  <2>3. QED
    BY <2>1, <2>2, GenMoves DEF BeginGenerate
<1>1. GenRunsOK'
  BY <1>a, GeneratorAssumption DEF GenRunsOK, NoGen, Generation, Kinds,
    UnderLock
<1>2. GenLockOK'
  BY <1>a, GeneratorAssumption DEF GenLockOK
<1>3. OneGenerates'
  BY <1>a, GeneratorAssumption DEF OneGenerates, Working, UnderLock
<1>4. RouterCopied'
  BY <1>a, GeneratorAssumption DEF RouterCopied, RouterNamesApps, NoFile
<1>5. CopiedAlone'
  BY <1>a, GeneratorAssumption DEF CopiedAlone, RouterMatchesModels,
    OneGenerates, Working, GenAt, UnderLock
<1>6. RouterMatchesModels'
  BY <1>a, GeneratorAssumption DEF RouterMatchesModels, CopiedAlone,
    OneGenerates, Working, GenAt, UnderLock
<1>7. GenRowsOK' /\ GenTreeOK' /\ RouterNamesApps'
  <2>1. UNCHANGED <<business, columns, tree, appRouter, genEdits, elsewhere, broken, mixed>>
    BY <1>a
  <2>2. QED
    BY <2>1 DEF GenRowsOK, GenTreeOK, RouterNamesApps, BusinessRow, Tree,
      NoFile
<1> QED
  BY <1>1, <1>2, <1>3, <1>4, <1>5, <1>6, <1>7

\* EnterReload (acquire_distributed_reload_lock) keeps the invariant.
LEMMA EnterReloadStep ==
    ASSUME GenIInv, NEW r \in GenRequest, EnterReload(r)
    PROVE  GenIInv'
<1> USE DEF GenIInv
<1>a. /\ gen[r] \in Generation /\ gen' \in [GenRequest -> {NoGen} \cup Generation]
      /\ \A q \in GenRequest : q # r => gen'[q] = gen[q]
      /\ gen[r].pc = "wait" /\ gen'[r].pc = "render"
      /\ gen'[r].business = gen[r].business /\ gen'[r].app = gen[r].app /\ gen'[r].away = gen[r].away
      /\ gen'[r].todo = gen[r].todo /\ gen'[r].seen = gen[r].seen
      /\ \/ genLock = {} /\ genLock' = {r} /\ genTroubles' = genTroubles
         \/ Trouble /\ genLock' = genLock
      /\ mixed' = (mixed \/ Working # {})
      /\ UNCHANGED <<business, columns, tree, appRouter, genEdits, generations, elsewhere, broken>>
  BY GenStepTo DEF EnterReload, GenAt, UnderLock
<1>1. GenTreeOK'
  BY <1>a, GeneratorAssumption DEF Trouble, GenTreeOK, Tree, NoFile
<1>2. GenRunsOK'
  BY <1>a, GeneratorAssumption DEF Trouble, GenRunsOK, NoGen, Generation,
    Kinds, UnderLock
<1>3. GenLockOK'
  BY <1>a, GeneratorAssumption DEF Trouble, GenLockOK
<1>4. OneGenerates'
  BY <1>a, GeneratorAssumption, ZenonT(60) DEF Trouble, OneGenerates, Working, UnderLock
<1>5. RouterCopied'
  BY <1>a, GeneratorAssumption DEF Trouble, RouterCopied, RouterNamesApps,
    NoFile
<1>6. CopiedAlone'
  BY <1>a, GeneratorAssumption DEF Trouble, CopiedAlone, RouterMatchesModels,
    OneGenerates, Working, GenAt, UnderLock
<1>7. RouterMatchesModels'
  BY <1>a, GeneratorAssumption DEF Trouble, RouterMatchesModels, CopiedAlone,
    OneGenerates, Working, GenAt, UnderLock
<1>8. GenRowsOK' /\ RouterNamesApps'
  <2>1. UNCHANGED <<business, columns, tree, appRouter, genEdits, elsewhere, broken>>
    BY <1>a
  <2>2. QED
    BY <2>1 DEF GenRowsOK, RouterNamesApps, BusinessRow, NoFile
<1> QED
  BY <1>1, <1>2, <1>3, <1>4, <1>5, <1>6, <1>7, <1>8

\* ReloadLockExpires (acquire_distributed_reload_lock) keeps the invariant.
LEMMA ReloadLockExpiresStep ==
    ASSUME GenIInv, ReloadLockExpires
    PROVE  GenIInv'
<1> USE DEF GenIInv
<1>1. GenLockOK'
  BY GeneratorAssumption DEF ReloadLockExpires, GenLockOK, Trouble
<1>2. GenRowsOK' /\ GenTreeOK' /\ GenRunsOK' /\ OneGenerates' /\ RouterCopied' /\ CopiedAlone' /\ RouterNamesApps' /\ RouterMatchesModels'
  <2>1. UNCHANGED <<business, columns, tree, appRouter, gen, genEdits, elsewhere, broken, mixed>>
    BY DEF ReloadLockExpires
  <2>2. QED
    BY <2>1 DEF GenRowsOK, GenTreeOK, GenRunsOK, OneGenerates, RouterCopied,
      CopiedAlone, RouterNamesApps, RouterMatchesModels, BusinessRow, Tree,
      NoGen, Generation, Kinds, Working, NoFile, GenAt, UnderLock
<1> QED
  BY <1>1, <1>2

\* LeaveReload (generate) keeps the invariant.
LEMMA LeaveReloadStep ==
    ASSUME GenIInv, NEW r \in GenRequest, LeaveReload(r)
    PROVE  GenIInv'
<1> USE DEF GenIInv
<1>1. GenRunsOK'
  BY GeneratorAssumption DEF LeaveReload, GenRunsOK, GenAt, NoGen, Generation,
    Kinds, UnderLock
<1>2. GenLockOK'
  BY GeneratorAssumption DEF LeaveReload, GenLockOK, GenAt, NoGen
<1>3. OneGenerates'
  BY GeneratorAssumption DEF LeaveReload, OneGenerates, GenAt, NoGen, Working,
    UnderLock
<1>4. RouterCopied'
  BY GeneratorAssumption DEF LeaveReload, RouterCopied, RouterNamesApps,
    GenAt, NoGen, NoFile
<1>5. CopiedAlone'
  BY GeneratorAssumption DEF LeaveReload, CopiedAlone, RouterMatchesModels,
    OneGenerates, GenAt, NoGen, Working, UnderLock
<1>6. RouterMatchesModels'
  BY GeneratorAssumption DEF LeaveReload, RouterMatchesModels, CopiedAlone,
    OneGenerates, GenAt, NoGen, Working, UnderLock
<1>7. GenRowsOK' /\ GenTreeOK' /\ RouterNamesApps'
  <2>1. UNCHANGED <<business, columns, tree, appRouter, genEdits, elsewhere, broken, mixed>>
    BY DEF LeaveReload
  <2>2. QED
    BY <2>1 DEF GenRowsOK, GenTreeOK, RouterNamesApps, BusinessRow, Tree,
      NoFile
<1> QED
  BY <1>1, <1>2, <1>3, <1>4, <1>5, <1>6, <1>7

\* Render (GenService._render_tpl_code) keeps the invariant.
LEMMA RenderStep ==
    ASSUME GenIInv, NEW r \in GenRequest, Render(r)
    PROVE  GenIInv'
<1> USE DEF GenIInv
<1>a. /\ gen[r] \in Generation /\ gen' \in [GenRequest -> {NoGen} \cup Generation]
      /\ \A q \in GenRequest : q # r => gen'[q] = gen[q]
      /\ gen[r].pc = "render" /\ gen'[r].pc \in {"copy", "leave"}
      /\ gen'[r].business = gen[r].business /\ gen'[r].app = gen[r].app /\ gen'[r].away = gen[r].away
      /\ gen'[r].todo = gen[r].todo /\ gen'[r].seen = gen[r].seen
      /\ UNCHANGED <<business, columns, tree, appRouter, genLock, genEdits, generations, genTroubles, elsewhere, broken, mixed>>
  BY GenStepTo DEF Render, GenAt, UnderLock
<1>1. GenRunsOK'
  BY <1>a, GeneratorAssumption DEF GenRunsOK, NoGen, Generation, Kinds,
    UnderLock
<1>2. OneGenerates'
  BY <1>a, GeneratorAssumption DEF OneGenerates, Working, UnderLock
<1>3. RouterCopied'
  <2> SUFFICES ASSUME NEW q \in GenRequest
               PROVE  /\ \/ gen'[q].pc \in {"read", "write"}
                         \/ gen'[q].pc = "copy" /\ "router" \notin gen'[q].todo
                         => gen'[q].away \/ tree[gen'[q].app].router # NoFile
                      /\ gen'[q].pc = "write" =>
                             \A a \in gen'[q].seen \ (elsewhere \cup broken) : tree[a].router # NoFile
    BY <1>a DEF RouterCopied
  <2>1. CASE q = r
    BY <1>a, <2>1 DEF GenRunsOK, Kinds
  <2>2. CASE q # r
    BY <1>a, <2>2 DEF RouterCopied
  <2>3. QED
    BY <2>1, <2>2
<1>4. CopiedAlone'
  <2> SUFFICES ASSUME ~mixed, NEW q \in GenRequest, gen'[q].pc = "copy"
               PROVE  IF gen'[q].away
                      THEN gen'[q].app \in broken \/ tree[gen'[q].app].router = tree[gen'[q].app].models
                      ELSE /\ "router" \notin gen'[q].todo => tree[gen'[q].app].router = gen'[q].business
                           /\ "models" \notin gen'[q].todo => tree[gen'[q].app].models = gen'[q].business
    BY <1>a DEF CopiedAlone
  <2>1. \A p \in GenRequest : p # r => gen[p].pc # "copy"
    BY <1>a DEF OneGenerates, Working, UnderLock
  <2>2. q = r /\ gen[r].app \in App /\ gen[r].todo = Kinds
    BY <1>a, <2>1, GenFields DEF GenRunsOK
  <2>3. gen[r].app \in broken \/ tree[gen[r].app].router = tree[gen[r].app].models
    BY <1>a, <2>1, <2>2 DEF RouterMatchesModels, GenAt, Working
  <2>4. QED
    BY <1>a, <2>2, <2>3 DEF Kinds
<1>5. RouterMatchesModels'
  BY <1>a, GeneratorAssumption DEF RouterMatchesModels, CopiedAlone,
    OneGenerates, Working, GenAt, UnderLock
<1>6. GenRowsOK' /\ GenTreeOK' /\ GenLockOK' /\ RouterNamesApps'
  <2>1. UNCHANGED <<business, columns, tree, appRouter, genLock, genEdits, generations, genTroubles, elsewhere, broken, mixed>>
    BY <1>a
  <2>2. QED
    BY <2>1 DEF GenRowsOK, GenTreeOK, GenLockOK, RouterNamesApps, BusinessRow,
      Tree, NoFile
<1> QED
  BY <1>1, <1>2, <1>3, <1>4, <1>5, <1>6

\* CopyFile (GenService.generate) keeps the invariant.
LEMMA CopyFileStep ==
    ASSUME GenIInv, NEW r \in GenRequest, NEW kind \in Kinds, CopyFile(r,
           kind)
    PROVE  GenIInv'
<1> USE DEF GenIInv
<1>a. /\ gen[r] \in Generation /\ gen' \in [GenRequest -> {NoGen} \cup Generation]
      /\ \A q \in GenRequest : q # r => gen'[q] = gen[q]
      /\ gen[r].pc = "copy" /\ kind \in gen[r].todo
      /\ gen'[r].business = gen[r].business /\ gen'[r].app = gen[r].app /\ gen'[r].away = gen[r].away
      /\ gen'[r].todo = gen[r].todo \ {kind} /\ gen'[r].seen = gen[r].seen
      /\ gen'[r].pc = IF gen[r].todo = {kind} THEN "read" ELSE "copy"
      /\ gen[r].app \in App /\ gen[r].business \in Business /\ NoFile \notin Business /\ tree' \in [App -> Tree]
      /\ \A a \in App : gen[r].away \/ a # gen[r].app => tree'[a] = tree[a]
      /\ ~gen[r].away => /\ tree'[gen[r].app].router = IF kind = "router" THEN gen[r].business
                                                       ELSE tree[gen[r].app].router
                         /\ tree'[gen[r].app].models = IF kind = "models" THEN gen[r].business
                                                       ELSE tree[gen[r].app].models
      /\ UNCHANGED <<business, columns, appRouter, genLock, genEdits, generations, genTroubles, elsewhere, broken, mixed>>
  <2> DEFINE g == [gen[r] EXCEPT !.todo = @ \ {kind}, !.pc = IF gen[r].todo = {kind} THEN "read" ELSE "copy"]
             t == [tree[gen[r].app] EXCEPT !.modules = @ \cup {gen[r].business},
                                           !.router = IF kind = "router" THEN gen[r].business ELSE @,
                                           !.models = IF kind = "models" THEN gen[r].business ELSE @]
  <2>1. /\ gen[r] \in Generation /\ gen[r].pc = "copy" /\ gen[r].app \in App /\ gen[r].business \in Business
        /\ kind \in gen[r].todo
    BY GenFields DEF CopyFile, GenAt
  <2>2. gen' = [gen EXCEPT ![r] = g]
    BY DEF CopyFile
  <2>3. /\ g \in Generation /\ g.business = gen[r].business /\ g.app = gen[r].app /\ g.away = gen[r].away
        /\ g.todo = gen[r].todo \ {kind} /\ g.seen = gen[r].seen
        /\ g.pc = IF gen[r].todo = {kind} THEN "read" ELSE "copy"
    BY <2>1 DEF Generation, UnderLock
  <2>4. IF gen[r].away THEN tree' = tree ELSE tree' = [tree EXCEPT ![gen[r].app] = t]
    BY DEF CopyFile
  <2>5. tree \in [App -> Tree] /\ tree[gen[r].app] \in Tree
    BY <2>1 DEF GenTreeOK
  <2>6. /\ t \in Tree /\ t.router = (IF kind = "router" THEN gen[r].business ELSE tree[gen[r].app].router)
        /\ t.models = (IF kind = "models" THEN gen[r].business ELSE tree[gen[r].app].models)
    BY <2>1, <2>5 DEF Tree
  <2> HIDE DEF g, t
  <2>7. /\ gen' \in [GenRequest -> {NoGen} \cup Generation] /\ gen'[r] = g
        /\ \A q \in GenRequest : q # r => gen'[q] = gen[q]
    BY <2>1, <2>2, <2>3, GenMoves
  <2>8. /\ tree' \in [App -> Tree] /\ \A a \in App : gen[r].away \/ a # gen[r].app => tree'[a] = tree[a]
        /\ ~gen[r].away => tree'[gen[r].app] = t
    BY <2>1, <2>4, <2>5, <2>6
  <2>9. UNCHANGED <<business, columns, appRouter, genLock, genEdits, generations, genTroubles, elsewhere, broken, mixed>>
    BY DEF CopyFile
  <2>10. QED
    BY <2>1, <2>3, <2>6, <2>7, <2>8, <2>9, GeneratorAssumption
<1>1. GenTreeOK'
  BY <1>a, GeneratorAssumption DEF GenTreeOK, Tree, NoFile
<1>2. GenRunsOK'
  BY <1>a, GeneratorAssumption DEF GenRunsOK, NoGen, Generation, Kinds,
    UnderLock
<1>3. OneGenerates'
  BY <1>a, GeneratorAssumption DEF OneGenerates, Working, UnderLock
<1>4. RouterCopied'
  <2> SUFFICES ASSUME NEW q \in GenRequest
               PROVE  /\ \/ gen'[q].pc \in {"read", "write"}
                         \/ gen'[q].pc = "copy" /\ "router" \notin gen'[q].todo
                         => gen'[q].away \/ tree'[gen'[q].app].router # NoFile
                      /\ gen'[q].pc = "write" =>
                             \A a \in gen'[q].seen \ (elsewhere' \cup broken') : tree'[a].router # NoFile
    BY DEF RouterCopied
  <2>1. \A a \in App : tree[a].router # NoFile => tree'[a].router # NoFile
    BY <1>a
  <2>2. CASE q = r
    <3>1. gen'[r].pc # "write" /\ kind \in Kinds
      BY <1>a
    <3>2. CASE kind = "router"
      BY <1>a, <2>2, <3>1, <3>2
    <3>3. CASE kind = "models"
      <4>1. "router" \notin gen'[r].todo => "router" \notin gen[r].todo
        BY <1>a, <3>3
      <4>2. gen'[r].pc = "read" => "router" \notin gen[r].todo
        BY <1>a, <3>3
      <4>3. QED
        BY <1>a, <2>1, <2>2, <3>1, <4>1, <4>2 DEF RouterCopied
    <3>4. QED
      BY <3>1, <3>2, <3>3 DEF Kinds
  <2>3. CASE q # r
    <3>1. gen'[q] = gen[q] /\ UNCHANGED <<elsewhere, broken>>
      BY <1>a, <2>3
    <3>2. gen[q].pc # "idle" => gen[q].app \in App /\ gen[q].seen \subseteq App
      BY GenFields
    <3>3. QED
      BY <2>1, <3>1, <3>2 DEF RouterCopied
  <2>4. QED
    BY <2>2, <2>3
<1>5. CopiedAlone'
  <2> SUFFICES ASSUME ~mixed, NEW q \in GenRequest, gen'[q].pc = "copy"
               PROVE  IF gen'[q].away
                      THEN gen'[q].app \in broken \/ tree'[gen'[q].app].router = tree'[gen'[q].app].models
                      ELSE /\ "router" \notin gen'[q].todo => tree'[gen'[q].app].router = gen'[q].business
                           /\ "models" \notin gen'[q].todo => tree'[gen'[q].app].models = gen'[q].business
    BY <1>a DEF CopiedAlone
  <2>1. q = r
    <3>1. r \in Working
      BY <1>a DEF Working, UnderLock
    <3>2. q # r => q \in Working
      BY <1>a DEF Working, UnderLock
    <3>3. QED
      BY <3>1, <3>2 DEF OneGenerates
  <2>2. /\ gen[r].away \/ "router" \in gen[r].todo \/ tree[gen[r].app].router = gen[r].business
        /\ gen[r].away \/ "models" \in gen[r].todo \/ tree[gen[r].app].models = gen[r].business
        /\ ~gen[r].away \/ gen[r].app \in broken \/ tree[gen[r].app].router = tree[gen[r].app].models
    BY <1>a DEF CopiedAlone
  <2>3. CASE gen[r].away
    BY <1>a, <2>1, <2>2, <2>3, ZenonT(60)
  <2>4. CASE ~gen[r].away
    BY <1>a, <2>1, <2>2, <2>4
  <2>5. QED
    BY <2>3, <2>4
<1>6. RouterNamesApps'
  <2>1. \A a \in App : tree[a].router # NoFile => tree'[a].router # NoFile
    BY <1>a
  <2>2. appRouter \subseteq App
    BY DEF GenTreeOK
  <2>3. QED
    BY <1>a, <2>1, <2>2 DEF RouterNamesApps
<1>7. RouterMatchesModels'
  <2> SUFFICES ASSUME NEW a \in App \ broken, ~mixed,
                      ~\E q \in GenRequest : gen'[q].pc = "copy" /\ gen'[q].app = a
               PROVE  tree'[a].router = tree'[a].models
    BY <1>a DEF RouterMatchesModels, Working, GenAt, UnderLock
  <2>1. \A q \in GenRequest : q # r => gen[q].pc # "copy"
    BY <1>a DEF OneGenerates, Working, UnderLock
  <2>2. CASE a = gen[r].app
    <3>1. gen[r].todo = {kind}
      BY <1>a, <2>2
    <3>2. /\ ~gen[r].away /\ kind # "router" => tree[a].router = gen[r].business
          /\ ~gen[r].away /\ kind # "models" => tree[a].models = gen[r].business
          /\ gen[r].away => tree[a].router = tree[a].models
      BY <1>a, <2>2, <3>1 DEF CopiedAlone
    <3>3. CASE gen[r].away
      BY <1>a, <2>2, <3>2, <3>3
    <3>4. CASE ~gen[r].away
      BY <1>a, <2>2, <3>2, <3>4
    <3>5. QED
      BY <3>3, <3>4
  <2>3. CASE a # gen[r].app
    <3>1. tree'[a] = tree[a]
      BY <1>a, <2>3
    <3>2. tree[a].router = tree[a].models
      BY <1>a, <2>1, <2>3 DEF RouterMatchesModels, GenAt, Working
    <3>3. QED
      BY <3>1, <3>2
  <2>4. QED
    BY <2>2, <2>3
<1>8. GenRowsOK' /\ GenLockOK'
  <2>1. UNCHANGED <<business, columns, genLock, genEdits, generations, genTroubles>>
    BY <1>a
  <2>2. QED
    BY <2>1 DEF GenRowsOK, GenLockOK, BusinessRow
<1> QED
  BY <1>1, <1>2, <1>3, <1>4, <1>5, <1>6, <1>7, <1>8

\* ReadRouter (GenService._inject_app_router) keeps the invariant.
LEMMA ReadRouterStep ==
    ASSUME GenIInv, NEW r \in GenRequest, ReadRouter(r)
    PROVE  GenIInv'
<1> USE DEF GenIInv
<1>a. /\ gen[r] \in Generation /\ gen' \in [GenRequest -> {NoGen} \cup Generation]
      /\ \A q \in GenRequest : q # r => gen'[q] = gen[q]
      /\ gen[r].pc = "read" /\ gen'[r].pc \in {"leave", "write"}
      /\ gen'[r].business = gen[r].business /\ gen'[r].app = gen[r].app /\ gen'[r].away = gen[r].away
      /\ gen'[r].todo = gen[r].todo /\ gen'[r].seen = appRouter
      /\ UNCHANGED <<business, columns, tree, appRouter, genLock, genEdits, generations, genTroubles, elsewhere, broken, mixed>>
  <2> DEFINE g == [gen[r] EXCEPT !.pc = IF gen[r].app \in appRouter THEN "leave" ELSE "write", !.seen = appRouter]
  <2>1. gen[r] \in Generation /\ gen[r].pc = "read"
    BY GenFields DEF ReadRouter, GenAt
  <2>2. gen' = [gen EXCEPT ![r] = g]
    BY DEF ReadRouter
  <2>3. /\ g \in Generation /\ g.pc \in {"leave", "write"} /\ g.business = gen[r].business /\ g.app = gen[r].app
        /\ g.away = gen[r].away /\ g.todo = gen[r].todo /\ g.seen = appRouter
    BY <2>1 DEF Generation, UnderLock, GenTreeOK
  <2> HIDE DEF g
  <2>4. QED
    BY <2>1, <2>2, <2>3, GenMoves DEF ReadRouter
<1>1. GenRunsOK'
  BY <1>a, GeneratorAssumption DEF GenRunsOK, NoGen, Generation, Kinds,
    UnderLock
<1>2. OneGenerates'
  BY <1>a, GeneratorAssumption DEF OneGenerates, Working, UnderLock
<1>3. RouterCopied'
  BY <1>a, GeneratorAssumption DEF RouterCopied, RouterNamesApps, NoFile
<1>4. CopiedAlone'
  BY <1>a, GeneratorAssumption DEF CopiedAlone, RouterMatchesModels,
    OneGenerates, Working, GenAt, UnderLock
<1>5. RouterMatchesModels'
  BY <1>a, GeneratorAssumption DEF RouterMatchesModels, CopiedAlone,
    OneGenerates, Working, GenAt, UnderLock
<1>6. GenRowsOK' /\ GenTreeOK' /\ GenLockOK' /\ RouterNamesApps'
  <2>1. UNCHANGED <<business, columns, tree, appRouter, genLock, genEdits, generations, genTroubles, elsewhere, broken, mixed>>
    BY <1>a
  <2>2. QED
    BY <2>1 DEF GenRowsOK, GenTreeOK, GenLockOK, RouterNamesApps, BusinessRow,
      Tree, NoFile
<1> QED
  BY <1>1, <1>2, <1>3, <1>4, <1>5, <1>6

\* WriteRouter (GenService._inject_app_router) keeps the invariant.
LEMMA WriteRouterStep ==
    ASSUME GenIInv, NEW r \in GenRequest, WriteRouter(r)
    PROVE  GenIInv'
<1> USE DEF GenIInv
<1>a. /\ gen[r] \in Generation /\ gen' \in [GenRequest -> {NoGen} \cup Generation]
      /\ \A q \in GenRequest : q # r => gen'[q] = gen[q]
      /\ gen[r].pc = "write" /\ gen'[r].pc = "leave" /\ gen[r].app \in App /\ gen[r].seen \subseteq App
      /\ gen'[r].business = gen[r].business /\ gen'[r].app = gen[r].app /\ gen'[r].away = gen[r].away
      /\ gen'[r].todo = gen[r].todo /\ gen'[r].seen = gen[r].seen
      /\ appRouter' = gen[r].seen \cup {gen[r].app}
      /\ elsewhere' = IF gen[r].away THEN elsewhere \cup {gen[r].app} ELSE elsewhere
      /\ UNCHANGED <<business, columns, tree, genLock, genEdits, generations, genTroubles, broken, mixed>>
  BY GenStepTo, GenFields DEF WriteRouter, GenAt, UnderLock
<1>1. GenTreeOK'
  BY <1>a, GeneratorAssumption DEF GenTreeOK, Tree, NoFile
<1>2. GenRunsOK'
  BY <1>a, GeneratorAssumption DEF GenRunsOK, NoGen, Generation, Kinds,
    UnderLock
<1>3. OneGenerates'
  BY <1>a, GeneratorAssumption DEF OneGenerates, Working, UnderLock
<1>4. RouterCopied'
  BY <1>a, GeneratorAssumption DEF RouterCopied, RouterNamesApps, NoFile
<1>5. CopiedAlone'
  BY <1>a, GeneratorAssumption DEF CopiedAlone, RouterMatchesModels,
    OneGenerates, Working, GenAt, UnderLock
<1>6. RouterNamesApps'
  BY <1>a, GeneratorAssumption DEF RouterNamesApps, RouterCopied, NoFile
<1>7. RouterMatchesModels'
  BY <1>a, GeneratorAssumption DEF RouterMatchesModels, CopiedAlone,
    OneGenerates, Working, GenAt, UnderLock
<1>8. GenRowsOK' /\ GenLockOK'
  <2>1. UNCHANGED <<business, columns, genLock, genEdits, generations, genTroubles>>
    BY <1>a
  <2>2. QED
    BY <2>1 DEF GenRowsOK, GenLockOK, BusinessRow
<1> QED
  BY <1>1, <1>2, <1>3, <1>4, <1>5, <1>6, <1>7, <1>8

\* GenFails (GenService.generate) keeps the invariant.
LEMMA GenFailsStep ==
    ASSUME GenIInv, NEW r \in GenRequest, GenFails(r)
    PROVE  GenIInv'
<1> USE DEF GenIInv
<1>a. /\ gen[r] \in Generation /\ gen' \in [GenRequest -> {NoGen} \cup Generation]
      /\ \A q \in GenRequest : q # r => gen'[q] = gen[q]
      /\ gen[r].pc = "copy" /\ gen'[r].pc \in {"leave", "idle"} /\ gen[r].app \in App
      /\ Trouble /\ broken' = broken \cup {gen[r].app}
      /\ UNCHANGED <<business, columns, tree, appRouter, genLock, genEdits, generations, elsewhere, mixed>>
  <2>1. CASE GenGo(r, "leave")
    BY <2>1, GenStepTo, GenFields DEF GenFails, GenAt, UnderLock
  <2>2. CASE gen' = [gen EXCEPT ![r] = NoGen]
    BY <2>2, GenMoves, GenFields DEF GenFails, GenAt, NoGen
  <2>3. QED
    BY <2>1, <2>2 DEF GenFails
<1>1. GenTreeOK'
  BY <1>a, GeneratorAssumption DEF Trouble, GenTreeOK, Tree, NoFile
<1>2. GenRunsOK'
  BY <1>a, GeneratorAssumption DEF Trouble, GenRunsOK, NoGen, Generation,
    Kinds, UnderLock
<1>3. GenLockOK'
  BY <1>a, GeneratorAssumption DEF Trouble, GenLockOK
<1>4. OneGenerates'
  BY <1>a, GeneratorAssumption DEF Trouble, OneGenerates, Working, UnderLock
<1>5. RouterCopied'
  BY <1>a, GeneratorAssumption DEF Trouble, RouterCopied, RouterNamesApps,
    NoFile
<1>6. CopiedAlone'
  BY <1>a, GeneratorAssumption DEF Trouble, CopiedAlone, RouterMatchesModels,
    OneGenerates, Working, GenAt, UnderLock
<1>7. RouterNamesApps'
  BY <1>a, GeneratorAssumption DEF Trouble, RouterNamesApps, RouterCopied,
    NoFile
<1>8. RouterMatchesModels'
  BY <1>a, GeneratorAssumption DEF Trouble, RouterMatchesModels, CopiedAlone,
    OneGenerates, Working, GenAt, UnderLock
<1>9. GenRowsOK'
  <2>1. UNCHANGED <<business, columns, genEdits>>
    BY <1>a
  <2>2. QED
    BY <2>1 DEF GenRowsOK, BusinessRow
<1> QED
  BY <1>1, <1>2, <1>3, <1>4, <1>5, <1>6, <1>7, <1>8, <1>9

\* The initial state satisfies the invariant.
LEMMA GenInitInv == GenInit => GenIInv
<1> SUFFICES ASSUME GenInit PROVE GenIInv
  OBVIOUS
<1>1. PICK a \in App : business = [b \in Business |-> [state |-> "new", app |-> a, away |-> FALSE]]
  <2>1. (CHOOSE a \in App : TRUE) \in App
    BY GeneratorAssumption
  <2>2. QED
    BY <2>1 DEF GenInit
<1>2. GenRowsOK
  BY <1>1, GeneratorAssumption DEF GenInit, GenRowsOK, BusinessRow
<1>3. GenTreeOK
  <2>1. [router |-> NoFile, models |-> NoFile, modules |-> {}] \in Tree
    BY DEF Tree
  <2>2. QED
    BY <2>1 DEF GenInit, GenTreeOK
<1>3a. GenLockOK
  BY GeneratorAssumption DEF GenInit, GenLockOK
<1>4. \A r \in GenRequest : gen[r].pc = "idle"
  BY DEF GenInit, NoGen
<1>5. GenRunsOK /\ OneGenerates /\ RouterCopied /\ CopiedAlone
  BY <1>4 DEF GenInit, GenRunsOK, OneGenerates, Working, UnderLock, RouterCopied, CopiedAlone
<1>6. RouterNamesApps /\ RouterMatchesModels
  BY DEF GenInit, RouterNamesApps, RouterMatchesModels
<1>7. QED
  BY <1>2, <1>3, <1>3a, <1>5, <1>6 DEF GenIInv

\* Every step keeps it.
LEMMA GenNextInv == GenIInv /\ [GenNext]_genVars => GenIInv'
<1> SUFFICES ASSUME GenIInv, [GenNext]_genVars PROVE GenIInv'
  OBVIOUS
<1>1. CASE UNCHANGED genVars
  BY <1>1 DEF genVars, GenIInv, GenRowsOK, GenTreeOK, GenRunsOK, GenLockOK, OneGenerates, Working,
     RouterCopied, CopiedAlone, RouterNamesApps, RouterMatchesModels, GenAt
<1>2. QED
  BY <1>1, CreateBusinessStep, UpdateBusinessStep, DeleteBusinessStep, ImportTableStep, CreateColumnStep,
     DeleteColumnStep, UpdateColumnStep, BeginGenerateStep, EnterReloadStep, ReloadLockExpiresStep,
     LeaveReloadStep, RenderStep, CopyFileStep, ReadRouterStep, WriteRouterStep, GenFailsStep
     DEF GenNext, BusinessRequest, ColumnRequest

\* The inductive invariant of the generator holds in every reachable state.
THEOREM GenInductive == GenSpec => []GenIInv
BY GenInitInv, GenNextInv, PTL DEF GenSpec

\* What the server includes is there, and the router and the models of an app
\* are of one business, whoever generates meanwhile.
THEOREM GenSafe == GenSpec => []GenInv
<1>1. GenIInv => GenInv
  <2> SUFFICES ASSUME GenIInv PROVE GenInv
    OBVIOUS
  <2>1. genLock \subseteq GenRequest /\ Cardinality(genLock) <= 1
    BY FS_EmptySet, FS_Singleton DEF GenIInv, GenLockOK
  <2>2. \A r \in GenRequest : gen[r] = NoGen \/ gen[r].pc \in {"wait", "leave"} \cup UnderLock
    BY DEF GenIInv, GenRunsOK, Generation
  <2>3. GenTypeOK
    BY <2>1, <2>2 DEF GenIInv, GenRowsOK, GenTreeOK, GenLockOK, GenTypeOK
  <2>4. QED
    BY <2>3 DEF GenIInv, GenInv
<1>2. QED
  BY <1>1, GenInductive, PTL
-----------------------------------------------------------------------------
(* Signing in with the account of another platform.                          *)

SocialSpec == SocialInit /\ [][SocialNext]_socialVars

SocRowsOK ==
    /\ account \in [Account -> {"new", "live", "gone"}] /\ mail \in [Account -> Sid \cup {NoSid}]
    /\ social \subseteq Sid \X Account
    /\ outlived \subseteq Account /\ unbound \subseteq Account

SocLinksOK ==
    /\ link \in [LinkState -> Link]
    /\ passes \in [LinkState -> SUBSET Callback] /\ doubled \subseteq LinkState

Ended      == {Waiting, [pc |-> "ok"], [pc |-> "failed"]}
SocCallsOK == callback \in [Callback -> Step \cup Ended]

\* The unique constraints of sys_user_social.
SocUnique == \A x, y \in social : x[1] = y[1] \/ x[2] = y[2] => x = y

\* A callback that was let through is about to delete its state, or it is gone.
PassedDrops ==
    \A s \in LinkState : \A c \in passes[s] :
        link[s].type = "gone" \/ (callback[c].pc = "drop" /\ callback[c].state = s)

\* Who is to be bound exists, or was deleted since; one that is to be created
\* is nobody else's.
Bindable(u) == account[u] # "new" /\ (account[u] = "live" \/ u \in outlived)
BindersOK ==
    /\ \A s \in LinkState : link[s].type = "binding" => Bindable(link[s].user)
    /\ \A c \in Callback :
        /\ callback[c].pc \in {"drop", "lookUp"} /\ callback[c].link.type = "binding" =>
               Bindable(callback[c].link.user)
        /\ callback[c].pc = "commit" => IF callback[c].fresh THEN account[callback[c].user] = "new"
                                        ELSE Bindable(callback[c].user)
    /\ \A c, o \in Callback :
        callback[c].pc = "commit" /\ callback[o].pc = "commit" /\ callback[c].fresh
            /\ callback[c].user = callback[o].user => c = o

\* The inductive invariant of the links and bindings.
SocialIInv ==
    /\ SocRowsOK /\ SocLinksOK /\ SocCallsOK /\ SocUnique /\ PassedDrops /\ BindersOK
    /\ StateOnce /\ BoundToLive /\ NoStrayAccount


\* What a callback knows at each of its steps.
LEMMA CallbackFields ==
    ASSUME SocCallsOK, NEW c \in Callback
    PROVE  /\ callback[c].pc \in {"drop", "lookUp"} =>
                  /\ callback[c] \in [pc : {"drop", "lookUp"}, state : LinkState, sid : Sid, link : Link]
                  /\ callback[c].state \in LinkState /\ callback[c].sid \in Sid /\ callback[c].link \in Link
           /\ callback[c].pc = "commit" =>
                  /\ callback[c] \in [pc : {"commit"}, sid : Sid, user : Account, fresh : BOOLEAN]
                  /\ callback[c].sid \in Sid /\ callback[c].user \in Account /\ callback[c].fresh \in BOOLEAN
BY DEF SocCallsOK, Step, Ended, Waiting

\* The fields of a state token, by its kind.
LEMMA LinkFields ==
    ASSUME NEW l \in Link
    PROVE  /\ l.type \in {"unused", "gone", "login", "binding"}
           /\ l.type = "binding" => l.user \in Account
           /\ l.type = "unused" <=> l = NoLink
BY DEF Link, NoLink

\* A step of a callback keeps the others.
LEMMA CallbackMoves ==
    ASSUME SocCallsOK, NEW c \in Callback, NEW st \in Step \cup Ended, CallbackGoes(c, st)
    PROVE  /\ callback' \in [Callback -> Step \cup Ended] /\ callback'[c] = st
           /\ \A o \in Callback : o # c => callback'[o] = callback[o]
BY DEF SocCallsOK, CallbackGoes

\* LoginLink (get_github_oauth2_url) keeps the invariant.
LEMMA LoginLinkStep ==
    ASSUME SocialIInv, NEW s \in LinkState, LoginLink(s)
    PROVE  SocialIInv'
<1> USE DEF SocialIInv
<1>a. /\ link[s].type = "unused" /\ link'[s].type = "login"
      /\ link' \in [LinkState -> Link] /\ \A t \in LinkState : t # s => link'[t] = link[t]
      /\ UNCHANGED <<account, mail, social, callback, passes, doubled, outlived, unbound>>
  <2>1. [type |-> "login"] \in Link /\ NoLink.type = "unused"
    BY DEF Link, NoLink
  <2>2. QED
    BY <2>1 DEF LoginLink, SocLinksOK, Rows
<1>1. SocLinksOK'
  BY <1>a DEF SocLinksOK, Link, NoLink
<1>2. PassedDrops'
  BY <1>a DEF PassedDrops
<1>3. BindersOK'
  BY <1>a DEF BindersOK, Bindable
<1>4. SocRowsOK' /\ SocCallsOK' /\ SocUnique' /\ StateOnce' /\ BoundToLive' /\ NoStrayAccount'
  <2>1. UNCHANGED <<account, mail, social, callback, passes, doubled, outlived, unbound>>
    BY <1>a
  <2>2. QED
    BY <2>1 DEF SocRowsOK, SocCallsOK, SocUnique, StateOnce, BoundToLive,
      NoStrayAccount, Step, Ended, Link, Waiting, NoLink
<1> QED
  BY <1>1, <1>2, <1>3, <1>4

\* BindingLink (UserSocialService.get_binding_auth_url) keeps the invariant.
LEMMA BindingLinkStep ==
    ASSUME SocialIInv, NEW s \in LinkState, NEW u \in Account, BindingLink(s,
           u)
    PROVE  SocialIInv'
<1> USE DEF SocialIInv
<1>a. /\ account[u] = "live" /\ link[s].type = "unused" /\ link'[s].type = "binding" /\ link'[s].user = u
      /\ link' \in [LinkState -> Link] /\ \A t \in LinkState : t # s => link'[t] = link[t]
      /\ UNCHANGED <<account, mail, social, callback, passes, doubled, outlived, unbound>>
  <2>1. [type |-> "binding", user |-> u] \in Link /\ NoLink.type = "unused"
    BY DEF Link, NoLink
  <2>2. QED
    BY <2>1 DEF BindingLink, SocLinksOK, Rows
<1>1. SocLinksOK'
  BY <1>a DEF SocLinksOK, Link, NoLink
<1>2. PassedDrops'
  BY <1>a DEF PassedDrops
<1>3. BindersOK'
  BY <1>a DEF BindersOK, Bindable
<1>4. SocRowsOK' /\ SocCallsOK' /\ SocUnique' /\ StateOnce' /\ BoundToLive' /\ NoStrayAccount'
  <2>1. UNCHANGED <<account, mail, social, callback, passes, doubled, outlived, unbound>>
    BY <1>a
  <2>2. QED
    BY <2>1 DEF SocRowsOK, SocCallsOK, SocUnique, StateOnce, BoundToLive,
      NoStrayAccount, Step, Ended, Link, Waiting, NoLink
<1> QED
  BY <1>1, <1>2, <1>3, <1>4

\* LinkExpires (get_google_oauth2_url) keeps the invariant.
LEMMA LinkExpiresStep ==
    ASSUME SocialIInv, NEW s \in LinkState, LinkExpires(s)
    PROVE  SocialIInv'
<1> USE DEF SocialIInv
<1>a. /\ link'[s].type = "gone"
      /\ link' \in [LinkState -> Link] /\ \A t \in LinkState : t # s => link'[t] = link[t]
      /\ UNCHANGED <<account, mail, social, callback, passes, doubled, outlived, unbound>>
  <2>1. [type |-> "gone"] \in Link
    BY DEF Link
  <2>2. QED
    BY <2>1 DEF LinkExpires, SocLinksOK, Rows
<1>1. SocLinksOK'
  BY <1>a DEF SocLinksOK, Link, NoLink
<1>2. PassedDrops'
  BY <1>a DEF PassedDrops
<1>3. BindersOK'
  BY <1>a DEF BindersOK, Bindable
<1>4. SocRowsOK' /\ SocCallsOK' /\ SocUnique' /\ StateOnce' /\ BoundToLive' /\ NoStrayAccount'
  <2>1. UNCHANGED <<account, mail, social, callback, passes, doubled, outlived, unbound>>
    BY <1>a
  <2>2. QED
    BY <2>1 DEF SocRowsOK, SocCallsOK, SocUnique, StateOnce, BoundToLive,
      NoStrayAccount, Step, Ended, Link, Waiting, NoLink
<1> QED
  BY <1>1, <1>2, <1>3, <1>4

\* ReadState (OAuth2Service.login_or_binding) keeps the invariant.
LEMMA ReadStateStep ==
    ASSUME SocialIInv, NEW c \in Callback, NEW s \in LinkState, NEW sid \in
           Sid, ReadState(c, s, sid)
    PROVE  SocialIInv'
<1> USE DEF SocialIInv
<1>a. /\ callback' \in [Callback -> Step \cup Ended]
      /\ \A o \in Callback : o # c => callback'[o] = callback[o]
      /\ callback[c].pc = "new" /\ link[s].type # "unused"
      /\ \/ link[s].type = "gone" /\ callback'[c].pc = "failed" /\ UNCHANGED <<passes, doubled>>
         \/ /\ link[s].type # "gone" /\ callback'[c].pc = "drop"
            /\ callback'[c].state = s /\ callback'[c].link = link[s]
            /\ passes' = [passes EXCEPT ![s] = @ \cup {c}]
            /\ doubled' = doubled \cup {t \in {s} : \E o \in Callback :
                                           callback[o].pc = "drop" /\ callback[o].state = t}
      /\ UNCHANGED <<account, mail, social, link, outlived, unbound>>
  <2>1. link[s] \in Link /\ link[s].type # "unused" /\ callback[c].pc = "new"
    BY LinkFields DEF ReadState, SocLinksOK, Waiting
  <2>2. CASE link[s].type = "gone"
    <3>1. [pc |-> "failed"] \in Ended
      BY DEF Ended
    <3>2. QED
      BY <2>1, <2>2, <3>1, CallbackMoves DEF ReadState, Rows
  <2>3. CASE link[s].type # "gone"
    <3> DEFINE st == [pc |-> "drop", state |-> s, sid |-> sid, link |-> link[s]]
    <3>1. st \in Step /\ st.pc = "drop" /\ st.state = s /\ st.link = link[s]
      BY <2>1 DEF Step
    <3>2. CallbackGoes(c, st)
      BY <2>3 DEF ReadState
    <3> HIDE DEF st
    <3>3. callback'[c] = st /\ callback' \in [Callback -> Step \cup Ended] /\ \A o \in Callback : o # c => callback'[o] = callback[o]
      BY <3>1, <3>2, CallbackMoves
    <3>4. QED
      BY <2>1, <2>3, <3>1, <3>3 DEF ReadState, Rows
  <2>4. QED
    BY <2>2, <2>3
<1>1. SocLinksOK'
  BY <1>a DEF SocLinksOK, Link, NoLink
<1>2. SocCallsOK'
  BY <1>a DEF SocCallsOK, Step, Ended, Link, Waiting, NoLink
<1>3. PassedDrops'
  <2> SUFFICES ASSUME NEW t \in LinkState, NEW o \in passes'[t]
               PROVE  link[t].type = "gone" \/ (callback'[o].pc = "drop" /\ callback'[o].state = t)
    BY <1>a DEF PassedDrops
  <2>1. CASE o \in passes[t]
    <3>1. o \in Callback
      BY <2>1 DEF SocLinksOK
    <3>2. link[t].type = "gone" \/ (callback[o].pc = "drop" /\ callback[o].state = t)
      BY <2>1 DEF PassedDrops
    <3>3. QED
      BY <1>a, <3>1, <3>2
  <2>2. CASE o \notin passes[t]
    BY <1>a, <2>2 DEF SocLinksOK
  <2>3. QED
    BY <2>1, <2>2
<1>4. BindersOK'
  BY <1>a DEF BindersOK, Bindable
<1>5. StateOnce'
  <2> SUFFICES ASSUME NEW t \in LinkState \ doubled', NEW p \in passes'[t], NEW q \in passes'[t] PROVE p = q
    BY DEF StateOnce
  <2>1. CASE passes' = passes /\ doubled' = doubled
    BY <2>1 DEF StateOnce
  <2>2. CASE /\ link[s].type # "gone" /\ passes' = [passes EXCEPT ![s] = @ \cup {c}]
             /\ doubled' = doubled \cup {x \in {s} : \E o \in Callback :
                                             callback[o].pc = "drop" /\ callback[o].state = x}
    <3>1. CASE t # s
      BY <2>2, <3>1 DEF StateOnce, SocLinksOK
    <3>2. CASE t = s
      <4>1. passes[s] = {}
        BY <2>2, <3>2 DEF PassedDrops, SocLinksOK
      <4>2. passes'[s] = {c}
        BY <2>2, <4>1 DEF SocLinksOK
      <4>3. QED
        BY <3>2, <4>2
    <3>3. QED
      BY <3>1, <3>2
  <2>3. QED
    BY <1>a, <2>1, <2>2
<1>6. SocRowsOK' /\ SocUnique' /\ BoundToLive' /\ NoStrayAccount'
  <2>1. UNCHANGED <<account, mail, social, outlived, unbound>>
    BY <1>a
  <2>2. QED
    BY <2>1 DEF SocRowsOK, SocUnique, BoundToLive, NoStrayAccount
<1> QED
  BY <1>1, <1>2, <1>3, <1>4, <1>5, <1>6

\* DropState (OAuth2Service.login_or_binding) keeps the invariant.
LEMMA DropStateStep ==
    ASSUME SocialIInv, NEW c \in Callback, DropState(c)
    PROVE  SocialIInv'
<1> USE DEF SocialIInv
<1>a. /\ callback' \in [Callback -> Step \cup Ended]
      /\ \A o \in Callback : o # c => callback'[o] = callback[o]
      /\ callback[c].pc = "drop" /\ callback'[c].pc = "lookUp" /\ callback[c].state \in LinkState
      /\ callback'[c].link = callback[c].link /\ link' \in [LinkState -> Link]
      /\ link'[callback[c].state].type = "gone"
      /\ \A t \in LinkState : t # callback[c].state => link'[t] = link[t]
      /\ UNCHANGED <<account, mail, social, passes, doubled, outlived, unbound>>
  <2> DEFINE st == [callback[c] EXCEPT !.pc = "lookUp"]
  <2>1. /\ callback[c].pc = "drop" /\ callback[c].state \in LinkState
        /\ callback[c] \in [pc : {"drop", "lookUp"}, state : LinkState, sid : Sid, link : Link]
    BY CallbackFields DEF DropState
  <2>2. st \in Step /\ st.pc = "lookUp" /\ st.link = callback[c].link
    BY <2>1 DEF Step
  <2>3. CallbackGoes(c, st)
    BY DEF DropState
  <2> HIDE DEF st
  <2>4. callback'[c] = st /\ callback' \in [Callback -> Step \cup Ended] /\ \A o \in Callback : o # c => callback'[o] = callback[o]
    BY <2>2, <2>3, CallbackMoves
  <2>5. [type |-> "gone"] \in Link
    BY DEF Link
  <2>6. /\ link' = [link EXCEPT ![callback[c].state] = [type |-> "gone"]] /\ link \in [LinkState -> Link]
        /\ UNCHANGED <<account, mail, social, passes, doubled, outlived, unbound>>
    BY DEF DropState, Rows, SocLinksOK
  <2>7. /\ link' \in [LinkState -> Link] /\ link'[callback[c].state].type = "gone"
        /\ \A t \in LinkState : t # callback[c].state => link'[t] = link[t]
    BY <2>1, <2>5, <2>6
  <2>8. QED
    BY <2>1, <2>2, <2>4, <2>6, <2>7
<1>1. SocLinksOK'
  BY <1>a DEF SocLinksOK, Link, NoLink
<1>2. SocCallsOK'
  BY <1>a DEF SocCallsOK, Step, Ended, Link, Waiting, NoLink
<1>3. PassedDrops'
  <2> SUFFICES ASSUME NEW t \in LinkState, NEW o \in passes[t]
               PROVE  link'[t].type = "gone" \/ (callback'[o].pc = "drop" /\ callback'[o].state = t)
    BY <1>a DEF PassedDrops
  <2>1. o \in Callback /\ (link[t].type = "gone" \/ (callback[o].pc = "drop" /\ callback[o].state = t))
    BY DEF PassedDrops, SocLinksOK
  <2>2. CASE t = callback[c].state
    BY <1>a, <2>2
  <2>3. CASE t # callback[c].state
    BY <1>a, <2>1, <2>3
  <2>4. QED
    BY <2>2, <2>3
<1>4. BindersOK'
  BY <1>a DEF BindersOK, Bindable
<1>5. SocRowsOK' /\ SocUnique' /\ StateOnce' /\ BoundToLive' /\ NoStrayAccount'
  <2>1. UNCHANGED <<account, mail, social, passes, doubled, outlived, unbound>>
    BY <1>a
  <2>2. QED
    BY <2>1 DEF SocRowsOK, SocUnique, StateOnce, BoundToLive, NoStrayAccount
<1> QED
  BY <1>1, <1>2, <1>3, <1>4, <1>5

\* Bind (UserSocialService.binding_with_oauth2) keeps the invariant.
LEMMA BindStep ==
    ASSUME SocialIInv, NEW c \in Callback, Bind(c)
    PROVE  SocialIInv'
<1> USE DEF SocialIInv
<1>a. /\ callback' \in [Callback -> Step \cup Ended]
      /\ \A o \in Callback : o # c => callback'[o] = callback[o]
      /\ callback[c].pc = "lookUp" /\ callback[c].link.type = "binding"
      /\ \/ callback'[c].pc = "failed"
         \/ callback'[c].pc = "commit" /\ callback'[c].user = callback[c].link.user /\ ~callback'[c].fresh
      /\ UNCHANGED <<account, mail, social, link, passes, doubled, outlived, unbound>>
  <2> DEFINE st == [pc |-> "commit", sid |-> callback[c].sid, user |-> callback[c].link.user, fresh |-> FALSE]
  <2>1. callback[c].pc = "lookUp" /\ callback[c].link.type = "binding"
    BY DEF Bind
  <2>2. callback[c].sid \in Sid /\ callback[c].link.user \in Account
    BY <2>1, CallbackFields, LinkFields
  <2>3. st \in Step /\ st.pc = "commit" /\ st.user = callback[c].link.user /\ ~st.fresh
    BY <2>2 DEF Step
  <2>4. [pc |-> "failed"] \in Ended
    BY DEF Ended
  <2>5. CallbackGoes(c, [pc |-> "failed"]) \/ CallbackGoes(c, st)
    BY DEF Bind
  <2>6. UNCHANGED <<account, mail, social, link, passes, doubled, outlived, unbound>>
    BY DEF Bind, Rows
  <2> HIDE DEF st
  <2>7. CASE CallbackGoes(c, [pc |-> "failed"])
    BY <2>1, <2>4, <2>6, <2>7, CallbackMoves
  <2>8. CASE CallbackGoes(c, st)
    BY <2>1, <2>3, <2>6, <2>8, CallbackMoves
  <2>9. QED
    BY <2>5, <2>7, <2>8
<1>1. SocCallsOK'
  BY <1>a DEF SocCallsOK, Step, Ended, Link, Waiting, NoLink
<1>2. PassedDrops'
  <2> SUFFICES ASSUME NEW t \in LinkState, NEW o \in passes[t]
               PROVE  link[t].type = "gone" \/ (callback'[o].pc = "drop" /\ callback'[o].state = t)
    BY <1>a DEF PassedDrops
  <2>1. o \in Callback /\ (link[t].type = "gone" \/ (callback[o].pc = "drop" /\ callback[o].state = t))
    BY DEF PassedDrops, SocLinksOK
  <2>2. QED
    BY <1>a, <2>1
<1>3. BindersOK'
  BY <1>a DEF BindersOK, Bindable
<1>4. SocRowsOK' /\ SocLinksOK' /\ SocUnique' /\ StateOnce' /\ BoundToLive' /\ NoStrayAccount'
  <2>1. UNCHANGED <<account, mail, social, link, passes, doubled, outlived, unbound>>
    BY <1>a
  <2>2. QED
    BY <2>1 DEF SocRowsOK, SocLinksOK, SocUnique, StateOnce, BoundToLive,
      NoStrayAccount, Link, NoLink
<1> QED
  BY <1>1, <1>2, <1>3, <1>4

\* LoginBound (OAuth2Service.login) keeps the invariant.
LEMMA LoginBoundStep ==
    ASSUME SocialIInv, NEW c \in Callback, LoginBound(c)
    PROVE  SocialIInv'
<1> USE DEF SocialIInv
<1>1. SocCallsOK'
  BY DEF LoginBound, SocCallsOK, CallbackGoes, Rows, Step, Ended, Link,
    Waiting, NoLink
<1>2. PassedDrops'
  BY DEF LoginBound, PassedDrops, CallbackGoes, Rows
<1>3. BindersOK'
  BY DEF LoginBound, BindersOK, CallbackGoes, Rows, Bindable
<1>4. SocRowsOK' /\ SocLinksOK' /\ SocUnique' /\ StateOnce' /\ BoundToLive' /\ NoStrayAccount'
  <2>1. UNCHANGED <<account, mail, social, link, passes, doubled, outlived, unbound>>
    BY DEF LoginBound, Rows
  <2>2. QED
    BY <2>1 DEF SocRowsOK, SocLinksOK, SocUnique, StateOnce, BoundToLive,
      NoStrayAccount, Link, NoLink
<1> QED
  BY <1>1, <1>2, <1>3, <1>4

\* LoginUnbound (OAuth2Service.login) keeps the invariant.
LEMMA LoginUnboundStep ==
    ASSUME SocialIInv, NEW c \in Callback, LoginUnbound(c)
    PROVE  SocialIInv'
<1> USE DEF SocialIInv
<1>a. /\ callback' \in [Callback -> Step \cup Ended]
      /\ \A o \in Callback : o # c => callback'[o] = callback[o]
      /\ callback[c].pc = "lookUp" /\ callback[c].link.type = "login"
      /\ callback'[c].pc = "commit" /\ callback'[c].user \in Account
      /\ \/ ~callback'[c].fresh /\ account[callback'[c].user] = "live"
         \/ /\ callback'[c].fresh /\ account[callback'[c].user] = "new"
            /\ \A o \in Callback : callback[o].pc = "commit" => callback[o].user # callback'[c].user
      /\ UNCHANGED <<account, mail, social, link, passes, doubled, outlived, unbound>>
  <2>1. /\ callback[c].pc = "lookUp" /\ callback[c].link.type = "login" /\ callback[c].sid \in Sid
        /\ UNCHANGED <<account, mail, social, link, passes, doubled, outlived, unbound>>
    BY CallbackFields DEF LoginUnbound, Rows
  <2>2. PICK u \in Account, fresh \in BOOLEAN :
             /\ CallbackGoes(c, [pc |-> "commit", sid |-> callback[c].sid, user |-> u, fresh |-> fresh])
             /\ \/ ~fresh /\ account[u] = "live"
                \/ /\ fresh /\ account[u] = "new"
                   /\ \A o \in Callback : callback[o].pc = "commit" => callback[o].user # u
    BY DEF LoginUnbound, LiveWithMail
  <2> DEFINE st == [pc |-> "commit", sid |-> callback[c].sid, user |-> u, fresh |-> fresh]
  <2>3. st \in Step /\ st.pc = "commit" /\ st.user = u /\ st.fresh = fresh
    BY <2>1 DEF Step
  <2> HIDE DEF st
  <2>4. callback'[c] = st /\ callback' \in [Callback -> Step \cup Ended] /\ \A o \in Callback : o # c => callback'[o] = callback[o]
    BY <2>2, <2>3, CallbackMoves DEF st
  <2>5. QED
    BY <2>1, <2>2, <2>3, <2>4
<1>1. SocCallsOK'
  BY <1>a DEF SocCallsOK, Step, Ended, Link, Waiting, NoLink
<1>2. PassedDrops'
  <2> SUFFICES ASSUME NEW t \in LinkState, NEW o \in passes[t]
               PROVE  link[t].type = "gone" \/ (callback'[o].pc = "drop" /\ callback'[o].state = t)
    BY <1>a DEF PassedDrops
  <2>1. o \in Callback /\ (link[t].type = "gone" \/ (callback[o].pc = "drop" /\ callback[o].state = t))
    BY DEF PassedDrops, SocLinksOK
  <2>2. QED
    BY <1>a, <2>1
<1>3. BindersOK'
  BY <1>a DEF BindersOK, Bindable
<1>4. SocRowsOK' /\ SocLinksOK' /\ SocUnique' /\ StateOnce' /\ BoundToLive' /\ NoStrayAccount'
  <2>1. UNCHANGED <<account, mail, social, link, passes, doubled, outlived, unbound>>
    BY <1>a
  <2>2. QED
    BY <2>1 DEF SocRowsOK, SocLinksOK, SocUnique, StateOnce, BoundToLive,
      NoStrayAccount, Link, NoLink
<1> QED
  BY <1>1, <1>2, <1>3, <1>4

\* CommitBinding (CRUDUser.add_by_oauth2) keeps the invariant.
LEMMA CommitBindingStep ==
    ASSUME SocialIInv, NEW c \in Callback, CommitBinding(c)
    PROVE  SocialIInv'
<1> USE DEF SocialIInv
<1>a. /\ callback' \in [Callback -> Step \cup Ended]
      /\ \A o \in Callback : o # c => callback'[o] = callback[o]
      /\ callback[c].pc = "commit" /\ callback'[c].pc \in {"ok", "failed"}
      /\ callback[c].sid \in Sid /\ callback[c].user \in Account /\ callback[c].fresh \in BOOLEAN
      /\ \/ /\ \A x \in social : x[1] # callback[c].sid /\ x[2] # callback[c].user
            /\ social' = social \cup {<<callback[c].sid, callback[c].user>>}
            /\ account' = [account EXCEPT ![callback[c].user] = IF callback[c].fresh THEN "live" ELSE @]
            /\ mail' = [mail EXCEPT ![callback[c].user] = IF callback[c].fresh THEN callback[c].sid ELSE @]
         \/ UNCHANGED <<account, mail, social>>
      /\ UNCHANGED <<link, passes, doubled, outlived, unbound>>
  <2>1. /\ callback[c].pc = "commit" /\ callback[c].sid \in Sid /\ callback[c].user \in Account
        /\ callback[c].fresh \in BOOLEAN
        /\ UNCHANGED <<outlived, unbound, link, passes, doubled>>
    BY CallbackFields DEF CommitBinding
  <2>2. [pc |-> "ok"] \in Step \cup Ended /\ [pc |-> "failed"] \in Step \cup Ended
    BY DEF Ended
  <2>3. CASE CallbackGoes(c, [pc |-> "failed"]) /\ UNCHANGED <<account, mail, social>>
    BY <2>1, <2>2, <2>3, CallbackMoves
  <2>4. CASE /\ ~Conflict(callback[c]) /\ CallbackGoes(c, [pc |-> "ok"])
             /\ social' = social \cup {<<callback[c].sid, callback[c].user>>}
             /\ account' = [account EXCEPT ![callback[c].user] = IF callback[c].fresh THEN "live" ELSE @]
             /\ mail' = [mail EXCEPT ![callback[c].user] = IF callback[c].fresh THEN callback[c].sid ELSE @]
    <3>1. \A x \in social : x[1] # callback[c].sid /\ x[2] # callback[c].user
      BY <2>4 DEF Conflict
    <3>2. callback'[c].pc = "ok" /\ callback' \in [Callback -> Step \cup Ended] /\ \A o \in Callback : o # c => callback'[o] = callback[o]
      BY <2>2, <2>4, CallbackMoves
    <3>3. QED
      BY <2>1, <2>4, <3>1, <3>2
  <2>5. QED
    BY <2>3, <2>4 DEF CommitBinding
<1>1. SocRowsOK'
  BY <1>a DEF SocRowsOK
<1>2. SocCallsOK'
  BY <1>a DEF SocCallsOK, Step, Ended, Link, Waiting, NoLink
<1>3. SocUnique'
  BY <1>a DEF SocUnique
<1>4. PassedDrops'
  <2> SUFFICES ASSUME NEW t \in LinkState, NEW o \in passes[t]
               PROVE  link[t].type = "gone" \/ (callback'[o].pc = "drop" /\ callback'[o].state = t)
    BY <1>a DEF PassedDrops
  <2>1. o \in Callback /\ (link[t].type = "gone" \/ (callback[o].pc = "drop" /\ callback[o].state = t))
    BY DEF PassedDrops, SocLinksOK
  <2>2. QED
    BY <1>a, <2>1
<1>5. BindersOK'
  <2> DEFINE v == callback[c].user
  <2>1. CASE UNCHANGED <<account, mail, social>>
    BY <1>a, <2>1 DEF BindersOK, Bindable
  <2>2. CASE /\ \A x \in social : x[1] # callback[c].sid /\ x[2] # v
             /\ social' = social \cup {<<callback[c].sid, v>>}
             /\ account' = [account EXCEPT ![v] = IF callback[c].fresh THEN "live" ELSE @]
    <3>1. /\ account'[v] = IF callback[c].fresh THEN "live" ELSE account[v]
          /\ \A u \in Account : u # v => account'[u] = account[u]
          /\ callback[c].fresh => account[v] = "new"
          /\ ~callback[c].fresh => Bindable(v)
      BY <1>a, <2>2 DEF SocRowsOK, BindersOK
    <3> HIDE DEF v
    <3> DEFINE Still(u) == account'[u] # "new" /\ (account'[u] = "live" \/ u \in outlived')
    <3>2. \A u \in Account : Bindable(u) => Still(u)
      BY <1>a, <3>1 DEF Bindable
    <3> HIDE DEF Still
    <3>3. ASSUME NEW s \in LinkState, link'[s].type = "binding" PROVE Still(link[s].user)
      <4>1. link[s].user \in Account /\ Bindable(link[s].user) /\ link' = link
        BY <1>a, <3>3, LinkFields DEF BindersOK, SocLinksOK
      <4>2. QED
        BY <3>2, <4>1
    <3>4. ASSUME NEW o \in Callback
          PROVE  /\ callback'[o].pc \in {"drop", "lookUp"} /\ callback'[o].link.type = "binding" =>
                        Still(callback'[o].link.user)
                 /\ callback'[o].pc = "commit" => IF callback'[o].fresh THEN account'[callback'[o].user] = "new"
                                                 ELSE Still(callback'[o].user)
      <4>1. CASE o = c
        BY <1>a, <4>1
      <4>2. CASE o # c
        <5>1. callback'[o] = callback[o]
          BY <1>a, <4>2
        <5>2. /\ callback[o].pc \in {"drop", "lookUp"} /\ callback[o].link.type = "binding" =>
                     callback[o].link.user \in Account /\ Bindable(callback[o].link.user)
              /\ callback[o].pc = "commit" => callback[o].user \in Account
          BY CallbackFields, LinkFields DEF BindersOK
        <5>3. callback[o].pc = "commit" /\ callback[o].fresh => account'[callback[o].user] = "new"
          <6>1. callback[o].pc = "commit" /\ callback[o].fresh => callback[o].user # v
            BY <1>a, <4>2 DEF BindersOK, v
          <6>2. QED
            BY <3>1, <5>2, <6>1 DEF BindersOK
        <5>4. callback[o].pc = "commit" /\ ~callback[o].fresh => Bindable(callback[o].user)
          BY DEF BindersOK
        <5>5. QED
          BY <3>2, <5>1, <5>2, <5>3, <5>4
      <4>3. QED
        BY <4>1, <4>2
    <3>5. \A p, o \in Callback :
              callback'[p].pc = "commit" /\ callback'[o].pc = "commit" /\ callback'[p].fresh
                  /\ callback'[p].user = callback'[o].user => p = o
      BY <1>a DEF BindersOK
    <3>6. QED
      BY <1>a, <3>3, <3>4, <3>5 DEF BindersOK, Bindable, Still
  <2>3. QED
    BY <1>a, <2>1, <2>2
<1>6. BoundToLive'
  <2> DEFINE v == callback[c].user
  <2>1. CASE UNCHANGED <<account, mail, social>>
    BY <1>a, <2>1 DEF BoundToLive
  <2>2. CASE /\ \A x \in social : x[1] # callback[c].sid /\ x[2] # v
             /\ social' = social \cup {<<callback[c].sid, v>>}
             /\ account' = [account EXCEPT ![v] = IF callback[c].fresh THEN "live" ELSE @]
    <3>1. /\ account'[v] = IF callback[c].fresh THEN "live" ELSE account[v]
          /\ \A u \in Account : u # v => account'[u] = account[u]
          /\ callback[c].fresh => account[v] = "new"
          /\ ~callback[c].fresh => Bindable(v)
      BY <1>a, <2>2 DEF SocRowsOK, BindersOK
    <3> HIDE DEF v
    <3>2. account'[v] = "live" \/ v \in outlived
      BY <3>1 DEF Bindable
    <3>3. social' = social \cup {<<callback[c].sid, v>>} /\ outlived' = outlived
      BY <1>a, <2>2
    <3>4. ASSUME NEW x \in social PROVE account'[x[2]] = "live" \/ x[2] \in outlived
      <4>1. x[2] \in Account /\ x[2] # v
        BY <2>2 DEF SocRowsOK
      <4>2. QED
        BY <3>1, <4>1 DEF BoundToLive
    <3>5. QED
      BY <3>2, <3>3, <3>4 DEF BoundToLive
  <2>3. QED
    BY <1>a, <2>1, <2>2
<1>7. NoStrayAccount'
  <2> DEFINE v == callback[c].user
  <2>1. CASE UNCHANGED <<account, mail, social>>
    BY <1>a, <2>1 DEF NoStrayAccount
  <2>2. CASE /\ \A x \in social : x[1] # callback[c].sid /\ x[2] # v
             /\ social' = social \cup {<<callback[c].sid, v>>}
             /\ account' = [account EXCEPT ![v] = IF callback[c].fresh THEN "live" ELSE @]
    <3>1. /\ account'[v] = IF callback[c].fresh THEN "live" ELSE account[v]
          /\ \A u \in Account : u # v => account'[u] = account[u]
          /\ callback[c].fresh => account[v] = "new"
          /\ ~callback[c].fresh => Bindable(v)
      BY <1>a, <2>2 DEF SocRowsOK, BindersOK
    <3> HIDE DEF v
    <3>2. social' = social \cup {<<callback[c].sid, v>>} /\ unbound' = unbound
      BY <1>a, <2>2
    <3>3. ASSUME NEW u \in Account \ (Known \cup unbound), account'[u] = "live" PROVE \E x \in social' : x[2] = u
      <4>1. CASE u = v
        <5>1. <<callback[c].sid, v>>[2] = u /\ <<callback[c].sid, v>> \in social'
          BY <3>2, <4>1
        <5>2. QED
          BY <5>1
      <4>2. CASE u # v
        BY <3>1, <3>2, <3>3, <4>2 DEF NoStrayAccount
      <4>3. QED
        BY <4>1, <4>2
    <3>4. QED
      BY <3>2, <3>3 DEF NoStrayAccount
  <2>3. QED
    BY <1>a, <2>1, <2>2
<1>8. SocLinksOK' /\ StateOnce'
  <2>1. UNCHANGED <<link, passes, doubled>>
    BY <1>a
  <2>2. QED
    BY <2>1 DEF SocLinksOK, StateOnce, Link, NoLink
<1> QED
  BY <1>1, <1>2, <1>3, <1>4, <1>5, <1>6, <1>7, <1>8

\* Unbind (CRUDUserSocial.delete) keeps the invariant.
LEMMA UnbindStep ==
    ASSUME SocialIInv, NEW u \in Account, Unbind(u)
    PROVE  SocialIInv'
<1> USE DEF SocialIInv
<1>1. SocRowsOK'
  BY DEF Unbind, SocRowsOK
<1>2. SocUnique'
  BY DEF Unbind, SocUnique
<1>3. BoundToLive'
  BY DEF Unbind, BoundToLive, BindersOK, Bindable
<1>4. NoStrayAccount'
  BY DEF Unbind, NoStrayAccount
<1>5. SocLinksOK' /\ SocCallsOK' /\ PassedDrops' /\ BindersOK' /\ StateOnce'
  <2>1. UNCHANGED <<account, link, callback, passes, doubled, outlived>>
    BY DEF Unbind
  <2>2. QED
    BY <2>1 DEF SocLinksOK, SocCallsOK, PassedDrops, BindersOK, StateOnce,
      Link, Step, Ended, Bindable, NoLink, Waiting
<1> QED
  BY <1>1, <1>2, <1>3, <1>4, <1>5

\* DeleteAccount (CRUDUser.delete) keeps the invariant.
LEMMA DeleteAccountStep ==
    ASSUME SocialIInv, NEW u \in Account, DeleteAccount(u)
    PROVE  SocialIInv'
<1> USE DEF SocialIInv
<1>1. SocRowsOK'
  BY DEF DeleteAccount, SocRowsOK, ToBind
<1>2. SocUnique'
  BY DEF DeleteAccount, SocUnique, ToBind
<1>3. BindersOK'
  BY DEF DeleteAccount, BindersOK, ToBind, Bindable
<1>4. BoundToLive'
  BY DEF DeleteAccount, BoundToLive, BindersOK, ToBind, Bindable
<1>5. NoStrayAccount'
  <2> SUFFICES ASSUME NEW v \in Account \ (Known \cup unbound'), account'[v] = "live"
               PROVE  \E x \in social' : x[2] = v
    BY DEF NoStrayAccount
  <2>1. v # u /\ account[v] = "live" /\ unbound' = unbound /\ social' = {x \in social : x[2] # u}
    BY DEF DeleteAccount, SocRowsOK
  <2>2. PICK x \in social : x[2] = v
    BY <2>1 DEF NoStrayAccount
  <2>3. QED
    BY <2>1, <2>2
<1>6. SocLinksOK' /\ SocCallsOK' /\ PassedDrops' /\ StateOnce'
  <2>1. UNCHANGED <<link, callback, passes, doubled>>
    BY DEF DeleteAccount
  <2>2. QED
    BY <2>1 DEF SocLinksOK, SocCallsOK, PassedDrops, StateOnce, Link, Step,
      Ended, NoLink, Waiting
<1> QED
  BY <1>1, <1>2, <1>3, <1>4, <1>5, <1>6

\* The initial state satisfies the invariant.
LEMMA SocialInitInv == SocialInit => SocialIInv
<1> SUFFICES ASSUME SocialInit PROVE SocialIInv
  OBVIOUS
<1>1. SocRowsOK
  BY SocialAssumption DEF SocialInit, SocRowsOK
<1>2. SocLinksOK /\ SocCallsOK
  BY DEF SocialInit, SocLinksOK, SocCallsOK, Link, Ended
<1>3. \A c \in Callback : callback[c].pc = "new"
  BY DEF SocialInit, Waiting
<1>4. \A s \in LinkState : link[s].type = "unused"
  BY DEF SocialInit, NoLink
<1>5. SocUnique /\ PassedDrops /\ BindersOK /\ StateOnce /\ BoundToLive /\ NoStrayAccount
  BY <1>3, <1>4 DEF SocialInit, SocUnique, PassedDrops, BindersOK, StateOnce, BoundToLive, NoStrayAccount
<1>6. QED
  BY <1>1, <1>2, <1>5 DEF SocialIInv

\* Every step keeps it.
LEMMA SocialNextInv == SocialIInv /\ [SocialNext]_socialVars => SocialIInv'
<1> SUFFICES ASSUME SocialIInv, [SocialNext]_socialVars PROVE SocialIInv'
  OBVIOUS
<1>1. CASE UNCHANGED socialVars
  BY <1>1 DEF socialVars, SocialIInv, SocRowsOK, SocLinksOK, SocCallsOK, SocUnique, PassedDrops,
     BindersOK, Bindable, StateOnce, BoundToLive, NoStrayAccount
<1>2. QED
  BY <1>1, LoginLinkStep, BindingLinkStep, LinkExpiresStep, ReadStateStep, DropStateStep, BindStep,
     LoginBoundStep, LoginUnboundStep, CommitBindingStep, UnbindStep, DeleteAccountStep DEF SocialNext

\* The inductive invariant of links and bindings holds in every reachable
\* state.
THEOREM SocialInductive == SocialSpec => []SocialIInv
BY SocialInitInv, SocialNextInv, PTL DEF SocialSpec

\* States pass once, bindings lead to users, and users can log in, but for the
\* overlaps the histories name.
THEOREM SocialSafe == SocialSpec => []SocialInv
<1>1. SocialIInv => SocialInv
  <2> SUFFICES ASSUME SocialIInv PROVE SocialInv
    OBVIOUS
  <2>1. \A c \in Callback : callback[c] \in Step \cup {Waiting, [pc |-> "ok"], [pc |-> "failed"]}
    BY DEF SocialIInv, SocCallsOK, Ended
  <2>2. SocialTypeOK
    BY <2>1 DEF SocialIInv, SocRowsOK, SocLinksOK, SocUnique, SocialTypeOK
  <2>3. QED
    BY <2>2 DEF SocialIInv, SocialInv
<1>2. QED
  BY <1>1, SocialInductive, PTL
-----------------------------------------------------------------------------
(* Dictionaries: types, the data rows that copy their codes, cached lists.   *)

DictSpec == DictInit /\ [][DictNext]_dictVars

DictRowsOK ==
    /\ types \in [DictType -> TypeRow] /\ datas \in [DictData -> DataRow]
    /\ tasks \in 0..MaxTasks /\ task \in [DictRequest -> Task \cup {NoTask}]
    /\ parted \subseteq DictType /\ recoded \subseteq DictType /\ doubtful \subseteq Code

\* The two unique constraints.
DictUnique ==
    /\ \A t, u \in LiveTypes : types[t].code = types[u].code => t = u
    /\ \A d, e \in LiveDatas : datas[d].code = datas[e].code /\ datas[d].label = datas[e].label => d = e

CodeList == {l \in [known : BOOLEAN, rows : SUBSET DictData] : l.known <=> l.rows # {}}
ListsOK  == lists \in [Code -> CodeList] /\ fetched \in [Code -> CodeList]

\* A change that refers to a type was given a live one, with its code; the type
\* lives until a deletion that was in flight with the change. A type is added
\* once.
Puts == {"addData", "putData"}
TasksKnow ==
    \A r \in DictRequest :
        /\ task[r].op \in Puts =>
               /\ task[r].type \in LiveTypes \cup parted
               /\ task[r].type \in LiveTypes \ recoded => task[r].code = types[task[r].type].code
        /\ task[r].op \in {"recode", "dropType"} => types[task[r].type].state # "new"
        /\ task[r].op = "addType" => types[task[r].type].state = "new"
AddedOnce ==
    \A r, q \in DictRequest :
        task[r].op = "addType" /\ task[q].op = "addType" /\ task[r].type = task[q].type => r = q
PartedKnown == \A t \in parted : types[t].state # "new"
PartedMeet ==
    \A r, q \in DictRequest :
        task[r].op \in Puts /\ task[q].op = "dropType" /\ task[r].type = task[q].type
            => task[r].type \in parted

\* The deletion of a type takes the rows that are in it, or the type is parted.
DropTakes ==
    \A q \in DictRequest : \A d \in LiveDatas :
        task[q].op = "dropType" /\ task[q].type \notin parted /\ datas[d].type = task[q].type
            => d \in task[q].rows

\* A list that is not doubtful is what the table holds, read or cached, and
\* there is none while a change of data is in flight.
ListsTrue ==
    \A c \in Code \ doubtful : \A l \in {lists[c], fetched[c]} :
        l.known => l = List(c) /\ \A r \in DictRequest : task[r].op \notin DataOps

\* The inductive invariant of the dictionaries.
DictIInv ==
    /\ DictRowsOK /\ DictUnique /\ ListsOK /\ TasksKnow /\ AddedOnce /\ PartedKnown /\ PartedMeet
    /\ DropTakes /\ DataOfLiveType /\ CodeOfType /\ ListsTrue

\* What the checks of a request have found for the change it begins.
Considered(r, j) ==
    /\ j.op \in Puts => j.type \in LiveTypes /\ j.code = types[j.type].code
    /\ j.op \in {"recode", "dropType"} => j.type \in LiveTypes
    /\ j.op = "dropType" => j.rows = {d \in LiveDatas : datas[d].type = j.type}
    /\ j.op = "addType" => /\ types[j.type].state = "new"
                           /\ \A q \in Pending(r, "addType") : task[q].type # j.type
Begins(r, j) == BeginTask(r, j) /\ Considered(r, j)

\* The commits by what they change.
CommitsPut(r)      == CommitTask(r) /\ task[r].op \in Puts
CommitsDrop(r)     == CommitTask(r) /\ task[r].op = "dropData"
CommitsDropType(r) == CommitTask(r) /\ task[r].op = "dropType"
CommitsType(r)     == CommitTask(r) /\ task[r].op \in {"addType", "recode"}


\* The fields of a change, by what it is.
LEMMA TaskFields ==
    ASSUME NEW j \in Task
    PROVE  /\ j.op \in {"addType", "recode", "dropType", "addData", "putData", "dropData"} /\ j # NoTask
           /\ j.op \in {"addType", "recode", "dropType"} \cup Puts => j.type \in DictType
           /\ j.op \in {"addType", "recode"} \cup Puts => j.code \in Code
           /\ j.op \in Puts => j.label \in Label
           /\ j.op \in Puts \cup {"dropData"} => j.data \in DictData
           /\ j.op = "dropType" => j.rows \subseteq DictData
BY DEF Task, NoTask, Puts

\* What a request is about to change is one of the changes there are.
LEMMA TaskKnown ==
    ASSUME DictRowsOK, NEW r \in DictRequest, task[r].op # "none"
    PROVE  task[r] \in Task
BY DEF DictRowsOK, NoTask

\* The fields of live rows.
LEMMA RowFields ==
    ASSUME DictRowsOK
    PROVE  /\ \A t \in DictType : types[t].state \in {"new", "gone", "live"}
           /\ \A t \in LiveTypes : types[t].code \in Code
           /\ \A d \in LiveDatas : datas[d].type \in DictType /\ datas[d].code \in Code /\ datas[d].label \in Label
<1>1. \A t \in DictType : types[t] \in TypeRow
  BY DEF DictRowsOK
<1>2. \A d \in DictData : datas[d] \in DataRow
  BY DEF DictRowsOK
<1>3. \A x \in TypeRow : x.state \in {"new", "gone", "live"} /\ (x.state = "live" => x.code \in Code)
  BY DEF TypeRow, Absent
<1>4. \A x \in DataRow : x.state = "live" => x.type \in DictType /\ x.code \in Code /\ x.label \in Label
  BY DEF DataRow, Absent
<1>5. QED
  BY <1>1, <1>2, <1>3, <1>4 DEF LiveTypes, LiveDatas

\* The list of a code depends on the rows that have the code.
LEMMA SameList ==
    ASSUME NEW c, \A d \in DictData : (d \in LiveDatas /\ datas[d].code = c)
                                           <=> (d \in LiveDatas' /\ datas'[d].code = c)
    PROVE  List(c)' = List(c)
BY DEF List, LiveDatas

\* A list that has rows is a list that may be stored.
LEMMA ListFields ==
    ASSUME NEW c \in Code
    PROVE  /\ NoList \in CodeList /\ ~NoList.known
           /\ List(c).known /\ (List(c).rows # {} => List(c) \in CodeList)
BY DEF NoList, List, CodeList, LiveDatas

\* FetchList (DictDataService.get_by_type_code) keeps the invariant.
LEMMA FetchListStep ==
    ASSUME DictIInv, NEW c \in Code, FetchList(c)
    PROVE  DictIInv'
<1> USE DEF DictIInv
<1>a. /\ fetched' \in [Code -> CodeList] /\ fetched'[c] = List(c)
      /\ \A x \in Code : x # c => fetched'[x] = fetched[x]
      /\ doubtful' = IF Running(DataOps) = {} THEN doubtful ELSE doubtful \cup {c}
      /\ \A x \in Code : List(x)' = List(x)
      /\ UNCHANGED <<types, datas, task, lists, tasks, parted, recoded>>
  <2>1. List(c) \in CodeList /\ fetched' = [fetched EXCEPT ![c] = List(c)] /\ fetched \in [Code -> CodeList]
    BY ListFields DEF FetchList, ListsOK
  <2>2. QED
    BY <2>1 DEF FetchList, List, LiveDatas
<1>1. DictRowsOK'
  BY <1>a, ListFields, DictionaryAssumption DEF Running, DictRowsOK,
    TasksKnow, NoTask, Puts, LiveTypes
<1>2. ListsOK'
  BY <1>a DEF ListsOK
<1>3. ListsTrue'
  BY <1>a, ListFields, DictionaryAssumption DEF Running, ListsTrue, DataOps
<1>4. DictUnique' /\ TasksKnow' /\ AddedOnce' /\ PartedKnown' /\ PartedMeet' /\ DropTakes' /\ DataOfLiveType' /\ CodeOfType'
  <2>1. UNCHANGED <<types, datas, task, parted, recoded>>
    BY <1>a
  <2>2. QED
    BY <2>1 DEF DictUnique, TasksKnow, AddedOnce, PartedKnown, PartedMeet,
      DropTakes, DataOfLiveType, CodeOfType, LiveTypes, LiveDatas, Puts
<1> QED
  BY <1>1, <1>2, <1>3, <1>4

\* StoreList (cached) keeps the invariant.
LEMMA StoreListStep ==
    ASSUME DictIInv, NEW c \in Code, StoreList(c)
    PROVE  DictIInv'
<1> USE DEF DictIInv
<1>a. /\ fetched[c].known
      /\ lists' \in [Code -> CodeList] /\ lists'[c] = fetched[c]
      /\ \A x \in Code : x # c => lists'[x] = lists[x]
      /\ fetched' \in [Code -> CodeList] /\ fetched'[c] = NoList
      /\ \A x \in Code : x # c => fetched'[x] = fetched[x]
      /\ \A x \in Code : List(x)' = List(x)
      /\ UNCHANGED <<types, datas, task, tasks, parted, recoded, doubtful>>
  <2>1. NoList \in CodeList /\ lists \in [Code -> CodeList] /\ fetched \in [Code -> CodeList]
    BY ListFields DEF ListsOK
  <2>2. QED
    BY <2>1 DEF StoreList, List, LiveDatas
<1>1. ListsOK'
  BY <1>a DEF ListsOK
<1>2. ListsTrue'
  BY <1>a, ListFields, DictionaryAssumption DEF ListsTrue, DataOps
<1>3. DictRowsOK' /\ DictUnique' /\ TasksKnow' /\ AddedOnce' /\ PartedKnown' /\ PartedMeet' /\ DropTakes' /\ DataOfLiveType' /\ CodeOfType'
  <2>1. UNCHANGED <<types, datas, task, tasks, parted, recoded, doubtful>>
    BY <1>a
  <2>2. QED
    BY <2>1 DEF DictRowsOK, DictUnique, TasksKnow, AddedOnce, PartedKnown,
      PartedMeet, DropTakes, DataOfLiveType, CodeOfType, NoTask, LiveTypes,
      LiveDatas, Puts
<1> QED
  BY <1>1, <1>2, <1>3

\* ListExpires (cached) keeps the invariant.
LEMMA ListExpiresStep ==
    ASSUME DictIInv, NEW c \in Code, ListExpires(c)
    PROVE  DictIInv'
<1> USE DEF DictIInv
<1>a. /\ lists' \in [Code -> CodeList] /\ lists'[c] = NoList
      /\ \A x \in Code : x # c => lists'[x] = lists[x]
      /\ \A x \in Code : List(x)' = List(x)
      /\ UNCHANGED <<types, datas, task, fetched, tasks, parted, recoded, doubtful>>
  <2>1. NoList \in CodeList /\ lists \in [Code -> CodeList]
    BY ListFields DEF ListsOK
  <2>2. QED
    BY <2>1 DEF ListExpires, List, LiveDatas
<1>1. ListsOK'
  BY <1>a DEF ListsOK
<1>2. ListsTrue'
  BY <1>a, ListFields, DictionaryAssumption DEF ListsTrue, DataOps
<1>3. DictRowsOK' /\ DictUnique' /\ TasksKnow' /\ AddedOnce' /\ PartedKnown' /\ PartedMeet' /\ DropTakes' /\ DataOfLiveType' /\ CodeOfType'
  <2>1. UNCHANGED <<types, datas, task, tasks, parted, recoded, doubtful>>
    BY <1>a
  <2>2. QED
    BY <2>1 DEF DictRowsOK, DictUnique, TasksKnow, AddedOnce, PartedKnown,
      PartedMeet, DropTakes, DataOfLiveType, CodeOfType, NoTask, LiveTypes,
      LiveDatas, Puts
<1> QED
  BY <1>1, <1>2, <1>3

\* A change of types or data is checked and begun (create, update, delete of
\* both services).
LEMMA BeginsStep ==
    ASSUME DictIInv, NEW r \in DictRequest, NEW j \in Task, Begins(r, j)
    PROVE  DictIInv'
<1> USE DEF DictIInv
<1>a. /\ task[r] = NoTask /\ task' \in [DictRequest -> Task \cup {NoTask}] /\ task'[r] = j
      /\ \A q \in DictRequest : q # r => task'[q] = task[q]
      /\ Considered(r, j) /\ tasks < MaxTasks /\ tasks' = tasks + 1
      /\ lists' = IF j.op \in DataOps THEN [x \in Code |-> NoList] ELSE lists
      /\ doubtful' = IF j.op \in DataOps THEN doubtful \cup {x \in Code : fetched[x].known} ELSE doubtful
      /\ parted \subseteq parted' /\ parted' \subseteq parted \cup Referring(j) \cup Dropping(j)
      /\ \A q \in DictRequest : /\ Referring(j) \cap Dropping(task[q]) \subseteq parted'
                                /\ Dropping(j) \cap Referring(task[q]) \subseteq parted'
      /\ UNCHANGED <<types, datas, fetched, recoded>>
  <2>1. /\ task[r] = NoTask /\ task' = [task EXCEPT ![r] = j] /\ task \in [DictRequest -> Task \cup {NoTask}]
        /\ Considered(r, j) /\ tasks < MaxTasks /\ tasks' = tasks + 1
        /\ UNCHANGED <<types, datas, fetched, recoded>>
    BY DEF Begins, BeginTask, DictRowsOK
  <2>2. lists' = IF j.op \in DataOps THEN [x \in Code |-> NoList] ELSE lists
    BY DEF Begins, BeginTask, Invalidated
  <2>3. doubtful' = IF j.op \in DataOps THEN doubtful \cup {x \in Code : fetched[x].known} ELSE doubtful
    BY DEF Begins, BeginTask
  <2>4. parted' = parted \cup UNION {(Referring(j) \cap Dropping(task[q])) \cup (Dropping(j) \cap Referring(task[q])) :
                                     q \in DictRequest}
    BY DEF Begins, BeginTask
  <2>5. QED
    BY <2>1, <2>2, <2>3, <2>4
<1>1. DictRowsOK'
  <2>1. tasks' \in 0..MaxTasks
    BY <1>a, DictionaryAssumption DEF DictRowsOK
  <2>2. parted' \subseteq DictType
    BY <1>a DEF DictRowsOK, Considered, Referring, Dropping, LiveTypes, Puts
  <2>3. doubtful' \subseteq Code
    BY <1>a DEF DictRowsOK
  <2>4. QED
    BY <1>a, <2>1, <2>2, <2>3 DEF DictRowsOK
<1>2. ListsOK'
  <2>1. NoList \in CodeList
    BY DEF NoList, CodeList
  <2>2. QED
    BY <1>a, <2>1 DEF ListsOK
<1>3. TasksKnow'
  <2>1. LiveTypes' = LiveTypes /\ \A t \in LiveTypes : types[t].state = "live"
    BY <1>a DEF LiveTypes
  <2>2. SUFFICES ASSUME NEW q \in DictRequest
                 PROVE  /\ task'[q].op \in Puts =>
                               /\ task'[q].type \in LiveTypes \cup parted'
                               /\ task'[q].type \in LiveTypes \ recoded => task'[q].code = types[task'[q].type].code
                        /\ task'[q].op \in {"recode", "dropType"} => types[task'[q].type].state # "new"
                        /\ task'[q].op = "addType" => types[task'[q].type].state = "new"
    BY <1>a, <2>1 DEF TasksKnow
  <2>3. CASE q = r
    BY <1>a, <2>1, <2>3 DEF Considered
  <2>4. CASE q # r
    BY <1>a, <2>4 DEF TasksKnow
  <2>5. QED
    BY <2>3, <2>4
<1>4. AddedOnce'
  <2>1. \A q \in DictRequest : q # r /\ task[q].op = "addType" /\ j.op = "addType" => task[q].type # j.type
    BY <1>a DEF Considered, Pending, Running
  <2>2. QED
    BY <1>a, <2>1 DEF AddedOnce
<1>5. PartedKnown'
  <2>1. \A t \in Referring(j) \cup Dropping(j) : types[t].state = "live"
    BY <1>a DEF Considered, Referring, Dropping, LiveTypes, Puts
  <2>2. QED
    BY <1>a, <2>1 DEF PartedKnown
<1>6. PartedMeet'
  <2>1. SUFFICES ASSUME NEW o \in DictRequest, NEW q \in DictRequest, task'[o].op \in Puts,
                        task'[q].op = "dropType", task'[o].type = task'[q].type
                 PROVE  task'[o].type \in parted'
    BY DEF PartedMeet
  <2>2. o # q
    BY <2>1 DEF Puts
  <2>3. CASE o = r
    <3>1. task'[o] = j /\ task'[q] = task[q]
      BY <1>a, <2>2, <2>3
    <3>2. j.type \in Referring(j) \cap Dropping(task[q])
      BY <2>1, <3>1 DEF Referring, Dropping, Puts
    <3>3. QED
      BY <1>a, <3>1, <3>2
  <2>4. CASE q = r
    <3>1. task'[o] = task[o] /\ task'[q] = j
      BY <1>a, <2>2, <2>4
    <3>2. j.type \in Dropping(j) \cap Referring(task[o])
      BY <2>1, <3>1 DEF Referring, Dropping, Puts
    <3>3. QED
      BY <1>a, <2>1, <3>1, <3>2
  <2>5. CASE o # r /\ q # r
    BY <1>a, <2>1, <2>5 DEF PartedMeet
  <2>6. QED
    BY <2>3, <2>4, <2>5
<1>7. DropTakes'
  <2>1. LiveDatas' = LiveDatas /\ LiveTypes' = LiveTypes
    BY <1>a DEF LiveDatas, LiveTypes
  <2>2. SUFFICES ASSUME NEW q \in DictRequest, NEW d \in LiveDatas, task'[q].op = "dropType",
                        task'[q].type \notin parted', datas[d].type = task'[q].type
                 PROVE  d \in task'[q].rows
    BY <1>a, <2>1 DEF DropTakes
  <2>3. CASE q = r
    BY <1>a, <2>2, <2>3 DEF Considered
  <2>4. CASE q # r
    BY <1>a, <2>2, <2>4 DEF DropTakes
  <2>5. QED
    BY <2>3, <2>4
<1>8. DataOfLiveType'
  BY <1>a, DictionaryAssumption DEF DataOfLiveType, TasksKnow, DropTakes,
    LiveTypes, LiveDatas, Puts
<1>9. ListsTrue'
  <2>1. ~NoList.known /\ \A x \in Code : List(x)' = List(x)
    BY <1>a DEF NoList, List, LiveDatas
  <2>2. SUFFICES ASSUME NEW x \in Code, x \notin doubtful', NEW l \in {lists'[x], fetched[x]}, l.known
                 PROVE  l = List(x) /\ \A q \in DictRequest : task'[q].op \notin DataOps
    BY <1>a, <2>1 DEF ListsTrue
  <2>3. j.op \notin DataOps
    BY <1>a, <2>1, <2>2
  <2>4. l \in {lists[x], fetched[x]} /\ x \notin doubtful
    BY <1>a, <2>2, <2>3
  <2>5. l = List(x) /\ \A q \in DictRequest : task[q].op \notin DataOps
    BY <2>2, <2>4 DEF ListsTrue
  <2>6. QED
    BY <1>a, <2>3, <2>5
<1>10. DictUnique' /\ CodeOfType'
  <2>1. UNCHANGED <<types, datas, recoded>>
    BY <1>a
  <2>2. QED
    BY <2>1 DEF DictUnique, CodeOfType, LiveTypes, LiveDatas
<1> QED
  BY <1>1, <1>2, <1>3, <1>4, <1>5, <1>6, <1>7, <1>8, <1>9, <1>10

\* The commit of data that was put into a type.
LEMMA CommitsPutStep ==
    ASSUME DictIInv, NEW r \in DictRequest, CommitsPut(r)
    PROVE  DictIInv'
<1> USE DEF DictIInv
<1>a. /\ task' \in [DictRequest -> Task \cup {NoTask}] /\ task'[r].op = "none"
      /\ \A q \in DictRequest : q # r => task'[q] = task[q]
      /\ task[r] \in Task /\ task[r].op \in Puts
      /\ datas' \in [DictData -> DataRow]
      /\ \/ UNCHANGED datas
         \/ /\ LabelFree(task[r].label, task[r].code, {task[r].data}) /\ datas'[task[r].data].state = "live"
            /\ datas'[task[r].data].type = task[r].type /\ datas'[task[r].data].code = task[r].code
            /\ datas'[task[r].data].label = task[r].label
            /\ \A d \in DictData : d # task[r].data => datas'[d] = datas[d]
      /\ UNCHANGED <<types, fetched, lists, tasks, parted, recoded, doubtful>>
  <2>1. /\ task' = [task EXCEPT ![r] = NoTask] /\ task \in [DictRequest -> Task \cup {NoTask}]
        /\ NoTask.op = "none" /\ UNCHANGED <<fetched, lists, tasks, parted>>
    BY DEF CommitsPut, CommitTask, DictRowsOK, NoTask
  <2>2. task[r] \in Task /\ task[r].op \in Puts
    BY TaskKnown DEF CommitsPut, Puts
  <2> DEFINE row == [state |-> "live", type |-> task[r].type, code |-> task[r].code, label |-> task[r].label]
  <2>3. /\ row \in DataRow /\ row.state = "live" /\ row.type = task[r].type /\ row.code = task[r].code
        /\ row.label = task[r].label
    BY <2>2, TaskFields DEF DataRow
  <2>4. types' = types
    BY <2>2 DEF CommitsPut, CommitTask, TypeCommits, Puts
  <2>5. UNCHANGED <<recoded, doubtful>>
    BY <2>2 DEF CommitsPut, CommitTask, Puts
  <2>6. datas' = datas \/ (KeepsUnique(task[r]) /\ datas' = [datas EXCEPT ![task[r].data] = row])
    BY <2>2 DEF CommitsPut, CommitTask, DataCommits, Puts
  <2> HIDE DEF row
  <2>7. task[r].data \in DictData /\ datas \in [DictData -> DataRow]
    BY <2>2, TaskFields DEF DictRowsOK
  <2>8. QED
    BY <2>1, <2>2, <2>3, <2>4, <2>5, <2>6, <2>7 DEF KeepsUnique
<1>1. DictRowsOK'
  BY <1>a, TaskFields, RowFields, DictionaryAssumption DEF LabelFree,
    DictRowsOK, TasksKnow, LiveDatas, NoTask, Puts, LiveTypes
<1>2. DictUnique'
  BY <1>a, TaskFields, RowFields, DictionaryAssumption DEF LabelFree,
    DictUnique, LiveDatas, LiveTypes
<1>3. TasksKnow'
  BY <1>a, TaskFields, RowFields, DictionaryAssumption DEF LabelFree,
    TasksKnow, LiveTypes, PartedKnown, DictRowsOK, LiveDatas, Puts, NoTask
<1>4. AddedOnce'
  BY <1>a, TaskFields, RowFields, DictionaryAssumption DEF LabelFree,
    AddedOnce, LiveDatas
<1>5. PartedKnown'
  BY <1>a, TaskFields, RowFields, DictionaryAssumption DEF LabelFree,
    PartedKnown, TasksKnow, LiveDatas, Puts, LiveTypes
<1>6. PartedMeet'
  BY <1>a, TaskFields, RowFields, DictionaryAssumption DEF LabelFree,
    PartedMeet, LiveDatas, Puts
<1>7. DropTakes'
  BY <1>a, TaskFields, RowFields, DictionaryAssumption DEF LabelFree,
    DropTakes, PartedMeet, LiveDatas, Puts
<1>8. DataOfLiveType'
  BY <1>a, TaskFields, RowFields, DictionaryAssumption DEF LabelFree,
    DataOfLiveType, TasksKnow, DropTakes, LiveTypes, LiveDatas, Puts
<1>9. CodeOfType'
  BY <1>a, TaskFields, RowFields, DictionaryAssumption DEF LabelFree,
    CodeOfType, TasksKnow, DataOfLiveType, PartedKnown, LiveDatas, LiveTypes,
    Puts
<1>10. ListsTrue'
  <2>1. task[r].op \in DataOps
    BY <1>a DEF Puts, DataOps
  <2>2. \A x \in Code \ doubtful : ~lists[x].known /\ ~fetched[x].known
    BY <2>1 DEF ListsTrue
  <2>3. QED
    BY <1>a, <2>2 DEF ListsTrue
<1>11. ListsOK'
  <2>1. UNCHANGED <<fetched, lists>>
    BY <1>a
  <2>2. QED
    BY <2>1 DEF ListsOK
<1> QED
  BY <1>1, <1>2, <1>3, <1>4, <1>5, <1>6, <1>7, <1>8, <1>9, <1>10, <1>11

\* The commit of a deletion of data.
LEMMA CommitsDropStep ==
    ASSUME DictIInv, NEW r \in DictRequest, CommitsDrop(r)
    PROVE  DictIInv'
<1> USE DEF DictIInv
<1>a. /\ task' \in [DictRequest -> Task \cup {NoTask}] /\ task'[r].op = "none"
      /\ \A q \in DictRequest : q # r => task'[q] = task[q]
      /\ task[r] \in Task /\ task[r].op = "dropData"
      /\ datas' \in [DictData -> DataRow] /\ datas'[task[r].data].state = "gone"
      /\ \A d \in DictData : d # task[r].data => datas'[d] = datas[d]
      /\ UNCHANGED <<types, fetched, lists, tasks, parted, recoded, doubtful>>
  <2>1. /\ task' = [task EXCEPT ![r] = NoTask] /\ task \in [DictRequest -> Task \cup {NoTask}]
        /\ NoTask.op = "none" /\ UNCHANGED <<fetched, lists, tasks, parted>>
    BY DEF CommitsDrop, CommitTask, DictRowsOK, NoTask
  <2>2. task[r] \in Task /\ task[r].op = "dropData"
    BY TaskKnown DEF CommitsDrop, Puts
  <2>3. types' = types
    BY <2>2 DEF CommitsDrop, CommitTask, TypeCommits
  <2>4. UNCHANGED <<recoded, doubtful>>
    BY <2>2 DEF CommitsDrop, CommitTask
  <2>5. datas' = [datas EXCEPT ![task[r].data] = Gone]
    BY <2>2 DEF CommitsDrop, CommitTask, DataCommits
  <2>6. Gone \in DataRow /\ Gone.state = "gone"
    BY DEF Gone, DataRow, Absent
  <2>7. task[r].data \in DictData /\ datas \in [DictData -> DataRow]
    BY <2>2, TaskFields DEF DictRowsOK
  <2>8. QED
    BY <2>1, <2>2, <2>3, <2>4, <2>5, <2>6, <2>7
<1>1. DictRowsOK'
  BY <1>a, TaskFields, RowFields, DictionaryAssumption DEF DictRowsOK,
    TasksKnow, NoTask, Puts, LiveTypes
<1>2. DictUnique'
  BY <1>a, TaskFields, RowFields, DictionaryAssumption DEF DictUnique,
    LiveTypes, LiveDatas
<1>3. TasksKnow'
  BY <1>a, TaskFields, RowFields, DictionaryAssumption DEF TasksKnow,
    LiveTypes, PartedKnown, DictRowsOK, Puts, NoTask
<1>4. AddedOnce'
  BY <1>a, TaskFields, RowFields, DictionaryAssumption DEF AddedOnce
<1>5. PartedKnown'
  BY <1>a, TaskFields, RowFields, DictionaryAssumption DEF PartedKnown,
    TasksKnow, Puts, LiveTypes
<1>6. PartedMeet'
  BY <1>a, TaskFields, RowFields, DictionaryAssumption DEF PartedMeet, Puts
<1>7. DropTakes'
  BY <1>a, TaskFields, RowFields, DictionaryAssumption DEF DropTakes,
    PartedMeet, LiveDatas, Puts
<1>8. DataOfLiveType'
  BY <1>a, TaskFields, RowFields, DictionaryAssumption DEF DataOfLiveType,
    TasksKnow, DropTakes, LiveTypes, LiveDatas, Puts
<1>9. CodeOfType'
  BY <1>a, TaskFields, RowFields, DictionaryAssumption DEF CodeOfType,
    TasksKnow, DataOfLiveType, PartedKnown, LiveDatas, LiveTypes, Puts
<1>10. ListsTrue'
  BY <1>a, TaskFields, RowFields, DictionaryAssumption, ZenonT(60) DEF ListsTrue, List,
    DataOps, LiveDatas
<1>11. ListsOK'
  <2>1. UNCHANGED <<fetched, lists>>
    BY <1>a
  <2>2. QED
    BY <2>1 DEF ListsOK
<1> QED
  BY <1>1, <1>2, <1>3, <1>4, <1>5, <1>6, <1>7, <1>8, <1>9, <1>10, <1>11

\* The commit of a deletion of a type with its rows.
LEMMA CommitsDropTypeStep ==
    ASSUME DictIInv, NEW r \in DictRequest, CommitsDropType(r)
    PROVE  DictIInv'
<1> USE DEF DictIInv
<1>a. /\ task' \in [DictRequest -> Task \cup {NoTask}] /\ task'[r].op = "none"
      /\ \A q \in DictRequest : q # r => task'[q] = task[q]
      /\ task[r] \in Task /\ task[r].op = "dropType"
      /\ types' \in [DictType -> TypeRow] /\ types'[task[r].type].state = "gone"
      /\ \A t \in DictType : t # task[r].type => types'[t] = types[t]
      /\ datas' \in [DictData -> DataRow]
      /\ \A d \in DictData : IF d \in task[r].rows THEN datas'[d].state = "gone" ELSE datas'[d] = datas[d]
      /\ doubtful' = doubtful \cup {datas[d].code : d \in task[r].rows \cap LiveDatas}
      /\ UNCHANGED <<fetched, lists, tasks, parted, recoded>>
  <2>1. /\ task' = [task EXCEPT ![r] = NoTask] /\ task \in [DictRequest -> Task \cup {NoTask}]
        /\ NoTask.op = "none" /\ UNCHANGED <<fetched, lists, tasks, parted>>
    BY DEF CommitsDropType, CommitTask, DictRowsOK, NoTask
  <2>2. task[r] \in Task /\ task[r].op = "dropType"
    BY TaskKnown DEF CommitsDropType, Puts
  <2>3. types' = [types EXCEPT ![task[r].type] = Gone]
    BY <2>2 DEF CommitsDropType, CommitTask, TypeCommits
  <2>4. UNCHANGED recoded /\ doubtful' = doubtful \cup {datas[d].code : d \in task[r].rows \cap LiveDatas}
    BY <2>2 DEF CommitsDropType, CommitTask
  <2>5. datas' = [d \in DictData |-> IF d \in task[r].rows THEN Gone ELSE datas[d]]
    BY <2>2 DEF CommitsDropType, CommitTask, DataCommits
  <2>6. Gone \in DataRow /\ Gone \in TypeRow /\ Gone.state = "gone"
    BY DEF Gone, DataRow, TypeRow, Absent
  <2>7. task[r].type \in DictType /\ types \in [DictType -> TypeRow] /\ datas \in [DictData -> DataRow]
    BY <2>2, TaskFields DEF DictRowsOK
  <2>8. QED
    BY <2>1, <2>2, <2>3, <2>4, <2>5, <2>6, <2>7
<1>1. DictRowsOK'
  BY <1>a, TaskFields, RowFields, DictionaryAssumption DEF DictRowsOK,
    TasksKnow, NoTask, Puts, LiveTypes
<1>2. DictUnique'
  BY <1>a, TaskFields, RowFields, DictionaryAssumption DEF DictUnique,
    LiveTypes, LiveDatas
<1>3. TasksKnow'
  <2>1. types[task[r].type].state # "new" /\ task[r].type \in DictType
    BY <1>a, TaskFields DEF TasksKnow
  <2>2. SUFFICES ASSUME NEW q \in DictRequest, q # r
                 PROVE  /\ task[q].op \in Puts =>
                               /\ task[q].type \in LiveTypes' \cup parted
                               /\ task[q].type \in LiveTypes' \ recoded => task[q].code = types'[task[q].type].code
                        /\ task[q].op \in {"recode", "dropType"} => types'[task[q].type].state # "new"
                        /\ task[q].op = "addType" => types'[task[q].type].state = "new"
    BY <1>a DEF TasksKnow, Puts
  <2>3. CASE task[q].op \in Puts
    <3>1. task[q].type \in DictType /\ task[q].type \in LiveTypes \cup parted
      BY <2>3, TaskKnown, TaskFields DEF TasksKnow, Puts
    <3>2. CASE task[q].type = task[r].type
      BY <1>a, <2>3, <3>2 DEF PartedMeet, LiveTypes, Puts
    <3>3. CASE task[q].type # task[r].type
      BY <1>a, <2>3, <3>1, <3>3 DEF TasksKnow, LiveTypes, Puts
    <3>4. QED
      BY <3>2, <3>3
  <2>4. CASE task[q].op \in {"recode", "dropType", "addType"}
    <3>1. task[q].type \in DictType
      BY <2>4, TaskKnown, TaskFields
    <3>2. QED
      BY <1>a, <2>1, <2>4, <3>1 DEF TasksKnow, Puts
  <2>5. QED
    BY <2>3, <2>4
<1>4. AddedOnce'
  BY <1>a, TaskFields, RowFields, DictionaryAssumption DEF AddedOnce
<1>5. PartedKnown'
  <2>1. \A t \in parted : t \in DictType /\ types[t].state # "new"
    BY DEF PartedKnown, DictRowsOK
  <2>2. QED
    BY <1>a, <2>1 DEF PartedKnown
<1>6. PartedMeet'
  BY <1>a, TaskFields, RowFields, DictionaryAssumption DEF PartedMeet, Puts
<1>7. DropTakes'
  BY <1>a, TaskFields, RowFields, DictionaryAssumption DEF DropTakes,
    PartedMeet, LiveDatas, Puts
<1>8. DataOfLiveType'
  BY <1>a, TaskFields, RowFields, DictionaryAssumption DEF DataOfLiveType,
    TasksKnow, DropTakes, LiveTypes, LiveDatas, Puts
<1>9. CodeOfType'
  BY <1>a, TaskFields, RowFields, DictionaryAssumption DEF CodeOfType,
    TasksKnow, DataOfLiveType, PartedKnown, LiveDatas, LiveTypes, Puts
<1>10. ListsTrue'
  <2>1. ASSUME NEW x \in Code, x \notin doubtful' PROVE x \notin doubtful /\ List(x)' = List(x)
    <3>1. \A d \in LiveDatas : d \in task[r].rows => datas[d].code # x
      BY <1>a, <2>1
    <3>2. \A d \in DictData : (d \in LiveDatas /\ datas[d].code = x) <=> (d \in LiveDatas' /\ datas'[d].code = x)
      BY <1>a, <3>1 DEF LiveDatas
    <3>3. QED
      BY <1>a, <2>1, <3>2, SameList
  <2>2. SUFFICES ASSUME NEW x \in Code, x \notin doubtful', NEW l \in {lists[x], fetched[x]}, l.known
                 PROVE  l = List(x) /\ \A q \in DictRequest : task'[q].op \notin DataOps
    BY <1>a, <2>1 DEF ListsTrue
  <2>3. l = List(x) /\ \A q \in DictRequest : task[q].op \notin DataOps
    BY <2>1, <2>2 DEF ListsTrue
  <2>4. "none" \notin DataOps
    BY DEF DataOps
  <2>5. QED
    BY <1>a, <2>3, <2>4
<1>11. ListsOK'
  <2>1. UNCHANGED <<fetched, lists>>
    BY <1>a
  <2>2. QED
    BY <2>1 DEF ListsOK
<1> QED
  BY <1>1, <1>2, <1>3, <1>4, <1>5, <1>6, <1>7, <1>8, <1>9, <1>10, <1>11

\* The commit of a type that was added or got another code.
LEMMA CommitsTypeStep ==
    ASSUME DictIInv, NEW r \in DictRequest, CommitsType(r)
    PROVE  DictIInv'
<1> USE DEF DictIInv
<1>a. /\ task' \in [DictRequest -> Task \cup {NoTask}] /\ task'[r].op = "none"
      /\ \A q \in DictRequest : q # r => task'[q] = task[q]
      /\ task[r] \in Task /\ task[r].op \in {"addType", "recode"}
      /\ recoded' = IF task[r].op = "recode" THEN recoded \cup {task[r].type} ELSE recoded
      /\ types' \in [DictType -> TypeRow]
      /\ \/ UNCHANGED types
         \/ /\ task[r].op = "recode" => task[r].type \in LiveTypes
            /\ \A u \in LiveTypes \ {task[r].type} : types[u].code # task[r].code
            /\ types'[task[r].type].state = "live" /\ types'[task[r].type].code = task[r].code
            /\ \A t \in DictType : t # task[r].type => types'[t] = types[t]
      /\ UNCHANGED <<datas, fetched, lists, tasks, parted, doubtful>>
  <2>1. /\ task' = [task EXCEPT ![r] = NoTask] /\ task \in [DictRequest -> Task \cup {NoTask}]
        /\ NoTask.op = "none" /\ UNCHANGED <<fetched, lists, tasks, parted>>
    BY DEF CommitsType, CommitTask, DictRowsOK, NoTask
  <2>2. task[r] \in Task /\ task[r].op \in {"addType", "recode"}
    BY TaskKnown DEF CommitsType, Puts
  <2> DEFINE row == [state |-> "live", code |-> task[r].code]
  <2>3. row \in TypeRow /\ row.state = "live" /\ row.code = task[r].code
    BY <2>2, TaskFields DEF TypeRow
  <2>4. /\ recoded' = IF task[r].op = "recode" THEN recoded \cup {task[r].type} ELSE recoded
        /\ UNCHANGED doubtful
    BY <2>2 DEF CommitsType, CommitTask
  <2>5. datas' = datas
    BY <2>2 DEF CommitsType, CommitTask, DataCommits
  <2>6. \/ types' = types
        \/ /\ task[r].op = "recode" => task[r].type \in LiveTypes
           /\ \A u \in LiveTypes \ {task[r].type} : types[u].code # task[r].code
           /\ types' = [types EXCEPT ![task[r].type] = row]
    BY <2>2 DEF CommitsType, CommitTask, TypeCommits
  <2> HIDE DEF row
  <2>7. task[r].type \in DictType /\ types \in [DictType -> TypeRow]
    BY <2>2, TaskFields DEF DictRowsOK
  <2>8. QED
    BY <2>1, <2>2, <2>3, <2>4, <2>5, <2>6, <2>7
<1>1. DictRowsOK'
  BY <1>a, TaskFields, RowFields, DictionaryAssumption DEF DictRowsOK,
    TasksKnow, NoTask, Puts, LiveTypes
<1>2. DictUnique'
  BY <1>a, TaskFields, RowFields, DictionaryAssumption DEF DictUnique,
    LiveTypes, LiveDatas
<1>3. TasksKnow'
  <2> DEFINE u == task[r].type
  <2>1. u \in DictType /\ LiveTypes \subseteq LiveTypes'
    BY <1>a, TaskFields DEF LiveTypes
  <2>2. SUFFICES ASSUME NEW q \in DictRequest, q # r
                 PROVE  /\ task[q].op \in Puts =>
                               /\ task[q].type \in LiveTypes' \cup parted
                               /\ task[q].type \in LiveTypes' \ recoded' => task[q].code = types'[task[q].type].code
                        /\ task[q].op \in {"recode", "dropType"} => types'[task[q].type].state # "new"
                        /\ task[q].op = "addType" => types'[task[q].type].state = "new"
    BY <1>a DEF TasksKnow, Puts
  <2>3. task[q].op \in Puts \cup {"recode", "dropType", "addType"} => task[q].type \in DictType
    BY TaskKnown, TaskFields DEF Puts
  <2>4. types' = types \/ (types'[u].state = "live" /\ \A t \in DictType : t # u => types'[t] = types[t])
    BY <1>a
  <2>5. CASE types' = types
    BY <1>a, <2>1, <2>5 DEF TasksKnow, LiveTypes
  <2>6. CASE task[q].type # u /\ types' # types
    BY <1>a, <2>1, <2>3, <2>4, <2>6 DEF TasksKnow, LiveTypes, Puts
  <2>7. CASE task[q].type = u /\ types' # types
    <3>1. CASE task[r].op = "addType"
      <4>1. types[u].state = "new"
        BY <3>1 DEF TasksKnow
      <4>2. task[q].op \notin Puts \cup {"recode", "dropType", "addType"}
        BY <2>2, <2>7, <3>1, <4>1 DEF TasksKnow, AddedOnce, PartedKnown, LiveTypes
      <4>3. QED
        BY <4>2
    <3>2. CASE task[r].op = "recode"
      <4>1. u \in LiveTypes /\ types[u].state = "live" /\ u \in recoded' /\ types'[u].state = "live"
        BY <1>a, <2>4, <2>7, <3>2 DEF LiveTypes
      <4>2. QED
        BY <2>1, <2>7, <4>1 DEF TasksKnow
    <3>3. QED
      BY <1>a, <3>1, <3>2
  <2>8. QED
    BY <2>5, <2>6, <2>7
<1>4. AddedOnce'
  BY <1>a, TaskFields, RowFields, DictionaryAssumption DEF AddedOnce
<1>5. PartedKnown'
  <2>1. \A t \in parted : t \in DictType /\ types[t].state # "new"
    BY DEF PartedKnown, DictRowsOK
  <2>2. QED
    BY <1>a, <2>1 DEF PartedKnown
<1>6. PartedMeet'
  BY <1>a, TaskFields, RowFields, DictionaryAssumption DEF PartedMeet, Puts
<1>7. DropTakes'
  BY <1>a, TaskFields, RowFields, DictionaryAssumption DEF DropTakes,
    PartedMeet, LiveDatas, Puts
<1>8. DataOfLiveType'
  BY <1>a, TaskFields, RowFields, DictionaryAssumption DEF DataOfLiveType,
    TasksKnow, DropTakes, LiveTypes, LiveDatas, Puts
<1>9. CodeOfType'
  BY <1>a, TaskFields, RowFields, DictionaryAssumption DEF CodeOfType,
    TasksKnow, DataOfLiveType, PartedKnown, LiveDatas, LiveTypes, Puts
<1>10. ListsTrue'
  <2>1. \A x \in Code : List(x)' = List(x)
    BY <1>a DEF List, LiveDatas
  <2>2. SUFFICES ASSUME NEW x \in Code, x \notin doubtful, NEW l \in {lists[x], fetched[x]}, l.known
                 PROVE  l = List(x) /\ \A q \in DictRequest : task'[q].op \notin DataOps
    BY <1>a, <2>1 DEF ListsTrue
  <2>3. l = List(x) /\ \A q \in DictRequest : task[q].op \notin DataOps
    BY <2>2 DEF ListsTrue
  <2>4. "none" \notin DataOps
    BY DEF DataOps
  <2>5. QED
    BY <1>a, <2>3, <2>4
<1>11. ListsOK'
  <2>1. UNCHANGED <<fetched, lists>>
    BY <1>a
  <2>2. QED
    BY <2>1 DEF ListsOK
<1> QED
  BY <1>1, <1>2, <1>3, <1>4, <1>5, <1>6, <1>7, <1>8, <1>9, <1>10, <1>11

\* TaskFails (get_db_transaction) keeps the invariant.
LEMMA TaskFailsStep ==
    ASSUME DictIInv, NEW r \in DictRequest, TaskFails(r)
    PROVE  DictIInv'
<1> USE DEF DictIInv
<1>a. /\ task' \in [DictRequest -> Task \cup {NoTask}] /\ task'[r].op = "none"
      /\ \A q \in DictRequest : q # r => task'[q] = task[q]
      /\ UNCHANGED <<types, datas, fetched, lists, tasks, parted, recoded, doubtful>>
  <2>1. QED
    BY DEF TaskFails, DictRowsOK, NoTask
<1>1. DictRowsOK'
  BY <1>a, DictionaryAssumption DEF DictRowsOK, TasksKnow, NoTask, Puts,
    LiveTypes
<1>2. TasksKnow'
  BY <1>a, DictionaryAssumption DEF TasksKnow, LiveTypes, PartedKnown,
    DictRowsOK, Puts, NoTask
<1>3. AddedOnce'
  BY <1>a, DictionaryAssumption DEF AddedOnce
<1>4. PartedMeet'
  BY <1>a, DictionaryAssumption DEF PartedMeet, Puts
<1>5. DropTakes'
  BY <1>a, DictionaryAssumption DEF DropTakes, PartedMeet, LiveDatas, Puts
<1>6. ListsTrue'
  <2>1. \A x \in Code : List(x)' = List(x)
    BY <1>a DEF List, LiveDatas
  <2>2. SUFFICES ASSUME NEW x \in Code, x \notin doubtful, NEW l \in {lists[x], fetched[x]}, l.known
                 PROVE  l = List(x) /\ \A q \in DictRequest : task'[q].op \notin DataOps
    BY <1>a, <2>1 DEF ListsTrue
  <2>3. l = List(x) /\ \A q \in DictRequest : task[q].op \notin DataOps
    BY <2>2 DEF ListsTrue
  <2>4. "none" \notin DataOps
    BY DEF DataOps
  <2>5. QED
    BY <1>a, <2>3, <2>4
<1>7. DictUnique' /\ ListsOK' /\ PartedKnown' /\ DataOfLiveType' /\ CodeOfType'
  <2>1. UNCHANGED <<types, datas, fetched, lists, parted, recoded>>
    BY <1>a
  <2>2. QED
    BY <2>1 DEF DictUnique, ListsOK, PartedKnown, DataOfLiveType, CodeOfType,
      LiveTypes, LiveDatas
<1> QED
  BY <1>1, <1>2, <1>3, <1>4, <1>5, <1>6, <1>7

\* The initial state satisfies the invariant.
LEMMA DictIInvInit ==
    ASSUME DictInit
    PROVE  DictIInv
<1>1. \A r \in DictRequest : task[r] = NoTask /\ task[r].op = "none"
  BY DEF DictInit, NoTask
<1>2. NoList \in CodeList /\ ~NoList.known
  BY DEF NoList, CodeList
<1>3. LiveDatas = {} /\ LiveTypes \subseteq DOMAIN StartCode /\ \A t \in LiveTypes : types[t].code = StartCode[t]
  BY DEF DictInit, LiveDatas, LiveTypes
<1>4. types \in [DictType -> TypeRow] /\ datas \in [DictData -> DataRow]
  BY DictionaryAssumption DEF DictInit, TypeRow, DataRow, Absent
<1>5. DictRowsOK
  BY <1>1, <1>4, DictionaryAssumption DEF DictInit, DictRowsOK
<1>6. DictUnique
  BY <1>3, DictionaryAssumption DEF DictUnique
<1>7. ListsOK /\ ListsTrue
  BY <1>2 DEF DictInit, ListsOK, ListsTrue
<1>8. TasksKnow /\ AddedOnce /\ PartedKnown /\ PartedMeet /\ DropTakes
  BY <1>1 DEF DictInit, TasksKnow, AddedOnce, PartedKnown, PartedMeet, DropTakes, Puts
<1>9. DataOfLiveType /\ CodeOfType
  BY <1>3 DEF DataOfLiveType, CodeOfType
<1>10. QED
  BY <1>5, <1>6, <1>7, <1>8, <1>9 DEF DictIInv

\* Each request begins a change it has considered.
LEMMA TypeBegins ==
    ASSUME DictIInv, NEW r \in DictRequest, NEW t \in DictType, NEW c \in Code,
           CreateType(r, t, c) \/ UpdateType(r, t, c)
    PROVE  \E j \in Task : Begins(r, j)
<1>1. LiveTypes \subseteq DictType /\ LiveDatas \subseteq DictData /\ \A u \in LiveTypes : types[u].code \in Code
  BY RowFields DEF DictIInv, LiveTypes, LiveDatas
<1>2. CASE CreateType(r, t, c)
  <2> DEFINE j == [op |-> "addType", type |-> t, code |-> c]
  <2>1. j \in Task /\ Considered(r, j)
    BY <1>1, <1>2 DEF Task, Considered, CreateType, Puts
  <2>2. QED
    BY <1>2, <2>1 DEF CreateType, Begins
<1>3. CASE UpdateType(r, t, c)
  <2> DEFINE j == [op |-> "recode", type |-> t, code |-> c]
  <2>1. j \in Task /\ Considered(r, j)
    BY <1>1, <1>3 DEF Task, Considered, UpdateType, Puts
  <2>2. QED
    BY <1>3, <2>1 DEF UpdateType, Begins
<1>4. QED
  BY <1>2, <1>3

\* Deleting a type begins one of the changes.
LEMMA DropBegins ==
    ASSUME DictIInv, NEW r \in DictRequest, NEW t \in DictType,
           DeleteType(r, t)
    PROVE  \E j \in Task : Begins(r, j)
<1>1. LiveTypes \subseteq DictType /\ LiveDatas \subseteq DictData /\ \A u \in LiveTypes : types[u].code \in Code
  BY RowFields DEF DictIInv, LiveTypes, LiveDatas
<1>2. CASE DeleteType(r, t)
  <2> DEFINE j == [op |-> "dropType", type |-> t, rows |-> {e \in LiveDatas : datas[e].type = t}]
  <2>1. j \in Task /\ Considered(r, j)
    BY <1>1, <1>2 DEF Task, Considered, DeleteType, Puts
  <2>2. QED
    BY <1>2, <2>1 DEF DeleteType, Begins
<1>3. QED
  BY <1>2

\* So does putting data into a type.
LEMMA DataBegins ==
    ASSUME DictIInv, NEW r \in DictRequest, NEW d \in DictData, NEW t \in DictType, NEW l \in Label,
           CreateData(r, d, t, l) \/ UpdateData(r, d, t, l)
    PROVE  \E j \in Task : Begins(r, j)
<1>1. LiveTypes \subseteq DictType /\ LiveDatas \subseteq DictData /\ \A u \in LiveTypes : types[u].code \in Code
  BY RowFields DEF DictIInv, LiveTypes, LiveDatas
<1>2. CASE CreateData(r, d, t, l)
  <2> DEFINE j == [op |-> "addData", data |-> d, type |-> t, code |-> types[t].code, label |-> l]
  <2>1. j \in Task /\ Considered(r, j)
    BY <1>1, <1>2 DEF Task, Considered, CreateData, Puts
  <2>2. QED
    BY <1>2, <2>1 DEF CreateData, Begins
<1>3. CASE UpdateData(r, d, t, l)
  <2> DEFINE j == [op |-> "putData", data |-> d, type |-> t, code |-> types[t].code, label |-> l]
  <2>1. j \in Task /\ Considered(r, j)
    BY <1>1, <1>3 DEF Task, Considered, UpdateData, Puts
  <2>2. QED
    BY <1>3, <2>1 DEF UpdateData, Begins
<1>4. QED
  BY <1>2, <1>3

\* So does deleting data.
LEMMA DropDataBegins ==
    ASSUME DictIInv, NEW r \in DictRequest, NEW d \in DictData,
           DeleteData(r, d)
    PROVE  \E j \in Task : Begins(r, j)
<1>1. LiveTypes \subseteq DictType /\ LiveDatas \subseteq DictData /\ \A u \in LiveTypes : types[u].code \in Code
  BY RowFields DEF DictIInv, LiveTypes, LiveDatas
<1>2. CASE DeleteData(r, d)
  <2> DEFINE j == [op |-> "dropData", data |-> d]
  <2>1. j \in Task /\ Considered(r, j)
    BY <1>1, <1>2 DEF Task, Considered, DeleteData, Puts
  <2>2. QED
    BY <1>2, <2>1 DEF DeleteData, Begins
<1>3. QED
  BY <1>2

\* Every step keeps it.
LEMMA DictIInvStep == DictIInv /\ [DictNext]_dictVars => DictIInv'
<1> SUFFICES ASSUME DictIInv, [DictNext]_dictVars PROVE DictIInv'
  OBVIOUS
<1>1. CASE UNCHANGED dictVars
  BY <1>1 DEF dictVars, DictIInv, DictRowsOK, DictUnique, LiveTypes, LiveDatas, ListsOK, TasksKnow, AddedOnce,
     PartedKnown, PartedMeet, DropTakes, DataOfLiveType, CodeOfType, ListsTrue, List
<1>2. ASSUME NEW c \in Code, FetchList(c) \/ StoreList(c) \/ ListExpires(c) PROVE DictIInv'
  BY <1>2, FetchListStep, StoreListStep, ListExpiresStep
<1>3. ASSUME NEW r \in DictRequest, NEW j \in Task, Begins(r, j) PROVE DictIInv'
  BY <1>3, BeginsStep
<1>4. ASSUME NEW r \in DictRequest, NEW t \in DictType, NEW c \in Code, CreateType(r, t, c) \/ UpdateType(r, t, c)
      PROVE  DictIInv'
  <2>1. \E j \in Task : Begins(r, j)
    BY <1>4, TypeBegins
  <2>2. QED
    BY <1>3, <2>1
<1>5. ASSUME NEW r \in DictRequest, NEW t \in DictType, DeleteType(r, t) PROVE DictIInv'
  BY <1>3, <1>5, DropBegins
<1>6. ASSUME NEW r \in DictRequest, NEW d \in DictData, NEW t \in DictType, NEW l \in Label,
             CreateData(r, d, t, l) \/ UpdateData(r, d, t, l)
      PROVE  DictIInv'
  BY <1>3, <1>6, DataBegins
<1>7. ASSUME NEW r \in DictRequest, NEW d \in DictData, DeleteData(r, d) PROVE DictIInv'
  BY <1>3, <1>7, DropDataBegins
<1>8. ASSUME NEW r \in DictRequest, CommitTask(r) PROVE DictIInv'
  <2>1. task[r].op \in {"addType", "recode", "dropType", "addData", "putData", "dropData"}
    <3>1. task[r] \in Task
      BY <1>8 DEF CommitTask, DictIInv, DictRowsOK
    <3>2. QED
      BY <3>1, TaskFields
  <2>2. CommitsPut(r) \/ CommitsDrop(r) \/ CommitsDropType(r) \/ CommitsType(r)
    BY <1>8, <2>1 DEF CommitsPut, CommitsDrop, CommitsDropType, CommitsType, Puts
  <2>3. QED
    BY <2>2, CommitsPutStep, CommitsDropStep, CommitsDropTypeStep, CommitsTypeStep
<1>9. ASSUME NEW r \in DictRequest, TaskFails(r) PROVE DictIInv'
  BY <1>9, TaskFailsStep
<1>10. QED
  BY <1>1, <1>2, <1>4, <1>5, <1>6, <1>7, <1>8, <1>9 DEF DictNext

\* It implies what the run checks.
LEMMA DictIInvEnough == DictIInv => DictInv
<1> SUFFICES ASSUME DictIInv PROVE DictInv
  OBVIOUS
<1>1. \A c \in Code : \A l \in {lists[c], fetched[c]} :
          l.known \in BOOLEAN /\ l.rows \subseteq DictData /\ (l.known <=> l.rows # {})
  <2>1. \A c \in Code : lists[c] \in CodeList /\ fetched[c] \in CodeList
    BY DEF DictIInv, ListsOK
  <2>2. QED
    BY <2>1 DEF CodeList
<1>2. DictTypeOK
  BY <1>1 DEF DictIInv, DictTypeOK, DictRowsOK, DictUnique
<1>3. ListCurrent
  BY DEF DictIInv, ListsTrue, ListCurrent, Running
<1>4. QED
  BY <1>2, <1>3 DEF DictIInv, DictInv

\* Every reachable state satisfies the inductive invariant of the dictionaries.
THEOREM DictInductive == DictSpec => []DictIInv
BY DictIInvInit, DictIInvStep, PTL DEF DictSpec

\* Data rows stay with live types and with their codes, and cached lists are
\* what the table holds, except where a deletion, a recoding or a read met a
\* change in flight: for any types, rows, codes and number of requests.
THEOREM DictSafe == DictSpec => []DictInv
BY DictInductive, DictIInvEnough, PTL
-----------------------------------------------------------------------------
(* Installing, removing and switching plugins.                               *)

PluginsSpec == PluginsInit /\ [][PluginsNext]_pluginVars

PlugRowsOK ==
    /\ dir \subseteq Plugin /\ Required \subseteq dir /\ env \subseteq Plugin
    /\ info \in [Plugin -> {"none", "on", "off"}] /\ changed \in BOOLEAN /\ lockFile \in BOOLEAN
    /\ served \in [Plugin -> {"none", "on", "off"}]
    /\ begun \in 0..MaxRequests /\ troubles \in 0..MaxLockTrouble
    /\ shared \in BOOLEAN /\ hurried \subseteq Plugin /\ revived \subseteq Plugin

PluginCall == [pc : PluginStep, plugin : Plugin \cup {"none"}, to : {"none", "on", "off"}, env : SUBSET Plugin]
NoSubject  == {"idle", "load", "store", "unmark"}

\* What a request knows at each of its steps.
PlugCallsOK ==
    /\ preq \in [PluginRequest -> PluginCall]
    /\ \A r \in PluginRequest :
        /\ preq[r].pc \notin NoSubject => preq[r].plugin \in Plugin
        /\ preq[r].pc = "switch" => preq[r].to # "none"
        /\ preq[r].pc = "remove" => preq[r].plugin \notin Required

\* The lock belongs to one request, which has not given it back.
HolderOK ==
    /\ holder = {} \/ \E r \in PluginRequest : holder = {r}
    /\ \A r \in holder : r \in PluginRequest /\ preq[r].pc \in Section \cup {"unlock"}

\* Before any trouble, whoever is in the section has the lock; without a shared
\* section there is one.
InsideHolds == \A r \in PluginRequest : troubles = 0 /\ preq[r].pc \in Section => r \in holder
AloneInside == \A r, q \in PluginRequest :
                   ~shared /\ preq[r].pc \in Section /\ preq[q].pc \in Section => r = q

\* Who is alone in the section still has read what .env holds.
EnvRead == \A r \in PluginRequest : ~shared /\ preq[r].pc = "writeEnv" => preq[r].env = env

\* One server starts at a time.  Before it writes the entries it serves the
\* directories there are, then what the entries say.
OneStart == \A r, q \in PluginRequest :
    preq[r].pc \in {"load", "store", "unmark"} /\ preq[q].pc \in {"load", "store", "unmark"} => r = q
StartServes ==
    \A r \in PluginRequest : \A p \in Plugin \ hurried :
        /\ preq[r].pc = "store" => (p \in dir <=> served[p] # "none")
        /\ preq[r].pc = "unmark" => served[p] = Current(p)

\* ChangeAnnounced, for the steps of a request at which its change is made and
\* its mark is not.
Announces == {"readEnv", "writeEnv", "mark"} \cup {"forget", "markRemoved", "markSwitched"}
Announced ==
    \A p \in Plugin \ hurried :
        served[p] # Current(p) => changed \/ Starting \/ AtWork(p, Announces)

\* A switch of a plugin that is gone knows one whose entry is about to go.
SwitchKnows ==
    \A q \in PluginRequest :
        At(q, "switch") /\ Subject(q) \notin dir \cup hurried \cup revived => AtWork(Subject(q), {"forget"})

\* The inductive invariant of the plugins.
PluginsIInv ==
    /\ PlugRowsOK /\ PlugCallsOK /\ HolderOK /\ InsideHolds /\ AloneInside /\ WatcherHeldOff
    /\ EnvRead /\ EnvComplete /\ OneStart /\ StartServes /\ Announced /\ NoGhostEntry /\ SwitchKnows


\* A step of a request keeps what it knows, and the other requests.
LEMMA GoMoves ==
    ASSUME PlugCallsOK, NEW r \in PluginRequest, NEW pc \in PluginStep, Go(r, pc)
    PROVE  /\ preq' \in [PluginRequest -> PluginCall] /\ preq'[r].pc = pc
           /\ preq'[r].plugin = preq[r].plugin /\ preq'[r].to = preq[r].to /\ preq'[r].env = preq[r].env
           /\ \A q \in PluginRequest : q # r => preq'[q] = preq[q]
<1> DEFINE st == [preq[r] EXCEPT !.pc = pc]
<1>1. preq[r] \in PluginCall /\ preq' = [preq EXCEPT ![r] = st] /\ preq \in [PluginRequest -> PluginCall]
  BY DEF PlugCallsOK, Go
<1>2. st \in PluginCall /\ st.pc = pc /\ st.plugin = preq[r].plugin /\ st.to = preq[r].to /\ st.env = preq[r].env
  BY <1>1 DEF PluginCall
<1> HIDE DEF st
<1>3. QED
  BY <1>1, <1>2

\* A request that begins moves alone, and is counted.
LEMMA BeginMoves ==
    ASSUME PlugCallsOK, NEW r \in PluginRequest, NEW pc \in PluginStep, NEW p \in Plugin \cup {"none"},
           NEW to \in {"none", "on", "off"}, BeginPlugin(r, pc, p, to)
    PROVE  /\ preq[r].pc = "idle" /\ preq' \in [PluginRequest -> PluginCall]
           /\ preq'[r].pc = pc /\ preq'[r].plugin = p /\ preq'[r].to = to
           /\ \A q \in PluginRequest : q # r => preq'[q] = preq[q]
           /\ begun < MaxRequests /\ begun' = begun + 1
<1> DEFINE st == [pc |-> pc, plugin |-> p, to |-> to, env |-> {}]
<1>1. st \in PluginCall /\ st.pc = pc /\ st.plugin = p /\ st.to = to
  BY DEF PluginCall
<1>2. preq' = [preq EXCEPT ![r] = st] /\ preq \in [PluginRequest -> PluginCall]
  BY DEF PlugCallsOK, BeginPlugin
<1> HIDE DEF st
<1>3. QED
  BY <1>1, <1>2 DEF BeginPlugin, At

\* EnterLock (acquire_distributed_reload_lock) keeps the invariant.
LEMMA EnterLockStep ==
    ASSUME PluginsIInv, NEW r \in PluginRequest, EnterLock(r)
    PROVE  PluginsIInv'
<1> USE DEF PluginsIInv
<1>a. /\ preq' \in [PluginRequest -> PluginCall]
      /\ \A q \in PluginRequest : q # r => preq'[q] = preq[q]
      /\ preq[r].pc = "wait" /\ preq'[r].pc = "clone"
      /\ preq'[r].plugin = preq[r].plugin /\ preq'[r].to = preq[r].to /\ preq'[r].env = preq[r].env
      /\ \/ holder = {} /\ holder' = {r} /\ UNCHANGED troubles
         \/ troubles < MaxLockTrouble /\ troubles' = troubles + 1 /\ UNCHANGED holder
      /\ lockFile' = TRUE /\ shared' = (shared \/ Inside # {})
      /\ UNCHANGED <<dir, env, info, changed, served, begun, hurried, revived>>
  <2>1. Go(r, "clone") /\ preq[r].pc = "wait"
    BY DEF EnterLock, At
  <2>2. QED
    BY <2>1, GoMoves DEF EnterLock, At, Hurry, Histories, Subject, PluginStep, Section, Removing, Switching, PlugCallsOK, PlugRowsOK
<1>1. PlugRowsOK'
  BY <1>a, PluginsAssumption DEF Inside, PlugRowsOK, PlugCallsOK, Section,
    NoSubject
<1>2. PlugCallsOK'
  BY <1>a, PluginsAssumption DEF Inside, PlugCallsOK, Section, NoSubject
<1>3. HolderOK'
  BY <1>a, PluginsAssumption DEF Inside, HolderOK, InsideHolds, Section
<1>4. InsideHolds'
  BY <1>a, PluginsAssumption DEF Inside, InsideHolds, PlugRowsOK, Section
<1>5. AloneInside'
  BY <1>a, PluginsAssumption DEF Inside, AloneInside, Section
<1>6. WatcherHeldOff'
  BY <1>a, PluginsAssumption DEF Inside, WatcherHeldOff, AloneInside, Section
<1>7. EnvRead'
  BY <1>a, PluginsAssumption DEF Inside, EnvRead, AloneInside, EnvComplete,
    Section, AtWork, Subject
<1>8. EnvComplete'
  BY <1>a, PluginsAssumption DEF Inside, EnvComplete, EnvRead, AloneInside,
    Section, AtWork, Subject
<1>9. OneStart'
  BY <1>a, PluginsAssumption DEF Inside, OneStart, Starting, Section
<1>10. StartServes'
  BY <1>a, PluginsAssumption DEF Inside, StartServes, OneStart, Starting,
    Section, Current
<1>11. Announced'
  BY <1>a, PluginsAssumption DEF Inside, Announced, StartServes, OneStart,
    Section, Current, Starting, AtWork, Announces, Subject
<1>12. NoGhostEntry'
  BY <1>a, PluginsAssumption DEF Inside, NoGhostEntry, SwitchKnows,
    StartServes, PlugCallsOK, PlugRowsOK, Section, AtWork, At, Subject,
    Current, NoSubject
<1>13. SwitchKnows'
  BY <1>a, PluginsAssumption DEF Inside, SwitchKnows, NoGhostEntry, Section,
    At, Subject, AtWork
<1> QED
  BY <1>1, <1>2, <1>3, <1>4, <1>5, <1>6, <1>7, <1>8, <1>9, <1>10, <1>11,
    <1>12, <1>13

\* LockExpires (acquire_distributed_reload_lock) keeps the invariant.
LEMMA LockExpiresStep ==
    ASSUME PluginsIInv, LockExpires
    PROVE  PluginsIInv'
<1> USE DEF PluginsIInv
<1>1. PlugRowsOK'
  BY PluginsAssumption DEF LockExpires, PlugRowsOK, PlugCallsOK, Histories,
    NoSubject
<1>2. HolderOK'
  BY PluginsAssumption DEF LockExpires, HolderOK, InsideHolds, Histories,
    Section
<1>3. InsideHolds'
  BY PluginsAssumption DEF LockExpires, InsideHolds, PlugRowsOK, Histories,
    Section
<1>4. PlugCallsOK' /\ AloneInside' /\ WatcherHeldOff' /\ EnvRead' /\ EnvComplete' /\ OneStart' /\ StartServes' /\ Announced' /\ NoGhostEntry' /\ SwitchKnows'
  <2>1. UNCHANGED <<dir, env, info, changed, lockFile, preq, served, shared, hurried, revived>>
    BY DEF LockExpires, Histories
  <2>2. QED
    BY <2>1 DEF PlugCallsOK, AloneInside, WatcherHeldOff, EnvRead,
      EnvComplete, OneStart, StartServes, Announced, NoGhostEntry,
      SwitchKnows, NoSubject, Section, Inside, AtWork, Current, Starting,
      Announces, At, Subject
<1> QED
  BY <1>1, <1>2, <1>3, <1>4

\* Unlink (acquire_distributed_reload_lock) keeps the invariant.
LEMMA UnlinkStep ==
    ASSUME PluginsIInv, NEW r \in PluginRequest, Unlink(r)
    PROVE  PluginsIInv'
<1> USE DEF PluginsIInv
<1>a. /\ preq' \in [PluginRequest -> PluginCall]
      /\ \A q \in PluginRequest : q # r => preq'[q] = preq[q]
      /\ preq[r].pc = "unlink" /\ preq'[r].pc = "unlock"
      /\ preq'[r].plugin = preq[r].plugin /\ preq'[r].to = preq[r].to /\ preq'[r].env = preq[r].env
      /\ lockFile' = FALSE
      /\ UNCHANGED <<dir, env, info, changed, holder, served, begun, troubles, shared, hurried, revived>>
  <2>1. Go(r, "unlock") /\ preq[r].pc = "unlink"
    BY DEF Unlink, At
  <2>2. QED
    BY <2>1, GoMoves DEF Unlink, At, Hurry, Histories, Subject, PluginStep, Section, Removing, Switching, PlugCallsOK, PlugRowsOK
<1>1. PlugRowsOK'
  BY <1>a, PluginsAssumption DEF PlugRowsOK, PlugCallsOK, NoSubject
<1>2. PlugCallsOK'
  BY <1>a, PluginsAssumption DEF PlugCallsOK, NoSubject
<1>3. HolderOK'
  BY <1>a, PluginsAssumption DEF HolderOK, InsideHolds, Section
<1>4. InsideHolds'
  BY <1>a, PluginsAssumption DEF InsideHolds, PlugRowsOK, Section
<1>5. AloneInside'
  BY <1>a, PluginsAssumption DEF AloneInside, Section
<1>6. WatcherHeldOff'
  BY <1>a, PluginsAssumption DEF WatcherHeldOff, AloneInside, Inside, Section
<1>7. EnvRead'
  BY <1>a, PluginsAssumption DEF EnvRead, AloneInside, EnvComplete, Section,
    AtWork, Subject
<1>8. EnvComplete'
  BY <1>a, PluginsAssumption DEF EnvComplete, EnvRead, AloneInside, AtWork,
    Section, Subject
<1>9. OneStart'
  BY <1>a, PluginsAssumption DEF OneStart, Starting
<1>10. StartServes'
  BY <1>a, PluginsAssumption DEF StartServes, OneStart, Starting, Current
<1>11. Announced'
  BY <1>a, PluginsAssumption DEF Announced, StartServes, OneStart, Current,
    Starting, AtWork, Announces, Subject
<1>12. NoGhostEntry'
  BY <1>a, PluginsAssumption DEF NoGhostEntry, SwitchKnows, StartServes,
    PlugCallsOK, PlugRowsOK, AtWork, At, Subject, Current, NoSubject
<1>13. SwitchKnows'
  BY <1>a, PluginsAssumption DEF SwitchKnows, NoGhostEntry, At, Subject,
    AtWork
<1> QED
  BY <1>1, <1>2, <1>3, <1>4, <1>5, <1>6, <1>7, <1>8, <1>9, <1>10, <1>11,
    <1>12, <1>13

\* Unlock (acquire_distributed_reload_lock) keeps the invariant.
LEMMA UnlockStep ==
    ASSUME PluginsIInv, NEW r \in PluginRequest, Unlock(r)
    PROVE  PluginsIInv'
<1> USE DEF PluginsIInv
<1>a. /\ preq' \in [PluginRequest -> PluginCall]
      /\ \A q \in PluginRequest : q # r => preq'[q] = preq[q]
      /\ preq[r].pc = "unlock" /\ preq'[r].pc = "idle"
      /\ preq'[r].plugin = preq[r].plugin /\ preq'[r].to = preq[r].to /\ preq'[r].env = preq[r].env
      /\ holder' = holder \ {r}
      /\ UNCHANGED <<dir, env, info, changed, lockFile, served, begun, troubles, shared, hurried, revived>>
  <2>1. Go(r, "idle") /\ preq[r].pc = "unlock"
    BY DEF Unlock, At
  <2>2. QED
    BY <2>1, GoMoves DEF Unlock, At, Hurry, Histories, Subject, PluginStep, Section, Removing, Switching, PlugCallsOK, PlugRowsOK
<1>1. PlugCallsOK'
  BY <1>a, PluginsAssumption DEF PlugCallsOK, NoSubject
<1>2. HolderOK'
  BY <1>a, PluginsAssumption DEF HolderOK, InsideHolds, Section
<1>3. InsideHolds'
  BY <1>a, PluginsAssumption DEF InsideHolds, PlugRowsOK, Section
<1>4. AloneInside'
  BY <1>a, PluginsAssumption DEF AloneInside, Section
<1>5. WatcherHeldOff'
  BY <1>a, PluginsAssumption DEF WatcherHeldOff, AloneInside, Inside, Section
<1>6. EnvRead'
  BY <1>a, PluginsAssumption DEF EnvRead, AloneInside, EnvComplete, Section,
    AtWork, Subject
<1>7. EnvComplete'
  BY <1>a, PluginsAssumption DEF EnvComplete, EnvRead, AloneInside, AtWork,
    Section, Subject
<1>8. OneStart'
  BY <1>a, PluginsAssumption DEF OneStart, Starting
<1>9. StartServes'
  BY <1>a, PluginsAssumption DEF StartServes, OneStart, Starting, Current
<1>10. Announced'
  BY <1>a, PluginsAssumption DEF Announced, StartServes, OneStart, Current,
    Starting, AtWork, Announces, Subject
<1>11. NoGhostEntry'
  BY <1>a, PluginsAssumption DEF NoGhostEntry, SwitchKnows, StartServes,
    PlugCallsOK, PlugRowsOK, AtWork, At, Subject, Current, NoSubject
<1>12. SwitchKnows'
  BY <1>a, PluginsAssumption DEF SwitchKnows, NoGhostEntry, At, Subject,
    AtWork
<1>13. PlugRowsOK'
  <2>1. UNCHANGED <<dir, env, info, changed, lockFile, served, begun, troubles, shared, hurried, revived>>
    BY <1>a
  <2>2. QED
    BY <2>1 DEF PlugRowsOK
<1> QED
  BY <1>1, <1>2, <1>3, <1>4, <1>5, <1>6, <1>7, <1>8, <1>9, <1>10, <1>11,
    <1>12, <1>13

\* InstallPlugin (PluginService.install) keeps the invariant.
LEMMA InstallPluginStep ==
    ASSUME PluginsIInv, NEW r \in PluginRequest, NEW p \in Plugin,
           InstallPlugin(r, p)
    PROVE  PluginsIInv'
<1> USE DEF PluginsIInv
<1>a. /\ preq' \in [PluginRequest -> PluginCall]
      /\ \A q \in PluginRequest : q # r => preq'[q] = preq[q]
      /\ preq[r].pc = "idle" /\ preq'[r].pc = "wait" /\ preq'[r].plugin = p /\ preq'[r].to = "none"
      /\ p \notin dir
      /\ begun < MaxRequests /\ begun' = begun + 1
      /\ UNCHANGED <<dir, env, info, changed, holder, lockFile, served, troubles, shared, hurried, revived>>
  <2>1. QED
    BY BeginMoves DEF InstallPlugin, BeginPlugin, Histories, PluginStep, Section, Removing, Switching, PlugCallsOK, PlugRowsOK
<1>1. PlugRowsOK'
  BY <1>a, PluginsAssumption DEF PlugRowsOK, PlugCallsOK, NoSubject
<1>2. PlugCallsOK'
  BY <1>a, PluginsAssumption DEF PlugCallsOK, NoSubject
<1>3. HolderOK'
  BY <1>a, PluginsAssumption DEF HolderOK, InsideHolds, Section
<1>4. InsideHolds'
  BY <1>a, PluginsAssumption DEF InsideHolds, PlugRowsOK, Section
<1>5. AloneInside'
  BY <1>a, PluginsAssumption DEF AloneInside, Section
<1>6. WatcherHeldOff'
  BY <1>a, PluginsAssumption DEF WatcherHeldOff, AloneInside, Inside, Section
<1>7. EnvRead'
  BY <1>a, PluginsAssumption DEF EnvRead, AloneInside, EnvComplete, Section,
    AtWork, Subject
<1>8. EnvComplete'
  BY <1>a, PluginsAssumption DEF EnvComplete, EnvRead, AloneInside, AtWork,
    Section, Subject
<1>9. OneStart'
  BY <1>a, PluginsAssumption DEF OneStart, Starting
<1>10. StartServes'
  BY <1>a, PluginsAssumption DEF StartServes, OneStart, Starting, Current
<1>11. Announced'
  BY <1>a, PluginsAssumption DEF Announced, StartServes, OneStart, Current,
    Starting, AtWork, Announces, Subject
<1>12. NoGhostEntry'
  BY <1>a, PluginsAssumption DEF NoGhostEntry, SwitchKnows, StartServes,
    PlugCallsOK, PlugRowsOK, AtWork, At, Subject, Current, NoSubject
<1>13. SwitchKnows'
  BY <1>a, PluginsAssumption DEF SwitchKnows, NoGhostEntry, At, Subject,
    AtWork
<1> QED
  BY <1>1, <1>2, <1>3, <1>4, <1>5, <1>6, <1>7, <1>8, <1>9, <1>10, <1>11,
    <1>12, <1>13

\* Clone (install_zip_plugin, install_git_plugin) keeps the invariant.
LEMMA CloneStep ==
    ASSUME PluginsIInv, NEW r \in PluginRequest, Clone(r)
    PROVE  PluginsIInv'
<1> USE DEF PluginsIInv
<1>a. /\ preq' \in [PluginRequest -> PluginCall]
      /\ \A q \in PluginRequest : q # r => preq'[q] = preq[q]
      /\ preq[r].pc = "clone"
      /\ preq'[r].plugin = preq[r].plugin /\ preq'[r].to = preq[r].to /\ preq'[r].env = preq[r].env
      /\ \/ /\ preq'[r].pc = "readEnv" /\ dir' = dir \cup {preq[r].plugin}
            /\ hurried' = IF Starting THEN hurried \cup {preq[r].plugin} ELSE hurried
         \/ preq'[r].pc = "unlink" /\ UNCHANGED <<dir, hurried>>
      /\ UNCHANGED <<env, info, changed, holder, lockFile, served, begun, troubles, shared, revived>>
  <2>1. CASE Go(r, "readEnv")
    BY <2>1, GoMoves DEF Clone, At, Hurry, Histories, Subject, PluginStep, Section, Removing, Switching
  <2>2. CASE Go(r, "unlink")
    BY <2>2, GoMoves DEF Clone, At, Hurry, Histories, Subject, PluginStep, Section, Removing, Switching
  <2>3. Go(r, "readEnv") \/ Go(r, "unlink")
    BY DEF Clone
  <2>4. QED
    BY <2>1, <2>2, <2>3 DEF Clone
<1>1. PlugRowsOK'
  BY <1>a, PluginsAssumption DEF PlugRowsOK, PlugCallsOK, NoSubject
<1>2. PlugCallsOK'
  BY <1>a, PluginsAssumption DEF PlugCallsOK, NoSubject
<1>3. HolderOK'
  BY <1>a, PluginsAssumption DEF HolderOK, InsideHolds, Section
<1>4. InsideHolds'
  BY <1>a, PluginsAssumption DEF InsideHolds, PlugRowsOK, Section
<1>5. AloneInside'
  BY <1>a, PluginsAssumption DEF AloneInside, Section
<1>6. WatcherHeldOff'
  BY <1>a, PluginsAssumption DEF WatcherHeldOff, AloneInside, Inside, Section
<1>7. EnvRead'
  BY <1>a, PluginsAssumption DEF EnvRead, AloneInside, EnvComplete, Section,
    AtWork, Subject
<1>8. EnvComplete'
  BY <1>a, PluginsAssumption DEF EnvComplete, EnvRead, AloneInside, AtWork,
    Section, Subject
<1>9. OneStart'
  BY <1>a, PluginsAssumption DEF OneStart, Starting
<1>10. StartServes'
  BY <1>a, PluginsAssumption DEF StartServes, OneStart, Starting, Current
<1>11. Announced'
  BY <1>a, PluginsAssumption DEF Announced, StartServes, OneStart, Current,
    Starting, AtWork, Announces, Subject
<1>12. NoGhostEntry'
  BY <1>a, PluginsAssumption DEF NoGhostEntry, SwitchKnows, StartServes,
    PlugCallsOK, PlugRowsOK, AtWork, At, Subject, Current, NoSubject
<1>13. SwitchKnows'
  BY <1>a, PluginsAssumption DEF SwitchKnows, NoGhostEntry, At, Subject,
    AtWork
<1> QED
  BY <1>1, <1>2, <1>3, <1>4, <1>5, <1>6, <1>7, <1>8, <1>9, <1>10, <1>11,
    <1>12, <1>13

\* ReadEnv (_append_env_example) keeps the invariant.
LEMMA ReadEnvStep ==
    ASSUME PluginsIInv, NEW r \in PluginRequest, ReadEnv(r)
    PROVE  PluginsIInv'
<1> USE DEF PluginsIInv
<1>a. /\ preq' \in [PluginRequest -> PluginCall]
      /\ \A q \in PluginRequest : q # r => preq'[q] = preq[q]
      /\ preq[r].pc = "readEnv" /\ preq'[r].pc = "writeEnv"
      /\ preq'[r].plugin = preq[r].plugin /\ preq'[r].to = preq[r].to
      /\ preq'[r].env = env
      /\ UNCHANGED <<dir, env, info, changed, holder, lockFile, served, begun, troubles, shared, hurried, revived>>
  <2>1. QED
    BY DEF ReadEnv, At, Histories, PluginStep, Section, Removing, Switching, PlugCallsOK, PlugRowsOK, PluginCall
<1>1. PlugCallsOK'
  BY <1>a, PluginsAssumption DEF PlugCallsOK, NoSubject
<1>2. HolderOK'
  BY <1>a, PluginsAssumption DEF HolderOK, InsideHolds, Section
<1>3. InsideHolds'
  BY <1>a, PluginsAssumption DEF InsideHolds, PlugRowsOK, Section
<1>4. AloneInside'
  BY <1>a, PluginsAssumption DEF AloneInside, Section
<1>5. WatcherHeldOff'
  BY <1>a, PluginsAssumption DEF WatcherHeldOff, AloneInside, Inside, Section
<1>6. EnvRead'
  BY <1>a, PluginsAssumption DEF EnvRead, AloneInside, EnvComplete, Section,
    AtWork, Subject
<1>7. EnvComplete'
  BY <1>a, PluginsAssumption DEF EnvComplete, EnvRead, AloneInside, AtWork,
    Section, Subject
<1>8. OneStart'
  BY <1>a, PluginsAssumption DEF OneStart, Starting
<1>9. StartServes'
  BY <1>a, PluginsAssumption DEF StartServes, OneStart, Starting, Current
<1>10. Announced'
  BY <1>a, PluginsAssumption DEF Announced, StartServes, OneStart, Current,
    Starting, AtWork, Announces, Subject
<1>11. NoGhostEntry'
  BY <1>a, PluginsAssumption DEF NoGhostEntry, SwitchKnows, StartServes,
    PlugCallsOK, PlugRowsOK, AtWork, At, Subject, Current, NoSubject
<1>12. SwitchKnows'
  BY <1>a, PluginsAssumption DEF SwitchKnows, NoGhostEntry, At, Subject,
    AtWork
<1>13. PlugRowsOK'
  <2>1. UNCHANGED <<dir, env, info, changed, lockFile, served, begun, troubles, shared, hurried, revived>>
    BY <1>a
  <2>2. QED
    BY <2>1 DEF PlugRowsOK
<1> QED
  BY <1>1, <1>2, <1>3, <1>4, <1>5, <1>6, <1>7, <1>8, <1>9, <1>10, <1>11,
    <1>12, <1>13

\* WriteEnv (_append_env_example) keeps the invariant.
LEMMA WriteEnvStep ==
    ASSUME PluginsIInv, NEW r \in PluginRequest, WriteEnv(r)
    PROVE  PluginsIInv'
<1> USE DEF PluginsIInv
<1>a. /\ preq' \in [PluginRequest -> PluginCall]
      /\ \A q \in PluginRequest : q # r => preq'[q] = preq[q]
      /\ preq[r].pc = "writeEnv" /\ preq'[r].pc = "mark"
      /\ preq'[r].plugin = preq[r].plugin /\ preq'[r].to = preq[r].to /\ preq'[r].env = preq[r].env
      /\ env' = preq[r].env \cup {preq[r].plugin}
      /\ UNCHANGED <<dir, info, changed, holder, lockFile, served, begun, troubles, shared, hurried, revived>>
  <2>1. Go(r, "mark") /\ preq[r].pc = "writeEnv"
    BY DEF WriteEnv, At
  <2>2. QED
    BY <2>1, GoMoves DEF WriteEnv, At, Hurry, Histories, Subject, PluginStep, Section, Removing, Switching, PlugCallsOK, PlugRowsOK
<1>1. PlugRowsOK'
  <2>1. preq[r].env \subseteq Plugin /\ preq[r].plugin \in Plugin
    BY <1>a DEF PlugCallsOK, PluginCall, NoSubject
  <2>2. QED
    BY <1>a, <2>1 DEF PlugRowsOK
<1>2. PlugCallsOK'
  BY <1>a, PluginsAssumption DEF PlugCallsOK, NoSubject
<1>3. HolderOK'
  BY <1>a, PluginsAssumption DEF HolderOK, InsideHolds, Section
<1>4. InsideHolds'
  BY <1>a, PluginsAssumption DEF InsideHolds, PlugRowsOK, Section
<1>5. AloneInside'
  BY <1>a, PluginsAssumption DEF AloneInside, Section
<1>6. WatcherHeldOff'
  BY <1>a, PluginsAssumption DEF WatcherHeldOff, AloneInside, Inside, Section
<1>7. EnvRead'
  BY <1>a, PluginsAssumption DEF EnvRead, AloneInside, EnvComplete, Section,
    AtWork, Subject
<1>8. EnvComplete'
  BY <1>a, PluginsAssumption DEF EnvComplete, EnvRead, AloneInside, AtWork,
    Section, Subject
<1>9. OneStart'
  BY <1>a, PluginsAssumption DEF OneStart, Starting
<1>10. StartServes'
  BY <1>a, PluginsAssumption DEF StartServes, OneStart, Starting, Current
<1>11. Announced'
  BY <1>a, PluginsAssumption DEF Announced, StartServes, OneStart, Current,
    Starting, AtWork, Announces, Subject
<1>12. NoGhostEntry'
  BY <1>a, PluginsAssumption DEF NoGhostEntry, SwitchKnows, StartServes,
    PlugCallsOK, PlugRowsOK, AtWork, At, Subject, Current, NoSubject
<1>13. SwitchKnows'
  BY <1>a, PluginsAssumption DEF SwitchKnows, NoGhostEntry, At, Subject,
    AtWork
<1> QED
  BY <1>1, <1>2, <1>3, <1>4, <1>5, <1>6, <1>7, <1>8, <1>9, <1>10, <1>11,
    <1>12, <1>13

\* MarkInstalled (install_git_plugin) keeps the invariant.
LEMMA MarkInstalledStep ==
    ASSUME PluginsIInv, NEW r \in PluginRequest, MarkInstalled(r)
    PROVE  PluginsIInv'
<1> USE DEF PluginsIInv
<1>a. /\ preq' \in [PluginRequest -> PluginCall]
      /\ \A q \in PluginRequest : q # r => preq'[q] = preq[q]
      /\ preq[r].pc = "mark" /\ preq'[r].pc = "unlink"
      /\ preq'[r].plugin = preq[r].plugin /\ preq'[r].to = preq[r].to /\ preq'[r].env = preq[r].env
      /\ changed' = TRUE
      /\ UNCHANGED <<dir, env, info, holder, lockFile, served, begun, troubles, shared, hurried, revived>>
  <2>1. Go(r, "unlink") /\ preq[r].pc = "mark"
    BY DEF MarkInstalled, At
  <2>2. QED
    BY <2>1, GoMoves DEF MarkInstalled, At, Hurry, Histories, Subject, PluginStep, Section, Removing, Switching, PlugCallsOK, PlugRowsOK
<1>1. PlugRowsOK'
  BY <1>a, PluginsAssumption DEF PlugRowsOK, PlugCallsOK, NoSubject
<1>2. PlugCallsOK'
  BY <1>a, PluginsAssumption DEF PlugCallsOK, NoSubject
<1>3. HolderOK'
  BY <1>a, PluginsAssumption DEF HolderOK, InsideHolds, Section
<1>4. InsideHolds'
  BY <1>a, PluginsAssumption DEF InsideHolds, PlugRowsOK, Section
<1>5. AloneInside'
  BY <1>a, PluginsAssumption DEF AloneInside, Section
<1>6. WatcherHeldOff'
  BY <1>a, PluginsAssumption DEF WatcherHeldOff, AloneInside, Inside, Section
<1>7. EnvRead'
  BY <1>a, PluginsAssumption DEF EnvRead, AloneInside, EnvComplete, Section,
    AtWork, Subject
<1>8. EnvComplete'
  BY <1>a, PluginsAssumption DEF EnvComplete, EnvRead, AloneInside, AtWork,
    Section, Subject
<1>9. OneStart'
  BY <1>a, PluginsAssumption DEF OneStart, Starting
<1>10. StartServes'
  BY <1>a, PluginsAssumption DEF StartServes, OneStart, Starting, Current
<1>11. Announced'
  BY <1>a, PluginsAssumption DEF Announced, StartServes, OneStart, Current,
    Starting, AtWork, Announces, Subject
<1>12. NoGhostEntry'
  BY <1>a, PluginsAssumption DEF NoGhostEntry, SwitchKnows, StartServes,
    PlugCallsOK, PlugRowsOK, AtWork, At, Subject, Current, NoSubject
<1>13. SwitchKnows'
  BY <1>a, PluginsAssumption DEF SwitchKnows, NoGhostEntry, At, Subject,
    AtWork
<1> QED
  BY <1>1, <1>2, <1>3, <1>4, <1>5, <1>6, <1>7, <1>8, <1>9, <1>10, <1>11,
    <1>12, <1>13

\* RequirementsFail (install_requirements) keeps the invariant.
LEMMA RequirementsFailStep ==
    ASSUME PluginsIInv, NEW r \in PluginRequest, RequirementsFail(r)
    PROVE  PluginsIInv'
<1> USE DEF PluginsIInv
<1>a. /\ preq' \in [PluginRequest -> PluginCall]
      /\ \A q \in PluginRequest : q # r => preq'[q] = preq[q]
      /\ preq[r].pc = "mark" /\ preq'[r].pc = "unlink"
      /\ preq'[r].plugin = preq[r].plugin /\ preq'[r].to = preq[r].to /\ preq'[r].env = preq[r].env
      /\ hurried' = hurried \cup {preq[r].plugin}
      /\ UNCHANGED <<dir, env, info, changed, holder, lockFile, served, begun, troubles, shared, revived>>
  <2>1. Go(r, "unlink") /\ preq[r].pc = "mark"
    BY DEF RequirementsFail, At
  <2>2. QED
    BY <2>1, GoMoves DEF RequirementsFail, At, Hurry, Histories, Subject, PluginStep, Section, Removing, Switching, PlugCallsOK, PlugRowsOK
<1>1. PlugRowsOK'
  BY <1>a, PluginsAssumption DEF PlugRowsOK, PlugCallsOK, NoSubject
<1>2. PlugCallsOK'
  BY <1>a, PluginsAssumption DEF PlugCallsOK, NoSubject
<1>3. HolderOK'
  BY <1>a, PluginsAssumption DEF HolderOK, InsideHolds, Section
<1>4. InsideHolds'
  BY <1>a, PluginsAssumption DEF InsideHolds, PlugRowsOK, Section
<1>5. AloneInside'
  BY <1>a, PluginsAssumption DEF AloneInside, Section
<1>6. WatcherHeldOff'
  BY <1>a, PluginsAssumption DEF WatcherHeldOff, AloneInside, Inside, Section
<1>7. EnvRead'
  BY <1>a, PluginsAssumption DEF EnvRead, AloneInside, EnvComplete, Section,
    AtWork, Subject
<1>8. EnvComplete'
  BY <1>a, PluginsAssumption DEF EnvComplete, EnvRead, AloneInside, AtWork,
    Section, Subject
<1>9. OneStart'
  BY <1>a, PluginsAssumption DEF OneStart, Starting
<1>10. StartServes'
  BY <1>a, PluginsAssumption DEF StartServes, OneStart, Starting, Current
<1>11. Announced'
  BY <1>a, PluginsAssumption DEF Announced, StartServes, OneStart, Current,
    Starting, AtWork, Announces, Subject
<1>12. NoGhostEntry'
  BY <1>a, PluginsAssumption DEF NoGhostEntry, SwitchKnows, StartServes,
    PlugCallsOK, PlugRowsOK, AtWork, At, Subject, Current, NoSubject
<1>13. SwitchKnows'
  BY <1>a, PluginsAssumption DEF SwitchKnows, NoGhostEntry, At, Subject,
    AtWork
<1> QED
  BY <1>1, <1>2, <1>3, <1>4, <1>5, <1>6, <1>7, <1>8, <1>9, <1>10, <1>11,
    <1>12, <1>13

\* Uninstall (PluginService.uninstall) keeps the invariant.
LEMMA UninstallStep ==
    ASSUME PluginsIInv, NEW r \in PluginRequest, NEW p \in Plugin,
           Uninstall(r, p)
    PROVE  PluginsIInv'
<1> USE DEF PluginsIInv
<1>a. /\ preq' \in [PluginRequest -> PluginCall]
      /\ \A q \in PluginRequest : q # r => preq'[q] = preq[q]
      /\ preq[r].pc = "idle" /\ preq'[r].pc = "remove" /\ preq'[r].plugin = p /\ preq'[r].to = "none"
      /\ p \in dir \ Required
      /\ begun < MaxRequests /\ begun' = begun + 1
      /\ UNCHANGED <<dir, env, info, changed, holder, lockFile, served, troubles, shared, hurried, revived>>
  <2>1. QED
    BY BeginMoves DEF Uninstall, BeginPlugin, Histories, PluginStep, Section, Removing, Switching, PlugCallsOK, PlugRowsOK
<1>1. PlugRowsOK'
  BY <1>a, PluginsAssumption DEF PlugRowsOK, PlugCallsOK, NoSubject
<1>2. PlugCallsOK'
  BY <1>a, PluginsAssumption DEF PlugCallsOK, NoSubject
<1>3. HolderOK'
  BY <1>a, PluginsAssumption DEF HolderOK, InsideHolds, Section
<1>4. InsideHolds'
  BY <1>a, PluginsAssumption DEF InsideHolds, PlugRowsOK, Section
<1>5. AloneInside'
  BY <1>a, PluginsAssumption DEF AloneInside, Section
<1>6. WatcherHeldOff'
  BY <1>a, PluginsAssumption DEF WatcherHeldOff, AloneInside, Inside, Section
<1>7. EnvRead'
  BY <1>a, PluginsAssumption DEF EnvRead, AloneInside, EnvComplete, Section,
    AtWork, Subject
<1>8. EnvComplete'
  BY <1>a, PluginsAssumption DEF EnvComplete, EnvRead, AloneInside, AtWork,
    Section, Subject
<1>9. OneStart'
  BY <1>a, PluginsAssumption DEF OneStart, Starting
<1>10. StartServes'
  BY <1>a, PluginsAssumption DEF StartServes, OneStart, Starting, Current
<1>11. Announced'
  BY <1>a, PluginsAssumption DEF Announced, StartServes, OneStart, Current,
    Starting, AtWork, Announces, Subject
<1>12. NoGhostEntry'
  BY <1>a, PluginsAssumption DEF NoGhostEntry, SwitchKnows, StartServes,
    PlugCallsOK, PlugRowsOK, AtWork, At, Subject, Current, NoSubject
<1>13. SwitchKnows'
  BY <1>a, PluginsAssumption DEF SwitchKnows, NoGhostEntry, At, Subject,
    AtWork
<1> QED
  BY <1>1, <1>2, <1>3, <1>4, <1>5, <1>6, <1>7, <1>8, <1>9, <1>10, <1>11,
    <1>12, <1>13

\* RemovePlugin (remove_plugin) keeps the invariant.
LEMMA RemovePluginStep ==
    ASSUME PluginsIInv, NEW r \in PluginRequest, RemovePlugin(r)
    PROVE  PluginsIInv'
<1> USE DEF PluginsIInv
<1>a. /\ preq' \in [PluginRequest -> PluginCall]
      /\ \A q \in PluginRequest : q # r => preq'[q] = preq[q]
      /\ preq[r].pc = "remove" /\ preq'[r].pc = "forget"
      /\ preq'[r].plugin = preq[r].plugin /\ preq'[r].to = preq[r].to /\ preq'[r].env = preq[r].env
      /\ dir' = dir \ {preq[r].plugin}
      /\ hurried' = IF Starting THEN hurried \cup {preq[r].plugin} ELSE hurried
      /\ UNCHANGED <<env, info, changed, holder, lockFile, served, begun, troubles, shared, revived>>
  <2>1. Go(r, "forget") /\ preq[r].pc = "remove"
    BY DEF RemovePlugin, At
  <2>2. QED
    BY <2>1, GoMoves DEF RemovePlugin, At, Hurry, Histories, Subject, PluginStep, Section, Removing, Switching, PlugCallsOK, PlugRowsOK
<1>1. PlugRowsOK'
  BY <1>a, PluginsAssumption DEF PlugRowsOK, PlugCallsOK, NoSubject
<1>2. PlugCallsOK'
  BY <1>a, PluginsAssumption DEF PlugCallsOK, NoSubject
<1>3. HolderOK'
  BY <1>a, PluginsAssumption DEF HolderOK, InsideHolds, Section
<1>4. InsideHolds'
  BY <1>a, PluginsAssumption DEF InsideHolds, PlugRowsOK, Section
<1>5. AloneInside'
  BY <1>a, PluginsAssumption DEF AloneInside, Section
<1>6. WatcherHeldOff'
  BY <1>a, PluginsAssumption DEF WatcherHeldOff, AloneInside, Inside, Section
<1>7. EnvRead'
  BY <1>a, PluginsAssumption DEF EnvRead, AloneInside, EnvComplete, Section,
    AtWork, Subject
<1>8. EnvComplete'
  BY <1>a, PluginsAssumption DEF EnvComplete, EnvRead, AloneInside, AtWork,
    Section, Subject
<1>9. OneStart'
  BY <1>a, PluginsAssumption DEF OneStart, Starting
<1>10. StartServes'
  BY <1>a, PluginsAssumption DEF StartServes, OneStart, Starting, Current
<1>11. Announced'
  BY <1>a, PluginsAssumption DEF Announced, StartServes, OneStart, Current,
    Starting, AtWork, Announces, Subject
<1>12. NoGhostEntry'
  BY <1>a, PluginsAssumption DEF NoGhostEntry, SwitchKnows, StartServes,
    PlugCallsOK, PlugRowsOK, AtWork, At, Subject, Current, NoSubject
<1>13. SwitchKnows'
  BY <1>a, PluginsAssumption DEF SwitchKnows, NoGhostEntry, At, Subject,
    AtWork
<1> QED
  BY <1>1, <1>2, <1>3, <1>4, <1>5, <1>6, <1>7, <1>8, <1>9, <1>10, <1>11,
    <1>12, <1>13

\* ForgetPlugin (remove_plugin) keeps the invariant.
LEMMA ForgetPluginStep ==
    ASSUME PluginsIInv, NEW r \in PluginRequest, ForgetPlugin(r)
    PROVE  PluginsIInv'
<1> USE DEF PluginsIInv
<1>a. /\ preq' \in [PluginRequest -> PluginCall]
      /\ \A q \in PluginRequest : q # r => preq'[q] = preq[q]
      /\ preq[r].pc = "forget" /\ preq'[r].pc = "markRemoved"
      /\ preq'[r].plugin = preq[r].plugin /\ preq'[r].to = preq[r].to /\ preq'[r].env = preq[r].env
      /\ info' = [info EXCEPT ![preq[r].plugin] = "none"]
      /\ revived' = revived \cup {p \in {preq[r].plugin} : \E q \in PluginRequest :
                                      preq[q].pc = "switch" /\ preq[q].plugin = p}
      /\ hurried' = IF Starting THEN hurried \cup {preq[r].plugin} ELSE hurried
      /\ UNCHANGED <<dir, env, changed, holder, lockFile, served, begun, troubles, shared>>
  <2>1. Go(r, "markRemoved") /\ preq[r].pc = "forget"
    BY DEF ForgetPlugin, At
  <2>2. QED
    BY <2>1, GoMoves DEF ForgetPlugin, At, Hurry, Histories, Subject, PluginStep, Section, Removing, Switching, PlugCallsOK, PlugRowsOK
<1>1. PlugRowsOK'
  BY <1>a, PluginsAssumption DEF PlugRowsOK, PlugCallsOK, NoSubject
<1>2. PlugCallsOK'
  BY <1>a, PluginsAssumption DEF PlugCallsOK, NoSubject
<1>3. HolderOK'
  BY <1>a, PluginsAssumption DEF HolderOK, InsideHolds, Section
<1>4. InsideHolds'
  BY <1>a, PluginsAssumption DEF InsideHolds, PlugRowsOK, Section
<1>5. AloneInside'
  BY <1>a, PluginsAssumption DEF AloneInside, Section
<1>6. WatcherHeldOff'
  BY <1>a, PluginsAssumption DEF WatcherHeldOff, AloneInside, Inside, Section
<1>7. EnvRead'
  BY <1>a, PluginsAssumption DEF EnvRead, AloneInside, EnvComplete, Section,
    AtWork, Subject
<1>8. EnvComplete'
  BY <1>a, PluginsAssumption DEF EnvComplete, EnvRead, AloneInside, AtWork,
    Section, Subject
<1>9. OneStart'
  BY <1>a, PluginsAssumption DEF OneStart, Starting
<1>10. StartServes'
  BY <1>a, PluginsAssumption DEF StartServes, OneStart, Starting, Current
<1>11. Announced'
  BY <1>a, PluginsAssumption DEF Announced, StartServes, OneStart, Current,
    Starting, AtWork, Announces, Subject
<1>12. NoGhostEntry'
  BY <1>a, PluginsAssumption DEF NoGhostEntry, SwitchKnows, StartServes,
    PlugCallsOK, PlugRowsOK, AtWork, At, Subject, Current, NoSubject
<1>13. SwitchKnows'
  BY <1>a, PluginsAssumption DEF SwitchKnows, NoGhostEntry, At, Subject,
    AtWork
<1> QED
  BY <1>1, <1>2, <1>3, <1>4, <1>5, <1>6, <1>7, <1>8, <1>9, <1>10, <1>11,
    <1>12, <1>13

\* MarkPlugin (install_plugin) keeps the invariant.
LEMMA MarkPluginStep ==
    ASSUME PluginsIInv, NEW r \in PluginRequest, MarkPlugin(r)
    PROVE  PluginsIInv'
<1> USE DEF PluginsIInv
<1>a. /\ preq' \in [PluginRequest -> PluginCall]
      /\ \A q \in PluginRequest : q # r => preq'[q] = preq[q]
      /\ preq[r].pc \in {"markRemoved", "markSwitched"} /\ preq'[r].pc = "idle"
      /\ preq'[r].plugin = preq[r].plugin /\ preq'[r].to = preq[r].to /\ preq'[r].env = preq[r].env
      /\ changed' = TRUE
      /\ UNCHANGED <<dir, env, info, holder, lockFile, served, begun, troubles, shared, hurried, revived>>
  <2>1. Go(r, "idle") /\ preq[r].pc \in {"markRemoved", "markSwitched"}
    BY DEF MarkPlugin, At
  <2>2. QED
    BY <2>1, GoMoves DEF MarkPlugin, At, Hurry, Histories, Subject, PluginStep, Section, Removing, Switching, PlugCallsOK, PlugRowsOK
<1>1. PlugRowsOK'
  BY <1>a, PluginsAssumption DEF PlugRowsOK, PlugCallsOK, NoSubject
<1>2. PlugCallsOK'
  BY <1>a, PluginsAssumption DEF PlugCallsOK, NoSubject
<1>3. HolderOK'
  BY <1>a, PluginsAssumption DEF HolderOK, InsideHolds, Section
<1>4. InsideHolds'
  BY <1>a, PluginsAssumption DEF InsideHolds, PlugRowsOK, Section
<1>5. AloneInside'
  BY <1>a, PluginsAssumption DEF AloneInside, Section
<1>6. WatcherHeldOff'
  BY <1>a, PluginsAssumption DEF WatcherHeldOff, AloneInside, Inside, Section
<1>7. EnvRead'
  BY <1>a, PluginsAssumption DEF EnvRead, AloneInside, EnvComplete, Section,
    AtWork, Subject
<1>8. EnvComplete'
  BY <1>a, PluginsAssumption DEF EnvComplete, EnvRead, AloneInside, AtWork,
    Section, Subject
<1>9. OneStart'
  BY <1>a, PluginsAssumption DEF OneStart, Starting
<1>10. StartServes'
  BY <1>a, PluginsAssumption DEF StartServes, OneStart, Starting, Current
<1>11. Announced'
  BY <1>a, PluginsAssumption DEF Announced, StartServes, OneStart, Current,
    Starting, AtWork, Announces, Subject
<1>12. NoGhostEntry'
  BY <1>a, PluginsAssumption DEF NoGhostEntry, SwitchKnows, StartServes,
    PlugCallsOK, PlugRowsOK, AtWork, At, Subject, Current, NoSubject
<1>13. SwitchKnows'
  BY <1>a, PluginsAssumption DEF SwitchKnows, NoGhostEntry, At, Subject,
    AtWork
<1> QED
  BY <1>1, <1>2, <1>3, <1>4, <1>5, <1>6, <1>7, <1>8, <1>9, <1>10, <1>11,
    <1>12, <1>13

\* SwitchPlugin (PluginService.update_status) keeps the invariant.
LEMMA SwitchPluginStep ==
    ASSUME PluginsIInv, NEW r \in PluginRequest, NEW p \in Plugin,
           SwitchPlugin(r, p)
    PROVE  PluginsIInv'
<1> USE DEF PluginsIInv
<1>a. /\ preq' \in [PluginRequest -> PluginCall]
      /\ \A q \in PluginRequest : q # r => preq'[q] = preq[q]
      /\ preq[r].pc = "idle" /\ preq'[r].pc = "switch" /\ preq'[r].plugin = p /\ preq'[r].to \in {"on", "off"}
      /\ info[p] # "none"
      /\ begun < MaxRequests /\ begun' = begun + 1
      /\ UNCHANGED <<dir, env, info, changed, holder, lockFile, served, troubles, shared, hurried, revived>>
  <2>1. QED
    BY BeginMoves DEF SwitchPlugin, BeginPlugin, Histories, PluginStep, Section, Removing, Switching, PlugCallsOK, PlugRowsOK
<1>1. PlugRowsOK'
  BY <1>a, PluginsAssumption DEF PlugRowsOK, PlugCallsOK, NoSubject
<1>2. PlugCallsOK'
  BY <1>a, PluginsAssumption DEF PlugCallsOK, NoSubject
<1>3. HolderOK'
  BY <1>a, PluginsAssumption DEF HolderOK, InsideHolds, Section
<1>4. InsideHolds'
  BY <1>a, PluginsAssumption DEF InsideHolds, PlugRowsOK, Section
<1>5. AloneInside'
  BY <1>a, PluginsAssumption DEF AloneInside, Section
<1>6. WatcherHeldOff'
  BY <1>a, PluginsAssumption DEF WatcherHeldOff, AloneInside, Inside, Section
<1>7. EnvRead'
  BY <1>a, PluginsAssumption DEF EnvRead, AloneInside, EnvComplete, Section,
    AtWork, Subject
<1>8. EnvComplete'
  BY <1>a, PluginsAssumption DEF EnvComplete, EnvRead, AloneInside, AtWork,
    Section, Subject
<1>9. OneStart'
  BY <1>a, PluginsAssumption DEF OneStart, Starting
<1>10. StartServes'
  BY <1>a, PluginsAssumption DEF StartServes, OneStart, Starting, Current
<1>11. Announced'
  BY <1>a, PluginsAssumption DEF Announced, StartServes, OneStart, Current,
    Starting, AtWork, Announces, Subject
<1>12. NoGhostEntry'
  BY <1>a, PluginsAssumption DEF NoGhostEntry, SwitchKnows, StartServes,
    PlugCallsOK, PlugRowsOK, AtWork, At, Subject, Current, NoSubject
<1>13. SwitchKnows'
  BY <1>a, PluginsAssumption DEF SwitchKnows, NoGhostEntry, At, Subject,
    AtWork
<1> QED
  BY <1>1, <1>2, <1>3, <1>4, <1>5, <1>6, <1>7, <1>8, <1>9, <1>10, <1>11,
    <1>12, <1>13

\* StoreSwitch (PluginService.update_status) keeps the invariant.
LEMMA StoreSwitchStep ==
    ASSUME PluginsIInv, NEW r \in PluginRequest, StoreSwitch(r)
    PROVE  PluginsIInv'
<1> USE DEF PluginsIInv
<1>a. /\ preq' \in [PluginRequest -> PluginCall]
      /\ \A q \in PluginRequest : q # r => preq'[q] = preq[q]
      /\ preq[r].pc = "switch" /\ preq'[r].pc = "markSwitched"
      /\ preq'[r].plugin = preq[r].plugin /\ preq'[r].to = preq[r].to /\ preq'[r].env = preq[r].env
      /\ info' = [info EXCEPT ![preq[r].plugin] = preq[r].to]
      /\ hurried' = IF Starting THEN hurried \cup {preq[r].plugin} ELSE hurried
      /\ UNCHANGED <<dir, env, changed, holder, lockFile, served, begun, troubles, shared, revived>>
  <2>1. Go(r, "markSwitched") /\ preq[r].pc = "switch"
    BY DEF StoreSwitch, At
  <2>2. QED
    BY <2>1, GoMoves DEF StoreSwitch, At, Hurry, Histories, Subject, PluginStep, Section, Removing, Switching, PlugCallsOK, PlugRowsOK
<1>1. PlugRowsOK'
  <2>1. preq[r].to \in {"none", "on", "off"} /\ preq[r].plugin \in Plugin
    BY <1>a DEF PlugCallsOK, PluginCall, NoSubject
  <2>2. QED
    BY <1>a, <2>1 DEF PlugRowsOK
<1>2. PlugCallsOK'
  BY <1>a, PluginsAssumption DEF PlugCallsOK, NoSubject
<1>3. HolderOK'
  BY <1>a, PluginsAssumption DEF HolderOK, InsideHolds, Section
<1>4. InsideHolds'
  BY <1>a, PluginsAssumption DEF InsideHolds, PlugRowsOK, Section
<1>5. AloneInside'
  BY <1>a, PluginsAssumption DEF AloneInside, Section
<1>6. WatcherHeldOff'
  BY <1>a, PluginsAssumption DEF WatcherHeldOff, AloneInside, Inside, Section
<1>7. EnvRead'
  BY <1>a, PluginsAssumption DEF EnvRead, AloneInside, EnvComplete, Section,
    AtWork, Subject
<1>8. EnvComplete'
  BY <1>a, PluginsAssumption DEF EnvComplete, EnvRead, AloneInside, AtWork,
    Section, Subject
<1>9. OneStart'
  BY <1>a, PluginsAssumption DEF OneStart, Starting
<1>10. StartServes'
  BY <1>a, PluginsAssumption DEF StartServes, OneStart, Starting, Current
<1>11. Announced'
  BY <1>a, PluginsAssumption DEF Announced, StartServes, OneStart, Current,
    Starting, AtWork, Announces, Subject
<1>12. NoGhostEntry'
  BY <1>a, PluginsAssumption DEF NoGhostEntry, SwitchKnows, StartServes,
    PlugCallsOK, PlugRowsOK, AtWork, At, Subject, Current, NoSubject
<1>13. SwitchKnows'
  BY <1>a, PluginsAssumption DEF SwitchKnows, NoGhostEntry, At, Subject,
    AtWork
<1> QED
  BY <1>1, <1>2, <1>3, <1>4, <1>5, <1>6, <1>7, <1>8, <1>9, <1>10, <1>11,
    <1>12, <1>13

\* UsePlugin (PluginStatusChecker.__call__) keeps the invariant.
LEMMA UsePluginStep ==
    ASSUME PluginsIInv, NEW r \in PluginRequest, NEW p \in Plugin,
           UsePlugin(r, p)
    PROVE  PluginsIInv'
<1> USE DEF PluginsIInv
<1>a. /\ preq' \in [PluginRequest -> PluginCall]
      /\ \A q \in PluginRequest : q # r => preq'[q] = preq[q]
      /\ preq[r].pc = "idle" /\ preq'[r].pc = "repair" /\ preq'[r].plugin = p /\ preq'[r].to = "none"
      /\ begun < MaxRequests /\ begun' = begun + 1
      /\ UNCHANGED <<dir, env, info, changed, holder, lockFile, served, troubles, shared, hurried, revived>>
  <2>1. QED
    BY BeginMoves DEF UsePlugin, BeginPlugin, Histories, PluginStep, Section, Removing, Switching, PlugCallsOK, PlugRowsOK
<1>1. PlugRowsOK'
  BY <1>a, PluginsAssumption DEF PlugRowsOK, PlugCallsOK, NoSubject
<1>2. PlugCallsOK'
  BY <1>a, PluginsAssumption DEF PlugCallsOK, NoSubject
<1>3. HolderOK'
  BY <1>a, PluginsAssumption DEF HolderOK, InsideHolds, Section
<1>4. InsideHolds'
  BY <1>a, PluginsAssumption DEF InsideHolds, PlugRowsOK, Section
<1>5. AloneInside'
  BY <1>a, PluginsAssumption DEF AloneInside, Section
<1>6. WatcherHeldOff'
  BY <1>a, PluginsAssumption DEF WatcherHeldOff, AloneInside, Inside, Section
<1>7. EnvRead'
  BY <1>a, PluginsAssumption DEF EnvRead, AloneInside, EnvComplete, Section,
    AtWork, Subject
<1>8. EnvComplete'
  BY <1>a, PluginsAssumption DEF EnvComplete, EnvRead, AloneInside, AtWork,
    Section, Subject
<1>9. OneStart'
  BY <1>a, PluginsAssumption DEF OneStart, Starting
<1>10. StartServes'
  BY <1>a, PluginsAssumption DEF StartServes, OneStart, Starting, Current
<1>11. Announced'
  BY <1>a, PluginsAssumption DEF Announced, StartServes, OneStart, Current,
    Starting, AtWork, Announces, Subject
<1>12. NoGhostEntry'
  BY <1>a, PluginsAssumption DEF NoGhostEntry, SwitchKnows, StartServes,
    PlugCallsOK, PlugRowsOK, AtWork, At, Subject, Current, NoSubject
<1>13. SwitchKnows'
  BY <1>a, PluginsAssumption DEF SwitchKnows, NoGhostEntry, At, Subject,
    AtWork
<1> QED
  BY <1>1, <1>2, <1>3, <1>4, <1>5, <1>6, <1>7, <1>8, <1>9, <1>10, <1>11,
    <1>12, <1>13

\* RepairEntry (repair_plugin_cache, get_plugin_enable) keeps the invariant.
LEMMA RepairEntryStep ==
    ASSUME PluginsIInv, NEW r \in PluginRequest, RepairEntry(r)
    PROVE  PluginsIInv'
<1> USE DEF PluginsIInv
<1>a. /\ preq' \in [PluginRequest -> PluginCall]
      /\ \A q \in PluginRequest : q # r => preq'[q] = preq[q]
      /\ preq[r].pc = "repair" /\ preq'[r].pc = "idle"
      /\ preq'[r].plugin = preq[r].plugin /\ preq'[r].to = preq[r].to /\ preq'[r].env = preq[r].env
      /\ info' = [info EXCEPT ![preq[r].plugin] = "on"]
      /\ revived' = revived \cup ({preq[r].plugin} \ dir)
      /\ hurried' = IF info[preq[r].plugin] = "none" THEN hurried ELSE hurried \cup {preq[r].plugin}
      /\ UNCHANGED <<dir, env, changed, holder, lockFile, served, begun, troubles, shared>>
  <2>1. Go(r, "idle") /\ preq[r].pc = "repair"
    BY DEF RepairEntry, At
  <2>2. QED
    BY <2>1, GoMoves DEF RepairEntry, At, Hurry, Histories, Subject, PluginStep, Section, Removing, Switching, PlugCallsOK, PlugRowsOK
<1>1. PlugRowsOK'
  BY <1>a, PluginsAssumption DEF PlugRowsOK, PlugCallsOK, NoSubject
<1>2. PlugCallsOK'
  BY <1>a, PluginsAssumption DEF PlugCallsOK, NoSubject
<1>3. HolderOK'
  BY <1>a, PluginsAssumption DEF HolderOK, InsideHolds, Section
<1>4. InsideHolds'
  BY <1>a, PluginsAssumption DEF InsideHolds, PlugRowsOK, Section
<1>5. AloneInside'
  BY <1>a, PluginsAssumption DEF AloneInside, Section
<1>6. WatcherHeldOff'
  BY <1>a, PluginsAssumption DEF WatcherHeldOff, AloneInside, Inside, Section
<1>7. EnvRead'
  BY <1>a, PluginsAssumption DEF EnvRead, AloneInside, EnvComplete, Section,
    AtWork, Subject
<1>8. EnvComplete'
  BY <1>a, PluginsAssumption DEF EnvComplete, EnvRead, AloneInside, AtWork,
    Section, Subject
<1>9. OneStart'
  BY <1>a, PluginsAssumption DEF OneStart, Starting
<1>10. StartServes'
  BY <1>a, PluginsAssumption DEF StartServes, OneStart, Starting, Current
<1>11. Announced'
  BY <1>a, PluginsAssumption DEF Announced, StartServes, OneStart, Current,
    Starting, AtWork, Announces, Subject
<1>12. NoGhostEntry'
  BY <1>a, PluginsAssumption DEF NoGhostEntry, SwitchKnows, StartServes,
    PlugCallsOK, PlugRowsOK, AtWork, At, Subject, Current, NoSubject
<1>13. SwitchKnows'
  BY <1>a, PluginsAssumption DEF SwitchKnows, NoGhostEntry, At, Subject,
    AtWork
<1> QED
  BY <1>1, <1>2, <1>3, <1>4, <1>5, <1>6, <1>7, <1>8, <1>9, <1>10, <1>11,
    <1>12, <1>13

\* StartServer (get_enabled_plugins) keeps the invariant.
LEMMA StartServerStep ==
    ASSUME PluginsIInv, NEW r \in PluginRequest, StartServer(r)
    PROVE  PluginsIInv'
<1> USE DEF PluginsIInv
<1>a. /\ preq' \in [PluginRequest -> PluginCall]
      /\ \A q \in PluginRequest : q # r => preq'[q] = preq[q]
      /\ preq[r].pc = "idle" /\ preq'[r].pc = "load" /\ preq'[r].plugin = "none" /\ preq'[r].to = "none"
      /\ ~Starting
      /\ begun < MaxRequests /\ begun' = begun + 1
      /\ UNCHANGED <<dir, env, info, changed, holder, lockFile, served, troubles, shared, hurried, revived>>
  <2>1. QED
    BY BeginMoves DEF StartServer, BeginPlugin, Histories, PluginStep, Section, Removing, Switching, PlugCallsOK, PlugRowsOK
<1>1. PlugRowsOK'
  BY <1>a, PluginsAssumption DEF PlugRowsOK, PlugCallsOK, NoSubject
<1>2. PlugCallsOK'
  BY <1>a, PluginsAssumption DEF PlugCallsOK, NoSubject
<1>3. HolderOK'
  BY <1>a, PluginsAssumption DEF HolderOK, InsideHolds, Section
<1>4. InsideHolds'
  BY <1>a, PluginsAssumption DEF InsideHolds, PlugRowsOK, Section
<1>5. AloneInside'
  BY <1>a, PluginsAssumption DEF AloneInside, Section
<1>6. WatcherHeldOff'
  BY <1>a, PluginsAssumption DEF WatcherHeldOff, AloneInside, Inside, Section
<1>7. EnvRead'
  BY <1>a, PluginsAssumption DEF EnvRead, AloneInside, EnvComplete, Section,
    AtWork, Subject
<1>8. EnvComplete'
  BY <1>a, PluginsAssumption DEF EnvComplete, EnvRead, AloneInside, AtWork,
    Section, Subject
<1>9. OneStart'
  BY <1>a, PluginsAssumption DEF OneStart, Starting
<1>10. StartServes'
  BY <1>a, PluginsAssumption DEF StartServes, OneStart, Starting, Current
<1>11. Announced'
  BY <1>a, PluginsAssumption DEF Announced, StartServes, OneStart, Current,
    Starting, AtWork, Announces, Subject
<1>12. NoGhostEntry'
  BY <1>a, PluginsAssumption DEF NoGhostEntry, SwitchKnows, StartServes,
    PlugCallsOK, PlugRowsOK, AtWork, At, Subject, Current, NoSubject
<1>13. SwitchKnows'
  BY <1>a, PluginsAssumption DEF SwitchKnows, NoGhostEntry, At, Subject,
    AtWork
<1> QED
  BY <1>1, <1>2, <1>3, <1>4, <1>5, <1>6, <1>7, <1>8, <1>9, <1>10, <1>11,
    <1>12, <1>13

\* LoadPlugins (parse_plugin_config) keeps the invariant.
LEMMA LoadPluginsStep ==
    ASSUME PluginsIInv, NEW r \in PluginRequest, LoadPlugins(r)
    PROVE  PluginsIInv'
<1> USE DEF PluginsIInv
<1>a. /\ preq' \in [PluginRequest -> PluginCall]
      /\ \A q \in PluginRequest : q # r => preq'[q] = preq[q]
      /\ preq[r].pc = "load" /\ preq'[r].pc = "store"
      /\ preq'[r].plugin = preq[r].plugin /\ preq'[r].to = preq[r].to /\ preq'[r].env = preq[r].env
      /\ served' = [p \in Plugin |-> Current(p)]
      /\ UNCHANGED <<dir, env, info, changed, holder, lockFile, begun, troubles, shared, hurried, revived>>
  <2>1. Go(r, "store") /\ preq[r].pc = "load"
    BY DEF LoadPlugins, At
  <2>2. QED
    BY <2>1, GoMoves DEF LoadPlugins, At, Hurry, Histories, Subject, PluginStep, Section, Removing, Switching, PlugCallsOK, PlugRowsOK
<1>1. PlugRowsOK'
  BY <1>a, PluginsAssumption DEF Current, PlugRowsOK, PlugCallsOK, NoSubject
<1>2. PlugCallsOK'
  BY <1>a, PluginsAssumption DEF Current, PlugCallsOK, NoSubject
<1>3. HolderOK'
  BY <1>a, PluginsAssumption DEF Current, HolderOK, InsideHolds, Section
<1>4. InsideHolds'
  BY <1>a, PluginsAssumption DEF Current, InsideHolds, PlugRowsOK, Section
<1>5. AloneInside'
  BY <1>a, PluginsAssumption DEF Current, AloneInside, Section
<1>6. WatcherHeldOff'
  BY <1>a, PluginsAssumption DEF Current, WatcherHeldOff, AloneInside, Inside,
    Section
<1>7. EnvRead'
  BY <1>a, PluginsAssumption DEF Current, EnvRead, AloneInside, EnvComplete,
    Section, AtWork, Subject
<1>8. EnvComplete'
  BY <1>a, PluginsAssumption DEF Current, EnvComplete, EnvRead, AloneInside,
    AtWork, Section, Subject
<1>9. OneStart'
  BY <1>a, PluginsAssumption DEF Current, OneStart, Starting
<1>10. StartServes'
  BY <1>a, PluginsAssumption DEF Current, StartServes, OneStart, Starting
<1>11. Announced'
  BY <1>a, PluginsAssumption DEF Current, Announced, StartServes, OneStart,
    Starting, AtWork, Announces, Subject
<1>12. NoGhostEntry'
  BY <1>a, PluginsAssumption DEF Current, NoGhostEntry, SwitchKnows,
    StartServes, PlugCallsOK, PlugRowsOK, AtWork, At, Subject, NoSubject
<1>13. SwitchKnows'
  BY <1>a, PluginsAssumption DEF Current, SwitchKnows, NoGhostEntry, At,
    Subject, AtWork
<1> QED
  BY <1>1, <1>2, <1>3, <1>4, <1>5, <1>6, <1>7, <1>8, <1>9, <1>10, <1>11,
    <1>12, <1>13

\* StoreEntries (parse_plugin_config) keeps the invariant.
LEMMA StoreEntriesStep ==
    ASSUME PluginsIInv, NEW r \in PluginRequest, StoreEntries(r)
    PROVE  PluginsIInv'
<1> USE DEF PluginsIInv
<1>a. /\ preq' \in [PluginRequest -> PluginCall]
      /\ \A q \in PluginRequest : q # r => preq'[q] = preq[q]
      /\ preq[r].pc = "store" /\ preq'[r].pc = "unmark"
      /\ preq'[r].plugin = preq[r].plugin /\ preq'[r].to = preq[r].to /\ preq'[r].env = preq[r].env
      /\ info' = served
      /\ UNCHANGED <<dir, env, changed, holder, lockFile, served, begun, troubles, shared, hurried, revived>>
  <2>1. Go(r, "unmark") /\ preq[r].pc = "store"
    BY DEF StoreEntries, At
  <2>2. QED
    BY <2>1, GoMoves DEF StoreEntries, At, Hurry, Histories, Subject, PluginStep, Section, Removing, Switching, PlugCallsOK, PlugRowsOK
<1>1. PlugRowsOK'
  BY <1>a, PluginsAssumption DEF PlugRowsOK, PlugCallsOK, NoSubject
<1>2. PlugCallsOK'
  BY <1>a, PluginsAssumption DEF PlugCallsOK, NoSubject
<1>3. HolderOK'
  BY <1>a, PluginsAssumption DEF HolderOK, InsideHolds, Section
<1>4. InsideHolds'
  BY <1>a, PluginsAssumption DEF InsideHolds, PlugRowsOK, Section
<1>5. AloneInside'
  BY <1>a, PluginsAssumption DEF AloneInside, Section
<1>6. WatcherHeldOff'
  BY <1>a, PluginsAssumption DEF WatcherHeldOff, AloneInside, Inside, Section
<1>7. EnvRead'
  BY <1>a, PluginsAssumption DEF EnvRead, AloneInside, EnvComplete, Section,
    AtWork, Subject
<1>8. EnvComplete'
  BY <1>a, PluginsAssumption DEF EnvComplete, EnvRead, AloneInside, AtWork,
    Section, Subject
<1>9. OneStart'
  BY <1>a, PluginsAssumption DEF OneStart, Starting
<1>10. StartServes'
  BY <1>a, PluginsAssumption DEF StartServes, OneStart, Starting, Current
<1>11. Announced'
  BY <1>a, PluginsAssumption DEF Announced, StartServes, OneStart, Current,
    Starting, AtWork, Announces, Subject
<1>12. NoGhostEntry'
  BY <1>a, PluginsAssumption DEF NoGhostEntry, SwitchKnows, StartServes,
    PlugCallsOK, PlugRowsOK, AtWork, At, Subject, Current, NoSubject
<1>13. SwitchKnows'
  BY <1>a, PluginsAssumption DEF SwitchKnows, NoGhostEntry, At, Subject,
    AtWork
<1> QED
  BY <1>1, <1>2, <1>3, <1>4, <1>5, <1>6, <1>7, <1>8, <1>9, <1>10, <1>11,
    <1>12, <1>13

\* ClearMark (parse_plugin_config) keeps the invariant.
LEMMA ClearMarkStep ==
    ASSUME PluginsIInv, NEW r \in PluginRequest, ClearMark(r)
    PROVE  PluginsIInv'
<1> USE DEF PluginsIInv
<1>a. /\ preq' \in [PluginRequest -> PluginCall]
      /\ \A q \in PluginRequest : q # r => preq'[q] = preq[q]
      /\ preq[r].pc = "unmark" /\ preq'[r].pc = "idle"
      /\ preq'[r].plugin = preq[r].plugin /\ preq'[r].to = preq[r].to /\ preq'[r].env = preq[r].env
      /\ changed' = FALSE
      /\ UNCHANGED <<dir, env, info, holder, lockFile, served, begun, troubles, shared, hurried, revived>>
  <2>1. Go(r, "idle") /\ preq[r].pc = "unmark"
    BY DEF ClearMark, At
  <2>2. QED
    BY <2>1, GoMoves DEF ClearMark, At, Hurry, Histories, Subject, PluginStep, Section, Removing, Switching, PlugCallsOK, PlugRowsOK
<1>1. PlugRowsOK'
  BY <1>a, PluginsAssumption DEF PlugRowsOK, PlugCallsOK, NoSubject
<1>2. PlugCallsOK'
  BY <1>a, PluginsAssumption DEF PlugCallsOK, NoSubject
<1>3. HolderOK'
  BY <1>a, PluginsAssumption DEF HolderOK, InsideHolds, Section
<1>4. InsideHolds'
  BY <1>a, PluginsAssumption DEF InsideHolds, PlugRowsOK, Section
<1>5. AloneInside'
  BY <1>a, PluginsAssumption DEF AloneInside, Section
<1>6. WatcherHeldOff'
  BY <1>a, PluginsAssumption DEF WatcherHeldOff, AloneInside, Inside, Section
<1>7. EnvRead'
  BY <1>a, PluginsAssumption DEF EnvRead, AloneInside, EnvComplete, Section,
    AtWork, Subject
<1>8. EnvComplete'
  BY <1>a, PluginsAssumption DEF EnvComplete, EnvRead, AloneInside, AtWork,
    Section, Subject
<1>9. OneStart'
  BY <1>a, PluginsAssumption DEF OneStart, Starting
<1>10. StartServes'
  BY <1>a, PluginsAssumption DEF StartServes, OneStart, Starting, Current
<1>11. Announced'
  BY <1>a, PluginsAssumption DEF Announced, StartServes, OneStart, Current,
    Starting, AtWork, Announces, Subject
<1>12. NoGhostEntry'
  BY <1>a, PluginsAssumption DEF NoGhostEntry, SwitchKnows, StartServes,
    PlugCallsOK, PlugRowsOK, AtWork, At, Subject, Current, NoSubject
<1>13. SwitchKnows'
  BY <1>a, PluginsAssumption DEF SwitchKnows, NoGhostEntry, At, Subject,
    AtWork
<1> QED
  BY <1>1, <1>2, <1>3, <1>4, <1>5, <1>6, <1>7, <1>8, <1>9, <1>10, <1>11,
    <1>12, <1>13

\* The initial state satisfies the invariant.
LEMMA PluginsIInvInit ==
    ASSUME PluginsInit
    PROVE  PluginsIInv
<1>1. \A r \in PluginRequest : preq[r].pc = "idle" /\ preq[r] = PluginIdle
  BY DEF PluginsInit, PluginIdle
<1>2. PluginIdle \in PluginCall
  BY DEF PluginIdle, PluginCall, PluginStep
<1>3. PlugRowsOK
  <2>1. Installed \in [Plugin -> {"none", "on", "off"}]
    BY DEF Installed
  <2>2. 0 \in 0..MaxRequests /\ 0 \in 0..MaxLockTrouble
    BY PluginsAssumption
  <2>3. QED
    BY <2>1, <2>2, PluginsAssumption DEF PluginsInit, PlugRowsOK
<1>4. PlugCallsOK
  BY <1>1, <1>2 DEF PluginsInit, PlugCallsOK, NoSubject
<1>5. HolderOK /\ InsideHolds /\ AloneInside /\ WatcherHeldOff /\ EnvRead /\ OneStart
  BY <1>1 DEF PluginsInit, HolderOK, InsideHolds, AloneInside, WatcherHeldOff, Inside, Section, EnvRead, OneStart
<1>6. EnvComplete /\ SwitchKnows
  BY <1>1 DEF PluginsInit, EnvComplete, SwitchKnows, At
<1>7. \A p \in Plugin : Current(p) = served[p] /\ (p \in dir <=> info[p] # "none")
  BY DEF PluginsInit, Current, Installed
<1>8. StartServes /\ Announced /\ NoGhostEntry
  BY <1>1, <1>7 DEF StartServes, Announced, NoGhostEntry
<1>9. QED
  BY <1>3, <1>4, <1>5, <1>6, <1>8 DEF PluginsIInv

\* Every step keeps it.
LEMMA PluginsIInvStep == PluginsIInv /\ [PluginsNext]_pluginVars => PluginsIInv'
<1> SUFFICES ASSUME PluginsIInv, [PluginsNext]_pluginVars PROVE PluginsIInv'
  OBVIOUS
<1>1. CASE UNCHANGED pluginVars
  BY <1>1 DEF pluginVars, PluginsIInv, PlugRowsOK, PlugCallsOK, HolderOK, InsideHolds, AloneInside,
     WatcherHeldOff, Inside, EnvRead, EnvComplete, AtWork, Subject, OneStart, StartServes, Current,
     Announced, Starting, NoGhostEntry, SwitchKnows, At
<1>2. CASE LockExpires
  BY <1>2, LockExpiresStep
<1>3. ASSUME NEW r \in PluginRequest, NEW p \in Plugin,
             InstallPlugin(r, p) \/ Uninstall(r, p) \/ SwitchPlugin(r, p) \/ UsePlugin(r, p)
      PROVE  PluginsIInv'
  BY <1>3, InstallPluginStep, UninstallStep, SwitchPluginStep, UsePluginStep
<1>4. ASSUME NEW r \in PluginRequest, EnterLock(r) \/ Unlink(r) \/ Unlock(r) \/ Clone(r) \/ ReadEnv(r)
                                      \/ WriteEnv(r) \/ MarkInstalled(r) \/ RequirementsFail(r)
      PROVE  PluginsIInv'
  BY <1>4, EnterLockStep, UnlinkStep, UnlockStep, CloneStep, ReadEnvStep, WriteEnvStep, MarkInstalledStep,
     RequirementsFailStep
<1>5. ASSUME NEW r \in PluginRequest, RemovePlugin(r) \/ ForgetPlugin(r) \/ MarkPlugin(r) \/ StoreSwitch(r)
                                      \/ RepairEntry(r) \/ StartServer(r) \/ LoadPlugins(r) \/ StoreEntries(r)
                                      \/ ClearMark(r)
      PROVE  PluginsIInv'
  BY <1>5, RemovePluginStep, ForgetPluginStep, MarkPluginStep, StoreSwitchStep, RepairEntryStep,
     StartServerStep, LoadPluginsStep, StoreEntriesStep, ClearMarkStep
<1>6. QED
  BY <1>1, <1>2, <1>3, <1>4, <1>5 DEF PluginsNext

\* It implies what the run checks.
LEMMA PluginsIInvEnough == PluginsIInv => PluginsInv
<1> SUFFICES ASSUME PluginsIInv PROVE PluginsInv
  OBVIOUS
<1>1. Cardinality(holder) <= 1
  <2>1. CASE holder = {}
    BY <2>1, FS_EmptySet
  <2>2. ASSUME NEW r \in PluginRequest, holder = {r} PROVE Cardinality(holder) <= 1
    BY <2>2, FS_Singleton
  <2>3. QED
    BY <2>1, <2>2 DEF PluginsIInv, HolderOK
<1>2. PluginsTypeOK
  <2>1. \A r \in PluginRequest : preq[r].pc \in PluginStep
    BY DEF PluginsIInv, PlugCallsOK, PluginCall
  <2>2. holder \subseteq {r \in PluginRequest : preq[r].pc \in Section \cup {"unlock"}}
    BY DEF PluginsIInv, HolderOK
  <2>3. QED
    BY <1>1, <2>1, <2>2 DEF PluginsIInv, PluginsTypeOK, PlugRowsOK
<1>3. ApartUnlessTrouble
  <2>1. CASE troubles > 0
    BY <2>1 DEF ApartUnlessTrouble
  <2>2. CASE troubles = 0
    <3>1. Inside \subseteq holder
      BY <2>2 DEF PluginsIInv, InsideHolds, Inside
    <3>2. CASE Inside = {}
      BY <3>2, FS_EmptySet DEF ApartUnlessTrouble
    <3>3. CASE Inside # {}
      <4>1. PICK r \in PluginRequest : Inside = {r}
        BY <3>1, <3>3 DEF PluginsIInv, HolderOK
      <4>2. QED
        BY <4>1, FS_Singleton, SMTT(30) DEF ApartUnlessTrouble
    <3>4. QED
      BY <3>2, <3>3
  <2>3. troubles = 0 \/ troubles > 0
    BY PluginsAssumption DEF PluginsIInv, PlugRowsOK
  <2>4. QED
    BY <2>1, <2>2, <2>3
<1>4. ChangeAnnounced
  BY DEF PluginsIInv, Announced, ChangeAnnounced, AtWork, Announces, Section, Removing, Switching
<1>5. QED
  BY <1>2, <1>3, <1>4 DEF PluginsIInv, PluginsInv

\* Every reachable state satisfies the inductive invariant of the plugins.
THEOREM PluginsInductive == PluginsSpec => []PluginsIInv
BY PluginsIInvInit, PluginsIInvStep, PTL DEF PluginsSpec

\* Whatever the order of installations, removals, switches, repairs and starts
\* of the server, directories, entries, settings and marks agree as PluginsInv
\* says: for any plugins, any number of requests and any trouble with the lock.
THEOREM PluginsSafe == PluginsSpec => []PluginsInv
BY PluginsInductive, PluginsIInvEnough, PTL
-----------------------------------------------------------------------------
(* Cached rights and the association tables they are read from.              *)

PermSpec == PermInit /\ [][PermNext]_permVars

PermRowsOK ==
    /\ state \in [Item -> {"new", "on", "off", "gone"}]
    /\ links \subseteq Links /\ chosen \subseteq Links /\ edits \in 0..MaxEdits
    /\ merged \subseteq Tables /\ crossed \subseteq User
PermCopiesOK == read \in [User -> Copies] /\ copy \in [User -> Copies]

\* A change in flight is of a row that is there, each of another one, or of
\* the links of an owner to rows of one table.
PermEditsOK ==
    /\ edit \in [Admin -> {NoEdit} \cup RowEdit \cup LinkEdit] /\ late \in [Admin -> SUBSET Links]
    /\ \A a \in Admin :
        /\ edit[a].kind = "row" => Exists(edit[a].item)
        /\ edit[a].kind = "links" => /\ <<edit[a].owner, edit[a].table>> \in Tables
                                     /\ edit[a].items \subseteq edit[a].table
RowsApart ==
    \A a, b \in Admin :
        edit[a].kind = "row" /\ edit[b].kind = "row" /\ edit[a].item = edit[b].item => a = b

\* What has not been created is in no table, in no copy and in no change.
Made(i)   == i \in User \/ state[i] # "new"
LinksMade  == \A l \in links : Made(l[1]) /\ Made(l[2])
EditsMade  == \A a \in Admin :
                  edit[a].kind = "links" => Made(edit[a].owner) /\ \A i \in edit[a].items : Made(i)
CopiesMade == \A u \in User : \A m \in copy[u].perms \cup read[u].perms : Made(m)

\* A copy grants what the database grants.
Grants(c, u) ==
    /\ {m \in c.perms : Exists(m)} = Perms(u)
    /\ c.all <=> AllData(u)
    /\ c.rules = RulesOf(u)

\* A copy that is not crossed is current, and no change in flight concerns it;
\* one that is read but not stored, and not crossed, met no change at all.
CopiesCurrent ==
    \A u \in User \ crossed : copy[u].known =>
        /\ \A c \in {copy[u]} : Grants(c, u)
        /\ \A b \in Admin : \A e \in {edit[b]} : e # NoEdit => u \notin Cleared(e)
ReadsAlone ==
    \A u \in User \ crossed : read[u].known =>
        /\ \A c \in {read[u]} : Grants(c, u)
        /\ \A b \in Admin : edit[b] = NoEdit

\* Two changes that replace the same set at once are on record; they are not
\* of the roles of a user.
SameSet(a, b) == /\ edit[a].kind = "links" /\ edit[b].kind = "links"
                 /\ edit[a].owner = edit[b].owner /\ edit[a].table = edit[b].table
Merges(a)     == <<edit[a].owner, edit[a].table>> \in merged /\ edit[a].owner \notin User
PairsMerged   == \A a, b \in Admin : SameSet(a, b) /\ a # b => Merges(a)
LateMerged    ==
    \A a \in Admin : \A l \in late[a] :
        edit[a].kind = "links" /\ l \in {edit[a].owner} \X edit[a].table => Merges(a)

\* The inductive invariant of the rights.
PermIInv ==
    /\ PermRowsOK /\ PermCopiesOK /\ PermEditsOK /\ RowsApart /\ LinksMade /\ EditsMade /\ CopiesMade
    /\ CopiesCurrent /\ ReadsAlone /\ PairsMerged /\ LateMerged /\ LinksAsChosen

\* What the checks of a request have found for the change it begins.
BeginsRow(a, e) ==
    /\ Begin(a, e) /\ e \in RowEdit /\ Exists(e.item) /\ UNCHANGED merged
    /\ \A b \in Admin : edit[b].kind = "row" => edit[b].item # e.item
BeginsLinks(a, e) ==
    /\ Begin(a, e) /\ e \in LinkEdit /\ <<e.owner, e.table>> \in Tables
    /\ Made(e.owner) /\ e.items \subseteq e.table /\ \A i \in e.items : Exists(i)
    /\ e.owner \in User => \A b \in Admin : edit[b].kind = "links" => edit[b].owner # e.owner
    /\ merged \subseteq merged' /\ merged' \subseteq Tables
    /\ \A b \in Admin : edit[b].kind = "links" /\ edit[b].owner = e.owner /\ edit[b].table = e.table
                            => <<e.owner, e.table>> \in merged'

\* The menu that a change deletes.
Deleted(e) == IF e.kind = "row" /\ e.item \in Menu /\ e.to = "gone" THEN {e.item} ELSE {}


\* Which links are of which association table.
LEMMA TableShape ==
    ASSUME NEW o, NEW t
    PROVE  <<o, t>> \in Tables <=> \/ o \in User /\ t = Role
                                   \/ o \in Role /\ t \in {Menu, Scope}
                                   \/ o \in Scope /\ t = Rule
BY DEF Tables

\* A link is of a user to a role, of a role to a menu or a scope, or of a
\* scope to a rule.
LEMMA LinkShape ==
    /\ \A l \in Links : l = <<l[1], l[2]>>
    /\ \A p, q : <<p, q>> \in Links <=> \/ p \in User /\ q \in Role
                                        \/ p \in Role /\ q \in Menu \cup Scope
                                        \/ p \in Scope /\ q \in Rule
<1>1. \A l : l \in Links <=> \E t \in Tables : l \in {t[1]} \X t[2]
  BY DEF Links
<1>2. \A t \in Tables : t = <<t[1], t[2]>>
  BY DEF Tables
<1>3. \A l : l \in Links <=> \E o, s : <<o, s>> \in Tables /\ l \in {o} \X s
  BY <1>1, <1>2, ZenonT(60)
<1>4. ASSUME NEW l \in Links PROVE l = <<l[1], l[2]>>
  <2>1. PICK o, s : l \in {o} \X s
    BY <1>3
  <2>2. QED
    BY <2>1
<1>5. ASSUME NEW p, NEW q
      PROVE  <<p, q>> \in Links <=> \E s : <<p, s>> \in Tables /\ q \in s
  <2>1. \A o, s : <<p, q>> \in {o} \X s <=> o = p /\ q \in s
    OBVIOUS
  <2>2. QED
    BY <1>3, <2>1, ZenonT(60)
<1>6. ASSUME NEW p, NEW q
      PROVE  <<p, q>> \in Links <=> \/ p \in User /\ q \in Role
                                    \/ p \in Role /\ q \in Menu \cup Scope
                                    \/ p \in Scope /\ q \in Rule
  <2>1. \A s : <<p, s>> \in Tables <=> \/ p \in User /\ s = Role
                                       \/ p \in Role /\ s \in {Menu, Scope}
                                       \/ p \in Scope /\ s = Rule
    BY TableShape
  <2>2. <<p, q>> \in Links <=> \E s : <<p, s>> \in Tables /\ q \in s
    BY <1>5
  <2>3. QED
    BY <2>1, <2>2
<1>7. QED
  BY <1>4, <1>6

\* The fields of a change, by what it changes.
LEMMA EditShape ==
    ASSUME PermEditsOK, NEW a \in Admin
    PROVE  /\ edit[a].kind \in {"none", "row", "links"} /\ NoEdit.kind = "none"
           /\ edit[a] = NoEdit <=> edit[a].kind = "none"
           /\ edit[a].kind = "row" => edit[a] \in RowEdit /\ edit[a].item \in Item /\ edit[a].to \in {"on", "off", "gone"}
           /\ edit[a].kind = "links" =>
                  /\ edit[a] \in LinkEdit /\ edit[a].owner \in Owner /\ edit[a].items \subseteq Item
                  /\ \/ edit[a].owner \in User /\ edit[a].table = Role
                     \/ edit[a].owner \in Role /\ edit[a].table \in {Menu, Scope}
                     \/ edit[a].owner \in Scope /\ edit[a].table = Rule
                  /\ edit[a].items \subseteq edit[a].table
<1>1. edit[a] \in {NoEdit} \cup RowEdit \cup LinkEdit
  BY DEF PermEditsOK
<1>2. edit[a].kind = "links" => <<edit[a].owner, edit[a].table>> \in Tables /\ edit[a].items \subseteq edit[a].table
  BY DEF PermEditsOK
<1>3. edit[a].kind = "links" => \/ edit[a].owner \in User /\ edit[a].table = Role
                                \/ edit[a].owner \in Role /\ edit[a].table \in {Menu, Scope}
                                \/ edit[a].owner \in Scope /\ edit[a].table = Rule
  BY <1>2, TableShape
<1>4. QED
  BY <1>1, <1>2, <1>3 DEF NoEdit, RowEdit, LinkEdit

\* Whose copies a change deletes, by what it changes.
LEMMA ClearedShape ==
    ASSUME NEW e \in RowEdit \cup LinkEdit
    PROVE  /\ e.kind = "row" => /\ e.item \in Role => Cleared(e) = ByRole(e.item)
                                /\ e.item \in Menu /\ e.to # "gone" => Cleared(e) = ByMenu(e.item)
                                /\ e.item \in Menu /\ e.to = "gone" => Cleared(e) = {}
                                /\ e.item \in Scope => Cleared(e) = ByScope(e.item)
                                /\ e.item \in Rule => Cleared(e) = ByRule(e.item)
           /\ e.kind = "links" => /\ e.owner \in User => Cleared(e) = {e.owner}
                                  /\ e.owner \in Role => Cleared(e) = ByRole(e.owner)
                                  /\ e.owner \in Scope => Cleared(e) = ByScope(e.owner)
<1> DEFINE i == IF e.kind = "row" THEN e.item ELSE e.owner
<1>1. Cleared(e) = CASE i \in Role -> ByRole(i)
                     [] i \in Menu -> IF e.to = "gone" THEN {} ELSE ByMenu(i)
                     [] i \in Scope -> ByScope(i)
                     [] i \in Rule -> ByRule(i)
                     [] i \in User -> {i}
  BY DEF Cleared
<1>2. /\ e.kind = "row" => i = e.item
      /\ e.kind = "links" => i = e.owner
  OBVIOUS
<1> HIDE DEF i
<1>3. /\ i \in Role => Cleared(e) = ByRole(i)
      /\ i \in Menu => Cleared(e) = IF e.to = "gone" THEN {} ELSE ByMenu(i)
      /\ i \in Scope => Cleared(e) = ByScope(i)
      /\ i \in Rule => Cleared(e) = ByRule(i)
      /\ i \in User => Cleared(e) = {i}
  BY <1>1, PermissionsAssumption DEF Item
<1>4. QED
  BY <1>2, <1>3

\* The users a change concerns, found through the association tables.
LEMMA ByShape ==
    ASSUME NEW u \in User
    PROVE  /\ \A r : u \in ByRole(r) <=> <<u, r>> \in links
           /\ \A m : u \in ByMenu(m) <=> \E r \in Role : <<u, r>> \in links /\ <<r, m>> \in links
           /\ \A s : u \in ByScope(s) <=> \E r \in Role : <<u, r>> \in links /\ <<r, s>> \in links
           /\ \A x : u \in ByRule(x) <=> \E r \in Role, s \in Scope :
                          <<u, r>> \in links /\ <<r, s>> \in links /\ <<s, x>> \in links
<1>1. \A r : u \in ByRole(r) <=> <<u, r>> \in links
  BY DEF ByRole
<1>2. \A m : u \in ByMenu(m) <=> \E r \in Role : <<r, m>> \in links /\ u \in ByRole(r)
  BY DEF ByMenu
<1>3. \A s : u \in ByScope(s) <=> \E r \in Role : <<r, s>> \in links /\ u \in ByRole(r)
  BY DEF ByScope
<1>4. \A x : u \in ByRule(x) <=> \E s \in Scope : <<s, x>> \in links /\ u \in ByScope(s)
  BY DEF ByRule
<1>5. \A x : u \in ByRule(x) <=> \E r \in Role, s \in Scope :
                  <<u, r>> \in links /\ <<r, s>> \in links /\ <<s, x>> \in links
  BY <1>1, <1>3, <1>4
<1>6. QED
  BY <1>1, <1>2, <1>3, <1>5

\* The same after a step.
LEMMA ByShapeNext ==
    ASSUME NEW u \in User
    PROVE  /\ \A r : u \in ByRole(r)' <=> <<u, r>> \in links'
           /\ \A m : u \in ByMenu(m)' <=> \E r \in Role : <<u, r>> \in links' /\ <<r, m>> \in links'
           /\ \A s : u \in ByScope(s)' <=> \E r \in Role : <<u, r>> \in links' /\ <<r, s>> \in links'
           /\ \A x : u \in ByRule(x)' <=> \E r \in Role, s \in Scope :
                          <<u, r>> \in links' /\ <<r, s>> \in links' /\ <<s, x>> \in links'
<1>1. \A r : u \in ByRole(r)' <=> <<u, r>> \in links'
  BY DEF ByRole
<1>2. \A m : u \in ByMenu(m)' <=> \E r \in Role : <<r, m>> \in links' /\ u \in ByRole(r)'
  BY DEF ByMenu
<1>3. \A s : u \in ByScope(s)' <=> \E r \in Role : <<r, s>> \in links' /\ u \in ByRole(r)'
  BY DEF ByScope
<1>4. \A x : u \in ByRule(x)' <=> \E s \in Scope : <<s, x>> \in links' /\ u \in ByScope(s)'
  BY DEF ByRule
<1>5. \A x : u \in ByRule(x)' <=> \E r \in Role, s \in Scope :
                  <<u, r>> \in links' /\ <<r, s>> \in links' /\ <<s, x>> \in links'
  BY <1>1, <1>3, <1>4
<1>6. QED
  BY <1>1, <1>2, <1>3, <1>5

\* The tables and rows after a commit.
LEMMA CommitShape ==
    ASSUME PermIInv, NEW a \in Admin, CommitEdit(a)
    PROVE  /\ edit[a].kind = "links" =>
                  /\ UNCHANGED state
                  /\ \A p, q : p # edit[a].owner => (<<p, q>> \in links' <=> <<p, q>> \in links)
           /\ edit[a].kind = "row" =>
                  /\ state' = [state EXCEPT ![edit[a].item] = edit[a].to]
                  /\ \A p, q : q \notin Deleted(edit[a]) => (<<p, q>> \in links' <=> <<p, q>> \in links)
           /\ \A p, q : <<p, q>> \in links' =>
                  \/ <<p, q>> \in links
                  \/ edit[a].kind = "links" /\ p = edit[a].owner /\ q \in edit[a].items
<1>1. links' = (links \ (Removes(edit[a]) \ late[a])) \cup Inserts(edit[a])
  BY DEF CommitEdit
<1>2. CASE edit[a].kind = "links"
  <2>1. /\ Removes(edit[a]) = {edit[a].owner} \X edit[a].table
        /\ Inserts(edit[a]) = {edit[a].owner} \X edit[a].items
    BY <1>2 DEF Removes, Inserts
  <2>2. UNCHANGED state
    BY <1>2 DEF CommitEdit
  <2>3. QED
    BY <1>1, <1>2, <2>1, <2>2
<1>3. CASE edit[a].kind = "row"
  <2>1. Inserts(edit[a]) = {} /\ Removes(edit[a]) = IF edit[a].item \in Menu /\ edit[a].to = "gone" THEN Role \X {edit[a].item} ELSE {}
    BY <1>3 DEF Removes, Inserts
  <2>2. state' = [state EXCEPT ![edit[a].item] = edit[a].to]
    BY <1>3 DEF CommitEdit
  <2>3. QED
    BY <1>1, <1>3, <2>1, <2>2 DEF Deleted
<1>4. edit[a].kind \in {"row", "links"}
  BY EditShape DEF PermIInv, CommitEdit
<1>5. QED
  BY <1>2, <1>3, <1>4

\* A commit that does not concern a user changes nothing he reaches, except
\* that it deletes menus.
LEMMA CommitApart ==
    ASSUME PermIInv, NEW a \in Admin, CommitEdit(a), NEW u \in User, u \notin Cleared(edit[a])
    PROVE  /\ \A r \in Role : <<u, r>> \in links' <=> <<u, r>> \in links
           /\ \A r \in Role : <<u, r>> \in links =>
                  /\ state'[r] = state[r]
                  /\ \A y \in (Menu \cup Scope) \ Deleted(edit[a]) :
                         /\ <<r, y>> \in links' <=> <<r, y>> \in links
                         /\ <<r, y>> \in links => state'[y] = state[y]
           /\ \A r \in Role, s \in Scope : <<u, r>> \in links /\ <<r, s>> \in links =>
                  \A x \in Rule : /\ <<s, x>> \in links' <=> <<s, x>> \in links
                                  /\ <<s, x>> \in links => state'[x] = state[x]
<1> DEFINE e == edit[a]
<1>1. /\ e.kind \in {"row", "links"} /\ e \in RowEdit \cup LinkEdit
      /\ e.kind = "row" => e.item \in Item
      /\ e.kind = "links" => e.owner \in User \cup Role \cup Scope
  BY EditShape DEF PermIInv, CommitEdit
<1>2. state \in [Item -> {"new", "on", "off", "gone"}]
  BY DEF PermIInv, PermRowsOK
<1>3. CASE e.kind = "links"
  <2>1. /\ UNCHANGED state
        /\ \A p, q : p # e.owner => (<<p, q>> \in links' <=> <<p, q>> \in links)
    BY <1>3, CommitShape
  <2>2. /\ u # e.owner
        /\ \A r \in Role : <<u, r>> \in links => r # e.owner
        /\ \A r \in Role, s \in Scope : <<u, r>> \in links /\ <<r, s>> \in links => s # e.owner
    <3>1. CASE e.owner \in User
      BY <1>1, <1>3, <3>1, ClearedShape, PermissionsAssumption DEF Item
    <3>2. CASE e.owner \in Role
      <4>1. <<u, e.owner>> \notin links
        BY <1>1, <1>3, <3>2, ClearedShape, ByShape
      <4>2. QED
        BY <3>2, <4>1, PermissionsAssumption DEF Item
    <3>3. CASE e.owner \in Scope
      <4>1. ~\E r \in Role : <<u, r>> \in links /\ <<r, e.owner>> \in links
        BY <1>1, <1>3, <3>3, ClearedShape, ByShape
      <4>2. QED
        BY <3>3, <4>1, PermissionsAssumption DEF Item
    <3>4. QED
      BY <1>1, <1>3, <3>1, <3>2, <3>3
  <2>3. QED
    BY <2>1, <2>2
<1>4. CASE e.kind = "row"
  <2>1. /\ state' = [state EXCEPT ![e.item] = e.to]
        /\ \A p, q : q \notin Deleted(e) => (<<p, q>> \in links' <=> <<p, q>> \in links)
    BY <1>4, CommitShape
  <2>2. /\ Deleted(e) \subseteq Menu
        /\ e.item \in Menu /\ e.to = "gone" => e.item \in Deleted(e)
    BY <1>4 DEF Deleted
  <2>3. /\ \A r \in Role : r \in Item /\ r \notin Deleted(e)
        /\ \A s \in Scope : s \in Item /\ s \notin Deleted(e)
        /\ \A x \in Rule : x \in Item /\ x \notin Deleted(e)
        /\ \A m \in Menu : m \in Item
    BY <2>2, PermissionsAssumption DEF Item
  <2>4. /\ \A r \in Role : <<u, r>> \in links => r # e.item
        /\ \A r \in Role, y \in Menu \cup Scope :
               <<u, r>> \in links /\ <<r, y>> \in links /\ y \notin Deleted(e) => y # e.item
        /\ \A r \in Role, s \in Scope, x \in Rule :
               <<u, r>> \in links /\ <<r, s>> \in links /\ <<s, x>> \in links => x # e.item
    <3>1. CASE e.item \in Role
      <4>1. <<u, e.item>> \notin links
        BY <1>1, <1>4, <3>1, ClearedShape, ByShape
      <4>2. QED
        BY <3>1, <4>1, PermissionsAssumption
    <3>2. CASE e.item \in Menu
      <4>1. e.to # "gone" => ~\E r \in Role : <<u, r>> \in links /\ <<r, e.item>> \in links
        BY <1>1, <1>4, <3>2, ClearedShape, ByShape
      <4>2. QED
        BY <2>2, <3>2, <4>1, PermissionsAssumption
    <3>3. CASE e.item \in Scope
      <4>1. ~\E r \in Role : <<u, r>> \in links /\ <<r, e.item>> \in links
        BY <1>1, <1>4, <3>3, ClearedShape, ByShape
      <4>2. QED
        BY <3>3, <4>1, PermissionsAssumption
    <3>4. CASE e.item \in Rule
      <4>1. ~\E r \in Role, s \in Scope : <<u, r>> \in links /\ <<r, s>> \in links /\ <<s, e.item>> \in links
        <5>1. u \notin ByRule(e.item)
          BY <1>1, <1>4, <3>4, ClearedShape
        <5>2. QED
          BY <5>1, ByShape
      <4>2. QED
        BY <3>4, <4>1, PermissionsAssumption
    <3>5. QED
      BY <1>1, <1>4, <3>1, <3>2, <3>3, <3>4 DEF Item
  <2>5. QED
    BY <1>2, <2>1, <2>3, <2>4
<1>5. QED
  BY <1>1, <1>3, <1>4

\* Such a commit leaves the rights of the user, less a deleted menu.
LEMMA RightsKept ==
    ASSUME PermIInv, NEW a \in Admin, CommitEdit(a), NEW u \in User, u \notin Cleared(edit[a])
    PROVE  /\ Perms(u)' = Perms(u) \ Deleted(edit[a])
           /\ AllData(u)' <=> AllData(u)
           /\ RulesOf(u)' = RulesOf(u)
<1> DEFINE D == Deleted(edit[a])
<1>1. D \subseteq Menu /\ \A m \in D : state'[m] = "gone"
  <2>1. edit[a].kind = "row" => /\ edit[a].item \in Item /\ state \in [Item -> {"new", "on", "off", "gone"}]
                                /\ state' = [state EXCEPT ![edit[a].item] = edit[a].to]
    BY EditShape, CommitShape DEF PermIInv, PermRowsOK
  <2>2. QED
    BY <2>1 DEF Deleted
<1> HIDE DEF D
<1>2. /\ \A r \in Role : <<u, r>> \in links' <=> <<u, r>> \in links
      /\ \A r \in Role : <<u, r>> \in links =>
             /\ state'[r] = state[r]
             /\ \A y \in (Menu \cup Scope) \ D :
                    /\ <<r, y>> \in links' <=> <<r, y>> \in links
                    /\ <<r, y>> \in links => state'[y] = state[y]
      /\ \A r \in Role, s \in Scope : <<u, r>> \in links /\ <<r, s>> \in links =>
             \A x \in Rule : /\ <<s, x>> \in links' <=> <<s, x>> \in links
                             /\ <<s, x>> \in links => state'[x] = state[x]
  BY CommitApart DEF D
<1>3. EnabledOf(u)' = EnabledOf(u) /\ \A r \in EnabledOf(u) : r \in Role /\ <<u, r>> \in links
  BY <1>2 DEF EnabledOf, RolesOf, Exists
<1>4. Perms(u)' = Perms(u) \ D
  <2>1. ASSUME NEW m \in Menu PROVE m \in Perms(u)' <=> m \in Perms(u) /\ m \notin D
    <3>1. CASE m \in D
      BY <1>1, <3>1 DEF Perms
    <3>2. CASE m \notin D
      BY <1>2, <1>3, <3>2 DEF Perms
    <3>3. QED
      BY <3>1, <3>2
  <2>2. QED
    BY <2>1 DEF Perms
<1>5. AllData(u)' <=> AllData(u)
  BY <1>3 DEF AllData
<1>6. RulesOf(u)' = RulesOf(u)
  <2>1. \A s \in Scope : s \notin D
    BY <1>1, PermissionsAssumption
  <2> DEFINE Selected(x) == Exists(x) /\ \E r \in EnabledOf(u), s \in Scope :
                                state[s] = "on" /\ {<<r, s>>, <<s, x>>} \subseteq links
  <2>2. ASSUME NEW x \in Rule
        PROVE  (Selected(x)' <=> Selected(x)) /\ (Selected(x) => state'[x] = state[x])
    <3> DEFINE Chain == \E r \in EnabledOf(u), s \in Scope : state[s] = "on" /\ {<<r, s>>, <<s, x>>} \subseteq links
               Chain2 == \E r \in EnabledOf(u), s \in Scope : state'[s] = "on" /\ {<<r, s>>, <<s, x>>} \subseteq links'
    <3>1. ASSUME NEW r \in EnabledOf(u), NEW s \in Scope
          PROVE  /\ <<r, s>> \in links' <=> <<r, s>> \in links
                 /\ <<r, s>> \in links => /\ state'[s] = state[s]
                                          /\ <<s, x>> \in links' <=> <<s, x>> \in links
                                          /\ <<s, x>> \in links => state'[x] = state[x]
      <4>1. r \in Role /\ <<u, r>> \in links /\ s \in (Menu \cup Scope) \ D
        BY <1>3, <2>1
      <4>2. <<r, s>> \in links' <=> <<r, s>> \in links
        BY <1>2, <4>1
      <4>3. <<r, s>> \in links => state'[s] = state[s]
        BY <1>2, <4>1
      <4>4. QED
        BY <1>2, <4>1, <4>2, <4>3
    <3>2. (Chain2 <=> Chain) /\ (Chain => state'[x] = state[x])
      <4>1. ASSUME NEW r \in EnabledOf(u), NEW s \in Scope
            PROVE  /\ (state'[s] = "on" /\ {<<r, s>>, <<s, x>>} \subseteq links')
                          <=> (state[s] = "on" /\ {<<r, s>>, <<s, x>>} \subseteq links)
                   /\ {<<r, s>>, <<s, x>>} \subseteq links => state'[x] = state[x]
        BY <3>1
      <4>2. QED
        BY <4>1
    <3>3. (Selected(x) <=> Exists(x) /\ Chain) /\ (Selected(x)' <=> Exists(x)' /\ Chain2)
      BY <1>3
    <3> HIDE DEF Selected, Chain, Chain2
    <3>4. QED
      BY <3>2, <3>3 DEF Exists
  <2>3. RulesOf(u) = {<<x, state[x]>> : x \in {y \in Rule : Selected(y)}}
    BY DEF RulesOf
  <2>4. RulesOf(u)' = {<<x, state'[x]>> : x \in {y \in Rule : Selected(y)'}}
    BY DEF RulesOf
  <2> HIDE DEF Selected
  <2>5. {y \in Rule : Selected(y)'} = {y \in Rule : Selected(y)}
    BY <2>2
  <2>6. QED
    BY <2>2, <2>3, <2>4, <2>5
<1>7. QED
  BY <1>4, <1>5, <1>6 DEF D

\* A commit that does not concern a user makes no change in flight concern
\* him either.
LEMMA ClearedKept ==
    ASSUME PermIInv, NEW a \in Admin, CommitEdit(a), NEW u \in User, u \notin Cleared(edit[a]),
           NEW e \in RowEdit \cup LinkEdit, u \notin Cleared(e), e.kind = "links" => e.owner \in User \cup Role \cup Scope
    PROVE  u \notin Cleared(e)'
<1>1. \A r \in Role : <<u, r>> \in links' <=> <<u, r>> \in links
  BY CommitApart
<1>2. ASSUME NEW p, NEW q, <<p, q>> \in links', <<p, q>> \notin links
      PROVE  /\ edit[a].kind = "links" /\ p = edit[a].owner
             /\ p \in Role => <<u, p>> \notin links
             /\ p \in Scope => ~\E r \in Role : <<u, r>> \in links /\ <<r, p>> \in links
  <2>1. edit[a].kind = "links" /\ p = edit[a].owner
    BY <1>2, CommitShape
  <2>2. edit[a] \in RowEdit \cup LinkEdit
    BY <2>1, EditShape DEF PermIInv
  <2>3. QED
    BY <2>1, <2>2, ClearedShape, ByShape, SMTT(30)
<1>3. \A r \in Role : \A y : <<u, r>> \in links' /\ <<r, y>> \in links' => <<u, r>> \in links /\ <<r, y>> \in links
  BY <1>1, <1>2
<1>4. \A r \in Role, s \in Scope : \A x :
          <<u, r>> \in links' /\ <<r, s>> \in links' /\ <<s, x>> \in links'
              => <<u, r>> \in links /\ <<r, s>> \in links /\ <<s, x>> \in links
  BY <1>2, <1>3
<1>5. /\ \A r \in Role : u \notin ByRole(r) => u \notin ByRole(r)'
      /\ \A m : u \notin ByMenu(m) => u \notin ByMenu(m)'
      /\ \A s : u \notin ByScope(s) => u \notin ByScope(s)'
      /\ \A x : u \notin ByRule(x) => u \notin ByRule(x)'
  <2>1. \A r \in Role : u \notin ByRole(r) => u \notin ByRole(r)'
    BY <1>1, ByShape, ByShapeNext
  <2>2. \A m : u \notin ByMenu(m) => u \notin ByMenu(m)'
    BY <1>3, ByShape, ByShapeNext
  <2>3. \A s : u \notin ByScope(s) => u \notin ByScope(s)'
    BY <1>3, ByShape, ByShapeNext
  <2>4. \A x : u \notin ByRule(x) => u \notin ByRule(x)'
    <3>1. SUFFICES ASSUME NEW x, u \in ByRule(x)' PROVE u \in ByRule(x)
      OBVIOUS
    <3>2. PICK r \in Role, s \in Scope : <<u, r>> \in links' /\ <<r, s>> \in links' /\ <<s, x>> \in links'
      BY <3>1, ByShapeNext
    <3>3. <<u, r>> \in links /\ <<r, s>> \in links /\ <<s, x>> \in links
      BY <1>4, <3>2
    <3>4. QED
      BY <3>3, ByShape
  <2>5. QED
    BY <2>1, <2>2, <2>3, <2>4
<1>6. QED
  BY <1>5 DEF Cleared, RowEdit, LinkEdit, Item

\* Whom a change concerns depends on the links alone.
LEMMA ClearedSame ==
    ASSUME UNCHANGED links
    PROVE  \A e : Cleared(e)' = Cleared(e)
BY DEF Cleared, ByRole, ByMenu, ByScope, ByRule

\* Without a change of rows and links nothing is granted or concerned anew.
LEMMA RightsSame ==
    ASSUME UNCHANGED <<state, links>>
    PROVE  /\ \A u \in User : /\ Perms(u)' = Perms(u) /\ RulesOf(u)' = RulesOf(u)
                              /\ AllData(u)' <=> AllData(u)
           /\ \A i : Exists(i)' <=> Exists(i)
           /\ \A e : Cleared(e)' = Cleared(e)
           /\ \A c : \A u \in User : Grants(c, u)' <=> Grants(c, u)
<1>1. \A i : Exists(i)' <=> Exists(i)
  BY DEF Exists
<1>2. \A u \in User : EnabledOf(u)' = EnabledOf(u)
  BY DEF EnabledOf, RolesOf, Exists
<1>3. \A u \in User : Perms(u)' = Perms(u) /\ (AllData(u)' <=> AllData(u))
  BY <1>2 DEF Perms, AllData
<1>4. \A u \in User : RulesOf(u)' = RulesOf(u)
  BY <1>1, <1>2 DEF RulesOf
<1>5. \A e : Cleared(e)' = Cleared(e)
  BY DEF Cleared, ByRole, ByMenu, ByScope, ByRule
<1>6. \A c : \A u \in User : Grants(c, u)' <=> Grants(c, u)
  BY <1>1, <1>3, <1>4 DEF Grants
<1>7. QED
  BY <1>1, <1>3, <1>4, <1>5, <1>6

\* What has just been read grants what the database grants.
LEMMA RightsGrant ==
    ASSUME PermRowsOK, NEW u \in User
    PROVE  /\ Rights(u) \in Copies /\ Grants(Rights(u), u) /\ Rights(u).known
           /\ \A m \in Rights(u).perms : state[m] = "on"
           /\ NoCopy \in Copies /\ ~NoCopy.known /\ NoCopy.perms = {}
<1>1. Perms(u) \subseteq Menu /\ \A m \in Perms(u) : state[m] = "on"
  BY DEF Perms
<1>2. RulesOf(u) \subseteq Rule \X {"on", "off"}
  BY DEF RulesOf, Exists
<1>3. AllData(u) \in BOOLEAN
  BY DEF AllData
<1>4. Rights(u) \in Copies
  BY <1>1, <1>2, <1>3 DEF Rights, Copies
<1>5. /\ Rights(u).known /\ Rights(u).perms = Perms(u) /\ Rights(u).rules = RulesOf(u)
      /\ Rights(u).all = AllData(u)
  BY DEF Rights
<1>6. Grants(Rights(u), u)
  BY <1>1, <1>5 DEF Grants, Exists
<1>7. NoCopy \in Copies /\ ~NoCopy.known /\ NoCopy.perms = {}
  BY DEF NoCopy, Copies
<1>8. QED
  BY <1>1, <1>4, <1>5, <1>6, <1>7

\* A row that is created is in no table and in no copy: nobody's rights change.
LEMMA CreatedApart ==
    ASSUME PermIInv, NEW i \in Item, state[i] = "new", state'[i] = "on", UNCHANGED links,
           \A j \in Item : j # i => state'[j] = state[j], NEW v \in User
    PROVE  \A x : (\A m \in x.perms : Made(m)) /\ Grants(x, v) /\ x.perms \subseteq Menu => Grants(x, v)'
<1>1. \A l \in links : l[2] # i /\ l[1] # i
  BY PermissionsAssumption DEF PermIInv, LinksMade, Made, Item
<1>2. \A p, q : <<p, q>> \in links => p # i /\ q # i
  BY <1>1
<1>3. EnabledOf(v)' = EnabledOf(v) /\ \A r \in EnabledOf(v) : <<v, r>> \in links /\ r \in Role
  BY <1>2 DEF EnabledOf, RolesOf, Exists, Item
<1>4. Perms(v)' = Perms(v) /\ (AllData(v)' <=> AllData(v))
  BY <1>2, <1>3 DEF Perms, AllData, Item
<1>5. RulesOf(v)' = RulesOf(v)
  <2> DEFINE Selected(x) == Exists(x) /\ \E r \in EnabledOf(v), s \in Scope :
                                state[s] = "on" /\ {<<r, s>>, <<s, x>>} \subseteq links
  <2>1. ASSUME NEW x \in Rule
        PROVE  (Selected(x)' <=> Selected(x)) /\ (Selected(x) => state'[x] = state[x])
    BY <1>2, <1>3 DEF Exists, Item
  <2>2. RulesOf(v) = {<<x, state[x]>> : x \in {y \in Rule : Selected(y)}}
    BY DEF RulesOf
  <2>3. RulesOf(v)' = {<<x, state'[x]>> : x \in {y \in Rule : Selected(y)'}}
    BY DEF RulesOf
  <2> HIDE DEF Selected
  <2>4. {y \in Rule : Selected(y)'} = {y \in Rule : Selected(y)}
    BY <2>1
  <2>5. QED
    BY <2>1, <2>2, <2>3, <2>4
<1>6. \A m \in Menu : Made(m) => (Exists(m)' <=> Exists(m))
  BY PermissionsAssumption DEF Made, Exists, Item
<1>7. QED
  BY <1>4, <1>5, <1>6 DEF Grants

\* A copy holds menus.
LEMMA CopyMenus ==
    ASSUME PermCopiesOK, NEW u \in User
    PROVE  copy[u].perms \subseteq Menu /\ read[u].perms \subseteq Menu
BY DEF PermCopiesOK, Copies

\* What a change inserts and removes are links.
LEMMA InsertShape ==
    ASSUME PermEditsOK, NEW a \in Admin
    PROVE  /\ edit[a].kind = "links" => /\ Inserts(edit[a]) = {edit[a].owner} \X edit[a].items
                                        /\ Removes(edit[a]) = {edit[a].owner} \X edit[a].table
           /\ edit[a].kind = "row" =>
                  /\ Inserts(edit[a]) = {}
                  /\ \A l \in Removes(edit[a]) :
                         edit[a].item \in Menu /\ edit[a].to = "gone" /\ l[2] = edit[a].item
           /\ edit[a].kind # "none" => Inserts(edit[a]) \subseteq Links
<1>1. edit[a].kind = "links" => /\ Inserts(edit[a]) = {edit[a].owner} \X edit[a].items
                                /\ Removes(edit[a]) = {edit[a].owner} \X edit[a].table
  BY DEF Inserts, Removes
<1>2. edit[a].kind = "row" =>
          /\ Inserts(edit[a]) = {}
          /\ \A l \in Removes(edit[a]) :
                 edit[a].item \in Menu /\ edit[a].to = "gone" /\ l[2] = edit[a].item
  BY DEF Inserts, Removes
<1>3. edit[a].kind = "links" => Inserts(edit[a]) \subseteq Links
  <2>1. SUFFICES ASSUME edit[a].kind = "links", NEW i \in edit[a].items PROVE <<edit[a].owner, i>> \in Links
    BY <1>1
  <2>2. \/ edit[a].owner \in User /\ i \in Role
        \/ edit[a].owner \in Role /\ i \in Menu \cup Scope
        \/ edit[a].owner \in Scope /\ i \in Rule
    BY <2>1, EditShape
  <2>3. QED
    BY <2>2, LinkShape
<1>4. QED
  BY <1>1, <1>2, <1>3, EditShape

\* ReadUserRights (get_current_user) keeps the invariant.
LEMMA ReadUserRightsStep ==
    ASSUME PermIInv, NEW u \in User, ReadUserRights(u)
    PROVE  PermIInv'
<1> USE DEF PermIInv
<1>a. /\ ~copy[u].known /\ read' \in [User -> Copies] /\ read'[u] = Rights(u)
      /\ \A v \in User : v # u => read'[v] = read[v]
      /\ crossed' \in {crossed, crossed \cup {u}}
      /\ u \in crossed' \/ \A b \in Admin : edit[b] = NoEdit
      /\ UNCHANGED <<state, links, edit, late, copy, edits, chosen, merged>>
  BY RightsGrant DEF ReadUserRights, PermCopiesOK, InFlight
<1>1. PermRowsOK'
  BY <1>a DEF PermRowsOK
<1>2. PermCopiesOK'
  BY <1>a DEF PermCopiesOK
<1>3. CopiesMade'
  <2>1. \A m : Made(m)' <=> Made(m)
    BY <1>a DEF Made
  <2>2. QED
    BY <1>a, <2>1, RightsGrant DEF CopiesMade, Made
<1>4. CopiesCurrent'
  <2>1. SUFFICES ASSUME NEW v \in User, v \notin crossed', copy'[v].known
                 PROVE  /\ \A x \in {copy'[v]} : Grants(x, v)'
                        /\ \A b \in Admin : \A w \in {edit'[b]} : w # NoEdit => v \notin Cleared(w)'
    BY DEF CopiesCurrent
  <2>2. v \notin crossed /\ copy[v].known /\ copy'[v] = copy[v]
    BY <1>a, <2>1
  <2>3. QED
    BY <1>a, <2>1, <2>2, RightsSame DEF CopiesCurrent
<1>5. ReadsAlone'
  <2>1. SUFFICES ASSUME NEW v \in User, v \notin crossed', read'[v].known
                 PROVE  /\ \A x \in {read'[v]} : Grants(x, v)'
                        /\ \A b \in Admin : edit'[b] = NoEdit
    BY DEF ReadsAlone
  <2>2. CASE v = u
    BY <1>a, <2>1, <2>2, RightsSame, RightsGrant
  <2>3. CASE v # u
    BY <1>a, <2>1, <2>3, RightsSame DEF ReadsAlone
  <2>4. QED
    BY <2>2, <2>3
<1>6. PermEditsOK' /\ RowsApart' /\ LinksMade' /\ EditsMade' /\ PairsMerged' /\ LateMerged' /\ LinksAsChosen'
  <2>1. UNCHANGED <<state, links, edit, late, chosen, merged>>
    BY <1>a
  <2>2. QED
    BY <2>1 DEF PermEditsOK, RowsApart, LinksMade, EditsMade, PairsMerged,
      LateMerged, LinksAsChosen, NoEdit, Exists, Made, SameSet, Merges
<1> QED
  BY <1>1, <1>2, <1>3, <1>4, <1>5, <1>6

\* StoreCopy (get_jwt_user) keeps the invariant.
LEMMA StoreCopyStep ==
    ASSUME PermIInv, NEW u \in User, StoreCopy(u)
    PROVE  PermIInv'
<1> USE DEF PermIInv
<1>a. /\ read[u].known /\ copy' \in [User -> Copies] /\ read' \in [User -> Copies]
      /\ copy'[u] = read[u] /\ read'[u] = NoCopy
      /\ \A v \in User : v # u => copy'[v] = copy[v] /\ read'[v] = read[v]
      /\ UNCHANGED <<state, links, edit, late, edits, chosen, merged, crossed>>
  BY RightsGrant DEF StoreCopy, PermCopiesOK
<1>1. PermCopiesOK'
  BY <1>a DEF PermCopiesOK
<1>2. CopiesMade'
  <2>1. \A m : Made(m)' <=> Made(m)
    BY <1>a DEF Made
  <2>2. QED
    BY <1>a, <2>1, RightsGrant DEF CopiesMade
<1>3. CopiesCurrent'
  <2>1. SUFFICES ASSUME NEW v \in User, v \notin crossed', copy'[v].known
                 PROVE  /\ \A x \in {copy'[v]} : Grants(x, v)'
                        /\ \A b \in Admin : \A w \in {edit'[b]} : w # NoEdit => v \notin Cleared(w)'
    BY DEF CopiesCurrent
  <2>2. CASE v = u
    BY <1>a, <2>1, <2>2, RightsSame DEF ReadsAlone
  <2>3. CASE v # u
    BY <1>a, <2>1, <2>3, RightsSame DEF CopiesCurrent
  <2>4. QED
    BY <2>2, <2>3
<1>4. ReadsAlone'
  <2>1. SUFFICES ASSUME NEW v \in User, v \notin crossed', read'[v].known
                 PROVE  /\ \A x \in {read'[v]} : Grants(x, v)'
                        /\ \A b \in Admin : edit'[b] = NoEdit
    BY DEF ReadsAlone
  <2>2. v \notin crossed /\ read[v].known /\ read'[v] = read[v]
    BY <1>a, <2>1, RightsGrant
  <2>3. QED
    BY <1>a, <2>1, <2>2, RightsSame DEF ReadsAlone
<1>5. PermRowsOK' /\ PermEditsOK' /\ RowsApart' /\ LinksMade' /\ EditsMade' /\ PairsMerged' /\ LateMerged' /\ LinksAsChosen'
  <2>1. UNCHANGED <<state, links, edit, late, edits, chosen, merged, crossed>>
    BY <1>a
  <2>2. QED
    BY <2>1 DEF PermRowsOK, PermEditsOK, RowsApart, LinksMade, EditsMade,
      PairsMerged, LateMerged, LinksAsChosen, NoEdit, Exists, Made, SameSet,
      Merges
<1> QED
  BY <1>1, <1>2, <1>3, <1>4, <1>5

\* CopyExpires (get_jwt_user) keeps the invariant.
LEMMA CopyExpiresStep ==
    ASSUME PermIInv, NEW u \in User, CopyExpires(u)
    PROVE  PermIInv'
<1> USE DEF PermIInv
<1>a. /\ copy' \in [User -> Copies] /\ copy'[u] = NoCopy
      /\ \A v \in User : v # u => copy'[v] = copy[v]
      /\ UNCHANGED <<state, links, edit, late, read, edits, chosen, merged, crossed>>
  BY RightsGrant DEF CopyExpires, PermCopiesOK
<1>1. PermCopiesOK'
  BY <1>a DEF PermCopiesOK
<1>2. CopiesMade'
  <2>1. \A m : Made(m)' <=> Made(m)
    BY <1>a DEF Made
  <2>2. QED
    BY <1>a, <2>1, RightsGrant DEF CopiesMade
<1>3. CopiesCurrent'
  <2>1. SUFFICES ASSUME NEW v \in User, v \notin crossed', copy'[v].known
                 PROVE  /\ \A x \in {copy'[v]} : Grants(x, v)'
                        /\ \A b \in Admin : \A w \in {edit'[b]} : w # NoEdit => v \notin Cleared(w)'
    BY DEF CopiesCurrent
  <2>2. v \notin crossed /\ copy[v].known /\ copy'[v] = copy[v]
    BY <1>a, <2>1, RightsGrant
  <2>3. QED
    BY <1>a, <2>1, <2>2, RightsSame DEF CopiesCurrent
<1>4. ReadsAlone'
  <2>1. SUFFICES ASSUME NEW v \in User, v \notin crossed', read'[v].known
                 PROVE  /\ \A x \in {read'[v]} : Grants(x, v)'
                        /\ \A b \in Admin : edit'[b] = NoEdit
    BY DEF ReadsAlone
  <2>2. QED
    BY <1>a, <2>1, RightsSame DEF ReadsAlone
<1>5. PermRowsOK' /\ PermEditsOK' /\ RowsApart' /\ LinksMade' /\ EditsMade' /\ PairsMerged' /\ LateMerged' /\ LinksAsChosen'
  <2>1. UNCHANGED <<state, links, edit, late, edits, chosen, merged, crossed>>
    BY <1>a
  <2>2. QED
    BY <2>1 DEF PermRowsOK, PermEditsOK, RowsApart, LinksMade, EditsMade,
      PairsMerged, LateMerged, LinksAsChosen, NoEdit, Exists, Made, SameSet,
      Merges
<1> QED
  BY <1>1, <1>2, <1>3, <1>4, <1>5

\* A menu, scope or rule is created, or a role.
LEMMA CreateItemStep ==
    ASSUME PermIInv, NEW i \in Item, CreateItem(i)
    PROVE  PermIInv'
<1> USE DEF PermIInv
<1>a. /\ state[i] = "new" /\ state' \in [Item -> {"new", "on", "off", "gone"}] /\ state'[i] = "on"
      /\ \A j \in Item : j # i => state'[j] = state[j]
      /\ UNCHANGED <<links, edit, late, read, copy, edits, chosen, merged, crossed>>
  BY DEF CreateItem, PermRowsOK
<1>1. PermRowsOK'
  BY <1>a DEF PermRowsOK
<1>2. PermEditsOK'
  <2>1. \A b \in Admin : edit[b].kind = "row" => edit[b].item \in Item /\ Exists(edit[b].item)
    BY EditShape DEF PermEditsOK
  <2>2. \A b \in Admin : edit[b].kind = "row" => state'[edit[b].item] \in {"on", "off"}
    BY <1>a, <2>1 DEF Exists
  <2>3. QED
    BY <1>a, <2>2 DEF PermEditsOK, Exists
<1>3. LinksMade'
  <2>1. \A j \in Item \cup User : Made(j) => Made(j)'
    BY <1>a DEF Made
  <2>2. \A l \in links : l[1] \in Item \cup User /\ l[2] \in Item
    BY LinkShape DEF PermRowsOK, Item
  <2>3. QED
    BY <1>a, <2>1, <2>2 DEF LinksMade
<1>4. EditsMade'
  <2>1. \A j \in Item \cup User : Made(j) => Made(j)'
    BY <1>a DEF Made
  <2>2. \A b \in Admin : edit[b].kind = "links" => edit[b].owner \in Item \cup User /\ edit[b].items \subseteq Item
    BY EditShape DEF Item, Owner
  <2>3. QED
    BY <1>a, <2>1, <2>2 DEF EditsMade
<1>5. CopiesMade'
  <2>1. \A j \in Item \cup User : Made(j) => Made(j)'
    BY <1>a DEF Made
  <2>2. \A u \in User : copy[u].perms \cup read[u].perms \subseteq Item
    BY CopyMenus DEF Item
  <2>3. QED
    BY <1>a, <2>1, <2>2 DEF CopiesMade
<1>6. CopiesCurrent'
  <2>1. SUFFICES ASSUME NEW v \in User, v \notin crossed', copy'[v].known
                 PROVE  /\ \A x \in {copy'[v]} : Grants(x, v)'
                        /\ \A b \in Admin : \A w \in {edit'[b]} : w # NoEdit => v \notin Cleared(w)'
    BY DEF CopiesCurrent
  <2>2. /\ Grants(copy[v], v) /\ UNCHANGED <<copy, edit>>
        /\ \A b \in Admin : \A e \in {edit[b]} : e # NoEdit => v \notin Cleared(e)
    BY <1>a, <2>1 DEF CopiesCurrent
  <2>3. \A x : v \notin Cleared(x) => v \notin Cleared(x)'
    BY <1>a, ClearedSame
  <2>4. \A x \in {copy[v]} : Grants(x, v) => Grants(x, v)'
    BY <1>a, CreatedApart, CopyMenus DEF CopiesMade
  <2>5. QED
    BY <2>2, <2>3, <2>4
<1>7. ReadsAlone'
  <2>1. SUFFICES ASSUME NEW v \in User, v \notin crossed', read'[v].known
                 PROVE  /\ \A x \in {read'[v]} : Grants(x, v)'
                        /\ \A b \in Admin : edit'[b] = NoEdit
    BY DEF ReadsAlone
  <2>2. Grants(read[v], v) /\ UNCHANGED <<read, edit>> /\ \A b \in Admin : edit[b] = NoEdit
    BY <1>a, <2>1 DEF ReadsAlone
  <2>3. \A x \in {read[v]} : Grants(x, v) => Grants(x, v)'
    BY <1>a, CreatedApart, CopyMenus DEF CopiesMade
  <2>4. QED
    BY <2>2, <2>3
<1>8. LinksAsChosen'
  <2>1. \A m \in Menu : state[m] = "gone" => state'[m] = "gone"
    BY <1>a DEF Item
  <2>2. QED
    BY <1>a, <2>1 DEF LinksAsChosen
<1>9. PermCopiesOK' /\ RowsApart' /\ PairsMerged' /\ LateMerged'
  <2>1. UNCHANGED <<edit, late, read, copy, merged>>
    BY <1>a
  <2>2. QED
    BY <2>1 DEF PermCopiesOK, RowsApart, PairsMerged, LateMerged, SameSet,
      Merges
<1> QED
  BY <1>1, <1>2, <1>3, <1>4, <1>5, <1>6, <1>7, <1>8, <1>9

\* RollbackEdit (get_db_transaction) keeps the invariant.
LEMMA RollbackEditStep ==
    ASSUME PermIInv, NEW a \in Admin, RollbackEdit(a)
    PROVE  PermIInv'
<1> USE DEF PermIInv
<1>a. /\ edit' \in [Admin -> {NoEdit} \cup RowEdit \cup LinkEdit] /\ late' \in [Admin -> SUBSET Links]
      /\ edit'[a] = NoEdit /\ late'[a] = {} /\ NoEdit.kind = "none"
      /\ \A b \in Admin : b # a => edit'[b] = edit[b] /\ late'[b] = late[b]
      /\ UNCHANGED <<state, links, read, copy, edits, chosen, merged, crossed>>
  BY DEF RollbackEdit, PermEditsOK, NoEdit
<1>1. PermEditsOK'
  BY <1>a DEF PermEditsOK, NoEdit, Exists
<1>2. RowsApart'
  BY <1>a DEF RowsApart
<1>3. EditsMade'
  BY <1>a DEF EditsMade, Made
<1>4. CopiesCurrent'
  <2>1. SUFFICES ASSUME NEW v \in User, v \notin crossed', copy'[v].known
                 PROVE  /\ \A x \in {copy'[v]} : Grants(x, v)'
                        /\ \A b \in Admin : \A w \in {edit'[b]} : w # NoEdit => v \notin Cleared(w)'
    BY DEF CopiesCurrent
  <2>2. v \notin crossed /\ copy[v].known /\ copy'[v] = copy[v]
    BY <1>a, <2>1
  <2>3. QED
    BY <1>a, <2>1, <2>2, RightsSame DEF CopiesCurrent
<1>5. ReadsAlone'
  <2>1. SUFFICES ASSUME NEW v \in User, v \notin crossed', read'[v].known
                 PROVE  /\ \A x \in {read'[v]} : Grants(x, v)'
                        /\ \A b \in Admin : edit'[b] = NoEdit
    BY DEF ReadsAlone
  <2>2. v \notin crossed /\ read[v].known /\ read'[v] = read[v]
    BY <1>a, <2>1
  <2>3. QED
    BY <1>a, <2>1, <2>2, RightsSame DEF ReadsAlone
<1>6. PairsMerged'
  BY <1>a DEF PairsMerged, SameSet, Merges
<1>7. LateMerged'
  BY <1>a DEF LateMerged, Merges
<1>8. PermRowsOK' /\ PermCopiesOK' /\ LinksMade' /\ CopiesMade' /\ LinksAsChosen'
  <2>1. UNCHANGED <<state, links, read, copy, edits, chosen, merged, crossed>>
    BY <1>a
  <2>2. QED
    BY <2>1 DEF PermRowsOK, PermCopiesOK, LinksMade, CopiesMade,
      LinksAsChosen, Made
<1> QED
  BY <1>1, <1>2, <1>3, <1>4, <1>5, <1>6, <1>7, <1>8

\* A change of one row is checked, and clears the cached users it concerns.
LEMMA BeginsRowStep ==
    ASSUME PermIInv, NEW a \in Admin, NEW e \in RowEdit, BeginsRow(a, e)
    PROVE  PermIInv'
<1> USE DEF PermIInv
<1>a. /\ edit[a] = NoEdit /\ edits < MaxEdits /\ edits' = edits + 1
      /\ edit' \in [Admin -> {NoEdit} \cup RowEdit \cup LinkEdit] /\ late' \in [Admin -> SUBSET Links]
      /\ edit'[a] = e /\ late'[a] = {} /\ NoEdit.kind = "none"
      /\ \A b \in Admin : b # a => edit'[b] = edit[b] /\ late'[b] = late[b]
      /\ copy' \in [User -> Copies]
      /\ \A u \in User : IF u \in Cleared(e) THEN copy'[u] = NoCopy ELSE copy'[u] = copy[u]
      /\ crossed' = crossed \cup {u \in User : read[u].known}
      /\ e.kind = "row" /\ Exists(e.item) /\ e.item \in Item
      /\ \A b \in Admin : edit[b].kind = "row" => edit[b].item # e.item
      /\ UNCHANGED <<state, links, read, chosen, merged>>
  <2>1. /\ edit \in [Admin -> {NoEdit} \cup RowEdit \cup LinkEdit] /\ late \in [Admin -> SUBSET Links]
        /\ copy \in [User -> Copies] /\ NoCopy \in Copies /\ NoEdit.kind = "none"
    BY DEF PermEditsOK, PermCopiesOK, NoCopy, Copies, NoEdit
  <2>2. Begin(a, e)
    BY DEF BeginsRow
  <2>3. QED
    BY <2>1, <2>2 DEF Begin, BeginsRow, RowEdit
<1>1. PermRowsOK'
  <2>1. edits' \in 0..MaxEdits
    BY <1>a, PermissionsAssumption DEF PermRowsOK
  <2>2. QED
    BY <1>a, <2>1 DEF PermRowsOK
<1>2. PermCopiesOK'
  BY <1>a DEF PermCopiesOK
<1>3. PermEditsOK'
  BY <1>a DEF PermEditsOK, NoEdit, Exists
<1>4. RowsApart'
  BY <1>a DEF RowsApart
<1>5. EditsMade'
  <2>1. \A m : Made(m)' <=> Made(m)
    BY <1>a DEF Made
  <2>2. QED
    BY <1>a, <2>1, RightsGrant DEF EditsMade, Made, Exists
<1>6. CopiesMade'
  <2>1. \A m : Made(m)' <=> Made(m)
    BY <1>a DEF Made
  <2>2. QED
    BY <1>a, <2>1, RightsGrant DEF CopiesMade
<1>7. CopiesCurrent'
  <2>1. SUFFICES ASSUME NEW v \in User, v \notin crossed', copy'[v].known
                 PROVE  /\ \A x \in {copy'[v]} : Grants(x, v)'
                        /\ \A b \in Admin : \A w \in {edit'[b]} : w # NoEdit => v \notin Cleared(w)'
    BY DEF CopiesCurrent
  <2>2. v \notin Cleared(e) /\ v \notin crossed /\ copy[v].known /\ copy'[v] = copy[v]
    BY <1>a, <2>1, RightsGrant
  <2>3. QED
    BY <1>a, <2>1, <2>2, RightsSame DEF CopiesCurrent
<1>8. ReadsAlone'
  BY <1>a DEF ReadsAlone
<1>9. PairsMerged'
  BY <1>a DEF PairsMerged, SameSet, Merges
<1>10. LateMerged'
  BY <1>a DEF LateMerged, Merges
<1>11. LinksMade' /\ LinksAsChosen'
  <2>1. UNCHANGED <<state, links, chosen, merged>>
    BY <1>a
  <2>2. QED
    BY <2>1 DEF LinksMade, LinksAsChosen, Made
<1> QED
  BY <1>1, <1>2, <1>3, <1>4, <1>5, <1>6, <1>7, <1>8, <1>9, <1>10, <1>11

\* A set of links is about to be replaced, and the cached users concerned are
\* cleared.
LEMMA BeginsLinksStep ==
    ASSUME PermIInv, NEW a \in Admin, NEW e \in LinkEdit, BeginsLinks(a, e)
    PROVE  PermIInv'
<1> USE DEF PermIInv
<1>a. /\ edit[a] = NoEdit /\ edits < MaxEdits /\ edits' = edits + 1
      /\ edit' \in [Admin -> {NoEdit} \cup RowEdit \cup LinkEdit] /\ late' \in [Admin -> SUBSET Links]
      /\ edit'[a] = e /\ late'[a] = {} /\ NoEdit.kind = "none"
      /\ \A b \in Admin : b # a => edit'[b] = edit[b] /\ late'[b] = late[b]
      /\ copy' \in [User -> Copies]
      /\ \A u \in User : IF u \in Cleared(e) THEN copy'[u] = NoCopy ELSE copy'[u] = copy[u]
      /\ crossed' = crossed \cup {u \in User : read[u].known}
      /\ UNCHANGED <<state, links, read, chosen>>
      /\ e.kind = "links" /\ <<e.owner, e.table>> \in Tables /\ e.items \subseteq e.table
      /\ Made(e.owner) /\ \A i \in e.items : Exists(i)
      /\ e.owner \in User => \A b \in Admin : edit[b].kind = "links" => edit[b].owner # e.owner
      /\ merged \subseteq merged' /\ merged' \subseteq Tables
      /\ \A b \in Admin : edit[b].kind = "links" /\ edit[b].owner = e.owner /\ edit[b].table = e.table
                              => <<e.owner, e.table>> \in merged'
  <2>1. /\ edit \in [Admin -> {NoEdit} \cup RowEdit \cup LinkEdit] /\ late \in [Admin -> SUBSET Links]
        /\ copy \in [User -> Copies] /\ NoCopy \in Copies /\ NoEdit.kind = "none"
    BY DEF PermEditsOK, PermCopiesOK, NoCopy, Copies, NoEdit
  <2>2. Begin(a, e)
    BY DEF BeginsLinks
  <2>3. e.kind = "links"
    BY DEF LinkEdit
  <2>4. QED
    BY <2>1, <2>2, <2>3 DEF Begin, BeginsLinks
<1>1. PermRowsOK'
  <2>1. edits' \in 0..MaxEdits
    BY <1>a, PermissionsAssumption DEF PermRowsOK
  <2>2. QED
    BY <1>a, <2>1 DEF PermRowsOK
<1>2. PermCopiesOK'
  BY <1>a DEF PermCopiesOK
<1>3. PermEditsOK'
  BY <1>a DEF PermEditsOK, NoEdit, Exists
<1>4. RowsApart'
  BY <1>a DEF RowsApart
<1>5. EditsMade'
  <2>1. \A m : Made(m)' <=> Made(m)
    BY <1>a DEF Made
  <2>2. QED
    BY <1>a, <2>1, RightsGrant DEF EditsMade, Made, Exists
<1>6. CopiesMade'
  <2>1. \A m : Made(m)' <=> Made(m)
    BY <1>a DEF Made
  <2>2. QED
    BY <1>a, <2>1, RightsGrant DEF CopiesMade
<1>7. CopiesCurrent'
  <2>1. SUFFICES ASSUME NEW v \in User, v \notin crossed', copy'[v].known
                 PROVE  /\ \A x \in {copy'[v]} : Grants(x, v)'
                        /\ \A b \in Admin : \A w \in {edit'[b]} : w # NoEdit => v \notin Cleared(w)'
    BY DEF CopiesCurrent
  <2>2. v \notin Cleared(e) /\ v \notin crossed /\ copy[v].known /\ copy'[v] = copy[v]
    BY <1>a, <2>1, RightsGrant
  <2>3. QED
    BY <1>a, <2>1, <2>2, RightsSame DEF CopiesCurrent
<1>8. ReadsAlone'
  BY <1>a DEF ReadsAlone
<1>9. PairsMerged'
  BY <1>a DEF PairsMerged, SameSet, Merges
<1>10. LateMerged'
  BY <1>a DEF LateMerged, Merges
<1>11. LinksAsChosen'
  BY <1>a DEF LinksAsChosen
<1>12. LinksMade'
  <2>1. UNCHANGED <<state, links>>
    BY <1>a
  <2>2. QED
    BY <2>1 DEF LinksMade, Made
<1> QED
  BY <1>1, <1>2, <1>3, <1>4, <1>5, <1>6, <1>7, <1>8, <1>9, <1>10, <1>11, <1>12

\* CommitEdit (get_db_transaction) keeps the invariant.
LEMMA CommitEditStep ==
    ASSUME PermIInv, NEW a \in Admin, CommitEdit(a)
    PROVE  PermIInv'
<1> USE DEF PermIInv
<1>a. /\ edit[a].kind \in {"row", "links"} /\ edit'[a] = NoEdit /\ NoEdit.kind = "none"
      /\ edit' \in [Admin -> {NoEdit} \cup RowEdit \cup LinkEdit]
      /\ \A b \in Admin : b # a => edit'[b] = edit[b]
      /\ links' = (links \ (Removes(edit[a]) \ late[a])) \cup Inserts(edit[a])
      /\ chosen' = (chosen \ Removes(edit[a])) \cup Inserts(edit[a])
      /\ late' \in [Admin -> SUBSET Links] /\ late'[a] = {}
      /\ \A b \in Admin : late'[b] \subseteq late[b] \cup Inserts(edit[a])
      /\ state' \in [Item -> {"new", "on", "off", "gone"}]
      /\ edit[a].kind = "row" => edit[a].item \in Item /\ Exists(edit[a].item) /\ state'[edit[a].item] = edit[a].to
      /\ \A j \in Item : edit[a].kind # "row" \/ j # edit[a].item => state'[j] = state[j]
      /\ edit[a].kind = "row" => edit[a].to \in {"on", "off", "gone"}
      /\ UNCHANGED <<read, copy, edits, merged, crossed>>
  <2>1. /\ edit[a].kind \in {"row", "links"} /\ NoEdit.kind = "none"
        /\ edit[a].kind = "row" => /\ edit[a].item \in Item /\ Exists(edit[a].item)
                                   /\ edit[a].to \in {"on", "off", "gone"}
        /\ Inserts(edit[a]) \subseteq Links
    BY EditShape, InsertShape DEF CommitEdit, PermEditsOK
  <2>2. /\ edit \in [Admin -> {NoEdit} \cup RowEdit \cup LinkEdit] /\ late \in [Admin -> SUBSET Links]
        /\ state \in [Item -> {"new", "on", "off", "gone"}]
    BY DEF PermEditsOK, PermRowsOK
  <2>3. /\ edit' = [edit EXCEPT ![a] = NoEdit]
        /\ links' = (links \ (Removes(edit[a]) \ late[a])) \cup Inserts(edit[a])
        /\ chosen' = (chosen \ Removes(edit[a])) \cup Inserts(edit[a])
        /\ UNCHANGED <<read, copy, edits, merged, crossed>>
    BY DEF CommitEdit
  <2>4. state' = IF edit[a].kind = "row" THEN [state EXCEPT ![edit[a].item] = edit[a].to] ELSE state
    BY DEF CommitEdit
  <2>5. late' = [b \in Admin |-> IF b \in InFlight \ {a} THEN late[b] \cup Inserts(edit[a]) ELSE {}]
    BY DEF CommitEdit
  <2>6. /\ late' \in [Admin -> SUBSET Links] /\ late'[a] = {}
        /\ \A b \in Admin : late'[b] \subseteq late[b] \cup Inserts(edit[a])
    BY <2>1, <2>2, <2>5
  <2>7. /\ state' \in [Item -> {"new", "on", "off", "gone"}]
        /\ edit[a].kind = "row" => state'[edit[a].item] = edit[a].to
        /\ \A j \in Item : edit[a].kind # "row" \/ j # edit[a].item => state'[j] = state[j]
    BY <2>1, <2>2, <2>4
  <2>8. QED
    BY <2>1, <2>2, <2>3, <2>6, <2>7
<1>1. PermRowsOK'
  <2>1. Inserts(edit[a]) \subseteq Links
    BY <1>a, InsertShape
  <2>2. QED
    BY <1>a, <2>1 DEF PermRowsOK
<1>2. PermEditsOK'
  <2>1. \A b \in Admin : b # a /\ edit[b].kind = "row" =>
            edit[b].item \in Item /\ Exists(edit[b].item) /\ (edit[a].kind = "row" => edit[b].item # edit[a].item)
    BY EditShape DEF PermEditsOK, RowsApart
  <2>2. \A b \in Admin : b # a /\ edit[b].kind = "row" => state'[edit[b].item] = state[edit[b].item]
    BY <1>a, <2>1
  <2>3. QED
    BY <1>a, <2>1, <2>2 DEF PermEditsOK, Exists
<1>3. RowsApart'
  BY <1>a DEF RowsApart
<1>4. LinksMade'
  <2>1. \A j \in Item \cup User : Made(j) => Made(j)'
    BY <1>a DEF Made
  <2>2. \A l \in links' : l \in links \/ (edit[a].kind = "links" /\ l[1] = edit[a].owner /\ l[2] \in edit[a].items)
    BY <1>a, InsertShape
  <2>3. \A l \in links : l[1] \in Item \cup User /\ l[2] \in Item
    BY LinkShape DEF PermRowsOK, Item
  <2>4. edit[a].kind = "links" => /\ edit[a].owner \in Item \cup User /\ Made(edit[a].owner)
                                 /\ \A i \in edit[a].items : i \in Item /\ Made(i)
    BY EditShape DEF EditsMade, Item, Owner
  <2>5. QED
    BY <2>1, <2>2, <2>3, <2>4 DEF LinksMade
<1>5. EditsMade'
  <2>1. \A j \in Item \cup User : Made(j) => Made(j)'
    BY <1>a DEF Made
  <2>2. \A b \in Admin : edit[b].kind = "links" => edit[b].owner \in Item \cup User /\ edit[b].items \subseteq Item
    BY EditShape DEF Item, Owner
  <2>3. QED
    BY <1>a, <2>1, <2>2 DEF EditsMade
<1>6. CopiesMade'
  <2>1. \A j \in Item \cup User : Made(j) => Made(j)'
    BY <1>a DEF Made
  <2>2. \A u \in User : copy[u].perms \cup read[u].perms \subseteq Item
    BY CopyMenus DEF Item
  <2>3. QED
    BY <1>a, <2>1, <2>2 DEF CopiesMade
<1>7. CopiesCurrent'
  <2>1. SUFFICES ASSUME NEW v \in User, v \notin crossed, copy[v].known
                 PROVE  /\ \A x \in {copy[v]} : Grants(x, v)'
                        /\ \A b \in Admin : \A w \in {edit'[b]} : w # NoEdit => v \notin Cleared(w)'
    BY <1>a DEF CopiesCurrent
  <2>2. /\ Grants(copy[v], v) /\ v \notin Cleared(edit[a])
        /\ \A b \in Admin : \A w \in {edit[b]} : w # NoEdit => v \notin Cleared(w)
    BY <1>a, <2>1 DEF CopiesCurrent
  <2>3. ASSUME NEW b \in Admin, b # a, NEW w \in {edit[b]}, w # NoEdit PROVE v \notin Cleared(w)'
    <3>1. w \in RowEdit \cup LinkEdit /\ (w.kind = "links" => w.owner \in User \cup Role \cup Scope)
      BY <2>3, EditShape
    <3>2. QED
      BY <2>2, <2>3, <3>1, ClearedKept
  <2>4. /\ Perms(v)' = Perms(v) \ Deleted(edit[a])
        /\ AllData(v)' <=> AllData(v)
        /\ RulesOf(v)' = RulesOf(v)
    BY <2>2, RightsKept
  <2>5. \A m \in copy[v].perms : (Exists(m)' <=> Exists(m) /\ m \notin Deleted(edit[a]))
    <3>1. SUFFICES ASSUME NEW m \in copy[v].perms PROVE Exists(m)' <=> Exists(m) /\ m \notin Deleted(edit[a])
      OBVIOUS
    <3>2. m \in Menu /\ m \in Item
      BY <3>1, CopyMenus DEF Item
    <3>3. QED
      BY <1>a, <3>2 DEF Exists, Deleted
  <2>6. \A x \in {copy[v]} : Grants(x, v)'
    BY <2>2, <2>4, <2>5 DEF Grants
  <2>7. QED
    BY <1>a, <2>3, <2>6
<1>8. ReadsAlone'
  BY <1>a DEF ReadsAlone
<1>9. PairsMerged'
  BY <1>a DEF PairsMerged, SameSet, Merges
<1>10. LateMerged'
  <2>1. SUFFICES ASSUME NEW b \in Admin, b # a, NEW l \in late'[b], edit[b].kind = "links",
                        l \in {edit[b].owner} \X edit[b].table
                 PROVE  Merges(b)
    BY <1>a DEF LateMerged, Merges
  <2>2. CASE l \in late[b]
    BY <2>1, <2>2 DEF LateMerged
  <2>3. CASE l \in Inserts(edit[a])
    <3>1. edit[a].kind = "links" /\ l \in {edit[a].owner} \X edit[a].items
      BY <1>a, <2>3, InsertShape
    <3>2. edit[a].owner = edit[b].owner /\ l[2] \in edit[a].table /\ l[2] \in edit[b].table
      BY <2>1, <3>1, EditShape
    <3>3. edit[a].table = edit[b].table
      BY <2>1, <3>1, <3>2, EditShape, PermissionsAssumption DEF Item
    <3>4. QED
      BY <2>1, <3>1, <3>2, <3>3 DEF PairsMerged, SameSet
  <2>4. QED
    BY <1>a, <2>1, <2>2, <2>3
<1>11. LinksAsChosen'
  <2>1. SUFFICES ASSUME NEW l \in Links, (l \in links') # (l \in chosen')
                 PROVE  \/ l[2] \in Menu /\ state'[l[2]] = "gone"
                        \/ \E t \in merged : l[1] = t[1] /\ l[2] \in t[2] /\ l[1] \notin User
    BY <1>a DEF LinksAsChosen
  <2>2. l \notin Inserts(edit[a])
    BY <1>a, <2>1
  <2>3. CASE l \notin Removes(edit[a])
    <3>1. (l \in links) # (l \in chosen)
      BY <1>a, <2>1, <2>2, <2>3
    <3>2. \A m \in Menu : state[m] = "gone" => state'[m] = "gone"
      BY <1>a DEF Item, Exists
    <3>3. QED
      BY <3>1, <3>2 DEF LinksAsChosen
  <2>4. CASE l \in Removes(edit[a])
    <3>1. l \in late[a]
      BY <1>a, <2>1, <2>2, <2>4
    <3>2. CASE edit[a].kind = "row"
      BY <1>a, <2>4, <3>2, InsertShape
    <3>3. CASE edit[a].kind = "links"
      <4>1. l \in {edit[a].owner} \X edit[a].table
        BY <2>4, <3>3, InsertShape
      <4>2. Merges(a)
        BY <3>1, <3>3, <4>1 DEF LateMerged
      <4>3. QED
        BY <4>1, <4>2 DEF Merges
    <3>4. QED
      BY <1>a, <3>2, <3>3
  <2>5. QED
    BY <2>3, <2>4
<1>12. PermCopiesOK'
  <2>1. UNCHANGED <<read, copy>>
    BY <1>a
  <2>2. QED
    BY <2>1 DEF PermCopiesOK
<1> QED
  BY <1>1, <1>2, <1>3, <1>4, <1>5, <1>6, <1>7, <1>8, <1>9, <1>10, <1>11, <1>12

\* The initial state satisfies the invariant.
LEMMA PermIInvInit ==
    ASSUME PermInit
    PROVE  PermIInv
<1>1. \A a \in Admin : edit[a] = NoEdit /\ late[a] = {} /\ NoEdit.kind = "none"
  BY DEF PermInit, NoEdit
<1>2. NoCopy \in Copies /\ ~NoCopy.known /\ NoCopy.perms = {}
  BY DEF NoCopy, Copies
<1>3. \A u \in User : copy[u] = NoCopy /\ read[u] = NoCopy
  BY DEF PermInit
<1>4. PermRowsOK
  BY PermissionsAssumption DEF PermInit, PermRowsOK
<1>5. PermCopiesOK /\ PermEditsOK
  BY <1>1, <1>2 DEF PermInit, PermCopiesOK, PermEditsOK
<1>6. RowsApart /\ EditsMade /\ PairsMerged /\ LateMerged
  BY <1>1 DEF RowsApart, EditsMade, PairsMerged, SameSet, LateMerged
<1>7. CopiesMade /\ CopiesCurrent /\ ReadsAlone
  BY <1>2, <1>3 DEF CopiesMade, CopiesCurrent, ReadsAlone
<1>8. LinksMade
  <2>1. \A l \in StartLinks : l[1] \in Item \cup User /\ l[2] \in Item
    BY LinkShape, PermissionsAssumption DEF Item
  <2>2. \A l \in StartLinks : \A i \in Item : i \in {l[1], l[2]} => state[i] = "on"
    BY DEF PermInit
  <2>3. QED
    BY <2>1, <2>2 DEF PermInit, LinksMade, Made
<1>9. LinksAsChosen
  BY DEF PermInit, LinksAsChosen
<1>10. QED
  BY <1>4, <1>5, <1>6, <1>7, <1>8, <1>9 DEF PermIInv

\* Each request begins a change it has checked.
LEMMA EditRowBegins ==
    ASSUME PermIInv, NEW a \in Admin, NEW i \in Item, NEW to \in {"on", "off", "gone"}, EditRow(a, i, to)
    PROVE  PermIInv'
<1> DEFINE e == [kind |-> "row", item |-> i, to |-> to]
<1>1. e \in RowEdit /\ e.item = i
  BY DEF RowEdit
<1>2. Begin(a, e) /\ Exists(i) /\ UNCHANGED merged
  BY DEF EditRow
<1>3. \A b \in Admin : edit[b].kind = "row" => edit[b].item # i
  BY EditShape DEF PermIInv, EditRow, InFlight
<1> HIDE DEF e
<1>4. BeginsRow(a, e)
  BY <1>1, <1>2, <1>3 DEF BeginsRow
<1>5. QED
  BY <1>1, <1>4, BeginsRowStep

\* Replacing the links of an owner, whatever the table.
LEMMA EditLinksBegins ==
    ASSUME PermIInv, NEW a \in Admin, NEW o, NEW t, <<o, t>> \in Tables, NEW items \in SUBSET t,
           EditLinks(a, o, t, items)
    PROVE  PermIInv'
<1> DEFINE e == [kind |-> "links", owner |-> o, table |-> t, items |-> items]
<1>1. \/ o \in User /\ t = Role
      \/ o \in Role /\ t \in {Menu, Scope}
      \/ o \in Scope /\ t = Rule
  BY TableShape
<1>2. e \in LinkEdit /\ e.owner = o /\ e.table = t /\ e.items = items
  BY <1>1 DEF LinkEdit, Owner, Item
<1>3. Begin(a, e) /\ (o \notin User => Exists(o)) /\ items \subseteq {i \in t : Exists(i)}
  BY DEF EditLinks
<1>4. o \in User => \A b \in Admin : edit[b].kind = "links" => edit[b].owner # o
  BY EditShape DEF PermIInv, EditLinks, OwnerFree, InFlight
<1>5. merged' = merged \cup {<<edit[b].owner, edit[b].table>> : b \in
                   {c \in InFlight : edit[c].kind = "links" /\ edit[c].owner = o /\ edit[c].table = t}}
  BY DEF EditLinks
<1>6. merged \subseteq merged' /\ merged' \subseteq Tables
  BY <1>5 DEF PermIInv, PermRowsOK
<1>7. \A b \in Admin : edit[b].kind = "links" /\ edit[b].owner = o /\ edit[b].table = t => <<o, t>> \in merged'
  BY <1>5, EditShape DEF PermIInv, InFlight
<1>8. Made(o) /\ \A i \in items : Exists(i)
  BY <1>3 DEF Made, Exists
<1> HIDE DEF e
<1>9. BeginsLinks(a, e)
  BY <1>2, <1>3, <1>4, <1>6, <1>7, <1>8 DEF BeginsLinks
<1>10. QED
  BY <1>2, <1>9, BeginsLinksStep

\* Every step keeps it.
LEMMA PermIInvStep == PermIInv /\ [PermNext]_permVars => PermIInv'
<1> SUFFICES ASSUME PermIInv, [PermNext]_permVars PROVE PermIInv'
  OBVIOUS
<1>1. CASE UNCHANGED permVars
  <2>1. UNCHANGED <<state, links, edit, late, read, copy, edits, chosen, merged, crossed>>
    BY <1>1 DEF permVars
  <2>2. /\ PermRowsOK' /\ PermCopiesOK' /\ PermEditsOK' /\ RowsApart' /\ LinksMade' /\ EditsMade' /\ CopiesMade'
        /\ PairsMerged' /\ LateMerged' /\ LinksAsChosen'
    BY <2>1 DEF PermIInv, PermRowsOK, PermCopiesOK, PermEditsOK, Exists, RowsApart, LinksMade, EditsMade, CopiesMade,
       Made, PairsMerged, SameSet, Merges, LateMerged, LinksAsChosen
  <2>3. CopiesCurrent' /\ ReadsAlone'
    BY <2>1, RightsSame DEF PermIInv, CopiesCurrent, ReadsAlone
  <2>4. QED
    BY <2>2, <2>3 DEF PermIInv
<1>2. ASSUME NEW u \in User, ReadUserRights(u) \/ StoreCopy(u) \/ CopyExpires(u) PROVE PermIInv'
  BY <1>2, ReadUserRightsStep, StoreCopyStep, CopyExpiresStep
<1>3. ASSUME NEW a \in Admin, RoleRequest(a) PROVE PermIInv'
  <2>1. PICK r \in Role : \/ CreateRole(r) \/ UpdateRole(a, r) \/ DeleteRole(a, r)
                          \/ UpdateRoleMenus(a, r) \/ UpdateRoleScopes(a, r)
    BY <1>3 DEF RoleRequest
  <2>2. r \in Item /\ <<r, Menu>> \in Tables /\ <<r, Scope>> \in Tables
    BY TableShape DEF Item
  <2>3. QED
    BY <2>1, <2>2, CreateItemStep, EditRowBegins, EditLinksBegins
       DEF CreateRole, UpdateRole, DeleteRole, UpdateRoleMenus, UpdateRoleScopes
<1>4. ASSUME NEW a \in Admin, MenuRequest(a) PROVE PermIInv'
  <2>1. PICK m \in Menu : CreateMenu(m) \/ UpdateMenu(a, m) \/ DeleteMenu(a, m)
    BY <1>4 DEF MenuRequest
  <2>2. m \in Item
    BY DEF Item
  <2>3. QED
    BY <2>1, <2>2, CreateItemStep, EditRowBegins DEF CreateMenu, UpdateMenu, DeleteMenu
<1>5. ASSUME NEW a \in Admin, ScopeRequest(a) PROVE PermIInv'
  <2>1. PICK s \in Scope : CreateScope(s) \/ UpdateScope(a, s) \/ DeleteScope(a, s) \/ UpdateScopeRules(a, s)
    BY <1>5 DEF ScopeRequest
  <2>2. s \in Item /\ <<s, Rule>> \in Tables
    BY TableShape DEF Item
  <2>3. QED
    BY <2>1, <2>2, CreateItemStep, EditRowBegins, EditLinksBegins
       DEF CreateScope, UpdateScope, DeleteScope, UpdateScopeRules
<1>6. ASSUME NEW a \in Admin, RuleRequest(a) PROVE PermIInv'
  <2>1. PICK x \in Rule : CreateRule(x) \/ UpdateRule(a, x) \/ DeleteRule(a, x)
    BY <1>6 DEF RuleRequest
  <2>2. x \in Item
    BY DEF Item
  <2>3. QED
    BY <2>1, <2>2, CreateItemStep, EditRowBegins DEF CreateRule, UpdateRule, DeleteRule
<1>7. ASSUME NEW a \in Admin, NEW u \in User, UpdateUserRoles(a, u) PROVE PermIInv'
  <2>1. <<u, Role>> \in Tables
    BY TableShape
  <2>2. QED
    BY <1>7, <2>1, EditLinksBegins DEF UpdateUserRoles
<1>8. ASSUME NEW a \in Admin, CommitEdit(a) \/ RollbackEdit(a) PROVE PermIInv'
  BY <1>8, CommitEditStep, RollbackEditStep
<1>9. QED
  BY <1>1, <1>2, <1>3, <1>4, <1>5, <1>6, <1>7, <1>8 DEF PermNext

\* It implies what the run checks.
LEMMA PermIInvEnough == PermIInv => PermInv
<1> SUFFICES ASSUME PermIInv PROVE PermInv
  OBVIOUS
<1>1. PermTypeOK
  BY DEF PermIInv, PermTypeOK, PermRowsOK, PermCopiesOK, PermEditsOK
<1>2. RightsCurrent
  <2>1. SUFFICES ASSUME NEW u \in User, u \notin crossed, copy[u].known PROVE Surviving(copy[u]) = Rights(u)
    BY DEF RightsCurrent
  <2>2. Grants(copy[u], u) /\ copy[u] \in Copies
    BY <2>1 DEF PermIInv, CopiesCurrent, PermCopiesOK
  <2>3. copy[u] \in [known : BOOLEAN, perms : SUBSET Menu, all : BOOLEAN, rules : SUBSET (Rule \X {"on", "off"})]
    BY <2>2 DEF Copies
  <2>4. Surviving(copy[u]) = [copy[u] EXCEPT !.perms = Perms(u)]
    BY <2>2 DEF Surviving, Grants
  <2>5. copy[u].known = TRUE /\ copy[u].rules = RulesOf(u)
    BY <2>1, <2>2, <2>3 DEF Grants
  <2>6. copy[u].all = AllData(u)
    BY <2>2, <2>3 DEF Grants, AllData
  <2>7. [copy[u] EXCEPT !.perms = Perms(u)]
            = [known |-> copy[u].known, perms |-> Perms(u), all |-> copy[u].all, rules |-> copy[u].rules]
    BY <2>3
  <2>8. QED
    BY <2>4, <2>5, <2>6, <2>7 DEF Rights
<1>3. QED
  BY <1>1, <1>2 DEF PermIInv, PermInv

\* Every reachable state satisfies the inductive invariant of the rights.
THEOREM PermInductive == PermSpec => []PermIInv
BY PermIInvInit, PermIInvStep, PTL DEF PermSpec

\* For any users, roles, menus, scopes, rules and associations, and any number
\* of overlapping changes: a cached copy that met no change while it was read
\* grants what the database grants, and the association tables are what the
\* last changes chose, or the union of two that replaced the same set at once.
THEOREM PermSafe == PermSpec => []PermInv
BY PermInductive, PermIInvEnough, PTL
-----------------------------------------------------------------------------
(* Departments: the tree of their rows and the users in them.                *)

DeptSpec == DeptInit /\ [][DeptNext]_deptVars

\* What a request has checked and not yet written: the department it refers to
\* lived, is gone only if a deletion was in flight with the request, and is not
\* the one it writes.
Writes == {"create", "update"}
Referred(p) == IF p.op \in Writes THEN p.parent ELSE p.dept
Knowing(p) ==
    /\ p.op \in Writes \cup {"assign"} => Referred(p) \in Live \cup {NoDept} \cup named
    /\ p.op \in Writes => p.parent # p.dept
    /\ p.op = "create" => dept[p.dept] = "new"
    /\ p.op \in {"update", "delete"} => dept[p.dept] # "new"
PlansKnow == \A r \in DeptRequest : \A p \in {plan[r]} : Knowing(p)
CreatedOnce ==
    \A r, q \in DeptRequest :
        plan[r].op = "create" /\ plan[q].op = "create" /\ plan[r].dept = plan[q].dept => r = q

\* A request that refers to a department and one that deletes it, in flight
\* together, have been seen to meet.
PlansMeet ==
    \A r, q \in DeptRequest :
        plan[r].op \in Writes \cup {"assign"} /\ plan[q].op = "delete" /\ Referred(plan[r]) = plan[q].dept
            => plan[q].dept \in named

\* What is about to be deleted has neither children nor members, or was met.
DeletedFree ==
    \A q \in DeptRequest :
        plan[q].op = "delete" /\ plan[q].dept \notin named =>
            /\ \A d \in Live : parent[d] # plan[q].dept
            /\ \A m \in Member : memberOf[m] # plan[q].dept

\* The inductive invariant of the departments.
DeptIInv ==
    /\ DeptTypeOK /\ PlansKnow /\ CreatedOnce /\ PlansMeet /\ DeletedFree /\ ParentsLive /\ MembersLive

\* What the checks of a request have found for the write it plans.
Foreseen(r, p) ==
    /\ p.op \in Writes \cup {"assign"} => Found(Referred(p))
    /\ p.op \in Writes => p.parent # p.dept
    /\ p.op = "create" =>
           /\ dept[p.dept] = "new"
           /\ \A q \in DeptRequest : plan[q] # NoPlan /\ plan[q].op = "create" => plan[q].dept # p.dept
    /\ p.op \in {"update", "delete"} => dept[p.dept] = "live"
    /\ p.op = "delete" => /\ \A m \in Member : memberOf[m] # p.dept
                          /\ \A d \in Dept : dept[d] = "live" => parent[d] # p.dept
Plans(r, p) == Checked(r, p) /\ Foreseen(r, p)

\* The writes by what they change; each takes the plan p of the request.
Takes(r, p) == /\ p = plan[r] /\ p \in Plan /\ plan' = [plan EXCEPT ![r] = NoPlan]
               /\ UNCHANGED named
WritesRow(r, p) ==
    /\ Takes(r, p) /\ p.op \in Writes
    /\ dept' = [dept EXCEPT ![p.dept] = "live"] /\ parent' = [parent EXCEPT ![p.dept] = p.parent]
    /\ UNCHANGED memberOf
DeletesRow(r, p) ==
    /\ Takes(r, p) /\ p.op = "delete" /\ dept[p.dept] = "live"
    /\ dept' = [dept EXCEPT ![p.dept] = "gone"] /\ parent' = [parent EXCEPT ![p.dept] = NoDept]
    /\ UNCHANGED memberOf
MovesMember(r, p) ==
    /\ Takes(r, p) /\ p.op = "assign" /\ memberOf' = [memberOf EXCEPT ![p.member] = p.dept]
    /\ UNCHANGED <<dept, parent>>
WritesNone(r, p) == Takes(r, p) /\ UNCHANGED <<dept, parent, memberOf>>


\* Induction on the numbers, for a set of them: there is no least one outside.
LEMMA SetInduction ==
    ASSUME NEW S, 0 \in S, \A n \in Nat : n \in S => n + 1 \in S
    PROVE  Nat \subseteq S
<1> DEFINE T == Nat \ S
<1> SUFFICES ASSUME T # {} PROVE FALSE
  OBVIOUS
<1> DEFINE Less == OpToRel(<, Nat)
<1>1. \A x, y \in Nat : x < y => <<x, y>> \in Less
  BY Zenon DEF OpToRel
<1>2. IsWellFoundedOn(Less, Nat)
  BY NatLessThanWellFounded, Zenon
<1> HIDE DEF Less
<1>3. PICK x \in T : \A y \in T : ~ (<<y, x>> \in Less)
  BY <1>2, WFMin
<1>4. x \in Nat /\ x # 0 /\ x \notin S
  OBVIOUS
<1>5. x - 1 \in Nat /\ x - 1 < x /\ (x - 1) + 1 = x
  BY <1>4
<1>6. x - 1 \notin S
  BY <1>4, <1>5
<1>7. <<x - 1, x>> \in Less
  BY <1>1, <1>4, <1>5
<1> QED
  BY <1>3, <1>5, <1>6, <1>7

\* The levels of the tree exist, up to any number of them: the recursive
\* function has the values its definition gives.
LEMMA LevelsExist ==
    ASSUME NEW V, NEW n \in Nat,
           NEW level, level = CHOOSE g : g = [k \in 0..n |->
               IF k = 0 THEN Tops(V) ELSE g[k - 1] \cup {d \in V : parent[d] \in g[k - 1]}]
    PROVE  /\ level[0] = Tops(V)
           /\ \A k \in Nat : k < n => level[k + 1] = level[k] \cup {d \in V : parent[d] \in level[k]}
<1> DEFINE Below(A) == {d \in V : parent[d] \in A}
           Is(g, m) == g = [k \in 0..m |-> IF k = 0 THEN Tops(V) ELSE g[k - 1] \cup Below(g[k - 1])]
           S == {m \in Nat : \E g : Is(g, m)}
<1>1. 0 \in S
  <2> DEFINE g == [k \in 0..0 |-> Tops(V)]
  <2>1. Is(g, 0)
    OBVIOUS
  <2> QED
    BY <2>1
<1>2. ASSUME NEW m \in Nat, m \in S PROVE m + 1 \in S
  <2>1. PICK g : Is(g, m)
    BY <1>2
  <2> HIDE DEF Below
  <2> DEFINE h == [k \in 0..(m + 1) |-> IF k = m + 1 THEN g[m] \cup Below(g[m]) ELSE g[k]]
  <2>2. \A k \in 0..m : g[k] = IF k = 0 THEN Tops(V) ELSE g[k - 1] \cup Below(g[k - 1])
    BY <2>1
  <2>3. \A k \in 0..(m + 1) : k - 1 \in 0..m => h[k - 1] = g[k - 1]
    OBVIOUS
  <2>4. ASSUME NEW k \in 0..(m + 1)
        PROVE  h[k] = IF k = 0 THEN Tops(V) ELSE h[k - 1] \cup Below(h[k - 1])
    <3>1. CASE k = m + 1
      <4>1. k # 0 /\ k - 1 = m /\ m \in 0..m
        BY <3>1
      <4>2. h[k] = g[m] \cup Below(g[m])
        BY <3>1
      <4>3. h[k - 1] = g[m]
        BY <2>3, <4>1
      <4> QED
        BY <4>1, <4>2, <4>3
    <3>2. CASE k # m + 1
      <4>1. k \in 0..m /\ (k # 0 => k - 1 \in 0..m)
        BY <3>2
      <4>2. h[k] = g[k]
        BY <3>2
      <4> QED
        BY <2>2, <2>3, <4>1, <4>2
    <3> QED
      BY <3>1, <3>2
  <2>5. Is(h, m + 1)
    BY <2>4
  <2>6. \E f : Is(f, m + 1)
    <3> HIDE DEF h, Is
    <3> QED
      BY <2>5
  <2> QED
    BY <2>6
<1>3. n \in S
  BY <1>1, <1>2, SetInduction
<1>4. Is(level, n)
  <2>1. \E g : Is(g, n)
    BY <1>3
  <2> QED
    BY <2>1
<1>5. ASSUME NEW k \in Nat, k < n
      PROVE  level[k + 1] = level[k] \cup {d \in V : parent[d] \in level[k]}
  <2> HIDE DEF Below
  <2>1. k + 1 \in 0..n /\ k + 1 # 0 /\ (k + 1) - 1 = k
    BY <1>5
  <2>2. level[k + 1] = level[k] \cup Below(level[k])
    BY <1>4, <2>1
  <2> QED
    BY <2>2 DEF Below
<1>6. level[0] = Tops(V)
  <2> HIDE DEF Below
  <2>1. 0 \in 0..n
    OBVIOUS
  <2> QED
    BY <1>4, <2>1
<1> QED
  BY <1>5, <1>6

\* Rows whose parents are all among them are on no level.
LEMMA LoopApart ==
    ASSUME NEW V \in SUBSET Dept, NEW level, NEW n \in Nat, level[0] = Tops(V),
           \A k \in Nat : k < n => level[k + 1] = level[k] \cup {d \in V : parent[d] \in level[k]},
           NEW C \in SUBSET V, \A d \in C : parent[d] \in C
    PROVE  \A k \in 0..n : level[k] \cap C = {}
<1> DEFINE S == {k \in Nat : k <= n => level[k] \cap C = {}}
<1>1. 0 \in S
  BY DeptAssumption DEF Tops
<1>2. ASSUME NEW k \in Nat, k \in S PROVE k + 1 \in S
  BY <1>2
<1>3. Nat \subseteq S
  BY <1>1, <1>2, SetInduction
<1>4. \A k \in 0..n : k \in Nat /\ k <= n
  OBVIOUS
<1> QED
  BY <1>3, <1>4

\* A level that is not closed under "has its parent there" grows, so that the
\* level whose number is that of the rows is closed.
LEMMA LevelsClose ==
    ASSUME NEW V, IsFiniteSet(V), NEW level, NEW n \in Nat, n = Cardinality(V), level[0] = Tops(V),
           \A k \in Nat : k < n => level[k + 1] = level[k] \cup {d \in V : parent[d] \in level[k]}
    PROVE  level[n] \subseteq V /\ Tops(V) \subseteq level[n] /\ \A d \in V : parent[d] \in level[n] => d \in level[n]
<1> DEFINE Closed(A) == \A d \in V : parent[d] \in A => d \in A
           S == {k \in Nat : k <= n => /\ level[k] \subseteq V /\ Tops(V) \subseteq level[k]
                                       /\ Closed(level[k]) \/ Cardinality(level[k]) >= k + 1}
<1>1. 0 \in S
  <2>1. Tops(V) \subseteq V
    BY DEF Tops
  <2>2. CASE Tops(V) = {}
    BY <2>1, <2>2
  <2>3. CASE Tops(V) # {}
    <3>1. IsFiniteSet(Tops(V)) /\ Cardinality(Tops(V)) \in Nat /\ Cardinality(Tops(V)) # 0
      BY <2>1, <2>3, FS_Subset, FS_EmptySet, FS_CardinalityType
    <3> QED
      BY <2>1, <3>1
  <2> QED
    BY <2>2, <2>3
<1>2. ASSUME NEW k \in Nat, k \in S PROVE k + 1 \in S
  <2> SUFFICES ASSUME k + 1 <= n PROVE k + 1 \in S
    OBVIOUS
  <2>1. level[k + 1] = level[k] \cup {d \in V : parent[d] \in level[k]}
    OBVIOUS
  <2>2. level[k] \subseteq V /\ Tops(V) \subseteq level[k] /\ (Closed(level[k]) \/ Cardinality(level[k]) >= k + 1)
    BY <1>2
  <2>3. level[k + 1] \subseteq V /\ Tops(V) \subseteq level[k + 1] /\ level[k] \subseteq level[k + 1]
    BY <2>1, <2>2
  <2>4. CASE Closed(level[k])
    <3>1. level[k + 1] = level[k]
      BY <2>1, <2>4
    <3> QED
      BY <2>3, <2>4, <3>1
  <2>5. CASE ~ Closed(level[k])
    <3>1. level[k + 1] # level[k]
      BY <2>1, <2>5
    <3>2. IsFiniteSet(level[k + 1])
      BY <2>3, FS_Subset
    <3>3. Cardinality(level[k]) <= Cardinality(level[k + 1]) /\ Cardinality(level[k]) # Cardinality(level[k + 1])
          /\ IsFiniteSet(level[k])
      BY <2>3, <3>1, <3>2, FS_Subset
    <3>4. Cardinality(level[k]) \in Nat /\ Cardinality(level[k + 1]) \in Nat
      BY <3>2, <3>3, FS_CardinalityType
    <3>5. Cardinality(level[k + 1]) >= (k + 1) + 1
      BY <2>2, <2>5, <3>3, <3>4
    <3> QED
      BY <2>3, <3>5
  <2> QED
    BY <2>4, <2>5
<1>3. n \in S
  BY <1>1, <1>2, SetInduction
<1>4. level[n] \subseteq V /\ Cardinality(level[n]) <= n /\ Cardinality(level[n]) \in Nat
  BY <1>3, FS_Subset, FS_CardinalityType
<1> QED
  BY <1>3, <1>4

\* The tree that traversal_to_tree builds from any visible rows.
LEMMA TreeIsComplete == TreeComplete
<1> SUFFICES ASSUME NEW V \in SUBSET Live PROVE Shown(V) = V \ Looped(V)
  BY DEF TreeComplete
<1> DEFINE n == Cardinality(V)
           level[k \in 0..n] ==
               IF k = 0 THEN Tops(V) ELSE level[k - 1] \cup {d \in V : parent[d] \in level[k - 1]}
<1>1. Shown(V) = level[n]
  BY DEF Shown
<1>2. V \in SUBSET Dept /\ IsFiniteSet(V) /\ n \in Nat
  BY DeptAssumption, FS_Subset, FS_CardinalityType DEF Live
<1>3. /\ level[0] = Tops(V)
      /\ \A k \in Nat : k < n => level[k + 1] = level[k] \cup {d \in V : parent[d] \in level[k]}
  BY <1>2, LevelsExist
<1> HIDE DEF level
<1>4. level[n] \subseteq V /\ Tops(V) \subseteq level[n] /\ \A d \in V : parent[d] \in level[n] => d \in level[n]
  BY <1>2, <1>3, LevelsClose
<1>5. ASSUME NEW C \in SUBSET V, \A d \in C : parent[d] \in C
      PROVE  level[n] \cap C = {}
  <2>1. \A k \in 0..n : level[k] \cap C = {}
    BY <1>2, <1>3, <1>5, LoopApart
  <2>2. n \in 0..n
    BY <1>2
  <2> QED
    BY <2>1, <2>2
<1>6. level[n] \cap Looped(V) = {}
  BY <1>5 DEF Looped
<1>7. \A d \in V \ level[n] : parent[d] \in V \ level[n]
  BY <1>4 DEF Tops
<1>8. V \ level[n] \subseteq Looped(V)
  BY <1>7 DEF Looped
<1> QED
  BY <1>1, <1>4, <1>6, <1>8

\* The fields of a planned write, by what it is.
LEMMA PlanFields ==
    ASSUME NEW p \in Plan
    PROVE  /\ p.op \in {"create", "update", "delete", "assign"} /\ p # NoPlan
           /\ p.op # "assign" => p.dept \in Dept
           /\ p.op \in Writes => p.parent \in DeptRef
           /\ p.op = "assign" => p.member \in Member /\ p.dept \in DeptRef
BY DEF Plan, NoPlan, Writes

\* A request without a plan has no operation.
LEMMA NoPlanOp == NoPlan.op = "none"
BY DEF NoPlan

\* A department that is found lives, or is none at all.
LEMMA FoundIs == ASSUME NEW d, Found(d) PROVE d \in Live \cup {NoDept}
BY DEF Found, Live

\* A request has checked what it is about to write.
LEMMA PlansStep ==
    ASSUME DeptIInv, NEW r \in DeptRequest, NEW p \in Plan, Plans(r, p)
    PROVE  DeptIInv'
<1> USE DEF DeptIInv
<1>a. /\ p \in Plan /\ plan[r] = NoPlan /\ NoPlan.op = "none" /\ plan'[r] = p
      /\ plan' \in [DeptRequest -> Plan \cup {NoPlan}]
      /\ \A q \in DeptRequest : q # r => plan'[q] = plan[q]
      /\ Foreseen(r, p) /\ Live' = Live /\ UNCHANGED <<dept, parent, memberOf>>
      /\ named \subseteq named' /\ named' \subseteq Dept
      /\ \A q \in DeptRequest : p.op \in Writes \cup {"assign"} /\ plan[q].op = "delete" /\ Referred(p) = plan[q].dept
                                => plan[q].dept \in named'
      /\ \A q \in DeptRequest : p.op = "delete" /\ plan[q].op \in Writes \cup {"assign"} /\ Referred(plan[q]) = p.dept
                                => p.dept \in named'
  <2>1. /\ plan[r] = NoPlan /\ plan' = [plan EXCEPT ![r] = p] /\ plan \in [DeptRequest -> Plan \cup {NoPlan}]
        /\ Foreseen(r, p) /\ UNCHANGED <<dept, parent, memberOf>>
    BY DEF Plans, Checked, DeptTypeOK
  <2>2. named' = named \cup UNION {(Refers(p) \cap Deletes(plan[q])) \cup (Deletes(p) \cap Refers(plan[q])) :
                                   q \in DeptRequest}
    BY DEF Plans, Checked
  <2>3. named \subseteq Dept /\ \A q \in DeptRequest : plan[q] \in Plan \cup {NoPlan}
    BY DEF DeptTypeOK
  <2>4. \A q \in Plan \cup {NoPlan} : Deletes(q) \subseteq Dept
    BY PlanFields, NoPlanOp DEF Deletes
  <2>5. named' \subseteq Dept
    BY <2>2, <2>3, <2>4
  <2>6. \A q \in DeptRequest : /\ Refers(p) \cap Deletes(plan[q]) \subseteq named'
                              /\ Deletes(p) \cap Refers(plan[q]) \subseteq named'
    BY <2>2
  <2>7. \A q \in Plan \cup {NoPlan} :
            /\ q.op \in Writes \cup {"assign"} => Referred(q) \in Refers(q)
            /\ q.op = "delete" => q.dept \in Deletes(q)
    BY DEF Referred, Refers, Deletes, Writes
  <2>8. QED
    BY <2>1, <2>2, <2>3, <2>5, <2>6, <2>7, NoPlanOp DEF Live
<1>1. DeptTypeOK'
  BY <1>a, PlanFields, DeptAssumption DEF DeptTypeOK, DeptRef, NoPlan
<1>2. PlansKnow'
  <2> SUFFICES ASSUME NEW q \in DeptRequest, NEW x \in {plan'[q]} PROVE Knowing(x)'
    BY DEF PlansKnow
  <2>1. CASE q = r
    <3>1. x = p /\ Foreseen(r, p) /\ (p.op \in Writes \cup {"assign"} => Referred(p) \in Live \cup {NoDept})
      BY <1>a, <2>1, FoundIs DEF Foreseen
    <3>2. Knowing(p)
      BY <3>1 DEF Foreseen, Knowing
    <3>3. Live' = Live /\ named \subseteq named' /\ dept' = dept
      BY <1>a
    <3> QED
      BY <3>1, <3>2, <3>3 DEF Knowing, Referred
  <2>2. CASE q # r
    <3>1. x = plan[q] /\ Knowing(x)
      BY <1>a, <2>2 DEF PlansKnow
    <3>3. Live' = Live /\ named \subseteq named' /\ dept' = dept
      BY <1>a
    <3> QED
      BY <3>1, <3>3 DEF Knowing, Referred
  <2> QED
    BY <2>1, <2>2
<1>3. CreatedOnce'
  <2>1. p.op = "create" => \A q \in DeptRequest : plan[q].op = "create" => plan[q].dept # p.dept
    BY <1>a, NoPlanOp DEF Foreseen
  <2>2. QED
    BY <1>a, <2>1 DEF CreatedOnce
<1>4. PlansMeet'
  BY <1>a, PlanFields, DeptAssumption DEF PlansMeet, Writes, Referred
<1>5. DeletedFree'
  <2> SUFFICES ASSUME NEW q \in DeptRequest, NEW x \in {plan'[q]}, x.op = "delete", x.dept \notin named'
               PROVE  /\ \A d \in Live' : parent'[d] # x.dept
                      /\ \A m \in Member : memberOf'[m] # x.dept
    BY DEF DeletedFree
  <2>1. CASE q = r
    BY <1>a, <2>1 DEF Foreseen, Live
  <2>2. CASE q # r
    BY <1>a, <2>2 DEF DeletedFree
  <2> QED
    BY <2>1, <2>2
<1>6. ParentsLive'
  BY <1>a, DeptAssumption DEF ParentsLive, PlansMeet, Writes, Referred
<1>7. MembersLive'
  BY <1>a, DeptAssumption DEF MembersLive, PlansKnow, DeletedFree, Knowing,
    Writes, Referred
<1> QED
  BY <1>1, <1>2, <1>3, <1>4, <1>5, <1>6, <1>7

\* A department is written, new or with another parent.
LEMMA WritesRowStep ==
    ASSUME DeptIInv, NEW r \in DeptRequest, NEW p \in Plan, WritesRow(r, p)
    PROVE  DeptIInv'
<1> USE DEF DeptIInv
<1>a. /\ p = plan[r] /\ p \in Plan /\ p.op \in Writes /\ plan'[r] = NoPlan /\ NoPlan.op = "none"
      /\ plan' \in [DeptRequest -> Plan \cup {NoPlan}] /\ \A q \in DeptRequest : q # r => plan'[q] = plan[q]
      /\ p.dept \in Dept /\ p.parent \in DeptRef
      /\ dept' \in [Dept -> {"new", "live", "gone"}] /\ parent' \in [Dept -> DeptRef]
      /\ dept'[p.dept] = "live" /\ \A d \in Dept : d # p.dept => dept'[d] = dept[d]
      /\ parent'[p.dept] = p.parent /\ \A d \in Dept : d # p.dept => parent'[d] = parent[d]
      /\ p.dept \in Live' /\ Live \subseteq Live' /\ Live' \subseteq Live \cup {p.dept} /\ UNCHANGED <<memberOf, named>>
  <2>1. /\ p \in Plan /\ p = plan[r] /\ plan' = [plan EXCEPT ![r] = NoPlan] /\ UNCHANGED <<memberOf, named>>
        /\ p.op \in Writes /\ dept' = [dept EXCEPT ![p.dept] = "live"]
        /\ parent' = [parent EXCEPT ![p.dept] = p.parent]
    BY DEF WritesRow, Takes
  <2>2. /\ plan \in [DeptRequest -> Plan \cup {NoPlan}] /\ dept \in [Dept -> {"new", "live", "gone"}]
        /\ parent \in [Dept -> DeptRef]
    BY DEF DeptTypeOK
  <2>3. p.dept \in Dept /\ p.parent \in DeptRef
    BY <2>1, PlanFields DEF Writes
  <2>4. /\ dept' \in [Dept -> {"new", "live", "gone"}] /\ dept'[p.dept] = "live"
        /\ \A d \in Dept : d # p.dept => dept'[d] = dept[d]
    BY <2>1, <2>2, <2>3
  <2>5. p.dept \in Live' /\ Live \subseteq Live' /\ Live' \subseteq Live \cup {p.dept}
    BY <2>3, <2>4 DEF Live
  <2>6. /\ parent' \in [Dept -> DeptRef] /\ parent'[p.dept] = p.parent
        /\ \A d \in Dept : d # p.dept => parent'[d] = parent[d]
    BY <2>1, <2>2, <2>3
  <2>7. /\ plan' \in [DeptRequest -> Plan \cup {NoPlan}] /\ plan'[r] = NoPlan
        /\ \A q \in DeptRequest : q # r => plan'[q] = plan[q]
    BY <2>1, <2>2
  <2>8. QED
    BY <2>1, <2>3, <2>4, <2>5, <2>6, <2>7, NoPlanOp
<1>1. DeptTypeOK'
  <2>1. p.parent # p.dept
    BY <1>a DEF PlansKnow, Knowing
  <2>2. \A d \in Dept : parent'[d] # d
    BY <1>a, <2>1 DEF DeptTypeOK
  <2>3. QED
    BY <1>a, <2>2 DEF DeptTypeOK
<1>2. PlansKnow'
  <2> SUFFICES ASSUME NEW q \in DeptRequest, NEW x \in {plan'[q]} PROVE Knowing(x)'
    BY DEF PlansKnow
  <2>1. CASE q = r
    BY <1>a, <2>1 DEF Knowing, Writes
  <2>2. CASE q # r
    <3>1. x = plan[q] /\ Knowing(x) /\ x \in Plan \cup {NoPlan}
      BY <1>a, <2>2 DEF PlansKnow, DeptTypeOK
    <3>2. x.op \in Writes \cup {"assign"} => Referred(x) \in Live' \cup {NoDept} \cup named'
      BY <1>a, <3>1 DEF Knowing
    <3>3. x.op = "create" => dept'[x.dept] = "new"
      <4>1. x.op = "create" => x.dept # p.dept
        <5>1. CASE p.op = "create"
          BY <1>a, <2>2, <3>1, <5>1 DEF CreatedOnce
        <5>2. CASE p.op = "update"
          <6>1. dept[p.dept] # "new"
            BY <1>a, <5>2 DEF PlansKnow, Knowing
          <6> QED
            BY <3>1, <6>1 DEF Knowing
        <5> QED
          BY <1>a, <5>1, <5>2 DEF Writes
      <4>2. x.op = "create" => x.dept \in Dept
        BY <3>1, PlanFields, NoPlanOp
      <4> QED
        BY <1>a, <3>1, <4>1, <4>2 DEF Knowing
    <3>4. x.op \in {"update", "delete"} => dept'[x.dept] # "new"
      <4>1. x.op \in {"update", "delete"} => x.dept \in Dept
        BY <3>1, PlanFields, NoPlanOp
      <4> QED
        BY <1>a, <3>1, <4>1 DEF Knowing
    <3> QED
      BY <3>1, <3>2, <3>3, <3>4 DEF Knowing, Referred
  <2> QED
    BY <2>1, <2>2
<1>3. CreatedOnce'
  BY <1>a, DeptAssumption DEF CreatedOnce
<1>4. PlansMeet'
  BY <1>a, PlanFields, DeptAssumption DEF PlansMeet, Writes, Referred
<1>5. DeletedFree'
  <2> SUFFICES ASSUME NEW q \in DeptRequest, NEW x \in {plan'[q]}, x.op = "delete", x.dept \notin named'
               PROVE  /\ \A d \in Live' : parent'[d] # x.dept
                      /\ \A m \in Member : memberOf'[m] # x.dept
    BY DEF DeletedFree
  <2>1. q # r /\ x = plan[q] /\ x.dept \notin named
    BY <1>a
  <2>2. /\ \A d \in Live : parent[d] # x.dept
        /\ \A m \in Member : memberOf[m] # x.dept
    BY <2>1 DEF DeletedFree
  <2>3. p.parent # x.dept
    BY <1>a, <2>1 DEF PlansMeet, Referred
  <2>4. \A d \in Live' : d \in Dept /\ (d # p.dept => d \in Live)
    BY <1>a DEF Live
  <2> QED
    BY <1>a, <2>2, <2>3, <2>4
<1>6. ParentsLive'
  <2>1. p.parent \in Live \cup {NoDept} \cup named
    BY <1>a DEF PlansKnow, Knowing, Referred
  <2>2. \A d \in Live' : d \in Dept /\ (d # p.dept => d \in Live)
    BY <1>a DEF Live
  <2>3. QED
    BY <1>a, <2>1, <2>2 DEF ParentsLive
<1>7. MembersLive'
  BY <1>a, DeptAssumption DEF MembersLive, PlansKnow, DeletedFree, Knowing,
    Writes, Referred
<1> QED
  BY <1>1, <1>2, <1>3, <1>4, <1>5, <1>6, <1>7

\* A department is deleted.
LEMMA DeletesRowStep ==
    ASSUME DeptIInv, NEW r \in DeptRequest, NEW p \in Plan, DeletesRow(r, p)
    PROVE  DeptIInv'
<1> USE DEF DeptIInv
<1>a. /\ p = plan[r] /\ p \in Plan /\ p.op = "delete" /\ plan'[r] = NoPlan /\ NoPlan.op = "none"
      /\ plan' \in [DeptRequest -> Plan \cup {NoPlan}] /\ \A q \in DeptRequest : q # r => plan'[q] = plan[q]
      /\ p.dept \in Dept
      /\ dept' \in [Dept -> {"new", "live", "gone"}] /\ parent' \in [Dept -> DeptRef]
      /\ dept'[p.dept] = "gone" /\ \A d \in Dept : d # p.dept => dept'[d] = dept[d]
      /\ parent'[p.dept] = NoDept /\ \A d \in Dept : d # p.dept => parent'[d] = parent[d]
      /\ p.dept \in Live /\ Live' = Live \ {p.dept} /\ UNCHANGED <<memberOf, named>>
  <2>1. p \in Plan /\ p = plan[r] /\ plan' = [plan EXCEPT ![r] = NoPlan]
    BY DEF DeletesRow, Takes
  <2>2. plan \in [DeptRequest -> Plan \cup {NoPlan}]
    BY DEF DeptTypeOK
  <2>3. QED
    BY <2>1, <2>2, PlanFields, NoPlanOp DEF DeletesRow, Takes, DeptTypeOK, DeptRef, Live
<1>1. DeptTypeOK'
  <2>1. \A d \in Dept : parent'[d] # d
    BY <1>a, DeptAssumption DEF DeptTypeOK
  <2>2. QED
    BY <1>a, <2>1 DEF DeptTypeOK
<1>2. PlansKnow'
  <2> SUFFICES ASSUME NEW q \in DeptRequest, NEW x \in {plan'[q]} PROVE Knowing(x)'
    BY DEF PlansKnow
  <2>1. CASE q = r
    BY <1>a, <2>1 DEF Knowing, Writes
  <2>2. CASE q # r
    <3>1. x = plan[q] /\ Knowing(x) /\ x \in Plan \cup {NoPlan}
      BY <1>a, <2>2 DEF PlansKnow, DeptTypeOK
    <3>2. x.op \in Writes \cup {"assign"} => Referred(x) \in Live' \cup {NoDept} \cup named'
      <4>1. x.op \in Writes \cup {"assign"} /\ Referred(x) = p.dept => p.dept \in named
        BY <1>a, <3>1 DEF PlansMeet
      <4> QED
        BY <1>a, <3>1, <4>1 DEF Knowing
    <3>3. x.op = "create" => dept'[x.dept] = "new"
      <4>1. x.op = "create" => x.dept # p.dept /\ x.dept \in Dept
        BY <1>a, <3>1, PlanFields, NoPlanOp DEF Knowing, Live
      <4> QED
        BY <1>a, <3>1, <4>1 DEF Knowing
    <3>4. x.op \in {"update", "delete"} => dept'[x.dept] # "new"
      <4>1. x.op \in {"update", "delete"} => x.dept \in Dept
        BY <3>1, PlanFields, NoPlanOp
      <4> QED
        BY <1>a, <3>1, <4>1 DEF Knowing
    <3> QED
      BY <3>1, <3>2, <3>3, <3>4 DEF Knowing, Referred
  <2> QED
    BY <2>1, <2>2
<1>3. CreatedOnce'
  BY <1>a, DeptAssumption DEF CreatedOnce
<1>4. PlansMeet'
  BY <1>a, PlanFields, DeptAssumption DEF PlansMeet, Writes, Referred
<1>5. DeletedFree'
  <2> SUFFICES ASSUME NEW q \in DeptRequest, NEW x \in {plan'[q]}, x.op = "delete", x.dept \notin named'
               PROVE  /\ \A d \in Live' : parent'[d] # x.dept
                      /\ \A m \in Member : memberOf'[m] # x.dept
    BY DEF DeletedFree
  <2>1. q # r /\ x = plan[q] /\ x.dept \notin named
    BY <1>a
  <2>2. \A d \in Live' : d \in Dept /\ d \in Live /\ d # p.dept
    BY <1>a DEF Live
  <2> QED
    BY <1>a, <2>1, <2>2 DEF DeletedFree
<1>6. ParentsLive'
  <2>1. p.dept \notin named => \A d \in Live : parent[d] # p.dept
    BY <1>a DEF DeletedFree
  <2>2. \A d \in Live' : d \in Dept /\ d \in Live /\ d # p.dept
    BY <1>a DEF Live
  <2>3. QED
    BY <1>a, <2>1, <2>2 DEF ParentsLive
<1>7. MembersLive'
  <2>1. p.dept \notin named => \A m \in Member : memberOf[m] # p.dept
    BY <1>a DEF DeletedFree
  <2>2. QED
    BY <1>a, <2>1 DEF MembersLive
<1> QED
  BY <1>1, <1>2, <1>3, <1>4, <1>5, <1>6, <1>7

\* A user is put into a department.
LEMMA MovesMemberStep ==
    ASSUME DeptIInv, NEW r \in DeptRequest, NEW p \in Plan, MovesMember(r, p)
    PROVE  DeptIInv'
<1> USE DEF DeptIInv
<1>a. /\ p = plan[r] /\ p \in Plan /\ p.op = "assign" /\ plan'[r] = NoPlan /\ NoPlan.op = "none"
      /\ plan' \in [DeptRequest -> Plan \cup {NoPlan}] /\ \A q \in DeptRequest : q # r => plan'[q] = plan[q]
      /\ p.member \in Member /\ p.dept \in DeptRef /\ memberOf' \in [Member -> DeptRef]
      /\ memberOf'[p.member] = p.dept /\ \A m \in Member : m # p.member => memberOf'[m] = memberOf[m]
      /\ Live' = Live /\ UNCHANGED <<dept, parent, named>>
  <2>1. p \in Plan /\ p = plan[r] /\ plan' = [plan EXCEPT ![r] = NoPlan]
    BY DEF MovesMember, Takes
  <2>2. plan \in [DeptRequest -> Plan \cup {NoPlan}]
    BY DEF DeptTypeOK
  <2>3. QED
    BY <2>1, <2>2, PlanFields, NoPlanOp DEF MovesMember, Takes, DeptTypeOK, DeptRef, Live
<1>1. DeptTypeOK'
  BY <1>a, PlanFields, DeptAssumption DEF DeptTypeOK, DeptRef, NoPlan
<1>2. PlansKnow'
  <2> SUFFICES ASSUME NEW q \in DeptRequest, NEW x \in {plan'[q]} PROVE Knowing(x)'
    BY DEF PlansKnow
  <2>1. CASE q = r
    BY <1>a, <2>1 DEF Knowing, Writes
  <2>2. CASE q # r
    <3>1. x = plan[q] /\ Knowing(x) /\ Live' = Live /\ UNCHANGED <<dept, named>>
      BY <1>a, <2>2 DEF PlansKnow
    <3> QED
      BY <3>1 DEF Knowing, Referred
  <2> QED
    BY <2>1, <2>2
<1>3. CreatedOnce'
  BY <1>a, DeptAssumption DEF CreatedOnce
<1>4. PlansMeet'
  BY <1>a, PlanFields, DeptAssumption DEF PlansMeet, Writes, Referred
<1>5. DeletedFree'
  <2> SUFFICES ASSUME NEW q \in DeptRequest, NEW x \in {plan'[q]}, x.op = "delete", x.dept \notin named'
               PROVE  /\ \A d \in Live' : parent'[d] # x.dept
                      /\ \A m \in Member : memberOf'[m] # x.dept
    BY DEF DeletedFree
  <2>1. q # r /\ x = plan[q] /\ x.dept \notin named
    BY <1>a
  <2>2. p.dept # x.dept
    BY <1>a, <2>1 DEF PlansMeet, Referred, Writes
  <2> QED
    BY <1>a, <2>1, <2>2 DEF DeletedFree
<1>6. MembersLive'
  <2>1. p.dept \in Live \cup {NoDept} \cup named
    BY <1>a DEF PlansKnow, Knowing, Referred, Writes
  <2>2. QED
    BY <1>a, <2>1 DEF MembersLive
<1>7. ParentsLive'
  <2>1. UNCHANGED <<dept, parent, named>>
    BY <1>a
  <2>2. QED
    BY <2>1 DEF ParentsLive, Live
<1> QED
  BY <1>1, <1>2, <1>3, <1>4, <1>5, <1>6, <1>7

\* A write that finds nothing, or fails.
LEMMA WritesNoneStep ==
    ASSUME DeptIInv, NEW r \in DeptRequest, NEW p \in Plan, WritesNone(r, p)
    PROVE  DeptIInv'
<1> USE DEF DeptIInv
<1>a. /\ p = plan[r] /\ plan'[r] = NoPlan /\ NoPlan.op = "none"
      /\ plan' \in [DeptRequest -> Plan \cup {NoPlan}] /\ \A q \in DeptRequest : q # r => plan'[q] = plan[q]
      /\ Live' = Live /\ UNCHANGED <<dept, parent, memberOf, named>>
  <2>1. p \in Plan /\ p = plan[r] /\ plan' = [plan EXCEPT ![r] = NoPlan]
    BY DEF WritesNone, Takes
  <2>2. plan \in [DeptRequest -> Plan \cup {NoPlan}]
    BY DEF DeptTypeOK
  <2>3. QED
    BY <2>1, <2>2, PlanFields, NoPlanOp DEF WritesNone, Takes, DeptTypeOK, DeptRef, Live
<1>1. DeptTypeOK'
  BY <1>a, PlanFields, DeptAssumption DEF DeptTypeOK, DeptRef, NoPlan
<1>2. PlansKnow'
  <2> SUFFICES ASSUME NEW q \in DeptRequest, NEW x \in {plan'[q]} PROVE Knowing(x)'
    BY DEF PlansKnow
  <2>1. CASE q = r
    BY <1>a, <2>1 DEF Knowing, Writes
  <2>2. CASE q # r
    <3>1. x = plan[q] /\ Knowing(x) /\ Live' = Live /\ UNCHANGED <<dept, named>>
      BY <1>a, <2>2 DEF PlansKnow
    <3> QED
      BY <3>1 DEF Knowing, Referred
  <2> QED
    BY <2>1, <2>2
<1>3. CreatedOnce'
  BY <1>a, DeptAssumption DEF CreatedOnce
<1>4. PlansMeet'
  BY <1>a, PlanFields, DeptAssumption DEF PlansMeet, Writes, Referred
<1>5. DeletedFree'
  BY <1>a, DeptAssumption DEF DeletedFree, PlansMeet, Writes, Referred
<1>6. ParentsLive' /\ MembersLive'
  <2>1. UNCHANGED <<dept, parent, memberOf, named>>
    BY <1>a
  <2>2. QED
    BY <2>1 DEF ParentsLive, MembersLive, Live
<1> QED
  BY <1>1, <1>2, <1>3, <1>4, <1>5, <1>6

\* The checks of a request, whatever it plans.
LEMMA PlannedStep ==
    ASSUME DeptIInv, NEW r \in DeptRequest,
           \/ \E d \in Dept, p \in DeptRef : CreateDept(r, d, p) \/ UpdateDept(r, d, p)
           \/ \E d \in Dept : DeleteDept(r, d)
           \/ \E m \in Member, d \in DeptRef : AssignMember(r, m, d)
    PROVE  DeptIInv'
<1>1. CASE \E d \in Dept, p \in DeptRef : CreateDept(r, d, p)
  <2>1. PICK d \in Dept, p \in DeptRef : CreateDept(r, d, p)
    BY <1>1
  <2>2. [op |-> "create", dept |-> d, parent |-> p] \in Plan
    BY DEF Plan
  <2>3. Plans(r, [op |-> "create", dept |-> d, parent |-> p])
    BY <2>1 DEF CreateDept, Plans, Foreseen, Writes, Referred
  <2> QED
    BY <2>2, <2>3, PlansStep
<1>2. CASE \E d \in Dept, p \in DeptRef : UpdateDept(r, d, p)
  <2>1. PICK d \in Dept, p \in DeptRef : UpdateDept(r, d, p)
    BY <1>2
  <2>2. [op |-> "update", dept |-> d, parent |-> p] \in Plan
    BY DEF Plan
  <2>3. Plans(r, [op |-> "update", dept |-> d, parent |-> p])
    BY <2>1 DEF UpdateDept, Plans, Foreseen, Writes, Referred
  <2> QED
    BY <2>2, <2>3, PlansStep
<1>3. CASE \E d \in Dept : DeleteDept(r, d)
  <2>1. PICK d \in Dept : DeleteDept(r, d)
    BY <1>3
  <2>2. [op |-> "delete", dept |-> d] \in Plan
    BY DEF Plan
  <2>3. Plans(r, [op |-> "delete", dept |-> d])
    BY <2>1 DEF DeleteDept, Plans, Foreseen, Writes
  <2> QED
    BY <2>2, <2>3, PlansStep
<1>4. CASE \E m \in Member, d \in DeptRef : AssignMember(r, m, d)
  <2>1. PICK m \in Member, d \in DeptRef : AssignMember(r, m, d)
    BY <1>4
  <2>2. [op |-> "assign", member |-> m, dept |-> d] \in Plan
    BY DEF Plan
  <2>3. Plans(r, [op |-> "assign", member |-> m, dept |-> d])
    BY <2>1 DEF AssignMember, Plans, Foreseen, Writes, Referred
  <2> QED
    BY <2>2, <2>3, PlansStep
<1> QED
  BY <1>1, <1>2, <1>3, <1>4

\* The write of a request, whatever it had planned, and one that fails.
LEMMA WrittenStep ==
    ASSUME DeptIInv, NEW r \in DeptRequest, WriteDept(r) \/ WriteDeptFails(r)
    PROVE  DeptIInv'
<1> DEFINE p == plan[r]
<1>1. p \in Plan /\ p # NoPlan
  BY DEF DeptIInv, DeptTypeOK, WriteDept, WriteDeptFails
<1>2. Takes(r, p)
  BY <1>1 DEF WriteDept, WriteDeptFails, Takes
<1>3. \/ WritesRow(r, p) \/ DeletesRow(r, p) \/ MovesMember(r, p) \/ WritesNone(r, p)
  BY <1>2 DEF WriteDept, WriteDeptFails, WritesRow, DeletesRow, MovesMember, WritesNone, Writes
<1> QED
  BY <1>1, <1>3, WritesRowStep, DeletesRowStep, MovesMemberStep, WritesNoneStep

\* The inductive invariant of the departments: what a request has checked
\* still holds when it writes, unless a request that refers to the department
\* was in flight with the one that deletes it.
THEOREM DeptInductive == DeptSpec => []DeptIInv
<1>1. DeptInit => DeptIInv
  BY DeptAssumption, NoPlanOp DEF DeptInit, DeptIInv, DeptTypeOK, PlansKnow, Knowing, CreatedOnce, PlansMeet,
     DeletedFree, ParentsLive, MembersLive, Live, DeptRef, Writes
<1>2. DeptIInv /\ [DeptNext]_deptVars => DeptIInv'
  <2>1. ASSUME DeptIInv, DeptNext PROVE DeptIInv'
    BY <2>1, PlannedStep, WrittenStep DEF DeptNext
  <2>2. ASSUME DeptIInv, UNCHANGED deptVars PROVE DeptIInv'
    BY <2>2 DEF deptVars, DeptIInv, DeptTypeOK, PlansKnow, Knowing, CreatedOnce, PlansMeet, DeletedFree,
       ParentsLive, MembersLive, Live, Referred
  <2> QED
    BY <2>1, <2>2
<1> QED
  BY <1>1, <1>2, PTL DEF DeptSpec

\* The tree that is built from any rows shows all of them but those on or
\* below a cycle, and parents and members' departments live, unless the
\* deletion met a request that refers to them.
THEOREM DeptSafe == DeptSpec => []DeptInv
<1>1. DeptIInv => DeptInv
  BY TreeIsComplete DEF DeptIInv, DeptInv
<1> QED
  BY <1>1, DeptInductive, PTL
=============================================================================
