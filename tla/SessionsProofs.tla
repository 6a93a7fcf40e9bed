--------------------------- MODULE SessionsProofs ---------------------------
(* That a single-login account has one login and that an exchanged token     *)
(* stays invalid, for any accounts, sessions and concurrent requests.        *)
EXTENDS Sessions, TLAPS

Owner(r)      == req[r].u
LoginSteps    == {"dropAccess", "setAccess", "dropRefresh", "setRefresh"}
ChangeSteps   == {"keys", "commit"}
RefreshSteps  == {"refreshCheck", "exchange"}
PendingSteps  == {"dropRefresh", "setRefresh"}

\* A password login that has passed update_login_time.
LoggingIn(r)  == req[r].op = "login" /\ req[r].pc \in LoginSteps

\* The sessions of an account that a password login has created.
OneLogin(u)   == \A s, t \in access[u] \cap byLogin : s = t
NoLogin(u)    == access[u] \cap byLogin = {}

\* A running request is one of an account; what it carries fits its step.
RequestInv ==
    \A r \in Request :
        /\ req[r].pc # "idle" => Owner(r) \in User
        /\ req[r].pc \in RefreshSteps => req[r].op = "refresh" /\ req[r].s \in Session
        /\ req[r].pc \in PendingSteps => req[r].s \in Session
        /\ req[r].pc \in ChangeSteps => req[r].new \in Row

\* Only live rows are locked, and a password login holds the lock of its
\* account and acts on the flag the row has.
LockInv ==
    /\ \A u \in User : rowLock[u] # None => Live(u)
    /\ \A r \in Request : LoggingIn(r) /\ Live(Owner(r)) =>
          /\ rowLock[Owner(r)] = r
          /\ req[r].flag = row[Owner(r)].multi

\* A session_uuid is known for one account only, and was issued.
Known(u, s) ==
    \/ s \in access[u] \cup refresh[u]
    \/ \E r \in Request : req[r].u = u /\ req[r].s = s

OwnInv ==
    /\ byLogin \subseteq issued /\ exchanged \subseteq issued
    /\ \A s \in Session : \A u \in User : Known(u, s) =>
          s \in issued /\ \A v \in User : Known(v, s) => u = v

\* The refresh token a request is about to store is not stored yet, was not
\* exchanged, and no other request has it.
PendingInv ==
    \A r \in Request : req[r].pc \in PendingSteps =>
        /\ req[r].s \notin exchanged
        /\ \A u \in User : req[r].s \notin refresh[u]
        /\ \A q \in Request : req[q].s = req[r].s => q = r

\* Where a single-login account has no session of a password login, and where
\* it keeps at most one although the row does not say so yet.
DropInv ==
    \A r \in Request :
        /\ LoggingIn(r) /\ req[r].pc = "setAccess" /\ Live(Owner(r))
              /\ ~row[Owner(r)].multi => NoLogin(Owner(r))
        /\ req[r].pc = "keys" /\ rowLock[Owner(r)] = r =>
              \/ req[r].op = "multi"
              \/ req[r].new.multi = row[Owner(r)].multi
        /\ req[r].pc = "commit" /\ rowLock[Owner(r)] = r /\ ~req[r].new.multi =>
              OneLogin(Owner(r))

\* The inductive invariant.
SessionsIInv ==
    /\ SessionsTypeOK /\ RequestInv /\ LockInv /\ OwnInv /\ PendingInv
    /\ DropInv /\ SingleLogin /\ ExchangedIsOver

\* create_access_token with the session_uuid it has drawn.
StoreAccess(r, s) ==
    LET u == req[r].u IN
    /\ At(r, "setAccess")
    /\ access' = Put(access, u, access[u] \cup {s})
    /\ issued' = issued \cup {s}
    /\ byLogin' = IF req[r].op = "login" THEN byLogin \cup {s} ELSE byLogin
    /\ IF req[r].op = "swagger"
       THEN Finish(r)
       ELSE /\ req' = [req EXCEPT ![r].pc = "dropRefresh", ![r].s = s]
            /\ UNCHANGED rowLock
    /\ UNCHANGED <<row, refresh, cached, exchanged>>

\* A change makes a row of a row.
LEMMA ChangedRow ==
    \A op \in Op, flag, own \in BOOLEAN, old \in Row : Changed(op, flag, old, own) \in Row
BY ZenonT(60) DEF Changed, Row

----------------------------------------------------------------------------
(* Each step preserves the invariant. *)

\* Crash (get_db_transaction) keeps the invariant.
LEMMA CrashStep ==
    ASSUME SessionsIInv, NEW r \in Request, Crash(r)
    PROVE  SessionsIInv'
<1> USE DEF SessionsIInv
<1>1. SessionsTypeOK'
  BY SessionsAssumption DEF Crash, SessionsTypeOK, RequestInv, At, Finish,
    ghosts, Row, RequestState, Owner, RefreshSteps, PendingSteps, ChangeSteps,
    Idle, Op, Step, Change
<1>2. RequestInv'
  BY SessionsAssumption DEF Crash, RequestInv, SessionsTypeOK, At, Finish,
    ghosts, Owner, RefreshSteps, PendingSteps, ChangeSteps, Row, RequestState,
    Idle, Op, Step, Change
<1>3. LockInv'
  BY SessionsAssumption, ZenonT(60) DEF Crash, LockInv, SessionsTypeOK, RequestInv, At,
    Finish, ghosts, Live, LoggingIn, Owner, Row, RequestState, RefreshSteps,
    PendingSteps, ChangeSteps, Idle, LoginSteps, Op, Step, Change
<1>4. OwnInv'
  BY SessionsAssumption DEF Crash, OwnInv, SessionsTypeOK, RequestInv, At,
    Finish, ghosts, Known, Row, RequestState, Owner, RefreshSteps,
    PendingSteps, ChangeSteps, Idle, Op, Step, Change
<1>5. PendingInv'
  BY SessionsAssumption DEF Crash, PendingInv, OwnInv, SessionsTypeOK,
    RequestInv, At, Finish, ghosts, PendingSteps, Known, Row, RequestState,
    Owner, RefreshSteps, ChangeSteps, Idle, Op, Step, Change
<1>6. DropInv'
  BY SessionsAssumption DEF Crash, DropInv, LockInv, OwnInv, SingleLogin,
    SessionsTypeOK, RequestInv, At, Finish, ghosts, LoggingIn, Live, Owner,
    NoLogin, OneLogin, Known, Row, RequestState, RefreshSteps, PendingSteps,
    ChangeSteps, Idle, LoginSteps, Op, Step, Change
<1>7. SingleLogin' /\ ExchangedIsOver'
  BY DEF Crash, ghosts, SingleLogin, ExchangedIsOver, Live
<1>8. QED
  BY <1>1, <1>2, <1>3, <1>4, <1>5, <1>6, <1>7 DEF SessionsIInv

\* Verify (AuthService.user_verify) keeps the invariant.
LEMMA VerifyStep ==
    ASSUME SessionsIInv, NEW r \in Request, NEW u \in User, NEW op \in {"login", "swagger"}, Verify(r, u, op)
    PROVE  SessionsIInv'
<1> USE DEF SessionsIInv
<1>1. SessionsTypeOK'
  BY SessionsAssumption DEF Verify, SessionsTypeOK, RequestInv, Live, Start,
    ghosts, Row, RequestState, Owner, RefreshSteps, PendingSteps, ChangeSteps,
    At, Op, Step, Change
<1>2. RequestInv'
  BY SessionsAssumption DEF Verify, RequestInv, SessionsTypeOK, Live, Start,
    ghosts, Owner, RefreshSteps, PendingSteps, ChangeSteps, Row, RequestState,
    At, Op, Step, Change
<1>3. LockInv'
  BY SessionsAssumption DEF Verify, LockInv, SessionsTypeOK, RequestInv, Live,
    Start, ghosts, LoggingIn, Owner, Row, RequestState, RefreshSteps,
    PendingSteps, ChangeSteps, At, LoginSteps, Op, Step, Change
<1>4. OwnInv'
  BY SessionsAssumption DEF Verify, OwnInv, SessionsTypeOK, RequestInv, Live,
    Start, ghosts, Known, Row, RequestState, Owner, RefreshSteps,
    PendingSteps, ChangeSteps, At, Op, Step, Change
<1>5. PendingInv'
  BY SessionsAssumption DEF Verify, PendingInv, OwnInv, SessionsTypeOK,
    RequestInv, Live, Start, ghosts, PendingSteps, Known, Row, RequestState,
    Owner, RefreshSteps, ChangeSteps, At, Op, Step, Change
<1>6. DropInv'
  BY SessionsAssumption DEF Verify, DropInv, LockInv, OwnInv, SingleLogin,
    SessionsTypeOK, RequestInv, Live, Start, ghosts, LoggingIn, Owner,
    NoLogin, OneLogin, Known, Row, RequestState, RefreshSteps, PendingSteps,
    ChangeSteps, At, LoginSteps, Op, Step, Change
<1>7. SingleLogin' /\ ExchangedIsOver'
  BY DEF Verify, Start, ghosts, SingleLogin, ExchangedIsOver, Live
<1>8. QED
  BY <1>1, <1>2, <1>3, <1>4, <1>5, <1>6, <1>7 DEF SessionsIInv

\* Touch (AuthService.login) keeps the invariant.
LEMMA TouchStep ==
    ASSUME SessionsIInv, NEW r \in Request, Touch(r)
    PROVE  SessionsIInv'
<1> USE DEF SessionsIInv
<1>1. SessionsTypeOK'
  <2>1. req[r] \in RequestState /\ req[r].u \in User
    BY DEF Touch, At, Owner, SessionsTypeOK, RequestInv
  <2>2. req' \in [Request -> RequestState]
    BY <2>1 DEF Touch, Goto, SessionsTypeOK, RequestState, Step, Row
  <2>3. rowLock' \in [User -> Request \cup {None}]
    BY <2>1 DEF Touch, Lock, Put, Live, SessionsTypeOK
  <2>4. QED
    BY <2>1, <2>2, <2>3 DEF Touch, Put, ghosts, SessionsTypeOK
<1>2. RequestInv'
  BY SessionsAssumption DEF Touch, RequestInv, SessionsTypeOK, At, Lock,
    ghosts, Owner, RefreshSteps, PendingSteps, ChangeSteps, Row, RequestState,
    Live, Put, Op, Step, Change
<1>3. LockInv'
  BY SessionsAssumption DEF Touch, LockInv, SessionsTypeOK, RequestInv, At,
    Lock, ghosts, Live, LoggingIn, Owner, Row, RequestState, RefreshSteps,
    PendingSteps, ChangeSteps, Put, LoginSteps, Op, Step, Change
<1>4. OwnInv'
  BY SessionsAssumption DEF Touch, OwnInv, SessionsTypeOK, RequestInv, At,
    Lock, ghosts, Known, Row, RequestState, Owner, RefreshSteps, PendingSteps,
    ChangeSteps, Live, Put, Op, Step, Change
<1>5. PendingInv'
  BY SessionsAssumption DEF Touch, PendingInv, OwnInv, SessionsTypeOK,
    RequestInv, At, Lock, ghosts, PendingSteps, Known, Row, RequestState,
    Owner, RefreshSteps, ChangeSteps, Live, Put, Op, Step, Change
<1>6. DropInv'
  BY SessionsAssumption DEF Touch, DropInv, LockInv, OwnInv, SingleLogin,
    SessionsTypeOK, RequestInv, At, Lock, ghosts, LoggingIn, Live, Owner,
    NoLogin, OneLogin, Known, Row, RequestState, RefreshSteps, PendingSteps,
    ChangeSteps, Put, LoginSteps, Op, Step, Change
<1>7. SingleLogin' /\ ExchangedIsOver'
  BY DEF Touch, ghosts, SingleLogin, ExchangedIsOver, Live
<1>8. QED
  BY <1>1, <1>2, <1>3, <1>4, <1>5, <1>6, <1>7 DEF SessionsIInv

\* OAuthLogin (OAuth2Service.login) keeps the invariant.
LEMMA OAuthLoginStep ==
    ASSUME SessionsIInv, NEW r \in Request, NEW u \in User, NEW fills \in BOOLEAN, OAuthLogin(r, u, fills)
    PROVE  SessionsIInv'
<1> USE DEF SessionsIInv
<1>1. SessionsTypeOK'
  BY SessionsAssumption DEF OAuthLogin, SessionsTypeOK, RequestInv, Live,
    Start, Lock, ghosts, Row, RequestState, Owner, RefreshSteps, PendingSteps,
    ChangeSteps, At, Put, Op, Step, Change
<1>2. RequestInv'
  BY SessionsAssumption DEF OAuthLogin, RequestInv, SessionsTypeOK, Live,
    Start, Lock, ghosts, Owner, RefreshSteps, PendingSteps, ChangeSteps, Row,
    RequestState, At, Put, Op, Step, Change
<1>3. LockInv'
  BY SessionsAssumption DEF OAuthLogin, LockInv, SessionsTypeOK, RequestInv,
    Live, Start, Lock, ghosts, LoggingIn, Owner, Row, RequestState,
    RefreshSteps, PendingSteps, ChangeSteps, At, Put, LoginSteps, Op, Step,
    Change
<1>4. OwnInv'
  BY SessionsAssumption DEF OAuthLogin, OwnInv, SessionsTypeOK, RequestInv,
    Live, Start, Lock, ghosts, Known, Row, RequestState, Owner, RefreshSteps,
    PendingSteps, ChangeSteps, At, Put, Op, Step, Change
<1>5. PendingInv'
  BY SessionsAssumption DEF OAuthLogin, PendingInv, OwnInv, SessionsTypeOK,
    RequestInv, Live, Start, Lock, ghosts, PendingSteps, Known, Row,
    RequestState, Owner, RefreshSteps, ChangeSteps, At, Put, Op, Step, Change
<1>6. DropInv'
  BY SessionsAssumption DEF OAuthLogin, DropInv, LockInv, OwnInv, SingleLogin,
    SessionsTypeOK, RequestInv, Live, Start, Lock, ghosts, LoggingIn, Owner,
    NoLogin, OneLogin, Known, Row, RequestState, RefreshSteps, PendingSteps,
    ChangeSteps, At, Put, LoginSteps, Op, Step, Change
<1>7. SingleLogin' /\ ExchangedIsOver'
  BY DEF OAuthLogin, Start, ghosts, SingleLogin, ExchangedIsOver, Live
<1>8. QED
  BY <1>1, <1>2, <1>3, <1>4, <1>5, <1>6, <1>7 DEF SessionsIInv

\* DropAccess (create_access_token) keeps the invariant.
LEMMA DropAccessStep ==
    ASSUME SessionsIInv, NEW r \in Request, DropAccess(r)
    PROVE  SessionsIInv'
<1> USE DEF SessionsIInv
<1>1. SessionsTypeOK'
  BY SessionsAssumption DEF DropAccess, SessionsTypeOK, RequestInv, At, Put,
    Goto, ghosts, Row, RequestState, Owner, RefreshSteps, PendingSteps,
    ChangeSteps, Op, Step, Change
<1>2. RequestInv'
  BY DEF DropAccess, RequestInv, SessionsTypeOK, At, Put, Goto, ghosts, Owner,
    RefreshSteps, PendingSteps, ChangeSteps, Row, RequestState, Op, Step,
    Change
<1>3. LockInv'
  BY SessionsAssumption DEF DropAccess, LockInv, SessionsTypeOK, RequestInv,
    At, Put, Goto, ghosts, Live, LoggingIn, Owner, Row, RequestState,
    RefreshSteps, PendingSteps, ChangeSteps, LoginSteps, Op, Step, Change
<1>4. OwnInv'
  BY DEF DropAccess, OwnInv, SessionsTypeOK, RequestInv, At, Put, Goto,
    ghosts, Known, Row, RequestState, Owner, RefreshSteps, PendingSteps,
    ChangeSteps, Op, Step, Change
<1>5. PendingInv'
  BY DEF DropAccess, PendingInv, OwnInv, SessionsTypeOK, RequestInv, At, Put,
    Goto, ghosts, PendingSteps, Known, Row, RequestState, Owner, RefreshSteps,
    ChangeSteps, Op, Step, Change
<1>6. DropInv'
  BY DEF DropAccess, DropInv, LockInv, OwnInv, SingleLogin, SessionsTypeOK,
    RequestInv, At, Put, Goto, ghosts, LoggingIn, Live, Owner, NoLogin,
    OneLogin, Known, Row, RequestState, RefreshSteps, PendingSteps,
    ChangeSteps, LoginSteps, Op, Step, Change
<1>7. SingleLogin'
  BY DEF DropAccess, SingleLogin, DropInv, LockInv, OwnInv, SessionsTypeOK,
    RequestInv, At, Put, Goto, ghosts, Live, LoggingIn, Owner, NoLogin,
    OneLogin, Known, Row, RequestState, RefreshSteps, PendingSteps,
    ChangeSteps, LoginSteps, Op, Step, Change
<1>8. ExchangedIsOver'
  BY DEF DropAccess, ExchangedIsOver, PendingInv, OwnInv, SessionsTypeOK,
    RequestInv, At, Put, Goto, ghosts, PendingSteps, Known, Row, RequestState,
    Owner, RefreshSteps, ChangeSteps, Op, Step, Change
<1>9. QED
  BY <1>1, <1>2, <1>3, <1>4, <1>5, <1>6, <1>7, <1>8 DEF SessionsIInv

\* create_access_token stores the access token of the session it has drawn.
LEMMA StoreAccessStep ==
    ASSUME SessionsIInv, NEW r \in Request, NEW s \in Session, s \notin issued, StoreAccess(r, s)
    PROVE  SessionsIInv'
<1> USE DEF SessionsIInv
<1>1. CASE req[r].op = "swagger"
  <2>0. /\ req[r].pc = "setAccess" /\ Finish(r)
        /\ access' = Put(access, req[r].u, access[req[r].u] \cup {s})
        /\ issued' = issued \cup {s}
        /\ UNCHANGED <<row, refresh, cached, byLogin, exchanged>>
    BY <1>1 DEF StoreAccess, At
  <2>1. SessionsTypeOK'
    BY <2>0, SessionsAssumption DEF Finish, Put, SessionsTypeOK, RequestInv,
      Idle, Row, RequestState, Owner, RefreshSteps, PendingSteps, ChangeSteps,
      Op, Step, Change
  <2>2. RequestInv'
    BY <2>0, SessionsAssumption DEF Finish, Put, RequestInv, SessionsTypeOK,
      Idle, Owner, RefreshSteps, PendingSteps, ChangeSteps, Row, RequestState,
      Op, Step, Change
  <2>3. LockInv'
    BY <2>0, SessionsAssumption, ZenonT(60) DEF Finish, Put, LockInv, SessionsTypeOK,
      RequestInv, Idle, Live, LoggingIn, Owner, Row, RequestState,
      RefreshSteps, PendingSteps, ChangeSteps, LoginSteps, Op, Step, Change
  <2>4. OwnInv'
    BY <2>0, SessionsAssumption DEF Finish, Put, OwnInv, SessionsTypeOK,
      RequestInv, Idle, Known, Row, RequestState, Owner, RefreshSteps,
      PendingSteps, ChangeSteps, Op, Step, Change
  <2>5. PendingInv'
    BY <2>0, SessionsAssumption DEF Finish, Put, PendingInv, OwnInv,
      SessionsTypeOK, RequestInv, Idle, PendingSteps, Known, Row,
      RequestState, Owner, RefreshSteps, ChangeSteps, Op, Step, Change
  <2>6. DropInv'
    BY <2>0, SessionsAssumption DEF Finish, Put, DropInv, LockInv, OwnInv,
      SingleLogin, SessionsTypeOK, RequestInv, Idle, LoggingIn, Live, Owner,
      NoLogin, OneLogin, Known, Row, RequestState, RefreshSteps, PendingSteps,
      ChangeSteps, LoginSteps, Op, Step, Change
  <2>7. SingleLogin'
    BY <2>0, SessionsAssumption DEF Finish, Put, SingleLogin, DropInv,
      LockInv, OwnInv, SessionsTypeOK, RequestInv, Idle, Live, LoggingIn,
      Owner, NoLogin, OneLogin, Known, Row, RequestState, RefreshSteps,
      PendingSteps, ChangeSteps, LoginSteps, Op, Step, Change
  <2>8. ExchangedIsOver'
    BY <2>0, SessionsAssumption DEF Finish, Put, ExchangedIsOver, PendingInv,
      OwnInv, SessionsTypeOK, RequestInv, Idle, PendingSteps, Known, Row,
      RequestState, Owner, RefreshSteps, ChangeSteps, Op, Step, Change
  <2>9. QED
    BY <2>1, <2>2, <2>3, <2>4, <2>5, <2>6, <2>7, <2>8 DEF SessionsIInv
<1>2. CASE req[r].op # "swagger"
  <2>0. /\ req[r].pc = "setAccess"
        /\ req' = [req EXCEPT ![r].pc = "dropRefresh", ![r].s = s]
        /\ access' = Put(access, req[r].u, access[req[r].u] \cup {s})
        /\ issued' = issued \cup {s}
        /\ byLogin' = IF req[r].op = "login" THEN byLogin \cup {s} ELSE byLogin
        /\ UNCHANGED <<row, rowLock, refresh, cached, exchanged>>
    BY <1>2 DEF StoreAccess, At
  <2>1. SessionsTypeOK'
    <3>1. req[r] \in RequestState /\ req[r].u \in User
      BY <2>0 DEF SessionsTypeOK, RequestInv, Owner
    <3>2. req' \in [Request -> RequestState]
      BY <2>0, <3>1 DEF SessionsTypeOK, RequestState, Step
    <3>3. QED
      BY <2>0, <3>1, <3>2 DEF SessionsTypeOK, Put
  <2>2. RequestInv'
    BY <2>0 DEF Put, RequestInv, SessionsTypeOK, Owner, RefreshSteps,
      PendingSteps, ChangeSteps, Row, RequestState, Op, Step, Change
  <2>3. LockInv'
    BY <2>0, SessionsAssumption DEF Put, LockInv, SessionsTypeOK, RequestInv,
      Live, LoggingIn, Owner, Row, RequestState, RefreshSteps, PendingSteps,
      ChangeSteps, LoginSteps, Op, Step, Change
  <2>4. OwnInv'
    BY <2>0 DEF Put, OwnInv, SessionsTypeOK, RequestInv, Known, Row,
      RequestState, Owner, RefreshSteps, PendingSteps, ChangeSteps, Op, Step,
      Change
  <2>5. PendingInv'
    BY <2>0 DEF Put, PendingInv, OwnInv, SessionsTypeOK, RequestInv,
      PendingSteps, Known, Row, RequestState, Owner, RefreshSteps,
      ChangeSteps, Op, Step, Change
  <2>6. DropInv'
    BY <2>0 DEF Put, DropInv, LockInv, OwnInv, SingleLogin, SessionsTypeOK,
      RequestInv, LoggingIn, Live, Owner, NoLogin, OneLogin, Known, Row,
      RequestState, RefreshSteps, PendingSteps, ChangeSteps, LoginSteps, Op,
      Step, Change
  <2>7. SingleLogin'
    BY <2>0 DEF Put, SingleLogin, DropInv, LockInv, OwnInv, SessionsTypeOK,
      RequestInv, Live, LoggingIn, Owner, NoLogin, OneLogin, Known, Row,
      RequestState, RefreshSteps, PendingSteps, ChangeSteps, LoginSteps, Op,
      Step, Change
  <2>8. ExchangedIsOver'
    BY <2>0 DEF Put, ExchangedIsOver, PendingInv, OwnInv, SessionsTypeOK,
      RequestInv, PendingSteps, Known, Row, RequestState, Owner, RefreshSteps,
      ChangeSteps, Op, Step, Change
  <2>9. QED
    BY <2>1, <2>2, <2>3, <2>4, <2>5, <2>6, <2>7, <2>8 DEF SessionsIInv
<1>3. QED
  BY <1>1, <1>2

\* DropRefresh (create_refresh_token) keeps the invariant.
LEMMA DropRefreshStep ==
    ASSUME SessionsIInv, NEW r \in Request, DropRefresh(r)
    PROVE  SessionsIInv'
<1> USE DEF SessionsIInv
<1>1. SessionsTypeOK'
  <2>1. req[r] \in RequestState /\ req[r].u \in User
    BY DEF DropRefresh, At, Owner, SessionsTypeOK, RequestInv
  <2>2. req' \in [Request -> RequestState]
    BY <2>1 DEF DropRefresh, Goto, SessionsTypeOK, RequestState, Step
  <2>3. rowLock' \in [User -> Request \cup {None}]
    BY <2>1 DEF DropRefresh, Lock, Put, Live, SessionsTypeOK
  <2>4. QED
    BY <2>1, <2>2, <2>3 DEF DropRefresh, Put, ghosts, SessionsTypeOK
<1>2. RequestInv'
  BY DEF DropRefresh, RequestInv, SessionsTypeOK, At, Put, Goto, ghosts,
    Owner, RefreshSteps, PendingSteps, ChangeSteps, Row, RequestState, Op,
    Step, Change
<1>3. LockInv'
  BY SessionsAssumption DEF DropRefresh, LockInv, SessionsTypeOK, RequestInv,
    At, Put, Goto, ghosts, Live, LoggingIn, Owner, Row, RequestState,
    RefreshSteps, PendingSteps, ChangeSteps, LoginSteps, Op, Step, Change
<1>4. OwnInv'
  BY DEF DropRefresh, OwnInv, SessionsTypeOK, RequestInv, At, Put, Goto,
    ghosts, Known, Row, RequestState, Owner, RefreshSteps, PendingSteps,
    ChangeSteps, Op, Step, Change
<1>5. PendingInv'
  BY DEF DropRefresh, PendingInv, OwnInv, SessionsTypeOK, RequestInv, At, Put,
    Goto, ghosts, PendingSteps, Known, Row, RequestState, Owner, RefreshSteps,
    ChangeSteps, Op, Step, Change
<1>6. DropInv'
  BY DEF DropRefresh, DropInv, LockInv, OwnInv, SingleLogin, SessionsTypeOK,
    RequestInv, At, Put, Goto, ghosts, LoggingIn, Live, Owner, NoLogin,
    OneLogin, Known, Row, RequestState, RefreshSteps, PendingSteps,
    ChangeSteps, LoginSteps, Op, Step, Change
<1>7. ExchangedIsOver'
  BY DEF DropRefresh, ExchangedIsOver, PendingInv, OwnInv, SessionsTypeOK,
    RequestInv, At, Put, Goto, ghosts, PendingSteps, Known, Row, RequestState,
    Owner, RefreshSteps, ChangeSteps, Op, Step, Change
<1>8. SingleLogin'
  BY DEF DropRefresh, ghosts, SingleLogin, Live
<1>9. QED
  BY <1>1, <1>2, <1>3, <1>4, <1>5, <1>6, <1>7, <1>8 DEF SessionsIInv

\* SetRefresh (create_refresh_token) keeps the invariant.
LEMMA SetRefreshStep ==
    ASSUME SessionsIInv, NEW r \in Request, SetRefresh(r)
    PROVE  SessionsIInv'
<1> USE DEF SessionsIInv
<1>1. SessionsTypeOK'
  BY SessionsAssumption DEF SetRefresh, SessionsTypeOK, RequestInv, At, Put,
    Finish, ghosts, Row, RequestState, Owner, RefreshSteps, PendingSteps,
    ChangeSteps, Idle, Op, Step, Change
<1>2. RequestInv'
  BY SessionsAssumption DEF SetRefresh, RequestInv, SessionsTypeOK, At, Put,
    Finish, ghosts, Owner, RefreshSteps, PendingSteps, ChangeSteps, Row,
    RequestState, Idle, Op, Step, Change
<1>3. LockInv'
  BY SessionsAssumption, ZenonT(60) DEF SetRefresh, LockInv, SessionsTypeOK, RequestInv,
    At, Put, Finish, ghosts, Live, LoggingIn, Owner, Row, RequestState,
    RefreshSteps, PendingSteps, ChangeSteps, Idle, LoginSteps, Op, Step,
    Change
<1>4. OwnInv'
  BY SessionsAssumption DEF SetRefresh, OwnInv, SessionsTypeOK, RequestInv,
    At, Put, Finish, ghosts, Known, Row, RequestState, Owner, RefreshSteps,
    PendingSteps, ChangeSteps, Idle, Op, Step, Change
<1>5. PendingInv'
  BY SessionsAssumption DEF SetRefresh, PendingInv, OwnInv, SessionsTypeOK,
    RequestInv, At, Put, Finish, ghosts, PendingSteps, Known, Row,
    RequestState, Owner, RefreshSteps, ChangeSteps, Idle, Op, Step, Change
<1>6. DropInv'
  BY SessionsAssumption DEF SetRefresh, DropInv, LockInv, OwnInv, SingleLogin,
    SessionsTypeOK, RequestInv, At, Put, Finish, ghosts, LoggingIn, Live,
    Owner, NoLogin, OneLogin, Known, Row, RequestState, RefreshSteps,
    PendingSteps, ChangeSteps, Idle, LoginSteps, Op, Step, Change
<1>7. ExchangedIsOver'
  BY SessionsAssumption DEF SetRefresh, ExchangedIsOver, PendingInv, OwnInv,
    SessionsTypeOK, RequestInv, At, Put, Finish, ghosts, PendingSteps, Known,
    Row, RequestState, Owner, RefreshSteps, ChangeSteps, Idle, Op, Step,
    Change
<1>8. SingleLogin'
  BY DEF SetRefresh, ghosts, SingleLogin, Live
<1>9. QED
  BY <1>1, <1>2, <1>3, <1>4, <1>5, <1>6, <1>7, <1>8 DEF SessionsIInv

\* Refresh (AuthService.refresh_token) keeps the invariant.
LEMMA RefreshStep ==
    ASSUME SessionsIInv, NEW r \in Request, NEW u \in User, NEW s \in Session, Refresh(r, u, s)
    PROVE  SessionsIInv'
<1> USE DEF SessionsIInv
<1>1. SessionsTypeOK'
  BY SessionsAssumption DEF Refresh, SessionsTypeOK, RequestInv, Live, Start,
    ghosts, Row, RequestState, Owner, RefreshSteps, PendingSteps, ChangeSteps,
    At, Op, Step, Change
<1>2. RequestInv'
  BY SessionsAssumption DEF Refresh, RequestInv, SessionsTypeOK, Live, Start,
    ghosts, Owner, RefreshSteps, PendingSteps, ChangeSteps, Row, RequestState,
    At, Op, Step, Change
<1>3. LockInv'
  BY SessionsAssumption DEF Refresh, LockInv, SessionsTypeOK, RequestInv,
    Live, Start, ghosts, LoggingIn, Owner, Row, RequestState, RefreshSteps,
    PendingSteps, ChangeSteps, At, LoginSteps, Op, Step, Change
<1>4. OwnInv'
  BY SessionsAssumption DEF Refresh, OwnInv, SessionsTypeOK, RequestInv, Live,
    Start, ghosts, Known, Row, RequestState, Owner, RefreshSteps,
    PendingSteps, ChangeSteps, At, Op, Step, Change
<1>5. PendingInv'
  BY SessionsAssumption DEF Refresh, PendingInv, OwnInv, SessionsTypeOK,
    RequestInv, Live, Start, ghosts, PendingSteps, Known, Row, RequestState,
    Owner, RefreshSteps, ChangeSteps, At, Op, Step, Change
<1>6. DropInv'
  BY SessionsAssumption DEF Refresh, DropInv, LockInv, OwnInv, SingleLogin,
    SessionsTypeOK, RequestInv, Live, Start, ghosts, LoggingIn, Owner,
    NoLogin, OneLogin, Known, Row, RequestState, RefreshSteps, PendingSteps,
    ChangeSteps, At, LoginSteps, Op, Step, Change
<1>7. SingleLogin' /\ ExchangedIsOver'
  BY DEF Refresh, Start, ghosts, SingleLogin, ExchangedIsOver, Live
<1>8. QED
  BY <1>1, <1>2, <1>3, <1>4, <1>5, <1>6, <1>7 DEF SessionsIInv

\* RefreshCheck (create_new_token) keeps the invariant.
LEMMA RefreshCheckStep ==
    ASSUME SessionsIInv, NEW r \in Request, RefreshCheck(r)
    PROVE  SessionsIInv'
<1> USE DEF SessionsIInv
<1>1. CASE (req[r].flag \/ access[req[r].u] \subseteq {req[r].s}) /\ req[r].s \in refresh[req[r].u]
  <2>0. /\ req[r].pc = "refreshCheck" /\ Goto(r, "exchange")
        /\ UNCHANGED <<row, rowLock, access, refresh, cached, ghosts>>
    BY <1>1 DEF RefreshCheck, At
  <2>1. SessionsTypeOK'
    BY <2>0, SessionsAssumption DEF Goto, ghosts, SessionsTypeOK, RequestInv,
      Row, RequestState, Owner, RefreshSteps, PendingSteps, ChangeSteps, Op,
      Step, Change
  <2>2. RequestInv'
    BY <2>0 DEF Goto, ghosts, RequestInv, SessionsTypeOK, Owner, RefreshSteps,
      PendingSteps, ChangeSteps, Row, RequestState, Op, Step, Change
  <2>3. LockInv'
    BY <2>0, SessionsAssumption DEF Goto, ghosts, LockInv, SessionsTypeOK,
      RequestInv, Live, LoggingIn, Owner, Row, RequestState, RefreshSteps,
      PendingSteps, ChangeSteps, LoginSteps, Op, Step, Change
  <2>4. OwnInv'
    BY <2>0 DEF Goto, ghosts, OwnInv, SessionsTypeOK, RequestInv, Known, Row,
      RequestState, Owner, RefreshSteps, PendingSteps, ChangeSteps, Op, Step,
      Change
  <2>5. PendingInv'
    BY <2>0 DEF Goto, ghosts, PendingInv, OwnInv, SessionsTypeOK, RequestInv,
      PendingSteps, Known, Row, RequestState, Owner, RefreshSteps,
      ChangeSteps, Op, Step, Change
  <2>6. DropInv'
    BY <2>0 DEF Goto, ghosts, DropInv, LockInv, OwnInv, SingleLogin,
      SessionsTypeOK, RequestInv, LoggingIn, Live, Owner, NoLogin, OneLogin,
      Known, Row, RequestState, RefreshSteps, PendingSteps, ChangeSteps,
      LoginSteps, Op, Step, Change
  <2>7. SingleLogin'
    BY <2>0 DEF Goto, ghosts, SingleLogin, DropInv, LockInv, OwnInv,
      SessionsTypeOK, RequestInv, Live, LoggingIn, Owner, NoLogin, OneLogin,
      Known, Row, RequestState, RefreshSteps, PendingSteps, ChangeSteps,
      LoginSteps, Op, Step, Change
  <2>8. ExchangedIsOver'
    BY <2>0 DEF Goto, ghosts, ExchangedIsOver, PendingInv, OwnInv,
      SessionsTypeOK, RequestInv, PendingSteps, Known, Row, RequestState,
      Owner, RefreshSteps, ChangeSteps, Op, Step, Change
  <2>9. QED
    BY <2>1, <2>2, <2>3, <2>4, <2>5, <2>6, <2>7, <2>8 DEF SessionsIInv
<1>2. CASE ~((req[r].flag \/ access[req[r].u] \subseteq {req[r].s}) /\ req[r].s \in refresh[req[r].u])
  <2>1. Crash(r)
    BY <1>2 DEF RefreshCheck, Crash, At
  <2>2. QED
    BY <2>1, CrashStep
<1>3. QED
  BY <1>1, <1>2

\* Exchange (create_new_token) keeps the invariant.
LEMMA ExchangeStep ==
    ASSUME SessionsIInv, NEW r \in Request, Exchange(r)
    PROVE  SessionsIInv'
<1> USE DEF SessionsIInv
<1>1. SessionsTypeOK'
  BY SessionsAssumption DEF Exchange, SessionsTypeOK, RequestInv, At, Put,
    Row, RequestState, Owner, RefreshSteps, PendingSteps, ChangeSteps, Op,
    Step, Change
<1>2. RequestInv'
  BY SessionsAssumption DEF Exchange, RequestInv, SessionsTypeOK, At, Put,
    Owner, RefreshSteps, PendingSteps, ChangeSteps, Row, RequestState, Op,
    Step, Change
<1>3. LockInv'
  BY SessionsAssumption DEF Exchange, LockInv, SessionsTypeOK, RequestInv, At,
    Put, Live, LoggingIn, Owner, Row, RequestState, RefreshSteps,
    PendingSteps, ChangeSteps, LoginSteps, Op, Step, Change
<1>4. OwnInv'
  BY SessionsAssumption DEF Exchange, OwnInv, SessionsTypeOK, RequestInv, At,
    Put, Known, Row, RequestState, Owner, RefreshSteps, PendingSteps,
    ChangeSteps, Op, Step, Change
<1>5. PendingInv'
  BY SessionsAssumption DEF Exchange, PendingInv, OwnInv, SessionsTypeOK,
    RequestInv, At, Put, PendingSteps, Known, Row, RequestState, Owner,
    RefreshSteps, ChangeSteps, Op, Step, Change
<1>6. DropInv'
  BY SessionsAssumption DEF Exchange, DropInv, LockInv, OwnInv, SingleLogin,
    SessionsTypeOK, RequestInv, At, Put, LoggingIn, Live, Owner, NoLogin,
    OneLogin, Known, Row, RequestState, RefreshSteps, PendingSteps,
    ChangeSteps, LoginSteps, Op, Step, Change
<1>7. SingleLogin'
  BY SessionsAssumption DEF Exchange, SingleLogin, DropInv, LockInv, OwnInv,
    SessionsTypeOK, RequestInv, At, Put, Live, LoggingIn, Owner, NoLogin,
    OneLogin, Known, Row, RequestState, RefreshSteps, PendingSteps,
    ChangeSteps, LoginSteps, Op, Step, Change
<1>8. ExchangedIsOver'
  BY SessionsAssumption DEF Exchange, ExchangedIsOver, PendingInv, OwnInv,
    SessionsTypeOK, RequestInv, At, Put, PendingSteps, Known, Row,
    RequestState, Owner, RefreshSteps, ChangeSteps, Op, Step, Change
<1>9. QED
  BY <1>1, <1>2, <1>3, <1>4, <1>5, <1>6, <1>7, <1>8 DEF SessionsIInv

\* Logout (AuthService.logout) keeps the invariant.
LEMMA LogoutStep ==
    ASSUME SessionsIInv, NEW u \in User, NEW s \in Session, NEW c \in BOOLEAN, Logout(u, s, c)
    PROVE  SessionsIInv'
<1> USE DEF SessionsIInv
<1>1. SessionsTypeOK'
  BY SessionsAssumption DEF Logout, SessionsTypeOK, RequestInv, Put, ghosts,
    Row, RequestState, Owner, RefreshSteps, PendingSteps, ChangeSteps, Op,
    Step, Change
<1>2. OwnInv'
  BY DEF Logout, OwnInv, SessionsTypeOK, RequestInv, Put, ghosts, Known, Row,
    RequestState, Owner, RefreshSteps, PendingSteps, ChangeSteps, Op, Step,
    Change
<1>3. PendingInv'
  BY DEF Logout, PendingInv, OwnInv, SessionsTypeOK, RequestInv, Put, ghosts,
    PendingSteps, Known, Row, RequestState, Owner, RefreshSteps, ChangeSteps,
    Op, Step, Change
<1>4. DropInv'
  BY DEF Logout, DropInv, LockInv, OwnInv, SingleLogin, SessionsTypeOK,
    RequestInv, Put, ghosts, LoggingIn, Live, Owner, NoLogin, OneLogin, Known,
    Row, RequestState, RefreshSteps, PendingSteps, ChangeSteps, LoginSteps,
    Op, Step, Change
<1>5. SingleLogin'
  BY DEF Logout, SingleLogin, DropInv, LockInv, OwnInv, SessionsTypeOK,
    RequestInv, Put, ghosts, Live, LoggingIn, Owner, NoLogin, OneLogin, Known,
    Row, RequestState, RefreshSteps, PendingSteps, ChangeSteps, LoginSteps,
    Op, Step, Change
<1>6. ExchangedIsOver'
  BY DEF Logout, ExchangedIsOver, PendingInv, OwnInv, SessionsTypeOK,
    RequestInv, Put, ghosts, PendingSteps, Known, Row, RequestState, Owner,
    RefreshSteps, ChangeSteps, Op, Step, Change
<1>7. RequestInv' /\ LockInv'
  BY DEF Logout, ghosts, RequestInv, LockInv, Owner, RefreshSteps,
    PendingSteps, ChangeSteps, Row, Live, LoggingIn, LoginSteps
<1>8. QED
  BY <1>1, <1>2, <1>3, <1>4, <1>5, <1>6, <1>7 DEF SessionsIInv

\* Revoke (delete_session) keeps the invariant.
LEMMA RevokeStep ==
    ASSUME SessionsIInv, NEW u \in User, NEW s \in Session, Revoke(u, s)
    PROVE  SessionsIInv'
<1> USE DEF SessionsIInv
<1>1. SessionsTypeOK'
  BY SessionsAssumption DEF Revoke, SessionsTypeOK, RequestInv, Put, ghosts,
    Row, RequestState, Owner, RefreshSteps, PendingSteps, ChangeSteps, Op,
    Step, Change
<1>2. OwnInv'
  BY DEF Revoke, OwnInv, SessionsTypeOK, RequestInv, Put, ghosts, Known, Row,
    RequestState, Owner, RefreshSteps, PendingSteps, ChangeSteps, Op, Step,
    Change
<1>3. DropInv'
  BY DEF Revoke, DropInv, LockInv, OwnInv, SingleLogin, SessionsTypeOK,
    RequestInv, Put, ghosts, LoggingIn, Live, Owner, NoLogin, OneLogin, Known,
    Row, RequestState, RefreshSteps, PendingSteps, ChangeSteps, LoginSteps,
    Op, Step, Change
<1>4. SingleLogin'
  BY DEF Revoke, SingleLogin, DropInv, LockInv, OwnInv, SessionsTypeOK,
    RequestInv, Put, ghosts, Live, LoggingIn, Owner, NoLogin, OneLogin, Known,
    Row, RequestState, RefreshSteps, PendingSteps, ChangeSteps, LoginSteps,
    Op, Step, Change
<1>5. ExchangedIsOver'
  BY DEF Revoke, ExchangedIsOver, PendingInv, OwnInv, SessionsTypeOK,
    RequestInv, Put, ghosts, PendingSteps, Known, Row, RequestState, Owner,
    RefreshSteps, ChangeSteps, Op, Step, Change
<1>6. RequestInv' /\ LockInv' /\ PendingInv'
  BY DEF Revoke, ghosts, RequestInv, LockInv, PendingInv, Owner, RefreshSteps,
    PendingSteps, ChangeSteps, Row, Live, LoggingIn, LoginSteps
<1>7. QED
  BY <1>1, <1>2, <1>3, <1>4, <1>5, <1>6 DEF SessionsIInv

\* Authenticate (jwt_authentication) keeps the invariant.
LEMMA AuthenticateStep ==
    ASSUME SessionsIInv, NEW r \in Request, NEW u \in User, Authenticate(r, u)
    PROVE  SessionsIInv'
<1> USE DEF SessionsIInv
<1>1. SessionsTypeOK'
  BY SessionsAssumption DEF Authenticate, SessionsTypeOK, RequestInv, Start,
    ghosts, Row, RequestState, Owner, RefreshSteps, PendingSteps, ChangeSteps,
    At, Op, Step, Change
<1>2. RequestInv'
  BY SessionsAssumption DEF Authenticate, RequestInv, SessionsTypeOK, Start,
    ghosts, Owner, RefreshSteps, PendingSteps, ChangeSteps, Row, RequestState,
    At, Op, Step, Change
<1>3. LockInv'
  BY SessionsAssumption, ZenonT(60) DEF Authenticate, LockInv, SessionsTypeOK, RequestInv,
    Start, ghosts, Live, LoggingIn, Owner, Row, RequestState, RefreshSteps,
    PendingSteps, ChangeSteps, At, LoginSteps, Op, Step, Change
<1>4. OwnInv'
  BY SessionsAssumption DEF Authenticate, OwnInv, SessionsTypeOK, RequestInv,
    Start, ghosts, Known, Row, RequestState, Owner, RefreshSteps,
    PendingSteps, ChangeSteps, At, Op, Step, Change
<1>5. PendingInv'
  BY SessionsAssumption DEF Authenticate, PendingInv, OwnInv, SessionsTypeOK,
    RequestInv, Start, ghosts, PendingSteps, Known, Row, RequestState, Owner,
    RefreshSteps, ChangeSteps, At, Op, Step, Change
<1>6. DropInv'
  BY SessionsAssumption DEF Authenticate, DropInv, LockInv, OwnInv,
    SingleLogin, SessionsTypeOK, RequestInv, Start, ghosts, LoggingIn, Live,
    Owner, NoLogin, OneLogin, Known, Row, RequestState, RefreshSteps,
    PendingSteps, ChangeSteps, At, LoginSteps, Op, Step, Change
<1>7. SingleLogin' /\ ExchangedIsOver'
  BY DEF Authenticate, Start, ghosts, SingleLogin, ExchangedIsOver, Live
<1>8. QED
  BY <1>1, <1>2, <1>3, <1>4, <1>5, <1>6, <1>7 DEF SessionsIInv

\* ReadUser (get_current_user) keeps the invariant.
LEMMA ReadUserStep ==
    ASSUME SessionsIInv, NEW r \in Request, ReadUser(r)
    PROVE  SessionsIInv'
<1> USE DEF SessionsIInv
<1>1. CASE Live(req[r].u) /\ row[req[r].u].status
  <2>0. /\ req[r].pc = "authRead" /\ Goto(r, "authStore")
        /\ UNCHANGED <<row, rowLock, access, refresh, cached, ghosts>>
    BY <1>1 DEF ReadUser, At
  <2>1. SessionsTypeOK'
    BY <2>0, SessionsAssumption, SMTT(30) DEF Goto, ghosts, SessionsTypeOK, RequestInv,
      Row, RequestState, Owner, RefreshSteps, PendingSteps, ChangeSteps, Op,
      Step, Change
  <2>2. RequestInv'
    BY <2>0 DEF Goto, ghosts, RequestInv, SessionsTypeOK, Owner, RefreshSteps,
      PendingSteps, ChangeSteps, Row, RequestState, Op, Step, Change
  <2>3. LockInv'
    BY <2>0, SessionsAssumption DEF Goto, ghosts, LockInv, SessionsTypeOK,
      RequestInv, Live, LoggingIn, Owner, Row, RequestState, RefreshSteps,
      PendingSteps, ChangeSteps, LoginSteps, Op, Step, Change
  <2>4. OwnInv'
    BY <2>0 DEF Goto, ghosts, OwnInv, SessionsTypeOK, RequestInv, Known, Row,
      RequestState, Owner, RefreshSteps, PendingSteps, ChangeSteps, Op, Step,
      Change
  <2>5. PendingInv'
    BY <2>0 DEF Goto, ghosts, PendingInv, OwnInv, SessionsTypeOK, RequestInv,
      PendingSteps, Known, Row, RequestState, Owner, RefreshSteps,
      ChangeSteps, Op, Step, Change
  <2>6. DropInv'
    BY <2>0 DEF Goto, ghosts, DropInv, LockInv, OwnInv, SingleLogin,
      SessionsTypeOK, RequestInv, LoggingIn, Live, Owner, NoLogin, OneLogin,
      Known, Row, RequestState, RefreshSteps, PendingSteps, ChangeSteps,
      LoginSteps, Op, Step, Change
  <2>7. SingleLogin'
    BY <2>0 DEF Goto, ghosts, SingleLogin, DropInv, LockInv, OwnInv,
      SessionsTypeOK, RequestInv, Live, LoggingIn, Owner, NoLogin, OneLogin,
      Known, Row, RequestState, RefreshSteps, PendingSteps, ChangeSteps,
      LoginSteps, Op, Step, Change
  <2>8. ExchangedIsOver'
    BY <2>0 DEF Goto, ghosts, ExchangedIsOver, PendingInv, OwnInv,
      SessionsTypeOK, RequestInv, PendingSteps, Known, Row, RequestState,
      Owner, RefreshSteps, ChangeSteps, Op, Step, Change
  <2>9. QED
    BY <2>1, <2>2, <2>3, <2>4, <2>5, <2>6, <2>7, <2>8 DEF SessionsIInv
<1>2. CASE ~(Live(req[r].u) /\ row[req[r].u].status)
  <2>1. Crash(r)
    BY <1>2 DEF ReadUser, Crash, At
  <2>2. QED
    BY <2>1, CrashStep
<1>3. QED
  BY <1>1, <1>2

\* StoreUser (get_jwt_user) keeps the invariant.
LEMMA StoreUserStep ==
    ASSUME SessionsIInv, NEW r \in Request, StoreUser(r)
    PROVE  SessionsIInv'
<1> USE DEF SessionsIInv
<1>1. SessionsTypeOK'
  BY SessionsAssumption DEF StoreUser, SessionsTypeOK, RequestInv, At, Finish,
    ghosts, Row, RequestState, Owner, RefreshSteps, PendingSteps, ChangeSteps,
    Idle, Op, Step, Change
<1>2. RequestInv'
  BY SessionsAssumption DEF StoreUser, RequestInv, SessionsTypeOK, At, Finish,
    ghosts, Owner, RefreshSteps, PendingSteps, ChangeSteps, Row, RequestState,
    Idle, Op, Step, Change
<1>3. LockInv'
  BY SessionsAssumption, ZenonT(60) DEF StoreUser, LockInv, SessionsTypeOK, RequestInv,
    At, Finish, ghosts, Live, LoggingIn, Owner, Row, RequestState,
    RefreshSteps, PendingSteps, ChangeSteps, Idle, LoginSteps, Op, Step,
    Change
<1>4. OwnInv'
  BY SessionsAssumption DEF StoreUser, OwnInv, SessionsTypeOK, RequestInv, At,
    Finish, ghosts, Known, Row, RequestState, Owner, RefreshSteps,
    PendingSteps, ChangeSteps, Idle, Op, Step, Change
<1>5. PendingInv'
  BY SessionsAssumption DEF StoreUser, PendingInv, OwnInv, SessionsTypeOK,
    RequestInv, At, Finish, ghosts, PendingSteps, Known, Row, RequestState,
    Owner, RefreshSteps, ChangeSteps, Idle, Op, Step, Change
<1>6. DropInv'
  BY SessionsAssumption DEF StoreUser, DropInv, LockInv, OwnInv, SingleLogin,
    SessionsTypeOK, RequestInv, At, Finish, ghosts, LoggingIn, Live, Owner,
    NoLogin, OneLogin, Known, Row, RequestState, RefreshSteps, PendingSteps,
    ChangeSteps, Idle, LoginSteps, Op, Step, Change
<1>7. SingleLogin' /\ ExchangedIsOver'
  BY DEF StoreUser, ghosts, SingleLogin, ExchangedIsOver, Live
<1>8. QED
  BY <1>1, <1>2, <1>3, <1>4, <1>5, <1>6, <1>7 DEF SessionsIInv

\* ReadForChange (UserService.update) keeps the invariant.
LEMMA ReadForChangeStep ==
    ASSUME SessionsIInv, NEW r \in Request, NEW u \in User, NEW op \in Change, ReadForChange(r, u, op)
    PROVE  SessionsIInv'
<1> USE DEF SessionsIInv
<1>1. SessionsTypeOK'
  BY SessionsAssumption DEF ReadForChange, SessionsTypeOK, RequestInv, Live,
    Start, ghosts, Row, RequestState, Owner, RefreshSteps, PendingSteps,
    ChangeSteps, At, Op, Step, Change
<1>2. RequestInv'
  BY SessionsAssumption DEF ReadForChange, RequestInv, SessionsTypeOK, Live,
    Start, ghosts, Owner, RefreshSteps, PendingSteps, ChangeSteps, Row,
    RequestState, At, Op, Step, Change
<1>3. LockInv'
  BY SessionsAssumption DEF ReadForChange, LockInv, SessionsTypeOK,
    RequestInv, Live, Start, ghosts, LoggingIn, Owner, Row, RequestState,
    RefreshSteps, PendingSteps, ChangeSteps, At, LoginSteps, Op, Step, Change
<1>4. OwnInv'
  BY SessionsAssumption DEF ReadForChange, OwnInv, SessionsTypeOK, RequestInv,
    Live, Start, ghosts, Known, Row, RequestState, Owner, RefreshSteps,
    PendingSteps, ChangeSteps, At, Op, Step, Change
<1>5. PendingInv'
  BY SessionsAssumption DEF ReadForChange, PendingInv, OwnInv, SessionsTypeOK,
    RequestInv, Live, Start, ghosts, PendingSteps, Known, Row, RequestState,
    Owner, RefreshSteps, ChangeSteps, At, Op, Step, Change
<1>6. DropInv'
  BY SessionsAssumption DEF ReadForChange, DropInv, LockInv, OwnInv,
    SingleLogin, SessionsTypeOK, RequestInv, Live, Start, ghosts, LoggingIn,
    Owner, NoLogin, OneLogin, Known, Row, RequestState, RefreshSteps,
    PendingSteps, ChangeSteps, At, LoginSteps, Op, Step, Change
<1>7. SingleLogin' /\ ExchangedIsOver'
  BY DEF ReadForChange, Start, ghosts, SingleLogin, ExchangedIsOver, Live
<1>8. QED
  BY <1>1, <1>2, <1>3, <1>4, <1>5, <1>6, <1>7 DEF SessionsIInv

\* Write (CRUDUser.set_super, set_staff, set_status, set_multi_login) keeps
\* the invariant.
LEMMA WriteStep ==
    ASSUME SessionsIInv, NEW r \in Request, NEW own \in BOOLEAN, Write(r, own)
    PROVE  SessionsIInv'
<1> USE DEF SessionsIInv
<1>1. SessionsTypeOK'
  <2>1. req[r] \in RequestState /\ req[r].u \in User
    BY DEF Write, At, Owner, SessionsTypeOK, RequestInv
  <2>2. req' \in [Request -> RequestState]
    BY <2>1, ChangedRow DEF Write, Goto, SessionsTypeOK, RequestState, Step
  <2>3. rowLock' \in [User -> Request \cup {None}]
    BY <2>1 DEF Write, Lock, Put, Live, SessionsTypeOK
  <2>4. QED
    BY <2>1, <2>2, <2>3 DEF Write, Put, ghosts, SessionsTypeOK
<1>2. RequestInv'
  <2>1. req[r] \in RequestState /\ Owner(r) \in User
    BY DEF Write, At, Owner, SessionsTypeOK, RequestInv
  <2>2. Changed(req[r].op, req[r].flag, row[Owner(r)], own) \in Row
    BY <2>1, ChangedRow DEF SessionsTypeOK, RequestState
  <2>3. /\ req' \in [Request -> RequestState]
        /\ \A q \in Request : q # r => req'[q] = req[q]
    BY <1>1 DEF Write, SessionsTypeOK
  <2>4. req'[r].u = req[r].u /\ req'[r].pc = "keys" /\ req'[r].new \in Row
    BY <2>1, <2>2 DEF Write, SessionsTypeOK, RequestState, Owner
  <2>5. QED
    BY <2>1, <2>3, <2>4 DEF RequestInv, Owner, ChangeSteps, RefreshSteps, PendingSteps
<1>3. LockInv'
  <2>1. /\ \A q \in Request : q # r => req'[q] = req[q]
        /\ req'[r].pc = "keys"
    BY DEF Write, SessionsTypeOK, RequestState
  <2>2. ~LoggingIn(r)'
    BY <2>1 DEF LoggingIn, LoginSteps
  <2>3. row' = row /\ Lock(r, Owner(r)) /\ Owner(r) \in User
    BY DEF Write, Owner, At, RequestInv
  <2>4. \A u \in User : rowLock'[u] # rowLock[u] =>
           u = Owner(r) /\ Live(u) /\ rowLock[u] \in {None, r} /\ rowLock'[u] = r
    BY <2>3 DEF Lock, Put, SessionsTypeOK
  <2>5. ASSUME NEW q \in Request, q # r, LoggingIn(q)', Live(Owner(q))'
        PROVE  rowLock'[Owner(q)'] = q /\ req'[q].flag = row'[Owner(q)'].multi
    <3>1. LoggingIn(q) /\ Live(Owner(q)) /\ Owner(q)' = Owner(q)
      BY <2>1, <2>3, <2>5 DEF LoggingIn, Live, Owner
    <3>2. rowLock[Owner(q)] = q /\ req[q].flag = row[Owner(q)].multi
      BY <3>1 DEF LockInv
    <3>3. Owner(q) \in User /\ q # None
      BY <3>1, SessionsAssumption DEF RequestInv, LoggingIn, LoginSteps
    <3>4. QED
      BY <2>1, <2>3, <2>4, <2>5, <3>1, <3>2, <3>3
  <2>6. QED
    BY <2>2, <2>3, <2>4, <2>5 DEF LockInv, Live
<1>4. OwnInv'
  BY SessionsAssumption DEF Write, OwnInv, SessionsTypeOK, RequestInv, At,
    Lock, ghosts, Known, Row, RequestState, Owner, RefreshSteps, PendingSteps,
    ChangeSteps, Live, Put, Op, Step, Change
<1>5. PendingInv'
  BY SessionsAssumption DEF Write, PendingInv, OwnInv, SessionsTypeOK,
    RequestInv, At, Lock, ghosts, PendingSteps, Known, Row, RequestState,
    Owner, RefreshSteps, ChangeSteps, Live, Put, Op, Step, Change
<1>6. DropInv'
  BY SessionsAssumption, SMTT(30) DEF Write, DropInv, LockInv, OwnInv, SingleLogin,
    SessionsTypeOK, RequestInv, At, Lock, Changed, ghosts, LoggingIn, Live,
    Owner, NoLogin, OneLogin, Known, Row, RequestState, RefreshSteps,
    PendingSteps, ChangeSteps, Put, LoginSteps, Op, Step, Change
<1>7. SingleLogin' /\ ExchangedIsOver'
  BY DEF Write, ghosts, SingleLogin, ExchangedIsOver, Live
<1>8. QED
  BY <1>1, <1>2, <1>3, <1>4, <1>5, <1>6, <1>7 DEF SessionsIInv

\* DeleteKeys (UserService.update_permission) keeps the invariant.
LEMMA DeleteKeysStep ==
    ASSUME SessionsIInv, NEW r \in Request, NEW k \in Session \cup {None}, DeleteKeys(r, {k})
    PROVE  SessionsIInv'
<1> USE DEF SessionsIInv
<1>1. SessionsTypeOK'
  BY SessionsAssumption DEF DeleteKeys, SessionsTypeOK, RequestInv, At, Put,
    Goto, ghosts, Row, RequestState, Owner, RefreshSteps, PendingSteps,
    ChangeSteps, Op, Step, Change
<1>2. RequestInv'
  BY DEF DeleteKeys, RequestInv, SessionsTypeOK, At, Put, Goto, ghosts, Owner,
    RefreshSteps, PendingSteps, ChangeSteps, Row, RequestState, Op, Step,
    Change
<1>3. LockInv'
  BY SessionsAssumption DEF DeleteKeys, LockInv, SessionsTypeOK, RequestInv,
    At, Put, Goto, ghosts, Live, LoggingIn, Owner, Row, RequestState,
    RefreshSteps, PendingSteps, ChangeSteps, LoginSteps, Op, Step, Change
<1>4. OwnInv'
  BY DEF DeleteKeys, OwnInv, SessionsTypeOK, RequestInv, At, Put, Goto,
    ghosts, Known, Row, RequestState, Owner, RefreshSteps, PendingSteps,
    ChangeSteps, Op, Step, Change
<1>5. PendingInv'
  BY DEF DeleteKeys, PendingInv, OwnInv, SessionsTypeOK, RequestInv, At, Put,
    Goto, ghosts, PendingSteps, Known, Row, RequestState, Owner, RefreshSteps,
    ChangeSteps, Op, Step, Change
<1>6. DropInv'
  <2>1. /\ \A q \in Request : q # r => req'[q] = req[q]
        /\ req'[r] = [req[r] EXCEPT !.pc = "commit"]
        /\ UNCHANGED <<row, rowLock, byLogin>>
    BY DEF DeleteKeys, Goto, ghosts, SessionsTypeOK
  <2>2. \A u \in User : access'[u] \subseteq access[u]
    BY DEF DeleteKeys, Put, SessionsTypeOK
  <2>3. Owner(r) \in User /\ req[r].pc = "keys" /\ req'[r].pc = "commit" /\ req[r] \in RequestState
    BY <2>1 DEF DeleteKeys, At, Owner, RequestInv, SessionsTypeOK, RequestState
  <2>4. ASSUME rowLock[Owner(r)] = r, ~req[r].new.multi PROVE OneLogin(Owner(r))'
    <3>1. CASE req[r].op = "multi"
      <4>1. access'[Owner(r)] \subseteq {k}
        BY <2>3, <2>4, <3>1 DEF DeleteKeys, Put, Owner, SessionsTypeOK
      <4>2. QED
        BY <2>1, <2>3, <4>1 DEF OneLogin, Owner, RequestState
    <3>2. CASE req[r].op # "multi"
      <4>1. Live(Owner(r)) /\ ~row[Owner(r)].multi
        BY <2>3, <2>4, <3>2, SessionsAssumption DEF LockInv, DropInv
      <4>2. OneLogin(Owner(r))
        BY <2>3, <4>1 DEF SingleLogin, OneLogin
      <4>3. QED
        BY <2>1, <2>2, <2>3, <4>2 DEF OneLogin, Owner, RequestState
    <3>3. QED
      BY <3>1, <3>2
  <2>5. QED
    BY <2>1, <2>2, <2>3, <2>4 DEF DropInv, OneLogin, NoLogin, LoggingIn, Owner, Live, RequestState, RequestInv, ChangeSteps, LoginSteps
<1>7. SingleLogin'
  BY DEF DeleteKeys, SingleLogin, DropInv, LockInv, OwnInv, SessionsTypeOK,
    RequestInv, At, Put, Goto, ghosts, Live, LoggingIn, Owner, NoLogin,
    OneLogin, Known, Row, RequestState, RefreshSteps, PendingSteps,
    ChangeSteps, LoginSteps, Op, Step, Change
<1>8. ExchangedIsOver'
  BY DEF DeleteKeys, ExchangedIsOver, PendingInv, OwnInv, SessionsTypeOK,
    RequestInv, At, Put, Goto, ghosts, PendingSteps, Known, Row, RequestState,
    Owner, RefreshSteps, ChangeSteps, Op, Step, Change
<1>9. QED
  BY <1>1, <1>2, <1>3, <1>4, <1>5, <1>6, <1>7, <1>8 DEF SessionsIInv

\* Commit (get_db_transaction) keeps the invariant.
LEMMA CommitStep ==
    ASSUME SessionsIInv, NEW r \in Request, Commit(r)
    PROVE  SessionsIInv'
<1> USE DEF SessionsIInv
<1>1. SessionsTypeOK'
  BY SessionsAssumption DEF Commit, SessionsTypeOK, RequestInv, At, Put,
    Finish, ghosts, Row, RequestState, Owner, RefreshSteps, PendingSteps,
    ChangeSteps, Idle, Op, Step, Change
<1>2. RequestInv'
  BY SessionsAssumption DEF Commit, RequestInv, SessionsTypeOK, At, Put,
    Finish, ghosts, Owner, RefreshSteps, PendingSteps, ChangeSteps, Row,
    RequestState, Idle, Op, Step, Change
<1>3. LockInv'
  <2>1. /\ \A q \in Request : q # r => req'[q] = req[q]
        /\ req'[r] = Idle
        /\ \A u \in User : rowLock'[u] = IF rowLock[u] = r THEN None ELSE rowLock[u]
    BY DEF Commit, Finish, SessionsTypeOK
  <2>2. \A u \in User : row'[u] # row[u] => rowLock[u] = r
    BY DEF Commit, Put, SessionsTypeOK
  <2>3. ASSUME NEW u \in User, rowLock'[u] # None PROVE Live(u)'
    BY <2>1, <2>2, <2>3 DEF LockInv, Live
  <2>4. ASSUME NEW q \in Request, LoggingIn(q)', Live(Owner(q))'
        PROVE  rowLock'[Owner(q)'] = q /\ req'[q].flag = row'[Owner(q)'].multi
    <3>1. q # r
      BY <2>1, <2>4 DEF LoggingIn, LoginSteps, Idle
    <3>2. LoggingIn(q) /\ Owner(q)' = Owner(q) /\ Owner(q) \in User
      BY <2>1, <2>4, <3>1 DEF LoggingIn, Owner, LoginSteps, RequestInv
    <3>3. Live(Owner(q)) /\ row'[Owner(q)] = row[Owner(q)]
      BY <2>2, <2>4, <3>1, <3>2, SessionsAssumption DEF LockInv, Live
    <3>4. QED
      BY <2>1, <3>1, <3>2, <3>3 DEF LockInv
  <2>5. QED
    BY <2>3, <2>4 DEF LockInv
<1>4. OwnInv'
  BY SessionsAssumption DEF Commit, OwnInv, SessionsTypeOK, RequestInv, At,
    Put, Finish, ghosts, Known, Row, RequestState, Owner, RefreshSteps,
    PendingSteps, ChangeSteps, Idle, Op, Step, Change
<1>5. PendingInv'
  BY SessionsAssumption DEF Commit, PendingInv, OwnInv, SessionsTypeOK,
    RequestInv, At, Put, Finish, ghosts, PendingSteps, Known, Row,
    RequestState, Owner, RefreshSteps, ChangeSteps, Idle, Op, Step, Change
<1>6. DropInv'
  BY SessionsAssumption DEF Commit, DropInv, LockInv, OwnInv, SingleLogin,
    SessionsTypeOK, RequestInv, At, Put, Finish, ghosts, LoggingIn, Live,
    Owner, NoLogin, OneLogin, Known, Row, RequestState, RefreshSteps,
    PendingSteps, ChangeSteps, Idle, LoginSteps, Op, Step, Change
<1>7. SingleLogin'
  BY SessionsAssumption DEF Commit, SingleLogin, DropInv, LockInv, OwnInv,
    SessionsTypeOK, RequestInv, At, Put, Finish, ghosts, Live, LoggingIn,
    Owner, NoLogin, OneLogin, Known, Row, RequestState, RefreshSteps,
    PendingSteps, ChangeSteps, Idle, LoginSteps, Op, Step, Change
<1>8. ExchangedIsOver'
  BY DEF Commit, ghosts, ExchangedIsOver
<1>9. QED
  BY <1>1, <1>2, <1>3, <1>4, <1>5, <1>6, <1>7, <1>8 DEF SessionsIInv

\* ExpireToken (create_access_token) keeps the invariant.
LEMMA ExpireTokenStep ==
    ASSUME SessionsIInv, NEW u \in User, NEW s \in Session, ExpireToken(u, s)
    PROVE  SessionsIInv'
<1> USE DEF SessionsIInv
<1>1. SessionsTypeOK'
  BY SessionsAssumption DEF ExpireToken, SessionsTypeOK, RequestInv, Put,
    ghosts, Row, RequestState, Owner, RefreshSteps, PendingSteps, ChangeSteps,
    Op, Step, Change
<1>2. OwnInv'
  <2>1. CASE s \in access[u] /\ access' = Put(access, u, access[u] \ {s}) /\ UNCHANGED refresh
    BY <2>1 DEF ExpireToken, OwnInv, SessionsTypeOK, RequestInv, Put, ghosts,
      Known, Row, RequestState, Owner, RefreshSteps, PendingSteps,
      ChangeSteps, Op, Step, Change
  <2>2. CASE s \in refresh[u] /\ refresh' = Put(refresh, u, refresh[u] \ {s}) /\ UNCHANGED access
    BY <2>2 DEF ExpireToken, OwnInv, SessionsTypeOK, RequestInv, Put, ghosts,
      Known, Row, RequestState, Owner, RefreshSteps, PendingSteps,
      ChangeSteps, Op, Step, Change
  <2>3. QED
    BY <2>1, <2>2 DEF ExpireToken
<1>3. PendingInv'
  BY DEF ExpireToken, PendingInv, OwnInv, SessionsTypeOK, RequestInv, Put,
    ghosts, PendingSteps, Known, Row, RequestState, Owner, RefreshSteps,
    ChangeSteps, Op, Step, Change
<1>4. DropInv'
  <2>1. CASE s \in access[u] /\ access' = Put(access, u, access[u] \ {s}) /\ UNCHANGED refresh
    BY <2>1 DEF ExpireToken, DropInv, LockInv, OwnInv, SingleLogin,
      SessionsTypeOK, RequestInv, Put, ghosts, LoggingIn, Live, Owner,
      NoLogin, OneLogin, Known, Row, RequestState, RefreshSteps, PendingSteps,
      ChangeSteps, LoginSteps, Op, Step, Change
  <2>2. CASE s \in refresh[u] /\ refresh' = Put(refresh, u, refresh[u] \ {s}) /\ UNCHANGED access
    BY <2>2 DEF ExpireToken, DropInv, LockInv, OwnInv, SingleLogin,
      SessionsTypeOK, RequestInv, Put, ghosts, LoggingIn, Live, Owner,
      NoLogin, OneLogin, Known, Row, RequestState, RefreshSteps, PendingSteps,
      ChangeSteps, LoginSteps, Op, Step, Change
  <2>3. QED
    BY <2>1, <2>2 DEF ExpireToken
<1>5. SingleLogin'
  BY DEF ExpireToken, SingleLogin, DropInv, LockInv, OwnInv, SessionsTypeOK,
    RequestInv, Put, ghosts, Live, LoggingIn, Owner, NoLogin, OneLogin, Known,
    Row, RequestState, RefreshSteps, PendingSteps, ChangeSteps, LoginSteps,
    Op, Step, Change
<1>6. ExchangedIsOver'
  BY DEF ExpireToken, ExchangedIsOver, PendingInv, OwnInv, SessionsTypeOK,
    RequestInv, Put, ghosts, PendingSteps, Known, Row, RequestState, Owner,
    RefreshSteps, ChangeSteps, Op, Step, Change
<1>7. RequestInv' /\ LockInv'
  BY DEF ExpireToken, ghosts, RequestInv, LockInv, Owner, RefreshSteps,
    PendingSteps, ChangeSteps, Row, Live, LoggingIn, LoginSteps
<1>8. QED
  BY <1>1, <1>2, <1>3, <1>4, <1>5, <1>6, <1>7 DEF SessionsIInv

\* ExpireUser (get_jwt_user) keeps the invariant.
LEMMA ExpireUserStep ==
    ASSUME SessionsIInv, NEW u \in User, ExpireUser(u)
    PROVE  SessionsIInv'
<1> USE DEF SessionsIInv
<1>1. SessionsTypeOK'
  BY SessionsAssumption DEF ExpireUser, SessionsTypeOK, RequestInv, ghosts,
    Row, RequestState, Owner, RefreshSteps, PendingSteps, ChangeSteps, Op,
    Step, Change
<1>2. RequestInv' /\ LockInv' /\ OwnInv' /\ PendingInv' /\ DropInv' /\ SingleLogin' /\ ExchangedIsOver'
  BY DEF ExpireUser, ghosts, RequestInv, LockInv, OwnInv, PendingInv, DropInv,
    SingleLogin, ExchangedIsOver, Owner, RefreshSteps, PendingSteps,
    ChangeSteps, Row, Live, LoggingIn, Known, NoLogin, OneLogin, LoginSteps
<1>3. QED
  BY <1>1, <1>2 DEF SessionsIInv

\* The session_uuid that is drawn was never issued before.
LEMMA SetAccessStep ==
    ASSUME SessionsIInv, NEW r \in Request, SetAccess(r)
    PROVE  SessionsIInv'
<1>1. PICK s \in Session : s \notin issued /\ s = CHOOSE t \in Session : t \notin issued
  BY DEF SetAccess, SessionsIInv, SessionsTypeOK
<1>2. StoreAccess(r, s)
  BY <1>1 DEF SetAccess, StoreAccess
<1>3. QED
  BY <1>1, <1>2, StoreAccessStep

\* Nobody logged in satisfies the invariant.
LEMMA SessionsInitInv == SessionsInit => SessionsIInv
<1> SUFFICES ASSUME SessionsInit PROVE SessionsIInv
  OBVIOUS
<1>1. SessionsTypeOK
  BY SessionsAssumption
     DEF SessionsInit, SessionsTypeOK, RequestState, Idle, Op, Step, Row
<1>2. RequestInv /\ LockInv /\ PendingInv /\ DropInv
  BY DEF SessionsInit, RequestInv, LockInv, PendingInv, DropInv, Idle,
         LoggingIn, LoginSteps, RefreshSteps, PendingSteps, ChangeSteps
<1>3. OwnInv
  BY SessionsAssumption DEF SessionsInit, OwnInv, Known, Idle
<1>4. SingleLogin /\ ExchangedIsOver
  BY DEF SessionsInit, SingleLogin, ExchangedIsOver
<1>5. QED
  BY <1>1, <1>2, <1>3, <1>4 DEF SessionsIInv

\* Every step keeps it.
LEMMA SessionsNextInv == SessionsIInv /\ [SessionsNext]_sessionVars => SessionsIInv'
<1> SUFFICES ASSUME SessionsIInv, [SessionsNext]_sessionVars PROVE SessionsIInv'
  OBVIOUS
<1>1. ASSUME NEW r \in Request, Proceed(r) PROVE SessionsIInv'
  BY <1>1, TouchStep, DropAccessStep, SetAccessStep, DropRefreshStep,
     SetRefreshStep, RefreshCheckStep, ExchangeStep, ReadUserStep,
     StoreUserStep, WriteStep, DeleteKeysStep, CommitStep DEF Proceed
<1>2. ASSUME NEW r \in Request, NEW u \in User, Arrive(r, u)
      PROVE  SessionsIInv'
  BY <1>2, VerifyStep, OAuthLoginStep, RefreshStep, AuthenticateStep,
     ReadForChangeStep DEF Arrive
<1>3. ASSUME NEW u \in User, NEW s \in Session,
             Revoke(u, s) \/ (\E c \in BOOLEAN : Logout(u, s, c))
      PROVE  SessionsIInv'
  BY <1>3, RevokeStep, LogoutStep
<1>4. CASE UNCHANGED sessionVars
  <2>1. SessionsTypeOK' /\ RequestInv'
    BY <1>4 DEF SessionsIInv, SessionsTypeOK, RequestInv, Owner, sessionVars, ghosts
  <2>2. LockInv' /\ OwnInv' /\ PendingInv'
    BY <1>4 DEF SessionsIInv, LockInv, LoggingIn, Live, OwnInv, Known, PendingInv,
                Owner, sessionVars, ghosts
  <2>3. DropInv' /\ SingleLogin' /\ ExchangedIsOver'
    BY <1>4 DEF SessionsIInv, DropInv, SingleLogin, ExchangedIsOver, LoggingIn,
                NoLogin, OneLogin, Live, Owner, sessionVars, ghosts
  <2>4. QED
    BY <2>1, <2>2, <2>3 DEF SessionsIInv
<1>5. QED
  BY <1>1, <1>2, <1>3, <1>4, CrashStep, ExpireTokenStep, ExpireUserStep
     DEF SessionsNext

----------------------------------------------------------------------------

\* The inductive invariant holds in every reachable state.
THEOREM SessionsInductive == SessionsSpec => []SessionsIInv
BY SessionsInitInv, SessionsNextInv, PTL DEF SessionsSpec

\* A single-login account never has two sessions of password logins, although
\* login drops and stores its tokens in separate calls to Redis and other
\* logins, refreshes and changes of the account run in between; and neither
\* token of an exchanged pair is valid again.
THEOREM SessionsSafe == SessionsSpec => []SessionsInv
<1>1. SessionsIInv => SessionsInv
  BY DEF SessionsIInv, SessionsInv
<1>2. QED
  BY <1>1, SessionsInductive, PTL

\* The row lock that update_login_time takes with its UPDATE serialises the
\* password logins of a live account.
THEOREM LoginsSerialised ==
    SessionsSpec => [](\A q, r \in Request :
        LoggingIn(q) /\ LoggingIn(r) /\ Owner(q) = Owner(r) /\ Live(Owner(r))
            => q = r)
<1>1. ASSUME SessionsIInv, NEW q \in Request, NEW r \in Request,
             LoggingIn(q), LoggingIn(r), Owner(q) = Owner(r), Live(Owner(r))
      PROVE  q = r
  <2>1. Live(Owner(q))
    BY <1>1
  <2>2. rowLock[Owner(q)] = q /\ rowLock[Owner(r)] = r
    BY <1>1, <2>1 DEF SessionsIInv, LockInv
  <2>3. QED
    BY <1>1, <2>2
<1>2. SessionsIInv =>
        \A q, r \in Request :
            LoggingIn(q) /\ LoggingIn(r) /\ Owner(q) = Owner(r) /\ Live(Owner(r))
                => q = r
  BY <1>1
<1>3. QED
  BY <1>2, SessionsInductive, PTL
=============================================================================
