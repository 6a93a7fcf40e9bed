------------------------------ MODULE Sessions ------------------------------
(***************************************************************************)
(* Accounts and login sessions.  An account is a committed row of          *)
(* sys_user; a session is a pair of keys in Redis, the access token and    *)
(* the refresh token of one session_uuid; the user that requests run with  *)
(* is a snapshot of the row that is cached in Redis.  Rows change in       *)
(* transactions that take the row lock with their first UPDATE and hold it *)
(* to COMMIT; Redis is changed at once and outside of them.  A request is  *)
(* one coroutine: other requests run wherever it awaits the database or    *)
(* Redis, so each of its awaits that matters is a step of its own.         *)
(***************************************************************************)
CONSTANTS User, Session, Request,
          None            \* no session, no row, no lock holder

ASSUME SessionsAssumption == None \notin User \cup Session \cup Request

VARIABLES row,        \* the committed row of each account
          rowLock,    \* the request that has updated the row and not ended
          access,     \* session_uuids with a key fba:token:<user>:<uuid>
          refresh,    \* session_uuids with a key fba:refresh_token:...
          cached,     \* accounts with a cached snapshot fba:user:<user>
          req,        \* the running requests
          issued,     \* history: the sessions created so far
          byLogin,    \* history: those created by a password login
          exchanged   \* history: those whose refresh token was spent

ghosts      == <<issued, byLogin, exchanged>>
sessionVars == <<row, rowLock, access, refresh, cached, req, ghosts>>

\* The columns of a row that decide anything here.  All others (names, avatar,
\* e-mail, password, superuser and staff flags, roles) matter only in that a
\* change of them drops the cached user.
Row == [deleted: BOOLEAN, status: BOOLEAN, multi: BOOLEAN]

Change == {"profile", "status", "multi", "password", "delete"}
Op     == {"none", "login", "swagger", "oauth2", "refresh", "auth"} \cup Change
Step   == {"idle", "touch", "dropAccess", "setAccess", "dropRefresh",
           "setRefresh", "refreshCheck", "exchange", "authRead", "authStore",
           "write", "keys", "commit"}

\* A running request: what it does, for whom, the next step, the flag it acts
\* on as it has read it (multi of a login, status of a toggle), the row it has
\* written, and the session it stores or exchanges.
RequestState ==
    [op: Op, u: User \cup {None}, pc: Step, flag: BOOLEAN,
     new: Row \cup {None}, s: Session \cup {None}]

Idle == [op |-> "none", u |-> None, pc |-> "idle", flag |-> FALSE,
         new |-> None, s |-> None]

SessionsTypeOK ==
    /\ row \in [User -> Row]
    /\ rowLock \in [User -> Request \cup {None}]
    /\ access \in [User -> SUBSET Session]
    /\ refresh \in [User -> SUBSET Session]
    /\ cached \in SUBSET User
    /\ req \in [Request -> RequestState]
    /\ issued \in SUBSET Session
    /\ byLogin \in SUBSET Session
    /\ exchanged \in SUBSET Session

\* Enabled accounts, nobody logged in and nothing cached.
SessionsInit ==
    /\ row \in [User -> {r \in Row : ~r.deleted /\ r.status}]
    /\ rowLock = [u \in User |-> None]
    /\ access = [u \in User |-> {}] /\ refresh = [u \in User |-> {}]
    /\ cached = {}
    /\ req = [r \in Request |-> Idle]
    /\ issued = {} /\ byLogin = {} /\ exchanged = {}

Live(u)     == ~row[u].deleted
Goto(r, pc) == req' = [req EXCEPT ![r].pc = pc]
At(r, pc)   == req[r].pc = pc
Put(f, u, v) == [f EXCEPT ![u] = v]

\* The end of a request, by return, exception or crash: the transaction is
\* over and its row lock is free.
Finish(r) ==
    /\ req' = [req EXCEPT ![r] = Idle]
    /\ rowLock' = [u \in User |-> IF rowLock[u] = r THEN None ELSE rowLock[u]]

\* UPDATE ... WHERE id = u AND deleted = 0: waits for the row lock and takes
\* it; when the account is deleted no row matches and nothing is locked.
Lock(r, u) ==
    /\ rowLock[u] \in {None, r}
    /\ rowLock' = IF Live(u) THEN Put(rowLock, u, r) ELSE rowLock

Start(r, op, u, pc, flag, s) ==
    /\ At(r, "idle")
    /\ req' = [req EXCEPT ![r] = [op |-> op, u |-> u, pc |-> pc, flag |-> flag,
                                  new |-> None, s |-> s]]

----------------------------------------------------------------------------
(* Login                                                                   *)

\* user_verify with the right password reads the row; a disabled account is
\* refused, as is one that module PasswordSecurity holds locked or expired (a
\* refusal changes nothing here and is no step).
Verify(r, u, op) ==
    /\ Live(u) /\ row[u].status
    /\ op \in {"login", "swagger"}
    /\ Start(r, op, u, "touch", row[u].multi, None)
    /\ UNCHANGED <<row, rowLock, access, refresh, cached, ghosts>>

\* Mutant: login goes on with the flag it read before it had the row lock.
TouchStale(r) ==
    /\ At(r, "touch")
    /\ Lock(r, req[r].u)
    /\ Goto(r, "dropAccess")
    /\ UNCHANGED <<row, access, refresh, cached, ghosts>>

\* update_login_time takes the row lock; login then reads the row again with
\* db.refresh, swagger_login goes on with the one it has.
Touch(r) ==
    LET u == req[r].u IN
    /\ At(r, "touch")
    /\ Lock(r, u)
    /\ req' = [req EXCEPT ![r].pc = "dropAccess",
                  ![r].flag = IF req[r].op = "login" THEN row[u].multi ELSE @]
    /\ UNCHANGED <<row, access, refresh, cached, ghosts>>

\* OAuth2: the account is found through its binding or its e-mail and is
\* neither locked nor asked for its status; only an empty avatar is updated.
OAuthLogin(r, u, fillsAvatar) ==
    /\ Live(u)
    /\ Start(r, "oauth2", u, "dropAccess", row[u].multi, None)
    /\ IF fillsAvatar THEN Lock(r, u) ELSE UNCHANGED rowLock
    /\ UNCHANGED <<row, access, refresh, cached, ghosts>>

\* create_access_token: without multi_login the other access tokens go ...
DropAccess(r) ==
    LET u == req[r].u IN
    /\ At(r, "dropAccess")
    /\ access' = Put(access, u, IF req[r].flag THEN access[u] ELSE {})
    /\ Goto(r, "setAccess")
    /\ UNCHANGED <<row, rowLock, refresh, cached, ghosts>>

\* ... and one under a new session_uuid is stored (which of the unused ones makes
\* no difference).  swagger_login ends here.
SetAccess(r) ==
    LET u == req[r].u  s == CHOOSE t \in Session : t \notin issued IN
    /\ At(r, "setAccess") /\ issued # Session
    /\ access' = Put(access, u, access[u] \cup {s})
    /\ issued' = issued \cup {s}
    /\ byLogin' = IF req[r].op = "login" THEN byLogin \cup {s} ELSE byLogin
    /\ IF req[r].op = "swagger"
       THEN Finish(r)
       ELSE /\ req' = [req EXCEPT ![r].pc = "dropRefresh", ![r].s = s]
            /\ UNCHANGED rowLock
    /\ UNCHANGED <<row, refresh, cached, exchanged>>

\* create_refresh_token, in the same two steps.
DropRefresh(r) ==
    LET u == req[r].u IN
    /\ At(r, "dropRefresh")
    /\ refresh' = Put(refresh, u, IF req[r].flag THEN refresh[u] ELSE {})
    /\ Goto(r, "setRefresh")
    /\ UNCHANGED <<row, rowLock, access, cached, ghosts>>

SetRefresh(r) ==
    LET u == req[r].u IN
    /\ At(r, "setRefresh")
    /\ refresh' = Put(refresh, u, refresh[u] \cup {req[r].s})
    /\ Finish(r)
    /\ UNCHANGED <<row, access, cached, ghosts>>

----------------------------------------------------------------------------
(* Refresh, logout, and authentication of a request                        *)

\* refresh_token reads the row (no lock: its session has no transaction).
Refresh(r, u, s) ==
    /\ Live(u) /\ row[u].status
    /\ s \in refresh[u]
    /\ Start(r, "refresh", u, "refreshCheck", row[u].multi, s)
    /\ UNCHANGED <<row, rowLock, access, refresh, cached, ghosts>>

\* Refused when a single-login account has another access token, or when the
\* refresh token is gone.
RefreshCheck(r) ==
    LET u == req[r].u  s == req[r].s IN
    /\ At(r, "refreshCheck")
    /\ IF (req[r].flag \/ access[u] \subseteq {s}) /\ s \in refresh[u]
       THEN Goto(r, "exchange") /\ UNCHANGED rowLock
       ELSE Finish(r)
    /\ UNCHANGED <<row, access, refresh, cached, ghosts>>

\* create_new_token deletes the pair it replaces.
Exchange(r) ==
    LET u == req[r].u  s == req[r].s IN
    /\ At(r, "exchange")
    /\ refresh' = Put(refresh, u, refresh[u] \ {s})
    /\ access' = Put(access, u, access[u] \ {s})
    /\ exchanged' = exchanged \cup {s}
    /\ req' = [req EXCEPT ![r].pc = "dropAccess", ![r].s = None]
    /\ UNCHANGED <<row, rowLock, cached, issued, byLogin>>

\* logout: the refresh token goes only when the request carries its cookie.
Logout(u, s, cookie) ==
    /\ s \in access[u]
    /\ access' = Put(access, u, access[u] \ {s})
    /\ refresh' = Put(refresh, u, IF cookie THEN refresh[u] \ {s} ELSE refresh[u])
    /\ UNCHANGED <<row, rowLock, cached, req, ghosts>>

\* delete_session / revoke_token: an administrator ends one session.
Revoke(u, s) ==
    /\ s \in access[u]
    /\ access' = Put(access, u, access[u] \ {s})
    /\ UNCHANGED <<row, rowLock, refresh, cached, req, ghosts>>

\* jwt_authentication with a valid token.  A cached user is accepted as it is
\* (no step); otherwise get_jwt_user reads the row.
Authenticate(r, u) ==
    /\ access[u] # {} /\ u \notin cached
    /\ Start(r, "auth", u, "authRead", FALSE, None)
    /\ UNCHANGED <<row, rowLock, access, refresh, cached, ghosts>>

\* Mutant: the status of the account is not looked at.
ReadUserAny(r) ==
    /\ At(r, "authRead")
    /\ IF Live(req[r].u)
       THEN Goto(r, "authStore") /\ UNCHANGED rowLock
       ELSE Finish(r)
    /\ UNCHANGED <<row, access, refresh, cached, ghosts>>

\* get_current_user refuses a deleted or disabled account.
ReadUser(r) ==
    LET u == req[r].u IN
    /\ At(r, "authRead")
    /\ IF Live(u) /\ row[u].status
       THEN Goto(r, "authStore") /\ UNCHANGED rowLock
       ELSE Finish(r)
    /\ UNCHANGED <<row, access, refresh, cached, ghosts>>

StoreUser(r) ==
    /\ At(r, "authStore")
    /\ cached' = cached \cup {req[r].u}
    /\ Finish(r)
    /\ UNCHANGED <<row, access, refresh, ghosts>>

----------------------------------------------------------------------------
(* Changes of an account                                                   *)

\* What each change makes of the row: a toggle negates the flag it has read
\* before the lock was taken.  The multi_login toggle always negates the flag
\* of the administrator who asks (own), because pk # user.id never holds.
Changed(op, flag, old, own) ==
    CASE op = "status" -> [old EXCEPT !.status = ~flag]
      [] op = "multi"  -> [old EXCEPT !.multi = ~own]
      [] op = "delete" -> [old EXCEPT !.deleted = TRUE]
      [] OTHER         -> old

\* The service reads the row and checks its input.
ReadForChange(r, u, op) ==
    /\ Live(u)
    /\ Start(r, op, u, "write", op = "status" /\ row[u].status, None)
    /\ UNCHANGED <<row, rowLock, access, refresh, cached, ghosts>>

\* The UPDATE.
Write(r, own) ==
    LET u == req[r].u IN
    /\ At(r, "write")
    /\ Lock(r, u)
    /\ req' = [req EXCEPT ![r].pc = "keys", ![r].flag = FALSE,
                  ![r].new = Changed(req[r].op, req[r].flag, row[u], own)]
    /\ UNCHANGED <<row, access, refresh, cached, ghosts>>

\* The keys each change deletes, before COMMIT.  A change to single login
\* spares the session of the request (keep) when it is one of this account.
DeleteKeys(r, keep) ==
    LET u == req[r].u  op == req[r].op
        all == op \in {"password", "delete"}
        others == op = "multi" /\ ~req[r].new.multi IN
    /\ At(r, "keys")
    /\ access' = Put(access, u, IF all THEN {}
                                ELSE IF others THEN access[u] \cap keep
                                ELSE access[u])
    /\ refresh' = Put(refresh, u, IF all THEN {} ELSE refresh[u])
    /\ cached' = cached \ {u}
    /\ Goto(r, "commit")
    /\ UNCHANGED <<row, rowLock, ghosts>>

\* COMMIT.
Commit(r) ==
    LET u == req[r].u IN
    /\ At(r, "commit")
    /\ row' = IF rowLock[u] = r THEN Put(row, u, req[r].new) ELSE row
    /\ Finish(r)
    /\ UNCHANGED <<access, refresh, cached, ghosts>>

----------------------------------------------------------------------------
(* Time and failures                                                       *)

\* Every key has a time to live.
ExpireToken(u, s) ==
    /\ \/ /\ s \in access[u] /\ access' = Put(access, u, access[u] \ {s})
          /\ UNCHANGED refresh
       \/ /\ s \in refresh[u] /\ refresh' = Put(refresh, u, refresh[u] \ {s})
          /\ UNCHANGED access
    /\ UNCHANGED <<row, rowLock, cached, req, ghosts>>

ExpireUser(u) ==
    /\ u \in cached
    /\ cached' = cached \ {u}
    /\ UNCHANGED <<row, rowLock, access, refresh, req, ghosts>>

\* The process stops or the request is cancelled: ROLLBACK, Redis stays.
Crash(r) ==
    /\ ~At(r, "idle")
    /\ Finish(r)
    /\ UNCHANGED <<row, access, refresh, cached, ghosts>>

\* The step a running request takes next.
Proceed(r) ==
    \/ Touch(r) \/ DropAccess(r) \/ SetAccess(r)
    \/ DropRefresh(r) \/ SetRefresh(r) \/ RefreshCheck(r) \/ Exchange(r)
    \/ ReadUser(r) \/ StoreUser(r)
    \/ \E own \in BOOLEAN : Write(r, own)
    \/ \E s \in Session \cup {None} : DeleteKeys(r, {s})
    \/ Commit(r)

Arrive(r, u) ==
    \/ \E op \in {"login", "swagger"} : Verify(r, u, op)
    \/ \E fills \in BOOLEAN : OAuthLogin(r, u, fills)
    \/ \E s \in Session : Refresh(r, u, s)
    \/ Authenticate(r, u)
    \/ \E op \in Change : ReadForChange(r, u, op)

SessionsNext ==
    \/ \E r \in Request : Proceed(r) \/ Crash(r)
    \/ \E r \in Request, u \in User : Arrive(r, u)
    \/ \E u \in User, s \in Session : Revoke(u, s) \/ (\E c \in BOOLEAN : Logout(u, s, c))
    \/ \E u \in User, s \in Session : ExpireToken(u, s)
    \/ \E u \in User : ExpireUser(u)

\* A request that is awaited goes on or ends, and Redis expires keys.
SessionsFairness ==
    /\ \A r \in Request : WF_sessionVars(Proceed(r) \/ Crash(r))
    /\ \A u \in User : WF_sessionVars(ExpireUser(u))

SessionsSpec == SessionsInit /\ [][SessionsNext]_sessionVars /\ SessionsFairness

----------------------------------------------------------------------------
(* Properties                                                              *)

\* A single-login account has at most one session that a password login has
\* created: update_login_time serialises the logins of an account, the flag
\* is read again under the lock, and the change of the flag drops tokens
\* before it is visible.
SingleLogin ==
    \A u \in User : Live(u) /\ ~row[u].multi =>
        \A s, t \in access[u] \cap byLogin : s = t

\* A refresh token that was exchanged is never valid again, and neither is
\* the access token beside it.
ExchangedIsOver ==
    \A u \in User : exchanged \cap (access[u] \cup refresh[u]) = {}

\* An account that stays disabled or deleted is shut out for good: the cached
\* user runs out and no request can store it again, although it is deleted
\* before the change is committed and may be filled once more from the old row.
ShutOut ==
    \A u \in User :
        <>[](row[u].deleted \/ ~row[u].status) => <>[](u \notin cached)

\* One login per single-login account, and no way back from an exchanged token.
SessionsInv ==
    /\ SessionsTypeOK /\ SingleLogin /\ ExchangedIsOver
=============================================================================
