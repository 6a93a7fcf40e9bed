-------------------------- MODULE PasswordSecurity --------------------------
(***************************************************************************)
(* The password of one account: the lock-out after wrong passwords, whose  *)
(* counter and lock are keys in Redis that a login reads and writes in     *)
(* separate steps, the expiry of a password, and the history that a new    *)
(* password is checked against.  Requests overlap; a change of the         *)
(* password holds the row lock from its UPDATE to its COMMIT.              *)
(***************************************************************************)
EXTENDS Naturals, Sequences

CONSTANTS Login,        \* the requests
          Password,     \* the passwords people choose
          Threshold,    \* settings.USER_LOCK_THRESHOLD, 0 for no lock-out
          HistoryCheck, \* settings.USER_PASSWORD_HISTORY_CHECK_COUNT
          ExpiryDays,   \* settings.USER_PASSWORD_EXPIRY_DAYS, 0 for never
          MaxFailures,  \* bound: wrong passwords entered
          MaxChanges,   \* bound: changes of the password
          MaxAge        \* bound: days since the last change that are told apart

ASSUME PasswordAssumption ==
    {Threshold, HistoryCheck, ExpiryDays, MaxFailures, MaxChanges, MaxAge} \subseteq Nat

VARIABLES password,  \* sys_user.password
          age,       \* days since last_password_changed_time
          history,   \* sys_user_password_history, newest last
          failures,  \* fba:login:failure:<user>, 0 when the key is absent
          locked,    \* fba:user:lock:<user> exists
          login,     \* the step, the password and the count of each request
          failed,    \* wrong passwords entered so far
          since,     \* history: those entered since the counter was deleted
          overlapped \* history: two requests were at the counter, or at a change, at once;
                     \* or the counter expired under a login

pwVars == <<password, age, history, failures, locked, login, failed, since, overlapped>>

Counting  == {"wrong", "counted", "locking", "unlock", "reset"}
Changing  == {"checked", "written"}
LoginState == [pc : {"idle", "verified"} \cup Counting \cup Changing,
               pw : Password, n : 0..MaxFailures]

PasswordTypeOK ==
    /\ password \in Password /\ age \in 0..MaxAge
    /\ history \in Seq(Password) /\ Len(history) <= MaxChanges
    /\ failures \in 0..MaxFailures /\ locked \in BOOLEAN
    /\ login \in [Login -> LoginState]
    /\ \A q, r \in Login : login[q].pc = "written" /\ login[r].pc = "written" => q = r
    /\ failed \in 0..MaxFailures /\ since \in 0..failed /\ overlapped \in BOOLEAN

PasswordInit ==
    /\ password \in Password
    /\ age = 0 /\ history = <<>> /\ failures = 0 /\ locked = FALSE
    /\ failed = 0 /\ since = 0 /\ overlapped = FALSE
    /\ login = [r \in Login |-> [pc |-> "idle", pw |-> password, n |-> 0]]

\* Request r takes its next step, with the password and the count it knows.
LoginAt(r, from, to, pw, n) ==
    /\ login[r].pc = from
    /\ login' = [login EXCEPT ![r] = [pc |-> to, pw |-> pw, n |-> n]]
    /\ overlapped' = (overlapped \/ \E q \in Login \ {r} :
                         \/ {to, login[q].pc} \subseteq Counting
                         \/ {to, login[q].pc} \subseteq Changing)

LoginGo(r, from, to) == LoginAt(r, from, to, login[r].pw, login[r].n)

Account  == <<password, age, history>>
Counters == <<failures, locked, failed, since>>

\* user_verify: check_status refuses a locked account (no step), then the
\* password is compared, and one that fits must not have expired.
Expired == ExpiryDays > 0 /\ age > ExpiryDays

EnterRight(r) ==
    /\ ~locked
    /\ LoginGo(r, "idle", IF Expired THEN "idle" ELSE "unlock")
    /\ UNCHANGED <<Account, Counters>>

EnterWrong(r) ==
    /\ ~locked /\ failed < MaxFailures
    /\ failed' = failed + 1 /\ since' = since + 1
    /\ LoginGo(r, "idle", IF Threshold = 0 THEN "idle" ELSE "wrong")
    /\ UNCHANGED <<Account, failures, locked>>

\* handle_login_failure: GET of the counter, SET of the counter, SET of the
\* lock once the threshold is reached.
ReadFailures(r) ==
    /\ LoginAt(r, "wrong", "counted", login[r].pw, failures + 1)
    /\ UNCHANGED <<Account, Counters>>

StoreFailures(r) ==
    /\ LoginGo(r, "counted", IF login[r].n >= Threshold THEN "locking" ELSE "idle")
    /\ failures' = login[r].n
    /\ UNCHANGED <<Account, locked, failed, since>>

SetLock(r) ==
    /\ LoginGo(r, "locking", "idle")
    /\ locked' = TRUE
    /\ UNCHANGED <<Account, failures, failed, since>>

\* handle_login_success: DELETE of the lock, DELETE of the counter.
DeleteLock(r) ==
    /\ LoginGo(r, "unlock", "reset")
    /\ locked' = FALSE
    /\ UNCHANGED <<Account, failures, failed, since>>

DeleteCounter(r) ==
    /\ LoginGo(r, "reset", "idle")
    /\ failures' = 0 /\ since' = 0
    /\ UNCHANGED <<Account, locked, failed>>

\* Both keys live USER_LOCK_SECONDS; check_status also deletes both when it
\* meets a lock that is over.
LockEnds ==
    /\ locked /\ locked' = FALSE
    /\ UNCHANGED <<Account, login, failures, failed, since, overlapped>>

CounterEnds ==
    /\ failures > 0 /\ failures' = 0 /\ since' = 0
    /\ overlapped' = (overlapped \/ \E r \in Login : login[r].pc \in Counting)
    /\ UNCHANGED <<Account, login, locked, failed>>

\* Mutant: one entry fewer.
RecentFewer == {history[i] : i \in {j \in 1..Len(history) : j + HistoryCheck > Len(history) + 1}}

\* The newest HistoryCheck entries of the history.
Recent == {history[i] : i \in {j \in 1..Len(history) : j + HistoryCheck > Len(history)}}

\* validate_new_password, by update_password (which knows the old one) and by
\* reset_password alike: not one of the recent passwords.
ChooseNew(r, pw) ==
    /\ Len(history) < MaxChanges /\ pw \notin Recent
    /\ LoginAt(r, "idle", "checked", pw, 0)
    /\ UNCHANGED <<Account, Counters>>

\* UPDATE of the password: waits for the row lock.
WriteNew(r) ==
    /\ \A q \in Login : login[q].pc # "written"
    /\ Len(history) < MaxChanges
    /\ LoginGo(r, "checked", "written")
    /\ UNCHANGED <<Account, Counters>>

\* COMMIT of the password, its time and its entry in the history.
CommitNew(r) ==
    /\ LoginGo(r, "written", "idle")
    /\ password' = login[r].pw /\ age' = 0
    /\ history' = Append(history, login[r].pw)
    /\ UNCHANGED Counters

\* A change that is cancelled or fails: ROLLBACK.
CancelChange(r) ==
    /\ login[r].pc \in Changing
    /\ LoginGo(r, login[r].pc, "idle")
    /\ UNCHANGED <<Account, Counters>>

Day ==
    /\ age < MaxAge /\ age' = age + 1
    /\ UNCHANGED <<password, history, Counters, login, overlapped>>

PasswordNext ==
    \/ \E r \in Login :
        \/ EnterRight(r) \/ EnterWrong(r) \/ ReadFailures(r) \/ StoreFailures(r)
        \/ SetLock(r) \/ DeleteLock(r) \/ DeleteCounter(r)
        \/ WriteNew(r) \/ CommitNew(r) \/ CancelChange(r)
        \/ \E pw \in Password : ChooseNew(r, pw)
    \/ LockEnds \/ CounterEnds \/ Day
----------------------------------------------------------------------------
\* Logins that overlap may lose a count but never invent one: the account is
\* locked only after Threshold wrong passwords, whatever reset the counter in
\* between.
LockedAfterFailures == locked => failed >= Threshold

\* Where there is a lock-out, a wrong password goes uncounted only when two logins
\* of the account were at the counter together, or it expired under one.
CountExact ==
    Threshold = 0 \/ overlapped \/ failures = since \/ \E r \in Login : login[r].pc \in Counting

\* The newest entry of the history is the password in force, also when
\* several changes overlap or are rolled back.
HistoryHasCurrent == history # <<>> => history[Len(history)] = password

\* One of the last HistoryCheck passwords comes back only when two changes
\* were checked before either was written.
NoRecentReuse ==
    overlapped \/ \A i, j \in 1..Len(history) :
        i < j /\ j - i <= HistoryCheck => history[i] # history[j]

\* The lock has been earned, and the history follows the password.
PasswordInv ==
    /\ PasswordTypeOK /\ LockedAfterFailures /\ CountExact
    /\ HistoryHasCurrent /\ NoRecentReuse
=============================================================================
