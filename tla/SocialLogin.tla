----------------------------- MODULE SocialLogin -----------------------------
(***************************************************************************)
(* Signing in with, and binding, the account of another platform (plugin   *)
(* oauth2).  A link carries a state kept in Redis; the callback reads the  *)
(* state, deletes it, and logs in or binds in one transaction, while other *)
(* callbacks run and users are deleted or unbound.  One platform: each has *)
(* rows and constraints of its own.                                        *)
(***************************************************************************)
EXTENDS FiniteSets

CONSTANTS Account,   \* rows of sys_user that come to exist
          Sid,       \* users of the platform
          Known,     \* accounts there at the start
          MailOf,    \* of a known account: the platform user with its e-mail address, or NoSid
          LinkState, \* states
          Callback,  \* callbacks
          NoSid

ASSUME SocialAssumption ==
    /\ Known \subseteq Account /\ NoSid \notin Sid /\ MailOf \in [Known -> Sid \cup {NoSid}]
    /\ \A u, v \in Known : MailOf[u] = MailOf[v] /\ MailOf[u] # NoSid => u = v

VARIABLES account,  \* "new", "live" or "gone"
          mail,     \* email of each account
          social,   \* the rows of sys_user_social that are not deleted: <<sid, user>>
          link,     \* what Redis holds for each state
          callback, \* step of each callback
          passes,   \* history: the callbacks a state let through
          doubled,  \* history: states two callbacks read before one of them deleted it
          outlived, \* history: accounts deleted while a link or a callback was to bind them
          unbound   \* history: accounts that had a binding removed

socialVars == <<account, mail, social, link, callback, passes, doubled, outlived, unbound>>

NoLink  == [type |-> "unused"]
Link    == {NoLink, [type |-> "gone"], [type |-> "login"]} \cup [type : {"binding"}, user : Account]
Waiting == [pc |-> "new"]
Step    == [pc : {"drop", "lookUp"}, state : LinkState, sid : Sid, link : Link]
           \cup [pc : {"commit"}, sid : Sid, user : Account, fresh : BOOLEAN]

SocialTypeOK ==
    /\ account \in [Account -> {"new", "live", "gone"}] /\ mail \in [Account -> Sid \cup {NoSid}]
    /\ social \subseteq Sid \X Account
    /\ \A x, y \in social : x[1] = y[1] \/ x[2] = y[2] => x = y
    /\ link \in [LinkState -> Link]
    /\ \A c \in Callback : callback[c] \in Step \cup {Waiting, [pc |-> "ok"], [pc |-> "failed"]}
    /\ passes \in [LinkState -> SUBSET Callback] /\ doubled \subseteq LinkState
    /\ outlived \subseteq Account /\ unbound \subseteq Account

SocialInit ==
    /\ account = [u \in Account |-> IF u \in Known THEN "live" ELSE "new"]
    /\ mail = [u \in Account |-> IF u \in Known THEN MailOf[u] ELSE NoSid]
    /\ social = {} /\ link = [s \in LinkState |-> NoLink]
    /\ callback = [c \in Callback |-> Waiting]
    /\ passes = [s \in LinkState |-> {}] /\ doubled = {} /\ outlived = {} /\ unbound = {}

CallbackGoes(c, st) == callback' = [callback EXCEPT ![c] = st]
Rows == <<account, mail, social, outlived, unbound>>
----------------------------------------------------------------------------
(* The links *)

\* get_github_oauth2_url, get_google_oauth2_url.
LoginLink(s) ==
    /\ link[s] = NoLink /\ link' = [link EXCEPT ![s] = [type |-> "login"]]
    /\ UNCHANGED <<Rows, callback, passes, doubled>>

\* get_binding_auth_url, for the user of the request.
BindingLink(s, u) ==
    /\ link[s] = NoLink /\ account[u] = "live"
    /\ link' = [link EXCEPT ![s] = [type |-> "binding", user |-> u]]
    /\ UNCHANGED <<Rows, callback, passes, doubled>>

\* OAUTH2_STATE_EXPIRE_SECONDS.
LinkExpires(s) ==
    /\ link[s].type \in {"login", "binding"} /\ link' = [link EXCEPT ![s] = [type |-> "gone"]]
    /\ UNCHANGED <<Rows, callback, passes, doubled>>

\* The callback reads the state that came back with the platform user.
ReadState(c, s, sid) ==
    /\ callback[c] = Waiting /\ link[s] # NoLink
    /\ IF link[s].type = "gone"
       THEN CallbackGoes(c, [pc |-> "failed"]) /\ UNCHANGED <<passes, doubled>>
       ELSE /\ CallbackGoes(c, [pc |-> "drop", state |-> s, sid |-> sid, link |-> link[s]])
            /\ passes' = [passes EXCEPT ![s] = @ \cup {c}]
            /\ doubled' = doubled \cup {t \in {s} : \E o \in Callback :
                                           callback[o].pc = "drop" /\ callback[o].state = t}
    /\ UNCHANGED <<Rows, link>>

DropState(c) ==
    /\ callback[c].pc = "drop" /\ CallbackGoes(c, [callback[c] EXCEPT !.pc = "lookUp"])
    /\ link' = [link EXCEPT ![callback[c].state] = [type |-> "gone"]]
    /\ UNCHANGED <<Rows, passes, doubled>>
----------------------------------------------------------------------------
(* Binding and login *)

LiveWithMail(sid) == {u \in Account : account[u] = "live" /\ mail[u] = sid}

\* binding_with_oauth2: neither the user nor the platform user has a row.
\* Whether the user still exists is not asked.
Bind(c) ==
    LET st == callback[c] IN
    /\ st.pc = "lookUp" /\ st.link.type = "binding"
    /\ IF \E x \in social : x[1] = st.sid \/ x[2] = st.link.user
       THEN CallbackGoes(c, [pc |-> "failed"])
       ELSE CallbackGoes(c, [pc |-> "commit", sid |-> st.sid, user |-> st.link.user, fresh |-> FALSE])
    /\ UNCHANGED <<Rows, link, passes, doubled>>

\* login: the user of the row (an error if that user is gone); without a row
\* the user with the e-mail address, or a new one, is bound.
LoginBound(c) ==
    LET st == callback[c] IN
    /\ st.pc = "lookUp" /\ st.link.type = "login"
    /\ \E x \in social : /\ x[1] = st.sid
                         /\ CallbackGoes(c, [pc |-> IF account[x[2]] = "live" THEN "ok" ELSE "failed"])
    /\ UNCHANGED <<Rows, link, passes, doubled>>

LoginUnbound(c) ==
    LET st == callback[c] IN
    /\ st.pc = "lookUp" /\ st.link.type = "login" /\ \A x \in social : x[1] # st.sid
    /\ \/ \E u \in LiveWithMail(st.sid) :
            CallbackGoes(c, [pc |-> "commit", sid |-> st.sid, user |-> u, fresh |-> FALSE])
       \/ /\ LiveWithMail(st.sid) = {}
          /\ \E u \in Account :
              /\ account[u] = "new"
              /\ \A o \in Callback : callback[o].pc = "commit" => callback[o].user # u
              /\ CallbackGoes(c, [pc |-> "commit", sid |-> st.sid, user |-> u, fresh |-> TRUE])
    /\ UNCHANGED <<Rows, link, passes, doubled>>

\* uk_sys_user_social_sid_source_deleted, ..._user_id_source_deleted, and the
\* e-mail address of a new user.
Conflict(st) ==
    \/ \E x \in social : x[1] = st.sid \/ x[2] = st.user
    \/ st.fresh /\ LiveWithMail(st.sid) # {}

\* COMMIT, of the new user as well; a conflict or another error rolls all back.
CommitBinding(c) ==
    LET st == callback[c] IN
    /\ st.pc = "commit"
    /\ \/ /\ ~Conflict(st) /\ CallbackGoes(c, [pc |-> "ok"])
          /\ social' = social \cup {<<st.sid, st.user>>}
          /\ account' = [account EXCEPT ![st.user] = IF st.fresh THEN "live" ELSE @]
          /\ mail' = [mail EXCEPT ![st.user] = IF st.fresh THEN st.sid ELSE @]
       \/ CallbackGoes(c, [pc |-> "failed"]) /\ UNCHANGED <<account, mail, social>>
    /\ UNCHANGED <<outlived, unbound, link, passes, doubled>>
----------------------------------------------------------------------------
Unbind(u) ==
    /\ account[u] = "live" /\ \E x \in social : x[2] = u
    /\ social' = {x \in social : x[2] # u} /\ unbound' = unbound \cup {u}
    /\ UNCHANGED <<account, mail, link, callback, passes, doubled, outlived>>

ToBind(u) == \/ \E s \in LinkState : link[s].type = "binding" /\ link[s].user = u
             \/ \E c \in Callback : \/ callback[c].pc = "commit" /\ callback[c].user = u
                                    \/ /\ callback[c].pc \in {"drop", "lookUp"}
                                       /\ callback[c].link.type = "binding" /\ callback[c].link.user = u

\* Mutant: the rows of the plugin are left.
DeleteAccountOnly(u) ==
    /\ account[u] = "live" /\ account' = [account EXCEPT ![u] = "gone"]
    /\ outlived' = IF ToBind(u) THEN outlived \cup {u} ELSE outlived
    /\ UNCHANGED <<mail, social, link, callback, passes, doubled, unbound>>

\* user_dao.delete: the rows it sees, and the user.
DeleteAccount(u) ==
    /\ account[u] = "live" /\ account' = [account EXCEPT ![u] = "gone"]
    /\ social' = {x \in social : x[2] # u}
    /\ outlived' = IF ToBind(u) THEN outlived \cup {u} ELSE outlived
    /\ UNCHANGED <<mail, link, callback, passes, doubled, unbound>>

SocialNext ==
    \/ \E s \in LinkState : \/ LoginLink(s) \/ LinkExpires(s)
                            \/ \E u \in Account : BindingLink(s, u)
    \/ \E c \in Callback :
        \/ \E s \in LinkState, sid \in Sid : ReadState(c, s, sid)
        \/ DropState(c) \/ Bind(c) \/ LoginBound(c) \/ LoginUnbound(c) \/ CommitBinding(c)
    \/ \E u \in Account : Unbind(u) \/ DeleteAccount(u)
----------------------------------------------------------------------------
\* A state lets one callback through, unless a second one read it before the
\* first deleted it: the GET and the DELETE are two commands.
StateOnce ==
    \A s \in LinkState \ doubled : \A c, o \in passes[s] : c = o

\* A binding leads to a user that exists: who is deleted takes the rows along,
\* unless a link or a callback was still to bind that user.  With such a row
\* the platform user cannot log in any more.
BoundToLive ==
    \A x \in social : account[x[2]] = "live" \/ x[2] \in outlived

\* No login leaves a user behind that nobody can log in to: a user that was
\* created is bound, also when two first logins of a platform user meet.
NoStrayAccount ==
    \A u \in Account \ (Known \cup unbound) : account[u] = "live" => \E x \in social : x[2] = u

\* States pass once, bindings lead to users, and users can log in.
SocialInv ==
    /\ SocialTypeOK /\ StateOnce /\ BoundToLive /\ NoStrayAccount
=============================================================================
