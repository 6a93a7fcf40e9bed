------------------------------ MODULE Captchas ------------------------------
(***************************************************************************)
(* One-time codes in Redis: the captcha of a login, under a key of its own *)
(* (its uuid), and the code mailed for a change of the email address,      *)
(* under the address of the client, where the next one replaces it.  The   *)
(* request that presents a code reads, compares and deletes it.            *)
(***************************************************************************)
EXTENDS Naturals, FiniteSets

CONSTANTS Code, LoginCode, \* codes, and those of them that are login captchas
          Slot, SlotOf,    \* Redis keys, and the key each code is stored under
          NoCode, Presenter

ASSUME CaptchasAssumption ==
    /\ IsFiniteSet(Presenter)
    /\ LoginCode \subseteq Code /\ SlotOf \in [Code -> Slot] /\ NoCode \notin Code
    /\ \A c \in LoginCode : \A d \in Code \ {c} : SlotOf[d] # SlotOf[c]

VARIABLES slot,    \* the code under each key
          handed,  \* codes that were handed out
          present, \* of each request, the code it has compared and has yet to delete
          used,    \* how often each code was accepted
          outdated, \* history: codes that expired or were replaced
          doubled, \* history: codes two requests had compared at once
          swept    \* history: codes stored while an earlier one of that key was to be deleted

codeVars == <<slot, handed, present, used, outdated, doubled, swept>>

CaptchasTypeOK ==
    /\ slot \in [Slot -> Code \cup {NoCode}] /\ present \in [Presenter -> Code \cup {NoCode}]
    /\ \A s \in Slot : slot[s] # NoCode => SlotOf[slot[s]] = s
    /\ handed \subseteq Code /\ outdated \subseteq handed /\ doubled \subseteq handed /\ swept \subseteq handed
    /\ used \in [Code -> 0..Cardinality(Presenter)]
    /\ \A c \in Code \ handed : used[c] = 0

CaptchasInit ==
    /\ slot = [s \in Slot |-> NoCode] /\ present = [r \in Presenter |-> NoCode]
    /\ used = [c \in Code |-> 0]
    /\ handed = {} /\ outdated = {} /\ doubled = {} /\ swept = {}

Dropping(s) == {r \in Presenter : present[r] # NoCode /\ SlotOf[present[r]] = s}

\* SET with a time to live.
StoreCode(c) ==
    LET s == SlotOf[c] IN
    /\ c \notin handed /\ handed' = handed \cup {c}
    /\ slot' = [slot EXCEPT ![s] = c]
    /\ outdated' = outdated \cup ({slot[s]} \ {NoCode})
    /\ swept' = IF Dropping(s) = {} THEN swept ELSE swept \cup {c}
    /\ UNCHANGED <<present, used, doubled>>

GetCaptcha(c)       == c \in LoginCode /\ StoreCode(c)
SendEmailCaptcha(c) == c \in Code \ LoginCode /\ StoreCode(c)

CodeExpires(s) ==
    /\ slot[s] # NoCode /\ outdated' = outdated \cup {slot[s]}
    /\ slot' = [slot EXCEPT ![s] = NoCode]
    /\ UNCHANGED <<handed, present, used, doubled, swept>>

\* GET, and the comparison; a wrong or late answer changes nothing.
PresentCode(r, c) ==
    /\ present[r] = NoCode /\ c \in handed /\ slot[SlotOf[c]] = c
    /\ present' = [present EXCEPT ![r] = c]
    /\ doubled' = IF \E q \in Presenter : present[q] = c THEN doubled \cup {c} ELSE doubled
    /\ UNCHANGED <<slot, handed, used, outdated, swept>>

\* Mutant: the code is left to expire.
DropCodeNot(r) ==
    LET c == present[r] IN
    /\ c # NoCode /\ used[c] < Cardinality(Presenter)
    /\ present' = [present EXCEPT ![r] = NoCode] /\ used' = [used EXCEPT ![c] = @ + 1]
    /\ UNCHANGED <<slot, handed, outdated, doubled, swept>>

\* DEL of the key, whatever is under it by now; then the password is looked
\* at, or the address written.
DropCode(r) ==
    LET c == present[r] IN
    /\ c # NoCode /\ slot' = [slot EXCEPT ![SlotOf[c]] = NoCode]
    /\ present' = [present EXCEPT ![r] = NoCode] /\ used' = [used EXCEPT ![c] = @ + 1]
    /\ UNCHANGED <<handed, outdated, doubled, swept>>

\* The address is taken, or the request fails: the code stays.
GiveUp(r) ==
    /\ present[r] \in Code \ LoginCode /\ present' = [present EXCEPT ![r] = NoCode]
    /\ UNCHANGED <<slot, handed, used, outdated, doubled, swept>>

CaptchasNext ==
    \/ \E c \in Code : GetCaptcha(c) \/ SendEmailCaptcha(c)
    \/ \E s \in Slot : CodeExpires(s)
    \/ \E r \in Presenter : DropCode(r) \/ GiveUp(r) \/ \E c \in Code : PresentCode(r, c)
----------------------------------------------------------------------------
\* A code opens one login, or changes one address, unless two requests had
\* compared it before either deleted it.
CodeUsedOnce == \A c \in Code \ doubled : used[c] <= 1

\* A code that was handed out and neither used, replaced nor expired is
\* accepted, whatever wrong answers came before; except a mailed one that was
\* stored while a request was about to delete the code before it.
CodeStaysGood ==
    \A c \in handed \ (outdated \cup swept) : used[c] = 0 => slot[SlotOf[c]] = c

\* A code is good until it is used, and once.
CaptchasInv ==
    /\ CaptchasTypeOK /\ CodeUsedOnce /\ CodeStaysGood
=============================================================================
