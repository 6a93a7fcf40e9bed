------------------------------ MODULE Presence ------------------------------
(***************************************************************************)
(* Which sessions are online (common/socketio/server.py): three kinds of   *)
(* keys in Redis that connecting and disconnecting sockets change one by   *)
(* one, while other sockets of the same session come and go.               *)
(***************************************************************************)
EXTENDS FiniteSets

CONSTANTS Socket,      \* the sid of each connection
          Device,      \* session_uuid
          DeviceOf     \* the session a socket belongs to

ASSUME PresenceAssumption == DeviceOf \in [Socket -> Device]

VARIABLES socket,   \* the step of each socket
          sidKey,   \* token_online:sid:<sid> exists
          members,  \* token_online:session:<uuid>
          online,   \* token_online
          met       \* history: sessions with a connect and a disconnect under way at once

presVars == <<socket, sidKey, members, online, met>>

Connecting    == {"setSid", "addMember", "addOnline"}
Disconnecting == {"getSid", "dropSid", "dropMember", "count", "dropKey", "dropOnline"}

PresenceTypeOK ==
    /\ socket \in [Socket -> {"new", "up", "gone"} \cup Connecting \cup Disconnecting]
    /\ sidKey \subseteq Socket
    /\ members \in [Device -> SUBSET Socket]
    /\ \A d \in Device : \A s \in members[d] : DeviceOf[s] = d
    /\ online \subseteq Device /\ met \subseteq Device

PresenceInit ==
    /\ socket = [s \in Socket |-> "new"]
    /\ sidKey = {} /\ members = [d \in Device |-> {}] /\ online = {} /\ met = {}

SocketStep(s, from, to) ==
    /\ socket[s] = from
    /\ socket' = [socket EXCEPT ![s] = to]
    /\ met' = met \cup {d \in Device :
                 \E q, p \in Socket : /\ DeviceOf[q] = d /\ DeviceOf[p] = d
                                      /\ socket'[q] \in Connecting
                                      /\ socket'[p] \in Disconnecting}

\* connect: authentication, then three writes.
Authenticated(s) == SocketStep(s, "new", "setSid") /\ UNCHANGED <<sidKey, members, online>>
Refused(s)       == SocketStep(s, "new", "gone") /\ UNCHANGED <<sidKey, members, online>>
SetSid(s) == SocketStep(s, "setSid", "addMember") /\ sidKey' = sidKey \cup {s} /\ UNCHANGED <<members, online>>
AddMember(s) ==
    /\ SocketStep(s, "addMember", "addOnline")
    /\ members' = [members EXCEPT ![DeviceOf[s]] = @ \cup {s}]
    /\ UNCHANGED <<sidKey, online>>
AddOnline(s) ==
    /\ SocketStep(s, "addOnline", "up")
    /\ online' = online \cup {DeviceOf[s]}
    /\ UNCHANGED <<sidKey, members>>
Connect(s) == Authenticated(s) \/ Refused(s) \/ SetSid(s) \/ AddMember(s) \/ AddOnline(s)

\* disconnect: only a socket that was registered is taken off.
Disconnect(s) == SocketStep(s, "up", "getSid") /\ UNCHANGED <<sidKey, members, online>>
GetSid(s) ==
    /\ SocketStep(s, "getSid", IF s \in sidKey THEN "dropSid" ELSE "gone")
    /\ UNCHANGED <<sidKey, members, online>>
\* Mutant: members are counted while the socket still is one of them.
CountTooSoon(s) ==
    /\ SocketStep(s, "dropSid", IF members[DeviceOf[s]] = {s} THEN "dropMember" ELSE "gone")
    /\ sidKey' = sidKey \ {s}
    /\ members' = [members EXCEPT ![DeviceOf[s]] = IF @ = {s} THEN @ ELSE @ \ {s}]
    /\ UNCHANGED online

DropSid(s) == SocketStep(s, "dropSid", "dropMember") /\ sidKey' = sidKey \ {s} /\ UNCHANGED <<members, online>>
DropMember(s) ==
    /\ SocketStep(s, "dropMember", "count")
    /\ members' = [members EXCEPT ![DeviceOf[s]] = @ \ {s}]
    /\ UNCHANGED <<sidKey, online>>

\* SCARD: the last socket of the session takes the session off as well.
Count(s) ==
    /\ SocketStep(s, "count", IF members[DeviceOf[s]] = {} THEN "dropKey" ELSE "gone")
    /\ UNCHANGED <<sidKey, members, online>>

DropKey(s) ==
    /\ SocketStep(s, "dropKey", "dropOnline")
    /\ members' = [members EXCEPT ![DeviceOf[s]] = {}]
    /\ UNCHANGED <<sidKey, online>>
DropOnline(s) ==
    /\ SocketStep(s, "dropOnline", "gone")
    /\ online' = online \ {DeviceOf[s]}
    /\ UNCHANGED <<sidKey, members>>
Leave(s) == Disconnect(s) \/ GetSid(s) \/ DropSid(s) \/ DropMember(s) \/ Count(s) \/ DropKey(s) \/ DropOnline(s)

PresenceNext == \E s \in Socket : Connect(s) \/ Leave(s)
----------------------------------------------------------------------------
Settled(d) == \A s \in Socket : DeviceOf[s] = d => socket[s] \in {"new", "up", "gone"}

\* However connects and disconnects of a session interleave, it does not stay
\* online when its last socket has left: nothing else would ever remove it.
NoGhostOnline ==
    \A d \in online : Settled(d) => \E s \in Socket : DeviceOf[s] = d /\ socket[s] = "up"

\* A session with a socket is online, unless one of its connects met one of
\* its disconnects: then the disconnect that counted no member may remove
\* what the connect has just written.
OnlineUnlessMet ==
    \A s \in Socket : socket[s] = "up" => DeviceOf[s] \in online \cup met

\* The set of online sessions follows the sockets.
PresenceInv ==
    /\ PresenceTypeOK /\ NoGhostOnline /\ OnlineUnlessMet
=============================================================================
