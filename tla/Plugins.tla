------------------------------ MODULE Plugins ------------------------------
(***************************************************************************)
(* Installing, removing and switching plugins: directories on disk, their  *)
(* lines in .env, their entries in Redis and the `changed' mark that asks  *)
(* for a restart.  Installations take a distributed lock (utils/locks.py); *)
(* removals, switches, repairs and starts of the server do not.            *)
(***************************************************************************)
EXTENDS Naturals, FiniteSets

CONSTANTS Plugin, Required, \* PLUGIN_REQUIRED
          PluginRequest, MaxRequests, \* bound: requests begun
          MaxLockTrouble              \* bound: locks that expire, waits that end

ASSUME PluginsAssumption ==
    /\ Required \subseteq Plugin /\ {MaxRequests, MaxLockTrouble} \subseteq Nat

VARIABLES dir,      \* plugins in PLUGIN_DIR
          env,      \* plugins whose .env.example is in .env
          info,     \* fba:plugin:<name>: "none", "on" or "off"
          changed,  \* fba:plugin:changed
          holder,   \* the request the Redis lock belongs to (at most one)
          lockFile, \* RELOAD_LOCK_FILE, which makes the file watcher wait
          preq,     \* the step of each request, and what it has read
          served,   \* what the running server has loaded: directories and their states
          begun, troubles,
          shared,   \* history: two requests were in the section of the lock at once
          hurried,  \* history: plugins changed while a server was starting, not completely installed,
                    \* or repaired over a state that was set meanwhile
          revived   \* history: plugins removed while a switch or a repair of theirs was in flight

pluginVars == <<dir, env, info, changed, holder, lockFile, preq, served,
                begun, troubles, shared, hurried, revived>>

Section   == {"clone", "readEnv", "writeEnv", "mark", "unlink"}
Removing  == {"remove", "forget", "markRemoved"}
Switching == {"switch", "markSwitched"}
PluginStep == {"idle", "wait"} \cup Section \cup {"unlock"} \cup Removing \cup Switching \cup {"repair", "load", "store", "unmark"}
PluginIdle == [pc |-> "idle", plugin |-> "none", to |-> "none", env |-> {}]

PluginsTypeOK ==
    /\ dir \subseteq Plugin /\ Required \subseteq dir /\ env \subseteq Plugin
    /\ info \in [Plugin -> {"none", "on", "off"}] /\ changed \in BOOLEAN
    /\ holder \subseteq {r \in PluginRequest : preq[r].pc \in Section \cup {"unlock"}}
    /\ Cardinality(holder) <= 1 /\ lockFile \in BOOLEAN
    /\ \A r \in PluginRequest : preq[r].pc \in PluginStep
    /\ served \in [Plugin -> {"none", "on", "off"}]
    /\ begun \in 0..MaxRequests /\ troubles \in 0..MaxLockTrouble
    /\ shared \in BOOLEAN /\ hurried \subseteq Plugin /\ revived \subseteq Plugin

Installed == [p \in Plugin |-> IF p \in Required THEN "on" ELSE "none"]

PluginsInit ==
    /\ dir = Required /\ env = Required /\ info = Installed /\ served = Installed
    /\ changed = FALSE /\ holder = {} /\ lockFile = FALSE
    /\ preq = [r \in PluginRequest |-> PluginIdle]
    /\ begun = 0 /\ troubles = 0 /\ shared = FALSE /\ hurried = {} /\ revived = {}

Inside == {r \in PluginRequest : preq[r].pc \in Section}
Starting == \E r \in PluginRequest : preq[r].pc \in {"load", "store", "unmark"}
At(r, pc) == preq[r].pc = pc
Go(r, pc) == preq' = [preq EXCEPT ![r].pc = pc]
Subject(r) == preq[r].plugin

BeginPlugin(r, pc, p, to) ==
    /\ At(r, "idle") /\ begun < MaxRequests /\ begun' = begun + 1
    /\ preq' = [preq EXCEPT ![r] = [pc |-> pc, plugin |-> p, to |-> to, env |-> {}]]
Histories == <<hurried, revived>>
Hurry(p) == hurried' = IF Starting THEN hurried \cup {p} ELSE hurried
----------------------------------------------------------------------------
(* acquire_distributed_reload_lock *)

\* Mutant: nobody asks whether the lock is taken.
EnterLockBlind(r) ==
    /\ At(r, "wait") /\ Go(r, "clone")
    /\ holder' = {r} /\ UNCHANGED <<troubles, shared>>
    /\ lockFile' = TRUE
    /\ UNCHANGED <<dir, env, info, changed, served, begun, Histories>>

\* lock.acquire waits for the lock; after blocking_timeout it returns False,
\* which nobody looks at.  Then the file is touched.
EnterLock(r) ==
    /\ At(r, "wait") /\ Go(r, "clone")
    /\ \/ holder = {} /\ holder' = {r} /\ UNCHANGED troubles
       \/ /\ holder # {} /\ troubles < MaxLockTrouble /\ troubles' = troubles + 1
          /\ UNCHANGED holder
    /\ lockFile' = TRUE /\ shared' = (shared \/ Inside # {})
    /\ UNCHANGED <<dir, env, info, changed, served, begun, Histories>>

\* The lock lives 300 seconds, however long pip takes.
LockExpires ==
    /\ holder # {} /\ troubles < MaxLockTrouble
    /\ holder' = {} /\ troubles' = troubles + 1
    /\ UNCHANGED <<dir, env, info, changed, lockFile, preq, served, begun, shared, Histories>>

\* finally: the file goes, whoever touched it; a lock still owned is released.
Unlink(r) ==
    /\ At(r, "unlink") /\ lockFile' = FALSE /\ Go(r, "unlock")
    /\ UNCHANGED <<dir, env, info, changed, holder, served, begun, troubles, shared, Histories>>

Unlock(r) ==
    /\ At(r, "unlock") /\ holder' = holder \ {r} /\ Go(r, "idle")
    /\ UNCHANGED <<dir, env, info, changed, lockFile, served, begun, troubles, shared, Histories>>
----------------------------------------------------------------------------
(* install_zip_plugin, install_git_plugin *)

\* The directory is looked for before the lock (git) or under it (zip).
InstallPlugin(r, p) ==
    /\ p \notin dir /\ BeginPlugin(r, "wait", p, "none")
    /\ UNCHANGED <<dir, env, info, changed, holder, lockFile, served, troubles, shared, Histories>>

\* Cloning into a directory that exists fails, as does the check of a zip.
Clone(r) ==
    LET p == Subject(r) IN
    /\ At(r, "clone")
    /\ \/ p \notin dir /\ dir' = dir \cup {p} /\ Hurry(p) /\ Go(r, "readEnv")
       \/ UNCHANGED <<dir, hurried>> /\ Go(r, "unlink")
    /\ UNCHANGED <<env, info, changed, holder, lockFile, served, begun, troubles, shared, revived>>

\* _append_env_example: .env is read, and written with the addition.
ReadEnv(r) ==
    /\ At(r, "readEnv")
    /\ preq' = [preq EXCEPT ![r].pc = "writeEnv", ![r].env = env]
    /\ UNCHANGED <<dir, env, info, changed, holder, lockFile, served, begun, troubles, shared, Histories>>

WriteEnv(r) ==
    /\ At(r, "writeEnv") /\ Go(r, "mark")
    /\ env' = preq[r].env \cup {Subject(r)}
    /\ UNCHANGED <<dir, info, changed, holder, lockFile, served, begun, troubles, shared, Histories>>

\* install_requirements, then the mark.
MarkInstalled(r) ==
    /\ At(r, "mark") /\ Go(r, "unlink") /\ changed' = TRUE
    /\ UNCHANGED <<dir, env, info, holder, lockFile, served, begun, troubles, shared, Histories>>

\* Without its requirements the plugin stays on disk and nothing is marked.
RequirementsFail(r) ==
    /\ At(r, "mark") /\ Go(r, "unlink")
    /\ hurried' = hurried \cup {Subject(r)}
    /\ UNCHANGED <<dir, env, info, changed, holder, lockFile, served, begun, troubles, shared, revived>>
----------------------------------------------------------------------------
(* PluginService.uninstall and update_status; PluginStatusChecker *)

Uninstall(r, p) ==
    /\ p \in dir \ Required /\ BeginPlugin(r, "remove", p, "none")
    /\ UNCHANGED <<dir, env, info, changed, holder, lockFile, served, troubles, shared, Histories>>

\* Requirements, backup, and the directory; the lines in .env stay.
RemovePlugin(r) ==
    /\ At(r, "remove") /\ Go(r, "forget")
    /\ dir' = dir \ {Subject(r)} /\ Hurry(Subject(r))
    /\ UNCHANGED <<env, info, changed, holder, lockFile, served, begun, troubles, shared, revived>>

ForgetPlugin(r) ==
    /\ At(r, "forget") /\ Go(r, "markRemoved")
    /\ info' = [info EXCEPT ![Subject(r)] = "none"]
    /\ revived' = revived \cup {p \in {Subject(r)} : \E q \in PluginRequest : At(q, "switch") /\ Subject(q) = p}
    /\ Hurry(Subject(r))
    /\ UNCHANGED <<dir, env, changed, holder, lockFile, served, begun, troubles, shared>>

MarkPlugin(r) ==
    /\ preq[r].pc \in {"markRemoved", "markSwitched"} /\ Go(r, "idle")
    /\ changed' = TRUE
    /\ UNCHANGED <<dir, env, info, holder, lockFile, served, begun, troubles, shared, Histories>>

\* update_status: GET of the entry, SET with the other state.
SwitchPlugin(r, p) ==
    /\ info[p] # "none"
    /\ BeginPlugin(r, "switch", p, IF info[p] = "on" THEN "off" ELSE "on")
    /\ UNCHANGED <<dir, env, info, changed, holder, lockFile, served, troubles, shared, Histories>>

StoreSwitch(r) ==
    /\ At(r, "switch") /\ Go(r, "markSwitched")
    /\ info' = [info EXCEPT ![Subject(r)] = preq[r].to]
    /\ Hurry(Subject(r))
    /\ UNCHANGED <<dir, env, changed, holder, lockFile, served, begun, troubles, shared, revived>>

\* A request to a plugin without an entry repairs it: plugin.toml is read,
\* and the entry is set to enabled.
UsePlugin(r, p) ==
    /\ info[p] = "none" /\ p \in dir /\ served[p] = "on"
    /\ BeginPlugin(r, "repair", p, "none")
    /\ UNCHANGED <<dir, env, info, changed, holder, lockFile, served, troubles, shared, Histories>>

RepairEntry(r) ==
    /\ At(r, "repair") /\ Go(r, "idle")
    /\ info' = [info EXCEPT ![Subject(r)] = "on"]
    /\ revived' = revived \cup ({Subject(r)} \ dir)
    /\ hurried' = IF info[Subject(r)] = "none" THEN hurried ELSE hurried \cup {Subject(r)}
    /\ UNCHANGED <<dir, env, changed, holder, lockFile, served, begun, troubles, shared>>
----------------------------------------------------------------------------
(* A server starts: get_enabled_plugins and parse_plugin_config *)

StartServer(r) ==
    /\ ~Starting /\ BeginPlugin(r, "load", "none", "none")
    /\ UNCHANGED <<dir, env, info, changed, holder, lockFile, served, troubles, shared, Histories>>

\* The state of a plugin without an entry is enabled.
Current(p) == IF p \notin dir THEN "none" ELSE IF info[p] = "none" THEN "on" ELSE info[p]

LoadPlugins(r) ==
    /\ At(r, "load") /\ Go(r, "store")
    /\ served' = [p \in Plugin |-> Current(p)]
    /\ UNCHANGED <<dir, env, info, changed, holder, lockFile, begun, troubles, shared, Histories>>

\* Entries of unknown plugins are deleted, the others are written anew.
StoreEntries(r) ==
    /\ At(r, "store") /\ Go(r, "unmark") /\ info' = served
    /\ UNCHANGED <<dir, env, changed, holder, lockFile, served, begun, troubles, shared, Histories>>

ClearMark(r) ==
    /\ At(r, "unmark") /\ Go(r, "idle") /\ changed' = FALSE
    /\ UNCHANGED <<dir, env, info, holder, lockFile, served, begun, troubles, shared, Histories>>

PluginsNext ==
    \/ \E r \in PluginRequest :
        \/ \E p \in Plugin : InstallPlugin(r, p) \/ Uninstall(r, p) \/ SwitchPlugin(r, p) \/ UsePlugin(r, p)
        \/ EnterLock(r) \/ Unlink(r) \/ Unlock(r) \/ Clone(r) \/ ReadEnv(r) \/ WriteEnv(r)
        \/ MarkInstalled(r) \/ RequirementsFail(r)
        \/ RemovePlugin(r) \/ ForgetPlugin(r) \/ MarkPlugin(r) \/ StoreSwitch(r) \/ RepairEntry(r)
        \/ StartServer(r) \/ LoadPlugins(r) \/ StoreEntries(r) \/ ClearMark(r)
    \/ LockExpires
----------------------------------------------------------------------------
AtWork(p, steps) == \E r \in PluginRequest : Subject(r) = p /\ preq[r].pc \in steps

\* Only one installer is in the section of the lock, until a lock has expired
\* or a request has gone on without it.
ApartUnlessTrouble == Cardinality(Inside) <= 1 \/ troubles > 0

\* While somebody installs, the file that holds off the file watcher is there,
\* unless two installers have shared the section: the first one to leave
\* removes the file of both.
WatcherHeldOff == Inside # {} => lockFile \/ shared

\* The settings of every installed plugin are in .env, unless two installers
\* have shared the section: then one may write what it read before the other.
EnvComplete == \A p \in dir \ env : shared \/ AtWork(p, {"readEnv", "writeEnv"})

\* Whatever the order of installations, removals, switches and starts, a
\* server that does not serve what is installed and enabled has the mark that
\* asks for a restart; except for plugins that changed under a starting
\* server, which clears the mark at the end, and for one that a repair turned
\* on again over the switch that had turned it off.
ChangeAnnounced ==
    \A p \in Plugin \ hurried :
        served[p] # Current(p) =>
            changed \/ Starting \/ AtWork(p, Section \cup Removing \cup Switching)

\* An uninstalled plugin has no entry, unless it was removed while a switch or
\* a repair was about to write it, or a server was starting.
NoGhostEntry ==
    \A p \in Plugin \ (dir \cup hurried \cup revived) : info[p] # "none" => AtWork(p, {"forget"})

\* Directory, entries, settings and marks of plugins agree.
PluginsInv ==
    /\ PluginsTypeOK /\ ApartUnlessTrouble /\ WatcherHeldOff /\ EnvComplete
    /\ ChangeAnnounced /\ NoGhostEntry
=============================================================================
