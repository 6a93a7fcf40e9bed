------------------------------ MODULE Lifespan ------------------------------
(***************************************************************************)
(* The life of one server process: it sorts its enabled plugins by their   *)
(* dependencies, runs their hooks, opens what it works with (Redis, its    *)
(* identifier node, the operation log task, the cache listener), then the  *)
(* lifespans of the plugins in that order, and closes all of it backwards. *)
(* The lifespans of plugins are code outside the repository: each may      *)
(* fail, at its beginning or at its end.                                   *)
(***************************************************************************)
EXTENDS Naturals, Sequences, FiniteSets

CONSTANT Addon \* plugins, installed or named as a dependency

VARIABLES enabled, needs,  \* the enabled plugins, and what each depends on
          ordered,         \* plugins sorted so far
          visiting,        \* the path of the depth-first search
          hooked, hooks,   \* how many had their hooks run, and the lifespans registered
          stage,
          core,            \* what register_init has opened
          opened,          \* lifespans of plugins that are open, in the order they opened
          halted           \* history: "init" or "release" of the node failed

lifeVars == <<enabled, needs, ordered, visiting, hooked, hooks, stage, core, opened, halted>>

Elems(s) == {s[i] : i \in DOMAIN s}
Top(s)   == s[Len(s)]
Pop(s)   == SubSeq(s, 1, Len(s) - 1)
Once(s)  == \A i, j \in DOMAIN s : s[i] = s[j] => i = j

CoreParts == {"redis", "node", "consumer", "listener"}
Stages    == {"sorting", "hooks", "core", "plugins", "serving", "closing", "down", "refused"}

LifespanTypeOK ==
    /\ enabled \subseteq Addon /\ needs \in [Addon -> SUBSET Addon]
    /\ Elems(ordered) \subseteq enabled /\ Once(ordered)
    /\ Elems(visiting) \subseteq enabled \ Elems(ordered) /\ Once(visiting)
    /\ hooked \in 0..Len(ordered) /\ Elems(hooks) \subseteq {ordered[i] : i \in 1..hooked} /\ Once(hooks)
    /\ stage \in Stages /\ core \subseteq CoreParts /\ halted \subseteq {"init", "release"}
    /\ Len(opened) <= Len(hooks) /\ opened = SubSeq(hooks, 1, Len(opened))

LifespanInit ==
    /\ enabled \in SUBSET Addon /\ needs \in [Addon -> SUBSET Addon]
    /\ ordered = <<>> /\ visiting = <<>> /\ hooked = 0 /\ hooks = <<>>
    /\ stage = "sorting" /\ core = {} /\ opened = <<>> /\ halted = {}

\* The search reaches a plugin: from the list, or as a dependency.
Visit(p) ==
    /\ stage = "sorting" /\ p \in enabled \ Elems(ordered) /\ p \notin Elems(visiting)
    /\ visiting # <<>> => p \in needs[Top(visiting)]
    /\ visiting' = Append(visiting, p)
    /\ UNCHANGED <<enabled, needs, ordered, hooked, hooks, stage, core, opened, halted>>

\* All its dependencies are in the list: so is the plugin.
Settle ==
    /\ stage = "sorting" /\ visiting # <<>> /\ needs[Top(visiting)] \subseteq Elems(ordered)
    /\ ordered' = Append(ordered, Top(visiting)) /\ visiting' = Pop(visiting)
    /\ UNCHANGED <<enabled, needs, hooked, hooks, stage, core, opened, halted>>

\* A dependency that is not enabled, or that is being visited: PluginConfigError.
Refuse ==
    /\ stage = "sorting" /\ visiting # <<>>
    /\ \E d \in needs[Top(visiting)] : d \notin enabled \/ d \in Elems(visiting)
    /\ stage' = "refused"
    /\ UNCHANGED <<enabled, needs, ordered, visiting, hooked, hooks, core, opened, halted>>

Sorted ==
    /\ stage = "sorting" /\ visiting = <<>> /\ Elems(ordered) = enabled /\ stage' = "hooks"
    /\ UNCHANGED <<enabled, needs, ordered, visiting, hooked, hooks, core, opened, halted>>

\* The hooks of the next plugin: a lifespan is registered, or there is none,
\* or the module does not import, which is only logged.
RunHooks ==
    /\ stage = "hooks" /\ hooked < Len(ordered) /\ hooked' = hooked + 1
    /\ hooks' \in {hooks, Append(hooks, ordered[hooked + 1])}
    /\ UNCHANGED <<enabled, needs, ordered, visiting, stage, core, opened, halted>>

\* A setup or telemetry hook raises: PluginInjectError, no application.
HooksFail ==
    /\ stage = "hooks" /\ ordered # <<>> /\ stage' = "down"
    /\ UNCHANGED <<enabled, needs, ordered, visiting, hooked, hooks, core, opened, halted>>

BuildApp ==
    /\ stage = "hooks" /\ hooked = Len(ordered) /\ stage' = "core"
    /\ UNCHANGED <<enabled, needs, ordered, visiting, hooked, hooks, core, opened, halted>>

Follows == [redis |-> {}, node |-> {"redis"}, consumer |-> {"redis", "node"},
            listener |-> {"redis", "node", "consumer"}]

OpenCore(c) ==
    /\ stage = "core" /\ core = Follows[c] /\ core' = core \cup {c}
    /\ stage' = IF core' = CoreParts THEN "plugins" ELSE "core"
    /\ UNCHANGED <<enabled, needs, ordered, visiting, hooked, hooks, opened, halted>>

\* The tables, the ping of Redis or the node cannot be had.  The `try' is not
\* reached: Redis stays open when it is the node.
CoreFails ==
    /\ stage = "core" /\ core \subseteq {"redis"} /\ stage' = "down"
    /\ halted' = IF core = {} THEN halted ELSE halted \cup {"init"}
    /\ UNCHANGED <<enabled, needs, ordered, visiting, hooked, hooks, core, opened>>

OpenPlugin ==
    /\ stage = "plugins" /\ Len(opened) < Len(hooks)
    /\ opened' = Append(opened, hooks[Len(opened) + 1])
    /\ UNCHANGED <<enabled, needs, ordered, visiting, hooked, hooks, stage, core, halted>>

OpenFails ==
    /\ stage = "plugins" /\ Len(opened) < Len(hooks) /\ stage' = "closing"
    /\ UNCHANGED <<enabled, needs, ordered, visiting, hooked, hooks, core, opened, halted>>

Serve ==
    /\ stage = "plugins" /\ Len(opened) = Len(hooks) /\ stage' = "serving"
    /\ UNCHANGED <<enabled, needs, ordered, visiting, hooked, hooks, core, opened, halted>>

Stop ==
    /\ stage = "serving" /\ stage' = "closing"
    /\ UNCHANGED <<enabled, needs, ordered, visiting, hooked, hooks, core, opened, halted>>

\* Mutant: a lifespan that raises at its end stops the closing.
CloseOrAbort ==
    /\ stage = "closing" /\ opened # <<>> /\ opened' = Pop(opened) /\ stage' \in {"closing", "down"}
    /\ UNCHANGED <<enabled, needs, ordered, visiting, hooked, hooks, core, halted>>

\* The stack closes its last entry, and goes on whether or not that raises.
ClosePlugin ==
    /\ stage = "closing" /\ opened # <<>> /\ opened' = Pop(opened)
    /\ UNCHANGED <<enabled, needs, ordered, visiting, hooked, hooks, stage, core, halted>>

CloseCore(c) ==
    /\ stage = "closing" /\ opened = <<>> /\ core = Follows[c] \cup {c} /\ core' = Follows[c]
    /\ stage' = IF core' = {} THEN "down" ELSE "closing"
    /\ UNCHANGED <<enabled, needs, ordered, visiting, hooked, hooks, opened, halted>>

\* The key of the node cannot be deleted: what comes after it is not done.
ReleaseFails ==
    /\ stage = "closing" /\ opened = <<>> /\ core = {"redis", "node"}
    /\ stage' = "down" /\ halted' = halted \cup {"release"}
    /\ UNCHANGED <<enabled, needs, ordered, visiting, hooked, hooks, core, opened>>

LifespanNext ==
    \/ (\E p \in Addon : Visit(p)) \/ Settle \/ Refuse \/ Sorted
    \/ RunHooks \/ HooksFail \/ BuildApp
    \/ (\E c \in CoreParts : OpenCore(c) \/ CloseCore(c)) \/ CoreFails \/ ReleaseFails
    \/ OpenPlugin \/ OpenFails \/ Serve \/ Stop \/ ClosePlugin

----------------------------------------------------------------------------
\* A plugin comes after everything it depends on, once the list is complete.
DependenciesSorted ==
    stage \notin {"sorting", "refused"} =>
        \A i \in DOMAIN ordered : needs[ordered[i]] \subseteq {ordered[j] : j \in 1..(i - 1)}

\* The application refuses to start only over a dependency that is not
\* enabled, or a cycle.
RefusedWithCause ==
    stage = "refused" =>
        \/ \E p \in enabled : ~(needs[p] \subseteq enabled)
        \/ \E C \in (SUBSET enabled) \ {{}} : \A p \in C : needs[p] \cap C # {}

\* While the lifespan of a plugin is open, so is all the core, and so are the
\* lifespans it depends on: those that exist.
DependenciesOpen ==
    \A i \in DOMAIN opened :
        /\ core = CoreParts
        /\ needs[opened[i]] \cap Elems(hooks) \subseteq Elems(opened)

\* A process that is down holds nothing, unless the node could not be had or
\* released, where its Redis connections stay open.
ClosedAtEnd ==
    stage = "down" => opened = <<>> /\ (halted = {} => core = {})

\* Dependencies come first, and everything opened is closed.
LifespanInv ==
    /\ LifespanTypeOK /\ DependenciesSorted /\ RefusedWithCause
    /\ DependenciesOpen /\ ClosedAtEnd
=============================================================================
