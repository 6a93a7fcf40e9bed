-------------------------- MODULE MCAdministration --------------------------
(* Components that share no state, checked side by side: one of them moves   *)
(* in each behaviour, the others stay as they start.                         *)
EXTENDS Permissions, Departments, SocialLogin, Dictionary, Plugins, Generator, TLC

CONSTANTS u1, u2, ro1, ro2, me1, sc1, ru1, ac1, sid1, ty1, co1

MCStartLinks == {<<u1, ro1>>, <<u2, ro2>>, <<ro1, me1>>, <<ro1, sc1>>, <<ro2, sc1>>, <<sc1, ru1>>}
MCMailOf     == ac1 :> sid1
MCStartCode  == ty1 :> co1

VARIABLE part
AllVars == <<part, permVars, deptVars, socialVars, dictVars, pluginVars, genVars>>

Init == /\ PermInit /\ DeptInit /\ SocialInit /\ DictInit /\ PluginsInit /\ GenInit
        /\ part \in {"rights", "departments", "social", "dictionary", "plugins", "generator"}

Only(p, others) == part = p /\ UNCHANGED <<part, others>>

Next ==
    \/ Only("rights", <<deptVars, socialVars, dictVars, pluginVars, genVars>>)
       /\ PermNext
    \/ Only("departments", <<permVars, socialVars, dictVars, pluginVars, genVars>>)
       /\ DeptNext
    \/ Only("social", <<permVars, deptVars, dictVars, pluginVars, genVars>>)
       /\ SocialNext
    \/ Only("dictionary", <<permVars, deptVars, socialVars, pluginVars, genVars>>)
       /\ DictNext
    \/ Only("plugins", <<permVars, deptVars, socialVars, dictVars, genVars>>)
       /\ PluginsNext
    \/ Only("generator", <<permVars, deptVars, socialVars, dictVars, pluginVars>>)
       /\ GenNext

Spec == Init /\ [][Next]_AllVars
=============================================================================
