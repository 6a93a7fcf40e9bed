----------------------------- MODULE MCServices -----------------------------
(* Components that share no state, checked side by side: one of them moves   *)
(* in each behaviour, the others stay as they start.                         *)
EXTENDS Cache, OperaLog, Presence, PasswordSecurity, TLC

CONSTANTS n1, n2, c1, c2, s1, s2, s3, s4, d1, d2

MCNodeOf   == c1 :> n1 @@ c2 :> n2
MCDeviceOf == s1 :> d1 @@ s2 :> d1 @@ s3 :> d1 @@ s4 :> d2

VARIABLE part
AllVars == <<part, cacheVars, logVars, presVars, pwVars>>

Init == /\ CacheInit /\ LogInit /\ PresenceInit /\ PasswordInit
        /\ part \in {"cache", "log", "presence", "password"}

Only(p, others) == part = p /\ UNCHANGED <<part, others>>

Next ==
    \/ Only("cache", <<logVars, presVars, pwVars>>)
       /\ CacheNext
    \/ Only("log", <<cacheVars, presVars, pwVars>>)
       /\ LogNext
    \/ Only("presence", <<cacheVars, logVars, pwVars>>)
       /\ PresenceNext
    \/ Only("password", <<cacheVars, logVars, presVars>>)
       /\ PasswordNext

Spec == Init /\ [][Next]_AllVars /\ CacheFair /\ LogFair
=============================================================================
