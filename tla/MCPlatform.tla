----------------------------- MODULE MCPlatform -----------------------------
(* Components that share no state, checked side by side: one of them moves   *)
(* in each behaviour, the others stay as they start.                         *)
EXTENDS Snowflake, Captchas, TaskResults, Lifespan, PureFunctions, UserAdmin,
        Limiter, RagRetrieval, TLC

CONSTANTS lc1, em1, em2, uu1, ip1, t1, x1, x2, x3, b1, b2, na1, na2, k1, k2, f1, f2, ch1, ch2, sec

MCSlotOf    == lc1 :> uu1 @@ em1 :> ip1 @@ em2 :> ip1
MCTaskOf    == x1 :> t1 @@ x2 :> t1 @@ x3 :> t1
MCExcerpts  == {<<"latin", "latin">>, <<"chinese">>, <<"latin", "blank", "blank", "blank", "blank", "chinese">>}
MCFirstName == b1 :> na1 @@ b2 :> na2
MCBaseOf    == f1 :> k1 @@ f2 :> k2
MCParentOf  == ch1 :> sec @@ ch2 :> sec

VARIABLE part
AllVars == <<part, snowVars, codeVars, resultVars, lifeVars, input, asked, adminVars, limiterVars, ragQVars>>

Init == /\ SnowInit /\ CaptchasInit /\ ResultsInit /\ LifespanInit /\ TextInit /\ FilterInit
        /\ UserAdminInit /\ LimiterInit /\ RetrievalInit
        /\ part \in {"snowflake", "captchas", "results", "lifespan", "text", "filter", "users",
                     "limiter", "retrieval"}
        /\ part # "lifespan" => enabled = {} /\ needs = [p \in Addon |-> {}]

Only(p, others) == part = p /\ UNCHANGED <<part, others>>

Next ==
    \/ Only("snowflake", <<codeVars, resultVars, lifeVars, input, asked, adminVars, limiterVars, ragQVars>>)
       /\ SnowNext
    \/ Only("captchas", <<snowVars, resultVars, lifeVars, input, asked, adminVars, limiterVars, ragQVars>>)
       /\ CaptchasNext
    \/ Only("results", <<snowVars, codeVars, lifeVars, input, asked, adminVars, limiterVars, ragQVars>>)
       /\ ResultsNext
    \/ Only("lifespan", <<snowVars, codeVars, resultVars, input, asked, adminVars, limiterVars, ragQVars>>)
       /\ LifespanNext
    \/ Only("text", <<snowVars, codeVars, resultVars, lifeVars, asked, adminVars, limiterVars, ragQVars>>)
       /\ TextNext
    \/ Only("filter", <<snowVars, codeVars, resultVars, lifeVars, input, adminVars, limiterVars, ragQVars>>)
       /\ FilterNext
    \/ Only("users", <<snowVars, codeVars, resultVars, lifeVars, input, asked, limiterVars, ragQVars>>)
       /\ UserAdminNext
    \/ Only("limiter", <<snowVars, codeVars, resultVars, lifeVars, input, asked, adminVars, ragQVars>>)
       /\ LimiterNext
    \/ Only("retrieval", <<snowVars, codeVars, resultVars, lifeVars, input, asked, adminVars, limiterVars>>)
       /\ RetrievalNext

Spec == Init /\ [][Next]_AllVars
=============================================================================
