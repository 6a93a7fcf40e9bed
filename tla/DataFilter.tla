----------------------------- MODULE DataFilter -----------------------------
(***************************************************************************)
(* The condition a user's data rules put on the rows of a table, as        *)
(* filter_data_permission combines it.  A role is enabled or not, filters  *)
(* or not, and has scopes; an enabled scope gives its rules.  A rule       *)
(* applies to the table, or to none of its columns, is joined by AND or by *)
(* OR, and holds for the row that is looked at, or does not.               *)
(***************************************************************************)
EXTENDS Naturals, FiniteSets

CONSTANTS DataRule, FilterRole, NoFilter

VARIABLE asked

RuleForms == [applies : BOOLEAN, join : {"AND", "OR"}, holds : BOOLEAN]
RoleForms == [status : BOOLEAN, filters : BOOLEAN, rules : SUBSET DataRule]

Questions == [superuser : BOOLEAN, roles : [FilterRole -> RoleForms], rule : [DataRule -> RuleForms]]

\* No filter: a superuser, or an enabled role that does not filter.
Open(q) == q.superuser \/ \E r \in FilterRole : q.roles[r].status /\ ~q.roles[r].filters

RulesFor(q) == UNION {q.roles[r].rules : r \in {s \in FilterRole : q.roles[s].status}}

Joined(q, rules, op) == {d \in rules : q.rule[d].applies /\ q.rule[d].join = op}
HoldsFor(q, d) == q.rule[d].holds

\* Every AND rule holds, or some OR rule does; the table is open when none
\* of the rules is about it.
Combine(q, rules) ==
    LET all == Joined(q, rules, "AND") any == Joined(q, rules, "OR") IN
    \/ all \cup any = {}
    \/ all # {} /\ \A d \in all : HoldsFor(q, d)
    \/ \E d \in any : HoldsFor(q, d)

Visible(q) == Open(q) \/ (RulesFor(q) # {} /\ Combine(q, RulesFor(q)))

FilterInit == asked = NoFilter
FilterNext == asked = NoFilter /\ asked' \in Questions

----------------------------------------------------------------------------
\* The user without one of his rules.
Without(q, d) == [q EXCEPT !.roles = [r \in FilterRole |-> [q.roles[r] EXCEPT !.rules = @ \ {d}]]]

Restricted(q) == Joined(q, RulesFor(q), "AND") \cup Joined(q, RulesFor(q), "OR")

\* A further OR rule shows a user more rows, never fewer, once a rule
\* restricts him.
OrRulesWiden ==
    asked # NoFilter =>
        \A d \in Joined(asked, RulesFor(asked), "OR") :
            Restricted(Without(asked, d)) # {} /\ Visible(Without(asked, d)) => Visible(asked)

\* A further AND rule shows him fewer rows, never more, once he has an AND
\* rule.  (The first one beside OR rules does widen: the two kinds are joined
\* by OR; and so does a rule of another table, for one who had none.)
AndRulesNarrow ==
    asked # NoFilter =>
        \A d \in Joined(asked, RulesFor(asked), "AND") :
            Joined(Without(asked, d), RulesFor(Without(asked, d)), "AND") # {} /\ Visible(asked)
                => Visible(Without(asked, d))

\* Rules do what their kind says.
FilterInv ==
    /\ OrRulesWiden /\ AndRulesNarrow
=============================================================================
