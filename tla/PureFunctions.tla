---------------------------- MODULE PureFunctions ----------------------------
(* The algorithms that keep no state, each step the choice of one input.     *)
EXTENDS TextPipeline, DataFilter

PureInit == TextInit /\ FilterInit
PureNext == \/ TextNext /\ UNCHANGED asked
            \/ FilterNext /\ UNCHANGED input
PureSpec == PureInit /\ [][PureNext]_<<input, asked>>

\* The algorithms give what their definitions promise on every bounded input:
\* chunks, sections, vectors and contexts keep the text, and OR rules widen what
\* a user sees where AND rules narrow it.
PureInv == TextInv /\ FilterInv
=============================================================================
