---------------------------- MODULE MCRagOutbox ----------------------------
(* A small outbox: two poison rows, enough to fill a batch, beside two good *)
(* ones.                                                                    *)
EXTENDS RagOutbox, TLC

CONSTANTS e1, e2, x1, x2

MCEvents == {e1, e2, x1, x2}
MCPoison == {x1, x2}

\* Good events are interchangeable, and so are poison events.
Symmetry == Permutations({e1, e2}) \cup Permutations({x1, x2})
            \cup Permutations(Dispatchers)
=============================================================================
