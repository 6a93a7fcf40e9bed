--------------------------- MODULE MCRagIndexing ---------------------------
(* Small instances of RagIndexing: one document, or two uploads of the same  *)
(* content.                                                                  *)
EXTENDS RagIndexing, TLC

CONSTANTS d1, d2, k1

MCKeyOf == [d \in Docs |-> k1]

\* All documents have the same content, so they are interchangeable.
Symmetry == Permutations(Workers) \cup Permutations(Requests)
            \cup Permutations(Docs)

\* The liveness run follows behaviours with faults and behaviours with a user
\* retry, not both in one. Of the steps that fairness asks for this cuts off
\* only Age of a document in work, and the worker, being fair too, ends.
OneKindOfTrouble == (\E d \in Docs : version'[d] > 1)
                        => faults' = 0 /\ dispatchFaults' = 0

LiveSpec == Init /\ [][Next /\ OneKindOfTrouble]_vars /\ Fairness
=============================================================================
