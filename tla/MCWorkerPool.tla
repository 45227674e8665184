---------------------------- MODULE MCWorkerPool ----------------------------
(* WorkerPool for TLC.                                                       *)
EXTENDS WorkerPool

CONSTANTS fa, fb, b1

\* All releases but b1 share a runtime image and a profile.
MCFlavorOf == [rel \in Releases |-> IF rel = b1 THEN fb ELSE fa]

Symmetry ==
    Permutations(Workers) \cup Permutations(Callers) \cup Permutations(Tenants)
        \cup Permutations(Releases \ {b1})
=============================================================================
