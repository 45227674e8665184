----------------------------- MODULE MCRunnerDB -----------------------------
(* RunnerDB for TLC.  Run ids are interchangeable and so are lease ids.     *)
EXTENDS RunnerDB, TLC

Symmetry == Permutations(RunIds) \cup Permutations(LeaseIds) \cup Permutations(Fingerprints)
=============================================================================
