--------------------------- MODULE MCRunnerService --------------------------
(* RunnerService for TLC.                                                    *)
EXTENDS RunnerService, TLC

CONSTANTS a1, fa

MCFlavorOf == [rel \in Releases |-> fa]

\* A success, and a failure that is worth a retry and costs the worker.
MCRunResults ==
    {[status |-> "SUCCEEDED", retryable |-> FALSE, error_code |-> "NONE"],
     [status |-> "FAILED", retryable |-> TRUE, error_code |-> "OTHER"]}

Symmetry == Permutations(Workers) \cup Permutations(Callers) \cup Permutations(RunIds)
                \cup Permutations(InvocationIds) \cup Permutations(Keys) \cup Permutations(LeaseIds)
                \cup Permutations(Releases)

\* Bound of service_races and service_liveness: no renew_lease is between its two halves and
\* every lease stays.  A lease is only looked at before an invoke or a cancel starts; db_tables
\* renews, releases and purges leases.
LeasesKept == renewing = {} /\ \A l \in leased : DB!Exists(leases[l])
=============================================================================
