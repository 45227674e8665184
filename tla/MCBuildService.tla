--------------------------- MODULE MCBuildService ---------------------------
(* BuildService for TLC.  Three locks on one platform, sa within sab and    *)
(* sb within sab, and one lock like sa on another platform.                 *)
EXTENDS BuildService, TLC

CONSTANTS sa, sb, sab, other

MCPackagesOf == [s \in Specs |-> CASE s = sb -> {"b"} [] s = sab -> {"a", "b"} [] OTHER -> {"a"}]

MCPlatformOf == [s \in Specs |-> IF s = other THEN "arm64" ELSE "amd64"]

Symmetry == Permutations(Callers) \cup Permutations(JobIds) \cup Permutations(Salts)
=============================================================================
