--------------------------- MODULE RuntimeAnswers ---------------------------
(***************************************************************************)
(* What the build service promises to its clients (build_client.py of the  *)
(* publish service): a lock that has once been answered READY is answered  *)
(* with the same image ever after, and that image holds every package of   *)
(* the lock.  A lock that has not may be answered PENDING, BUILDING,       *)
(* VERIFYING or FAILED any number of times.                                *)
(*                                                                         *)
(* BuildService implements this specification, and PublishService is       *)
(* composed with it instead of with the build service itself.              *)
(***************************************************************************)
CONSTANTS
    Specs,            \* locks, by env_key
    Packages,         \* <<name, version>> pins
    PackagesOf,       \* the pins of a lock
    Salts,            \* what makes digests of equal content differ
    NoImage           \* not READY

VARIABLE
    ready             \* the image each lock is answered with

Image == [pkgs: SUBSET Packages, salt: Salts]

Serving(s) == {i \in Image : PackagesOf[s] \subseteq i.pkgs}

Init == ready = [s \in Specs |-> NoImage]

\* The locks in S become READY at once, when they are bound to one environment.
Settle(S) ==
    /\ \A s \in S : ready[s] = NoImage
    /\ ready' \in [Specs -> Image \cup {NoImage}]
    /\ \A s \in Specs : IF s \in S THEN ready'[s] \in Serving(s) ELSE ready'[s] = ready[s]

Next == \E S \in SUBSET Specs : Settle(S)

Spec == Init /\ [][Next]_ready
=============================================================================
