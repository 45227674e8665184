------------------------- MODULE IdempotentRequests -------------------------
(***************************************************************************)
(* What the Runner promises the client that sends a logical request with   *)
(* an idempotency key: at any moment at most one execution works for the   *)
(* key; an execution serves one request content; its answer, once recorded,*)
(* is the answer to the key, unchanged, for exactly the retention; and an  *)
(* execution that is given up, or whose failure may be retried, frees the  *)
(* key.  No execution identity is used twice.                              *)
(*                                                                         *)
(* RunnerDB implements this specification with its two tables of keys and  *)
(* of runs, its purges, and callers that outlive a restart.                *)
(***************************************************************************)
EXTENDS Naturals

CONSTANTS
    Names,            \* what identifies a logical request
    Contents,         \* request contents
    Executions,       \* identities of executions
    Answers,          \* what an execution can answer
    Kept              \* how long an answer is kept

VARIABLES
    clock,
    request,          \* the state of every logical request
    used              \* execution identities given out

vars == <<clock, request, used>>

Free == [phase |-> "FREE"]

Running(c, x) == [phase |-> "RUNNING", content |-> c, by |-> x]

Answered(c, x, a, t) ==
    [phase |-> "ANSWERED", content |-> c, by |-> x, answer |-> a, until |-> t]

Init ==
    /\ clock = 0
    /\ request = [q \in Names |-> Free]
    /\ used = {}

Start(q, c, x) ==
    /\ request[q] = Free
    /\ x \notin used
    /\ request' = [request EXCEPT ![q] = Running(c, x)]
    /\ used' = used \cup {x}
    /\ UNCHANGED clock

Answer(q, a) ==
    /\ request[q].phase = "RUNNING"
    /\ request' = [request EXCEPT
            ![q] = Answered(@.content, @.by, a, clock + Kept)]
    /\ UNCHANGED <<clock, used>>

\* The executions of the requests in S are given up together.
GiveUp(S) ==
    /\ \A q \in S : request[q].phase = "RUNNING"
    /\ request' = [q \in Names |-> IF q \in S THEN Free ELSE request[q]]
    /\ UNCHANGED <<clock, used>>

Over(q, t) == request[q].phase = "ANSWERED" /\ request[q].until <= t

\* Time passes, and only that ends the life of an answer.
Pass ==
    /\ clock' = clock + 1
    /\ request' = [q \in Names |-> IF Over(q, clock + 1) THEN Free ELSE request[q]]
    /\ UNCHANGED used

Next ==
    \/ \E q \in Names, c \in Contents, x \in Executions : Start(q, c, x)
    \/ \E q \in Names, a \in Answers : Answer(q, a)
    \/ \E S \in SUBSET Names : GiveUp(S)
    \/ Pass

Spec == Init /\ [][Next]_vars
=============================================================================
