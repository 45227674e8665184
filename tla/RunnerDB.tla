------------------------------ MODULE RunnerDB ------------------------------
(***************************************************************************)
(* The Runner's durable state: runner_engine/state.py, class RunnerDB.     *)
(*                                                                         *)
(* Three PostgreSQL tables.  runner.leases holds the leases, runner.runs   *)
(* the execution history, runner.idempotency_keys the claim / replay row   *)
(* of every logical request.  Each method of RunnerDB is one transaction   *)
(* (renew_lease is two), so each is one action; the row locks the code     *)
(* takes (SELECT ... FOR UPDATE, UPDATE ... WHERE state = 'RUNNING') and   *)
(* the primary keys make that exact, with one exception: a begin_run that  *)
(* commits between the two statements of reset_running.  The Runner calls  *)
(* reset_running before it serves, so that one is excluded here.           *)
(*                                                                         *)
(* The client is the most general one: any caller may make any call at any *)
(* moment, and a caller that once got a run id may use it for ever, also   *)
(* after a restart of the Runner has run reset_running.  What is proved    *)
(* here therefore holds whatever the service on top does.                  *)
(*                                                                         *)
(* NULL columns: a row that is RUNNING has no result and no expiry, so it  *)
(* has no such field.  Left out are the columns no code reads back         *)
(* (processor_id, invocation_id, replay_count, the message texts, ...).    *)
(***************************************************************************)
EXTENDS Naturals

CONSTANTS
    Tenants,          \* tenant_id
    Projects,         \* project_id
    Releases,         \* release_id
    Keys,             \* idempotency_key
    Fingerprints,     \* request_fingerprint: a SHA-256 of the request content
    ErrorCodes,       \* RunResult.error_code
    LeaseIds,         \* uuid4 of leases: never issued twice
    RunIds,           \* uuid4 of runs: never issued twice
    LeaseTTL,         \* lease_ttl_ms, in ticks
    Retention,        \* idempotency_retention_ms, in ticks
    RunRetention,     \* run_retention_ms, in ticks
    MaxTime           \* bound: the clock stops here

ASSUME DBAssumption ==
    /\ LeaseTTL \in Nat
    /\ Retention \in Nat
    /\ RunRetention \in Nat
    /\ MaxTime \in Nat

VARIABLES
    now,              \* the clock; the Runner's and the database's agree
    leases,           \* table runner.leases
    leased,           \* lease ids issued so far
    renewing,         \* <<lease, tenant>> between the two halves of renew_lease
    keys,             \* table runner.idempotency_keys
    runs,             \* table runner.runs
    claims            \* the RunClaim each begin_run returned, as its caller keeps it

leaseVars == <<leases, leased, renewing>>
runVars   == <<keys, runs, claims>>
dbVars    == <<now, leases, leased, renewing, keys, runs, claims>>

-----------------------------------------------------------------------------
(* Rows *)

Absent == [state |-> "ABSENT"]              \* no row with this primary key

Exists(row) == row.state # "ABSENT"

Request == [tenant: Tenants, release: Releases, key: Keys, fp: Fingerprints]

KeyId == Tenants \X Releases \X Keys        \* PRIMARY KEY of idempotency_keys

KeyOf(req) == <<req.tenant, req.release, req.key>>

Result == [status: {"SUCCEEDED", "FAILED"}, retryable: BOOLEAN, error_code: ErrorCodes]

LeaseRow == [state: {"HELD"}, tenant: Tenants, project: Projects, release: Releases,
             expires: Nat]

RunningKey == [state: {"RUNNING"}, fp: Fingerprints, run: RunIds]

DoneKey == [state: {"DONE"}, fp: Fingerprints, run: RunIds, replayable: BOOLEAN,
            result: Result, expires: Nat]

RunningRun == [state: {"RUNNING"}, req: Request]

Outcomes == {"SUCCESS", "RETRYABLE_FAILURE", "USER_FAILURE", "INFRASTRUCTURE_FAILURE"}

ClosedRun == [state: {"DONE", "ABANDONED"}, req: Request, outcome: Outcomes,
              replayable: BOOLEAN, expires: Nat, completed: Nat]

\* What the caller of begin_run holds: the run id with the key it was claimed for.
Claim == [state: {"CLAIMED"}, req: Request]

TypeOK ==
    /\ now \in Nat
    /\ leases \in [LeaseIds -> LeaseRow \cup {Absent}]
    /\ leased \subseteq LeaseIds
    /\ renewing \subseteq LeaseIds \X Tenants
    /\ keys \in [KeyId -> RunningKey \cup DoneKey \cup {Absent}]
    /\ runs \in [RunIds -> RunningRun \cup ClosedRun \cup {Absent}]
    /\ claims \in [RunIds -> Claim \cup {Absent}]

Init ==
    /\ now = 0
    /\ leases = [l \in LeaseIds |-> Absent]
    /\ leased = {}
    /\ renewing = {}
    /\ keys = [k \in KeyId |-> Absent]
    /\ runs = [r \in RunIds |-> Absent]
    /\ claims = [r \in RunIds |-> Absent]

Tick ==
    /\ now < MaxTime
    /\ now' = now + 1
    /\ UNCHANGED <<leaseVars, runVars>>

-----------------------------------------------------------------------------
(* Leases *)

CreateLease(l, t, p, rel) ==
    /\ l \notin leased
    /\ leased' = leased \cup {l}
    /\ leases' = [leases EXCEPT ![l] =
            [state |-> "HELD", tenant |-> t, project |-> p, release |-> rel,
             expires |-> now + LeaseTTL]]
    /\ UNCHANGED <<now, renewing, runVars>>

\* require_lease(lease_id, tenant_id) without a release, as renew and cancel call it.
LeaseValid(l, t) ==
    /\ Exists(leases[l])
    /\ leases[l].tenant = t
    /\ leases[l].expires > now

\* require_lease(lease_id, tenant_id, release_id), as invoke calls it.
LeaseValidFor(l, t, rel) == LeaseValid(l, t) /\ leases[l].release = rel

\* renew_lease: require_lease in one transaction, the UPDATE in the next.
RenewLeaseCheck(l, t) ==
    /\ LeaseValid(l, t)
    /\ renewing' = renewing \cup {<<l, t>>}
    /\ UNCHANGED <<now, leases, leased, runVars>>

\* Mutant: INSERT ... ON CONFLICT DO UPDATE instead of UPDATE.
RenewLeaseUpsert(l, t) ==
    /\ <<l, t>> \in renewing
    /\ renewing' = renewing \ {<<l, t>>}
    /\ \E p \in Projects, rel \in Releases :
         leases' = [leases EXCEPT ![l] =
            [state |-> "HELD", tenant |-> t, project |-> p, release |-> rel,
             expires |-> now + LeaseTTL]]
    /\ UNCHANGED <<now, leased, runVars>>

RenewLeaseUpdate(l, t) ==
    /\ <<l, t>> \in renewing
    /\ renewing' = renewing \ {<<l, t>>}
    /\ leases' = [i \in LeaseIds |->
            IF i = l /\ Exists(leases[i]) /\ leases[i].tenant = t
            THEN [leases[i] EXCEPT !.expires = now + LeaseTTL]
            ELSE leases[i]]
    /\ UNCHANGED <<now, leased, runVars>>

DeleteLease(l, t) ==
    /\ Exists(leases[l])
    /\ leases[l].tenant = t
    /\ leases' = [leases EXCEPT ![l] = Absent]
    /\ UNCHANGED <<now, leased, renewing, runVars>>

PurgeExpiredLeases ==
    /\ leases' = [l \in LeaseIds |->
            IF Exists(leases[l]) /\ leases[l].expires <= now THEN Absent ELSE leases[l]]
    /\ UNCHANGED <<now, leased, renewing, runVars>>

-----------------------------------------------------------------------------
(* Runs and idempotency keys *)

\* cache_valid of begin_run.
CacheValid(row) ==
    /\ row.state = "DONE"
    /\ row.replayable
    /\ row.expires > now

\* begin_run raises IDEMPOTENCY_CONFLICT.
BeginConflict(req) ==
    /\ Exists(keys[KeyOf(req)])
    /\ keys[KeyOf(req)].fp # req.fp

\* begin_run raises RUN_IN_PROGRESS.
BeginInProgress(req) ==
    /\ keys[KeyOf(req)].state = "RUNNING"
    /\ keys[KeyOf(req)].fp = req.fp

\* begin_run returns RunClaim(None, cached_result).
BeginReplays(req) ==
    /\ Exists(keys[KeyOf(req)])
    /\ keys[KeyOf(req)].fp = req.fp
    /\ CacheValid(keys[KeyOf(req)])

\* begin_run goes on to a new run: no row, or a row that can no longer be replayed.
BeginClaims(req) ==
    \/ ~Exists(keys[KeyOf(req)])
    \/ /\ keys[KeyOf(req)].state = "DONE"
       /\ keys[KeyOf(req)].fp = req.fp
       /\ ~CacheValid(keys[KeyOf(req)])

\* begin_run returns RunClaim(run_id, None): INSERT or UPDATE of the key, INSERT of the run.
BeginRun(req, r) ==
    /\ BeginClaims(req)
    /\ ~Exists(claims[r])
    /\ claims' = [claims EXCEPT ![r] = [state |-> "CLAIMED", req |-> req]]
    /\ keys' = [keys EXCEPT ![KeyOf(req)] = [state |-> "RUNNING", fp |-> req.fp, run |-> r]]
    /\ runs' = [runs EXCEPT ![r] = [state |-> "RUNNING", req |-> req]]
    /\ UNCHANGED <<now, leaseVars>>

\* Mutant: the WHERE clause forgets AND state = 'RUNNING'.
OwnsKeyInAnyState(r) ==
    /\ Exists(keys[KeyOf(claims[r].req)])
    /\ keys[KeyOf(claims[r].req)].run = r

\* WHERE ... current_run_id = r AND state = 'RUNNING', with the key r was claimed for.
OwnsKey(r) ==
    /\ keys[KeyOf(claims[r].req)].state = "RUNNING"
    /\ keys[KeyOf(claims[r].req)].run = r

\* finish_run raises RUN_STATE_LOST or IDEMPOTENCY_STATE_LOST (and rolls back) otherwise.
FinishRunAccepts(r) ==
    /\ Exists(claims[r])
    /\ runs[r].state = "RUNNING"
    /\ OwnsKey(r)

OutcomeClass(res) ==
    IF res.status = "SUCCEEDED" THEN "SUCCESS"
    ELSE IF res.retryable THEN "RETRYABLE_FAILURE"
    ELSE "USER_FAILURE"

\* Mutant: the retention of the run history instead of the one of the answers.
ExpiresAtRunRetention(res) == IF res.retryable THEN now ELSE now + RunRetention

\* Mutant: the retention is subtracted.
ExpiresAtSubtracted(res) == IF res.retryable THEN now ELSE now - Retention

ExpiresAt(res) == IF res.retryable THEN now ELSE now + Retention

FinishRun(r, res) ==
    /\ FinishRunAccepts(r)
    /\ runs' = [runs EXCEPT ![r] =
            [state |-> "DONE", req |-> claims[r].req, outcome |-> OutcomeClass(res),
             replayable |-> ~res.retryable, expires |-> ExpiresAt(res), completed |-> now]]
    /\ keys' = [keys EXCEPT ![KeyOf(claims[r].req)] =
            [state |-> "DONE", fp |-> keys[KeyOf(claims[r].req)].fp, run |-> r,
             replayable |-> ~res.retryable, result |-> res, expires |-> ExpiresAt(res)]]
    /\ UNCHANGED <<now, leaseVars, claims>>

Abandoned(req) ==
    [state |-> "ABANDONED", req |-> req, outcome |-> "INFRASTRUCTURE_FAILURE",
     replayable |-> FALSE, expires |-> now, completed |-> now]

\* Mutant: the idempotency row is not deleted.
AbandonRunKeepsKey(r) ==
    /\ Exists(claims[r])
    /\ runs' = [runs EXCEPT ![r] = IF @.state = "RUNNING" THEN Abandoned(claims[r].req) ELSE @]
    /\ UNCHANGED <<now, leaseVars, keys, claims>>

\* Mutant: UPDATE runner.runs without AND state = 'RUNNING'.
AbandonRunAlways(r) ==
    /\ Exists(claims[r])
    /\ runs' = [runs EXCEPT ![r] = IF Exists(@) THEN Abandoned(claims[r].req) ELSE @]
    /\ keys' = [keys EXCEPT ![KeyOf(claims[r].req)] = IF OwnsKey(r) THEN Absent ELSE @]
    /\ UNCHANGED <<now, leaseVars, claims>>

AbandonRun(r) ==
    /\ Exists(claims[r])
    /\ runs' = [runs EXCEPT ![r] = IF @.state = "RUNNING" THEN Abandoned(claims[r].req) ELSE @]
    /\ keys' = [keys EXCEPT ![KeyOf(claims[r].req)] = IF OwnsKey(r) THEN Absent ELSE @]
    /\ UNCHANGED <<now, leaseVars, claims>>

ResetRunning ==
    /\ runs' = [r \in RunIds |->
            IF runs[r].state = "RUNNING" THEN Abandoned(runs[r].req) ELSE runs[r]]
    /\ keys' = [k \in KeyId |-> IF keys[k].state = "RUNNING" THEN Absent ELSE keys[k]]
    /\ UNCHANGED <<now, leaseVars, claims>>

PurgeExpiredIdempotency ==
    /\ keys' = [k \in KeyId |->
            IF keys[k].state = "DONE" /\ keys[k].expires <= now THEN Absent ELSE keys[k]]
    /\ UNCHANGED <<now, leaseVars, runs, claims>>

\* Mutant: purge_old_runs without NOT EXISTS.
NeverReplayed(r) == FALSE

\* A finished run that a key still within its retention points to is kept.
StillReplayed(r) ==
    \E k \in KeyId : keys[k].state = "DONE" /\ keys[k].run = r /\ keys[k].expires > now

PurgeOldRuns ==
    /\ RunRetention > 0
    /\ runs' = [r \in RunIds |->
            IF /\ runs[r].state \in {"DONE", "ABANDONED"}
               /\ runs[r].completed + RunRetention < now
               /\ ~StillReplayed(r)
            THEN Absent ELSE runs[r]]
    /\ UNCHANGED <<now, leaseVars, keys, claims>>

-----------------------------------------------------------------------------
Next ==
    \/ Tick
    \/ \E l \in LeaseIds, t \in Tenants, p \in Projects, rel \in Releases :
            CreateLease(l, t, p, rel)
    \/ \E l \in LeaseIds, t \in Tenants :
            RenewLeaseCheck(l, t) \/ RenewLeaseUpdate(l, t) \/ DeleteLease(l, t)
    \/ PurgeExpiredLeases
    \/ \E req \in Request, r \in RunIds : BeginRun(req, r)
    \/ \E r \in RunIds, res \in Result : FinishRun(r, res)
    \/ \E r \in RunIds : AbandonRun(r)
    \/ ResetRunning
    \/ PurgeExpiredIdempotency
    \/ PurgeOldRuns

Spec == Init /\ [][Next]_dbVars

-----------------------------------------------------------------------------
(* Properties *)

\* begin_run / finish_run / abandon_run / reset_running keep the two tables in step:
\* a key is RUNNING exactly when the run it names is RUNNING, for that key and for that
\* request content.  So one logical request never has two executions in progress, and no
\* key stays blocked (RUN_IN_PROGRESS) by a run that is already over.
ClaimsInStep ==
    /\ \A k \in KeyId : keys[k].state = "RUNNING" =>
            /\ runs[keys[k].run].state = "RUNNING"
            /\ KeyOf(runs[keys[k].run].req) = k
            /\ runs[keys[k].run].req.fp = keys[k].fp
    /\ \A r \in RunIds : runs[r].state = "RUNNING" =>
            /\ keys[KeyOf(runs[r].req)].state = "RUNNING"
            /\ keys[KeyOf(runs[r].req)].run = r

\* A result that begin_run may still replay is backed by the audit row of the run that
\* produced it, and both rows agree: purge_old_runs never deletes the history of a result
\* that is still being served, however short run_retention_ms is, and what is served was
\* never a retryable failure.
ReplayBacked ==
    \A k \in KeyId : keys[k].state = "DONE" /\ CacheValid(keys[k]) =>
        /\ runs[keys[k].run].state = "DONE"
        /\ KeyOf(runs[keys[k].run].req) = k
        /\ runs[keys[k].run].req.fp = keys[k].fp
        /\ runs[keys[k].run].expires = keys[k].expires
        /\ runs[keys[k].run].outcome = OutcomeClass(keys[k].result)
        /\ ~keys[k].result.retryable

\* finish_run and abandon_run write WHERE state = 'RUNNING': an execution that is DONE or
\* ABANDONED keeps that row for ever (until it is purged), also when a caller from before
\* a restart still holds its run id.
TerminalRunsFrozen ==
    [][\A r \in RunIds : runs[r].state \in {"DONE", "ABANDONED"} =>
            runs'[r] \in {runs[r], Absent}]_dbVars

\* Within its retention a replayable result is not lost, replaced or re-executed: no purge,
\* no restart, no late finish_run or abandon_run and no begin_run touches its row.
ReplayWindowKept ==
    [][\A k \in KeyId :
            (keys[k].state = "DONE" /\ CacheValid(keys[k])) => keys'[k] = keys[k]]_dbVars

\* renew_lease is an UPDATE, never an upsert: a renewal that passed require_lease before the
\* lease was released or purged does not bring it back, and no call moves a lease to another
\* tenant or release.
LeasesNeverReturn ==
    [][\A l \in leased :
            /\ ~Exists(leases[l]) => ~Exists(leases'[l])
            /\ Exists(leases[l]) /\ Exists(leases'[l]) =>
                    /\ leases'[l].tenant = leases[l].tenant
                    /\ leases'[l].release = leases[l].release]_dbVars

\* What begin_run's caller sees of a key: an execution in progress, an answer it would get
\* replayed, or neither (no row, or a row that is kept but no longer replayed).
RequestOf(k) ==
    IF keys[k].state = "RUNNING"
    THEN [phase |-> "RUNNING", content |-> keys[k].fp, by |-> keys[k].run]
    ELSE IF CacheValid(keys[k])
    THEN [phase |-> "ANSWERED", content |-> keys[k].fp, by |-> keys[k].run,
          answer |-> keys[k].result, until |-> keys[k].expires]
    ELSE [phase |-> "FREE"]

Requests == INSTANCE IdempotentRequests WITH
    Names <- KeyId, Contents <- Fingerprints, Executions <- RunIds,
    Answers <- {res \in Result : ~res.retryable}, Kept <- Retention,
    clock <- now, request <- [k \in KeyId |-> RequestOf(k)],
    used <- {r \in RunIds : Exists(claims[r])}

\* The two tables, with their purges, restarts and late callers, implement the promise made
\* to the client of an idempotency key: one execution at a time, and the answer of the one
\* that finished, unchanged, for exactly idempotency_retention_ms.
KeepsPromise == Requests!Spec
=============================================================================
