--------------------------- MODULE RunnerService ----------------------------
(***************************************************************************)
(* The Runner: runner_engine/service.py (RunnerService), which composes    *)
(* the database (RunnerDB) and the sandbox pool (WorkerPool).              *)
(*                                                                         *)
(* A gRPC thread runs invoke or cancel; the reaper thread runs the         *)
(* maintenance loop; the process may die at any moment and start again.    *)
(* A step is one database transaction, one critical section of             *)
(* _active_lock, one step of the pool, or one answer of a sandbox.         *)
(*                                                                         *)
(* exec records which run each sandbox is executing.  An execution whose   *)
(* answer was lost goes on until it ends or its sandbox is destroyed.      *)
(***************************************************************************)
EXTENDS Integers, Sequences, FiniteSets

CONSTANTS
    \* of RunnerDB
    Tenants, Projects, Releases, Keys, Fingerprints, ErrorCodes, LeaseIds, RunIds,
    LeaseTTL, Retention, RunRetention, MaxTime,
    \* of WorkerPool
    Flavors, FlavorOf, Reuse, Workers, NoWorker, Callers, Reaper,
    MaxCreating, MaxLive, MaxLivePerTenant, MaxInstalled, Faults,
    \* of the service
    InvocationIds,    \* invocation_id, chosen by the client
    RunResults,       \* what a sandbox may answer: a subset of the results of RunnerDB
    ReusableCodes,    \* error codes after which the worker goes back to the pool
    NoThread,         \* nobody holds _active_lock across a step
    CallFaults        \* what may fail in this environment: "run", "begin", "finish", "abandon"

VARIABLES
    now, leases, leased, renewing, keys, runs, claims,
    pc, call, idle, home, installed, healthy, alive, aged, live, tenantLive, creating,
    sandboxes,
    spc,              \* where each thread is in invoke, cancel or the maintenance loop
    job,              \* its locals
    active,           \* _active: the ActiveRun of each invocation id
    lock,             \* the thread that keeps _active_lock while it destroys a worker
    exec,             \* <<sandbox, run>>: executions under way
    phase             \* the process: "up", or how far startup() has come

DB == INSTANCE RunnerDB
Pool == INSTANCE WorkerPool

\* The components' assumptions, and the service's own.
ASSUME ServiceAssumption ==
    /\ DB!DBAssumption
    /\ Pool!PoolAssumption
    /\ RunResults \subseteq DB!Result
    /\ NoThread \notin Callers

dbVars  == <<now, leases, leased, renewing, keys, runs, claims>>
poolVars == <<pc, call, idle, home, installed, healthy, alive, aged,
              live, tenantLive, creating, sandboxes>>
svcVars == <<spc, job, active, lock, exec, phase>>
vars    == <<dbVars, poolVars, svcVars>>

-----------------------------------------------------------------------------
Threads == Callers \cup {Reaper}

NotActive == [state |-> "ABSENT"]

ActiveRun == [state: {"ACTIVE"}, tenant: Tenants, lease: LeaseIds, worker: Workers]

NoJob == [inv |-> "none"]

ServicePlaces ==
    {"idle", "check", "begin", "acquire", "acquiring", "duplicate", "run", "running", "finish",
     "cleanup", "releasing", "fail", "failing", "abandon", "leave",
     "cancel", "cancelled", "cancelling",
     "reap", "reaping", "purge_leases", "purge_keys", "purge_runs"}

Phases == {"up", "down", "cleaned", "reset", "purged"}

TypeOK ==
    /\ DB!TypeOK
    /\ Pool!TypeOK
    /\ spc \in [Threads -> ServicePlaces]
    /\ active \in [InvocationIds -> ActiveRun \cup {NotActive}]
    /\ lock \in Callers \cup {NoThread}
    /\ exec \subseteq Workers \X RunIds
    /\ phase \in Phases

Init ==
    /\ DB!Init
    /\ Pool!Init
    /\ spc = [t \in Threads |-> IF t = Reaper THEN "reap" ELSE "idle"]
    /\ job = [t \in Threads |-> NoJob]
    /\ active = [i \in InvocationIds |-> NotActive]
    /\ lock = NoThread
    /\ exec = {}
    /\ phase = "up"

Goto(t, place) == spc' = [spc EXCEPT ![t] = place]

\* The call is over; its locals are gone.
End(t) ==
    /\ spc' = [spc EXCEPT ![t] = "idle"]
    /\ job' = [job EXCEPT ![t] = NoJob]

\* A pool step; destroying a sandbox ends what it was executing.
SandboxesKill == exec' = {e \in exec : e[1] \in sandboxes'}

\* The pool call of t has returned, or raised an exception that t has caught.
PoolReturned(t) == pc[t] = "ready"
PoolRaised(t) == pc[t] = "raised"

-----------------------------------------------------------------------------
(* Leases *)

\* acquire_lease, renew_lease, release_lease: the database method is all there is.
LeaseCall ==
    /\ phase = "up"
    /\ \/ \E l \in LeaseIds, n \in Tenants, p \in Projects, rel \in Releases :
            DB!CreateLease(l, n, p, rel)
       \/ \E l \in LeaseIds, n \in Tenants :
            DB!RenewLeaseCheck(l, n) \/ DB!RenewLeaseUpdate(l, n) \/ DB!DeleteLease(l, n)
    /\ UNCHANGED <<poolVars, svcVars>>

-----------------------------------------------------------------------------
(* invoke *)

\* require_lease; the request is well formed, its policy known, its attributes filtered.
InvokeStart(t, i, l, req) ==
    /\ phase = "up"
    /\ spc[t] = "idle"
    /\ DB!LeaseValidFor(l, req.tenant, req.release)
    /\ job' = [job EXCEPT ![t] = [inv |-> i, lease |-> l, req |-> req]]
    /\ Goto(t, "check")
    /\ UNCHANGED <<dbVars, poolVars, active, lock, exec, phase>>

\* with self._active_lock: INVOCATION_ID_IN_USE, or go on.
InvokeCheck(t) ==
    /\ spc[t] = "check"
    /\ lock = NoThread
    /\ IF active[job[t].inv] # NotActive
       THEN End(t)
       ELSE Goto(t, "begin") /\ UNCHANGED job
    /\ UNCHANGED <<dbVars, poolVars, active, lock, exec, phase>>

\* begin_run answers with a run id.
InvokeBegin(t, r) ==
    /\ spc[t] = "begin"
    /\ DB!BeginRun(job[t].req, r)
    /\ job' = [job EXCEPT ![t] = [inv |-> @.inv, lease |-> @.lease, req |-> @.req, run |-> r]]
    /\ Goto(t, "acquire")
    /\ UNCHANGED <<poolVars, active, lock, exec, phase>>

\* The key is claimed but the answer of the COMMIT is lost: begin_run is outside the try, so
\* the exception leaves invoke and nobody knows the run id.
InvokeBeginLost(t, r) ==
    /\ spc[t] = "begin"
    /\ "begin" \in CallFaults
    /\ DB!BeginRun(job[t].req, r)
    /\ End(t)
    /\ UNCHANGED <<poolVars, active, lock, exec, phase>>

\* begin_run replays a result, or raises IDEMPOTENCY_CONFLICT or RUN_IN_PROGRESS (or, when two
\* first claims of a key race, the unique violation of the second INSERT).
InvokeReplayed(t) ==
    /\ spc[t] = "begin"
    /\ \/ DB!BeginReplays(job[t].req)
       \/ DB!BeginConflict(job[t].req)
       \/ DB!BeginInProgress(job[t].req)
    /\ End(t)
    /\ UNCHANGED <<dbVars, poolVars, active, lock, exec, phase>>

\* Mutant: any release of that runtime and profile will do.
InvokeAcquireAny(t) ==
    /\ spc[t] = "acquire"
    /\ \E rel \in Releases :
            /\ FlavorOf[rel] = FlavorOf[job[t].req.release]
            /\ Pool!AcquirePop(t, job[t].req.tenant, rel)
    /\ Goto(t, "acquiring")
    /\ UNCHANGED <<dbVars, job, active, lock, exec, phase>>

\* pool.acquire for the tenant and the release of the request.
InvokeAcquire(t) ==
    /\ spc[t] = "acquire"
    /\ Pool!AcquirePop(t, job[t].req.tenant, job[t].req.release)
    /\ Goto(t, "acquiring")
    /\ UNCHANGED <<dbVars, job, active, lock, exec, phase>>

\* pool.acquire raised: worker is None, so there is nothing to invalidate.
InvokeAcquireRaised(t) ==
    /\ spc[t] = "acquiring"
    /\ Pool!Handled(t)
    /\ Goto(t, "abandon")
    /\ UNCHANGED <<dbVars, job, active, lock, exec, phase>>

\* Mutant: the entry is written before acquire has answered.
InvokeRegisterNone(t) ==
    /\ spc[t] = "acquiring"
    /\ lock = NoThread
    /\ active[job[t].inv] = NotActive
    /\ active' = [active EXCEPT ![job[t].inv] =
            [state |-> "ACTIVE", tenant |-> job[t].req.tenant, lease |-> job[t].lease,
             worker |-> NoWorker]]
    /\ Goto(t, "run")
    /\ UNCHANGED <<dbVars, poolVars, job, lock, exec, phase>>

\* self._active[invocation_id] = ActiveRun(...)
InvokeRegister(t) ==
    /\ spc[t] = "acquiring"
    /\ pc[t] = "using"
    /\ lock = NoThread
    /\ active[job[t].inv] = NotActive
    /\ active' = [active EXCEPT ![job[t].inv] =
            [state |-> "ACTIVE", tenant |-> job[t].req.tenant, lease |-> job[t].lease,
             worker |-> call[t].w]]
    /\ Goto(t, "run")
    /\ UNCHANGED <<dbVars, poolVars, job, lock, exec, phase>>

\* The id became active concurrently: the worker is invalidated with the lock held.
InvokeDuplicate(t) ==
    /\ spc[t] = "acquiring"
    /\ pc[t] = "using"
    /\ lock = NoThread
    /\ active[job[t].inv] # NotActive
    /\ lock' = t
    /\ Pool!Invalidate(t)
    /\ Goto(t, "duplicate")
    /\ UNCHANGED <<dbVars, job, active, exec, phase>>

InvokeDuplicateDone(t) ==
    /\ spc[t] = "duplicate"
    /\ PoolReturned(t)
    /\ lock' = NoThread
    /\ Goto(t, "abandon")
    /\ UNCHANGED <<dbVars, poolVars, job, active, exec, phase>>

\* backend.run: the request reaches the agent.
InvokeRun(t) ==
    /\ spc[t] = "run"
    /\ exec' = IF call[t].w \in sandboxes THEN exec \cup {<<call[t].w, job[t].run>>} ELSE exec
    /\ Goto(t, "running")
    /\ UNCHANGED <<dbVars, poolVars, job, active, lock, phase>>

\* The agent answers and the output passes the filters.
InvokeAnswer(t, res) ==
    /\ spc[t] = "running"
    /\ <<call[t].w, job[t].run>> \in exec
    /\ exec' = exec \ {<<call[t].w, job[t].run>>}
    /\ job' = [job EXCEPT ![t] = [inv |-> @.inv, lease |-> @.lease, req |-> @.req, run |-> @.run,
                                  result |-> res]]
    /\ Goto(t, "finish")
    /\ UNCHANGED <<dbVars, poolVars, active, lock, phase>>

\* Mutant: the run is abandoned while the sandbox still executes it.
InvokeRunRaisesEarly(t) ==
    /\ spc[t] = "running"
    /\ <<call[t].w, job[t].run>> \notin exec \/ "run" \in CallFaults
    /\ Goto(t, "abandon")
    /\ UNCHANGED <<dbVars, poolVars, job, active, lock, exec, phase>>

\* The sandbox is gone, the transport failed, or the output was rejected.  Unless the sandbox
\* is gone the operator may still be running in it.
InvokeRunRaises(t) ==
    /\ spc[t] = "running"
    /\ <<call[t].w, job[t].run>> \notin exec \/ "run" \in CallFaults
    /\ Goto(t, "fail")
    /\ UNCHANGED <<dbVars, poolVars, job, active, lock, exec, phase>>

InvokeFinish(t) ==
    /\ spc[t] = "finish"
    /\ DB!FinishRun(job[t].run, job[t].result)
    /\ Goto(t, "cleanup")
    /\ UNCHANGED <<poolVars, job, active, lock, exec, phase>>

\* finish_run raises: the claim is gone, or the database failed before or after the COMMIT.
InvokeFinishRaises(t) ==
    /\ spc[t] = "finish"
    /\ \/ ~DB!FinishRunAccepts(job[t].run) /\ UNCHANGED dbVars
       \/ "finish" \in CallFaults /\ UNCHANGED dbVars
       \/ "finish" \in CallFaults /\ DB!FinishRun(job[t].run, job[t].result)
    /\ Goto(t, "fail")
    /\ UNCHANGED <<poolVars, job, active, lock, exec, phase>>

\* The result is durable; the worker is given back or destroyed.
InvokeCleanup(t) ==
    /\ spc[t] = "cleanup"
    /\ IF job[t].result.status = "SUCCEEDED" \/ job[t].result.error_code \in ReusableCodes
       THEN Pool!Release(t)
       ELSE Pool!Invalidate(t)
    /\ Goto(t, "releasing")
    /\ UNCHANGED <<dbVars, job, active, lock, exec, phase>>

InvokeCleanupDone(t) ==
    /\ spc[t] = "releasing"
    /\ PoolReturned(t)
    /\ Goto(t, "leave")
    /\ UNCHANGED <<dbVars, poolVars, job, active, lock, exec, phase>>

\* Mutant: the worker goes back to the pool after an exception.
InvokeFailReleases(t) ==
    /\ spc[t] = "fail"
    /\ Pool!Release(t)
    /\ Goto(t, "failing")
    /\ UNCHANGED <<dbVars, job, active, lock, exec, phase>>

\* except: self.pool.invalidate(worker), before abandon_run.
InvokeFail(t) ==
    /\ spc[t] = "fail"
    /\ Pool!Invalidate(t)
    /\ Goto(t, "failing")
    /\ UNCHANGED <<dbVars, job, active, lock, exec, phase>>

\* Mutant: abandon_run is forgotten.
InvokeFailForgets(t) ==
    /\ spc[t] = "failing"
    /\ PoolReturned(t)
    /\ Goto(t, "leave")
    /\ UNCHANGED <<dbVars, poolVars, job, active, lock, exec, phase>>

InvokeFailDone(t) ==
    /\ spc[t] = "failing"
    /\ PoolReturned(t)
    /\ Goto(t, "abandon")
    /\ UNCHANGED <<dbVars, poolVars, job, active, lock, exec, phase>>

InvokeAbandon(t) ==
    /\ spc[t] = "abandon"
    /\ DB!AbandonRun(job[t].run)
    /\ Goto(t, "leave")
    /\ UNCHANGED <<poolVars, job, active, lock, exec, phase>>

\* The database fails: the exception leaves invoke, the key stays RUNNING.
InvokeAbandonRaises(t) ==
    /\ spc[t] = "abandon"
    /\ "abandon" \in CallFaults
    /\ Goto(t, "leave")
    /\ UNCHANGED <<dbVars, poolVars, job, active, lock, exec, phase>>

\* Mutant: no finally.
InvokeLeaveKeeps(t) ==
    /\ spc[t] = "leave"
    /\ lock = NoThread
    /\ End(t)
    /\ UNCHANGED <<dbVars, poolVars, active, lock, exec, phase>>

\* finally: self._active.pop(invocation_id, None)
InvokeLeave(t) ==
    /\ spc[t] = "leave"
    /\ lock = NoThread
    /\ active' = [active EXCEPT ![job[t].inv] = NotActive]
    /\ End(t)
    /\ UNCHANGED <<dbVars, poolVars, lock, exec, phase>>

-----------------------------------------------------------------------------
(* cancel *)

CancelStart(t, n, l, i) ==
    /\ phase = "up"
    /\ spc[t] = "idle"
    /\ DB!LeaseValid(l, n)
    /\ job' = [job EXCEPT ![t] = [inv |-> i, tenant |-> n, lease |-> l]]
    /\ Goto(t, "cancel")
    /\ UNCHANGED <<dbVars, poolVars, active, lock, exec, phase>>

Owns(entry, n, l) == entry # NotActive /\ entry.tenant = n /\ entry.lease = l

\* Not active: False.  Active for another tenant or lease: CANCEL_FORBIDDEN.
CancelRefused(t) ==
    /\ spc[t] = "cancel"
    /\ lock = NoThread
    /\ ~Owns(active[job[t].inv], job[t].tenant, job[t].lease)
    /\ End(t)
    /\ UNCHANGED <<dbVars, poolVars, active, lock, exec, phase>>

\* self._active.pop(invocation_id, None); the lock is released before invalidate.
CancelPop(t) ==
    /\ spc[t] = "cancel"
    /\ lock = NoThread
    /\ Owns(active[job[t].inv], job[t].tenant, job[t].lease)
    /\ active' = [active EXCEPT ![job[t].inv] = NotActive]
    /\ Pool!CancelRef(t, active[job[t].inv].worker)
    /\ Goto(t, "cancelled")
    /\ UNCHANGED <<dbVars, job, lock, exec, phase>>

CancelInvalidate(t) ==
    /\ spc[t] = "cancelled"
    /\ Pool!Invalidate(t)
    /\ Goto(t, "cancelling")
    /\ UNCHANGED <<dbVars, job, active, lock, exec, phase>>

CancelDone(t) ==
    /\ spc[t] = "cancelling"
    /\ PoolReturned(t)
    /\ End(t)
    /\ UNCHANGED <<dbVars, poolVars, active, lock, exec, phase>>

-----------------------------------------------------------------------------
(* Steps inside the pool *)

\* pool calls whose exceptions the caller swallows go on as if they had returned.
Swallows(t) == spc[t] \in {"duplicate", "releasing", "failing", "cancelling"}

PoolStep(t) ==
    /\ phase = "up"
    /\ Pool!Step(t)
    /\ PoolRaised(t) => Swallows(t)
    \* an id still named by _active is a Worker object that exists
    /\ \A i \in InvocationIds : active[i] # NotActive =>
            active[i].worker \notin sandboxes' \ sandboxes
    /\ SandboxesKill
    /\ UNCHANGED <<dbVars, spc, job, active, lock, phase>>

\* A sandbox finishes an execution that nobody waits for any more.
ExecEnds(w, r) ==
    /\ <<w, r>> \in exec
    /\ \A t \in Callers : ~(phase = "up" /\ spc[t] = "running" /\ job[t].run = r)
    /\ exec' = exec \ {<<w, r>>}
    /\ UNCHANGED <<dbVars, poolVars, spc, job, active, lock, phase>>

-----------------------------------------------------------------------------
(* The maintenance loop *)

\* pool.reap takes the expired workers, if there are any.
ReapStart ==
    /\ phase = "up"
    /\ spc[Reaper] = "reap"
    /\ Pool!Reap
    /\ Goto(Reaper, "reaping")
    /\ UNCHANGED <<dbVars, job, active, lock, exec, phase>>

ReapDone ==
    /\ phase = "up"
    /\ \/ spc[Reaper] = "reap" /\ {w \in Pool!IdleWorkers : Pool!IdleExpired(w)} = {}
       \/ spc[Reaper] = "reaping" /\ PoolReturned(Reaper)
    /\ Goto(Reaper, "purge_leases")
    /\ UNCHANGED <<dbVars, poolVars, job, active, lock, exec, phase>>

\* reap raised: the exception is logged and the purges of this round are skipped.
ReapRaised ==
    /\ phase = "up"
    /\ spc[Reaper] = "reaping"
    /\ Pool!Handled(Reaper)
    /\ Goto(Reaper, "reap")
    /\ UNCHANGED <<dbVars, job, active, lock, exec, phase>>

PurgeLeases ==
    /\ phase = "up"
    /\ spc[Reaper] = "purge_leases"
    /\ DB!PurgeExpiredLeases
    /\ Goto(Reaper, "purge_keys")
    /\ UNCHANGED <<poolVars, job, active, lock, exec, phase>>

PurgeKeys ==
    /\ phase = "up"
    /\ spc[Reaper] = "purge_keys"
    /\ DB!PurgeExpiredIdempotency
    /\ Goto(Reaper, "purge_runs")
    /\ UNCHANGED <<poolVars, job, active, lock, exec, phase>>

PurgeRuns ==
    /\ phase = "up"
    /\ spc[Reaper] = "purge_runs"
    /\ \/ DB!PurgeOldRuns
       \/ RunRetention = 0 /\ UNCHANGED dbVars
    /\ Goto(Reaper, "reap")
    /\ UNCHANGED <<poolVars, job, active, lock, exec, phase>>

-----------------------------------------------------------------------------
(* Crash and startup *)

\* The process dies: threads, _active and the pool's objects are gone; the tables and the
\* sandboxes, with what they execute, stay.
Crash ==
    /\ phase' = "down"
    /\ spc' = [t \in Threads |-> IF t = Reaper THEN "reap" ELSE "idle"]
    /\ job' = [t \in Threads |-> NoJob]
    /\ active' = [i \in InvocationIds |-> NotActive]
    /\ lock' = NoThread
    /\ renewing' = {}
    /\ Pool!Forget
    /\ UNCHANGED <<now, leases, leased, keys, runs, claims, sandboxes, exec>>

\* startup(): reset_after_restart, which deletes the sandboxes it finds ...
StartupCleanup(left) ==
    /\ phase = "down"
    /\ Pool!Restart(left)
    /\ SandboxesKill
    /\ phase' = "cleaned"
    /\ UNCHANGED <<dbVars, spc, job, active, lock>>

\* ... then reset_running ...
StartupReset ==
    /\ phase = "cleaned"
    /\ DB!ResetRunning
    /\ phase' = "reset"
    /\ UNCHANGED <<poolVars, spc, job, active, lock, exec>>

\* ... then the two purges, and the server starts.
StartupPurgeLeases ==
    /\ phase = "reset"
    /\ DB!PurgeExpiredLeases
    /\ phase' = "purged"
    /\ UNCHANGED <<poolVars, spc, job, active, lock, exec>>

StartupPurgeKeys ==
    /\ phase = "purged"
    /\ DB!PurgeExpiredIdempotency
    /\ phase' = "up"
    /\ UNCHANGED <<poolVars, spc, job, active, lock, exec>>

-----------------------------------------------------------------------------
Environment ==
    \/ DB!Tick /\ UNCHANGED <<poolVars, svcVars>>
    \/ /\ phase = "up"
       /\ \E w \in Workers : Pool!Age(w)
       /\ UNCHANGED <<dbVars, svcVars>>
    \/ /\ \E w \in Workers : Pool!SandboxExpires(w)
       /\ SandboxesKill
       /\ UNCHANGED <<dbVars, spc, job, active, lock, phase>>

\* The steps of an invoke or cancel that is under way.
CallStep(t) ==
    \/ InvokeCheck(t) \/ InvokeReplayed(t)
    \/ (\E r \in RunIds : InvokeBegin(t, r) \/ InvokeBeginLost(t, r))
    \/ InvokeAcquire(t) \/ InvokeAcquireRaised(t)
    \/ InvokeRegister(t) \/ InvokeDuplicate(t) \/ InvokeDuplicateDone(t)
    \/ InvokeRun(t) \/ (\E res \in RunResults : InvokeAnswer(t, res)) \/ InvokeRunRaises(t)
    \/ InvokeFinish(t) \/ InvokeFinishRaises(t) \/ InvokeCleanup(t) \/ InvokeCleanupDone(t)
    \/ InvokeFail(t) \/ InvokeFailDone(t) \/ InvokeAbandon(t) \/ InvokeAbandonRaises(t)
    \/ InvokeLeave(t)
    \/ CancelRefused(t) \/ CancelPop(t) \/ CancelInvalidate(t) \/ CancelDone(t)
    \/ PoolStep(t)

Maintenance ==
    \/ ReapStart \/ ReapDone \/ ReapRaised \/ PurgeLeases \/ PurgeKeys \/ PurgeRuns
    \/ PoolStep(Reaper)

Startup ==
    \/ (\E left \in SUBSET sandboxes : StartupCleanup(left))
    \/ StartupReset \/ StartupPurgeLeases \/ StartupPurgeKeys

Next ==
    \/ LeaseCall
    \/ \E t \in Callers, i \in InvocationIds, l \in LeaseIds, req \in DB!Request :
            InvokeStart(t, i, l, req)
    \/ \E t \in Callers, n \in Tenants, l \in LeaseIds, i \in InvocationIds :
            CancelStart(t, n, l, i)
    \/ \E t \in Callers : CallStep(t)
    \/ Maintenance
    \/ \E w \in Workers, r \in RunIds : ExecEnds(w, r)
    \/ Crash
    \/ Startup
    \/ Environment

Spec == Init /\ [][Next]_vars

\* gRPC threads are scheduled, and every database, backend and agent call has a timeout.
\* The maintenance loop runs for ever.  Nothing makes a client call, the clock tick or the
\* process crash.
Fairness == WF_vars(Maintenance) /\ \A t \in Callers : WF_vars(CallStep(t))

FairSpec == Spec /\ Fairness

-----------------------------------------------------------------------------
(* Properties *)

Using(t) == pc[t] = "using" /\ spc[t] \in {"run", "running", "finish", "cleanup", "fail"}

\* A thread is inside backend.destroy for w.
Doomed(w) == \E t \in Threads : pc[t] = "backend" /\ Head(call[t].stale) = w

\* Whatever a sandbox executes is still claimed: the idempotency key of the run is RUNNING
\* and names that run, and a run is executed by one sandbox.  So one logical request is never
\* executed twice at a time: abandon_run comes after the sandbox is destroyed, and
\* reset_running after cleanup_managed.  The one exception is a sandbox whose deletion is
\* under way in another thread: _destroy returns at once to the second thread that asks.
\* (Between a crash and cleanup_managed no request is served.)
ExecClaimed ==
    phase # "down" => \A e \in exec :
        \/ Doomed(e[1])
        \/ /\ DB!OwnsKey(e[2])
           /\ runs[e[2]].state = "RUNNING"
           /\ \A d \in exec : d[2] = e[2] => d = e

\* Whatever a sandbox executes was asked for by the tenant that the sandbox belongs to, for a
\* release of the sandbox's runtime and profile that is installed in it, through every reuse of
\* the worker: the request that invoke claimed is the one the pool chose the worker for.
\* (Between a crash and cleanup_managed nobody remembers whose a sandbox is.)
ExecAtHome ==
    phase # "down" => \A e \in exec :
        LET req == claims[e[2]].req IN
        /\ home[e[1]] = <<req.tenant, FlavorOf[req.release]>>
        /\ req.release \in installed[e[1]]

\* A sandbox in the pool is quiet: nothing of an earlier invocation still runs in it.
IdleQuiet == \A e \in exec : e[1] \notin Pool!IdleWorkers

\* Every entry of _active belongs to an invoke that is still under way, for the tenant and
\* the lease it remembers; no entry outlives its call and blocks its invocation id.
ActiveInFlight ==
    \A i \in InvocationIds : active[i] # NotActive =>
        \E t \in Callers :
            /\ spc[t] \in {"run", "running", "finish", "cleanup", "releasing",
                          "fail", "failing", "abandon", "leave"}
            /\ job[t].inv = i
            /\ Owns(active[i], job[t].req.tenant, job[t].lease)

\* Cancellation only reaches the worker of an invocation under the same tenant and lease.
CancelAuthorised ==
    \A t, u \in Callers :
        /\ spc[t] = "cancelled"
        /\ Using(u)
        /\ call[u].w = call[t].w
        => job[u].lease = job[t].lease

\* An invocation that is running and was not cancelled is in _active with its worker.
ActiveRemembered ==
    \A t \in Callers :
        /\ spc[t] = "running"
        /\ call[t].w \in healthy
        /\ \A u \in Callers : spc[u] # "cancelled"
        => /\ active[job[t].inv] # NotActive
           /\ active[job[t].inv].worker = call[t].w

\* While the Runner stays up, no logical request stays RUNNING: every invoke that claimed one
\* ends in finish_run or abandon_run, by whichever exit it leaves: acquire raises because the
\* quota is used up or a creation or an install fails, the invocation id became active meanwhile,
\* the sandbox fails, or a cancel or the maintenance loop takes the worker away.  A client that
\* got RUN_IN_PROGRESS can eventually retry.
KeySettles ==
    \A k \in DB!KeyId :
        keys[k].state = "RUNNING" ~> (keys[k].state # "RUNNING" \/ phase # "up")

\* A worker that stays idle past idle_seconds does not keep its sandbox: the maintenance loop
\* reaps it, or an acquire pops and destroys it, while the Runner is up.
ExpiredGoes ==
    \A w \in Workers : (w \in Pool!IdleWorkers /\ w \in aged)
                            ~> (w \notin sandboxes \/ phase # "up")
=============================================================================
