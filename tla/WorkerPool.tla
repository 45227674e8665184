----------------------------- MODULE WorkerPool -----------------------------
(***************************************************************************)
(* The warm sandbox pool: runner_engine/pool.py (WorkerPool) on top of     *)
(* runner_engine/quota.py (Quota) and a SandboxBackend.                    *)
(*                                                                         *)
(* Every gRPC thread runs acquire, uses the Worker it got and ends with    *)
(* release or invalidate; a Cancel thread may invalidate a Worker another  *)
(* thread is using; one reaper thread calls reap.  One action is one       *)
(* critical section (pool._lock, quota._lock, the creation semaphore) or   *)
(* one call of the backend, so every interleaving the locks allow is here. *)
(*                                                                         *)
(* The clock is abstracted to what the code asks of it: whether an idle    *)
(* worker has passed idle_seconds (aged), and whether a sandbox needs a    *)
(* renewal, which is left open.  runtime.id and profile only ever appear   *)
(* as a pair, the flavor of a release.  A Worker object and its sandbox    *)
(* share one id.                                                           *)
(***************************************************************************)
EXTENDS Integers, Sequences, FiniteSets, SequencesExt

CONSTANTS
    Tenants,          \* tenant_id
    Releases,         \* release.id
    Flavors,          \* <<runtime.id, profile>>
    FlavorOf,         \* the flavor of each release
    Reuse,            \* flavors whose policy has reuse_sandbox
    Workers,          \* ids of Worker objects and sandboxes
    NoWorker,         \* None
    Callers,          \* gRPC threads
    Reaper,           \* the background thread
    MaxCreating,      \* quota max_creating
    MaxLive,          \* quota max_live
    MaxLivePerTenant, \* quota max_live_per_tenant
    MaxInstalled,     \* max_installed_releases
    Faults            \* backend calls that may fail in this environment; "reap" limits the
                      \* failing deletions to the reaper's

ASSUME PoolAssumption ==
    /\ Tenants # {} /\ Flavors # {}
    /\ FlavorOf \in [Releases -> Flavors]
    /\ Reuse \subseteq Flavors
    /\ NoWorker \notin Workers
    /\ Reaper \notin Callers
    /\ IsFiniteSet(Workers) /\ IsFiniteSet(Callers)
    /\ MaxCreating \in Nat \ {0} /\ MaxLive \in Nat \ {0} /\ MaxLivePerTenant \in Nat \ {0}
    /\ MaxInstalled \in Nat \ {0}
    /\ Faults \subseteq {"create", "install", "renew", "destroy", "reap", "cleanup",
                         "expire"}

VARIABLES
    pc,               \* where each thread is
    call,             \* the locals of the call each thread is in
    idle,             \* _idle: the bucket of each pool key, last used last
    home,             \* (tenant_id, <<runtime_id, profile>>) of each Worker
    installed,        \* installed_release_ids
    healthy,          \* Workers with healthy = True
    alive,            \* Workers that acquire returned and whose destroyed is still False
    aged,             \* Workers past idle_seconds since last_used_monotonic
    live,             \* Quota._live
    tenantLive,       \* Quota._tenant_live
    creating,         \* taken permits of Quota._creating
    sandboxes         \* sandboxes that exist at the backend

workerVars == <<home, installed, healthy, alive, aged>>
quotaVars  == <<live, tenantLive, creating>>
poolVars   == <<pc, call, idle, home, installed, healthy, alive, aged,
                live, tenantLive, creating, sandboxes>>

-----------------------------------------------------------------------------
Threads == Callers \cup {Reaper}

PoolKey == Tenants \X Flavors

\* Mutant: buckets by runtime and profile only.
KeyForAnyone(tenant, rel) == <<CHOOSE n \in Tenants : TRUE, FlavorOf[rel]>>

\* _key(tenant_id, release)
KeyFor(tenant, rel) == <<tenant, FlavorOf[rel]>>

NoCall == [op |-> "none"]

\* acquire: the candidate and the stale workers still to destroy.
AcquireCall == [op: {"acquire"}, tenant: Tenants, rel: Releases,
                w: Workers \cup {NoWorker}, stale: Seq(Workers)]

\* The caller holds w and owes a release or an invalidate.
UseCall == [op: {"use"}, tenant: Tenants, rel: Releases, w: Workers]

\* The workers a reap, a release / invalidate, or the failed half of acquire destroys.
RetireCall == [op: {"reap", "retire", "fail"}, stale: Seq(Workers)]

\* cancel keeps a reference to the Worker of somebody else's invocation.
RefCall == [op: {"ref"}, w: Workers]

Places == {"ready", "raised", "stale", "backend", "release_live", "release_live_raise",
           "install", "slot", "create", "bootstrap", "undo", "unreserve",
           "using", "append", "ref"}

TypeOK ==
    /\ pc \in [Threads -> Places]
    /\ call \in [Threads -> AcquireCall \cup UseCall \cup RetireCall \cup RefCall \cup {NoCall}]
    /\ idle \in [PoolKey -> Seq(Workers)]
    /\ home \in [Workers -> PoolKey]
    /\ installed \in [Workers -> SUBSET Releases]
    /\ healthy \subseteq Workers /\ alive \subseteq Workers /\ aged \subseteq Workers
    /\ live \in Int
    /\ tenantLive \in [Tenants -> Nat]
    /\ creating \in Nat
    /\ sandboxes \subseteq Workers

IdleWorkers == UNION {ToSet(idle[k]) : k \in PoolKey}

\* Workers that the variables of thread t refer to.
RefersTo(t) ==
    (IF call[t].op \in {"acquire", "use", "ref"} THEN {call[t].w} \cap Workers ELSE {})
    \cup (IF call[t].op \in {"acquire", "reap", "retire", "fail"}
          THEN ToSet(call[t].stale) ELSE {})

\* Workers some Python variable still refers to.
Referenced == IdleWorkers \cup UNION {RefersTo(t) : t \in Threads}

\* home of an id that no Worker object has yet.
AnyKey == CHOOSE k \in PoolKey : TRUE

Init ==
    /\ pc = [t \in Threads |-> "ready"]
    /\ call = [t \in Threads |-> NoCall]
    /\ idle = [k \in PoolKey |-> <<>>]
    /\ home = [w \in Workers |-> AnyKey]
    /\ installed = [w \in Workers |-> {}]
    /\ healthy = {} /\ alive = {} /\ aged = {}
    /\ live = 0
    /\ tenantLive = [n \in Tenants |-> 0]
    /\ creating = 0
    /\ sandboxes = {}

Goto(t, place) == pc' = [pc EXCEPT ![t] = place]

Return(t, place) ==
    /\ pc' = [pc EXCEPT ![t] = place]
    /\ call' = [call EXCEPT ![t] = NoCall]

-----------------------------------------------------------------------------
(* Quota *)

QuotaReached(tenant) == live >= MaxLive \/ tenantLive[tenant] >= MaxLivePerTenant

ReserveLive(tenant) ==
    /\ live' = live + 1
    /\ tenantLive' = [tenantLive EXCEPT ![tenant] = @ + 1]
    /\ UNCHANGED creating

\* release_live does nothing for a tenant that holds no token.
ReleaseLive(tenant) ==
    /\ IF tenantLive[tenant] <= 0
       THEN UNCHANGED <<live, tenantLive>>
       ELSE /\ live' = live - 1
            /\ tenantLive' = [tenantLive EXCEPT ![tenant] = @ - 1]
    /\ UNCHANGED creating

-----------------------------------------------------------------------------
(* acquire *)

\* Mutant: _idle_expired without the clock.
IdleBroken(w) == w \notin alive \/ w \notin healthy

\* _idle_expired
IdleExpired(w) == w \notin alive \/ w \notin healthy \/ w \in aged

\* Another release would not fit under max_installed_releases.
Full(w, rel) == rel \notin installed[w] /\ Cardinality(installed[w]) >= MaxInstalled

Usable(w, rel) == ~IdleExpired(w) /\ ~Full(w, rel)

\* The last usable worker of the bucket is at position i; 0 if there is none.
IsCandidate(bucket, rel, i) ==
    /\ i # 0 => Usable(bucket[i], rel)
    /\ \A j \in DOMAIN bucket : j > i => ~Usable(bucket[j], rel)

\* acquire with the worker at position i, or none; the ones behind it are stale.
AcquireWith(t, tenant, rel, bucket, i) ==
    /\ pc[t] = "ready"
    /\ t \in Callers
    /\ IsCandidate(bucket, rel, i)
    /\ call' = [call EXCEPT ![t] =
          [op |-> "acquire", tenant |-> tenant, rel |-> rel,
           w |-> IF i = 0 THEN NoWorker ELSE bucket[i],
           stale |-> Reverse(SubSeq(bucket, i + 1, Len(bucket)))]]
    /\ Goto(t, "stale")
    /\ UNCHANGED <<workerVars, quotaVars, sandboxes>>

\* Mutant: the candidate is looked at but not popped.
AcquirePeek(t, tenant, rel) ==
    LET key == KeyFor(tenant, rel) IN
    \E i \in 0..Len(idle[key]) :
        /\ AcquireWith(t, tenant, rel, idle[key], i)
        /\ idle' = [idle EXCEPT ![key] = SubSeq(@, 1, i)]

\* Pops from the end of the bucket until a worker is usable; what was popped before it is stale.
AcquirePop(t, tenant, rel) ==
    LET key == KeyFor(tenant, rel) IN
    \E i \in 0..Len(idle[key]) :
        /\ AcquireWith(t, tenant, rel, idle[key], i)
        /\ idle' = [idle EXCEPT ![key] = SubSeq(@, 1, i - 1)]

\* acquire has destroyed the stale workers and goes on.
PastStale(t) ==
    /\ pc[t] = "stale"
    /\ call[t].op = "acquire"
    /\ call[t].stale = <<>>

\* Mutant: raise without invalidate.
AcquireForgets(t) ==
    /\ Return(t, "raised")
    /\ UNCHANGED <<idle, workerVars, quotaVars, sandboxes>>

\* except Exception: self.invalidate(candidate); raise
AcquireFails(t) ==
    /\ healthy' = healthy \ {call[t].w}
    /\ call' = [call EXCEPT ![t] = [op |-> "fail", stale |-> <<call[t].w>>]]
    /\ Goto(t, "stale")
    /\ UNCHANGED <<idle, home, installed, alive, aged, quotaVars, sandboxes>>

\* _ensure_sandbox_ttl: nothing to renew, or backend.renew went well.
EnsureSandboxTTL(t) ==
    /\ PastStale(t)
    /\ call[t].w # NoWorker
    /\ Goto(t, "install")
    /\ UNCHANGED <<call, idle, workerVars, quotaVars, sandboxes>>

RenewFails(t) ==
    /\ PastStale(t)
    /\ call[t].w # NoWorker
    /\ call[t].w \notin sandboxes \/ "renew" \in Faults
    /\ AcquireFails(t)

\* _ensure_release on the candidate, then return it.
EnsureRelease(t) ==
    /\ pc[t] = "install"
    /\ call[t].rel \in installed[call[t].w] \/ call[t].w \in sandboxes
    /\ installed' = [installed EXCEPT ![call[t].w] = @ \cup {call[t].rel}]
    /\ aged' = aged \ {call[t].w}
    /\ call' = [call EXCEPT ![t] =
            [op |-> "use", tenant |-> @.tenant, rel |-> @.rel, w |-> @.w]]
    /\ Goto(t, "using")
    /\ UNCHANGED <<idle, home, healthy, alive, quotaVars, sandboxes>>

InstallFails(t) ==
    /\ pc[t] = "install"
    /\ call[t].rel \notin installed[call[t].w]
    /\ call[t].w \notin sandboxes \/ "install" \in Faults
    /\ AcquireFails(t)

\* No candidate: reserve_live, which may raise GLOBAL_ / TENANT_SANDBOX_QUOTA.
ReserveFails(t) ==
    /\ PastStale(t)
    /\ call[t].w = NoWorker
    /\ QuotaReached(call[t].tenant)
    /\ Return(t, "raised")
    /\ UNCHANGED <<idle, workerVars, quotaVars, sandboxes>>

Reserve(t) ==
    /\ PastStale(t)
    /\ call[t].w = NoWorker
    /\ ~QuotaReached(call[t].tenant)
    /\ ReserveLive(call[t].tenant)
    /\ Goto(t, "slot")
    /\ UNCHANGED <<call, idle, workerVars, sandboxes>>

\* with self.quota.creation_slot(): blocks while all permits are taken.
CreationSlot(t) ==
    /\ pc[t] = "slot"
    /\ creating < MaxCreating
    /\ creating' = creating + 1
    /\ Goto(t, "create")
    /\ UNCHANGED <<call, idle, workerVars, live, tenantLive, sandboxes>>

\* backend.create answers with a new Worker.
Create(t, w) ==
    /\ pc[t] = "create"
    /\ w \in Workers \ (sandboxes \cup alive \cup Referenced)
    /\ sandboxes' = sandboxes \cup {w}
    /\ home' = [home EXCEPT ![w] = <<call[t].tenant, FlavorOf[call[t].rel]>>]
    /\ installed' = [installed EXCEPT ![w] = {}]
    /\ healthy' = healthy \cup {w}
    /\ aged' = aged \ {w}
    /\ call' = [call EXCEPT ![t].w = w]
    /\ Goto(t, "bootstrap")
    /\ UNCHANGED <<idle, alive, quotaVars>>

\* backend.create raises.  It deletes a sandbox that did not become healthy; but the POST and
\* the reading of its answer are outside that try, so when the answer is lost or has no id, or
\* the DELETE fails, the sandbox is an orphan from the start.
CreateFails(t) ==
    /\ pc[t] = "create"
    /\ "create" \in Faults
    /\ \/ UNCHANGED sandboxes
       \/ \E w \in Workers \ (sandboxes \cup alive \cup Referenced) :
                sandboxes' = sandboxes \cup {w}
    /\ creating' = creating - 1
    /\ Goto(t, "unreserve")
    /\ UNCHANGED <<call, idle, workerVars, live, tenantLive>>

\* _ensure_release on the new worker; the creation slot is given back; return it.
Bootstrap(t) ==
    /\ pc[t] = "bootstrap"
    /\ call[t].w \in sandboxes
    /\ installed' = [installed EXCEPT ![call[t].w] = {call[t].rel}]
    /\ alive' = alive \cup {call[t].w}
    /\ creating' = creating - 1
    /\ call' = [call EXCEPT ![t] =
            [op |-> "use", tenant |-> @.tenant, rel |-> @.rel, w |-> @.w]]
    /\ Goto(t, "using")
    /\ UNCHANGED <<idle, home, healthy, aged, live, tenantLive, sandboxes>>

BootstrapFails(t) ==
    /\ pc[t] = "bootstrap"
    /\ call[t].w \notin sandboxes \/ "install" \in Faults
    /\ creating' = creating - 1
    /\ Goto(t, "undo")
    /\ UNCHANGED <<call, idle, workerVars, live, tenantLive, sandboxes>>

\* Mutant: the creation slot is given back a second time.
UndoReleasesSlot(t) ==
    /\ pc[t] = "undo"
    /\ sandboxes' = sandboxes \ {call[t].w}
    /\ creating' = creating - 1
    /\ Goto(t, "unreserve")
    /\ UNCHANGED <<call, idle, workerVars, live, tenantLive>>

\* try: self.backend.destroy(worker) except Exception: pass
UndoCreate(t) ==
    /\ pc[t] = "undo"
    /\ \/ sandboxes' = sandboxes \ {call[t].w}
       \/ "destroy" \in Faults /\ UNCHANGED sandboxes
    /\ Goto(t, "unreserve")
    /\ UNCHANGED <<call, idle, workerVars, quotaVars>>

\* self.quota.release_live(tenant_id); raise
Unreserve(t) ==
    /\ pc[t] = "unreserve"
    /\ ReleaseLive(call[t].tenant)
    /\ Return(t, "raised")
    /\ UNCHANGED <<idle, workerVars, sandboxes>>

-----------------------------------------------------------------------------
(* release, invalidate, reap *)

\* release: a worker that cannot be used again is destroyed, the others go back.
Release(t) ==
    LET w == call[t].w IN
    /\ pc[t] = "using"
    /\ aged' = aged \ {w}
    /\ IF w \notin alive \/ w \notin healthy \/ home[w][2] \notin Reuse
       THEN /\ call' = [call EXCEPT ![t] = [op |-> "retire", stale |-> <<w>>]]
            /\ Goto(t, "stale")
       ELSE /\ Goto(t, "append")
            /\ UNCHANGED call
    /\ UNCHANGED <<idle, home, installed, healthy, alive, quotaVars, sandboxes>>

ReleaseAppend(t) ==
    LET w == call[t].w IN
    /\ pc[t] = "append"
    /\ idle' = [idle EXCEPT ![home[w]] = Append(@, w)]
    /\ Return(t, "ready")
    /\ UNCHANGED <<workerVars, quotaVars, sandboxes>>

\* invalidate, by the thread that uses the worker or by a cancel that refers to it.
Invalidate(t) ==
    LET w == call[t].w IN
    /\ pc[t] \in {"using", "ref"}
    /\ healthy' = healthy \ {w}
    /\ call' = [call EXCEPT ![t] = [op |-> "retire", stale |-> <<w>>]]
    /\ Goto(t, "stale")
    /\ UNCHANGED <<idle, home, installed, alive, aged, quotaVars, sandboxes>>

\* Workers that an acquire has created and not returned yet: only that thread knows them.
Unreturned == {call[t].w : t \in {u \in Threads : pc[u] \in {"bootstrap", "undo", "unreserve"}}}

\* cancel takes the Worker of an active invocation, which may have been destroyed already; it
\* calls invalidate later.  By then the worker may be idle again or used by another thread.
CancelRef(t, w) ==
    /\ pc[t] = "ready"
    /\ t \in Callers
    /\ call' = [call EXCEPT ![t] = [op |-> "ref", w |-> w]]
    /\ Goto(t, "ref")
    /\ UNCHANGED <<idle, workerVars, quotaVars, sandboxes>>

\* What reap leaves of a bucket: the workers that have not expired, in their order.
Kept(bucket) ==
    LET kept    == {i \in DOMAIN bucket : ~IdleExpired(bucket[i])}
        rank(i) == Cardinality({j \in kept : j <= i})
    IN  [n \in 1..Cardinality(kept) |-> bucket[CHOOSE i \in kept : rank(i) = n]]

\* reap: the expired workers leave every bucket, the others keep their order.  The buckets
\* are not ordered here, so the expired workers are destroyed in any order.
Reap ==
    LET expired == {w \in IdleWorkers : IdleExpired(w)} IN
    /\ pc[Reaper] = "ready"
    /\ expired # {}
    /\ idle' = [k \in PoolKey |-> Kept(idle[k])]
    /\ \E order \in SetToSeqs(expired) :
            call' = [call EXCEPT ![Reaper] = [op |-> "reap", stale |-> order]]
    /\ Goto(Reaper, "stale")
    /\ UNCHANGED <<workerVars, quotaVars, sandboxes>>

-----------------------------------------------------------------------------
(* _destroy, for every worker of call.stale in turn *)

Busy(t) == pc[t] = "stale" /\ call[t].stale # <<>>

NextStale(t) == [call EXCEPT ![t].stale = Tail(@)]

\* Somebody else has destroyed it.
DestroySkip(t) ==
    /\ Busy(t)
    /\ Head(call[t].stale) \notin alive
    /\ call' = NextStale(t)
    /\ UNCHANGED <<pc, idle, workerVars, quotaVars, sandboxes>>

\* Mutant: the destroyed flag is not looked at.
DestroyAgain(t) ==
    /\ Busy(t)
    /\ alive' = alive \ {Head(call[t].stale)}
    /\ Goto(t, "backend")
    /\ UNCHANGED <<call, idle, home, installed, healthy, aged, quotaVars, sandboxes>>

\* worker.destroyed = True, under the lock.
DestroyMark(t) ==
    /\ Busy(t)
    /\ Head(call[t].stale) \in alive
    /\ alive' = alive \ {Head(call[t].stale)}
    /\ Goto(t, "backend")
    /\ UNCHANGED <<call, idle, home, installed, healthy, aged, quotaVars, sandboxes>>

DestroyBackend(t) ==
    /\ pc[t] = "backend"
    /\ sandboxes' = sandboxes \ {Head(call[t].stale)}
    /\ Goto(t, "release_live")
    /\ UNCHANGED <<call, idle, workerVars, quotaVars>>

\* backend.destroy raises and the sandbox is still there; finally releases the quota.
DestroyBackendFails(t) ==
    /\ pc[t] = "backend"
    /\ "destroy" \in Faults \/ (t = Reaper /\ "reap" \in Faults)
    /\ Goto(t, "release_live_raise")
    /\ UNCHANGED <<call, idle, workerVars, quotaVars, sandboxes>>

DestroyReleaseLive(t) ==
    /\ pc[t] = "release_live"
    /\ ReleaseLive(home[Head(call[t].stale)][1])
    /\ call' = NextStale(t)
    /\ Goto(t, "stale")
    /\ UNCHANGED <<idle, workerVars, sandboxes>>

\* The exception leaves acquire / reap / release / invalidate at once.
DestroyReleaseLiveRaise(t) ==
    /\ pc[t] = "release_live_raise"
    /\ ReleaseLive(home[Head(call[t].stale)][1])
    /\ Return(t, "raised")
    /\ UNCHANGED <<idle, workerVars, sandboxes>>

\* The call is over: acquire's failure is re-raised, the others return.
RetireDone(t) ==
    /\ pc[t] = "stale"
    /\ call[t].op # "acquire"
    /\ call[t].stale = <<>>
    /\ Return(t, IF call[t].op = "fail" THEN "raised" ELSE "ready")
    /\ UNCHANGED <<idle, workerVars, quotaVars, sandboxes>>

\* The caller handles the exception.
Handled(t) ==
    /\ pc[t] = "raised"
    /\ Goto(t, "ready")
    /\ UNCHANGED <<call, idle, workerVars, quotaVars, sandboxes>>

-----------------------------------------------------------------------------
(* Environment *)

\* idle_seconds pass for an idle worker.
Age(w) ==
    /\ w \in IdleWorkers \ aged
    /\ aged' = aged \cup {w}
    /\ UNCHANGED <<pc, call, idle, home, installed, healthy, alive, quotaVars, sandboxes>>

\* The orphan TTL ends the sandbox of a worker that no Python variable refers to.  With
\* "expire" any sandbox may be gone at any moment: one in the pool too, because its TTL is
\* only looked at when acquire takes it out.
SandboxExpires(w) ==
    /\ w \in sandboxes
    /\ w \notin Referenced \/ "expire" \in Faults
    /\ sandboxes' = sandboxes \ {w}
    /\ UNCHANGED <<pc, call, idle, workerVars, quotaVars>>

\* The Runner process dies: objects and counters are gone.
Forget ==
    /\ pc' = [t \in Threads |-> "ready"]
    /\ call' = [t \in Threads |-> NoCall]
    /\ idle' = [k \in PoolKey |-> <<>>]
    /\ home' = [w \in Workers |-> AnyKey]
    /\ installed' = [w \in Workers |-> {}]
    /\ healthy' = {} /\ alive' = {} /\ aged' = {}
    /\ live' = 0
    /\ tenantLive' = [n \in Tenants |-> 0]
    /\ creating' = 0

\* It starts again: reset_after_restart deletes the sandboxes that cleanup_managed finds.
Restart(left) ==
    /\ left \subseteq sandboxes
    /\ left = {} \/ "cleanup" \in Faults
    /\ sandboxes' = left
    /\ Forget

-----------------------------------------------------------------------------
\* The steps of a call once it is under way.
Step(t) ==
    \/ EnsureSandboxTTL(t) \/ RenewFails(t) \/ EnsureRelease(t) \/ InstallFails(t)
    \/ ReserveFails(t) \/ Reserve(t) \/ CreationSlot(t)
    \/ (\E w \in Workers : Create(t, w)) \/ CreateFails(t)
    \/ Bootstrap(t) \/ BootstrapFails(t) \/ UndoCreate(t) \/ Unreserve(t)
    \/ ReleaseAppend(t)
    \/ DestroySkip(t) \/ DestroyMark(t) \/ DestroyBackend(t) \/ DestroyBackendFails(t)
    \/ DestroyReleaseLive(t) \/ DestroyReleaseLiveRaise(t) \/ RetireDone(t) \/ Handled(t)

Next ==
    \/ \E t \in Callers, n \in Tenants, rel \in Releases : AcquirePop(t, n, rel)
    \/ \E t \in Callers : Release(t) \/ Invalidate(t)
    \/ \E t \in Callers, w \in Workers \ Unreturned : CancelRef(t, w)
    \/ \E t \in Threads : Step(t)
    \/ Reap
    \/ \E w \in Workers : Age(w) \/ SandboxExpires(w)
    \/ \E left \in SUBSET sandboxes : Restart(left)

Spec == Init /\ [][Next]_poolVars

-----------------------------------------------------------------------------
(* Properties *)

\* Threads that hold a live token of the quota themselves: between reserve_live and the
\* end of acquire's creation, and between marking a worker destroyed and release_live.
TokenThreads(n) ==
    {t \in Threads :
        \/ pc[t] \in {"slot", "create", "bootstrap", "undo", "unreserve"} /\ call[t].tenant = n
        \/ /\ pc[t] \in {"backend", "release_live", "release_live_raise"}
           /\ home[Head(call[t].stale)][1] = n}

TokenWorkers(n) == {w \in alive : home[w][1] = n}

\* Quota: every token is accounted for, per tenant and in total, whatever fails and whoever
\* races to destroy a worker: release_live runs exactly once for every reserve_live, so the
\* limits max_live and max_live_per_tenant neither drift up nor are exceeded.
QuotaExact ==
    /\ \A n \in Tenants :
          /\ tenantLive[n] = Cardinality(TokenThreads(n)) + Cardinality(TokenWorkers(n))
          /\ tenantLive[n] <= MaxLivePerTenant
    /\ live = Cardinality(UNION {TokenThreads(n) : n \in Tenants}) + Cardinality(alive)
    /\ live <= MaxLive

\* Threads that acquire gave w to, or that are about to get it.
Holders(w) ==
    {t \in Threads : call[t].op \in {"acquire", "use"} /\ call[t].w = w}

\* A worker has one owner: it is in one bucket once and held by nobody, or it is held by one
\* thread.  Two invocations never share a sandbox, and no idle worker is also in use.
Exclusive ==
    /\ \A w \in Workers :
          /\ \A t, u \in Holders(w) : t = u
          /\ Holders(w) # {} => w \notin IdleWorkers
    /\ \A k, m \in PoolKey : \A i \in DOMAIN idle[k], j \in DOMAIN idle[m] :
          idle[k][i] = idle[m][j] => k = m /\ i = j

\* What a caller uses belongs to its own tenant, has the runtime and profile of its release,
\* has that release installed, and never holds more than max_installed_releases.
Isolation ==
    /\ \A t \in Threads : pc[t] = "using" =>
            /\ home[call[t].w] = <<call[t].tenant, FlavorOf[call[t].rel]>>
            /\ call[t].rel \in installed[call[t].w]
    /\ \A w \in Workers : Cardinality(installed[w]) <= MaxInstalled

\* Every worker that was not destroyed can still be destroyed: it is idle, or a thread holds
\* it or has it on its list.  No sandbox and no quota token is lost.
NoLeak == alive \subseteq Referenced

\* Workers that were not destroyed and that nothing in the process can reach.
Lost == alive \ Referenced

\* Whatever the backend refuses: a live worker falls out of the pool only by the exception of a
\* failing deletion, which leaves the loop over stale workers (pool.py:97 and 178), and only
\* when it was on the list, or the candidate, of the thread that raises.
LostOnlyByRaise ==
    [][\A w \in Lost' \ Lost :
          \E t \in Threads :
              pc[t] = "release_live_raise" /\ pc'[t] = "raised" /\ w \in RefersTo(t)]_poolVars

\* src/README.md:130 of max_live: it bounds the sandboxes that exist at the backend, because a
\* token is released only when a sandbox is destroyed.  The code keeps this while every creation
\* is answered, every deletion succeeds and the clean-up after a restart is complete; a
\* creation whose answer is lost, and a deletion that raises, return the token all the same.
LiveBounded == Cardinality(sandboxes) <= MaxLive
=============================================================================
