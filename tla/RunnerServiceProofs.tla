------------------------ MODULE RunnerServiceProofs -------------------------
(***************************************************************************)
(* Machine-checked theorems about RunnerService, the composition of the    *)
(* database and the pool.  The invariants of the two components are taken  *)
(* over from RunnerDBProofs and WorkerPoolProofs: every step of the        *)
(* service is a step of each component, or leaves it alone, or is the      *)
(* crash of the process.                                                   *)
(***************************************************************************)
EXTENDS RunnerService, TLAPS

DBP == INSTANCE RunnerDBProofs

PoolP == INSTANCE WorkerPoolProofs

-----------------------------------------------------------------------------
(* The service's components are the ones the component proofs are about *)

\* The assumptions of the component proofs.
LEMMA Components == DBP!DBAssumption /\ PoolP!PoolAssumption
BY ServiceAssumption
   DEF DB!DBAssumption, DBP!DBAssumption, Pool!PoolAssumption, PoolP!PoolAssumption,
       Pool!IsFiniteSet, PoolP!IsFiniteSet

\* The steps of acquire before it creates a sandbox.
LEMMA SameAcquire ==
    ASSUME NEW t
    PROVE  /\ \A n, rel : Pool!AcquirePop(t, n, rel) => PoolP!AcquirePop(t, n, rel)
           /\ Pool!EnsureSandboxTTL(t) => PoolP!EnsureSandboxTTL(t)
           /\ Pool!RenewFails(t) => PoolP!RenewFails(t)
           /\ Pool!EnsureRelease(t) => PoolP!EnsureRelease(t)
           /\ Pool!InstallFails(t) => PoolP!InstallFails(t)
           /\ Pool!ReserveFails(t) => PoolP!ReserveFails(t)
           /\ Pool!Reserve(t) => PoolP!Reserve(t)
           /\ Pool!CreationSlot(t) => PoolP!CreationSlot(t)
<1> USE DEF Pool!Goto, PoolP!Goto, Pool!Return, PoolP!Return, Pool!NoCall, PoolP!NoCall,
            Pool!workerVars, PoolP!workerVars, Pool!quotaVars, PoolP!quotaVars,
            Pool!PastStale, PoolP!PastStale, Pool!AcquireFails, PoolP!AcquireFails,
            Pool!QuotaReached, PoolP!QuotaReached, Pool!ReserveLive, PoolP!ReserveLive
<1>1. ASSUME NEW n, NEW rel, Pool!AcquirePop(t, n, rel) PROVE PoolP!AcquirePop(t, n, rel)
  BY <1>1 DEF Pool!AcquirePop, PoolP!AcquirePop, Pool!AcquireWith, PoolP!AcquireWith,
              Pool!IsCandidate, PoolP!IsCandidate, Pool!Usable, PoolP!Usable,
              Pool!IdleExpired, PoolP!IdleExpired, Pool!Full, PoolP!Full, Pool!KeyFor,
              PoolP!KeyFor, Pool!Reverse, PoolP!Reverse, Pool!Cardinality, PoolP!Cardinality
<1>2. Pool!EnsureSandboxTTL(t) => PoolP!EnsureSandboxTTL(t)
  BY DEF Pool!EnsureSandboxTTL, PoolP!EnsureSandboxTTL
<1>3. Pool!RenewFails(t) => PoolP!RenewFails(t)
  BY DEF Pool!RenewFails, PoolP!RenewFails
<1>4. Pool!EnsureRelease(t) => PoolP!EnsureRelease(t)
  BY DEF Pool!EnsureRelease, PoolP!EnsureRelease
<1>5. Pool!InstallFails(t) => PoolP!InstallFails(t)
  BY DEF Pool!InstallFails, PoolP!InstallFails
<1>6. Pool!ReserveFails(t) => PoolP!ReserveFails(t)
  BY DEF Pool!ReserveFails, PoolP!ReserveFails
<1>7. Pool!Reserve(t) => PoolP!Reserve(t)
  BY DEF Pool!Reserve, PoolP!Reserve
<1>8. Pool!CreationSlot(t) => PoolP!CreationSlot(t)
  BY DEF Pool!CreationSlot, PoolP!CreationSlot
<1> QED
  BY <1>1, <1>2, <1>3, <1>4, <1>5, <1>6, <1>7, <1>8

\* The steps of acquire that create a sandbox, and their undoing.
LEMMA SameCreate ==
    ASSUME NEW t
    PROVE  /\ \A w : Pool!Create(t, w) => PoolP!Create(t, w)
           /\ Pool!CreateFails(t) => PoolP!CreateFails(t)
           /\ Pool!Bootstrap(t) => PoolP!Bootstrap(t)
           /\ Pool!BootstrapFails(t) => PoolP!BootstrapFails(t)
           /\ Pool!UndoCreate(t) => PoolP!UndoCreate(t)
           /\ Pool!Unreserve(t) => PoolP!Unreserve(t)
<1> USE DEF Pool!Goto, PoolP!Goto, Pool!Return, PoolP!Return, Pool!NoCall, PoolP!NoCall,
            Pool!workerVars, PoolP!workerVars, Pool!quotaVars, PoolP!quotaVars,
            Pool!Referenced, PoolP!Referenced,
            Pool!IdleWorkers, PoolP!IdleWorkers, Pool!RefersTo, PoolP!RefersTo, Pool!ToSet,
            PoolP!ToSet, Pool!Threads, PoolP!Threads, Pool!PoolKey, PoolP!PoolKey,
            Pool!ReleaseLive, PoolP!ReleaseLive
<1>1. \A w : Pool!Create(t, w) => PoolP!Create(t, w)
  BY DEF Pool!Create, PoolP!Create
<1>2. Pool!CreateFails(t) => PoolP!CreateFails(t)
  BY DEF Pool!CreateFails, PoolP!CreateFails
<1>3. Pool!Bootstrap(t) => PoolP!Bootstrap(t)
  BY DEF Pool!Bootstrap, PoolP!Bootstrap
<1>4. Pool!BootstrapFails(t) => PoolP!BootstrapFails(t)
  BY DEF Pool!BootstrapFails, PoolP!BootstrapFails
<1>5. Pool!UndoCreate(t) => PoolP!UndoCreate(t)
  BY DEF Pool!UndoCreate, PoolP!UndoCreate
<1>6. Pool!Unreserve(t) => PoolP!Unreserve(t)
  BY DEF Pool!Unreserve, PoolP!Unreserve
<1> QED
  BY <1>1, <1>2, <1>3, <1>4, <1>5, <1>6

\* release and invalidate, and the steps of _destroy.
LEMMA SameRetire ==
    ASSUME NEW t
    PROVE  /\ Pool!Release(t) => PoolP!Release(t)
           /\ Pool!ReleaseAppend(t) => PoolP!ReleaseAppend(t)
           /\ Pool!Invalidate(t) => PoolP!Invalidate(t)
           /\ Pool!DestroySkip(t) => PoolP!DestroySkip(t)
           /\ Pool!DestroyMark(t) => PoolP!DestroyMark(t)
           /\ Pool!DestroyBackend(t) => PoolP!DestroyBackend(t)
           /\ Pool!DestroyBackendFails(t) => PoolP!DestroyBackendFails(t)
           /\ Pool!DestroyReleaseLive(t) => PoolP!DestroyReleaseLive(t)
           /\ Pool!DestroyReleaseLiveRaise(t) => PoolP!DestroyReleaseLiveRaise(t)
           /\ Pool!RetireDone(t) => PoolP!RetireDone(t)
           /\ Pool!Handled(t) => PoolP!Handled(t)
<1> USE DEF Pool!Goto, PoolP!Goto, Pool!Return, PoolP!Return, Pool!NoCall, PoolP!NoCall,
            Pool!workerVars, PoolP!workerVars, Pool!quotaVars, PoolP!quotaVars,
            Pool!ReleaseLive, PoolP!ReleaseLive,
            Pool!Busy, PoolP!Busy, Pool!NextStale, PoolP!NextStale
<1>1. Pool!Release(t) => PoolP!Release(t)
  BY DEF Pool!Release, PoolP!Release
<1>2. Pool!ReleaseAppend(t) => PoolP!ReleaseAppend(t)
  BY DEF Pool!ReleaseAppend, PoolP!ReleaseAppend
<1>3. Pool!Invalidate(t) => PoolP!Invalidate(t)
  BY DEF Pool!Invalidate, PoolP!Invalidate
<1>4. Pool!DestroySkip(t) => PoolP!DestroySkip(t)
  BY DEF Pool!DestroySkip, PoolP!DestroySkip
<1>5. Pool!DestroyMark(t) => PoolP!DestroyMark(t)
  BY DEF Pool!DestroyMark, PoolP!DestroyMark
<1>6. Pool!DestroyBackend(t) => PoolP!DestroyBackend(t)
  BY DEF Pool!DestroyBackend, PoolP!DestroyBackend
<1>7. Pool!DestroyBackendFails(t) => PoolP!DestroyBackendFails(t)
  BY DEF Pool!DestroyBackendFails, PoolP!DestroyBackendFails
<1>8. Pool!DestroyReleaseLive(t) => PoolP!DestroyReleaseLive(t)
  BY DEF Pool!DestroyReleaseLive, PoolP!DestroyReleaseLive
<1>9. Pool!DestroyReleaseLiveRaise(t) => PoolP!DestroyReleaseLiveRaise(t)
  BY DEF Pool!DestroyReleaseLiveRaise, PoolP!DestroyReleaseLiveRaise
<1>10. Pool!RetireDone(t) => PoolP!RetireDone(t)
  BY DEF Pool!RetireDone, PoolP!RetireDone
<1>11. Pool!Handled(t) => PoolP!Handled(t)
  BY DEF Pool!Handled, PoolP!Handled
<1> QED
  BY <1>1, <1>2, <1>3, <1>4, <1>5, <1>6, <1>7, <1>8, <1>9, <1>10, <1>11

\* A step of a thread inside the pool.
LEMMA SameStep == \A t : Pool!Step(t) => PoolP!Step(t)
<1> SUFFICES ASSUME NEW t, Pool!Step(t) PROVE PoolP!Step(t)
    OBVIOUS
<1> QED
  BY SameAcquire, SameCreate, SameRetire DEF Pool!Step, PoolP!Step

\* cancel, reap, the clock and the sandboxes.
LEMMA SameOthers ==
    /\ \A t, w : Pool!CancelRef(t, w) => PoolP!CancelRef(t, w)
    /\ Pool!Reap => PoolP!Reap
    /\ \A w : Pool!Age(w) => PoolP!Age(w)
    /\ \A w : Pool!SandboxExpires(w) => PoolP!SandboxExpires(w)
    /\ Pool!Forget => PoolP!Forget
    /\ \A left : Pool!Restart(left) => PoolP!Restart(left)
<1> USE DEF Pool!Goto, PoolP!Goto, Pool!Return, PoolP!Return, Pool!NoCall, PoolP!NoCall,
            Pool!workerVars, PoolP!workerVars, Pool!quotaVars, PoolP!quotaVars,
            Pool!Referenced, PoolP!Referenced,
            Pool!IdleWorkers, PoolP!IdleWorkers, Pool!RefersTo, PoolP!RefersTo, Pool!ToSet,
            PoolP!ToSet, Pool!Threads, PoolP!Threads, Pool!PoolKey, PoolP!PoolKey
<1>1. \A t, w : Pool!CancelRef(t, w) => PoolP!CancelRef(t, w)
  BY DEF Pool!CancelRef, PoolP!CancelRef
<1>2. Pool!Reap => PoolP!Reap
  BY DEF Pool!Reap, PoolP!Reap, Pool!IdleExpired, PoolP!IdleExpired, Pool!Kept, PoolP!Kept,
         Pool!SetToSeqs, PoolP!SetToSeqs, Pool!Cardinality, PoolP!Cardinality,
         Pool!IsInjective, PoolP!IsInjective
<1>3. \A w : Pool!Age(w) => PoolP!Age(w)
  BY DEF Pool!Age, PoolP!Age
<1>4. \A w : Pool!SandboxExpires(w) => PoolP!SandboxExpires(w)
  BY DEF Pool!SandboxExpires, PoolP!SandboxExpires
<1>5. Pool!Forget => PoolP!Forget
  BY DEF Pool!Forget, PoolP!Forget, Pool!AnyKey, PoolP!AnyKey
<1>6. \A left : Pool!Restart(left) => PoolP!Restart(left)
  BY <1>5 DEF Pool!Restart, PoolP!Restart
<1> QED
  BY <1>1, <1>2, <1>3, <1>4, <1>5, <1>6

\* The statements of the database.
LEMMA SameTables ==
    /\ DB!Tick => DBP!Tick
    /\ \A l, n, p, rel : DB!CreateLease(l, n, p, rel) => DBP!CreateLease(l, n, p, rel)
    /\ \A l, n : DB!RenewLeaseCheck(l, n) => DBP!RenewLeaseCheck(l, n)
    /\ \A l, n : DB!RenewLeaseUpdate(l, n) => DBP!RenewLeaseUpdate(l, n)
    /\ \A l, n : DB!DeleteLease(l, n) => DBP!DeleteLease(l, n)
    /\ DB!PurgeExpiredLeases => DBP!PurgeExpiredLeases
    /\ \A req, r : DB!BeginRun(req, r) => DBP!BeginRun(req, r)
    /\ \A r, res : DB!FinishRun(r, res) => DBP!FinishRun(r, res)
    /\ \A r : DB!AbandonRun(r) => DBP!AbandonRun(r)
    /\ DB!ResetRunning => DBP!ResetRunning
    /\ DB!PurgeExpiredIdempotency => DBP!PurgeExpiredIdempotency
    /\ DB!PurgeOldRuns => DBP!PurgeOldRuns
<1> USE DEF DB!leaseVars, DBP!leaseVars, DB!runVars, DBP!runVars, DB!Absent, DBP!Absent,
            DB!Exists, DBP!Exists, DB!KeyId, DBP!KeyId, DB!KeyOf, DBP!KeyOf, DB!LeaseValid,
            DBP!LeaseValid, DB!CacheValid, DBP!CacheValid, DB!BeginClaims, DBP!BeginClaims,
            DB!OwnsKey, DBP!OwnsKey, DB!FinishRunAccepts, DBP!FinishRunAccepts, DB!OutcomeClass,
            DBP!OutcomeClass, DB!ExpiresAt, DBP!ExpiresAt, DB!Abandoned, DBP!Abandoned,
            DB!StillReplayed, DBP!StillReplayed
<1>1. DB!Tick => DBP!Tick
  BY DEF DB!Tick, DBP!Tick
<1>2. \A l, n, p, rel : DB!CreateLease(l, n, p, rel) => DBP!CreateLease(l, n, p, rel)
  BY DEF DB!CreateLease, DBP!CreateLease
<1>3. \A l, n : DB!RenewLeaseCheck(l, n) => DBP!RenewLeaseCheck(l, n)
  BY DEF DB!RenewLeaseCheck, DBP!RenewLeaseCheck
<1>4. \A l, n : DB!RenewLeaseUpdate(l, n) => DBP!RenewLeaseUpdate(l, n)
  BY DEF DB!RenewLeaseUpdate, DBP!RenewLeaseUpdate
<1>5. \A l, n : DB!DeleteLease(l, n) => DBP!DeleteLease(l, n)
  BY DEF DB!DeleteLease, DBP!DeleteLease
<1>6. DB!PurgeExpiredLeases => DBP!PurgeExpiredLeases
  BY DEF DB!PurgeExpiredLeases, DBP!PurgeExpiredLeases
<1>7. \A req, r : DB!BeginRun(req, r) => DBP!BeginRun(req, r)
  BY DEF DB!BeginRun, DBP!BeginRun
<1>8. \A r, res : DB!FinishRun(r, res) => DBP!FinishRun(r, res)
  BY DEF DB!FinishRun, DBP!FinishRun
<1>9. \A r : DB!AbandonRun(r) => DBP!AbandonRun(r)
  BY DEF DB!AbandonRun, DBP!AbandonRun
<1>10. DB!ResetRunning => DBP!ResetRunning
  BY DEF DB!ResetRunning, DBP!ResetRunning
<1>11. DB!PurgeExpiredIdempotency => DBP!PurgeExpiredIdempotency
  BY DEF DB!PurgeExpiredIdempotency, DBP!PurgeExpiredIdempotency
<1>12. DB!PurgeOldRuns => DBP!PurgeOldRuns
  BY DEF DB!PurgeOldRuns, DBP!PurgeOldRuns
<1> QED
  BY <1>1, <1>2, <1>3, <1>4, <1>5, <1>6, <1>7, <1>8, <1>9, <1>10, <1>11, <1>12

-----------------------------------------------------------------------------
(* The inductive invariant *)

\* Where invoke has a run id.
RunPlaces == {"acquire", "acquiring", "duplicate", "run", "running", "finish", "cleanup",
              "releasing", "fail", "failing", "abandon", "leave"}

\* Where invoke has a worker that the pool returned and that it has not given back.
UsingPlaces == {"run", "running", "finish", "cleanup", "fail"}

CheckJob == [inv: InvocationIds, lease: LeaseIds, req: DB!Request]

RunJob == [inv: InvocationIds, lease: LeaseIds, req: DB!Request, run: RunIds]

DoneJob == [inv: InvocationIds, lease: LeaseIds, req: DB!Request, run: RunIds,
            result: RunResults]

CancelJob == [inv: InvocationIds, tenant: Tenants, lease: LeaseIds]

Jobs == CheckJob \cup RunJob \cup DoneJob \cup CancelJob \cup {NoJob}

\* The locals j that a thread has at place p.
JobFits(p, j) ==
    /\ p \in {"check", "begin"} => j \in CheckJob
    /\ p \in RunPlaces => j \in RunJob \cup DoneJob
    /\ p \in {"finish", "cleanup"} => j \in DoneJob
    /\ p = "cancel" => j \in CancelJob

\* Service locals and pool locals of every thread go together.
ThreadsFit ==
    /\ job \in [Threads -> Jobs]
    /\ \A t \in Threads : JobFits(spc[t], job[t]) /\ (spc[t] \in UsingPlaces => pc[t] = "using")

\* Nobody serves or destroys anything while the process is down or starts up.
DownQuiet ==
    phase # "up" => \A t \in Threads : spc[t] \in {"idle", "reap"} /\ pc[t] = "ready"

\* The worker of an _active entry was returned by acquire.
ActiveReturned ==
    \A i \in InvocationIds : active[i] # NotActive => active[i].worker \notin PoolP!Unreturned

\* Sandboxes that execute something exist, are not in the pool, and are held by nobody but the
\* invoke that waits for that execution or is about to destroy the sandbox.
ExecOwned ==
    \A e \in exec :
        /\ e[1] \in sandboxes
        /\ e[1] \notin Pool!IdleWorkers
        /\ \A t \in Threads : t \in Pool!Holders(e[1]) =>
                spc[t] \in {"running", "fail"} /\ job[t].run = e[2]

SvcTyped ==
    /\ spc \in [Threads -> ServicePlaces]
    /\ active \in [InvocationIds -> ActiveRun \cup {NotActive}]
    /\ lock \in Callers \cup {NoThread}
    /\ exec \subseteq Workers \X RunIds
    /\ phase \in Phases

SInv ==
    /\ DBP!IInv /\ PoolP!Typed /\ PoolP!Owned
    /\ SvcTyped /\ ThreadsFit /\ DownQuiet
    /\ ActiveReturned /\ ExecOwned

-----------------------------------------------------------------------------
(* ... and what ExecClaimed needs of it *)

\* begin_run never answers twice with a run id, so no two calls have the same one.
RunsOwn ==
    /\ \A t \in Callers : spc[t] \in RunPlaces => DB!Exists(claims[job[t].run])
    /\ \A t, u \in Callers : spc[t] \in RunPlaces /\ spc[u] \in RunPlaces =>
            (job[t].run = job[u].run => t = u)

\* Up to finish_run the run of a call is RUNNING.
RunsClaimed ==
    \A t \in Callers :
        spc[t] \in {"acquire", "acquiring", "duplicate", "run", "running", "finish"} =>
            runs[job[t].run].state = "RUNNING"

\* A run is sent to one sandbox, once.
ExecOnce ==
    /\ \A e \in exec : DB!Exists(claims[e[2]])
    /\ \A t \in Callers : spc[t] \in {"acquire", "acquiring", "duplicate", "run"} =>
            \A e \in exec : e[2] # job[t].run
    /\ \A d, e \in exec : d[2] = e[2] => d = e

\* The invoke that waits for an execution, or that is about to destroy its sandbox.
Waits(t, e) ==
    /\ \/ spc[t] \in {"running", "fail"} /\ call[t].w = e[1]
       \/ spc[t] = "failing" /\ pc[t] = "stale" /\ call[t].stale = <<e[1]>>
    /\ job[t].run = e[2]

\* An execution whose sandbox is not being deleted has somebody who waits for it or will
\* destroy it before the run is given up.
ExecWaited ==
    phase # "down" => \A e \in exec :
        \/ Doomed(e[1])
        \/ /\ e[1] \in alive
           /\ runs[e[2]].state = "RUNNING"
           /\ \E t \in Callers : Waits(t, e)

\* What the maintenance loop destroys is out of reach of the others, and quiet.
ReaperOwns ==
    /\ call[Reaper].op \in {"none", "reap"}
    /\ call[Reaper].op = "reap" => \A w \in Pool!ToSet(call[Reaper].stale) :
            /\ w \notin Pool!IdleWorkers
            /\ Pool!Holders(w) = {}
            /\ \A e \in exec : e[1] # w

\* A sandbox whose worker is marked as destroyed while somebody holds it is being deleted.
HeldStands ==
    \A t \in Threads : \A w \in sandboxes :
        t \in Pool!Holders(w) /\ pc[t] \notin PoolP!Unborn => w \in alive \/ Doomed(w)

CInv == RunsOwn /\ RunsClaimed /\ ExecOnce /\ ExecWaited /\ ReaperOwns /\ HeldStands

-----------------------------------------------------------------------------
(* The components keep their invariants *)

\* The locals of a thread in invoke or cancel.
LEMMA JobParts ==
    ASSUME ThreadsFit, NEW t \in Callers
    PROVE  /\ spc[t] \in {"check", "begin"} \cup RunPlaces =>
                  job[t].inv \in InvocationIds /\ job[t].lease \in LeaseIds
                  /\ job[t].req \in DB!Request
           /\ spc[t] \in RunPlaces => job[t].run \in RunIds
           /\ spc[t] \in {"finish", "cleanup"} => job[t].result \in RunResults
           /\ spc[t] = "cancel" => job[t].inv \in InvocationIds
BY DEF ThreadsFit, JobFits, Threads, CheckJob, RunJob, DoneJob, CancelJob

\* A step of an invoke or a cancel is one statement of the database, or none.
LEMMA CallTables ==
    ASSUME SInv, NEW t \in Callers, CallStep(t)
    PROVE  DBP!Next \/ UNCHANGED DBP!dbVars
<1>0. ThreadsFit
  BY DEF SInv
<1>r. DB!Request = DBP!Request /\ DB!Result = DBP!Result /\ RunResults \subseteq DBP!Result
  BY ServiceAssumption DEF DB!Request, DBP!Request, DB!Result, DBP!Result
<1>u. ASSUME UNCHANGED dbVars PROVE UNCHANGED DBP!dbVars
  BY <1>u DEF dbVars, DBP!dbVars
<1>1. ASSUME NEW r \in RunIds, InvokeBegin(t, r) \/ InvokeBeginLost(t, r) PROVE DBP!Next
  <2>1. spc[t] = "begin" /\ DB!BeginRun(job[t].req, r)
    BY <1>1 DEF InvokeBegin, InvokeBeginLost
  <2>2. PICK req \in DBP!Request : req = job[t].req
    BY <1>0, <1>r, <2>1, JobParts
  <2>3. DBP!BeginRun(req, r)
    BY <2>1, <2>2, SameTables
  <2> QED
    BY <2>3 DEF DBP!Next
<1>2. CASE InvokeFinish(t) \/ InvokeFinishRaises(t)
  <2>1. spc[t] = "finish" /\ (UNCHANGED dbVars \/ DB!FinishRun(job[t].run, job[t].result))
    BY <1>2 DEF InvokeFinish, InvokeFinishRaises
  <2>2. PICK r \in RunIds : r = job[t].run
    BY <1>0, <2>1, JobParts DEF RunPlaces
  <2>3. PICK res \in DBP!Result : res = job[t].result
    BY <1>0, <1>r, <2>1, JobParts
  <2>4. CASE DB!FinishRun(job[t].run, job[t].result)
    <3>1. DBP!FinishRun(r, res)
      BY <2>2, <2>3, <2>4, SameTables
    <3> QED
      BY <3>1 DEF DBP!Next
  <2> QED
    BY <1>u, <2>1, <2>4
<1>3. CASE InvokeAbandon(t)
  <2>1. spc[t] = "abandon" /\ DB!AbandonRun(job[t].run)
    BY <1>3 DEF InvokeAbandon
  <2>2. PICK r \in RunIds : r = job[t].run
    BY <1>0, <2>1, JobParts DEF RunPlaces
  <2>3. DBP!AbandonRun(r)
    BY <2>1, <2>2, SameTables
  <2> QED
    BY <2>3 DEF DBP!Next
<1>4. CASE InvokeCheck(t) \/ InvokeReplayed(t) \/ InvokeAcquire(t) \/ InvokeAcquireRaised(t)
           \/ InvokeRegister(t) \/ InvokeDuplicate(t) \/ InvokeDuplicateDone(t)
  <2>1. UNCHANGED dbVars
    BY <1>4 DEF InvokeCheck, InvokeReplayed, InvokeAcquire, InvokeAcquireRaised, InvokeRegister,
                InvokeDuplicate, InvokeDuplicateDone
  <2> QED
    BY <1>u, <2>1
<1>5. CASE InvokeRun(t) \/ (\E res \in RunResults : InvokeAnswer(t, res)) \/ InvokeRunRaises(t)
           \/ InvokeCleanup(t) \/ InvokeCleanupDone(t) \/ InvokeFail(t) \/ InvokeFailDone(t)
           \/ InvokeAbandonRaises(t) \/ InvokeLeave(t)
  <2>1. UNCHANGED dbVars
    BY <1>5 DEF InvokeRun, InvokeAnswer, InvokeRunRaises, InvokeCleanup, InvokeCleanupDone,
                InvokeFail, InvokeFailDone, InvokeAbandonRaises, InvokeLeave
  <2> QED
    BY <1>u, <2>1
<1>6. CASE CancelRefused(t) \/ CancelPop(t) \/ CancelInvalidate(t) \/ CancelDone(t) \/ PoolStep(t)
  <2>1. UNCHANGED dbVars
    BY <1>6 DEF CancelRefused, CancelPop, CancelInvalidate, CancelDone, PoolStep
  <2> QED
    BY <1>u, <2>1
<1> QED
  BY <1>1, <1>2, <1>3, <1>4, <1>5, <1>6 DEF CallStep

\* The tables survive a crash; what renew_lease was about to write does not.
LEMMA CrashTables ==
    ASSUME DBP!IInv, Crash
    PROVE  DBP!IInv'
<1>1. UNCHANGED <<now, leases, leased, keys, runs, claims>> /\ renewing' = {}
  BY DEF Crash
<1>2. DBP!TypeOK'
  BY <1>1 DEF DBP!IInv, DBP!TypeOK
<1>3. (DBP!RowsClaimed /\ DBP!ClaimsInStep /\ DBP!ResultsBacked)'
  BY <1>1 DEF DBP!IInv, DBP!RowsClaimed, DBP!ClaimsInStep, DBP!ResultsBacked
<1> QED
  BY <1>2, <1>3 DEF DBP!IInv

\* Every step of the service but a crash is one statement of the database, or none.
LEMMA StepTables ==
    ASSUME SInv, Next
    PROVE  DBP!Next \/ UNCHANGED DBP!dbVars \/ Crash
<1>u. ASSUME UNCHANGED dbVars PROVE UNCHANGED DBP!dbVars
  BY <1>u DEF dbVars, DBP!dbVars
<1>1. CASE LeaseCall
  BY <1>1, SameTables DEF LeaseCall, DBP!Next
<1>2. ASSUME NEW t \in Callers, CallStep(t) PROVE DBP!Next \/ UNCHANGED DBP!dbVars
  BY <1>2, CallTables
<1>3. CASE StartupReset \/ StartupPurgeLeases \/ StartupPurgeKeys
  BY <1>3, SameTables DEF StartupReset, StartupPurgeLeases, StartupPurgeKeys, DBP!Next
<1>4. CASE PurgeLeases \/ PurgeKeys \/ PurgeRuns
  <2>1. DBP!Next \/ UNCHANGED dbVars
    BY <1>4, SameTables DEF PurgeLeases, PurgeKeys, PurgeRuns, DBP!Next
  <2> QED
    BY <1>u, <2>1
<1>5. CASE Environment
  <2>1. CASE DB!Tick
    BY <2>1, SameTables DEF DBP!Next
  <2>2. CASE UNCHANGED dbVars
    BY <1>u, <2>2
  <2> QED
    BY <1>5, <2>1, <2>2 DEF Environment
<1>6. CASE ReapStart \/ ReapDone \/ ReapRaised \/ PoolStep(Reaper)
           \/ \E left \in SUBSET sandboxes : StartupCleanup(left)
  <2>1. UNCHANGED dbVars
    BY <1>6 DEF ReapStart, ReapDone, ReapRaised, PoolStep, StartupCleanup
  <2> QED
    BY <1>u, <2>1
<1>7. CASE \/ \E t \in Callers, i \in InvocationIds, l \in LeaseIds, req \in DB!Request :
                  InvokeStart(t, i, l, req)
           \/ \E t \in Callers, n \in Tenants, l \in LeaseIds, i \in InvocationIds :
                  CancelStart(t, n, l, i)
           \/ \E w \in Workers, r \in RunIds : ExecEnds(w, r)
  <2>1. UNCHANGED dbVars
    BY <1>7 DEF InvokeStart, CancelStart, ExecEnds
  <2> QED
    BY <1>u, <2>1
<1> QED
  BY <1>1, <1>2, <1>3, <1>4, <1>5, <1>6, <1>7 DEF Next, Maintenance, Startup

\* The service keeps the invariant of the tables.
LEMMA ServiceTables ==
    ASSUME SInv, Next
    PROVE  DBP!IInv'
<1>0. DBP!IInv
  BY DEF SInv
<1>1. ASSUME DBP!Next \/ UNCHANGED DBP!dbVars PROVE DBP!IInv'
  BY <1>0, <1>1, Components, DBP!InvStep
<1>2. CASE Crash
  BY <1>0, <1>2, CrashTables
<1> QED
  BY <1>1, <1>2, StepTables

\* A step of an invoke or a cancel is one step of the pool, or none.
LEMMA CallPool ==
    ASSUME SInv, NEW t \in Callers, CallStep(t)
    PROVE  PoolP!Next \/ UNCHANGED PoolP!poolVars
<1>0. ThreadsFit /\ SvcTyped /\ ActiveReturned /\ t \in PoolP!Threads
  BY DEF SInv, PoolP!Threads
<1>u. ASSUME UNCHANGED poolVars PROVE UNCHANGED PoolP!poolVars
  BY <1>u DEF poolVars, PoolP!poolVars
<1>1. CASE InvokeAcquire(t)
  <2>1. spc[t] = "acquire" /\ Pool!AcquirePop(t, job[t].req.tenant, job[t].req.release)
    BY <1>1 DEF InvokeAcquire
  <2>2. job[t].req \in DB!Request
    BY <1>0, <2>1, JobParts DEF RunPlaces
  <2>3. PICK n \in Tenants, rel \in Releases : n = job[t].req.tenant /\ rel = job[t].req.release
    BY <2>2 DEF DB!Request
  <2>4. PoolP!AcquirePop(t, n, rel)
    BY <2>1, <2>3, SameAcquire
  <2> QED
    BY <2>4 DEF PoolP!Next
<1>2. CASE InvokeDuplicate(t) \/ InvokeCleanup(t) \/ InvokeFail(t) \/ CancelInvalidate(t)
  <2>1. Pool!Release(t) \/ Pool!Invalidate(t)
    BY <1>2 DEF InvokeDuplicate, InvokeCleanup, InvokeFail, CancelInvalidate
  <2> QED
    BY <2>1, SameRetire DEF PoolP!Next
<1>3. CASE CancelPop(t)
  <2>1. /\ spc[t] = "cancel" /\ active[job[t].inv] # NotActive
        /\ Pool!CancelRef(t, active[job[t].inv].worker)
    BY <1>3 DEF CancelPop, Owns
  <2>2. PICK i \in InvocationIds : i = job[t].inv
    BY <1>0, <2>1, JobParts
  <2>3. active[i] \in ActiveRun
    BY <1>0, <2>1, <2>2 DEF SvcTyped
  <2>4. PICK w \in Workers \ PoolP!Unreturned : w = active[i].worker
    BY <1>0, <2>1, <2>2, <2>3 DEF ActiveReturned, ActiveRun
  <2>5. PoolP!CancelRef(t, w)
    BY <2>1, <2>2, <2>4, SameOthers
  <2> QED
    BY <2>5 DEF PoolP!Next
<1>4. CASE PoolStep(t) \/ InvokeAcquireRaised(t)
  <2>1. Pool!Step(t)
    BY <1>4 DEF PoolStep, InvokeAcquireRaised, Pool!Step
  <2>2. PoolP!Step(t)
    BY <2>1, SameStep
  <2> QED
    BY <1>0, <2>2 DEF PoolP!Next
<1>5. CASE InvokeCheck(t) \/ InvokeReplayed(t) \/ InvokeRegister(t) \/ InvokeDuplicateDone(t)
           \/ (\E r \in RunIds : InvokeBegin(t, r) \/ InvokeBeginLost(t, r))
           \/ InvokeRun(t) \/ (\E res \in RunResults : InvokeAnswer(t, res)) \/ InvokeRunRaises(t)
  <2>1. UNCHANGED poolVars
    BY <1>5 DEF InvokeCheck, InvokeReplayed, InvokeRegister, InvokeDuplicateDone, InvokeBegin,
                InvokeBeginLost, InvokeRun, InvokeAnswer, InvokeRunRaises
  <2> QED
    BY <1>u, <2>1
<1>6. CASE InvokeFinish(t) \/ InvokeFinishRaises(t) \/ InvokeCleanupDone(t) \/ InvokeFailDone(t)
           \/ InvokeAbandon(t) \/ InvokeAbandonRaises(t) \/ InvokeLeave(t)
           \/ CancelRefused(t) \/ CancelDone(t)
  <2>1. UNCHANGED poolVars
    BY <1>6 DEF InvokeFinish, InvokeFinishRaises, InvokeCleanupDone, InvokeFailDone,
                InvokeAbandon, InvokeAbandonRaises, InvokeLeave, CancelRefused, CancelDone
  <2> QED
    BY <1>u, <2>1
<1> QED
  BY <1>1, <1>2, <1>3, <1>4, <1>5, <1>6 DEF CallStep

\* The service keeps the invariants of the pool.
LEMMA ServicePool ==
    ASSUME SInv, Next
    PROVE  (PoolP!Typed /\ PoolP!Owned)'
<1>0. PoolP!Typed /\ PoolP!Owned
  BY DEF SInv
<1>n. ASSUME PoolP!Next PROVE (PoolP!Typed /\ PoolP!Owned)'
  BY <1>0, <1>n, Components, PoolP!NextTyped, PoolP!NextOwned
<1>u. ASSUME UNCHANGED poolVars PROVE (PoolP!Typed /\ PoolP!Owned)'
  <2>1. UNCHANGED PoolP!poolVars
    BY <1>u DEF poolVars, PoolP!poolVars
  <2> QED
    BY <1>0, <2>1, Components, PoolP!StutterTyped, PoolP!StutterOwned
<1>1. ASSUME NEW t \in Callers, CallStep(t) PROVE (PoolP!Typed /\ PoolP!Owned)'
  <2>1. CASE PoolP!Next
    BY <1>n, <2>1
  <2>2. CASE UNCHANGED PoolP!poolVars
    BY <1>0, <2>2, Components, PoolP!StutterTyped, PoolP!StutterOwned
  <2> QED
    BY <1>1, <2>1, <2>2, CallPool
<1>2. CASE ReapStart \/ ReapRaised \/ PoolStep(Reaper)
  <2>1. Pool!Reap \/ Pool!Step(Reaper)
    BY <1>2 DEF ReapStart, ReapRaised, PoolStep, Pool!Step
  <2>2. PoolP!Reap \/ PoolP!Step(Reaper)
    BY <2>1, SameStep, SameOthers
  <2>3. PoolP!Next
    BY <2>2 DEF PoolP!Next, PoolP!Threads
  <2> QED
    BY <1>n, <2>3
<1>3. CASE Crash
  <2>1. PoolP!Forget /\ sandboxes' \subseteq Workers
    BY <1>0, <1>3, SameOthers DEF Crash, PoolP!Typed, PoolP!TypeOK
  <2> QED
    BY <2>1, Components, PoolP!ForgetTyped, PoolP!ForgetOwned
<1>4. ASSUME NEW left \in SUBSET sandboxes, StartupCleanup(left)
      PROVE  (PoolP!Typed /\ PoolP!Owned)'
  <2>1. PoolP!Restart(left)
    BY <1>4, SameOthers DEF StartupCleanup
  <2>2. PoolP!Next
    BY <2>1 DEF PoolP!Next
  <2> QED
    BY <1>n, <2>2
<1>5. CASE Environment
  <2>1. CASE UNCHANGED poolVars
    BY <1>u, <2>1
  <2>2. ASSUME NEW w \in Workers, Pool!Age(w) \/ Pool!SandboxExpires(w)
        PROVE  PoolP!Next
    BY <2>2, SameOthers DEF PoolP!Next
  <2> QED
    BY <1>5, <1>n, <2>1, <2>2 DEF Environment
<1>6. CASE LeaseCall \/ ReapDone \/ PurgeLeases \/ PurgeKeys \/ PurgeRuns
           \/ StartupReset \/ StartupPurgeLeases \/ StartupPurgeKeys
  <2>1. UNCHANGED poolVars
    BY <1>6 DEF LeaseCall, ReapDone, PurgeLeases, PurgeKeys, PurgeRuns, StartupReset,
                StartupPurgeLeases, StartupPurgeKeys
  <2> QED
    BY <1>u, <2>1
<1>7. CASE \/ \E t \in Callers, i \in InvocationIds, l \in LeaseIds, req \in DB!Request :
                  InvokeStart(t, i, l, req)
           \/ \E t \in Callers, n \in Tenants, l \in LeaseIds, i \in InvocationIds :
                  CancelStart(t, n, l, i)
           \/ \E w \in Workers, r \in RunIds : ExecEnds(w, r)
  <2>1. UNCHANGED poolVars
    BY <1>7 DEF InvokeStart, CancelStart, ExecEnds
  <2> QED
    BY <1>u, <2>1
<1> QED
  BY <1>1, <1>2, <1>3, <1>4, <1>5, <1>6, <1>7 DEF Next, Maintenance, Startup

-----------------------------------------------------------------------------
(* What a step of one thread leaves alone *)

\* The types of the pool's locals, and how they go with the places.
LEMMA PoolFacts ==
    ASSUME PoolP!Typed, PoolP!Owned
    PROVE  /\ pc \in [Threads -> Pool!Places] /\ DOMAIN call = Threads
           /\ Pool!TypeOK /\ Pool!Exclusive
           /\ \A t \in Threads : pc[t] \in {"using", "append"} =>
                  call[t].op = "use" /\ call[t].w \in Workers
           /\ \A t \in Threads : pc[t] = "ready" => call[t] = Pool!NoCall
<1>1. Pool!TypeOK
  BY DEF PoolP!Typed, PoolP!TypeOK, Pool!TypeOK, Pool!Places, PoolP!Places, Pool!Threads,
         PoolP!Threads, Pool!AcquireCall, PoolP!AcquireCall, Pool!UseCall, PoolP!UseCall,
         Pool!RetireCall, PoolP!RetireCall, Pool!RefCall, PoolP!RefCall, Pool!NoCall,
         PoolP!NoCall, Pool!PoolKey, PoolP!PoolKey
<1>2. Pool!Exclusive
  BY DEF PoolP!Owned, PoolP!Exclusive, Pool!Exclusive, PoolP!Holders, Pool!Holders,
         PoolP!IdleWorkers, Pool!IdleWorkers, PoolP!ToSet, Pool!ToSet, PoolP!PoolKey,
         Pool!PoolKey, PoolP!Threads, Pool!Threads
<1>3. pc \in [Threads -> Pool!Places] /\ DOMAIN call = Threads
  BY <1>1 DEF Pool!TypeOK, Pool!Threads, Threads
<1>4. \A t \in Threads : PoolP!Fits(pc[t], call[t])
  BY DEF PoolP!Typed, PoolP!Locals, PoolP!Threads, Threads
<1>5. ASSUME NEW t \in Threads
      PROVE  /\ pc[t] \in {"using", "append"} => call[t].op = "use" /\ call[t].w \in Workers
             /\ pc[t] = "ready" => call[t] = Pool!NoCall
  BY <1>4 DEF PoolP!Fits, PoolP!UseCall, PoolP!NoCall, Pool!NoCall
<1> QED
  BY <1>1, <1>2, <1>3, <1>5

\* The other threads' places and locals in the pool stay as they are.
Elsewhere(t) == \A u \in Threads : u # t => pc'[u] = pc[u] /\ call'[u] = call[u]

\* A step inside the pool moves one thread.
LEMMA StepElsewhere ==
    ASSUME PoolP!Typed, PoolP!Owned, NEW t \in Threads, Pool!Step(t)
    PROVE  Elsewhere(t)
<1>0. pc \in [Threads -> Pool!Places] /\ DOMAIN call = Threads
  BY PoolFacts
<1>c. call = [u \in Threads |-> call[u]]
  BY PoolFacts DEF Pool!TypeOK, Pool!Threads, Threads
<1> USE DEF Elsewhere, Pool!Goto, Pool!Return
<1>1. CASE Pool!EnsureSandboxTTL(t) \/ Pool!RenewFails(t) \/ Pool!EnsureRelease(t)
           \/ Pool!InstallFails(t) \/ Pool!ReserveFails(t) \/ Pool!Reserve(t)
           \/ Pool!CreationSlot(t)
  BY <1>0, <1>c, <1>1 DEF Pool!EnsureSandboxTTL, Pool!RenewFails, Pool!EnsureRelease,
        Pool!InstallFails, Pool!ReserveFails, Pool!Reserve, Pool!CreationSlot, Pool!AcquireFails
<1>2. CASE (\E w \in Workers : Pool!Create(t, w)) \/ Pool!CreateFails(t) \/ Pool!Bootstrap(t)
           \/ Pool!BootstrapFails(t) \/ Pool!UndoCreate(t) \/ Pool!Unreserve(t)
           \/ Pool!ReleaseAppend(t)
  BY <1>0, <1>c, <1>2 DEF Pool!Create, Pool!CreateFails, Pool!Bootstrap, Pool!BootstrapFails,
        Pool!UndoCreate, Pool!Unreserve, Pool!ReleaseAppend
<1>3. CASE Pool!DestroySkip(t) \/ Pool!DestroyMark(t) \/ Pool!DestroyBackend(t)
           \/ Pool!DestroyBackendFails(t) \/ Pool!DestroyReleaseLive(t)
           \/ Pool!DestroyReleaseLiveRaise(t) \/ Pool!RetireDone(t) \/ Pool!Handled(t)
  BY <1>0, <1>c, <1>3 DEF Pool!DestroySkip, Pool!DestroyMark, Pool!DestroyBackend,
        Pool!DestroyBackendFails, Pool!DestroyReleaseLive, Pool!DestroyReleaseLiveRaise,
        Pool!RetireDone, Pool!Handled, Pool!NextStale
<1> QED
  BY <1>1, <1>2, <1>3 DEF Pool!Step

\* Neither does a call of acquire, release, invalidate or cancel disturb another thread.
LEMMA CallElsewhere ==
    ASSUME PoolP!Typed, PoolP!Owned, NEW t \in Threads,
           \/ \E n \in Tenants, rel \in Releases : Pool!AcquirePop(t, n, rel)
           \/ Pool!Release(t) \/ Pool!Invalidate(t)
           \/ \E w \in Workers : Pool!CancelRef(t, w)
           \/ t = Reaper /\ Pool!Reap
           \/ UNCHANGED poolVars
    PROVE  Elsewhere(t)
<1>0. pc \in [Threads -> Pool!Places] /\ DOMAIN call = Threads
  BY PoolFacts
<1>c. call = [u \in Threads |-> call[u]]
  BY PoolFacts DEF Pool!TypeOK, Pool!Threads, Threads
<1> QED
  BY <1>0, <1>c DEF Elsewhere, Pool!Goto, Pool!AcquirePop, Pool!AcquireWith, Pool!Release,
        Pool!Invalidate, Pool!CancelRef, Pool!Reap, poolVars

\* A thread that uses a worker has no step to take inside the pool.
LEMMA UsingRests ==
    ASSUME NEW t, pc[t] = "using"
    PROVE  ~Pool!Step(t)
BY DEF Pool!Step, Pool!EnsureSandboxTTL, Pool!RenewFails, Pool!EnsureRelease,
       Pool!InstallFails, Pool!ReserveFails, Pool!Reserve, Pool!CreationSlot, Pool!PastStale,
       Pool!Create, Pool!CreateFails, Pool!Bootstrap, Pool!BootstrapFails, Pool!UndoCreate,
       Pool!Unreserve, Pool!ReleaseAppend, Pool!DestroySkip, Pool!DestroyMark, Pool!Busy,
       Pool!DestroyBackend, Pool!DestroyBackendFails, Pool!DestroyReleaseLive,
       Pool!DestroyReleaseLiveRaise, Pool!RetireDone, Pool!Handled

\* One thread goes on to another place with the locals that belong there.
Moves(t) ==
    /\ spc' = [spc EXCEPT ![t] = spc'[t]] /\ job' = [job EXCEPT ![t] = job'[t]]
    /\ spc'[t] \in ServicePlaces /\ job'[t] \in Jobs /\ JobFits(spc'[t], job'[t])
    /\ spc'[t] \in UsingPlaces => pc'[t] = "using"
    /\ Elsewhere(t)
    /\ phase' = phase

\* Then the threads' locals still fit, and the other threads are where they were.
LEMMA MovesFit ==
    ASSUME SInv, NEW t \in Threads, Moves(t)
    PROVE  /\ spc' \in [Threads -> ServicePlaces] /\ ThreadsFit'
           /\ \A u \in Threads : u # t => spc'[u] = spc[u] /\ job'[u] = job[u]
                                         /\ pc'[u] = pc[u] /\ call'[u] = call[u]
<1>1. spc \in [Threads -> ServicePlaces] /\ job \in [Threads -> Jobs] /\ ThreadsFit
  BY DEF SInv, SvcTyped, ThreadsFit
<1>2. spc' \in [Threads -> ServicePlaces] /\ job' \in [Threads -> Jobs]
  BY <1>1 DEF Moves
<1>3. \A u \in Threads : u # t => spc'[u] = spc[u] /\ job'[u] = job[u]
                                /\ pc'[u] = pc[u] /\ call'[u] = call[u]
  BY <1>1 DEF Moves, Elsewhere
<1>4. ASSUME NEW u \in Threads
      PROVE  JobFits(spc'[u], job'[u]) /\ (spc'[u] \in UsingPlaces => pc'[u] = "using")
  <2>1. CASE u = t
    BY <2>1 DEF Moves
  <2>2. CASE u # t
    BY <1>1, <1>3, <2>2 DEF ThreadsFit
  <2> QED
    BY <2>1, <2>2
<1> QED
  BY <1>2, <1>3, <1>4 DEF ThreadsFit

\* The locals of a call that is over.
LEMMA JobOver == NoJob \in Jobs /\ JobFits("idle", NoJob)
BY DEF Jobs, JobFits, RunPlaces

\* A call that goes on with the locals it has.
LEMMA JobGoes ==
    ASSUME NEW p, NEW q, NEW j, JobFits(p, j),
           \/ p = "check" /\ q = "begin"
           \/ p \in RunPlaces /\ q \in RunPlaces \ {"finish", "cleanup"}
           \/ p = "finish" /\ q = "cleanup"
           \/ q \notin RunPlaces \cup {"check", "begin", "cancel"}
    PROVE  JobFits(q, j)
BY DEF JobFits, RunPlaces

\* The step of a call that keeps its locals and goes on to q.
LEMMA GoesOn ==
    ASSUME SInv, NEW t \in Threads, NEW q \in ServicePlaces, Elsewhere(t),
           Goto(t, q), job' = job, phase' = phase, q \in UsingPlaces => pc'[t] = "using",
           \/ spc[t] = "check" /\ q = "begin"
           \/ spc[t] \in RunPlaces /\ q \in RunPlaces \ {"finish", "cleanup"}
           \/ spc[t] = "finish" /\ q = "cleanup"
           \/ q \notin RunPlaces \cup {"check", "begin", "cancel"}
    PROVE  Moves(t) /\ spc'[t] = q
<1>1. spc \in [Threads -> ServicePlaces] /\ job \in [Threads -> Jobs] /\ JobFits(spc[t], job[t])
  BY DEF SInv, SvcTyped, ThreadsFit
<1>2. JobFits(q, job[t])
  BY <1>1, JobGoes
<1>3. spc'[t] = q /\ spc' = [spc EXCEPT ![t] = q]
  BY <1>1 DEF Goto
<1> QED
  BY <1>1, <1>2, <1>3 DEF Moves

\* The last step of a call.
LEMMA CallEnds ==
    ASSUME SInv, NEW t \in Threads, Elsewhere(t), End(t), phase' = phase
    PROVE  Moves(t) /\ spc'[t] = "idle"
<1>1. spc \in [Threads -> ServicePlaces] /\ job \in [Threads -> Jobs]
  BY DEF SInv, SvcTyped, ThreadsFit
<1>2. /\ spc'[t] = "idle" /\ spc' = [spc EXCEPT ![t] = "idle"]
      /\ job'[t] = NoJob /\ job' = [job EXCEPT ![t] = NoJob]
  BY <1>1 DEF End
<1>3. spc' = [spc EXCEPT ![t] = spc'[t]] /\ job' = [job EXCEPT ![t] = job'[t]]
  BY <1>2
<1>4. spc'[t] \in ServicePlaces /\ spc'[t] \notin UsingPlaces
  BY <1>2 DEF ServicePlaces, UsingPlaces
<1>5. job'[t] \in Jobs /\ JobFits(spc'[t], job'[t])
  BY <1>2, JobOver
<1> QED
  BY <1>2, <1>3, <1>4, <1>5 DEF Moves

\* Every step of an invoke or a cancel moves its thread.
LEMMA CallMoves ==
    ASSUME SInv, NEW t \in Callers, CallStep(t)
    PROVE  Moves(t)
<1>0. /\ PoolP!Typed /\ PoolP!Owned /\ t \in Threads /\ SvcTyped /\ ThreadsFit
      /\ spc \in [Threads -> ServicePlaces] /\ job \in [Threads -> Jobs]
  BY DEF SInv, Threads, SvcTyped, ThreadsFit
<1>u. ASSUME UNCHANGED poolVars PROVE Elsewhere(t) /\ pc'[t] = pc[t]
  BY <1>0, <1>u, CallElsewhere DEF poolVars
<1> USE DEF ServicePlaces, RunPlaces, UsingPlaces
<1>1. CASE InvokeCheck(t)
  <2>1. Elsewhere(t) /\ phase' = phase /\ spc[t] = "check"
    BY <1>1, <1>u DEF InvokeCheck
  <2>2. CASE End(t)
    BY <2>1, <2>2, CallEnds, <1>0
  <2>3. CASE Goto(t, "begin") /\ job' = job
    BY <2>1, <2>3, GoesOn, <1>0
  <2> QED
    BY <1>1, <2>2, <2>3 DEF InvokeCheck
<1>2. CASE InvokeReplayed(t) \/ (\E r \in RunIds : InvokeBeginLost(t, r)) \/ InvokeLeave(t)
           \/ CancelRefused(t) \/ CancelDone(t)
  <2>1. Elsewhere(t) /\ phase' = phase /\ End(t)
    BY <1>2, <1>u DEF InvokeReplayed, InvokeBeginLost, InvokeLeave, CancelRefused, CancelDone
  <2> QED
    BY <1>0, <2>1, CallEnds
<1>3. ASSUME NEW r \in RunIds, InvokeBegin(t, r) PROVE Moves(t)
  <2>1. /\ Elsewhere(t) /\ phase' = phase /\ spc[t] = "begin" /\ Goto(t, "acquire")
        /\ job' = [job EXCEPT ![t] = [inv |-> job[t].inv, lease |-> job[t].lease,
                                      req |-> job[t].req, run |-> r]]
    BY <1>0, <1>3, <1>u DEF InvokeBegin
  <2>2. PICK i \in InvocationIds, l \in LeaseIds, req \in DB!Request :
            i = job[t].inv /\ l = job[t].lease /\ req = job[t].req
    BY <1>0, <2>1, JobParts
  <2>3. PICK j : j = [inv |-> i, lease |-> l, req |-> req, run |-> r]
    OBVIOUS
  <2>4. j \in Jobs /\ JobFits("acquire", j)
    BY <2>3 DEF Jobs, JobFits, RunJob
  <2>5. job' = [job EXCEPT ![t] = j] /\ job'[t] = j /\ spc'[t] = "acquire"
    BY <1>0, <2>1, <2>2, <2>3 DEF Goto
  <2> QED
    BY <1>0, <2>1, <2>4, <2>5 DEF Moves, Goto
<1>4. ASSUME NEW res \in RunResults, InvokeAnswer(t, res) PROVE Moves(t)
  <2>1. /\ Elsewhere(t) /\ phase' = phase /\ spc[t] = "running" /\ Goto(t, "finish")
        /\ job' = [job EXCEPT ![t] = [inv |-> job[t].inv, lease |-> job[t].lease,
                                      req |-> job[t].req, run |-> job[t].run, result |-> res]]
        /\ pc'[t] = "using"
    BY <1>0, <1>4, <1>u DEF InvokeAnswer, ThreadsFit
  <2>2. PICK i \in InvocationIds, l \in LeaseIds, req \in DB!Request, r \in RunIds :
            i = job[t].inv /\ l = job[t].lease /\ req = job[t].req /\ r = job[t].run
    BY <1>0, <2>1, JobParts
  <2>3. PICK j : j = [inv |-> i, lease |-> l, req |-> req, run |-> r, result |-> res]
    OBVIOUS
  <2>4. j \in Jobs /\ JobFits("finish", j)
    BY <2>3 DEF Jobs, JobFits, DoneJob
  <2>5. job' = [job EXCEPT ![t] = j] /\ job'[t] = j /\ spc'[t] = "finish"
    BY <1>0, <2>1, <2>2, <2>3 DEF Goto
  <2> QED
    BY <1>0, <2>1, <2>4, <2>5 DEF Moves, Goto
<1>5. CASE InvokeAcquire(t)
  <2>1. /\ spc[t] = "acquire" /\ Pool!AcquirePop(t, job[t].req.tenant, job[t].req.release)
        /\ Goto(t, "acquiring") /\ job' = job /\ phase' = phase
    BY <1>5 DEF InvokeAcquire
  <2>2. job[t].req.tenant \in Tenants /\ job[t].req.release \in Releases
    BY <1>0, <2>1, JobParts DEF DB!Request
  <2>3. Elsewhere(t)
    BY <1>0, <2>1, <2>2, CallElsewhere
  <2> QED
    BY <1>0, <2>1, <2>3, GoesOn
<1>6. CASE InvokeAcquireRaised(t)
  <2>1. /\ spc[t] = "acquiring" /\ Pool!Step(t)
        /\ Goto(t, "abandon") /\ job' = job /\ phase' = phase
    BY <1>6 DEF InvokeAcquireRaised, Pool!Step
  <2>2. Elsewhere(t)
    BY <1>0, <2>1, StepElsewhere
  <2> QED
    BY <1>0, <2>1, <2>2, GoesOn
<1>7. CASE InvokeDuplicate(t) \/ InvokeCleanup(t) \/ InvokeFail(t) \/ CancelInvalidate(t)
  <2>1. PICK q \in {"duplicate", "releasing", "failing", "cancelling"} :
           /\ Goto(t, q) /\ job' = job /\ phase' = phase
           /\ Pool!Release(t) \/ Pool!Invalidate(t)
           /\ spc[t] \in RunPlaces \/ q = "cancelling"
    BY <1>7 DEF InvokeDuplicate, InvokeCleanup, InvokeFail, CancelInvalidate
  <2>2. Elsewhere(t)
    BY <1>0, <2>1, CallElsewhere
  <2> QED
    BY <1>0, <2>1, <2>2, GoesOn
<1>8. CASE CancelPop(t)
  <2>1. /\ Goto(t, "cancelled") /\ job' = job /\ phase' = phase
        /\ spc[t] = "cancel" /\ Pool!CancelRef(t, active[job[t].inv].worker)
        /\ active[job[t].inv] # NotActive
    BY <1>8 DEF CancelPop, Owns
  <2>2. job[t].inv \in InvocationIds
    BY <1>0, <2>1, JobParts
  <2>3. active[job[t].inv].worker \in Workers
    BY <1>0, <2>1, <2>2 DEF SvcTyped, ActiveRun
  <2>4. Elsewhere(t)
    BY <1>0, <2>1, <2>3, CallElsewhere
  <2> QED
    BY <1>0, <2>1, <2>4, GoesOn
<1>9. CASE PoolStep(t)
  <2>1. spc' = spc /\ job' = job /\ phase' = phase /\ Pool!Step(t)
    BY <1>9 DEF PoolStep
  <2>2. spc[t] \notin UsingPlaces
    BY <1>0, <2>1, UsingRests DEF ThreadsFit
  <2>3. Elsewhere(t)
    BY <1>0, <2>1, StepElsewhere
  <2>4. spc'[t] \in ServicePlaces /\ job'[t] \in Jobs /\ JobFits(spc'[t], job'[t])
    BY <1>0, <2>1 DEF ThreadsFit
  <2> QED
    BY <1>0, <2>1, <2>2, <2>3, <2>4 DEF Moves
<1>10. CASE InvokeRegister(t) \/ InvokeRun(t) \/ InvokeRunRaises(t) \/ InvokeFinish(t)
            \/ InvokeFinishRaises(t)
  <2>1. PICK q \in {"run", "running", "fail", "cleanup"} :
           /\ Goto(t, q) /\ job' = job /\ phase' = phase /\ UNCHANGED poolVars /\ pc[t] = "using"
           /\ (spc[t] \in RunPlaces /\ q # "cleanup") \/ spc[t] = "finish"
    BY <1>0, <1>10 DEF InvokeRegister, InvokeRun, InvokeRunRaises, InvokeFinish,
        InvokeFinishRaises, ThreadsFit
  <2> QED
    BY <1>0, <1>u, <2>1, GoesOn
<1>11. CASE InvokeDuplicateDone(t) \/ InvokeCleanupDone(t) \/ InvokeFailDone(t)
            \/ InvokeAbandon(t) \/ InvokeAbandonRaises(t)
  <2>1. PICK q \in {"abandon", "leave"} :
           /\ Goto(t, q) /\ job' = job /\ phase' = phase /\ UNCHANGED poolVars
           /\ spc[t] \in RunPlaces
    BY <1>11 DEF InvokeDuplicateDone, InvokeCleanupDone, InvokeFailDone, InvokeAbandon,
        InvokeAbandonRaises
  <2> QED
    BY <1>0, <1>u, <2>1, GoesOn
<1> QED
  BY <1>1, <1>2, <1>3, <1>4, <1>5, <1>6, <1>7, <1>8, <1>9, <1>10, <1>11 DEF CallStep

\* A new call.
LEMMA StartMoves ==
    ASSUME SInv, NEW t \in Callers,
           \/ \E i \in InvocationIds, l \in LeaseIds, req \in DB!Request : InvokeStart(t, i, l, req)
           \/ \E n \in Tenants, l \in LeaseIds, i \in InvocationIds : CancelStart(t, n, l, i)
    PROVE  /\ Moves(t) /\ phase = "up" /\ spc[t] = "idle" /\ spc'[t] \in {"check", "cancel"}
           /\ UNCHANGED <<dbVars, poolVars, active, lock, exec>>
<1>0. /\ PoolP!Typed /\ PoolP!Owned /\ t \in Threads
      /\ spc \in [Threads -> ServicePlaces] /\ job \in [Threads -> Jobs]
  BY DEF SInv, Threads, SvcTyped, ThreadsFit
<1>1. PICK q \in {"check", "cancel"}, j \in Jobs :
        /\ phase = "up" /\ spc[t] = "idle" /\ Goto(t, q) /\ job' = [job EXCEPT ![t] = j]
        /\ JobFits(q, j)
        /\ UNCHANGED <<dbVars, poolVars, active, lock, exec, phase>>
  <2>1. ASSUME NEW i \in InvocationIds, NEW l \in LeaseIds, NEW req \in DB!Request,
               InvokeStart(t, i, l, req)
        PROVE  \E j \in Jobs : /\ Goto(t, "check") /\ job' = [job EXCEPT ![t] = j]
                              /\ JobFits("check", j)
    <3>1. PICK j : j = [inv |-> i, lease |-> l, req |-> req]
      OBVIOUS
    <3>2. j \in Jobs /\ JobFits("check", j)
      BY <3>1 DEF Jobs, JobFits, CheckJob, RunPlaces
    <3> QED
      BY <2>1, <3>1, <3>2 DEF InvokeStart
  <2>2. ASSUME NEW n \in Tenants, NEW l \in LeaseIds, NEW i \in InvocationIds,
               CancelStart(t, n, l, i)
        PROVE  \E j \in Jobs : /\ Goto(t, "cancel") /\ job' = [job EXCEPT ![t] = j]
                              /\ JobFits("cancel", j)
    <3>1. PICK j : j = [inv |-> i, tenant |-> n, lease |-> l]
      OBVIOUS
    <3>2. j \in Jobs /\ JobFits("cancel", j)
      BY <3>1 DEF Jobs, JobFits, CancelJob, RunPlaces
    <3> QED
      BY <2>2, <3>1, <3>2 DEF CancelStart
  <2>3. /\ phase = "up" /\ spc[t] = "idle"
        /\ UNCHANGED <<dbVars, poolVars, active, lock, exec, phase>>
    BY DEF InvokeStart, CancelStart
  <2> QED
    BY <2>1, <2>2, <2>3
<1>2. Elsewhere(t)
  BY <1>0, <1>1, CallElsewhere
<1>3. spc'[t] = q /\ job'[t] = j /\ q \in ServicePlaces /\ q \notin UsingPlaces
  BY <1>0, <1>1 DEF Goto, ServicePlaces, UsingPlaces
<1> QED
  BY <1>0, <1>1, <1>2, <1>3 DEF Moves, Goto

\* Every step of the maintenance loop moves the reaper.
LEMMA ReaperMoves ==
    ASSUME SInv, Maintenance
    PROVE  Moves(Reaper) /\ phase = "up" /\ active' = active /\ lock' = lock
<1>0. /\ PoolP!Typed /\ PoolP!Owned /\ Reaper \in Threads /\ ThreadsFit
      /\ spc \in [Threads -> ServicePlaces] /\ job \in [Threads -> Jobs]
  BY DEF SInv, Threads, SvcTyped, ThreadsFit
<1>1. phase = "up" /\ phase' = phase /\ active' = active /\ lock' = lock /\ job' = job
  BY DEF Maintenance, ReapStart, ReapDone, ReapRaised, PurgeLeases, PurgeKeys, PurgeRuns, PoolStep
<1>2. CASE PoolStep(Reaper)
  <2>1. spc' = spc /\ Pool!Step(Reaper)
    BY <1>2 DEF PoolStep
  <2>2. spc[Reaper] \notin UsingPlaces
    BY <1>0, <2>1, UsingRests DEF ThreadsFit
  <2>3. Elsewhere(Reaper)
    BY <1>0, <2>1, StepElsewhere
  <2>4. spc'[Reaper] \in ServicePlaces /\ job'[Reaper] \in Jobs
        /\ JobFits(spc'[Reaper], job'[Reaper])
    BY <1>0, <1>1, <2>1 DEF ThreadsFit
  <2> QED
    BY <1>0, <1>1, <2>1, <2>2, <2>3, <2>4 DEF Moves
<1>3. CASE ~PoolStep(Reaper)
  <2>1. PICK q \in {"reap", "reaping", "purge_leases", "purge_keys", "purge_runs"} :
            /\ Goto(Reaper, q)
            /\ Pool!Reap \/ Pool!Step(Reaper) \/ UNCHANGED poolVars
    BY <1>3 DEF Maintenance, ReapStart, ReapDone, ReapRaised, PurgeLeases, PurgeKeys, PurgeRuns,
                Pool!Step
  <2>2. Elsewhere(Reaper)
    BY <1>0, <2>1, StepElsewhere, CallElsewhere
  <2>3. q \in ServicePlaces /\ q \notin UsingPlaces \cup RunPlaces \cup {"check", "begin", "cancel"}
    BY DEF ServicePlaces, UsingPlaces, RunPlaces
  <2> QED
    BY <1>0, <1>1, <2>1, <2>2, <2>3, GoesOn
<1> QED
  BY <1>1, <1>2, <1>3

\* Calls are under way only while the process is up.
LEMMA CallUp ==
    ASSUME SInv, NEW t \in Callers, CallStep(t)
    PROVE  phase = "up"
<1> SUFFICES ASSUME phase # "up" PROVE FALSE
    OBVIOUS
<1>1. spc[t] \in {"idle", "reap"}
  BY DEF SInv, DownQuiet, Threads
<1> QED
  BY <1>1 DEF CallStep, InvokeCheck, InvokeReplayed, InvokeBegin, InvokeBeginLost, InvokeAcquire,
        InvokeAcquireRaised, InvokeRegister, InvokeDuplicate, InvokeDuplicateDone, InvokeRun,
        InvokeAnswer, InvokeRunRaises, InvokeFinish, InvokeFinishRaises, InvokeCleanup,
        InvokeCleanupDone, InvokeFail, InvokeFailDone, InvokeAbandon, InvokeAbandonRaises,
        InvokeLeave, CancelRefused, CancelPop, CancelInvalidate, CancelDone, PoolStep

\* What a call does to _active and its lock, and to the executions.
LEMMA CallTyped ==
    ASSUME SInv, NEW t \in Callers, CallStep(t)
    PROVE  /\ active' \in [InvocationIds -> ActiveRun \cup {NotActive}]
           /\ lock' \in Callers \cup {NoThread}
           /\ exec' \subseteq Workers \X RunIds
<1>0. /\ SvcTyped /\ ThreadsFit /\ PoolP!Typed /\ PoolP!Owned /\ t \in Threads
      /\ active \in [InvocationIds -> ActiveRun \cup {NotActive}]
      /\ lock \in Callers \cup {NoThread} /\ exec \subseteq Workers \X RunIds
  BY DEF SInv, SvcTyped, Threads
<1>1. CASE InvokeRegister(t)
  <2>1. spc[t] = "acquiring" /\ pc[t] = "using" /\ lock' = lock /\ exec' = exec
    BY <1>1 DEF InvokeRegister
  <2>2. PICK i \in InvocationIds : i = job[t].inv
    BY <1>0, <2>1, JobParts DEF RunPlaces
  <2>3. PICK l \in LeaseIds : l = job[t].lease
    BY <1>0, <2>1, JobParts DEF RunPlaces
  <2>4. PICK n \in Tenants : n = job[t].req.tenant
    BY <1>0, <2>1, JobParts DEF RunPlaces, DB!Request
  <2>5. PICK w \in Workers : w = call[t].w
    BY <1>0, <2>1, PoolFacts
  <2>6. active' = [active EXCEPT ![i] =
                      [state |-> "ACTIVE", tenant |-> n, lease |-> l, worker |-> w]]
    BY <1>1, <2>2, <2>3, <2>4, <2>5 DEF InvokeRegister
  <2>7. [state |-> "ACTIVE", tenant |-> n, lease |-> l, worker |-> w] \in ActiveRun
    BY DEF ActiveRun
  <2> QED
    BY <1>0, <2>1, <2>6, <2>7
<1>2. CASE InvokeLeave(t) \/ CancelPop(t)
  <2>1. /\ active' = [active EXCEPT ![job[t].inv] = NotActive] /\ lock' = lock /\ exec' = exec
    BY <1>2 DEF InvokeLeave, CancelPop
  <2> QED
    BY <1>0, <2>1
<1>3. CASE InvokeRun(t)
  <2>1. spc[t] = "run" /\ pc[t] = "using" /\ active' = active /\ lock' = lock
    BY <1>0, <1>3 DEF InvokeRun, ThreadsFit, UsingPlaces
  <2>2. call[t].w \in Workers /\ job[t].run \in RunIds
    BY <1>0, <2>1, PoolFacts, JobParts DEF RunPlaces
  <2>3. exec' \subseteq exec \cup {<<call[t].w, job[t].run>>}
    BY <1>3 DEF InvokeRun
  <2> QED
    BY <1>0, <2>1, <2>2, <2>3
<1>4. CASE InvokeDuplicate(t) \/ InvokeDuplicateDone(t)
  BY <1>0, <1>4 DEF InvokeDuplicate, InvokeDuplicateDone
<1>5. CASE (\E res \in RunResults : InvokeAnswer(t, res)) \/ PoolStep(t)
  BY <1>0, <1>5 DEF InvokeAnswer, PoolStep, SandboxesKill
<1>6. CASE InvokeCheck(t) \/ InvokeReplayed(t) \/ InvokeAcquire(t) \/ InvokeAcquireRaised(t)
           \/ (\E r \in RunIds : InvokeBegin(t, r) \/ InvokeBeginLost(t, r))
           \/ InvokeRunRaises(t)
  BY <1>0, <1>6 DEF InvokeCheck, InvokeReplayed, InvokeAcquire, InvokeAcquireRaised, InvokeBegin,
        InvokeBeginLost, InvokeRunRaises
<1>7. CASE InvokeFinish(t) \/ InvokeFinishRaises(t) \/ InvokeCleanup(t) \/ InvokeCleanupDone(t)
           \/ InvokeFail(t) \/ InvokeFailDone(t) \/ InvokeAbandon(t) \/ InvokeAbandonRaises(t)
           \/ CancelRefused(t) \/ CancelInvalidate(t) \/ CancelDone(t)
  BY <1>0, <1>7 DEF InvokeFinish, InvokeFinishRaises, InvokeCleanup, InvokeCleanupDone,
        InvokeFail, InvokeFailDone, InvokeAbandon, InvokeAbandonRaises, CancelRefused,
        CancelInvalidate, CancelDone
<1> QED
  BY <1>1, <1>2, <1>3, <1>4, <1>5, <1>6, <1>7 DEF CallStep

\* Leases, the clock, sandboxes that end something or are gone, and the startup leave the
\* threads where they are.
LEMMA OtherSteps ==
    ASSUME SInv,
           \/ LeaseCall \/ Startup \/ Environment
           \/ \E w \in Workers, r \in RunIds : ExecEnds(w, r)
    PROVE  /\ UNCHANGED <<spc, job, active, lock>> /\ exec' \subseteq exec /\ phase' \in Phases
           /\ phase' = "up" => phase \in {"up", "purged"}
           /\ (UNCHANGED <<pc, call>> /\ (phase' # "up" => phase # "up"))
              \/ (phase = "down" /\ pc' = [t \in Threads |-> "ready"])
<1>0. phase \in Phases
  BY DEF SInv, SvcTyped
<1>1. CASE LeaseCall
  BY <1>0, <1>1 DEF LeaseCall, poolVars, svcVars
<1>2. ASSUME NEW left \in SUBSET sandboxes, StartupCleanup(left)
      PROVE  /\ UNCHANGED <<spc, job, active, lock>> /\ exec' \subseteq exec
             /\ phase = "down" /\ phase' = "cleaned" /\ pc' = [t \in Threads |-> "ready"]
  BY <1>2 DEF StartupCleanup, SandboxesKill, Pool!Restart, Pool!Forget, Pool!Threads, Threads
<1>3. CASE StartupReset \/ StartupPurgeLeases \/ StartupPurgeKeys
  BY <1>3 DEF StartupReset, StartupPurgeLeases, StartupPurgeKeys, poolVars, Phases
<1>4. CASE Environment
  BY <1>0, <1>4 DEF Environment, poolVars, svcVars, SandboxesKill, Pool!Age, Pool!SandboxExpires
<1>5. ASSUME NEW w \in Workers, NEW r \in RunIds, ExecEnds(w, r)
      PROVE  /\ UNCHANGED <<spc, job, active, lock, phase, pc, call>> /\ exec' \subseteq exec
  BY <1>5 DEF ExecEnds, poolVars
<1> QED
  BY <1>0, <1>1, <1>2, <1>3, <1>4, <1>5 DEF Startup, Phases

\* The process is gone.
LEMMA CrashForgets ==
    ASSUME Crash
    PROVE  /\ phase' = "down" /\ spc' = [t \in Threads |-> IF t = Reaper THEN "reap" ELSE "idle"]
           /\ job' = [t \in Threads |-> NoJob] /\ active' = [i \in InvocationIds |-> NotActive]
           /\ lock' = NoThread /\ exec' = exec /\ sandboxes' = sandboxes
           /\ pc' = [t \in Threads |-> "ready"] /\ call' = [t \in Threads |-> Pool!NoCall]
           /\ idle' = [k \in Pool!PoolKey |-> <<>>]
BY DEF Crash, Pool!Forget, Pool!Threads, Threads

\* The service keeps its own types, and the threads' locals fit.
LEMMA ServiceTyped ==
    ASSUME SInv, Next
    PROVE  SvcTyped' /\ ThreadsFit' /\ DownQuiet'
<1>0. SvcTyped /\ ThreadsFit /\ DownQuiet
  BY DEF SInv
<1>m. ASSUME NEW t \in Threads, Moves(t), phase = "up"
      PROVE  spc' \in [Threads -> ServicePlaces] /\ ThreadsFit' /\ DownQuiet' /\ phase' \in Phases
  <2>1. phase' = "up"
    BY <1>m DEF Moves
  <2> QED
    BY <1>m, <2>1, MovesFit DEF DownQuiet, Phases
<1>1. ASSUME NEW t \in Callers, CallStep(t) PROVE SvcTyped' /\ ThreadsFit' /\ DownQuiet'
  <2>1. t \in Threads /\ Moves(t) /\ phase = "up"
    BY <1>1, CallMoves, CallUp DEF Threads
  <2>2. spc' \in [Threads -> ServicePlaces] /\ ThreadsFit' /\ DownQuiet' /\ phase' \in Phases
    BY <1>m, <2>1
  <2>3. /\ active' \in [InvocationIds -> ActiveRun \cup {NotActive}]
        /\ lock' \in Callers \cup {NoThread}
        /\ exec' \subseteq Workers \X RunIds
    BY <1>1, CallTyped
  <2> QED
    BY <2>2, <2>3 DEF SvcTyped
<1>2. ASSUME NEW t \in Callers,
             \/ \E i \in InvocationIds, l \in LeaseIds, req \in DB!Request :
                    InvokeStart(t, i, l, req)
             \/ \E n \in Tenants, l \in LeaseIds, i \in InvocationIds : CancelStart(t, n, l, i)
      PROVE  SvcTyped' /\ ThreadsFit' /\ DownQuiet'
  <2>1. t \in Threads /\ Moves(t) /\ phase = "up" /\ UNCHANGED <<active, lock, exec>>
    BY <1>2, StartMoves DEF Threads
  <2>2. spc' \in [Threads -> ServicePlaces] /\ ThreadsFit' /\ DownQuiet' /\ phase' \in Phases
    BY <1>m, <2>1
  <2> QED
    BY <1>0, <2>1, <2>2 DEF SvcTyped
<1>3. CASE Maintenance
  <2>1. /\ Reaper \in Threads /\ Moves(Reaper) /\ phase = "up" /\ active' = active
        /\ lock' = lock
    BY <1>3, ReaperMoves DEF Threads
  <2>2. spc' \in [Threads -> ServicePlaces] /\ ThreadsFit' /\ DownQuiet' /\ phase' \in Phases
    BY <1>m, <2>1
  <2>3. exec' \subseteq exec
    BY <1>3 DEF Maintenance, ReapStart, ReapDone, ReapRaised, PurgeLeases, PurgeKeys, PurgeRuns,
                PoolStep, SandboxesKill
  <2> QED
    BY <1>0, <2>1, <2>2, <2>3 DEF SvcTyped
<1>4. CASE Crash
  <2>1. SvcTyped'
    BY <1>0, <1>4, CrashForgets DEF SvcTyped, ServicePlaces, Phases
  <2>2. ASSUME NEW t \in Threads
        PROVE  /\ spc'[t] \in {"idle", "reap"} /\ pc'[t] = "ready"
               /\ JobFits(spc'[t], job'[t]) /\ spc'[t] \notin UsingPlaces
    BY <1>4, CrashForgets DEF JobFits, RunPlaces, UsingPlaces
  <2>3. job' \in [Threads -> Jobs]
    BY <1>4, CrashForgets, JobOver
  <2> QED
    BY <2>1, <2>2, <2>3 DEF ThreadsFit, DownQuiet
<1>5. CASE \/ LeaseCall \/ Startup \/ Environment
           \/ \E w \in Workers, r \in RunIds : ExecEnds(w, r)
  <2>1. /\ UNCHANGED <<spc, job, active, lock>> /\ exec' \subseteq exec /\ phase' \in Phases
        /\ (UNCHANGED <<pc, call>> /\ (phase' # "up" => phase # "up"))
           \/ (phase = "down" /\ pc' = [t \in Threads |-> "ready"])
    BY <1>5, OtherSteps
  <2>2. SvcTyped'
    BY <1>0, <2>1 DEF SvcTyped
  <2>3. CASE UNCHANGED <<pc, call>> /\ (phase' # "up" => phase # "up")
    BY <1>0, <2>1, <2>2, <2>3 DEF ThreadsFit, DownQuiet
  <2>4. CASE phase = "down" /\ pc' = [t \in Threads |-> "ready"]
    <3>1. \A t \in Threads : spc[t] \in {"idle", "reap"} /\ pc'[t] = "ready"
      BY <1>0, <2>4 DEF DownQuiet
    <3> QED
      BY <1>0, <2>1, <2>2, <3>1 DEF ThreadsFit, DownQuiet, UsingPlaces
  <2> QED
    BY <2>1, <2>3, <2>4
<1> QED
  BY <1>1, <1>2, <1>3, <1>4, <1>5 DEF Next

-----------------------------------------------------------------------------
(* Who holds a worker, and what is in the pool *)

\* The same owners in the pool's proofs and in the service.
LEMMA SameOwners ==
    /\ \A w : PoolP!Holders(w) = Pool!Holders(w) /\ PoolP!Holders(w)' = Pool!Holders(w)'
    /\ PoolP!IdleWorkers = Pool!IdleWorkers /\ PoolP!IdleWorkers' = Pool!IdleWorkers'
    /\ \A s : PoolP!ToSet(s) = Pool!ToSet(s)
<1>1. \A w : PoolP!Holders(w) = Pool!Holders(w) /\ PoolP!Holders(w)' = Pool!Holders(w)'
  BY DEF PoolP!Holders, Pool!Holders, PoolP!Threads, Pool!Threads
<1>2. PoolP!IdleWorkers = Pool!IdleWorkers /\ PoolP!IdleWorkers' = Pool!IdleWorkers'
  BY DEF PoolP!IdleWorkers, Pool!IdleWorkers, PoolP!ToSet, Pool!ToSet, PoolP!PoolKey, Pool!PoolKey
<1>3. \A s : PoolP!ToSet(s) = Pool!ToSet(s)
  BY DEF PoolP!ToSet, Pool!ToSet
<1> QED
  BY <1>1, <1>2, <1>3

\* The locals of acquire, and of the calls that destroy workers.
LEMMA CreatingFacts ==
    ASSUME PoolP!Typed, NEW t \in Threads
    PROVE  /\ pc[t] \in {"slot", "create", "bootstrap", "undo", "unreserve", "install"} =>
                  call[t].op = "acquire"
           /\ pc[t] = "create" => call[t].w = NoWorker
           /\ pc[t] \in {"bootstrap", "install"} => call[t].w \in Workers
           /\ pc[t] \in {"stale", "backend", "release_live", "release_live_raise"} =>
                  call[t] \in PoolP!AcquireCall \cup PoolP!RetireCall
<1>1. PoolP!Fits(pc[t], call[t])
  BY DEF PoolP!Typed, PoolP!Locals, PoolP!Threads, Threads
<1> QED
  BY <1>1 DEF PoolP!Fits, PoolP!Creating, PoolP!Deleting, PoolP!Stales, PoolP!AcquireCall

\* The locals of _destroy when it takes the next worker.
LEMMA NextStaleParts ==
    ASSUME PoolP!Typed, PoolP!Owned, NEW t \in Threads, call' = Pool!NextStale(t),
           pc[t] \in {"stale", "release_live"}
    PROVE  /\ call'[t].op = call[t].op /\ call'[t].stale = Tail(call[t].stale)
           /\ call[t].op \in {"acquire", "use"} => call'[t].w = call[t].w
<1>1. call = [u \in Threads |-> call[u]]
  BY PoolFacts DEF Pool!TypeOK, Pool!Threads, Threads
<1>2. call'[t] = [call[t] EXCEPT !.stale = Tail(@)]
  BY <1>1 DEF Pool!NextStale
<1>3. call[t] \in PoolP!AcquireCall \cup PoolP!RetireCall
  BY CreatingFacts
<1>4. CASE call[t] \in PoolP!AcquireCall
  BY <1>2, <1>4 DEF PoolP!AcquireCall
<1>5. CASE call[t] \in PoolP!RetireCall
  BY <1>2, <1>5 DEF PoolP!RetireCall
<1> QED
  BY <1>3, <1>4, <1>5

\* A step inside the pool gives its thread at most a new sandbox, and puts back at most what
\* its thread held.
LEMMA StepHolds ==
    ASSUME PoolP!Typed, PoolP!Owned, NEW t \in Threads, Pool!Step(t), NEW w \in Workers
    PROVE  /\ t \in Pool!Holders(w)' => t \in Pool!Holders(w) \/ Pool!Create(t, w)
           /\ w \in Pool!IdleWorkers' => w \in Pool!IdleWorkers \/ t \in Pool!Holders(w)
           /\ w \in PoolP!Unreturned' => w \in PoolP!Unreturned \/ w \in sandboxes' \ sandboxes
<1>0. /\ pc \in [Threads -> Pool!Places] /\ DOMAIN call = Threads
      /\ call = [u \in Threads |-> call[u]] /\ NoWorker \notin Workers
      /\ idle \in [Pool!PoolKey -> Seq(Workers)]
  BY PoolFacts, Components DEF Pool!TypeOK, Pool!Threads, Threads, PoolP!PoolAssumption
<1>e. Elsewhere(t)
  BY StepElsewhere
<1>t. \A v : (t \in Pool!Holders(v) <=> call[t].op \in {"acquire", "use"} /\ call[t].w = v)
             /\ (t \in Pool!Holders(v)' <=> call'[t].op \in {"acquire", "use"} /\ call'[t].w = v)
  BY DEF Pool!Holders, Pool!Threads, Threads
<1>u. w \in PoolP!Unreturned' =>
          \/ w \in PoolP!Unreturned
          \/ pc'[t] \in PoolP!Unborn /\ call'[t].w = w
  BY <1>e DEF PoolP!Unreturned, PoolP!Unborn, PoolP!Threads, Threads, Elsewhere
<1>b. pc[t] \in PoolP!Unborn => call[t].w \in PoolP!Unreturned
  BY DEF PoolP!Unreturned, PoolP!Unborn, PoolP!Threads, Threads
<1>i. idle' = idle => Pool!IdleWorkers' = Pool!IdleWorkers
  BY DEF Pool!IdleWorkers
<1> USE DEF Pool!Goto, Pool!Return
<1>1. CASE Pool!RenewFails(t) \/ Pool!InstallFails(t) \/ Pool!ReserveFails(t) \/ Pool!Unreserve(t)
           \/ Pool!RetireDone(t) \/ Pool!DestroyReleaseLiveRaise(t)
  <2>1. /\ call'[t].op \notin {"acquire", "use"} /\ idle' = idle
        /\ pc'[t] \in {"stale", "raised", "ready"}
    BY <1>0, <1>1 DEF Pool!RenewFails, Pool!InstallFails, Pool!ReserveFails, Pool!Unreserve,
        Pool!RetireDone, Pool!DestroyReleaseLiveRaise, Pool!AcquireFails, Pool!NoCall
  <2> QED
    BY <1>t, <1>u, <1>i, <2>1 DEF PoolP!Unborn
<1>2. CASE Pool!EnsureSandboxTTL(t) \/ Pool!Reserve(t) \/ Pool!CreationSlot(t)
           \/ Pool!DestroyMark(t) \/ Pool!DestroyBackend(t) \/ Pool!DestroyBackendFails(t)
           \/ Pool!Handled(t)
  <2>1. /\ call' = call /\ idle' = idle /\ pc'[t] \notin PoolP!Unborn
    BY <1>0, <1>2 DEF Pool!EnsureSandboxTTL, Pool!Reserve, Pool!CreationSlot, Pool!DestroyMark,
        Pool!DestroyBackend, Pool!DestroyBackendFails, Pool!Handled, PoolP!Unborn
  <2> QED
    BY <1>t, <1>u, <1>i, <2>1
<1>3. CASE Pool!CreateFails(t) \/ Pool!BootstrapFails(t) \/ Pool!UndoCreate(t)
  <2>1. /\ call' = call /\ idle' = idle
        /\ pc[t] \in PoolP!Unborn \/ call[t].w = NoWorker
    BY <1>3, CreatingFacts DEF Pool!CreateFails, Pool!BootstrapFails, Pool!UndoCreate, PoolP!Unborn
  <2> QED
    BY <1>0, <1>t, <1>u, <1>b, <1>i, <2>1
<1>4. CASE Pool!EnsureRelease(t) \/ Pool!Bootstrap(t)
  <2>1. /\ pc[t] \in {"install", "bootstrap"} /\ pc'[t] = "using" /\ idle' = idle
        /\ call'[t].w = call[t].w
    BY <1>0, <1>4 DEF Pool!EnsureRelease, Pool!Bootstrap
  <2>2. call[t].op = "acquire"
    BY <2>1, CreatingFacts
  <2> QED
    BY <1>t, <1>u, <1>i, <2>1, <2>2 DEF PoolP!Unborn
<1>5. CASE Pool!DestroySkip(t) \/ Pool!DestroyReleaseLive(t)
  <2>1. /\ pc[t] \in {"stale", "release_live"} /\ pc'[t] = "stale" /\ idle' = idle
        /\ call' = Pool!NextStale(t)
    BY <1>0, <1>5 DEF Pool!DestroySkip, Pool!DestroyReleaseLive, Pool!Busy
  <2>2. /\ call'[t].op = call[t].op
        /\ call[t].op \in {"acquire", "use"} => call'[t].w = call[t].w
    BY <2>1, NextStaleParts
  <2> QED
    BY <1>t, <1>u, <1>i, <2>1, <2>2 DEF PoolP!Unborn
<1>6. ASSUME NEW v \in Workers, Pool!Create(t, v)
      PROVE  /\ t \in Pool!Holders(w)' => Pool!Create(t, w)
             /\ w \in Pool!IdleWorkers' => w \in Pool!IdleWorkers
             /\ w \in PoolP!Unreturned' => w \in PoolP!Unreturned \/ w \in sandboxes' \ sandboxes
  <2>1. /\ v \notin sandboxes /\ v \in sandboxes' /\ idle' = idle /\ pc[t] = "create"
        /\ call' = [call EXCEPT ![t].w = v]
    BY <1>6 DEF Pool!Create
  <2>2. call[t] \in PoolP!AcquireCall
    <3>1. PoolP!Fits(pc[t], call[t])
      BY DEF PoolP!Typed, PoolP!Locals, PoolP!Threads, Threads
    <3> QED
      BY <2>1, <3>1 DEF PoolP!Fits, PoolP!Creating
  <2>3. call'[t].w = v
    BY <1>0, <2>1, <2>2 DEF PoolP!AcquireCall
  <2> QED
    BY <1>6, <1>t, <1>u, <1>i, <2>1, <2>3
<1>7. CASE Pool!ReleaseAppend(t)
  <2>1. /\ pc[t] = "append" /\ call'[t] = Pool!NoCall /\ pc'[t] = "ready"
        /\ idle' = [idle EXCEPT ![home[call[t].w]] = Append(@, call[t].w)]
    BY <1>0, <1>7 DEF Pool!ReleaseAppend
  <2>2. call[t].op = "use" /\ call[t].w \in Workers
    BY <2>1, PoolFacts
  <2>3. PICK v \in Workers : v = call[t].w
    BY <2>2
  <2>4. ASSUME NEW k \in Pool!PoolKey, w \in Pool!ToSet(idle'[k])
        PROVE  w \in Pool!ToSet(idle[k]) \/ w = v
    <3>1. PICK b \in Seq(Workers) : b = idle[k]
      BY <1>0
    <3>2. idle'[k] = b \/ idle'[k] = Append(b, v)
      BY <1>0, <2>1, <2>3, <3>1
    <3>3. \A j \in DOMAIN Append(b, v) : Append(b, v)[j] = v \/ (j \in DOMAIN b /\ Append(b, v)[j] = b[j])
      OBVIOUS
    <3> QED
      BY <2>4, <3>1, <3>2, <3>3 DEF Pool!ToSet
  <2>5. w \in Pool!IdleWorkers' => w \in Pool!IdleWorkers \/ w = v
    BY <2>4 DEF Pool!IdleWorkers
  <2>6. call'[t].op \notin {"acquire", "use"}
    BY <2>1 DEF Pool!NoCall
  <2> QED
    BY <1>t, <1>u, <2>1, <2>2, <2>3, <2>5, <2>6 DEF PoolP!Unborn
<1> QED
  BY <1>1, <1>2, <1>3, <1>4, <1>5, <1>6, <1>7 DEF Pool!Step

\* acquire and reap take workers out of the buckets; release, invalidate and cancel take none.
LEMMA CallHolds ==
    ASSUME PoolP!Typed, PoolP!Owned, NEW t \in Threads, NEW w \in Workers,
           \/ t \in Callers /\ \E n \in Tenants, rel \in Releases : Pool!AcquirePop(t, n, rel)
           \/ Pool!Release(t) \/ Pool!Invalidate(t)
           \/ \E v \in Workers : Pool!CancelRef(t, v)
           \/ t = Reaper /\ Pool!Reap
    PROVE  /\ t \in Pool!Holders(w)' => t \in Pool!Holders(w) \/ w \in Pool!IdleWorkers
           /\ w \in Pool!IdleWorkers' => w \in Pool!IdleWorkers
           /\ w \in PoolP!Unreturned' => w \in PoolP!Unreturned
<1>0. /\ pc \in [Threads -> Pool!Places] /\ DOMAIN call = Threads
      /\ call = [u \in Threads |-> call[u]]
  BY PoolFacts DEF Pool!TypeOK, Pool!Threads, Threads
<1>e. Elsewhere(t)
  BY CallElsewhere
<1>t. \A v : (t \in Pool!Holders(v) <=> call[t].op \in {"acquire", "use"} /\ call[t].w = v)
             /\ (t \in Pool!Holders(v)' <=> call'[t].op \in {"acquire", "use"} /\ call'[t].w = v)
  BY DEF Pool!Holders, Pool!Threads, Threads
<1>u. w \in PoolP!Unreturned' =>
          \/ w \in PoolP!Unreturned
          \/ pc'[t] \in PoolP!Unborn /\ call'[t].w = w
  BY <1>e DEF PoolP!Unreturned, PoolP!Unborn, PoolP!Threads, Threads, Elsewhere
<1>1. CASE Pool!Release(t) \/ Pool!Invalidate(t) \/ \E v \in Workers : Pool!CancelRef(t, v)
  <2>1. /\ call'[t].op \notin {"acquire", "use"} \/ call' = call
        /\ idle' = idle /\ pc'[t] \in {"stale", "append", "ref"}
    BY <1>0, <1>1 DEF Pool!Release, Pool!Invalidate, Pool!CancelRef, Pool!Goto
  <2>2. Pool!IdleWorkers' = Pool!IdleWorkers
    BY <2>1 DEF Pool!IdleWorkers
  <2> QED
    BY <1>t, <1>u, <2>1, <2>2 DEF PoolP!Unborn
<1>2. ASSUME PoolP!Takes(t)
      PROVE  /\ t \in Pool!Holders(w)' => w \in Pool!IdleWorkers
             /\ w \in Pool!IdleWorkers' => w \in Pool!IdleWorkers
             /\ w \in PoolP!Unreturned' => w \in PoolP!Unreturned
  <2>1. t \in PoolP!Holders(w)' => w \in PoolP!IdleWorkers
    BY <1>2 DEF PoolP!Takes
  <2>2. ASSUME NEW k \in PoolP!PoolKey, w \in PoolP!ToSet(idle'[k])
        PROVE  w \in PoolP!ToSet(idle[k])
    BY <1>2, <2>2 DEF PoolP!Takes, PoolP!ToSet
  <2>3. w \in PoolP!IdleWorkers' => w \in PoolP!IdleWorkers
    BY <2>2 DEF PoolP!IdleWorkers
  <2>4. pc'[t] \notin PoolP!Unborn
    BY <1>2 DEF PoolP!Takes, PoolP!Unborn
  <2> QED
    BY <1>u, <2>1, <2>3, <2>4, SameOwners
<1>3. ASSUME t \in Callers, NEW n \in Tenants, NEW rel \in Releases, Pool!AcquirePop(t, n, rel)
      PROVE  PoolP!Takes(t)
  BY <1>3, Components, SameAcquire, PoolP!PopTakes
<1>4. CASE t = Reaper /\ Pool!Reap
  BY <1>2, <1>4, Components, SameOthers, PoolP!ReapTakes
<1> QED
  BY <1>1, <1>2, <1>3, <1>4

-----------------------------------------------------------------------------
(* _active *)

\* Where invoke has or had an entry in _active.
InFlight == {"run", "running", "finish", "cleanup", "releasing", "fail", "failing", "abandon",
             "leave"}

\* A step of a thread that is not the invoke behind the entry of i, or is still behind it
\* afterwards, and leaves the entry alone.
LEMMA ActiveKept ==
    ASSUME SInv, NEW t \in Threads, Moves(t), ActiveInFlight,
           NEW i \in InvocationIds, active'[i] # NotActive, active'[i] = active[i],
           \/ spc[t] \notin InFlight \/ t \notin Callers \/ job[t].inv # i
           \/ /\ spc'[t] \in InFlight
              /\ job'[t].inv = job[t].inv /\ job'[t].req = job[t].req
              /\ job'[t].lease = job[t].lease
    PROVE  \E u \in Callers :
              /\ spc'[u] \in InFlight /\ job'[u].inv = i
              /\ Owns(active'[i], job'[u].req.tenant, job'[u].lease)
<1>1. PICK u \in Callers : /\ spc[u] \in InFlight /\ job[u].inv = i
                           /\ Owns(active[i], job[u].req.tenant, job[u].lease)
  BY DEF ActiveInFlight, InFlight
<1>2. CASE u = t
  BY <1>1, <1>2
<1>3. CASE u # t
  <2>1. u \in Threads /\ spc'[u] = spc[u] /\ job'[u] = job[u]
    BY <1>3, MovesFit DEF Threads
  <2> QED
    BY <1>1, <2>1
<1> QED
  BY <1>2, <1>3

\* Only invoke writes an entry; leaving invoke and cancelling it pop one.
LEMMA ActiveShrinks ==
    ASSUME SInv, NEW t \in Callers, CallStep(t), ~InvokeRegister(t),
           NEW i \in InvocationIds, active'[i] # NotActive
    PROVE  active'[i] = active[i] /\ (InvokeLeave(t) => job[t].inv # i)
<1>0. active \in [InvocationIds -> ActiveRun \cup {NotActive}]
  BY DEF SInv, SvcTyped
<1>1. CASE InvokeLeave(t) \/ CancelPop(t)
  BY <1>0, <1>1 DEF InvokeLeave, CancelPop
<1>2. CASE ~InvokeLeave(t) /\ ~CancelPop(t)
  <2>1. CASE InvokeCheck(t) \/ InvokeReplayed(t) \/ InvokeAcquire(t) \/ InvokeAcquireRaised(t)
           \/ (\E r \in RunIds : InvokeBegin(t, r) \/ InvokeBeginLost(t, r))
           \/ InvokeDuplicate(t) \/ InvokeDuplicateDone(t) \/ InvokeRun(t)
           \/ (\E res \in RunResults : InvokeAnswer(t, res)) \/ InvokeRunRaises(t)
    BY <1>2, <2>1 DEF InvokeCheck, InvokeReplayed, InvokeAcquire, InvokeAcquireRaised,
        InvokeBegin, InvokeBeginLost, InvokeDuplicate, InvokeDuplicateDone, InvokeRun,
        InvokeAnswer, InvokeRunRaises
  <2>2. CASE InvokeFinish(t) \/ InvokeFinishRaises(t) \/ InvokeCleanup(t) \/ InvokeCleanupDone(t)
           \/ InvokeFail(t) \/ InvokeFailDone(t) \/ InvokeAbandon(t) \/ InvokeAbandonRaises(t)
           \/ CancelRefused(t) \/ CancelInvalidate(t) \/ CancelDone(t) \/ PoolStep(t)
    BY <1>2, <2>2 DEF InvokeFinish, InvokeFinishRaises, InvokeCleanup, InvokeCleanupDone,
        InvokeFail, InvokeFailDone, InvokeAbandon, InvokeAbandonRaises, CancelRefused,
        CancelInvalidate, CancelDone, PoolStep
  <2> QED
    BY <1>2, <2>1, <2>2 DEF CallStep
<1> QED
  BY <1>1, <1>2

\* An invoke that has an entry stays in flight until it pops the entry.
LEMMA InFlightStays ==
    ASSUME SInv, NEW t \in Callers, CallStep(t), spc[t] \in InFlight, ~InvokeLeave(t)
    PROVE  /\ spc'[t] \in InFlight
           /\ job'[t].inv = job[t].inv /\ job'[t].req = job[t].req
           /\ job'[t].lease = job[t].lease
<1>0. t \in Threads /\ spc \in [Threads -> ServicePlaces] /\ job \in [Threads -> Jobs]
  BY DEF SInv, SvcTyped, ThreadsFit, Threads
<1> USE DEF InFlight, Goto
<1>1. CASE InvokeRun(t) \/ InvokeRunRaises(t) \/ InvokeFinish(t) \/ InvokeFinishRaises(t)
           \/ InvokeCleanup(t) \/ InvokeCleanupDone(t) \/ InvokeFail(t) \/ InvokeFailDone(t)
           \/ InvokeAbandon(t) \/ InvokeAbandonRaises(t)
  BY <1>0, <1>1 DEF InvokeRun, InvokeRunRaises, InvokeFinish, InvokeFinishRaises, InvokeCleanup,
        InvokeCleanupDone, InvokeFail, InvokeFailDone, InvokeAbandon, InvokeAbandonRaises
<1>2. CASE PoolStep(t)
  BY <1>2 DEF PoolStep
<1>3. ASSUME NEW res \in RunResults, InvokeAnswer(t, res)
      PROVE  /\ spc'[t] \in InFlight
             /\ job'[t].inv = job[t].inv /\ job'[t].req = job[t].req
             /\ job'[t].lease = job[t].lease
  BY <1>0, <1>3 DEF InvokeAnswer
<1>4. ~(InvokeCheck(t) \/ InvokeReplayed(t) \/ InvokeAcquire(t) \/ InvokeAcquireRaised(t)
        \/ (\E r \in RunIds : InvokeBegin(t, r) \/ InvokeBeginLost(t, r))
        \/ InvokeRegister(t) \/ InvokeDuplicate(t) \/ InvokeDuplicateDone(t)
        \/ CancelRefused(t) \/ CancelPop(t) \/ CancelInvalidate(t) \/ CancelDone(t))
  BY DEF InvokeCheck, InvokeReplayed, InvokeAcquire, InvokeAcquireRaised, InvokeBegin,
        InvokeBeginLost, InvokeRegister, InvokeDuplicate, InvokeDuplicateDone, CancelRefused,
        CancelPop, CancelInvalidate, CancelDone
<1> QED
  BY <1>1, <1>2, <1>3, <1>4 DEF CallStep

\* The service keeps every entry of _active behind an invoke in flight.
LEMMA ServiceActive ==
    ASSUME SInv, ActiveInFlight, Next
    PROVE  ActiveInFlight'
<1> DEFINE Behind(i) == \E u \in Callers :
              /\ spc'[u] \in InFlight /\ job'[u].inv = i
              /\ Owns(active'[i], job'[u].req.tenant, job'[u].lease)
<1> SUFFICES ASSUME NEW i \in InvocationIds, active'[i] # NotActive PROVE Behind(i)
    BY DEF ActiveInFlight, InFlight
<1>1. ASSUME NEW t \in Callers, CallStep(t) PROVE Behind(i)
  <2>0. t \in Threads /\ Moves(t)
    BY <1>1, CallMoves DEF Threads
  <2>1. CASE InvokeRegister(t)
    <3>0. /\ ThreadsFit /\ active \in [InvocationIds -> ActiveRun \cup {NotActive}]
          /\ spc \in [Threads -> ServicePlaces]
      BY DEF SInv, SvcTyped
    <3>1. spc[t] = "acquiring" /\ spc'[t] = "run" /\ job' = job
      BY <2>0, <2>1, <3>0 DEF InvokeRegister, Goto
    <3>2. CASE job[t].inv = i
      <4>1. /\ active'[i].tenant = job[t].req.tenant /\ active'[i].lease = job[t].lease
        BY <2>1, <3>0, <3>2 DEF InvokeRegister
      <4> QED
        BY <3>1, <3>2, <4>1 DEF Owns, InFlight
    <3>3. CASE job[t].inv # i
      <4>1. active'[i] = active[i]
        BY <2>1, <3>0, <3>3 DEF InvokeRegister
      <4> QED
        BY <2>0, <3>3, <4>1, ActiveKept
    <3> QED
      BY <3>2, <3>3
  <2>2. CASE ~InvokeRegister(t)
    <3>1. active'[i] = active[i] /\ (InvokeLeave(t) => job[t].inv # i)
      BY <1>1, <2>2, ActiveShrinks
    <3>2. CASE spc[t] \in InFlight /\ ~InvokeLeave(t)
      BY <1>1, <2>0, <3>1, <3>2, InFlightStays, ActiveKept
    <3>3. CASE spc[t] \notin InFlight \/ InvokeLeave(t)
      BY <2>0, <3>1, <3>3, ActiveKept
    <3> QED
      BY <3>2, <3>3
  <2> QED
    BY <2>1, <2>2
<1>2. ASSUME NEW t \in Callers,
             \/ \E j \in InvocationIds, l \in LeaseIds, req \in DB!Request :
                    InvokeStart(t, j, l, req)
             \/ \E n \in Tenants, l \in LeaseIds, j \in InvocationIds : CancelStart(t, n, l, j)
      PROVE  Behind(i)
  <2>1. t \in Threads /\ Moves(t) /\ spc[t] \notin InFlight /\ active' = active
    BY <1>2, StartMoves DEF Threads, InFlight
  <2> QED
    BY <2>1, ActiveKept
<1>3. CASE Maintenance
  <2>1. Reaper \in Threads /\ Moves(Reaper) /\ active' = active /\ Reaper \notin Callers
    BY <1>3, ReaperMoves, Components DEF Threads, PoolP!PoolAssumption
  <2> QED
    BY <2>1, ActiveKept
<1>4. CASE Crash
  BY <1>4, CrashForgets
<1>5. CASE \/ LeaseCall \/ Startup \/ Environment
           \/ \E w \in Workers, r \in RunIds : ExecEnds(w, r)
  <2>1. UNCHANGED <<spc, job, active>>
    BY <1>5, OtherSteps
  <2> QED
    BY <2>1 DEF ActiveInFlight, InFlight
<1> QED
  BY <1>1, <1>2, <1>3, <1>4, <1>5 DEF Next

-----------------------------------------------------------------------------
(* Workers and executions *)

\* What a thread may do in the pool.
PoolMoves(t) ==
    \/ Pool!Step(t)
    \/ t \in Callers /\ \E n \in Tenants, rel \in Releases : Pool!AcquirePop(t, n, rel)
    \/ Pool!Release(t) \/ Pool!Invalidate(t)
    \/ \E v \in Workers : Pool!CancelRef(t, v)
    \/ t = Reaper /\ Pool!Reap
    \/ UNCHANGED poolVars

\* Every step of a call is one of these, only steps inside the pool touch the sandboxes, and
\* only invoke starts an execution.
LEMMA CallKinds ==
    ASSUME SInv, NEW t \in Callers, CallStep(t)
    PROVE  /\ PoolMoves(t)
           /\ sandboxes' = sandboxes \/ PoolStep(t)
           /\ exec' \subseteq exec
              \/ (InvokeRun(t) /\ exec' \subseteq exec \cup {<<call[t].w, job[t].run>>})
<1>0. SvcTyped /\ ThreadsFit
  BY DEF SInv
<1> USE DEF PoolMoves
<1>1. CASE InvokeAcquire(t)
  <2>1. /\ spc[t] = "acquire" /\ Pool!AcquirePop(t, job[t].req.tenant, job[t].req.release)
        /\ exec' = exec
    BY <1>1 DEF InvokeAcquire
  <2>2. job[t].req.tenant \in Tenants /\ job[t].req.release \in Releases
    BY <1>0, <2>1, JobParts DEF RunPlaces, DB!Request
  <2>3. sandboxes' = sandboxes
    BY <2>1 DEF Pool!AcquirePop, Pool!AcquireWith
  <2> QED
    BY <2>1, <2>2, <2>3
<1>2. CASE InvokeAcquireRaised(t)
  <2>1. Pool!Handled(t) /\ exec' = exec
    BY <1>2 DEF InvokeAcquireRaised
  <2> QED
    BY <2>1 DEF Pool!Step, Pool!Handled
<1>3. CASE InvokeDuplicate(t) \/ InvokeCleanup(t) \/ InvokeFail(t) \/ CancelInvalidate(t)
  <2>1. (Pool!Release(t) \/ Pool!Invalidate(t)) /\ exec' = exec
    BY <1>3 DEF InvokeDuplicate, InvokeCleanup, InvokeFail, CancelInvalidate
  <2> QED
    BY <2>1 DEF Pool!Release, Pool!Invalidate
<1>4. CASE CancelPop(t)
  <2>1. /\ spc[t] = "cancel" /\ active[job[t].inv] # NotActive
        /\ Pool!CancelRef(t, active[job[t].inv].worker) /\ exec' = exec
    BY <1>4 DEF CancelPop, Owns
  <2>2. job[t].inv \in InvocationIds
    BY <1>0, <2>1, JobParts
  <2>3. active[job[t].inv].worker \in Workers
    BY <1>0, <2>1, <2>2 DEF SvcTyped, ActiveRun
  <2>4. sandboxes' = sandboxes
    BY <2>1 DEF Pool!CancelRef
  <2> QED
    BY <2>1, <2>3, <2>4
<1>5. CASE PoolStep(t)
  BY <1>5 DEF PoolStep, SandboxesKill
<1>6. CASE InvokeRun(t) \/ \E res \in RunResults : InvokeAnswer(t, res)
  BY <1>6 DEF InvokeRun, InvokeAnswer, poolVars
<1>7. CASE InvokeCheck(t) \/ InvokeReplayed(t) \/ InvokeRegister(t) \/ InvokeDuplicateDone(t)
           \/ (\E r \in RunIds : InvokeBegin(t, r) \/ InvokeBeginLost(t, r))
           \/ InvokeRunRaises(t) \/ InvokeFinish(t) \/ InvokeFinishRaises(t)
           \/ InvokeCleanupDone(t) \/ InvokeFailDone(t)
           \/ InvokeAbandon(t) \/ InvokeAbandonRaises(t) \/ InvokeLeave(t)
           \/ CancelRefused(t) \/ CancelDone(t)
  <2>1. UNCHANGED poolVars /\ exec' = exec
    BY <1>7 DEF InvokeCheck, InvokeReplayed, InvokeRegister, InvokeDuplicateDone, InvokeBegin,
                InvokeBeginLost, InvokeRunRaises, InvokeFinish, InvokeFinishRaises,
                InvokeCleanupDone, InvokeFailDone, InvokeAbandon, InvokeAbandonRaises,
                InvokeLeave, CancelRefused, CancelDone
  <2> QED
    BY <2>1 DEF poolVars
<1> QED
  BY <1>1, <1>2, <1>3, <1>4, <1>5, <1>6, <1>7 DEF CallStep

\* Whatever a thread does in the pool, it gets idle or new workers only, puts back only what
\* it held, and what the other threads hold stays with them.
LEMMA ThreadOwners ==
    ASSUME SInv, NEW t \in Threads, PoolMoves(t), NEW w \in Workers
    PROVE  /\ t \in Pool!Holders(w)' =>
                  t \in Pool!Holders(w) \/ w \in Pool!IdleWorkers \/ Pool!Create(t, w)
           /\ w \in Pool!IdleWorkers' =>
                  w \in Pool!IdleWorkers \/ (t \in Pool!Holders(w) /\ Pool!Step(t))
           /\ w \in PoolP!Unreturned' => w \in PoolP!Unreturned \/ w \in sandboxes' \ sandboxes
           /\ \A u \in Threads : u # t => (u \in Pool!Holders(w)' <=> u \in Pool!Holders(w))
<1>0. PoolP!Typed /\ PoolP!Owned
  BY DEF SInv
<1>1. CASE UNCHANGED poolVars
  BY <1>1 DEF poolVars, Pool!Holders, Pool!IdleWorkers, PoolP!Unreturned
<1>2. CASE ~UNCHANGED poolVars
  <2>1. Elsewhere(t)
    BY <1>0, <1>2, StepElsewhere, CallElsewhere DEF PoolMoves
  <2>2. \A u \in Threads : u # t => (u \in Pool!Holders(w)' <=> u \in Pool!Holders(w))
    BY <2>1 DEF Elsewhere, Pool!Holders
  <2>3. CASE Pool!Step(t)
    BY <1>0, <2>2, <2>3, StepHolds
  <2>4. CASE ~Pool!Step(t)
    BY <1>0, <1>2, <2>2, <2>4, CallHolds DEF PoolMoves
  <2> QED
    BY <2>3, <2>4
<1> QED
  BY <1>1, <1>2

\* An execution that goes on stays with the invoke that holds its sandbox.
LEMMA ExecStands ==
    ASSUME SInv, NEW t \in Threads, Moves(t), PoolMoves(t), NEW e \in exec, e[1] \in sandboxes',
           t \in Pool!Holders(e[1])' /\ t \in Pool!Holders(e[1]) =>
               spc'[t] \in {"running", "fail"} /\ job'[t].run = e[2]
    PROVE  /\ e[1] \in sandboxes'
           /\ e[1] \notin Pool!IdleWorkers'
           /\ \A u \in Threads : u \in Pool!Holders(e[1])' =>
                  spc'[u] \in {"running", "fail"} /\ job'[u].run = e[2]
<1>0. ThreadsFit /\ exec \subseteq Workers \X RunIds
  BY DEF SInv, SvcTyped
<1>1. PICK w \in Workers : w = e[1]
  BY <1>0
<1>2. /\ w \in sandboxes /\ w \notin Pool!IdleWorkers
      /\ \A u \in Threads : u \in Pool!Holders(w) =>
             spc[u] \in {"running", "fail"} /\ job[u].run = e[2]
  BY <1>1 DEF SInv, ExecOwned
<1>3. w \notin Pool!IdleWorkers'
  <2>1. t \in Pool!Holders(w) => pc[t] = "using"
    BY <1>0, <1>2 DEF ThreadsFit, UsingPlaces
  <2>2. ~(t \in Pool!Holders(w) /\ Pool!Step(t))
    BY <2>1, UsingRests
  <2> QED
    BY <1>2, <2>2, ThreadOwners
<1>4. ASSUME NEW u \in Threads, u \in Pool!Holders(w)'
      PROVE  spc'[u] \in {"running", "fail"} /\ job'[u].run = e[2]
  <2>1. CASE u = t
    <3>1. t \in Pool!Holders(w)
      BY <1>2, <1>4, <2>1, ThreadOwners DEF Pool!Create
    <3> QED
      BY <1>1, <1>4, <2>1, <3>1
  <2>2. CASE u # t
    <3>1. u \in Pool!Holders(w) /\ spc'[u] = spc[u] /\ job'[u] = job[u]
      BY <1>4, <2>2, ThreadOwners, MovesFit
    <3> QED
      BY <1>2, <3>1
  <2> QED
    BY <2>1, <2>2
<1> QED
  BY <1>1, <1>3, <1>4

\* The invoke that holds the sandbox of an execution waits, or is about to destroy it, as long
\* as the execution goes on.
LEMMA ExecHeld ==
    ASSUME SInv, NEW t \in Callers, CallStep(t), NEW e \in exec, e \in exec',
           t \in Pool!Holders(e[1]), t \in Pool!Holders(e[1])'
    PROVE  spc'[t] \in {"running", "fail"} /\ job'[t].run = e[2]
<1>0. /\ ThreadsFit /\ exec \subseteq Workers \X RunIds /\ t \in Threads /\ PoolP!Typed
      /\ PoolP!Owned /\ spc \in [Threads -> ServicePlaces]
  BY DEF SInv, SvcTyped, Threads
<1>1. spc[t] \in {"running", "fail"} /\ job[t].run = e[2]
  BY <1>0 DEF SInv, ExecOwned
<1>2. pc[t] = "using" /\ call[t].w = e[1]
  BY <1>0, <1>1 DEF ThreadsFit, UsingPlaces, Pool!Holders
<1>3. e = <<call[t].w, job[t].run>>
  BY <1>0, <1>1, <1>2
<1>4. ~\E res \in RunResults : InvokeAnswer(t, res)
  BY <1>3 DEF InvokeAnswer
<1>5. ~InvokeFail(t)
  <2> SUFFICES ASSUME Pool!Invalidate(t) PROVE FALSE
      BY DEF InvokeFail
  <2>1. call'[t].op = "retire"
    BY <1>0, PoolFacts DEF Pool!Invalidate
  <2> QED
    BY <2>1 DEF Pool!Holders
<1>6. ~PoolStep(t)
  BY <1>2, UsingRests DEF PoolStep
<1>7. ~(InvokeCheck(t) \/ InvokeReplayed(t) \/ InvokeAcquire(t) \/ InvokeAcquireRaised(t)
        \/ (\E r \in RunIds : InvokeBegin(t, r) \/ InvokeBeginLost(t, r))
        \/ InvokeRegister(t) \/ InvokeDuplicate(t) \/ InvokeDuplicateDone(t) \/ InvokeRun(t))
  BY <1>1 DEF InvokeCheck, InvokeReplayed, InvokeAcquire, InvokeAcquireRaised, InvokeBegin,
        InvokeBeginLost, InvokeRegister, InvokeDuplicate, InvokeDuplicateDone, InvokeRun
<1>8. ~(InvokeFinish(t) \/ InvokeFinishRaises(t) \/ InvokeCleanup(t) \/ InvokeCleanupDone(t)
        \/ InvokeFailDone(t) \/ InvokeAbandon(t) \/ InvokeAbandonRaises(t) \/ InvokeLeave(t)
        \/ CancelRefused(t) \/ CancelPop(t) \/ CancelInvalidate(t) \/ CancelDone(t))
  BY <1>1 DEF InvokeFinish, InvokeFinishRaises, InvokeCleanup, InvokeCleanupDone, InvokeFailDone,
        InvokeAbandon, InvokeAbandonRaises, InvokeLeave, CancelRefused, CancelPop,
        CancelInvalidate, CancelDone
<1>9. InvokeRunRaises(t)
  BY <1>4, <1>5, <1>6, <1>7, <1>8 DEF CallStep
<1> QED
  BY <1>0, <1>1, <1>9 DEF InvokeRunRaises, Goto

\* Calls keep the executions with their owners.
LEMMA CallExec ==
    ASSUME SInv, NEW t \in Callers, CallStep(t), exec' \subseteq Workers \X RunIds
    PROVE  ExecOwned'
<1>0. /\ t \in Threads /\ Moves(t) /\ PoolMoves(t) /\ ThreadsFit /\ PoolP!Typed /\ PoolP!Owned
      /\ spc \in [Threads -> ServicePlaces] /\ exec \subseteq Workers \X RunIds
  BY CallMoves, CallKinds DEF SInv, SvcTyped, Threads
<1> SUFFICES ASSUME NEW e \in exec'
             PROVE  /\ e[1] \in sandboxes'
                    /\ e[1] \notin Pool!IdleWorkers'
                    /\ \A u \in Threads : u \in Pool!Holders(e[1])' =>
                           spc'[u] \in {"running", "fail"} /\ job'[u].run = e[2]
    BY DEF ExecOwned
<1>1. CASE e \in exec
  <2>1. e[1] \in sandboxes'
    <3>1. e[1] \in sandboxes
      BY <1>1 DEF SInv, ExecOwned
    <3> QED
      BY <3>1, CallKinds DEF PoolStep, SandboxesKill
  <2>2. t \in Pool!Holders(e[1])' /\ t \in Pool!Holders(e[1]) =>
               spc'[t] \in {"running", "fail"} /\ job'[t].run = e[2]
    BY <1>1, ExecHeld
  <2> QED
    BY <1>0, <1>1, <2>1, <2>2, ExecStands
<1>2. CASE e \notin exec
  <2>1. InvokeRun(t) /\ e = <<call[t].w, job[t].run>>
    BY <1>2, CallKinds
  <2>2. /\ spc[t] = "run" /\ spc'[t] = "running" /\ UNCHANGED poolVars /\ job' = job
        /\ e[1] = call[t].w /\ e[2] = job[t].run /\ call[t].w \in sandboxes
    BY <1>0, <1>2, <2>1 DEF InvokeRun, Goto
  <2>3. pc[t] = "using" /\ call[t].op = "use" /\ call[t].w \in Workers
    BY <1>0, <2>2, PoolFacts DEF ThreadsFit, UsingPlaces
  <2>4. PICK w \in Workers : w = call[t].w
    BY <2>3
  <2>5. t \in Pool!Holders(w) /\ Pool!Holders(w)' = Pool!Holders(w)
        /\ Pool!IdleWorkers' = Pool!IdleWorkers /\ sandboxes' = sandboxes
    BY <1>0, <2>2, <2>3, <2>4 DEF Pool!Holders, Pool!IdleWorkers, Pool!Threads, Threads, poolVars
  <2>6. w \notin Pool!IdleWorkers /\ \A u \in Pool!Holders(w) : u = t
    BY <1>0, <2>5, PoolFacts DEF Pool!Exclusive
  <2> QED
    BY <2>2, <2>4, <2>5, <2>6
<1> QED
  BY <1>1, <1>2

\* Nobody holds a worker, and no worker is in the pool.
LEMMA NothingHeld ==
    ASSUME call' = [t \in Threads |-> Pool!NoCall], idle' = [k \in Pool!PoolKey |-> <<>>]
    PROVE  Pool!IdleWorkers' = {} /\ \A w : Pool!Holders(w)' = {}
<1>1. \A w : Pool!Holders(w)' = {}
  BY DEF Pool!Holders, Pool!NoCall, Pool!Threads, Threads
<1>2. \A k \in Pool!PoolKey : Pool!ToSet(idle'[k]) = {}
  BY DEF Pool!ToSet
<1> QED
  BY <1>1, <1>2 DEF Pool!IdleWorkers

\* The service keeps every execution with its owner.
LEMMA ServiceExec ==
    ASSUME SInv, Next
    PROVE  ExecOwned'
<1>0. /\ PoolP!Typed /\ PoolP!Owned /\ ExecOwned /\ exec' \subseteq Workers \X RunIds
      /\ exec \subseteq Workers \X RunIds
  BY ServiceTyped DEF SInv, SvcTyped
<1>q. ASSUME UNCHANGED <<spc, job, call, idle>>, exec' \subseteq exec,
             \A e \in exec' : e[1] \in sandboxes'
      PROVE  ExecOwned'
  <2>1. Pool!IdleWorkers' = Pool!IdleWorkers /\ \A w : Pool!Holders(w)' = Pool!Holders(w)
    BY <1>q DEF Pool!IdleWorkers, Pool!Holders
  <2> QED
    BY <1>0, <1>q, <2>1 DEF ExecOwned
<1>e. ASSUME call' = [t \in Threads |-> Pool!NoCall], idle' = [k \in Pool!PoolKey |-> <<>>],
             \A e \in exec' : e[1] \in sandboxes'
      PROVE  ExecOwned'
  BY <1>e, NothingHeld DEF ExecOwned
<1>1. ASSUME NEW t \in Callers, CallStep(t) PROVE ExecOwned'
  BY <1>0, <1>1, CallExec
<1>2. CASE \/ \E t \in Callers, i \in InvocationIds, l \in LeaseIds, req \in DB!Request :
                  InvokeStart(t, i, l, req)
           \/ \E t \in Callers, n \in Tenants, l \in LeaseIds, i \in InvocationIds :
                  CancelStart(t, n, l, i)
  <2>1. PICK t \in Callers :
             \/ \E i \in InvocationIds, l \in LeaseIds, req \in DB!Request :
                    InvokeStart(t, i, l, req)
             \/ \E n \in Tenants, l \in LeaseIds, i \in InvocationIds : CancelStart(t, n, l, i)
    BY <1>2
  <2>2. /\ t \in Threads /\ Moves(t) /\ PoolMoves(t) /\ exec' = exec /\ sandboxes' = sandboxes
        /\ spc[t] = "idle"
    BY <2>1, StartMoves DEF Threads, PoolMoves, poolVars
  <2>3. ASSUME NEW e \in exec
        PROVE  e[1] \in sandboxes' /\ t \notin Pool!Holders(e[1])
    BY <1>0, <2>2 DEF ExecOwned
  <2> QED
    BY <2>2, <2>3, ExecStands DEF ExecOwned
<1>3. CASE Maintenance
  <2>1. /\ Reaper \in Threads /\ Moves(Reaper) /\ PoolMoves(Reaper) /\ exec' \subseteq exec
        /\ \A e \in exec' : e[1] \in sandboxes'
    <3>1. Reaper \in Threads /\ Moves(Reaper)
      BY <1>3, ReaperMoves DEF Threads
    <3>2. CASE PoolStep(Reaper)
      BY <1>0, <3>1, <3>2 DEF PoolStep, PoolMoves, SandboxesKill
    <3>3. CASE ReapStart \/ ReapRaised
      BY <1>0, <3>1, <3>3 DEF ReapStart, ReapRaised, PoolMoves, Pool!Step, Pool!Handled,
            Pool!Reap, ExecOwned
    <3>4. CASE ReapDone \/ PurgeLeases \/ PurgeKeys \/ PurgeRuns
      <4>1. UNCHANGED poolVars /\ exec' = exec
        BY <3>4 DEF ReapDone, PurgeLeases, PurgeKeys, PurgeRuns
      <4> QED
        BY <1>0, <3>1, <4>1 DEF PoolMoves, ExecOwned, poolVars
    <3> QED
      BY <1>3, <3>2, <3>3, <3>4 DEF Maintenance
  <2>2. spc[Reaper] \notin {"running", "fail"}
    <3>1. PoolStep(Reaper) => pc[Reaper] # "using"
      BY UsingRests DEF PoolStep
    <3>2. spc[Reaper] \in UsingPlaces => pc[Reaper] = "using"
      BY <2>1 DEF SInv, ThreadsFit
    <3>3. ~PoolStep(Reaper) =>
              spc[Reaper] \in {"reap", "reaping", "purge_leases", "purge_keys", "purge_runs"}
      BY <1>3 DEF Maintenance, ReapStart, ReapDone, ReapRaised, PurgeLeases, PurgeKeys, PurgeRuns
    <3> QED
      BY <3>1, <3>2, <3>3 DEF UsingPlaces
  <2>3. ASSUME NEW e \in exec PROVE Reaper \notin Pool!Holders(e[1])
    BY <1>0, <2>1, <2>2 DEF ExecOwned
  <2> QED
    BY <2>1, <2>3, ExecStands DEF ExecOwned
<1>4. CASE Crash
  BY <1>0, <1>4, <1>e, CrashForgets DEF ExecOwned
<1>5. ASSUME NEW left \in SUBSET sandboxes, StartupCleanup(left) PROVE ExecOwned'
  <2>1. /\ call' = [t \in Threads |-> Pool!NoCall] /\ idle' = [k \in Pool!PoolKey |-> <<>>]
        /\ \A e \in exec' : e[1] \in sandboxes'
    BY <1>5 DEF StartupCleanup, SandboxesKill, Pool!Restart, Pool!Forget, Pool!Threads, Threads
  <2> QED
    BY <1>e, <2>1
<1>6. CASE LeaseCall \/ StartupReset \/ StartupPurgeLeases \/ StartupPurgeKeys
           \/ \E w \in Workers, r \in RunIds : ExecEnds(w, r)
  <2>1. UNCHANGED <<spc, job, call, idle, sandboxes>> /\ exec' \subseteq exec
    BY <1>6 DEF LeaseCall, StartupReset, StartupPurgeLeases, StartupPurgeKeys, ExecEnds,
                poolVars, svcVars
  <2> QED
    BY <1>0, <1>q, <2>1 DEF ExecOwned
<1>7. CASE Environment
  <2>1. UNCHANGED <<spc, job, call, idle>> /\ exec' \subseteq exec
        /\ (sandboxes' = sandboxes \/ SandboxesKill)
    BY <1>7 DEF Environment, poolVars, svcVars, Pool!Age, Pool!SandboxExpires, SandboxesKill
  <2> QED
    BY <1>0, <1>q, <2>1 DEF ExecOwned, SandboxesKill
<1> QED
  BY <1>1, <1>2, <1>3, <1>4, <1>5, <1>6, <1>7 DEF Next, Startup

\* Calls leave the worker of an entry with the threads that acquire returned it to.
LEMMA CallReturned ==
    ASSUME SInv, NEW t \in Callers, CallStep(t), NEW i \in InvocationIds,
           active'[i] # NotActive
    PROVE  active'[i].worker \notin PoolP!Unreturned'
<1>0. /\ t \in Threads /\ PoolMoves(t) /\ ThreadsFit /\ PoolP!Typed /\ PoolP!Owned
      /\ active \in [InvocationIds -> ActiveRun \cup {NotActive}] /\ ActiveReturned
  BY CallKinds DEF SInv, SvcTyped, Threads
<1>1. CASE active'[i] = active[i]
  <2>1. PICK w \in Workers : w = active[i].worker
    BY <1>0, <1>1 DEF ActiveRun
  <2>2. w \notin PoolP!Unreturned
    BY <1>0, <1>1, <2>1 DEF ActiveReturned
  <2>3. w \notin sandboxes' \ sandboxes
    BY <1>1, <2>1, CallKinds DEF PoolStep
  <2> QED
    BY <1>0, <1>1, <2>1, <2>2, <2>3, ThreadOwners
<1>2. CASE active'[i] # active[i]
  <2>1. InvokeRegister(t)
    BY <1>2, ActiveShrinks
  <2>2. active'[i].worker = call[t].w /\ pc[t] = "using" /\ UNCHANGED poolVars
    BY <1>0, <1>2, <2>1 DEF InvokeRegister
  <2>3. call[t].op = "use" /\ call[t].w \in Workers
    BY <1>0, <2>2, PoolFacts
  <2>4. PICK w \in Workers : w = call[t].w
    BY <2>3
  <2>5. PoolP!Unreturned' = PoolP!Unreturned
    BY <2>2 DEF PoolP!Unreturned, poolVars
  <2>6. ASSUME NEW u \in Threads, pc[u] \in PoolP!Unborn, call[u].w = w PROVE FALSE
    <3>1. call[u].op = "acquire"
      BY <1>0, <2>6, CreatingFacts DEF PoolP!Unborn
    <3>2. u \in Pool!Holders(w) /\ t \in Pool!Holders(w)
      BY <1>0, <2>3, <2>4, <2>6, <3>1 DEF Pool!Holders, Pool!Threads, Threads
    <3>3. u = t
      BY <1>0, <3>2, PoolFacts DEF Pool!Exclusive
    <3> QED
      BY <2>2, <2>6, <3>3 DEF PoolP!Unborn
  <2>7. w \notin PoolP!Unreturned
    BY <2>6 DEF PoolP!Unreturned, PoolP!Unborn, PoolP!Threads, Threads
  <2> QED
    BY <2>2, <2>4, <2>5, <2>7
<1> QED
  BY <1>1, <1>2

\* The service never names a worker in _active that acquire has not returned.
LEMMA ServiceReturned ==
    ASSUME SInv, Next
    PROVE  ActiveReturned'
<1> SUFFICES ASSUME NEW i \in InvocationIds, active'[i] # NotActive
             PROVE  active'[i].worker \notin PoolP!Unreturned'
    BY DEF ActiveReturned
<1>0. /\ ActiveReturned /\ active \in [InvocationIds -> ActiveRun \cup {NotActive}]
      /\ PoolP!Typed /\ PoolP!Owned
  BY DEF SInv, SvcTyped
<1>u. ASSUME active' = active, UNCHANGED <<pc, call>>
      PROVE  active'[i].worker \notin PoolP!Unreturned'
  BY <1>0, <1>u DEF ActiveReturned, PoolP!Unreturned
<1>e. ASSUME pc' = [t \in Threads |-> "ready"]
      PROVE  active'[i].worker \notin PoolP!Unreturned'
  BY <1>e DEF PoolP!Unreturned, PoolP!Threads, Threads
<1>1. ASSUME NEW t \in Callers, CallStep(t)
      PROVE  active'[i].worker \notin PoolP!Unreturned'
  BY <1>1, CallReturned
<1>2. CASE \/ \E t \in Callers, j \in InvocationIds, l \in LeaseIds, req \in DB!Request :
                  InvokeStart(t, j, l, req)
           \/ \E t \in Callers, n \in Tenants, l \in LeaseIds, j \in InvocationIds :
                  CancelStart(t, n, l, j)
  BY <1>2, <1>u DEF InvokeStart, CancelStart, poolVars
<1>3. CASE Maintenance
  <2>1. active' = active /\ Reaper \in Threads
    BY <1>3, ReaperMoves DEF Threads
  <2>2. PICK w \in Workers : w = active[i].worker
    BY <1>0, <2>1 DEF ActiveRun
  <2>3. w \notin PoolP!Unreturned
    BY <1>0, <2>1, <2>2 DEF ActiveReturned
  <2>4. PoolMoves(Reaper) /\ w \notin sandboxes' \ sandboxes
    <3>1. CASE PoolStep(Reaper)
      BY <2>1, <2>2, <3>1 DEF PoolStep, PoolMoves
    <3>2. CASE ReapStart \/ ReapRaised
      BY <3>2 DEF ReapStart, ReapRaised, PoolMoves, Pool!Step, Pool!Handled, Pool!Reap
    <3>3. CASE ReapDone \/ PurgeLeases \/ PurgeKeys \/ PurgeRuns
      <4>1. UNCHANGED poolVars
        BY <3>3 DEF ReapDone, PurgeLeases, PurgeKeys, PurgeRuns
      <4> QED
        BY <4>1 DEF PoolMoves, poolVars
    <3> QED
      BY <1>3, <3>1, <3>2, <3>3 DEF Maintenance
  <2> QED
    BY <2>1, <2>2, <2>3, <2>4, ThreadOwners
<1>4. CASE Crash
  BY <1>4, <1>e, CrashForgets
<1>5. CASE \/ LeaseCall \/ Startup \/ Environment
           \/ \E w \in Workers, r \in RunIds : ExecEnds(w, r)
  BY <1>5, <1>e, <1>u, OtherSteps
<1> QED
  BY <1>1, <1>2, <1>3, <1>4, <1>5 DEF Next

-----------------------------------------------------------------------------
(* The theorems about every environment *)

\* The service when it has just started.
LEMMA ServiceInit == Init => SInv /\ ActiveInFlight
<1> SUFFICES ASSUME Init PROVE SInv /\ ActiveInFlight
    OBVIOUS
<1>1. DBP!IInv
  <2>1. DBP!Init
    BY DEF Init, DB!Init, DBP!Init, DB!Absent, DBP!Absent, DB!KeyId, DBP!KeyId
  <2> QED
    BY <2>1, Components, DBP!InvInit
<1>2. PoolP!Init
  BY DEF Init, Pool!Init, PoolP!Init, Pool!Threads, PoolP!Threads, Pool!NoCall, PoolP!NoCall,
         Pool!PoolKey, PoolP!PoolKey, Pool!AnyKey, PoolP!AnyKey
<1>3. PoolP!Typed
  BY <1>2, Components, PoolP!InitTyped
<1>4. PoolP!Owned
  <2>1. /\ pc = [t \in PoolP!Threads |-> "ready"] /\ call = [t \in PoolP!Threads |-> PoolP!NoCall]
        /\ idle = [k \in PoolP!PoolKey |-> <<>>] /\ installed = [w \in Workers |-> {}]
    BY <1>2 DEF PoolP!Init
  <2> QED
    BY <2>1, Components, PoolP!NothingOwned
<1>5. SvcTyped
  BY DEF Init, SvcTyped, ServicePlaces, Phases
<1>6. ThreadsFit /\ DownQuiet
  <2>1. ASSUME NEW t \in Threads PROVE JobFits(spc[t], job[t]) /\ spc[t] \notin UsingPlaces
    BY DEF Init, JobFits, RunPlaces, UsingPlaces
  <2>2. job \in [Threads -> Jobs] /\ phase = "up"
    BY JobOver DEF Init
  <2> QED
    BY <2>1, <2>2 DEF ThreadsFit, DownQuiet
<1>7. ActiveReturned /\ ExecOwned /\ ActiveInFlight
  BY DEF Init, ActiveReturned, ExecOwned, ActiveInFlight
<1> QED
  BY <1>1, <1>3, <1>4, <1>5, <1>6, <1>7 DEF SInv

\* Nothing happens.
LEMMA ServiceStutter ==
    ASSUME SInv, UNCHANGED vars
    PROVE  SInv' /\ (ActiveInFlight => ActiveInFlight')
<1>u. /\ UNCHANGED dbVars /\ UNCHANGED poolVars /\ UNCHANGED <<pc, call, idle, sandboxes>>
      /\ UNCHANGED <<spc, job, active, lock, exec, phase>>
  BY DEF vars, poolVars, svcVars
<1>1. DBP!IInv'
  <2>1. DBP!IInv /\ UNCHANGED DBP!dbVars
    BY <1>u DEF SInv, dbVars, DBP!dbVars
  <2> QED
    BY <2>1, Components, DBP!InvStep
<1>2. (PoolP!Typed /\ PoolP!Owned)'
  <2>1. PoolP!Typed /\ PoolP!Owned /\ UNCHANGED PoolP!poolVars
    BY <1>u DEF SInv, poolVars, PoolP!poolVars
  <2> QED
    BY <2>1, Components, PoolP!StutterTyped, PoolP!StutterOwned
<1>3. SvcTyped' /\ ThreadsFit' /\ DownQuiet'
  BY <1>u DEF SInv, SvcTyped, ThreadsFit, DownQuiet
<1>4. ActiveReturned'
  <2>1. PoolP!Unreturned' = PoolP!Unreturned
    BY <1>u DEF PoolP!Unreturned
  <2> QED
    BY <1>u, <2>1 DEF SInv, ActiveReturned
<1>5. ExecOwned'
  <2>1. Pool!IdleWorkers' = Pool!IdleWorkers /\ \A w : Pool!Holders(w)' = Pool!Holders(w)
    BY <1>u DEF Pool!IdleWorkers, Pool!Holders
  <2> QED
    BY <1>u, <2>1 DEF SInv, ExecOwned
<1>6. ActiveInFlight => ActiveInFlight'
  BY <1>u DEF ActiveInFlight
<1> QED
  BY <1>1, <1>2, <1>3, <1>4, <1>5, <1>6 DEF SInv

\* Every step keeps the invariant.
LEMMA ServiceStep ==
    ASSUME SInv, ActiveInFlight, [Next]_vars
    PROVE  SInv' /\ ActiveInFlight'
<1>1. CASE Next
  BY <1>1, ServiceTables, ServicePool, ServiceTyped, ServiceReturned, ServiceExec, ServiceActive
     DEF SInv
<1>2. CASE UNCHANGED vars
  BY <1>2, ServiceStutter
<1> QED
  BY <1>1, <1>2

\* The inductive invariant of the service.
LEMMA ServiceInvariant == Spec => [](SInv /\ ActiveInFlight)
<1>1. Init => SInv /\ ActiveInFlight
  BY ServiceInit
<1>2. (SInv /\ ActiveInFlight) /\ [Next]_vars => (SInv /\ ActiveInFlight)'
  BY ServiceStep
<1> QED
  BY <1>1, <1>2, PTL DEF Spec

\* Type correctness of the Runner: the tables, the pool and _active keep their types through
\* every interleaving of invoke, cancel and maintenance, every fault, crash and restart.
THEOREM TypeCorrect == Spec => []TypeOK
<1>1. SInv => TypeOK
  <2> SUFFICES ASSUME SInv PROVE TypeOK
      OBVIOUS
  <2>1. Pool!TypeOK /\ SvcTyped
    BY PoolFacts DEF SInv
  <2>2. DBP!TypeOK
    BY DEF SInv, DBP!IInv
  <2>3. DB!TypeOK
    BY <2>2 DEF DB!TypeOK, DBP!TypeOK, DB!LeaseRow, DBP!LeaseRow, DB!Absent, DBP!Absent,
        DB!KeyId, DBP!KeyId, DB!RunningKey, DBP!RunningKey, DB!DoneKey, DBP!DoneKey, DB!Result,
        DBP!Result, DB!RunningRun, DBP!RunningRun, DB!ClosedRun, DBP!ClosedRun, DB!Request,
        DBP!Request, DB!Outcomes, DBP!Outcomes, DB!Claim, DBP!Claim
  <2> QED
    BY <2>1, <2>3 DEF TypeOK, SvcTyped
<1> QED
  BY <1>1, ServiceInvariant, PTL

\* Every entry of _active belongs to an invoke in flight, for the tenant and lease it
\* remembers: the finally clause of invoke and the pop of cancel leave none behind.
THEOREM ActiveAlwaysInFlight == Spec => []ActiveInFlight
BY ServiceInvariant, PTL

\* Nothing of an earlier invocation runs in a sandbox of the pool: release is only called
\* after the agent has answered, and what raised is invalidated.
THEOREM IdleAlwaysQuiet == Spec => []IdleQuiet
<1>1. SInv => IdleQuiet
  BY DEF SInv, ExecOwned, IdleQuiet
<1> QED
  BY <1>1, ServiceInvariant, PTL

-----------------------------------------------------------------------------
(* Runs: what finish_run and abandon_run are called for *)

\* Where an invoke has a run and has not sent it to a sandbox yet.
EarlyPlaces == {"acquire", "acquiring", "duplicate", "run"}

\* A run id comes from begin_run and stays with its call, which goes from acquire to finish_run
\* in this order.
LEMMA RunKept ==
    ASSUME SInv, NEW t \in Callers, CallStep(t), spc'[t] \in RunPlaces
    PROVE  \/ /\ spc[t] \in RunPlaces /\ job'[t].run = job[t].run /\ job'[t].req = job[t].req
              /\ spc'[t] \in EarlyPlaces => spc[t] \in EarlyPlaces
              /\ spc'[t] \in EarlyPlaces \cup {"running", "finish"} =>
                     spc[t] \in EarlyPlaces \cup {"running", "finish"}
           \/ \E r \in RunIds : InvokeBegin(t, r) /\ job'[t].run = r /\ job'[t].req = job[t].req
<1>0. t \in Threads /\ spc \in [Threads -> ServicePlaces] /\ job \in [Threads -> Jobs]
  BY DEF SInv, SvcTyped, ThreadsFit, Threads
<1> USE DEF RunPlaces, EarlyPlaces, Goto, End
<1>1. CASE InvokeCheck(t) \/ InvokeReplayed(t) \/ (\E r \in RunIds : InvokeBeginLost(t, r))
           \/ InvokeLeave(t) \/ CancelRefused(t) \/ CancelPop(t) \/ CancelInvalidate(t)
           \/ CancelDone(t)
  BY <1>0, <1>1 DEF InvokeCheck, InvokeReplayed, InvokeBeginLost, InvokeLeave, CancelRefused,
        CancelPop, CancelInvalidate, CancelDone
<1>2. ASSUME NEW r \in RunIds, InvokeBegin(t, r)
      PROVE  job'[t].run = r /\ job'[t].req = job[t].req
  BY <1>0, <1>2 DEF InvokeBegin
<1>3. CASE InvokeAcquire(t) \/ InvokeAcquireRaised(t) \/ InvokeRegister(t) \/ InvokeDuplicate(t)
           \/ InvokeDuplicateDone(t) \/ InvokeRun(t) \/ InvokeRunRaises(t)
  BY <1>0, <1>3 DEF InvokeAcquire, InvokeAcquireRaised, InvokeRegister, InvokeDuplicate,
        InvokeDuplicateDone, InvokeRun, InvokeRunRaises
<1>4. CASE InvokeFinish(t) \/ InvokeFinishRaises(t) \/ InvokeCleanup(t) \/ InvokeCleanupDone(t)
           \/ InvokeFail(t) \/ InvokeFailDone(t) \/ InvokeAbandon(t) \/ InvokeAbandonRaises(t)
  BY <1>0, <1>4 DEF InvokeFinish, InvokeFinishRaises, InvokeCleanup, InvokeCleanupDone,
        InvokeFail, InvokeFailDone, InvokeAbandon, InvokeAbandonRaises
<1>5. ASSUME NEW res \in RunResults, InvokeAnswer(t, res)
      PROVE  /\ spc[t] = "running" /\ spc'[t] = "finish"
             /\ job'[t].run = job[t].run /\ job'[t].req = job[t].req
  BY <1>0, <1>5 DEF InvokeAnswer
<1>6. CASE PoolStep(t)
  BY <1>6 DEF PoolStep
<1> QED
  BY <1>1, <1>2, <1>3, <1>4, <1>5, <1>6 DEF CallStep

\* begin_run answers with a run id nobody has had; no other statement hands one out, and a run
\* stops being RUNNING only by finish_run or abandon_run of its own call, or by reset_running.
LEMMA RunsEnd ==
    ASSUME SInv, Next, NEW r \in RunIds
    PROVE  /\ DB!Exists(claims[r]) => DB!Exists(claims'[r])
           /\ runs[r].state = "RUNNING" =>
                  \/ runs'[r].state = "RUNNING"
                  \/ phase = "cleaned"
                  \/ \E t \in Callers :
                         /\ spc[t] \in {"finish", "abandon"} /\ job[t].run = r
                         /\ spc'[t] \in {"cleanup", "fail", "leave"}
<1>0. /\ DBP!IInv /\ SvcTyped /\ ThreadsFit /\ runs = [x \in RunIds |-> runs[x]]
      /\ claims = [x \in RunIds |-> claims[x]] /\ spc \in [Threads -> ServicePlaces]
  BY DEF SInv, SvcTyped, DBP!IInv, DBP!TypeOK
<1>u. ASSUME runs' = runs, claims' = claims
      PROVE  (DB!Exists(claims[r]) => DB!Exists(claims'[r])) /\ runs'[r] = runs[r]
  BY <1>u
<1> USE DEF DB!Exists
<1>1. ASSUME NEW t \in Callers, NEW x \in RunIds, InvokeBegin(t, x) \/ InvokeBeginLost(t, x)
      PROVE  /\ DB!Exists(claims[r]) => DB!Exists(claims'[r])
             /\ runs[r].state = "RUNNING" => runs'[r].state = "RUNNING"
  <2>1. DB!BeginRun(job[t].req, x)
    BY <1>1 DEF InvokeBegin, InvokeBeginLost
  <2> QED
    BY <1>0, <2>1 DEF DB!BeginRun
<1>2. ASSUME NEW t \in Callers, InvokeFinish(t) \/ InvokeFinishRaises(t) \/ InvokeAbandon(t)
      PROVE  /\ DB!Exists(claims[r]) => DB!Exists(claims'[r])
             /\ runs'[r] = runs[r]
                \/ /\ spc[t] \in {"finish", "abandon"} /\ job[t].run = r
                   /\ spc'[t] \in {"cleanup", "fail", "leave"}
  <2>1. /\ spc[t] \in {"finish", "abandon"} /\ spc'[t] \in {"cleanup", "fail", "leave"}
        /\ UNCHANGED dbVars \/ DB!FinishRun(job[t].run, job[t].result) \/ DB!AbandonRun(job[t].run)
    BY <1>0, <1>2 DEF InvokeFinish, InvokeFinishRaises, InvokeAbandon, Goto, Threads
  <2>2. claims' = claims /\ (job[t].run # r => runs'[r] = runs[r])
    BY <1>0, <2>1 DEF DB!FinishRun, DB!AbandonRun, dbVars
  <2> QED
    BY <2>1, <2>2
<1>3. ASSUME NEW t \in Callers, CallStep(t),
             ~(\E x \in RunIds : InvokeBegin(t, x) \/ InvokeBeginLost(t, x)),
             ~InvokeFinish(t), ~InvokeFinishRaises(t), ~InvokeAbandon(t)
      PROVE  runs' = runs /\ claims' = claims
  <2>1. CASE InvokeCheck(t) \/ InvokeReplayed(t) \/ InvokeAcquire(t) \/ InvokeAcquireRaised(t)
             \/ InvokeRegister(t) \/ InvokeDuplicate(t) \/ InvokeDuplicateDone(t)
             \/ InvokeRun(t) \/ (\E res \in RunResults : InvokeAnswer(t, res))
             \/ InvokeRunRaises(t)
    BY <2>1 DEF InvokeCheck, InvokeReplayed, InvokeAcquire, InvokeAcquireRaised, InvokeRegister,
          InvokeDuplicate, InvokeDuplicateDone, InvokeRun, InvokeAnswer, InvokeRunRaises, dbVars
  <2>2. CASE InvokeCleanup(t) \/ InvokeCleanupDone(t) \/ InvokeFail(t) \/ InvokeFailDone(t)
             \/ InvokeAbandonRaises(t) \/ InvokeLeave(t) \/ CancelRefused(t) \/ CancelPop(t)
             \/ CancelInvalidate(t) \/ CancelDone(t) \/ PoolStep(t)
    BY <2>2 DEF InvokeCleanup, InvokeCleanupDone, InvokeFail, InvokeFailDone,
          InvokeAbandonRaises, InvokeLeave, CancelRefused, CancelPop, CancelInvalidate,
          CancelDone, PoolStep, dbVars
  <2> QED
    BY <1>3, <2>1, <2>2 DEF CallStep
<1>4. ASSUME NEW t \in Callers, CallStep(t)
      PROVE  /\ DB!Exists(claims[r]) => DB!Exists(claims'[r])
             /\ runs[r].state = "RUNNING" =>
                  \/ runs'[r].state = "RUNNING"
                  \/ /\ spc[t] \in {"finish", "abandon"} /\ job[t].run = r
                     /\ spc'[t] \in {"cleanup", "fail", "leave"}
  BY <1>1, <1>2, <1>3, <1>4, <1>u
<1>5. CASE LeaseCall
  <2>1. runs' = runs /\ claims' = claims
    BY <1>5 DEF LeaseCall, DB!CreateLease, DB!RenewLeaseCheck, DB!RenewLeaseUpdate,
                DB!DeleteLease, DB!runVars
  <2> QED
    BY <1>u, <2>1
<1>6. CASE Maintenance
  <2>1. CASE PurgeRuns
    <3>1. claims' = claims /\ (runs[r].state = "RUNNING" => runs'[r] = runs[r])
      BY <2>1 DEF PurgeRuns, DB!PurgeOldRuns, dbVars
    <3> QED
      BY <3>1
  <2>2. CASE ReapStart \/ ReapDone \/ ReapRaised \/ PurgeLeases \/ PurgeKeys \/ PoolStep(Reaper)
    <3>1. runs' = runs /\ claims' = claims
      BY <2>2 DEF ReapStart, ReapDone, ReapRaised, PurgeLeases, PurgeKeys, PoolStep, dbVars,
                  DB!PurgeExpiredLeases, DB!PurgeExpiredIdempotency, DB!runVars
    <3> QED
      BY <1>u, <3>1
  <2> QED
    BY <1>6, <2>1, <2>2 DEF Maintenance
<1>7. CASE StartupReset
  <2>1. claims' = claims /\ phase = "cleaned"
    BY <1>7 DEF StartupReset, DB!ResetRunning
  <2> QED
    BY <2>1
<1>8. CASE \/ \E left \in SUBSET sandboxes : StartupCleanup(left)
           \/ StartupPurgeLeases \/ StartupPurgeKeys \/ Crash \/ Environment
  <2>1. runs' = runs /\ claims' = claims
    BY <1>8 DEF StartupCleanup, StartupPurgeLeases, StartupPurgeKeys, Crash, Environment,
                dbVars, DB!PurgeExpiredLeases, DB!PurgeExpiredIdempotency, DB!runVars, DB!Tick
  <2> QED
    BY <1>u, <2>1
<1>9. CASE \/ \E t \in Callers, i \in InvocationIds, l \in LeaseIds, req \in DB!Request :
                  InvokeStart(t, i, l, req)
           \/ \E t \in Callers, n \in Tenants, l \in LeaseIds, i \in InvocationIds :
                  CancelStart(t, n, l, i)
           \/ \E w \in Workers, x \in RunIds : ExecEnds(w, x)
  <2>1. runs' = runs /\ claims' = claims
    BY <1>9 DEF InvokeStart, CancelStart, ExecEnds, dbVars
  <2> QED
    BY <1>u, <2>1
<1> QED
  BY <1>4, <1>5, <1>6, <1>7, <1>8, <1>9 DEF Next, Startup

\* What a step of the service does to the calls: most go on as they are.
LEMMA CallerRun ==
    ASSUME SInv, Next, NEW u \in Callers, spc'[u] \in RunPlaces
    PROVE  \/ /\ spc[u] \in RunPlaces /\ job'[u].run = job[u].run /\ job'[u].req = job[u].req
              /\ spc'[u] \in EarlyPlaces => spc[u] \in EarlyPlaces
              /\ spc'[u] \in EarlyPlaces \cup {"running", "finish"} =>
                     spc[u] \in EarlyPlaces \cup {"running", "finish"}
           \/ \E r \in RunIds : InvokeBegin(u, r) /\ job'[u].run = r /\ job'[u].req = job[u].req
<1>0. u \in Threads /\ Reaper \notin Callers
  BY Components DEF Threads, PoolP!PoolAssumption
<1> DEFINE Same == spc'[u] = spc[u] /\ job'[u] = job[u]
<1>s. ASSUME Same
      PROVE  /\ spc[u] \in RunPlaces /\ job'[u].run = job[u].run /\ job'[u].req = job[u].req
             /\ spc'[u] \in EarlyPlaces => spc[u] \in EarlyPlaces
             /\ spc'[u] \in EarlyPlaces \cup {"running", "finish"} =>
                    spc[u] \in EarlyPlaces \cup {"running", "finish"}
  BY <1>s
<1>m. ASSUME NEW t \in Threads, Moves(t), t # u PROVE Same
  BY <1>0, <1>m, MovesFit
<1>1. ASSUME NEW t \in Callers, CallStep(t) PROVE Same \/ CallStep(u)
  <2>1. t \in Threads /\ Moves(t)
    BY <1>1, CallMoves DEF Threads
  <2> QED
    BY <1>1, <1>m, <2>1
<1>2. ASSUME NEW t \in Callers,
             \/ \E j \in InvocationIds, l \in LeaseIds, req \in DB!Request :
                    InvokeStart(t, j, l, req)
             \/ \E n \in Tenants, l \in LeaseIds, j \in InvocationIds : CancelStart(t, n, l, j)
      PROVE  Same
  <2>1. t \in Threads /\ Moves(t) /\ spc'[t] \in {"check", "cancel"}
    BY <1>2, StartMoves DEF Threads
  <2> QED
    BY <1>m, <2>1 DEF RunPlaces
<1>3. CASE Maintenance
  <2>1. Reaper \in Threads /\ Moves(Reaper)
    BY <1>3, ReaperMoves DEF Threads
  <2> QED
    BY <1>0, <1>m, <1>s, <2>1
<1>4. ~Crash
  BY <1>0, CrashForgets DEF RunPlaces
<1>5. CASE \/ LeaseCall \/ Startup \/ Environment
           \/ \E w \in Workers, r \in RunIds : ExecEnds(w, r)
  <2>1. spc' = spc /\ job' = job
    BY <1>5, OtherSteps
  <2> QED
    BY <1>s, <2>1
<1> QED
  BY <1>1, <1>2, <1>3, <1>4, <1>5, <1>s, RunKept DEF Next

\* The run ids of the calls stay their own.
LEMMA KeepsOwn ==
    ASSUME SInv, RunsOwn, Next
    PROVE  RunsOwn'
<1>0. /\ ThreadsFit /\ ThreadsFit' /\ spc \in [Threads -> ServicePlaces]
      /\ claims = [x \in RunIds |-> claims[x]]
  BY ServiceTyped DEF SInv, SvcTyped, DBP!IInv, DBP!TypeOK
<1>b. ASSUME NEW t \in Callers, NEW r \in RunIds, InvokeBegin(t, r)
      PROVE  ~DB!Exists(claims[r]) /\ DB!Exists(claims'[r]) /\ spc' = [spc EXCEPT ![t] = "acquire"]
             /\ spc[t] = "begin"
  <2>1. DB!BeginRun(job[t].req, r)
    BY <1>b DEF InvokeBegin
  <2>2. claims'[r].state = "CLAIMED" /\ ~DB!Exists(claims[r])
    BY <1>0, <2>1 DEF DB!BeginRun
  <2> QED
    BY <1>b, <2>2 DEF InvokeBegin, Goto, DB!Exists
<1>1. ASSUME NEW t \in Callers, spc'[t] \in RunPlaces PROVE DB!Exists(claims'[job'[t].run])
  <2>1. CASE \E r \in RunIds : InvokeBegin(t, r) /\ job'[t].run = r
    BY <1>b, <2>1
  <2>2. CASE spc[t] \in RunPlaces /\ job'[t].run = job[t].run
    <3>1. job[t].run \in RunIds /\ DB!Exists(claims[job[t].run])
      BY <1>0, <2>2, JobParts DEF RunsOwn
    <3> QED
      BY <2>2, <3>1, RunsEnd
  <2> QED
    BY <1>1, <2>1, <2>2, CallerRun
<1>2. ASSUME NEW t \in Callers, NEW u \in Callers, spc'[t] \in RunPlaces, spc'[u] \in RunPlaces,
             job'[t].run = job'[u].run
      PROVE  t = u
  <2>1. ASSUME NEW x \in Callers, NEW y \in Callers, NEW r \in RunIds, InvokeBegin(x, r),
               spc[y] \in RunPlaces, job[y].run = r
        PROVE  FALSE
    BY <1>b, <2>1 DEF RunsOwn
  <2>2. ASSUME NEW r \in RunIds, NEW x \in RunIds, InvokeBegin(t, r), InvokeBegin(u, x) PROVE t = u
    <3>1. /\ spc' = [spc EXCEPT ![t] = "acquire"] /\ spc' = [spc EXCEPT ![u] = "acquire"]
          /\ spc[t] = "begin" /\ t \in Threads /\ u \in Threads
      BY <1>b, <2>2 DEF Threads
    <3> QED
      BY <1>0, <3>1
  <2>3. \/ spc[t] \in RunPlaces /\ job'[t].run = job[t].run
        \/ \E r \in RunIds : InvokeBegin(t, r) /\ job'[t].run = r
    BY <1>2, CallerRun
  <2>4. \/ spc[u] \in RunPlaces /\ job'[u].run = job[u].run
        \/ \E r \in RunIds : InvokeBegin(u, r) /\ job'[u].run = r
    BY <1>2, CallerRun
  <2> QED
    BY <1>2, <2>1, <2>2, <2>3, <2>4 DEF RunsOwn
<1> QED
  BY <1>1, <1>2 DEF RunsOwn

\* Up to finish_run a call finds its run RUNNING.
LEMMA KeepsClaimed ==
    ASSUME SInv, RunsOwn, RunsClaimed, Next
    PROVE  RunsClaimed'
<1>0. /\ ThreadsFit /\ DownQuiet /\ runs = [x \in RunIds |-> runs[x]]
  BY DEF SInv, DBP!IInv, DBP!TypeOK
<1> SUFFICES ASSUME NEW t \in Callers, spc'[t] \in EarlyPlaces \cup {"running", "finish"}
             PROVE  runs'[job'[t].run].state = "RUNNING"
    BY DEF RunsClaimed, EarlyPlaces
<1>1. spc'[t] \in RunPlaces
  BY DEF EarlyPlaces, RunPlaces
<1>2. ASSUME NEW r \in RunIds, InvokeBegin(t, r), job'[t].run = r
      PROVE  runs'[job'[t].run].state = "RUNNING"
  <2>1. DB!BeginRun(job[t].req, r)
    BY <1>2 DEF InvokeBegin
  <2> QED
    BY <1>0, <1>2, <2>1 DEF DB!BeginRun
<1>3. CASE /\ spc[t] \in RunPlaces /\ job'[t].run = job[t].run
           /\ spc[t] \in EarlyPlaces \cup {"running", "finish"}
  <2>1. PICK r \in RunIds : r = job[t].run
    BY <1>0, <1>3, JobParts
  <2>2. runs[r].state = "RUNNING"
    BY <1>3, <2>1 DEF RunsClaimed, EarlyPlaces
  <2>3. phase # "cleaned"
    BY <1>0, <1>3 DEF DownQuiet, Threads, RunPlaces
  <2>4. ASSUME NEW u \in Callers, spc[u] \in {"finish", "abandon"}, job[u].run = r,
               spc'[u] \in {"cleanup", "fail", "leave"}
        PROVE  FALSE
    <3>1. u = t
      BY <1>3, <2>1, <2>4 DEF RunsOwn, RunPlaces
    <3> QED
      BY <2>4, <3>1 DEF EarlyPlaces
  <2> QED
    BY <1>3, <2>1, <2>2, <2>3, <2>4, RunsEnd
<1> QED
  BY <1>1, <1>2, <1>3, CallerRun

\* Only invoke starts an execution.
LEMMA ExecGrows ==
    ASSUME SInv, Next
    PROVE  \/ exec' \subseteq exec
           \/ \E t \in Callers : /\ InvokeRun(t)
                                 /\ exec' \subseteq exec \cup {<<call[t].w, job[t].run>>}
<1>1. ASSUME NEW t \in Callers, CallStep(t)
      PROVE  \/ exec' \subseteq exec
             \/ InvokeRun(t) /\ exec' \subseteq exec \cup {<<call[t].w, job[t].run>>}
  BY <1>1, CallKinds
<1>2. CASE \/ \E t \in Callers, i \in InvocationIds, l \in LeaseIds, req \in DB!Request :
                  InvokeStart(t, i, l, req)
           \/ \E t \in Callers, n \in Tenants, l \in LeaseIds, i \in InvocationIds :
                  CancelStart(t, n, l, i)
           \/ Crash
  BY <1>2 DEF InvokeStart, CancelStart, Crash
<1>3. CASE Maintenance
  BY <1>3 DEF Maintenance, ReapStart, ReapDone, ReapRaised, PurgeLeases, PurgeKeys, PurgeRuns,
        PoolStep, SandboxesKill
<1>4. CASE \/ LeaseCall \/ Startup \/ Environment
           \/ \E w \in Workers, r \in RunIds : ExecEnds(w, r)
  BY <1>4, OtherSteps
<1> QED
  BY <1>1, <1>2, <1>3, <1>4 DEF Next

\* A run goes to one sandbox, once.
LEMMA KeepsOnce ==
    ASSUME SInv, RunsOwn, ExecOnce, Next
    PROVE  ExecOnce'
<1>0. /\ ThreadsFit /\ exec \subseteq Workers \X RunIds /\ spc \in [Threads -> ServicePlaces]
  BY DEF SInv, SvcTyped
<1>1. \/ exec' \subseteq exec
      \/ \E t \in Callers : /\ InvokeRun(t)
                            /\ exec' \subseteq exec \cup {<<call[t].w, job[t].run>>}
  BY ExecGrows
<1>n. ASSUME NEW t \in Callers, InvokeRun(t)
      PROVE  /\ spc[t] = "run" /\ spc'[t] = "running" /\ job[t].run \in RunIds
             /\ DB!Exists(claims[job[t].run]) /\ \A d \in exec : d[2] # job[t].run
  <2>1. spc[t] = "run" /\ spc'[t] = "running"
    BY <1>0, <1>n DEF InvokeRun, Goto, Threads
  <2> QED
    BY <1>0, <2>1, JobParts DEF RunsOwn, ExecOnce, RunPlaces
<1>2. ASSUME NEW e \in exec' PROVE DB!Exists(claims'[e[2]])
  <2>1. e[2] \in RunIds /\ DB!Exists(claims[e[2]])
    BY <1>0, <1>1, <1>n DEF ExecOnce
  <2> QED
    BY <2>1, RunsEnd
<1>3. ASSUME NEW u \in Callers, spc'[u] \in EarlyPlaces, NEW e \in exec' PROVE e[2] # job'[u].run
  <2>0. spc'[u] \in RunPlaces
    BY <1>3 DEF EarlyPlaces, RunPlaces
  <2>1. CASE spc[u] \in RunPlaces /\ job'[u].run = job[u].run /\ spc[u] \in EarlyPlaces
    <3>1. CASE e \in exec
      BY <2>1, <3>1 DEF ExecOnce, EarlyPlaces
    <3>2. CASE e \notin exec
      <4>1. PICK t \in Callers : InvokeRun(t) /\ e = <<call[t].w, job[t].run>>
        BY <1>1, <3>2
      <4>2. t # u
        BY <1>3, <1>n, <4>1 DEF EarlyPlaces
      <4> QED
        BY <1>n, <2>1, <4>1, <4>2 DEF RunsOwn, RunPlaces
    <3> QED
      BY <3>1, <3>2
  <2>2. ASSUME NEW r \in RunIds, InvokeBegin(u, r), job'[u].run = r PROVE e[2] # job'[u].run
    <3>1. ~DB!Exists(claims[r])
      BY <2>2 DEF InvokeBegin, DB!BeginRun
    <3>2. DB!Exists(claims[e[2]])
      BY <1>1, <1>n DEF ExecOnce
    <3> QED
      BY <2>2, <3>1, <3>2
  <2> QED
    BY <1>3, <2>0, <2>1, <2>2, CallerRun
<1>4. ASSUME NEW d \in exec', NEW e \in exec', d[2] = e[2] PROVE d = e
  BY <1>1, <1>4, <1>n DEF ExecOnce
<1> QED
  BY <1>2, <1>3, <1>4 DEF ExecOnce, EarlyPlaces

-----------------------------------------------------------------------------
(* Workers that are being destroyed *)

\* A worker is marked as destroyed by the thread that then deletes its sandbox.
LEMMA AliveLeaves ==
    ASSUME PoolP!Typed, PoolP!Owned, NEW t \in Threads, PoolMoves(t), NEW w \in alive
    PROVE  \/ w \in alive'
           \/ w = Head(call[t].stale) /\ pc'[t] = "backend" /\ call' = call
<1>0. pc \in [Threads -> Pool!Places]
  BY PoolFacts
<1> USE DEF Pool!workerVars
<1>1. CASE Pool!EnsureSandboxTTL(t) \/ Pool!RenewFails(t) \/ Pool!EnsureRelease(t)
           \/ Pool!InstallFails(t) \/ Pool!ReserveFails(t) \/ Pool!Reserve(t)
           \/ Pool!CreationSlot(t) \/ (\E v \in Workers : Pool!Create(t, v))
           \/ Pool!CreateFails(t) \/ Pool!Bootstrap(t) \/ Pool!BootstrapFails(t)
           \/ Pool!UndoCreate(t) \/ Pool!Unreserve(t) \/ Pool!ReleaseAppend(t)
  <2>1. alive \subseteq alive'
    BY <1>1 DEF Pool!EnsureSandboxTTL, Pool!RenewFails, Pool!EnsureRelease, Pool!InstallFails,
        Pool!ReserveFails, Pool!Reserve, Pool!CreationSlot, Pool!AcquireFails, Pool!Create,
        Pool!CreateFails, Pool!Bootstrap, Pool!BootstrapFails, Pool!UndoCreate, Pool!Unreserve,
        Pool!ReleaseAppend
  <2> QED
    BY <2>1
<1>2. CASE Pool!DestroyMark(t)
  BY <1>0, <1>2 DEF Pool!DestroyMark, Pool!Goto
<1>3. CASE Pool!DestroySkip(t) \/ Pool!DestroyBackend(t) \/ Pool!DestroyBackendFails(t)
           \/ Pool!DestroyReleaseLive(t) \/ Pool!DestroyReleaseLiveRaise(t)
           \/ Pool!RetireDone(t) \/ Pool!Handled(t)
  BY <1>3 DEF Pool!DestroySkip, Pool!DestroyBackend, Pool!DestroyBackendFails,
        Pool!DestroyReleaseLive, Pool!DestroyReleaseLiveRaise, Pool!RetireDone, Pool!Handled
<1>4. CASE ~Pool!Step(t)
  <2>1. alive' = alive
    BY <1>4 DEF PoolMoves, Pool!AcquirePop, Pool!AcquireWith, Pool!Release, Pool!Invalidate,
        Pool!CancelRef, Pool!Reap, poolVars
  <2> QED
    BY <2>1
<1> QED
  BY <1>1, <1>2, <1>3, <1>4 DEF Pool!Step

\* A deletion goes on until the sandbox is gone, except one of the maintenance loop that fails.
LEMMA DoomedStays ==
    ASSUME PoolP!Typed, PoolP!Owned, "destroy" \notin Faults, NEW t \in Threads, PoolMoves(t),
           NEW w \in sandboxes', Doomed(w),
           ~(t = Reaper /\ pc[Reaper] = "backend" /\ w = Head(call[Reaper].stale))
    PROVE  Doomed(w)'
<1>1. PICK v \in Threads : pc[v] = "backend" /\ Head(call[v].stale) = w
  BY DEF Doomed
<1>2. Elsewhere(t)
  BY StepElsewhere, CallElsewhere DEF PoolMoves
<1>3. CASE v # t
  BY <1>1, <1>2, <1>3 DEF Elsewhere, Doomed
<1>4. CASE v = t
  <2>1. ~Pool!DestroyBackend(t) /\ ~Pool!DestroyBackendFails(t)
    BY <1>1, <1>4 DEF Pool!DestroyBackend, Pool!DestroyBackendFails
  <2>2. ~Pool!Step(t)
    BY <1>1, <1>4, <2>1 DEF Pool!Step, Pool!EnsureSandboxTTL, Pool!RenewFails,
       Pool!EnsureRelease, Pool!InstallFails, Pool!ReserveFails, Pool!Reserve, Pool!CreationSlot,
       Pool!PastStale, Pool!Create, Pool!CreateFails, Pool!Bootstrap, Pool!BootstrapFails,
       Pool!UndoCreate, Pool!Unreserve, Pool!ReleaseAppend, Pool!DestroySkip, Pool!DestroyMark,
       Pool!Busy, Pool!DestroyReleaseLive, Pool!DestroyReleaseLiveRaise, Pool!RetireDone,
       Pool!Handled
  <2>3. UNCHANGED poolVars
    BY <1>1, <1>4, <2>2 DEF PoolMoves, Pool!AcquirePop, Pool!AcquireWith, Pool!Release,
        Pool!Invalidate, Pool!CancelRef, Pool!Reap
  <2> QED
    BY <2>3 DEF poolVars, Doomed
<1> QED
  BY <1>3, <1>4

\* What the threads hold, delete or are about to destroy is referred to.
LEMMA RefersFacts ==
    ASSUME PoolP!Typed, PoolP!Owned, NEW t \in Threads, NEW w \in Workers
    PROVE  /\ t \in Pool!Holders(w) => w \in Pool!Referenced
           /\ call[t].op = "reap" /\ w \in Pool!ToSet(call[t].stale) => w \in Pool!Referenced
BY DEF Pool!Holders, Pool!Referenced, Pool!RefersTo, Pool!Threads, Threads

\* A new sandbox is one that nobody referred to.
LEMMA NewSandbox ==
    ASSUME NEW t \in Threads, PoolMoves(t), NEW w, w \in sandboxes' \ sandboxes
    PROVE  w \notin Pool!Referenced
<1>1. CASE ~Pool!Step(t)
  <2>1. sandboxes' = sandboxes
    BY <1>1 DEF PoolMoves, Pool!AcquirePop, Pool!AcquireWith, Pool!Release, Pool!Invalidate,
        Pool!CancelRef, Pool!Reap, poolVars
  <2> QED
    BY <2>1
<1>2. CASE Pool!EnsureSandboxTTL(t) \/ Pool!RenewFails(t) \/ Pool!EnsureRelease(t)
           \/ Pool!InstallFails(t) \/ Pool!ReserveFails(t) \/ Pool!Reserve(t)
           \/ Pool!CreationSlot(t) \/ Pool!Bootstrap(t) \/ Pool!BootstrapFails(t)
           \/ Pool!UndoCreate(t) \/ Pool!Unreserve(t) \/ Pool!ReleaseAppend(t)
  BY <1>2 DEF Pool!EnsureSandboxTTL, Pool!RenewFails, Pool!EnsureRelease, Pool!InstallFails,
        Pool!ReserveFails, Pool!Reserve, Pool!CreationSlot, Pool!AcquireFails, Pool!Bootstrap,
        Pool!BootstrapFails, Pool!UndoCreate, Pool!Unreserve, Pool!ReleaseAppend
<1>3. CASE Pool!DestroySkip(t) \/ Pool!DestroyMark(t) \/ Pool!DestroyBackend(t)
           \/ Pool!DestroyBackendFails(t) \/ Pool!DestroyReleaseLive(t)
           \/ Pool!DestroyReleaseLiveRaise(t) \/ Pool!RetireDone(t) \/ Pool!Handled(t)
  BY <1>3 DEF Pool!DestroySkip, Pool!DestroyMark, Pool!DestroyBackend, Pool!DestroyBackendFails,
        Pool!DestroyReleaseLive, Pool!DestroyReleaseLiveRaise, Pool!RetireDone, Pool!Handled
<1>4. ASSUME NEW v \in Workers, Pool!Create(t, v) PROVE w \notin Pool!Referenced
  <2>1. v \notin Pool!Referenced /\ sandboxes' = sandboxes \cup {v}
    BY <1>4 DEF Pool!Create
  <2> QED
    BY <2>1
<1>5. CASE Pool!CreateFails(t)
  <2>1. \/ sandboxes' = sandboxes
        \/ \E v \in Workers \ (sandboxes \cup alive \cup Pool!Referenced) :
                sandboxes' = sandboxes \cup {v}
    BY <1>5 DEF Pool!CreateFails
  <2> QED
    BY <2>1
<1> QED
  BY <1>1, <1>2, <1>3, <1>4, <1>5 DEF Pool!Step

\* A thread gets an idle worker that is not destroyed, or a new one.
LEMMA NewHolder ==
    ASSUME SInv, NEW t \in Threads, PoolMoves(t), NEW w \in Workers,
           t \in Pool!Holders(w)', t \notin Pool!Holders(w)
    PROVE  Pool!Create(t, w) \/ w \in alive'
<1>0. /\ PoolP!Typed /\ PoolP!Owned /\ call = [u \in Threads |-> call[u]]
      /\ Reaper \notin Callers
  BY PoolFacts, Components
     DEF SInv, Pool!TypeOK, Pool!Threads, Threads, PoolP!PoolAssumption
<1>1. CASE Pool!Step(t)
  BY <1>0, <1>1, StepHolds
<1>2. ASSUME t \in Callers, NEW n \in Tenants, NEW rel \in Releases, Pool!AcquirePop(t, n, rel)
      PROVE  w \in alive'
  <2>1. /\ PoolP!Takes(t)
        /\ \A v \in Workers : t \in PoolP!Holders(v)' => v \in alive
    BY <1>0, <1>2, Components, SameAcquire, PoolP!PopTakes
  <2>2. t \in PoolP!Holders(w)'
    BY SameOwners
  <2> QED
    BY <2>1, <2>2 DEF PoolP!Takes
<1>3. ~(t = Reaper /\ Pool!Reap)
  <2> SUFFICES ASSUME t = Reaper, Pool!Reap PROVE FALSE
      OBVIOUS
  <2>1. call'[Reaper].op = "reap"
    BY <1>0 DEF Pool!Reap
  <2> QED
    BY <2>1 DEF Pool!Holders
<1>4. ~(Pool!Release(t) \/ Pool!Invalidate(t) \/ \E v \in Workers : Pool!CancelRef(t, v))
  <2> SUFFICES ASSUME Pool!Release(t) \/ Pool!Invalidate(t) \/ \E v \in Workers : Pool!CancelRef(t, v)
               PROVE  FALSE
      OBVIOUS
  <2>1. call'[t].op \notin {"acquire", "use"} \/ call' = call
    BY <1>0 DEF Pool!Release, Pool!Invalidate, Pool!CancelRef
  <2> QED
    BY <2>1 DEF Pool!Holders
<1>5. ~UNCHANGED poolVars
  BY DEF poolVars, Pool!Holders
<1> QED
  BY <1>1, <1>2, <1>3, <1>4, <1>5 DEF PoolMoves

\* A worker that acquire has created is alive once acquire has returned it.
LEMMA Born ==
    ASSUME SInv, NEW t \in Threads, PoolMoves(t), NEW w \in Workers,
           t \in Pool!Holders(w)', pc[t] \in PoolP!Unborn, pc'[t] \notin PoolP!Unborn
    PROVE  w \in alive'
<1>0. /\ PoolP!Typed /\ PoolP!Owned /\ call = [u \in Threads |-> call[u]]
      /\ pc \in [Threads -> Pool!Places]
  BY PoolFacts DEF SInv, Pool!TypeOK, Pool!Threads, Threads
<1> USE DEF PoolP!Unborn
<1>1. CASE Pool!Bootstrap(t)
  BY <1>0, <1>1 DEF Pool!Bootstrap, Pool!Holders
<1>2. ~Pool!Unreserve(t)
  <2> SUFFICES ASSUME Pool!Unreserve(t) PROVE FALSE
      OBVIOUS
  <2>1. call'[t].op = "none"
    BY <1>0 DEF Pool!Unreserve, Pool!Return, Pool!NoCall
  <2> QED
    BY <2>1 DEF Pool!Holders
<1>3. ~(Pool!BootstrapFails(t) \/ Pool!UndoCreate(t))
  BY <1>0 DEF Pool!BootstrapFails, Pool!UndoCreate, Pool!Goto
<1>4. Pool!Step(t)
  BY DEF PoolMoves, Pool!AcquirePop, Pool!AcquireWith, Pool!Release, Pool!Invalidate,
        Pool!CancelRef, Pool!Reap, poolVars
<1> QED
  BY <1>1, <1>2, <1>3, <1>4 DEF Pool!Step, Pool!EnsureSandboxTTL, Pool!RenewFails,
       Pool!EnsureRelease, Pool!InstallFails, Pool!ReserveFails, Pool!Reserve, Pool!CreationSlot,
       Pool!PastStale, Pool!Create, Pool!CreateFails, Pool!ReleaseAppend, Pool!DestroySkip,
       Pool!DestroyMark, Pool!Busy, Pool!DestroyBackend, Pool!DestroyBackendFails,
       Pool!DestroyReleaseLive, Pool!DestroyReleaseLiveRaise, Pool!RetireDone, Pool!Handled

\* A step of the service moves one thread, or leaves the threads and their workers alone, or
\* is the end of them all: the process dies, or starts with the clean-up.
OneMoves(t) ==
    /\ Moves(t) /\ PoolMoves(t)
    /\ t \in Callers => CallStep(t) \/ (spc[t] = "idle" /\ UNCHANGED <<poolVars, exec>>)
    /\ t = Reaper => /\ Pool!Reap \/ Pool!Step(Reaper) \/ UNCHANGED poolVars
                     /\ exec' \subseteq exec

NoneMoves ==
    /\ UNCHANGED <<spc, job, pc, call, idle, alive, home, installed>>
    /\ sandboxes' \subseteq sandboxes
    /\ exec' \subseteq exec
    /\ phase = "down" => phase' = "down"

AllGone ==
    /\ pc' = [t \in Threads |-> "ready"] /\ call' = [t \in Threads |-> Pool!NoCall]
    /\ idle' = [k \in Pool!PoolKey |-> <<>>]
    /\ phase' = "down" \/ exec' = {}

\* These are all the steps, when the clean-up finds every sandbox.
LEMMA StepKinds ==
    ASSUME SInv, Next, "cleanup" \notin Faults
    PROVE  (\E t \in Threads : OneMoves(t)) \/ NoneMoves \/ AllGone
<1>0. Reaper \notin Callers /\ Reaper \in Threads
  BY Components DEF Threads, PoolP!PoolAssumption
<1>1. ASSUME NEW t \in Callers, CallStep(t) PROVE t \in Threads /\ OneMoves(t)
  BY <1>0, <1>1, CallMoves, CallKinds DEF OneMoves, Threads
<1>2. ASSUME NEW t \in Callers,
             \/ \E j \in InvocationIds, l \in LeaseIds, req \in DB!Request :
                    InvokeStart(t, j, l, req)
             \/ \E n \in Tenants, l \in LeaseIds, j \in InvocationIds : CancelStart(t, n, l, j)
      PROVE  t \in Threads /\ OneMoves(t)
  <2>1. Moves(t) /\ spc[t] = "idle" /\ UNCHANGED <<poolVars, exec>>
    BY <1>2, StartMoves
  <2> QED
    BY <1>0, <2>1 DEF OneMoves, PoolMoves, Threads
<1>3. CASE Maintenance
  <2>1. Moves(Reaper)
    BY <1>3, ReaperMoves
  <2>2. /\ Pool!Reap \/ Pool!Step(Reaper) \/ UNCHANGED poolVars
        /\ exec' \subseteq exec
    BY <1>3 DEF Maintenance, ReapStart, ReapDone, ReapRaised, PurgeLeases, PurgeKeys, PurgeRuns,
        PoolStep, SandboxesKill, Pool!Step
  <2> QED
    BY <1>0, <2>1, <2>2 DEF OneMoves, PoolMoves
<1>4. CASE Crash
  BY <1>4, CrashForgets DEF AllGone
<1>5. ASSUME NEW left \in SUBSET sandboxes, StartupCleanup(left) PROVE AllGone
  <2>1. Pool!Forget /\ sandboxes' = {} /\ exec' = {e \in exec : e[1] \in sandboxes'}
    BY <1>5 DEF StartupCleanup, Pool!Restart, SandboxesKill
  <2> QED
    BY <2>1 DEF AllGone, Pool!Forget, Pool!Threads, Threads
<1>6. CASE LeaseCall \/ StartupReset \/ StartupPurgeLeases \/ StartupPurgeKeys
           \/ \E w \in Workers, r \in RunIds : ExecEnds(w, r)
  BY <1>6 DEF NoneMoves, LeaseCall, StartupReset, StartupPurgeLeases, StartupPurgeKeys, ExecEnds,
        poolVars, svcVars
<1>7. CASE Environment
  BY <1>7 DEF NoneMoves, Environment, poolVars, svcVars, Pool!Age, Pool!SandboxExpires,
        Pool!workerVars, SandboxesKill
<1> QED
  BY <1>1, <1>2, <1>3, <1>4, <1>5, <1>6, <1>7 DEF Next, Startup

\* The maintenance loop only ever shortens its list.
LEMMA ReaperShortens ==
    ASSUME SInv, Pool!Step(Reaper), call[Reaper].op \in {"none", "reap"}
    PROVE  /\ call'[Reaper].op \in {"none", "reap"}
           /\ call'[Reaper].op = "reap" =>
                  /\ call[Reaper].op = "reap"
                  /\ Pool!ToSet(call'[Reaper].stale) \subseteq Pool!ToSet(call[Reaper].stale)
<1>0. /\ PoolP!Typed /\ PoolP!Owned /\ call = [u \in Threads |-> call[u]] /\ Reaper \in Threads
  BY PoolFacts DEF SInv, Pool!TypeOK, Pool!Threads, Threads
<1>1. /\ pc[Reaper] \notin {"slot", "create", "bootstrap", "undo", "unreserve", "install",
                            "using", "append"}
  BY <1>0, CreatingFacts, PoolFacts
<1>2. CASE Pool!DestroyMark(Reaper) \/ Pool!DestroyBackend(Reaper)
           \/ Pool!DestroyBackendFails(Reaper) \/ Pool!Handled(Reaper)
  <2>1. call' = call
    BY <1>2 DEF Pool!DestroyMark, Pool!DestroyBackend, Pool!DestroyBackendFails, Pool!Handled
  <2> QED
    BY <2>1
<1>3. CASE Pool!DestroyReleaseLiveRaise(Reaper) \/ Pool!RetireDone(Reaper)
  BY <1>0, <1>3 DEF Pool!DestroyReleaseLiveRaise, Pool!RetireDone, Pool!Return, Pool!NoCall
<1>4. CASE Pool!DestroySkip(Reaper) \/ Pool!DestroyReleaseLive(Reaper)
  <2>1. call' = Pool!NextStale(Reaper) /\ pc[Reaper] \in {"stale", "release_live"}
    BY <1>4 DEF Pool!DestroySkip, Pool!DestroyReleaseLive, Pool!Busy
  <2>2. call'[Reaper].op = call[Reaper].op /\ call'[Reaper].stale = Tail(call[Reaper].stale)
    BY <1>0, <2>1, NextStaleParts
  <2>3. call[Reaper].stale \in Seq(Workers) /\ call[Reaper].stale # <<>>
    <3>1. PoolP!Fits(pc[Reaper], call[Reaper])
      BY <1>0 DEF PoolP!Typed, PoolP!Locals, PoolP!Threads, Threads
    <3> QED
      BY <1>4, <2>1, <3>1 DEF PoolP!Fits, PoolP!Deleting, PoolP!Stales, PoolP!AcquireCall,
          PoolP!RetireCall, Pool!DestroySkip, Pool!DestroyReleaseLive, Pool!Busy
  <2>4. PoolP!ToSet(Tail(call[Reaper].stale)) \subseteq PoolP!ToSet(call[Reaper].stale)
    BY <2>3, Components, PoolP!StaleParts
  <2> QED
    BY <2>2, <2>4, SameOwners
<1> QED
  BY <1>1, <1>2, <1>3, <1>4 DEF Pool!Step, Pool!EnsureSandboxTTL, Pool!RenewFails,
       Pool!EnsureRelease, Pool!InstallFails, Pool!ReserveFails, Pool!Reserve, Pool!CreationSlot,
       Pool!PastStale, Pool!Create, Pool!CreateFails, Pool!Bootstrap, Pool!BootstrapFails,
       Pool!UndoCreate, Pool!Unreserve, Pool!ReleaseAppend

\* A worker that somebody refers to and nobody holds, outside the pool, stays out of reach.
LEMMA OutOfReach ==
    ASSUME SInv, NEW t \in Threads, PoolMoves(t), NEW w \in Workers, w \in Pool!Referenced,
           w \notin Pool!IdleWorkers, Pool!Holders(w) = {}
    PROVE  w \notin Pool!IdleWorkers' /\ Pool!Holders(w)' = {}
<1>1. w \notin Pool!IdleWorkers'
  BY ThreadOwners
<1>2. ~Pool!Create(t, w)
  BY DEF Pool!Create
<1>3. ASSUME NEW u \in Threads, u \in Pool!Holders(w)' PROVE FALSE
  BY <1>2, <1>3, ThreadOwners
<1>4. Pool!Holders(w)' \subseteq Threads
  BY DEF Pool!Holders, Pool!Threads, Threads
<1> QED
  BY <1>1, <1>3, <1>4

\* What the maintenance loop destroys stays out of reach and quiet.
LEMMA KeepsReaper ==
    ASSUME SInv, ReaperOwns, Next, "cleanup" \notin Faults
    PROVE  ReaperOwns'
<1>0. /\ PoolP!Typed /\ PoolP!Owned /\ Reaper \in Threads /\ exec \subseteq Workers \X RunIds
      /\ call = [u \in Threads |-> call[u]] /\ ThreadsFit /\ ExecOwned /\ Reaper \notin Callers
  BY PoolFacts, Components
     DEF SInv, SvcTyped, Pool!TypeOK, Pool!Threads, Threads, PoolP!PoolAssumption
<1>l. ASSUME NEW w, call[Reaper].op = "reap", w \in Pool!ToSet(call[Reaper].stale)
      PROVE  w \in Workers
  <2>1. call[Reaper].stale \in Seq(Workers)
    BY <1>0, <1>l, PoolFacts DEF Pool!TypeOK, Pool!AcquireCall, Pool!UseCall, Pool!RetireCall,
        Pool!RefCall, Pool!NoCall, Pool!Threads, Threads
  <2> QED
    BY <1>l, <2>1 DEF Pool!ToSet
<1>q. ASSUME NEW w, call[Reaper].op = "reap", w \in Pool!ToSet(call[Reaper].stale)
      PROVE  \A e \in exec' : e[1] # w
  <2>1. ASSUME NEW t \in Callers, InvokeRun(t) PROVE call[t].w # w
    <3>1. t \in Threads /\ pc[t] = "using"
      BY <1>0, <2>1 DEF InvokeRun, ThreadsFit, UsingPlaces, Threads
    <3>2. t \in Pool!Holders(call[t].w)
      BY <1>0, <3>1, PoolFacts DEF Pool!Holders, Pool!Threads, Threads
    <3> QED
      BY <1>q, <3>2 DEF ReaperOwns
  <2> QED
    BY <1>q, <2>1, ExecGrows DEF ReaperOwns
<1>s. ASSUME NEW t \in Threads, PoolMoves(t), call[Reaper].op = "reap",
             NEW w \in Pool!ToSet(call[Reaper].stale)
      PROVE  /\ w \notin Pool!IdleWorkers' /\ Pool!Holders(w)' = {}
             /\ \A e \in exec' : e[1] # w
  <2>1. w \in Workers /\ w \in Pool!Referenced
    BY <1>0, <1>l, <1>s, RefersFacts
  <2> QED
    BY <1>q, <1>s, <2>1, OutOfReach DEF ReaperOwns
<1>1. ASSUME NEW t \in Threads, OneMoves(t), call'[Reaper] = call[Reaper] PROVE ReaperOwns'
  BY <1>1, <1>s DEF ReaperOwns, OneMoves
<1>2. ASSUME NEW t \in Threads, OneMoves(t), call'[Reaper] # call[Reaper] PROVE ReaperOwns'
  <2>1. t = Reaper
    BY <1>0, <1>2 DEF OneMoves, Moves, Elsewhere
  <2>2. CASE Pool!Step(Reaper)
    <3>1. /\ call'[Reaper].op \in {"none", "reap"}
          /\ call'[Reaper].op = "reap" =>
                  /\ call[Reaper].op = "reap"
                  /\ Pool!ToSet(call'[Reaper].stale) \subseteq Pool!ToSet(call[Reaper].stale)
      BY <2>2, ReaperShortens DEF ReaperOwns
    <3> QED
      BY <1>2, <1>s, <3>1 DEF ReaperOwns, OneMoves
  <2>3. CASE Pool!Reap
    <3>1. /\ call'[Reaper].op = "reap"
          /\ \A w \in PoolP!ToSet(call'[Reaper].stale) :
                 w \in PoolP!IdleWorkers /\ w \notin PoolP!IdleWorkers'
      BY <1>0, <2>3, Components, SameOthers, PoolP!ReapTakes
    <3>2. ASSUME NEW w \in Pool!ToSet(call'[Reaper].stale)
          PROVE  /\ w \notin Pool!IdleWorkers' /\ Pool!Holders(w)' = {}
                 /\ \A e \in exec' : e[1] # w
      <4>1. w \in Pool!IdleWorkers /\ w \notin Pool!IdleWorkers'
        BY <3>1, <3>2, SameOwners
      <4>2. w \in Workers
        <5>1. PICK k \in Pool!PoolKey : w \in Pool!ToSet(idle[k])
          BY <4>1 DEF Pool!IdleWorkers
        <5>2. idle[k] \in Seq(Workers)
          BY <1>0, PoolFacts DEF Pool!TypeOK
        <5> QED
          BY <5>1, <5>2 DEF Pool!ToSet
      <4>3. Pool!Holders(w) = {}
        BY <1>0, <4>1, <4>2, PoolFacts DEF Pool!Exclusive
      <4>4. w \in Pool!Referenced
        BY <4>1 DEF Pool!Referenced
      <4>5. ASSUME NEW u \in Threads, u \in Pool!Holders(w)' PROVE FALSE
        <5>1. u # Reaper
          BY <3>1, <4>5 DEF Pool!Holders
        <5>2. u \in Pool!Holders(w)
          BY <1>0, <1>2, <2>1, <4>2, <4>5, <5>1, ThreadOwners DEF OneMoves
        <5> QED
          BY <4>3, <5>2
      <4>6. Pool!Holders(w)' = {}
        BY <4>5 DEF Pool!Holders, Pool!Threads, Threads
      <4>7. \A e \in exec' : e[1] # w
        BY <1>0, <1>2, <2>1, <4>1 DEF ExecOwned, OneMoves
      <4> QED
        BY <4>1, <4>6, <4>7
    <3> QED
      BY <3>1, <3>2 DEF ReaperOwns
  <2>4. ~UNCHANGED poolVars
    BY <1>2 DEF poolVars
  <2> QED
    BY <1>2, <2>1, <2>2, <2>3, <2>4 DEF OneMoves
<1>3. CASE NoneMoves
  <2>1. /\ call' = call /\ Pool!IdleWorkers' = Pool!IdleWorkers
        /\ \A w : Pool!Holders(w)' = Pool!Holders(w)
    BY <1>3 DEF NoneMoves, Pool!IdleWorkers, Pool!Holders
  <2> QED
    BY <1>3, <2>1 DEF ReaperOwns, NoneMoves
<1>4. CASE AllGone
  <2>1. call'[Reaper].op = "none"
    BY <1>0, <1>4 DEF AllGone, Pool!NoCall
  <2> QED
    BY <2>1 DEF ReaperOwns
<1> QED
  BY <1>1, <1>2, <1>3, <1>4, StepKinds

\* The failed deletion of the maintenance loop is of a worker that nobody holds, and quiet.
LEMMA ReaperQuiet ==
    ASSUME SInv, ReaperOwns, pc[Reaper] = "backend"
    PROVE  /\ Pool!Holders(Head(call[Reaper].stale)) = {}
           /\ \A e \in exec : e[1] # Head(call[Reaper].stale)
<1>0. PoolP!Typed /\ PoolP!Fits(pc[Reaper], call[Reaper])
  BY DEF SInv, PoolP!Typed, PoolP!Locals, PoolP!Threads
<1>1. call[Reaper] \in PoolP!Stales /\ call[Reaper].stale # <<>>
  BY <1>0 DEF PoolP!Fits, PoolP!Deleting
<1>2. call[Reaper].stale \in Seq(Workers) /\ call[Reaper].op # "none"
  BY <1>1 DEF PoolP!Stales, PoolP!AcquireCall, PoolP!RetireCall
<1>3. PICK s \in Seq(Workers) : s = call[Reaper].stale /\ s # <<>>
  BY <1>1, <1>2
<1>4. Head(s) \in Pool!ToSet(s)
  <2>1. 1 \in DOMAIN s /\ s[1] = Head(s)
    BY <1>3
  <2> QED
    BY <2>1 DEF Pool!ToSet
<1> QED
  BY <1>2, <1>3, <1>4 DEF ReaperOwns

\* A worker that is not destroyed, or is being deleted, stays so as long as its sandbox exists,
\* unless the maintenance loop fails to delete it.
LEMMA StandsOn ==
    ASSUME SInv, "destroy" \notin Faults, NEW t \in Threads, PoolMoves(t), NEW w \in sandboxes',
           w \in alive \/ Doomed(w),
           ~(t = Reaper /\ pc[Reaper] = "backend" /\ w = Head(call[Reaper].stale))
    PROVE  w \in alive' \/ Doomed(w)'
<1>0. PoolP!Typed /\ PoolP!Owned
  BY DEF SInv
<1>1. CASE Doomed(w)
  BY <1>0, <1>1, DoomedStays
<1>2. CASE w \in alive
  <2>1. \/ w \in alive'
        \/ w = Head(call[t].stale) /\ pc'[t] = "backend" /\ call' = call
    BY <1>0, <1>2, AliveLeaves
  <2> QED
    BY <2>1 DEF Doomed
<1> QED
  BY <1>1, <1>2

\* A held sandbox stands or is being deleted.
LEMMA KeepsHeld ==
    ASSUME SInv, ReaperOwns, HeldStands, Next, "destroy" \notin Faults, "cleanup" \notin Faults
    PROVE  HeldStands'
<1>0. /\ PoolP!Typed /\ PoolP!Owned /\ sandboxes' \subseteq Workers
      /\ pc \in [Threads -> Pool!Places]
  <2>1. PoolP!TypeOK'
    BY ServicePool DEF PoolP!Typed
  <2>2. sandboxes' \subseteq Workers
    BY <2>1 DEF PoolP!TypeOK
  <2>3. PoolP!Typed /\ PoolP!Owned
    BY DEF SInv
  <2> QED
    BY <2>2, <2>3, PoolFacts
<1> SUFFICES ASSUME NEW u \in Threads, NEW w \in sandboxes', u \in Pool!Holders(w)',
                    pc'[u] \notin PoolP!Unborn
             PROVE  w \in alive' \/ Doomed(w)'
    BY DEF HeldStands
<1>1. ASSUME NEW t \in Threads, OneMoves(t) PROVE w \in alive' \/ Doomed(w)'
  <2>0. PoolMoves(t) /\ w \in Workers /\ Moves(t)
    BY <1>0, <1>1 DEF OneMoves
  <2>1. ASSUME u \in Pool!Holders(w), pc[u] \notin PoolP!Unborn PROVE w \in alive' \/ Doomed(w)'
    <3>1. w \in Pool!Referenced
      BY <1>0, <2>0, <2>1, RefersFacts
    <3>2. w \in sandboxes
      BY <2>0, <3>1, NewSandbox
    <3>3. w \in alive \/ Doomed(w)
      BY <2>1, <3>2 DEF HeldStands
    <3>4. ~(t = Reaper /\ pc[Reaper] = "backend" /\ w = Head(call[Reaper].stale))
      BY <2>1, ReaperQuiet
    <3> QED
      BY <2>0, <3>3, <3>4, StandsOn
  <2>2. CASE u # t
    <3>1. u \in Pool!Holders(w) /\ pc'[u] = pc[u]
      BY <2>0, <2>2, ThreadOwners, MovesFit
    <3> QED
      BY <2>1, <3>1
  <2>3. CASE u = t
    <3>1. CASE u \notin Pool!Holders(w)
      <4>1. ~Pool!Create(t, w)
        BY <1>0, <2>3 DEF Pool!Create, Pool!Goto, PoolP!Unborn
      <4> QED
        BY <2>0, <2>3, <3>1, <4>1, NewHolder
    <3>2. CASE u \in Pool!Holders(w) /\ pc[u] \in PoolP!Unborn
      BY <2>0, <2>3, <3>2, Born
    <3> QED
      BY <2>1, <3>1, <3>2
  <2> QED
    BY <2>2, <2>3
<1>2. CASE NoneMoves
  <2>1. /\ u \in Pool!Holders(w) /\ pc[u] \notin PoolP!Unborn /\ w \in sandboxes
        /\ Doomed(w)' <=> Doomed(w)
    BY <1>2 DEF NoneMoves, Pool!Holders, Doomed
  <2> QED
    BY <1>2, <2>1 DEF HeldStands, NoneMoves
<1>3. ~AllGone
  BY NothingHeld DEF AllGone
<1> QED
  BY <1>1, <1>2, <1>3, StepKinds

\* The run of an invoke that waits for it, or destroys its sandbox, stays as it is.
LEMMA WaitedRuns ==
    ASSUME SInv, RunsOwn, Next, NEW u \in Callers, spc[u] \in {"running", "fail", "failing"},
           runs[job[u].run].state = "RUNNING"
    PROVE  runs'[job[u].run].state = "RUNNING"
<1>0. ThreadsFit /\ DownQuiet
  BY DEF SInv
<1>1. PICK r \in RunIds : r = job[u].run
  BY <1>0, JobParts DEF RunPlaces
<1>2. phase # "cleaned"
  BY <1>0 DEF DownQuiet, Threads
<1>3. ASSUME NEW t \in Callers, spc[t] \in {"finish", "abandon"}, job[t].run = r PROVE FALSE
  <2>1. u = t
    BY <1>1, <1>3 DEF RunsOwn, RunPlaces
  <2> QED
    BY <1>3, <2>1
<1> QED
  BY <1>1, <1>2, <1>3, RunsEnd

\* The invoke that waits for an execution goes on to wait, or to destroy the sandbox.
LEMMA WaiterGoes ==
    ASSUME SInv, NEW t \in Callers, CallStep(t), NEW e \in exec, e \in exec', Waits(t, e),
           e[1] \in alive
    PROVE  Waits(t, e)' \/ Doomed(e[1])'
<1>0. /\ t \in Threads /\ ThreadsFit /\ PoolP!Typed /\ PoolP!Owned
      /\ spc \in [Threads -> ServicePlaces] /\ pc \in [Threads -> Pool!Places]
      /\ call = [u \in Threads |-> call[u]] /\ exec \subseteq Workers \X RunIds
  BY PoolFacts DEF SInv, SvcTyped, Pool!TypeOK, Pool!Threads, Threads
<1>1. CASE spc[t] \in {"running", "fail"}
  <2>1. pc[t] = "using" /\ call[t].w = e[1] /\ job[t].run = e[2]
    BY <1>0, <1>1 DEF ThreadsFit, UsingPlaces, Waits
  <2>2. e = <<call[t].w, job[t].run>>
    BY <1>0, <2>1
  <2>3. ~(\E res \in RunResults : InvokeAnswer(t, res)) /\ ~PoolStep(t)
    BY <2>1, <2>2, UsingRests DEF InvokeAnswer, PoolStep
  <2>4. CASE InvokeRunRaises(t)
    <3>1. spc'[t] = "fail" /\ UNCHANGED poolVars /\ job' = job
      BY <1>0, <2>4 DEF InvokeRunRaises, Goto
    <3> QED
      BY <2>1, <3>1 DEF Waits, poolVars
  <2>5. CASE InvokeFail(t)
    <3>1. spc'[t] = "failing" /\ job' = job /\ Pool!Invalidate(t)
      BY <1>0, <2>5 DEF InvokeFail, Goto
    <3>2. pc'[t] = "stale" /\ call'[t].stale = <<e[1]>>
      BY <1>0, <2>1, <3>1 DEF Pool!Invalidate, Pool!Goto
    <3> QED
      BY <2>1, <3>1, <3>2 DEF Waits
  <2>6. ~(InvokeCheck(t) \/ InvokeReplayed(t) \/ InvokeAcquire(t) \/ InvokeAcquireRaised(t)
          \/ (\E r \in RunIds : InvokeBegin(t, r) \/ InvokeBeginLost(t, r))
          \/ InvokeRegister(t) \/ InvokeDuplicate(t) \/ InvokeDuplicateDone(t) \/ InvokeRun(t))
    BY <1>1 DEF InvokeCheck, InvokeReplayed, InvokeAcquire, InvokeAcquireRaised, InvokeBegin,
          InvokeBeginLost, InvokeRegister, InvokeDuplicate, InvokeDuplicateDone, InvokeRun
  <2>7. ~(InvokeFinish(t) \/ InvokeFinishRaises(t) \/ InvokeCleanup(t) \/ InvokeCleanupDone(t)
          \/ InvokeFailDone(t) \/ InvokeAbandon(t) \/ InvokeAbandonRaises(t) \/ InvokeLeave(t)
          \/ CancelRefused(t) \/ CancelPop(t) \/ CancelInvalidate(t) \/ CancelDone(t))
    BY <1>1 DEF InvokeFinish, InvokeFinishRaises, InvokeCleanup, InvokeCleanupDone,
          InvokeFailDone, InvokeAbandon, InvokeAbandonRaises, InvokeLeave, CancelRefused,
          CancelPop, CancelInvalidate, CancelDone
  <2> QED
    BY <2>3, <2>4, <2>5, <2>6, <2>7 DEF CallStep
<1>2. CASE spc[t] = "failing"
  <2>1. pc[t] = "stale" /\ call[t].stale = <<e[1]>> /\ e[1] \in Workers
    BY <1>0, <1>2 DEF Waits
  <2>2. Head(call[t].stale) = e[1] /\ call[t].stale # <<>>
    BY <2>1
  <2>3. PoolStep(t)
    <3>1. ~(InvokeCheck(t) \/ InvokeReplayed(t) \/ InvokeAcquire(t) \/ InvokeAcquireRaised(t)
            \/ (\E r \in RunIds : InvokeBegin(t, r) \/ InvokeBeginLost(t, r))
            \/ InvokeRegister(t) \/ InvokeDuplicate(t) \/ InvokeDuplicateDone(t) \/ InvokeRun(t)
            \/ (\E res \in RunResults : InvokeAnswer(t, res)) \/ InvokeRunRaises(t))
      BY <1>2 DEF InvokeCheck, InvokeReplayed, InvokeAcquire, InvokeAcquireRaised, InvokeBegin,
            InvokeBeginLost, InvokeRegister, InvokeDuplicate, InvokeDuplicateDone, InvokeRun,
            InvokeAnswer, InvokeRunRaises
    <3>2. ~(InvokeFinish(t) \/ InvokeFinishRaises(t) \/ InvokeCleanup(t) \/ InvokeCleanupDone(t)
            \/ InvokeFail(t) \/ InvokeFailDone(t) \/ InvokeAbandon(t) \/ InvokeAbandonRaises(t)
            \/ InvokeLeave(t) \/ CancelRefused(t) \/ CancelPop(t) \/ CancelInvalidate(t)
            \/ CancelDone(t))
      BY <1>2, <2>1 DEF InvokeFinish, InvokeFinishRaises, InvokeCleanup, InvokeCleanupDone,
            InvokeFail, InvokeFailDone, InvokeAbandon, InvokeAbandonRaises, InvokeLeave,
            CancelRefused, CancelPop, CancelInvalidate, CancelDone, PoolReturned
    <3> QED
      BY <3>1, <3>2 DEF CallStep
  <2>4. Pool!DestroyMark(t)
    BY <2>1, <2>2, <2>3 DEF PoolStep, Pool!Step, Pool!EnsureSandboxTTL, Pool!RenewFails,
       Pool!EnsureRelease, Pool!InstallFails, Pool!ReserveFails, Pool!Reserve, Pool!CreationSlot,
       Pool!PastStale, Pool!Create, Pool!CreateFails, Pool!Bootstrap, Pool!BootstrapFails,
       Pool!UndoCreate, Pool!Unreserve, Pool!ReleaseAppend, Pool!DestroySkip,
       Pool!DestroyBackend, Pool!DestroyBackendFails, Pool!DestroyReleaseLive,
       Pool!DestroyReleaseLiveRaise, Pool!RetireDone, Pool!Handled
  <2>5. pc'[t] = "backend" /\ call' = call
    BY <1>0, <2>4 DEF Pool!DestroyMark, Pool!Goto
  <2> QED
    BY <1>0, <2>2, <2>5 DEF Doomed
<1> QED
  BY <1>1, <1>2 DEF Waits

\* An execution that was just started has the invoke that waits for it.
LEMMA NewWaited ==
    ASSUME SInv, RunsClaimed, HeldStands, NEW t \in Callers, InvokeRun(t), NEW e \in exec',
           e = <<call[t].w, job[t].run>>, e[1] \in sandboxes'
    PROVE  \/ Doomed(e[1])'
           \/ /\ e[1] \in alive'
              /\ runs'[e[2]].state = "RUNNING"
              /\ Waits(t, e)'
<1>0. /\ t \in Threads /\ spc \in [Threads -> ServicePlaces] /\ ThreadsFit
  BY DEF SInv, SvcTyped, Threads
<1>1. /\ spc[t] = "run" /\ spc'[t] = "running" /\ job' = job
      /\ UNCHANGED <<pc, call, alive, sandboxes, runs>>
  BY <1>0 DEF InvokeRun, Goto, poolVars, dbVars
<1>2. pc[t] = "using"
  BY <1>0, <1>1 DEF ThreadsFit, UsingPlaces
<1>3. e[1] = call[t].w /\ e[2] = job[t].run /\ e[1] \in sandboxes
  BY <1>1
<1>4. t \in Pool!Holders(e[1]) /\ pc[t] \notin PoolP!Unborn
  <2>1. PoolP!Typed /\ PoolP!Owned
    BY DEF SInv
  <2> QED
    BY <1>0, <1>2, <1>3, <2>1, PoolFacts DEF Pool!Holders, PoolP!Unborn, Pool!Threads, Threads
<1>5. e[1] \in alive \/ Doomed(e[1])
  BY <1>0, <1>3, <1>4 DEF HeldStands
<1>6. runs[e[2]].state = "RUNNING"
  BY <1>1, <1>3 DEF RunsClaimed
<1>7. Waits(t, e)'
  BY <1>1, <1>3 DEF Waits
<1>8. Doomed(e[1]) => Doomed(e[1])'
  BY <1>1 DEF Doomed
<1> QED
  BY <1>1, <1>5, <1>6, <1>7, <1>8

\* An execution keeps somebody who waits for it, or its sandbox is being deleted.
LEMMA KeepsWaited ==
    ASSUME SInv, CInv, Next, "destroy" \notin Faults, "cleanup" \notin Faults
    PROVE  ExecWaited'
<1> SUFFICES ASSUME phase' # "down", NEW e \in exec'
             PROVE  \/ Doomed(e[1])'
                    \/ /\ e[1] \in alive'
                       /\ runs'[e[2]].state = "RUNNING"
                       /\ \E u \in Callers : Waits(u, e)'
    BY DEF ExecWaited
<1>0. /\ RunsOwn /\ RunsClaimed /\ ExecWaited /\ ReaperOwns /\ HeldStands
      /\ exec \subseteq Workers \X RunIds
  BY DEF SInv, SvcTyped, CInv
<1>1. e[1] \in sandboxes'
  BY ServiceExec DEF ExecOwned
<1>2. CASE e \notin exec
  <2>1. PICK t \in Callers : InvokeRun(t) /\ e = <<call[t].w, job[t].run>>
    BY <1>2, ExecGrows
  <2> QED
    BY <1>0, <1>1, <2>1, NewWaited
<1>r. ASSUME NEW u \in Callers, Waits(u, e), runs[e[2]].state = "RUNNING"
      PROVE  runs'[e[2]].state = "RUNNING"
  <2>1. spc[u] \in {"running", "fail", "failing"} /\ job[u].run = e[2]
    BY <1>r DEF Waits
  <2> QED
    BY <1>0, <1>r, <2>1, WaitedRuns
<1>3. ASSUME e \in exec, NEW t \in Threads, OneMoves(t)
      PROVE  \/ Doomed(e[1])'
             \/ /\ e[1] \in alive'
                /\ runs'[e[2]].state = "RUNNING"
                /\ \E u \in Callers : Waits(u, e)'
  <2>1. PoolMoves(t) /\ Moves(t) /\ phase # "down" /\ PoolP!Typed /\ PoolP!Owned
    BY <1>3 DEF OneMoves, Moves, SInv
  <2>2. ~(t = Reaper /\ pc[Reaper] = "backend" /\ e[1] = Head(call[Reaper].stale))
    BY <1>0, <1>3, ReaperQuiet
  <2>3. CASE Doomed(e[1])
    BY <1>1, <2>1, <2>2, <2>3, DoomedStays
  <2>4. ASSUME e[1] \in alive, runs[e[2]].state = "RUNNING", NEW u \in Callers, Waits(u, e)
        PROVE  \/ Doomed(e[1])'
               \/ e[1] \in alive' /\ runs'[e[2]].state = "RUNNING" /\ Waits(u, e)'
    <3>1. e[1] \in alive' \/ Doomed(e[1])'
      BY <1>1, <2>1, <2>2, <2>4, StandsOn
    <3>2. runs'[e[2]].state = "RUNNING"
      BY <1>r, <2>4
    <3>3. Waits(u, e)' \/ Doomed(e[1])'
      <4>1. CASE u # t
        <5>1. spc'[u] = spc[u] /\ job'[u] = job[u] /\ pc'[u] = pc[u] /\ call'[u] = call[u]
          BY <2>1, <4>1, MovesFit DEF Threads
        <5> QED
          BY <2>4, <5>1 DEF Waits
      <4>2. CASE u = t
        <5>1. spc[t] # "idle"
          BY <2>4, <4>2 DEF Waits
        <5>2. CallStep(t)
          BY <1>3, <4>2, <5>1 DEF OneMoves
        <5> QED
          BY <1>3, <2>4, <4>2, <5>2, WaiterGoes
      <4> QED
        BY <4>1, <4>2
    <3> QED
      BY <3>1, <3>2, <3>3
  <2> QED
    BY <1>0, <1>3, <2>1, <2>3, <2>4 DEF ExecWaited
<1>4. ASSUME e \in exec, NoneMoves
      PROVE  \/ Doomed(e[1])'
             \/ /\ e[1] \in alive'
                /\ runs'[e[2]].state = "RUNNING"
                /\ \E u \in Callers : Waits(u, e)'
  <2>1. phase # "down" /\ UNCHANGED <<spc, job, pc, call, alive>>
    BY <1>4 DEF NoneMoves
  <2>2. /\ Doomed(e[1]) => Doomed(e[1])'
        /\ \A u \in Callers : Waits(u, e) => Waits(u, e)'
    BY <2>1 DEF Doomed, Waits
  <2> QED
    BY <1>0, <1>4, <1>r, <2>1, <2>2 DEF ExecWaited
<1>5. ~AllGone
  BY DEF AllGone
<1> QED
  BY <1>2, <1>3, <1>4, <1>5, StepKinds

-----------------------------------------------------------------------------
(* The executions under way are claimed *)

\* When the service has just started nobody runs anything.
LEMMA ClaimInit == Init => CInv
<1> SUFFICES ASSUME Init PROVE CInv
    OBVIOUS
<1>0. /\ exec = {} /\ \A t \in Threads : spc[t] \in {"idle", "reap"}
      /\ pc = [t \in Threads |-> "ready"] /\ call = [t \in Threads |-> Pool!NoCall]
      /\ Callers \subseteq Threads /\ Reaper \in Threads
  BY DEF Init, Pool!Init, Pool!Threads, Threads
<1>1. \A t \in Callers : spc[t] \notin RunPlaces
  BY <1>0 DEF RunPlaces
<1>2. RunsOwn /\ RunsClaimed /\ ExecOnce /\ ExecWaited
  BY <1>0, <1>1 DEF RunsOwn, RunsClaimed, ExecOnce, ExecWaited, RunPlaces
<1>3. \A t \in Threads : call[t].op = "none"
  BY <1>0 DEF Pool!NoCall
<1>4. ReaperOwns /\ HeldStands
  BY <1>0, <1>3 DEF ReaperOwns, HeldStands, Pool!Holders, Pool!Threads, Threads
<1> QED
  BY <1>2, <1>4 DEF CInv

\* Nothing happens.
LEMMA ClaimStutter ==
    ASSUME CInv, UNCHANGED vars
    PROVE  CInv'
<1>u. /\ UNCHANGED <<claims, runs, pc, call, idle, alive, sandboxes>>
      /\ UNCHANGED <<spc, job, exec, phase>>
  BY DEF vars, dbVars, poolVars, svcVars
<1>1. /\ Pool!IdleWorkers' = Pool!IdleWorkers /\ \A w : Pool!Holders(w)' = Pool!Holders(w)
      /\ \A w : Doomed(w)' <=> Doomed(w)
      /\ \A t, e : Waits(t, e)' <=> Waits(t, e)
  BY <1>u DEF Pool!IdleWorkers, Pool!Holders, Doomed, Waits
<1>2. RunsOwn' /\ RunsClaimed' /\ ExecOnce'
  BY <1>u DEF CInv, RunsOwn, RunsClaimed, ExecOnce
<1>3. ExecWaited' /\ ReaperOwns' /\ HeldStands'
  BY <1>u, <1>1 DEF CInv, ExecWaited, ReaperOwns, HeldStands
<1> QED
  BY <1>2, <1>3 DEF CInv

\* Every step keeps CInv.
LEMMA ClaimStep ==
    ASSUME SInv, CInv, [Next]_vars, "destroy" \notin Faults, "cleanup" \notin Faults
    PROVE  CInv'
<1>0. RunsOwn /\ RunsClaimed /\ ExecOnce /\ ReaperOwns /\ HeldStands
  BY DEF CInv
<1>1. CASE Next
  BY <1>0, <1>1, KeepsOwn, KeepsClaimed, KeepsOnce, KeepsWaited, KeepsReaper, KeepsHeld DEF CInv
<1>2. CASE UNCHANGED vars
  BY <1>2, ClaimStutter
<1> QED
  BY <1>1, <1>2

\* A RUNNING run owns its idempotency key.
LEMMA RunningOwns ==
    ASSUME DBP!IInv, NEW r \in RunIds, runs[r].state = "RUNNING"
    PROVE  DB!OwnsKey(r)
<1>1. runs[r].req = claims[r].req
  BY DEF DBP!IInv, DBP!RowsClaimed, DBP!Exists, DBP!Absent
<1>2. /\ keys[DBP!KeyOf(runs[r].req)].state = "RUNNING"
      /\ keys[DBP!KeyOf(runs[r].req)].run = r
  BY DEF DBP!IInv, DBP!ClaimsInStep
<1> QED
  BY <1>1, <1>2 DEF DB!OwnsKey, DB!KeyOf, DBP!KeyOf

\* One logical request is never executed twice at a time: what a sandbox executes while the
\* Runner serves requests has its key RUNNING under that run, and no other sandbox executes it,
\* however invoke, cancel, the maintenance loop, transport failures, lost database answers,
\* expiring sandboxes and crashes interleave.  The two assumptions are needed: invoke swallows
\* the exception of a failed deletion and calls abandon_run all the same, and what the clean-up
\* of startup() does not find goes on executing after reset_running.  Deletions of the
\* maintenance loop may fail ("reap" is not excluded): they are of workers that are quiet.
THEOREM ExecAlwaysClaimed ==
    ASSUME "destroy" \notin Faults, "cleanup" \notin Faults
    PROVE  Spec => []ExecClaimed
<1>1. Init => CInv
  BY ClaimInit
<1>2. SInv /\ CInv /\ [Next]_vars => CInv'
  BY ClaimStep
<1>3. SInv /\ CInv => ExecClaimed
  <2> SUFFICES ASSUME SInv, CInv, phase # "down", NEW e \in exec, ~Doomed(e[1])
               PROVE  /\ DB!OwnsKey(e[2])
                      /\ runs[e[2]].state = "RUNNING"
                      /\ \A d \in exec : d[2] = e[2] => d = e
      BY DEF ExecClaimed
  <2>1. e[2] \in RunIds /\ DBP!IInv
    BY DEF SInv, SvcTyped
  <2>2. runs[e[2]].state = "RUNNING"
    BY DEF CInv, ExecWaited
  <2>3. \A d \in exec : d[2] = e[2] => d = e
    BY DEF CInv, ExecOnce
  <2> QED
    BY <2>1, <2>2, <2>3, RunningOwns
<1> QED
  BY <1>1, <1>2, <1>3, ServiceInvariant, PTL DEF Spec

-----------------------------------------------------------------------------
(* What the components promise, of the composition *)

\* The guarantees of the tables and of the pool hold of the Runner that drives them, crashes and
\* restarts included: a key is RUNNING exactly when its run is, what is replayed is backed by
\* its history, no two invocations share a sandbox, and an invocation only gets a sandbox of its
\* tenant and flavor with its release installed.
THEOREM ComponentsHold ==
    Spec => [](DBP!ClaimsInStep /\ DBP!ReplayBacked /\ PoolP!Exclusive /\ PoolP!Isolation)
<1>1. SInv => DBP!ClaimsInStep /\ DBP!ReplayBacked /\ PoolP!Exclusive /\ PoolP!Isolation
  <2> SUFFICES ASSUME SInv
               PROVE  DBP!ClaimsInStep /\ DBP!ReplayBacked /\ PoolP!Exclusive /\ PoolP!Isolation
      OBVIOUS
  <2>1. DBP!IInv /\ PoolP!Typed /\ PoolP!Owned
    BY DEF SInv
  <2>2. DBP!ClaimsInStep /\ DBP!ReplayBacked
    BY <2>1, Components, DBP!InvBacked DEF DBP!IInv
  <2>3. PoolP!Exclusive /\ PoolP!Isolation
    BY <2>1, Components, PoolP!OwnedIsolation DEF PoolP!Owned
  <2> QED
    BY <2>2, <2>3
<1> QED
  BY <1>1, ServiceInvariant, PTL

\* A step of the Runner is a step of the abstract specification, or none: the process may die
\* between any two statements, and the promise of the tables does not depend on its memory.
LEMMA ServicePromise ==
    ASSUME SInv, [Next]_vars
    PROVE  [DBP!Requests!Next]_(DBP!Requests!vars)
<1>0. DBP!IInv
  BY DEF SInv
<1>1. ASSUME DBP!Next \/ UNCHANGED DBP!dbVars PROVE [DBP!Requests!Next]_(DBP!Requests!vars)
  BY <1>0, <1>1, Components, DBP!PromiseStep
<1>2. CASE UNCHANGED vars
  <2>1. UNCHANGED DBP!dbVars
    BY <1>2 DEF vars, dbVars, DBP!dbVars
  <2> QED
    BY <1>1, <2>1
<1>3. CASE Crash
  <2>1. UNCHANGED <<now, keys, claims>>
    BY <1>3 DEF Crash
  <2>2. UNCHANGED DBP!Requests!vars
    BY <2>1, Components, DBP!AbstractUnchanged
  <2> QED
    BY <2>2
<1> QED
  BY <1>1, <1>2, <1>3, StepTables

\* The Runner implements the promise made to the client of an idempotency key, whatever invoke,
\* cancel, the maintenance loop, crashes and startups do: one execution is in progress at a time
\* and the recorded answer is replayed, unchanged, for exactly the retention.
THEOREM RunnerKeepsPromise == Spec => DBP!KeepsPromise
<1>1. Init => DBP!Requests!Init
  <2> SUFFICES ASSUME Init PROVE DBP!Requests!Init
      OBVIOUS
  <2>1. DBP!Init
    BY DEF Init, DB!Init, DBP!Init, DB!Absent, DBP!Absent, DB!KeyId, DBP!KeyId
  <2> QED
    BY <2>1, Components, DBP!PromiseInit
<1>2. SInv /\ [Next]_vars => [DBP!Requests!Next]_(DBP!Requests!vars)
  BY ServicePromise
<1> QED
  BY <1>1, <1>2, ServiceInvariant, PTL DEF Spec, DBP!KeepsPromise, DBP!Requests!Spec

-----------------------------------------------------------------------------
(* Tenants: what a sandbox executes is its tenant's *)

\* Where invoke waits for the worker that acquire looks for, or has it.
HoldPlaces == {"acquiring"} \cup UsingPlaces

\* The pool looks for a worker, or has one, for the request of the call.
CallsMatch ==
    \A t \in Callers : spc[t] \in HoldPlaces /\ call[t].op \in {"acquire", "use"} =>
        call[t].tenant = job[t].req.tenant /\ call[t].rel = job[t].req.release

\* The run of a call was claimed for the request of the call.
ReqsMatch == \A t \in Callers : spc[t] \in RunPlaces => claims[job[t].run].req = job[t].req

HInv == RunsOwn /\ ExecOnce /\ CallsMatch /\ ReqsMatch /\ ExecAtHome

\* What was claimed for a run id is never changed.
LEMMA ClaimsKept ==
    ASSUME SInv, Next, NEW r \in RunIds, DB!Exists(claims[r])
    PROVE  claims'[r] = claims[r]
<1>0. DBP!Exists(claims[r]) /\ claims = [x \in RunIds |-> claims[x]]
  BY DEF DB!Exists, DBP!Exists, SInv, DBP!IInv, DBP!TypeOK
<1>1. CASE DBP!Next
  <2>1. ASSUME NEW req \in DBP!Request, NEW x \in RunIds, DBP!BeginRun(req, x)
        PROVE  claims'[r] = claims[r]
    BY <1>0, <2>1 DEF DBP!BeginRun
  <2> QED
    BY <1>1, <2>1 DEF DBP!Next, DBP!Tick, DBP!CreateLease, DBP!RenewLeaseCheck,
        DBP!RenewLeaseUpdate, DBP!DeleteLease, DBP!PurgeExpiredLeases, DBP!FinishRun,
        DBP!AbandonRun, DBP!ResetRunning, DBP!PurgeExpiredIdempotency, DBP!PurgeOldRuns,
        DBP!runVars
<1>2. CASE UNCHANGED DBP!dbVars
  BY <1>2 DEF DBP!dbVars
<1>3. CASE Crash
  BY <1>3 DEF Crash
<1> QED
  BY <1>1, <1>2, <1>3, StepTables

\* invoke comes to have a worker through acquire, and keeps it until it gives it back.
LEMMA HoldGoes ==
    ASSUME SInv, NEW t \in Callers, CallStep(t), spc'[t] \in HoldPlaces
    PROVE  \/ InvokeAcquire(t)
           \/ spc[t] \in HoldPlaces /\ (Pool!Step(t) \/ UNCHANGED poolVars)
<1>0. t \in Threads /\ spc \in [Threads -> ServicePlaces]
  BY DEF SInv, SvcTyped, Threads
<1> USE DEF HoldPlaces, UsingPlaces, Goto, End
<1>1. ~(InvokeCheck(t) \/ InvokeReplayed(t) \/ InvokeLeave(t)
        \/ (\E r \in RunIds : InvokeBegin(t, r) \/ InvokeBeginLost(t, r))
        \/ CancelRefused(t) \/ CancelPop(t) \/ CancelInvalidate(t) \/ CancelDone(t))
  BY <1>0 DEF InvokeCheck, InvokeReplayed, InvokeLeave, InvokeBegin, InvokeBeginLost,
        CancelRefused, CancelPop, CancelInvalidate, CancelDone
<1>2. ~(InvokeAcquireRaised(t) \/ InvokeDuplicate(t) \/ InvokeDuplicateDone(t)
        \/ InvokeCleanup(t) \/ InvokeCleanupDone(t) \/ InvokeFail(t) \/ InvokeFailDone(t)
        \/ InvokeAbandon(t) \/ InvokeAbandonRaises(t))
  BY <1>0 DEF InvokeAcquireRaised, InvokeDuplicate, InvokeDuplicateDone, InvokeCleanup,
        InvokeCleanupDone, InvokeFail, InvokeFailDone, InvokeAbandon, InvokeAbandonRaises
<1>3. CASE \/ InvokeRegister(t) \/ InvokeRun(t) \/ InvokeRunRaises(t) \/ InvokeFinish(t)
           \/ InvokeFinishRaises(t) \/ \E res \in RunResults : InvokeAnswer(t, res)
  BY <1>3 DEF InvokeRegister, InvokeRun, InvokeRunRaises, InvokeFinish, InvokeFinishRaises,
        InvokeAnswer
<1>4. CASE PoolStep(t)
  BY <1>4 DEF PoolStep
<1> QED
  BY <1>1, <1>2, <1>3, <1>4 DEF CallStep

\* acquire never changes its mind about the tenant and the release.
LEMMA AskedKept ==
    ASSUME PoolP!Typed, PoolP!Owned, NEW t \in Threads, Pool!Step(t),
           call'[t].op \in {"acquire", "use"}
    PROVE  /\ call[t].op \in {"acquire", "use"}
           /\ call'[t].tenant = call[t].tenant /\ call'[t].rel = call[t].rel
<1>0. /\ call = [u \in Threads |-> call[u]]
      /\ call[t] \in PoolP!AcquireCall \cup PoolP!UseCall \cup PoolP!RetireCall
                     \cup PoolP!RefCall \cup {PoolP!NoCall}
      /\ PoolP!Fits(pc[t], call[t])
  BY DEF PoolP!Typed, PoolP!TypeOK, PoolP!Locals, PoolP!Threads, Threads
<1>1. CASE Pool!EnsureSandboxTTL(t) \/ Pool!Reserve(t) \/ Pool!CreationSlot(t)
           \/ Pool!CreateFails(t) \/ Pool!BootstrapFails(t) \/ Pool!UndoCreate(t)
           \/ Pool!DestroyMark(t)
  BY <1>1 DEF Pool!EnsureSandboxTTL, Pool!Reserve, Pool!CreationSlot, Pool!CreateFails,
        Pool!BootstrapFails, Pool!UndoCreate, Pool!DestroyMark
<1>2. CASE Pool!EnsureRelease(t) \/ Pool!Bootstrap(t)
  <2>1. call[t] \in PoolP!AcquireCall
    BY <1>0, <1>2 DEF Pool!EnsureRelease, Pool!Bootstrap, PoolP!Fits, PoolP!Creating
  <2> QED
    BY <1>0, <1>2, <2>1 DEF Pool!EnsureRelease, Pool!Bootstrap, PoolP!AcquireCall
<1>3. ASSUME NEW w \in Workers, Pool!Create(t, w)
      PROVE  /\ call[t].op \in {"acquire", "use"}
             /\ call'[t].tenant = call[t].tenant /\ call'[t].rel = call[t].rel
  <2>1. call[t] \in PoolP!AcquireCall
    BY <1>0, <1>3 DEF Pool!Create, PoolP!Fits, PoolP!Creating
  <2> QED
    BY <1>0, <1>3, <2>1 DEF Pool!Create, PoolP!AcquireCall
<1>4. ASSUME call' = Pool!NextStale(t), call[t] \in PoolP!Stales
      PROVE  /\ call[t].op \in {"acquire", "use"}
             /\ call'[t].tenant = call[t].tenant /\ call'[t].rel = call[t].rel
  <2>1. call'[t] = [call[t] EXCEPT !.stale = Tail(@)]
    BY <1>0, <1>4 DEF Pool!NextStale
  <2>2. CASE call[t] \in PoolP!AcquireCall
    BY <2>1, <2>2 DEF PoolP!AcquireCall
  <2>3. CASE call[t] \in PoolP!RetireCall
    BY <2>1, <2>3 DEF PoolP!RetireCall
  <2> QED
    BY <1>4, <2>2, <2>3 DEF PoolP!Stales
<1>5. CASE Pool!DestroySkip(t) \/ Pool!DestroyReleaseLive(t)
  <2>1. call' = Pool!NextStale(t) /\ pc[t] \in {"stale", "release_live"}
    BY <1>5 DEF Pool!DestroySkip, Pool!DestroyReleaseLive, Pool!Busy
  <2>2. call[t] \in PoolP!Stales
    BY <1>0, <2>1 DEF PoolP!Fits, PoolP!Deleting
  <2> QED
    BY <1>4, <2>1, <2>2
<1>6. CASE Pool!DestroyBackend(t) \/ Pool!DestroyBackendFails(t)
  BY <1>6 DEF Pool!DestroyBackend, Pool!DestroyBackendFails
<1>7. ~(Pool!RenewFails(t) \/ Pool!InstallFails(t) \/ Pool!ReserveFails(t) \/ Pool!Unreserve(t)
        \/ Pool!ReleaseAppend(t) \/ Pool!DestroyReleaseLiveRaise(t) \/ Pool!RetireDone(t)
        \/ Pool!Handled(t))
  BY <1>0 DEF Pool!RenewFails, Pool!InstallFails, Pool!ReserveFails, Pool!Unreserve,
        Pool!AcquireFails, Pool!ReleaseAppend, Pool!DestroyReleaseLiveRaise, Pool!RetireDone,
        Pool!Handled, Pool!Return, Pool!NoCall, PoolP!Fits, PoolP!NoCall
<1> QED
  BY <1>1, <1>2, <1>3, <1>5, <1>6, <1>7 DEF Pool!Step

\* The calls keep asking for what the request needs.
LEMMA KeepsCalls ==
    ASSUME SInv, CallsMatch, Next, "cleanup" \notin Faults
    PROVE  CallsMatch'
<1>0. /\ PoolP!Typed /\ PoolP!Owned /\ Callers \subseteq Threads
      /\ call = [u \in Threads |-> call[u]]
  BY PoolFacts DEF SInv, Threads, Pool!TypeOK, Pool!Threads
<1> SUFFICES ASSUME NEW u \in Callers, spc'[u] \in HoldPlaces, call'[u].op \in {"acquire", "use"}
             PROVE  call'[u].tenant = job'[u].req.tenant /\ call'[u].rel = job'[u].req.release
    BY DEF CallsMatch
<1>1. ASSUME CallStep(u)
      PROVE  call'[u].tenant = job'[u].req.tenant /\ call'[u].rel = job'[u].req.release
  <2>1. CASE InvokeAcquire(u)
    <3>1. job' = job /\ Pool!AcquirePop(u, job[u].req.tenant, job[u].req.release)
      BY <2>1 DEF InvokeAcquire
    <3> QED
      BY <1>0, <3>1 DEF Pool!AcquirePop, Pool!AcquireWith
  <2>2. CASE spc[u] \in HoldPlaces /\ (Pool!Step(u) \/ UNCHANGED poolVars)
    <3>1. /\ call[u].op \in {"acquire", "use"}
          /\ call'[u].tenant = call[u].tenant /\ call'[u].rel = call[u].rel
      BY <1>0, <2>2, AskedKept DEF poolVars
    <3>2. job'[u].req = job[u].req
      BY <1>1, RunKept DEF HoldPlaces, UsingPlaces, RunPlaces
    <3> QED
      BY <2>2, <3>1, <3>2 DEF CallsMatch
  <2> QED
    BY <1>1, <2>1, <2>2, HoldGoes
<1>2. ASSUME spc'[u] = spc[u], job'[u] = job[u], call'[u] = call[u]
      PROVE  call'[u].tenant = job'[u].req.tenant /\ call'[u].rel = job'[u].req.release
  BY <1>2 DEF CallsMatch
<1>3. ASSUME NEW t \in Threads, OneMoves(t)
      PROVE  call'[u].tenant = job'[u].req.tenant /\ call'[u].rel = job'[u].req.release
  <2>1. CASE u # t
    BY <1>0, <1>2, <1>3, <2>1, MovesFit DEF OneMoves
  <2>2. CASE u = t
    <3>1. spc[u] # "idle"
      BY CallerRun DEF HoldPlaces, UsingPlaces, RunPlaces, InvokeBegin
    <3> QED
      BY <1>1, <1>3, <2>2, <3>1 DEF OneMoves
  <2> QED
    BY <2>1, <2>2
<1>4. CASE NoneMoves
  BY <1>2, <1>4 DEF NoneMoves
<1>5. ~AllGone
  BY <1>0 DEF AllGone, Pool!NoCall
<1> QED
  BY <1>3, <1>4, <1>5, StepKinds

\* Each run belongs to the request of its call.
LEMMA KeepsReqs ==
    ASSUME SInv, RunsOwn, ReqsMatch, Next
    PROVE  ReqsMatch'
<1>0. ThreadsFit /\ claims = [x \in RunIds |-> claims[x]]
  BY DEF SInv, DBP!IInv, DBP!TypeOK
<1> SUFFICES ASSUME NEW t \in Callers, spc'[t] \in RunPlaces
             PROVE  claims'[job'[t].run].req = job'[t].req
    BY DEF ReqsMatch
<1>1. ASSUME NEW r \in RunIds, InvokeBegin(t, r), job'[t].run = r, job'[t].req = job[t].req
      PROVE  claims'[job'[t].run].req = job'[t].req
  <2>1. claims' = [claims EXCEPT ![r] = [state |-> "CLAIMED", req |-> job[t].req]]
    BY <1>1 DEF InvokeBegin, DB!BeginRun
  <2> QED
    BY <1>0, <1>1, <2>1
<1>2. ASSUME spc[t] \in RunPlaces, job'[t].run = job[t].run, job'[t].req = job[t].req
      PROVE  claims'[job'[t].run].req = job'[t].req
  <2>1. job[t].run \in RunIds /\ DB!Exists(claims[job[t].run])
    BY <1>0, <1>2, JobParts DEF RunsOwn
  <2> QED
    BY <1>2, <2>1, ClaimsKept DEF ReqsMatch
<1> QED
  BY <1>1, <1>2, CallerRun

\* A sandbox stays with its tenant and flavor, and keeps what is installed in it, but for the
\* first installation by the acquire that created it.
LEMMA HomeKept ==
    ASSUME PoolP!Typed, PoolP!Owned, NEW t \in Threads, PoolMoves(t), NEW w \in sandboxes,
           ~(pc[t] = "bootstrap" /\ t \in Pool!Holders(w))
    PROVE  home'[w] = home[w] /\ installed[w] \subseteq installed'[w]
<1>0. /\ w \in Workers /\ home = [v \in Workers |-> home[v]]
      /\ installed = [v \in Workers |-> installed[v]] /\ PoolP!Fits(pc[t], call[t])
  BY DEF PoolP!Typed, PoolP!TypeOK, PoolP!Locals, PoolP!Threads, Threads
<1> USE DEF Pool!workerVars
<1>1. CASE Pool!EnsureRelease(t)
  BY <1>0, <1>1 DEF Pool!EnsureRelease
<1>2. CASE Pool!Bootstrap(t)
  <2>1. pc[t] = "bootstrap" /\ call[t] \in PoolP!AcquireCall
    BY <1>0, <1>2 DEF Pool!Bootstrap, PoolP!Fits, PoolP!Creating
  <2>2. call[t].w # w
    BY <2>1 DEF PoolP!AcquireCall, Pool!Holders, Pool!Threads, Threads
  <2> QED
    BY <1>0, <1>2, <2>2 DEF Pool!Bootstrap
<1>3. ASSUME NEW v \in Workers, Pool!Create(t, v)
      PROVE  home'[w] = home[w] /\ installed[w] \subseteq installed'[w]
  BY <1>0, <1>3 DEF Pool!Create
<1>4. CASE Pool!EnsureSandboxTTL(t) \/ Pool!RenewFails(t) \/ Pool!InstallFails(t)
           \/ Pool!ReserveFails(t) \/ Pool!Reserve(t) \/ Pool!CreationSlot(t)
           \/ Pool!CreateFails(t) \/ Pool!BootstrapFails(t) \/ Pool!UndoCreate(t)
           \/ Pool!Unreserve(t) \/ Pool!ReleaseAppend(t)
  <2>1. home' = home /\ installed' = installed
    BY <1>4 DEF Pool!EnsureSandboxTTL, Pool!RenewFails, Pool!InstallFails, Pool!AcquireFails,
        Pool!ReserveFails, Pool!Reserve, Pool!CreationSlot, Pool!CreateFails,
        Pool!BootstrapFails, Pool!UndoCreate, Pool!Unreserve, Pool!ReleaseAppend
  <2> QED
    BY <2>1
<1>5. CASE Pool!DestroySkip(t) \/ Pool!DestroyMark(t) \/ Pool!DestroyBackend(t)
           \/ Pool!DestroyBackendFails(t) \/ Pool!DestroyReleaseLive(t)
           \/ Pool!DestroyReleaseLiveRaise(t) \/ Pool!RetireDone(t) \/ Pool!Handled(t)
  <2>1. home' = home /\ installed' = installed
    BY <1>5 DEF Pool!DestroySkip, Pool!DestroyMark, Pool!DestroyBackend,
        Pool!DestroyBackendFails, Pool!DestroyReleaseLive, Pool!DestroyReleaseLiveRaise,
        Pool!RetireDone, Pool!Handled
  <2> QED
    BY <2>1
<1>6. CASE ~Pool!Step(t)
  <2>1. home' = home /\ installed' = installed
    BY <1>6 DEF PoolMoves, Pool!AcquirePop, Pool!AcquireWith, Pool!Release, Pool!Invalidate,
        Pool!CancelRef, Pool!Reap, poolVars
  <2> QED
    BY <2>1
<1> QED
  BY <1>1, <1>2, <1>3, <1>4, <1>5, <1>6 DEF Pool!Step

\* An execution starts in a sandbox of the tenant and the flavor of its request.
LEMMA NewAtHome ==
    ASSUME SInv, CallsMatch, ReqsMatch, NEW t \in Callers, InvokeRun(t),
           NEW e, e = <<call[t].w, job[t].run>>
    PROVE  /\ home'[e[1]] = <<claims'[e[2]].req.tenant, FlavorOf[claims'[e[2]].req.release]>>
           /\ claims'[e[2]].req.release \in installed'[e[1]]
<1>0. PoolP!Typed /\ PoolP!Owned /\ ThreadsFit /\ t \in Threads
  BY DEF SInv, Threads
<1>1. spc[t] = "run" /\ UNCHANGED <<home, installed, claims>>
  BY DEF InvokeRun, poolVars, dbVars
<1>2. pc[t] = "using" /\ call[t].op = "use"
  BY <1>0, <1>1, PoolFacts DEF ThreadsFit, UsingPlaces
<1>3. /\ home[call[t].w] = <<call[t].tenant, FlavorOf[call[t].rel]>>
      /\ call[t].rel \in installed[call[t].w]
  <2>1. PoolP!Isolation
    BY <1>0, Components, PoolP!OwnedIsolation
  <2> QED
    BY <1>0, <1>2, <2>1 DEF PoolP!Isolation, PoolP!Threads, Threads
<1>4. call[t].tenant = job[t].req.tenant /\ call[t].rel = job[t].req.release
  BY <1>1, <1>2 DEF CallsMatch, HoldPlaces, UsingPlaces
<1>5. claims[job[t].run].req = job[t].req
  BY <1>1 DEF ReqsMatch, RunPlaces
<1> QED
  BY <1>1, <1>3, <1>4, <1>5

\* Executions stay at home.
LEMMA KeepsHome ==
    ASSUME SInv, HInv, Next, "cleanup" \notin Faults
    PROVE  ExecAtHome'
<1>0. /\ RunsOwn /\ ExecOnce /\ CallsMatch /\ ReqsMatch /\ ExecAtHome
      /\ ExecOwned /\ ThreadsFit /\ PoolP!Typed /\ PoolP!Owned
      /\ exec \subseteq Workers \X RunIds
  BY DEF SInv, SvcTyped, HInv
<1> DEFINE Home(e) ==
      /\ home'[e[1]] = <<claims'[e[2]].req.tenant, FlavorOf[claims'[e[2]].req.release]>>
      /\ claims'[e[2]].req.release \in installed'[e[1]]
<1> SUFFICES ASSUME phase' # "down", NEW e \in exec' PROVE Home(e)
    BY DEF ExecAtHome
<1>1. CASE e \notin exec
  <2>1. PICK t \in Callers : InvokeRun(t) /\ e = <<call[t].w, job[t].run>>
    BY <1>1, ExecGrows
  <2> QED
    BY <1>0, <2>1, NewAtHome
<1>2. ASSUME e \in exec, phase # "down", home'[e[1]] = home[e[1]],
             installed[e[1]] \subseteq installed'[e[1]]
      PROVE  Home(e)
  <2>1. /\ home[e[1]] = <<claims[e[2]].req.tenant, FlavorOf[claims[e[2]].req.release]>>
        /\ claims[e[2]].req.release \in installed[e[1]]
    BY <1>0, <1>2 DEF ExecAtHome
  <2>2. claims'[e[2]] = claims[e[2]]
    BY <1>0, <1>2, ClaimsKept DEF ExecOnce
  <2> QED
    BY <1>2, <2>1, <2>2
<1>3. ASSUME e \in exec, NEW t \in Threads, OneMoves(t) PROVE Home(e)
  <2>1. PoolMoves(t) /\ phase # "down"
    BY <1>3 DEF OneMoves, Moves
  <2>2. e[1] \in sandboxes /\ ~(pc[t] = "bootstrap" /\ t \in Pool!Holders(e[1]))
    BY <1>0, <1>3 DEF ExecOwned, ThreadsFit, UsingPlaces
  <2>3. home'[e[1]] = home[e[1]] /\ installed[e[1]] \subseteq installed'[e[1]]
    BY <1>0, <2>1, <2>2, HomeKept
  <2> QED
    BY <1>2, <1>3, <2>1, <2>3
<1>4. ASSUME e \in exec, NoneMoves PROVE Home(e)
  BY <1>2, <1>4 DEF NoneMoves
<1>5. ~AllGone
  BY DEF AllGone
<1> QED
  BY <1>1, <1>3, <1>4, <1>5, StepKinds

\* Tenant isolation of the whole Runner: what a sandbox executes while requests are served was
\* asked for by the tenant the sandbox was created for, with the release it needs installed,
\* through every reuse, failure, cancel and crash.  A sandbox that the clean-up of startup()
\* does not find goes on executing and belongs to nobody, which is why the theorem needs its
\* assumption.
THEOREM ExecAlwaysAtHome ==
    ASSUME "cleanup" \notin Faults
    PROVE  Spec => []ExecAtHome
<1>1. Init => HInv
  <2> SUFFICES ASSUME Init PROVE HInv
      OBVIOUS
  <2>1. exec = {} /\ \A t \in Callers : spc[t] \in {"idle", "reap"}
    BY DEF Init, Threads
  <2>2. CallsMatch /\ ReqsMatch /\ ExecAtHome
    BY <2>1 DEF CallsMatch, ReqsMatch, ExecAtHome, HoldPlaces, UsingPlaces, RunPlaces
  <2> QED
    BY <2>2, ClaimInit DEF HInv, CInv
<1>2. SInv /\ HInv /\ [Next]_vars => HInv'
  <2> SUFFICES ASSUME SInv, HInv, [Next]_vars PROVE HInv'
      OBVIOUS
  <2>1. CASE Next
    BY <2>1, KeepsOwn, KeepsOnce, KeepsCalls, KeepsReqs, KeepsHome DEF HInv
  <2>2. CASE UNCHANGED vars
    <3>1. UNCHANGED <<claims, call, home, installed, spc, job, exec, phase>>
      BY <2>2 DEF vars, dbVars, poolVars, svcVars
    <3>2. RunsOwn' /\ ExecOnce'
      BY <3>1 DEF HInv, RunsOwn, ExecOnce
    <3>3. CallsMatch' /\ ReqsMatch' /\ ExecAtHome'
      BY <3>1 DEF HInv, CallsMatch, ReqsMatch, ExecAtHome
    <3> QED
      BY <3>2, <3>3 DEF HInv
  <2> QED
    BY <2>1, <2>2
<1>3. HInv => ExecAtHome
  BY DEF HInv
<1> QED
  BY <1>1, <1>2, <1>3, ServiceInvariant, PTL DEF Spec

=============================================================================
