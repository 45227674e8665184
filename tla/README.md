# Managed Python Runner: TLA+ models and proofs

The Managed Python Runner executes user-written Python operators for NiFi. A
client takes a *lease* on a published operator release, then sends
*invocations*; the Runner executes each one in a sandbox that it keeps warm in a
pool, at most once at a time per idempotency key, and replays stored results. A
*build service* turns dependency locks into container images, and a *publish
service* turns source into releases.

This directory models the parts of that system that are concurrent, durable or
both, checks them with TLC and proves the central ones with TLAPS.
`PROJECT.json` maps every definition to the source lines it models, and lists
the runs, the hazards and the theorems.

## 1. Inventory

| Component | State | Operations | Talks to | Status |
|---|---|---|---|---|
| `RunnerDB` (`runner_engine/state.py`) | PostgreSQL: `leases`, `runs`, `idempotency_keys` | create / require / renew / delete lease, `begin_run`, `finish_run`, `abandon_run`, `reset_running`, three purges | called by the service | modelled, proved |
| `WorkerPool`, `Quota` (`pool.py`, `quota.py`) | idle buckets, `Worker` flags, live counters, creation semaphore | `acquire`, `release`, `invalidate`, `reap`, `reset_after_restart` | sandbox backend | modelled, proved |
| Sandbox backend (`sandbox/opensandbox.py`) | sandboxes at the server | create, renew, install, run, destroy, `cleanup_managed` | OpenSandbox over HTTP | by its outcomes |
| `RunnerService` (`service.py`) | `_active`, the reaper thread | leases, `invoke`, `cancel`, maintenance loop, `startup` | database, pool, backend | modelled, proved |
| `BuildService`, `BuildStore` (`build_service/`) | PostgreSQL: environments, aliases, jobs | `resolve`, `retry`, `get` | uv, docker, registry | modelled, proved |
| `PublishService`, `PublishStore`, `LocalSourceStore` (`publish_service/`) | operators, contract versions, variants, jobs; source snapshots on disk | create contract, compile, publish | build service, catalog | modelled, proved |
| Publish backends (`publish_service/backends/`) | native packages on disk | compile a contract, write a package | called by the publish service | the writing of packages |
| `Catalog`, `OperatorPublisher` (`runner_engine/catalog.py`, `publisher.py`) | release directories | `save`, `get`, `publish` | publish service, Runner | modelled, proved |
| Sandbox agent (`runner_engine/worker/`) | installed releases, one child process, two reader threads | install, run, kill | Runner over HTTP | modelled, proved |
| Gateway, policies (`gateway.py`, `policy.py`) | none | request checks, error codes | service | not modelled |
| NiFi processor and lease client (Java) | one lease per processor | `ensureLease`, `invoke`, cancel on stop | gateway | the most general client stands for it |
| Operator authoring, web demo | files; none | command line, HTTP front end | - | not modelled |

What is hard in this code:

* **Interleavings.** gRPC handlers, cancels and the reaper share `_active`, the
  buckets and the quota, under three locks that are never held across a backend
  call. A worker may be destroyed by a cancel while its invocation releases it.
* **Durable claims and volatile executions.** A key is claimed in one
  transaction, executed outside any, and finished or abandoned in another.
  Answers get lost, the Runner dies, a sandbox goes on executing.
* **Ordering of clean-up.** A key must not be freed before its sandbox is gone:
  in `invoke` (destroy, then `abandon_run`) and in `startup` (`cleanup_managed`,
  then `reset_running`).
* **Retention.** Three purges with three retentions run beside all of that.
* **Builds.** Several requests for overlapping locks race for one environment;
  the `mark_*` statements of the store do not look at the status they overwrite.
* **Files as shared state.** Source snapshots, release directories and native
  packages are written by concurrent threads, one file operation at a time, from
  a workspace that its owner edits meanwhile; a crash leaves them as they are.
* **Hostile company.** The agent in the sandbox must answer in time and leave
  nothing running, against processes that fork, leave their group, hold its
  pipes and flood them.

What makes each component correct is what sections 3 and 4 check.

## 2. The modules

| Module | Models | Composes |
|---|---|---|
| `RunnerDB` | the three tables; one action per transaction | - |
| `RunnerDBProofs`, `WorkerPoolProofs`, `BuildServiceProofs`, `PublishServiceProofs`, `SandboxAgentProofs` | theorems about a component (section 5) | each extends its component |
| `RunnerServiceProofs` | theorems about the Runner as a whole | extends `RunnerService`; `DBP == INSTANCE RunnerDBProofs`, `PoolP == INSTANCE WorkerPoolProofs` |
| `WorkerPool` | pool, quota and sandboxes; one action per critical section or backend call | - |
| `RunnerService` | `invoke`, `cancel`, leases, maintenance, crash and startup | `DB == INSTANCE RunnerDB`, `Pool == INSTANCE WorkerPool` |
| `IdempotentRequests` | what a client is promised about an idempotency key | implemented by `RunnerDB` (`KeepsPromise`) |
| `BuildService` | resolve, retry and build over the three build tables | - |
| `RuntimeAnswers` | what the build service promises to its clients | implemented by `BuildService` (`ServesAnswers`) |
| `SourceStore` | a workspace, its copies and the snapshots | - |
| `ReleaseCatalog` | release directories and `Catalog.save` | - |
| `PublishService` | contracts, variants, publish jobs and native packages | `Store == INSTANCE SourceStore`, `Catalog == INSTANCE ReleaseCatalog`, `Runtime == INSTANCE RuntimeAnswers` |
| `SandboxAgent` | the agent, its child and the user's processes | - |
| `MC*` | TLC instances: model values, symmetry | one module each |

**RunnerDB.** `leases`, `keys` and `runs` are the tables, as functions from the
primary key to a row or `Absent`; `claims` is what the caller of `begin_run`
keeps, `renewing` who is between the two transactions of `renew_lease`, `now`
the clock. Ids are uuid4, so `leased` and `claims` make sure that none is issued
twice. Every method is one transaction and one action; rows that are `RUNNING`
have no result and no expiry and therefore no such field. The client is the most
general one: any call at any time, with any run id ever issued. So the theorems
do not depend on what the service does.

**WorkerPool.** `pc` and `call` are the position and the locals of each thread
inside a pool call; `idle` are the buckets, `alive` the workers that `acquire`
returned and whose `destroyed` is still false, `healthy` and `installed` the
other fields of `Worker`, `live`, `tenantLive` and `creating` the quota, and
`sandboxes` what exists at the backend. `_destroy` is the three steps of the
code: `DestroyMark` (or `DestroySkip` for the thread that comes second),
`DestroyBackend`, `DestroyReleaseLive`. Time is abstracted to one bit, "idle for
too long" (`aged`). `Faults` names the backend calls that may fail.

**RunnerService.** `spc` and `job` are the position and the locals of each
handler, `active` is `_active`, `lock` the thread that keeps `_active_lock`
while it destroys the worker of a duplicate id, `exec` which run each sandbox
executes, and `phase` how far a restart has come. A pool call takes as many
steps as it has in `WorkerPool` (`PoolStep`), so handlers interleave inside it.
An execution goes on when its answer was lost; it ends by itself (`ExecEnds`)
or with its sandbox. `CallFaults` names the database and transport calls that
may fail, also after their COMMIT.

**BuildService.** `envs`, `created`, `aliases` and `jobs` are the tables, `pc`
and `task` the request threads. A lock is a set of pins on a platform; an image
is what it holds plus a salt, because two builds of one content may or may not
have one digest and `image_ref` is UNIQUE. docker and uv are their outcomes.

**IdempotentRequests** and the refinement. Every logical request is free, being
executed, or answered until a time. `RunnerDB!RequestOf` maps a key to that: a
RUNNING row is an execution, a DONE row that `begin_run` would replay is an
answer, and everything else (no row, a retryable failure, a result whose
retention is over but which no purge has removed yet) is free. The purges map to
nothing, `Tick` to the passing of time that ends answers, `reset_running` to
giving up all executions at once. Executions are the run ids ever handed out.

**RuntimeAnswers** and the refinement. The state is the image each lock is
answered with, or none. A lock once answered READY keeps its image, and that
image has all its packages; several locks may become READY in one step, because
they are bound to one environment. `PublishService` is composed with this
specification in place of the build service.

**PublishService.** `contracts`, `variants` and `jobs` are the tables, `ppc` and
`req` the position and the locals of each request thread, `archives` the native
packages. A contract is what its SHA-256 covers here, an operator and a source
revision; a revision is the content of every file, which is what
`source_revision` hashes. `workspace` is edited between any two steps,
`copying` is the temporary directory of `put_workspace` with the files copied so
far. `Catalog.save` takes a step per file operation another publisher can see:
`exists` with the `get` after it, `mkdir`, the two renames. `orphaned` records
the jobs that a crash or a raising database left behind. `PublishFaults` names
what may fail: copies, disk, each of the three job updates before or after its
COMMIT, and the process.

**SandboxAgent.** `pc` is where the agent is with its request (HTTPServer serves
one at a time), `reader` and `got` where the thread is that reads the child's
output, `procs` the processes of the user, with those in the child's process
group and those that hold the pipe; `pass`, `todo` and `found` are the locals of
`_kill_user_processes`. What is in the pipe is abstracted to what `json.loads`
makes of it: nothing, a JSON object (the response of `child.py`, or one that the
user's code prints itself), another JSON value, no JSON, or more than the limit.
As in the code, the exit code is looked at only when stdout is empty, every
object is the answer, and another JSON value raises (HTTP 400). The response of
the child takes three steps: `main` composes it (`ChildReturns`), the buffer of
`sys.stdout` goes to the pipe, whole, cut or over the limit (`ChildFlushes`), and
the child ends with any exit code (`ChildDies`). The user's steps (fork with or
without `setsid` and with or without the pipe, exit, close, write, return
anything, die) are enabled whenever such a process exists, also between the steps
of the clean-up. `printed` and `tidy` record what `AnswersSound` speaks of. An
answer resets what belongs to the run (`Answer`): of an earlier run only its
surviving processes matter later.

## 3. The runs

| Run | Bounds | What it shows |
|---|---|---|
| `db_tables` | 2 tenants with one key, 2 executions, 2 contents, 1 lease, 5 ticks; replay retention 3, run retention 1 | tables in step, replays backed by history, results frozen and kept for their window, leases never return; implements `IdempotentRequests` |
| `pool_races` | 2 handlers + reaper, 2 tenants, 2 releases of one runtime, 2 workers, `max_live` 2, `max_installed` 2; creations, installs, renewals and deletions fail, restarts | quota exact, workers exclusive, tenants isolated; a worker is lost only by the exception of a failing deletion |
| `pool_leak` | 3 workers, `max_live` 2; deletions fail | **violated**: finding 1 |
| `pool_live` | 3 workers, `max_live` 2; creations fail, deletions do not | **violated**: finding 2 |
| `service_races` | 2 handlers, 2 releases of one runtime with a lease and a key each, 1 invocation id, 2 executions, 2 workers; transport failures, installs into new and reused sandboxes that fail, database answers lost before or after the COMMIT, deletions of the reaper that fail, crashes; leases stay (`LeasesKept`) | no execution without its claim or away from its sandbox, idle sandboxes quiet, `_active` in step |
| `service_liveness` | 2 handlers, 1 key, 2 executions, 1 worker, `max_live` 1, 1 tick, results expire; creations (also after the sandbox exists), installs and the transport fail; leases stay; no symmetry | keys settle, idle sandboxes go |
| `service_cancel` | 2 leases, 2 invocation ids | **violated**: finding 3 |
| `service_active` | 2 handlers, 1 invocation id | **violated**: finding 4 |
| `build_races` | 2 handlers, 3 locks (one a superset, one of another platform), 3 jobs, 2 salts; failing builds, lost claims, crashes | jobs in step, requests served, images own; implements `RuntimeAnswers` |
| `build_liveness` | 2 locks, 2 jobs, no symmetry; failing builds, lost answers of `mark_ready` | claimed builds settle |
| `publish` | 2 request threads, 1 operator with one saved contract, 2 files with one edit each, 2 locks, both backends, 2 archives per release, 3 requests, 2 publish jobs; every fault, crashes | contracts sourced, catalog whole, published artifacts stand, jobs settle |
| `agent` | the child and 2 descendants, any number of runs, 3 passes of the clean-up; good, foreign and broken artifacts; 3 results and a forged one | answers sound, nothing left running, every run ends |

Why the bounds are enough to be interesting: two handlers and the reaper are
the smallest setting in which a worker has three destroyers; two workers under
`max_live` 2 let the limit be reached and give `acquire` a stale list beside its
candidate, and a reused sandbox gets its second release, where installs fail (the
limit `max_installed` itself is left to `IsolationAlways`); a worker id is used again once nothing refers to it (the runs that
violate have a third, for the sandbox too many); a sandbox that vanishes by its
own TTL shows itself to the pool as a renewal or an install that fails, so the
fault `expire` adds no behaviour of the bookkeeping to `pool_races`; two executions
of a key are a first attempt and its retry, which is what a late `finish_run`
or `abandon_run` has to be told apart from; a run retention of 1 under a replay
retention of 3 makes `purge_old_runs` meet results that are still served; three
jobs are a failed build, its retry and a competitor; three requests are a
saved contract between two publishes, or two publishes and a compile, and two
archives per release are what two builds of zlib make of one; two descendants
are one that is hunted and one that it forks meanwhile. In `service_liveness` two
claims of one key and two handlers make a duplicate invocation, a reservation that
fails because the other handler has the only token, and a retry of an abandoned or
expired key possible, each with a claim that has to be settled. Two releases that share
a bucket are what an `acquire` can mix up. All safety properties are independent
of the bounds by proof (section 5). `db_tables` ends at `MaxTime`
and ids run out, which the runs accept as the end of an instance: the purges
and renewals stay enabled, except in `build_liveness`, which therefore switches
the deadlock check off.

Symmetry is used for handlers, workers, the tenants of the pool, releases of one runtime, run ids, lease
ids, contents, jobs and salts, which no definition tells apart, and never in a
run with a liveness property.

### Properties

* `ClaimsInStep`: a key is RUNNING exactly when the run it names is, for the
  same key and content. One logical request never has two executions, and no key
  is blocked by a run that is over.
* `ReplayBacked`, `ReplayWindowKept`, `TerminalRunsFrozen`: what is replayed has
  its audit row, is never a retryable failure, and is neither lost nor replaced
  before it expires; a closed run never changes.
* `LeasesNeverReturn`: a renewal that passed its check does not resurrect a lease
  that was released or purged in between.
* `QuotaExact`: every live token is held by exactly one worker, creation or
  deletion, per tenant and in total.
* `Exclusive`: no two handlers hold one worker, and no idle worker is held.
* `Isolation`: a handler uses a worker of its own tenant, runtime and profile
  that has its release installed, within `max_installed_releases`.
* `LostOnlyByRaise`: a worker that is not destroyed becomes unreachable only in
  the step in which the exception of a failing deletion leaves a loop, and only if
  it was on that thread's list or its candidate. `NoLeak`, that none ever becomes
  unreachable, is what the comment in the code wants; it is violated (finding 1),
  and proved for a backend that deletes what it is asked to.
* `LiveBounded`: `max_live` bounds the sandboxes that exist at the backend. It is
  violated (finding 2), and proved for a backend that answers every creation and
  whose deletions and clean-up succeed.
* `ExecClaimed`: whatever a sandbox executes is still claimed by that run, and by
  one sandbox only. Exception: a sandbox whose deletion is under way in another
  thread. `_destroy` returns at once to the second caller, whose `abandon_run`
  can therefore precede the end of the deletion; the window is as long as the
  DELETE call.
* `ExecAtHome`: whatever a sandbox executes was asked for by the tenant that the
  sandbox belongs to, for a release of its runtime and profile that is installed
  in it. `Isolation` says this of the pool's own record of a call; `ExecAtHome`
  says it of the request whose key was claimed.
* `IdleQuiet`: nothing still runs in a sandbox that is back in the pool.
* `ActiveInFlight`: every entry of `_active` belongs to an invocation that is
  still under way.
* `KeySettles`, `ExpiredGoes`, `BuildsSettle`: liveness, see below.
* `JobsInStep`: an environment in build has exactly one open job in the same
  status.
* `RequestsServed`: what a request is bound to is on its platform and, once
  READY, has an image with its packages.
* `ImagesOwn`: images are not shared.
* `ServesAnswers`: `BuildService` implements `RuntimeAnswers`; the answer to a
  lock, once READY, never changes and has its packages.
* `KeepsPromise`: `RunnerDB` implements `IdempotentRequests`; one execution of a
  key at a time, and its answer, unchanged, for exactly the retention.
* `ContractsSourced`: every saved contract has a snapshot that holds exactly the
  revision it names, whatever was edited meanwhile, and one version.
* `CatalogWhole`: a `release.json` that can be seen belongs to the archive
  beside it.
* `PublishedStands`: a PUBLISHED variant names a readable release of its own
  contract with an image that has its packages, or a package with no other
  contract's content; a READY job is not undone by a later one that fails.
* `JobsSettle`: a RUNNING job becomes READY or FAILED, unless the process died
  or the database did not answer.
* `AnswerQuiet`: when a run has been answered none of the user's processes is
  left, unless somebody forked during every pass of the clean-up. This is what
  `IdleQuiet` of the service relies on.
* `AnswersSound`: the release that ran is the one that was asked for. An operator
  that prints nothing itself, whose response fits into the limit and that leaves
  nobody at its pipe is answered with its own response or TIMEOUT, whatever its
  exit code. One that prints nothing itself, however it ends, is never answered
  with a success that it did not return, a retryable success or a failure without
  a code. OUTPUT_LIMIT and USER_PROCESS_EXITED have their cause. Of an operator
  that prints JSON itself nothing more holds: the agent answers with it.
* `RunsEnd`: every request to the agent is answered.

### Fairness

`RunnerService!FairSpec` assumes weak fairness of every handler's steps and of
the maintenance loop: gRPC threads are scheduled, `_active_lock` and the quota's
lock are held for finitely many steps, HTTP and agent calls have timeouts, and
the loop catches every exception. Nothing makes a client call, the clock tick or
the process crash. `KeySettles` and `ExpiredGoes` speak of a Runner that stays
up and whose database answers. `BuildService!FairSpec` assumes that request
threads go on and docker commands end; `BuildsSettle` is for a process that
lives. `PublishService!FairSpec` assumes that request threads are scheduled; of
the build service nothing is assumed, since `urlopen` has a timeout
(`ResolveRuntimeRaises` is always possible while a thread waits for it).
`SandboxAgent!FairSpec` assumes that the agent and its reader are scheduled and
that timers run; of the user's processes nothing is assumed.

## 4. Findings

1. `pool_leak` - `backend.destroy` raising inside the loops of `acquire` and
   `reap` (`pool.py:97`, `pool.py:178`) loses the rest of the list and the popped
   candidate: no bucket and no thread refers to them, their sandbox and their
   token stay. The comment at `pool.py:149` wants deletion and release "exactly
   once per Worker object".
2. `pool_live` - the POST that creates a sandbox, and the reading of its id, are
   outside the `try` that would delete it (`opensandbox.py:162`). When the answer
   is lost the sandbox exists, nobody deletes it, and `acquire` returns its live
   token (`pool.py:129`): more than `max_live` sandboxes are alive although every
   deletion succeeds. A raising deletion returns the token as well
   (`pool.py:156`). `README.md:130` says that `max_live` counts the sandboxes
   alive, `README.md:132` that "The live token is released only when a sandbox is
   destroyed." The orphan ends with its TTL.
3. `service_cancel` - `_active` still names a worker between `pool.release`
   (`service.py:254`) and the `finally` of `invoke`. A cancel in that window keeps the worker and can
   destroy it under an invocation of another lease (`README.md:142`).
4. `service_active` - two requests with one invocation id both pass the first
   check; the loser's `finally` removes the winner's entry, which can then not be
   cancelled (`README.md:136`).

Known windows that no document contradicts, kept as hazards:

* A lost answer of `begin_run`, or a raising `abandon_run`, leaves the key
  RUNNING until the next restart.
* `cleanup_managed` reads one page and skips failing deletions; the quota starts
  at zero beside the sandboxes that are left.
* If the answer of `mark_ready`'s COMMIT is lost, `mark_failed` turns a READY
  environment into FAILED. A request that was bound to it as a superset in the
  meantime can, after a retry has reset the row, claim the build with *its own,
  smaller* lock (`build_service/service.py:72`), and the environment becomes
  READY without the packages of its own key. With the fault `ready`,
  `RequestsServed` is violated after 25 steps; `build_races` leaves it out.
* A crash between `claim_build` and `mark_ready` leaves the row BUILDING for
  ever: `retry` accepts only FAILED.
* The publish service repairs nothing at startup: a job whose process died stays
  RUNNING (`publish_service/service.py:338`).
* A release directory without `release.json`, left by a crash or a full disk
  after `mkdir` (`catalog.py:27`), can never be completed: every later publish of
  that release fails with RELEASE_NOT_FOUND. A second publisher that meets a
  directory still being written fails in the same way, or with FileExistsError.
* `write_native_package` replaces the file in place (`nifi_native.py:350`): a
  publish that fails while writing, or races another one, leaves a torn or no
  file under the name that a PUBLISHED variant and an earlier READY job refer to.
  With the option `packageName` two contracts can even share a file; the model
  has the default name.
* If the answer of `mark_job_ready`'s COMMIT is lost, the job ends FAILED with an
  `artifact_ref`, and its variant stays PUBLISHED.
* Saving an older contract again returns its old version, while compile and
  publish go on using the latest one (`store.py:77`, `store.py:125`).
* The clean-up of the agent makes three passes, and ends after one that found
  nothing: a process that forks and exits between the listing of `/proc` and the
  reading of its own entry ends it after the first. Without root, or with
  `child_uid` 0, there is no clean-up at all (`agent.py:62`).
* An operator that succeeds but leaves a process at its stdout for more than two
  seconds is answered INVALID_CHILD_RESPONSE: the reader waits for a full chunk
  or the end of the file, and stdout is parsed without it.
* The agent validates nothing that it reads from stdout (`agent.py:262`): an
  operator that prints a JSON object and leaves with `os._exit(3)` is answered
  with that object, also a retryable success; another JSON value makes line 288
  raise, HTTP 400, and costs the sandbox. `error_message` and `relationship` have
  no limit in `child.py`, so a well-behaved operator can be answered OUTPUT_LIMIT.
* An artifact with the right SHA-256 is not opened when the directory of its
  release exists (`materialize.py:29`), so it need not be a safe archive.
* A release directory of the agent that was installed from an artifact with
  another id in its `operator.json` stays, and refuses every later bootstrap of
  that release in this sandbox (`materialize.py:30`).
* `max_invocations_per_worker` is configured and never read.

## 5. Proofs

Every theorem holds for every value of the constants that satisfies the
component's named assumption: any number of threads, workers, locks, files,
operators, processes, any limits and (unless said otherwise) any set of faults.
Each inductive invariant below was first checked with TLC on the instance of the
component's run.

| Module | Theorem | Statement |
|---|---|---|
| `RunnerDBProofs` | `TypeCorrect` | `Spec => []TypeOK` |
| | `ClaimsStayInStep` | `Spec => []ClaimsInStep` |
| | `ReplaysStayBacked` | `Spec => []ReplayBacked` |
| | `RunsFreeze` | `Spec => TerminalRunsFrozen` |
| | `ReplayWindowsKept` | `Spec => ReplayWindowKept` |
| | `LeasesStayGone` | `Spec => LeasesNeverReturn` |
| | `PromiseKept` | `Spec => KeepsPromise`: `RunnerDB` implements `IdempotentRequests` |
| | `Invariance` | `Spec => []IInv` |
| `WorkerPoolProofs` | `TypeCorrect` | `Spec => []TypeOK` |
| | `ExclusiveAlways` | `Spec => []Exclusive` |
| | `IsolationAlways` | `Spec => []Isolation` |
| | `QuotaAlwaysExact` | `Spec => []QuotaExact` |
| | `OnlyRaisesLose` | `Spec => LostOnlyByRaise` |
| | `NothingLeaks` | without the faults `destroy`, `reap`: `Spec => []NoLeak` |
| | `SandboxesBounded` | without `create`, `destroy`, `reap`, `cleanup`: `Spec => []LiveBounded` |
| `RunnerServiceProofs` | `TypeCorrect` | `Spec => []TypeOK` |
| | `ActiveAlwaysInFlight` | `Spec => []ActiveInFlight` |
| | `IdleAlwaysQuiet` | `Spec => []IdleQuiet` |
| | `ExecAlwaysClaimed` | without the faults `destroy`, `cleanup`: `Spec => []ExecClaimed` |
| | `ExecAlwaysAtHome` | without `cleanup`: `Spec => []ExecAtHome` |
| | `ComponentsHold` | `Spec => [](ClaimsInStep /\ ReplayBacked /\ Exclusive /\ Isolation)` of the instances |
| | `RunnerKeepsPromise` | `Spec => KeepsPromise` of the instance: the Runner implements `IdempotentRequests` |
| `BuildServiceProofs` | `TypeCorrect` | `Spec => []TypeOK` |
| | `JobsAlwaysInStep` | `Spec => []JobsInStep` |
| | `RequestsAlwaysServed` | without the fault `ready`: `Spec => []RequestsServed` |
| | `ImagesAlwaysOwn` | without `ready`: `Spec => []ImagesOwn` |
| | `AnswersKept` | without `ready`: `Spec => ServesAnswers`, that is, `BuildService` implements `RuntimeAnswers` |
| `PublishServiceProofs` | `TypeCorrect` | `Spec => []TypeOK` |
| | `ContractsAlwaysSourced` | `Spec => []ContractsSourced` |
| | `CatalogAlwaysWhole` | `Spec => []CatalogWhole` |
| | `PublishedAlwaysStands` | `Spec => []PublishedStands` |
| `SandboxAgentProofs` | `TypeCorrect` | `Spec => []TypeOK` |
| | `QuietAlways` | `Spec => []AnswerQuiet` |
| | `SoundAlways` | `Spec => AnswersSound` |

A proof has one lemma per action (or per group of actions that disturb the same
things) and one step per conjunct the action can disturb; the last step of each
theorem combines `Init`, `[Next]_vars` and the invariant with PTL.

### The run tables

The only assumption is `DBAssumption`: the TTL, the retentions and the bound of
the clock are natural numbers.

`IInv` is `TypeOK`, `RowsClaimed` (every run row and every key names a
run id that `begin_run` gave out, for the same request), `ClaimsInStep` and
`ResultsBacked`. The two extra
parts are what makes it inductive. Without `RowsClaimed`, a `begin_run` could
reuse the id of an old row and a late `finish_run` would hit the wrong one.
`ReplayBacked` speaks of results that are still valid, and `PurgeOldRuns`
decides with the same clock; `ResultsBacked` states the agreement of a DONE key
with its row in the form every action preserves, and implies `ReplayBacked`.
The action properties follow from `IInv` and the lemmas about the actions.

`PromiseKept` has one lemma per kind of step: `BeginRunStarts` (a claimed key was
free, because its row is absent or can no longer be replayed),
`FinishRunAnswers` (an answer if the result is kept, else the request is given
up), `KeysGivenUp` (`abandon_run` and `reset_running` free keys in progress and
no others), `TickPasses` (an answer ends exactly when its retention is over);
the lease methods and the purges leave the abstract state as it is. It needs
`IInv` only for the rows to be well formed: that a late caller cannot end
somebody else's execution is in the guard `OwnsKey`.

### The pool

Assumed of the constants (`PoolAssumption`): there is a tenant and a flavor, the
limits are positive, threads and worker ids are finite sets, every release has
a flavor. The invariant comes in four layers, each proved on top of the ones
before:

* `Typed`: `TypeOK`, what locals a thread has at its place (`Locals`), and that
  the taken permits of the creation semaphore are those of the threads inside it
  (`Slots`), without which `creating` could not be shown to stay a natural number.
* `Owned`: `Exclusive` with what it rests on. Held and idle workers are at home
  where they are (`HeldHome`, `IdleHome`), have what they should have installed
  (`Fitting`, `Bounded`), a worker whose creation is unfinished is known to
  nobody else (`Fresh`), and a worker under deletion is no longer `alive`
  (`Marked`). That a cancel can keep a reference to a worker it does not hold is
  why `Exclusive` alone is not inductive: what saves the pool is that `destroyed`
  is set under the lock before anything else.
* `Counted`: the live tokens are the `alive` workers plus the threads that create
  or delete one (`Tokens`), per tenant by `Payer`. `QuotaExact` follows.
* `Covered`: every sandbox is an `alive` worker's or that of a thread that is
  creating or deleting it (`Standing`).

`OnlyRaisesLose` needs `Owned` and no hypothesis: every other step leaves what is
unreachable as it was or makes it less (`NoneLost`). `NothingLeaks` follows from
it with `NoRaise`. The hypotheses of `NothingLeaks` and `SandboxesBounded` are
needed: `pool_leak` violates `NoLeak` with one failing deletion, `pool_live`
violates `LiveBounded` with one lost answer of a creation, and a failing deletion
or an incomplete clean-up breaks it too.

A cancel takes its worker from `_active`, where it may have been destroyed
already; `CancelRef` therefore allows every worker but the ones that an
unfinished `acquire` has created and not returned (`Unreturned`). The service
proves that `_active` never names one of those (`ActiveReturned`).

### The Runner

`ServiceAssumption` is the assumption of the database and of the pool, that the
results of sandboxes are results, and that nobody is called `NoThread`.

The components are not proved again. `RunnerServiceProofs` instantiates their
proof modules; the lemmas `SameTables`, `SameStep` and `SameOthers` identify the
actions of the instances, `StepTables` and `ServicePool` show every step of the
service but a crash to be a step of each component or a stutter, and the step
lemmas of the components do the rest. The same argument carries `PromiseKept`
over: a crash leaves tables and clock alone, so it is a stutter of
`IdempotentRequests`.

`SInv` holds under every fault: the invariants of the components; `ThreadsFit`
(a handler's locals by place, and that it uses a worker exactly where it should);
`DownQuiet` (nobody is served between a crash and the end of startup);
`ActiveReturned`; and `ExecOwned`: a sandbox that executes something exists, is
in no bucket, and is held by nobody but the `invoke` that waits for that run or
is about to destroy the sandbox. `ExecOwned` is why `IdleQuiet` is inductive: a
worker returns to a bucket only from `release`, and whoever releases it has had
its answer.

`CInv` is what `ExecClaimed` needs beyond it:

* `RunsOwn`, `RunsClaimed`, `ExecOnce`: a run id belongs to one call, is RUNNING
  up to `finish_run`, and is sent to one sandbox once.
* `ExecWaited`: an execution whose sandbox is not being deleted has a waiter: the
  `invoke` that will take its answer, or that has the sandbox at the head of its
  list and comes to `abandon_run` only after it. Its worker is not marked as
  destroyed, so that `invoke` will not skip the deletion.
* `HeldStands`: a worker that is marked as destroyed while somebody holds it is
  being deleted, by a cancel; this is the exception in `ExecClaimed`.
* `ReaperOwns`: what the reaper destroys is out of everybody's reach and quiet,
  so that its failing deletions are harmless.

`HInv` is what `ExecAtHome` needs: `CallsMatch` and `ReqsMatch` tie the locals of
`acquire` and the claim in the database to the request of the call.

The hypotheses are needed. With `destroy`, `invoke` swallows the exception of a
failed deletion and frees the key while the sandbox goes on; with `cleanup`, a
sandbox that `cleanup_managed` did not find goes on after `reset_running`, and
belongs to nobody.

### The build service

`Inv` is `Typed` (rows, and locals by place) and `Owned`: a thread that builds
knows the status of its environment and its job (`Owner`), no two build the same
one (`Alone`), and open jobs and environments in construction correspond one to
one (`Paired`). `Paired` is `JobsInStep` taken apart; it is inductive only with
`Owner` and `Alone`, because the `mark_*` statements do not look at the status
that they overwrite. This layer holds under every fault, a READY environment
whose `mark_ready` was not answered included (the last conjuncts of `Owner`).

`Served` says what the packages of a lock rest on: what each thread is about to
bind, build or mark (`Purpose`), that READY environments are filled and have
distinct images (`Filled`, `Distinct`), and that a binding is to the lock's own
environment or to a READY superset (`Bound`). It is preserved because READY is
final and bindings are never changed (`Grows`), which is what the fault `ready`
destroys; hence the hypothesis, and with it the counterexample in section 4.
`AnswersKept` shows every step to be a `Settle` of the locks whose answer it
changes: none of them was answered READY before, and the new image serves each.

Assumed (`BuildAssumption`): locks and packages are finite sets, every lock has
its pins and a platform, and the markers of no lock and no image are neither.

### The publish service

Assumed (`PublishAssumption`): selections name revisions of the workspace, the
contracts saved at the start are distinct, the absent directory and file are no
revision and no archive, locks and images are as `RuntimeAnswers` has them.
`Inv` holds under every fault and crash:

* `Sourced`: the directory of a revision holds that revision or does not exist.
  With `Locals` (a thread that is about to save a contract has its snapshot) it
  gives `ContractsSourced`. The copy may hold anything; only a copy that was
  compared is renamed.
* `Shelf`: a directory that does not exist has no files; a thread that writes the
  archive or the metadata of a release made its directory, is the only one that
  does, and knows what is in it; a thread whose `save` returned can read the
  release. `CatalogWhole` rests on `mkdir` having one winner.
* `Promised`: `RuntimeAnswers` keeps its promise; so the image in a release has
  the packages of its contract (`Suits`).
* `OwnPackages`: a package has no other contract's content.
* `PublishedStands` itself. That it survives later steps is one lemma,
  `StandsKept`, from `Grows`: snapshots and readable releases are never taken
  back, jobs keep their variant, packages stay own.

### The agent

`Inv` is `TypeOK` and

* `Hunt`: what the clean-up may still have missed, by the place it is at: either
  nothing is left, or somebody forked in every pass so far. It gives `AnswerQuiet`.
* `Served`: a run is served only for the release that is installed; one that is
  refused because its child did not read the request has said nothing; a child
  that is gone has an exit code.
* `Told`: as long as the user's code has printed nothing, what is in the pipe and
  in `stdout[]` is the child's response, cut or not; nobody holds the pipe of a
  child that ended tidily, so nothing can be added to it.
* `Heard`: a reader that is through has everything, and for a tidy child it is
  through when the agent looks, because `join` can only time out while somebody
  holds the pipe.

`AnswersSound` is about the two steps that answer a run (`OnlyAnswersEnd`); each
follows from `Inv` (`ClassifySound`, `ParseSound`) and from `Normalized`: no
response of `child.py` is a retryable success or a failure without a code. Nothing
is assumed of what the user's processes do, nor of their number. `AgentAssumption`
says that the child is none of the other processes, that the release has an
artifact, that the markers of a broken and of an absent directory are distinct from
it, and what results and forged objects look like.

## 6. What is only model-checked, and what is not modelled

* Only with TLC: all liveness (`KeySettles`, `ExpiredGoes`, `BuildsSettle`,
  `JobsSettle`, `RunsEnd`), because liveness under fairness is out of the
  prover's reach, and the four violations. Every invariant, action property and
  refinement that a passing run checks is a theorem as well.
* `RequestsServed` and `ServesAnswers` are checked without the fault `ready` of
  the build service, with which they do not hold (section 4); so the composition
  of `PublishService` with `RuntimeAnswers` is about a build service whose
  `mark_ready` is answered.
* Failing deletions by handlers are faults of `pool_races`; `service_races`
  has the transport, the database and the deletions of the reaper (`"reap"`)
  fail. When the deletion that `invoke` asks for fails, `abandon_run` still frees
  the key while the sandbox may go on executing: `ExecClaimed` is a property of
  a backend that deletes what handlers ask it to.
* `service_races` and `service_liveness` have the state constraint `LeasesKept`:
  nothing is explored beyond a lease that is released, purged or half renewed.
  Those steps touch only their lease, which is looked at before an `invoke` or a
  `cancel` starts, so they settle no key and hold no worker; `db_tables` goes on
  from there.
* One clock: the Runner's clock and PostgreSQL's `now()` agree.
* A `begin_run` between the two statements of `reset_running` is excluded; the
  Runner does not serve then. The loser of two first claims of a key gets a
  UniqueViolation in the code; the model has it as a claim that is not granted.
* Every run has policies with `reuse_sandbox`; a worker of a policy without it is
  destroyed at its release, which is the step an unhealthy worker takes.
* Worker ids are reused once nothing refers to them; the code's never are.
* Starvation at the creation semaphore and shutdown (`server.stop(grace=5)` is
  not awaited before the pools are closed) are not examined: for the database
  the latter is a crash between two transactions.
* The requests' contents, attribute filtering, protobuf, TLS, schema migration,
  logging and configuration are left out.
* Publishing: a scan of the workspace is one step (the copy that follows is file
  by file, and it is what gets compared); each backend has one set of options;
  the compilers and generators of contracts, adapters and native processors are
  pure functions, so what they produce is named by the contract it is made from;
  `get_operator` and the listings read one row set and change nothing. A READY
  answer of the build service reaches the model in the step that uses it.
* The agent: SIGKILL takes effect at once; writing the request to the child ends
  (`agent.py:224` has no timeout); stdout and stderr have one reader, so a flood
  of stderr is a flood of the one pipe; error codes that an operator chooses are
  one value (`OWN`), also where it chooses one of the agent's; the HTTP token is
  not modelled.
* The gateway and the policies are stateless; the NiFi client (Java) is covered
  by the callers of `RunnerService`, which may do anything, but its own promises
  (it compares lease expiries with its own clock, and does not acquire a new
  lease when an invocation fails on a purged one) are not stated. The authoring
  tools and the web demo keep no state another part relies on.

## 7. Plan

Done: all components of section 2 with their runs, and the proofs of section 5,
which cover every safety property of the passing runs.
Next: the parts that are modelled by their outcomes only (the calls inside
`create` and the paging of `cleanup_managed`), and theorems about the composition
of the publish service with the build service below `RuntimeAnswers`.
