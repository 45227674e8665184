---------------------------- MODULE BuildService ----------------------------
(***************************************************************************)
(* The build service: build_service/service.py (BuildService) on top of    *)
(* build_service/store.py (BuildStore).                                    *)
(*                                                                         *)
(* A dependency lock (a spec, named by its env_key) is resolved to a       *)
(* runtime environment: the one it was bound to before, the smallest READY *)
(* environment that holds its packages, or one of its own that the request *)
(* builds, verifies and marks READY or FAILED.  Requests run in threads of *)
(* one or more processes; a step is one transaction of the store or one    *)
(* docker command.                                                         *)
(*                                                                         *)
(* env_key is UNIQUE in runtime_environments, so the row is named by the   *)
(* spec it was created for.  An image is named by what it holds and by a   *)
(* salt: two builds of one content need not have one digest.               *)
(***************************************************************************)
EXTENDS Naturals, Sequences, FiniteSets

CONSTANTS
    Specs,            \* RuntimeBuildSpec, by env_key
    Packages,         \* <<name, version>> pins
    PackagesOf,       \* spec.packages
    PlatformOf,       \* base image, python, platform and policy version of a spec
    Superset,         \* allow_superset_reuse
    Callers,          \* request threads
    JobIds,           \* uuid4 of build jobs: never issued twice
    Salts,            \* what makes digests of equal content differ
    NoImage,          \* NULL
    NoSpec,           \* no row
    BuildFaults       \* what may fail in this environment: "build", "verify", "claim",
                      \* "verifying", "ready", "failed", "crash"

ASSUME BuildAssumption ==
    /\ PackagesOf \in [Specs -> SUBSET Packages]
    /\ IsFiniteSet(Packages) /\ IsFiniteSet(Specs)
    /\ DOMAIN PlatformOf = Specs
    /\ Superset \in BOOLEAN
    /\ NoSpec \notin Specs
    /\ NoImage \notin [pkgs: SUBSET Packages, salt: Salts]
    /\ BuildFaults \subseteq
            {"build", "verify", "claim", "verifying", "ready", "failed", "crash"}

VARIABLES
    envs,             \* runtime_environments: status and image_ref of each row
    created,          \* the rows in the order of created_at
    aliases,          \* runtime_env_aliases: the environment each request key is bound to
    jobs,             \* build_jobs
    pc,               \* where each thread is
    task              \* its locals

buildVars == <<envs, created, aliases, jobs, pc, task>>

-----------------------------------------------------------------------------
Image == [pkgs: SUBSET Packages, salt: Salts]

Absent == [status |-> "ABSENT", image |-> NoImage]

Env == [status: {"PENDING", "BUILDING", "VERIFYING", "READY", "FAILED"},
        image: Image \cup {NoImage}]

NoRow == [status |-> "ABSENT", env |-> NoSpec]

Job == [status: {"BUILDING", "VERIFYING", "READY", "FAILED"}, env: Specs]

\* The build a thread has claimed, with the spec it builds from.
Building == {"build", "mark_verifying", "verify", "mark_ready", "mark_failed"}

Places == {"idle", "lookup", "superset", "bind_superset", "exact", "bind_exact",
           "reset", "claim"} \cup Building

NoTask == [key |-> NoSpec]

Task(key) == [key |-> key, env |-> NoSpec, spec |-> key, seen |-> "ABSENT",
              job |-> NoRow, image |-> NoImage]

TypeOK ==
    /\ envs \in [Specs -> Env \cup {Absent}]
    /\ created \in Seq(Specs)
    /\ aliases \in [Specs -> Specs \cup {NoSpec}]
    /\ jobs \in [JobIds -> Job \cup {NoRow}]
    /\ pc \in [Callers -> Places]
    /\ \A t \in Callers : pc[t] # "idle" =>
            /\ task[t].key \in Specs
            /\ task[t].spec \in Specs
            /\ pc[t] \in Building => task[t].job \in JobIds /\ task[t].env \in Specs
            /\ pc[t] \in {"mark_verifying", "verify", "mark_ready"} => task[t].image \in Image

Init ==
    /\ envs = [s \in Specs |-> Absent]
    /\ created = <<>>
    /\ aliases = [s \in Specs |-> NoSpec]
    /\ jobs = [j \in JobIds |-> NoRow]
    /\ pc = [t \in Callers |-> "idle"]
    /\ task = [t \in Callers |-> NoTask]

Goto(t, place) == pc' = [pc EXCEPT ![t] = place]

\* The request is answered with what get_for_request reads.
End(t) ==
    /\ pc' = [pc EXCEPT ![t] = "idle"]
    /\ task' = [task EXCEPT ![t] = NoTask]

-----------------------------------------------------------------------------
(* resolve *)

\* lock_requirements has pinned the requirements to the spec s.
Resolve(t, s) ==
    /\ pc[t] = "idle"
    /\ task' = [task EXCEPT ![t] = Task(s)]
    /\ Goto(t, "lookup")
    /\ UNCHANGED <<envs, created, aliases, jobs>>

\* get_for_request finds nothing: look for a superset, or make an environment.
LookupMisses(t) ==
    /\ pc[t] = "lookup"
    /\ aliases[task[t].key] = NoSpec
    /\ Goto(t, IF Superset THEN "superset" ELSE "exact")
    /\ UNCHANGED <<envs, created, aliases, jobs, task>>

\* An environment that nobody has begun to build is built here, from the spec of this request.
LookupPending(t) ==
    LET e == aliases[task[t].key] IN
    /\ pc[t] = "lookup"
    /\ e # NoSpec
    /\ envs[e].status = "PENDING"
    /\ task' = [task EXCEPT ![t].env = e]
    /\ Goto(t, "claim")
    /\ UNCHANGED <<envs, created, aliases, jobs>>

LookupAnswers(t) ==
    /\ pc[t] = "lookup"
    /\ aliases[task[t].key] # NoSpec
    /\ envs[aliases[task[t].key]].status # "PENDING"
    /\ End(t)
    /\ UNCHANGED <<envs, created, aliases, jobs>>

\* Mutant: the packages are not compared.
OnSamePlatform(s) ==
    {e \in Specs : envs[e].status = "READY" /\ PlatformOf[e] = PlatformOf[s]}

\* The READY environments of one platform whose packages contain those of s.
Supersets(s) ==
    {e \in Specs : /\ envs[e].status = "READY"
                   /\ PlatformOf[e] = PlatformOf[s]
                   /\ PackagesOf[s] \subseteq PackagesOf[e]}

\* ORDER BY package_count, created_at
Before(d, e) ==
    LET count(s) == Cardinality(PackagesOf[s])
        row(s)   == CHOOSE i \in DOMAIN created : created[i] = s
    IN  count(d) < count(e) \/ (count(d) = count(e) /\ row(d) <= row(e))

FindSmallestSuperset(t) ==
    /\ pc[t] = "superset"
    /\ \/ /\ Supersets(task[t].key) = {}
          /\ Goto(t, "exact")
          /\ UNCHANGED task
       \/ \E e \in Supersets(task[t].key) :
            /\ \A d \in Supersets(task[t].key) : Before(e, d)
            /\ task' = [task EXCEPT ![t].env = e]
            /\ Goto(t, "bind_superset")
    /\ UNCHANGED <<envs, created, aliases, jobs>>

\* Mutant: ON CONFLICT DO UPDATE.
BindAgain(s, e) == [aliases EXCEPT ![s] = e]

\* ON CONFLICT (request_env_key) DO NOTHING
BindRequest(s, e) == [aliases EXCEPT ![s] = IF @ = NoSpec THEN e ELSE @]

BindSuperset(t) ==
    /\ pc[t] = "bind_superset"
    /\ aliases' = BindRequest(task[t].key, task[t].env)
    /\ End(t)
    /\ UNCHANGED <<envs, created, jobs>>

\* INSERT ... ON CONFLICT (env_key) DO NOTHING, else SELECT
GetOrCreateExact(t) ==
    LET s == task[t].key IN
    /\ pc[t] = "exact"
    /\ IF envs[s].status = "ABSENT"
       THEN /\ envs' = [envs EXCEPT ![s] = [status |-> "PENDING", image |-> NoImage]]
            /\ created' = Append(created, s)
       ELSE UNCHANGED <<envs, created>>
    /\ task' = [task EXCEPT ![t].env = s, ![t].seen = envs'[s].status]
    /\ Goto(t, "bind_exact")
    /\ UNCHANGED <<aliases, jobs>>

BindExact(t) ==
    /\ pc[t] = "bind_exact"
    /\ aliases' = BindRequest(task[t].key, task[t].env)
    /\ IF task[t].seen = "PENDING"
       THEN Goto(t, "claim") /\ UNCHANGED task
       ELSE End(t)
    /\ UNCHANGED <<envs, created, jobs>>

-----------------------------------------------------------------------------
(* retry *)

\* Only what get_for_request reads as FAILED is retried.
Retry(t, s) ==
    /\ pc[t] = "idle"
    /\ aliases[s] # NoSpec
    /\ envs[aliases[s]].status = "FAILED"
    /\ task' = [task EXCEPT ![t] = [Task(s) EXCEPT !.env = aliases[s]]]
    /\ Goto(t, "reset")
    /\ UNCHANGED <<envs, created, aliases, jobs>>

\* WHERE id = ... AND status = 'FAILED'; the spec is the one of the row from here on.
ResetFailed(t) ==
    LET e == task[t].env IN
    /\ pc[t] = "reset"
    /\ IF envs[e].status = "FAILED"
       THEN /\ envs' = [envs EXCEPT ![e] = [status |-> "PENDING", image |-> NoImage]]
            /\ task' = [task EXCEPT ![t].spec = e]
            /\ Goto(t, "claim")
       ELSE End(t) /\ UNCHANGED envs
    /\ UNCHANGED <<created, aliases, jobs>>

-----------------------------------------------------------------------------
(* _build *)

\* The row becomes BUILDING and gets a job.
Claimed(e, j) ==
    /\ envs[e].status = "PENDING"
    /\ jobs[j] = NoRow
    /\ envs' = [envs EXCEPT ![e].status = "BUILDING"]
    /\ jobs' = [jobs EXCEPT ![j] = [status |-> "BUILDING", env |-> e]]

\* Mutant: WHERE id = ... without AND status = 'PENDING'.
ClaimBuildAnyway(t, j) ==
    LET e == task[t].env IN
    /\ pc[t] = "claim"
    /\ jobs[j] = NoRow
    /\ envs' = [envs EXCEPT ![e].status = "BUILDING"]
    /\ jobs' = [jobs EXCEPT ![j] = [status |-> "BUILDING", env |-> e]]
    /\ task' = [task EXCEPT ![t].job = j]
    /\ Goto(t, "build")
    /\ UNCHANGED <<created, aliases>>

ClaimBuild(t, j) ==
    /\ pc[t] = "claim"
    /\ Claimed(task[t].env, j)
    /\ task' = [task EXCEPT ![t].job = j]
    /\ Goto(t, "build")
    /\ UNCHANGED <<created, aliases>>

\* The COMMIT went through, its answer did not: nobody builds.
ClaimLost(t, j) ==
    /\ pc[t] = "claim"
    /\ "claim" \in BuildFaults
    /\ Claimed(task[t].env, j)
    /\ End(t)
    /\ UNCHANGED <<created, aliases>>

ClaimTaken(t) ==
    /\ pc[t] = "claim"
    /\ envs[task[t].env].status # "PENDING"
    /\ End(t)
    /\ UNCHANGED <<envs, created, aliases, jobs>>

\* Mutant: a build without containerimage.digest in its metadata counts.
BuildRuntimeImageUnchecked(t, salt) ==
    /\ pc[t] = "build"
    /\ Goto(t, "mark_verifying")
    /\ UNCHANGED <<envs, created, aliases, jobs, task>>

\* docker buildx build --push
BuildRuntimeImage(t, salt) ==
    /\ pc[t] = "build"
    /\ task' = [task EXCEPT ![t].image = [pkgs |-> PackagesOf[task[t].spec], salt |-> salt]]
    /\ Goto(t, "mark_verifying")
    /\ UNCHANGED <<envs, created, aliases, jobs>>

\* docker run: the pins of the spec are installed in the image.
VerifyRuntimeImage(t) ==
    /\ pc[t] = "verify"
    /\ PackagesOf[task[t].spec] \subseteq task[t].image.pkgs
    /\ Goto(t, "mark_ready")
    /\ UNCHANGED <<envs, created, aliases, jobs, task>>

\* Mutant: no except clause.
CommandFailsQuietly(t) ==
    /\ \/ pc[t] = "build" /\ "build" \in BuildFaults
       \/ pc[t] = "verify" /\ "verify" \in BuildFaults
    /\ End(t)
    /\ UNCHANGED <<envs, created, aliases, jobs>>

CommandFails(t) ==
    /\ \/ pc[t] = "build" /\ "build" \in BuildFaults
       \/ pc[t] = "verify" /\ "verify" \in BuildFaults
    /\ Goto(t, "mark_failed")
    /\ UNCHANGED <<envs, created, aliases, jobs, task>>

\* mark_verifying, mark_ready, mark_failed: both rows, whatever their status is.
Mark(t, status, image) ==
    /\ envs' = [envs EXCEPT ![task[t].env] = [status |-> status, image |-> image]]
    /\ jobs' = [jobs EXCEPT ![task[t].job].status = status]

MarkVerifying(t) ==
    /\ pc[t] = "mark_verifying"
    /\ Mark(t, "VERIFYING", envs[task[t].env].image)
    /\ Goto(t, "verify")
    /\ UNCHANGED <<created, aliases, task>>

\* The database raises, before or after the COMMIT.
MarkVerifyingRaises(t) ==
    /\ pc[t] = "mark_verifying"
    /\ "verifying" \in BuildFaults
    /\ \/ UNCHANGED <<envs, jobs>>
       \/ Mark(t, "VERIFYING", envs[task[t].env].image)
    /\ Goto(t, "mark_failed")
    /\ UNCHANGED <<created, aliases, task>>

\* Mutant: image_ref without UNIQUE.
ImageShared(t) == FALSE

\* image_ref is UNIQUE.
ImageTaken(t) == \E e \in Specs \ {task[t].env} : envs[e].image = task[t].image

\* Mutant: the job is READY before the environment is.
MarkReadyJobOnly(t) ==
    /\ pc[t] = "mark_ready"
    /\ ~ImageTaken(t)
    /\ jobs' = [jobs EXCEPT ![task[t].job].status = "READY"]
    /\ End(t)
    /\ UNCHANGED <<envs, created, aliases>>

MarkReady(t) ==
    /\ pc[t] = "mark_ready"
    /\ ~ImageTaken(t)
    /\ Mark(t, "READY", task[t].image)
    /\ End(t)
    /\ UNCHANGED <<created, aliases>>

\* The UNIQUE constraint or the database raises, before or after the COMMIT.
MarkReadyRaises(t) ==
    /\ pc[t] = "mark_ready"
    /\ \/ ImageTaken(t) /\ UNCHANGED <<envs, jobs>>
       \/ "ready" \in BuildFaults /\ UNCHANGED <<envs, jobs>>
       \/ "ready" \in BuildFaults /\ ~ImageTaken(t) /\ Mark(t, "READY", task[t].image)
    /\ Goto(t, "mark_failed")
    /\ UNCHANGED <<created, aliases, task>>

MarkFailed(t) ==
    /\ pc[t] = "mark_failed"
    /\ Mark(t, "FAILED", envs[task[t].env].image)
    /\ End(t)
    /\ UNCHANGED <<created, aliases>>

\* The except clause raises itself: the rows stay as they are.
MarkFailedRaises(t) ==
    /\ pc[t] = "mark_failed"
    /\ "failed" \in BuildFaults
    /\ End(t)
    /\ UNCHANGED <<envs, created, aliases, jobs>>

\* The process dies; nothing at its next start looks at the tables.
Crash ==
    /\ "crash" \in BuildFaults
    /\ pc' = [t \in Callers |-> "idle"]
    /\ task' = [t \in Callers |-> NoTask]
    /\ UNCHANGED <<envs, created, aliases, jobs>>

-----------------------------------------------------------------------------
\* The steps of a request that is under way.
Step(t) ==
    \/ LookupMisses(t) \/ LookupPending(t) \/ LookupAnswers(t)
    \/ FindSmallestSuperset(t) \/ BindSuperset(t) \/ GetOrCreateExact(t) \/ BindExact(t)
    \/ ResetFailed(t)
    \/ (\E j \in JobIds : ClaimBuild(t, j) \/ ClaimLost(t, j)) \/ ClaimTaken(t)
    \/ (\E salt \in Salts : BuildRuntimeImage(t, salt)) \/ VerifyRuntimeImage(t)
    \/ CommandFails(t) \/ MarkVerifying(t) \/ MarkVerifyingRaises(t)
    \/ MarkReady(t) \/ MarkReadyRaises(t) \/ MarkFailed(t) \/ MarkFailedRaises(t)

Next ==
    \/ \E t \in Callers, s \in Specs : Resolve(t, s) \/ Retry(t, s)
    \/ \E t \in Callers : Step(t)
    \/ Crash

Spec == Init /\ [][Next]_buildVars

\* Request threads are scheduled and docker commands end.
FairSpec == Spec /\ \A t \in Callers : WF_buildVars(Step(t))

-----------------------------------------------------------------------------
(* Properties *)

OpenJobs(e) ==
    {j \in JobIds : jobs[j].env = e /\ jobs[j].status \in {"BUILDING", "VERIFYING"}}

\* claim_build and the mark_ methods: an environment that is being built or verified has
\* exactly one open job, in the same status, and one that is not has none.  So two requests
\* never build one environment at a time, although no mark_ method looks at the status.
JobsInStep ==
    \A e \in Specs :
        IF envs[e].status \in {"BUILDING", "VERIFYING"}
        THEN \E j \in JobIds : OpenJobs(e) = {j} /\ jobs[j].status = envs[e].status
        ELSE OpenJobs(e) = {}

\* What a caller of resolve is given contains what it asked for: the environment its request
\* key is bound to has the same platform, and once it is READY its image holds every package
\* of the request, whether the environment was built for this request or for a larger one.
RequestsServed ==
    \A s \in Specs : aliases[s] # NoSpec =>
        /\ PlatformOf[aliases[s]] = PlatformOf[s]
        /\ envs[aliases[s]].status # "ABSENT"
        /\ envs[aliases[s]].status = "READY" =>
                PackagesOf[s] \subseteq envs[aliases[s]].image.pkgs

\* No two environments share an image, and a READY one has the image that holds its own pins.
ImagesOwn ==
    \A e \in Specs : envs[e].status = "READY" =>
        /\ PackagesOf[e] \subseteq envs[e].image.pkgs
        /\ \A d \in Specs : envs[d].image = envs[e].image => d = e

\* What a request for s is answered: the image of a READY environment, or not ready.
ReadyImage(s) ==
    IF aliases[s] # NoSpec /\ envs[aliases[s]].status = "READY"
    THEN envs[aliases[s]].image
    ELSE NoImage

Answers == INSTANCE RuntimeAnswers WITH ready <- [s \in Specs |-> ReadyImage(s)]

\* The build service implements RuntimeAnswers: a request that was once answered READY keeps
\* its image, which holds its packages, although its environment may belong to another lock
\* and no concurrent resolve, retry or mark_ method looks at the status it overwrites.
ServesAnswers == Answers!Spec

\* An environment that a request thread has claimed becomes READY or FAILED: a caller that
\* was told BUILDING can come back for a final answer.
BuildsSettle ==
    \A e \in Specs : envs[e].status \in {"BUILDING", "VERIFYING"}
                        ~> envs[e].status \in {"READY", "FAILED"}
=============================================================================
