--------------------------- MODULE PublishService ---------------------------
(***************************************************************************)
(* The publish service: publish_service/service.py (PublishService) on     *)
(* its tables (publish_service/store.py), the source store (SourceStore),  *)
(* the release catalog (ReleaseCatalog) and the build service, which it    *)
(* calls over HTTP and which is here what it promises (RuntimeAnswers).    *)
(*                                                                         *)
(* A request thread saves a virtual contract from a workspace, compiles    *)
(* the latest contract of an operator for a backend, or compiles and       *)
(* publishes it.  A step is one transaction of the store, one file         *)
(* operation that others can see, or one call of the build service.  The   *)
(* process may die between any two.                                        *)
(*                                                                         *)
(* A contract is named by what its SHA-256 covers here: its operator and   *)
(* the source revision.  Each backend has one set of options, so a variant *)
(* is a contract and a backend.                                            *)
(***************************************************************************)
EXTENDS Naturals, Sequences, FiniteSets, SequencesExt

CONSTANTS
    \* of RuntimeAnswers
    Specs, Packages, PackagesOf, Salts, NoImage,
    \* of SourceStore and ReleaseCatalog
    FileOrder, MaxEdits, Bits, NoDir, NoFile,
    \* of the publish service
    Operators,        \* <<workspace, name>> of a logical operator
    Selected,         \* the source revisions that selections name
    SpecOf,           \* the lock of the requirements.txt of a revision
    Saved,            \* the revisions that every operator has contracts for at the start, by version
    Backends,         \* "runner", "nifi_native"
    Callers,          \* request threads
    MaxCalls,         \* bound: requests the service gets
    MaxJobs,          \* bound: publish jobs among them
    PublishFaults     \* what may fail in this environment: "snapshot", "disk",
                      \* "running", "ready", "failed", "crash"

ASSUME PublishAssumption ==
    /\ MaxCalls \in Nat /\ MaxJobs \in Nat /\ MaxEdits \in Nat
    /\ FileOrder \in Seq(Range(FileOrder))
    /\ Selected \subseteq [Range(FileOrder) -> 0..MaxEdits]
    /\ NoDir \notin [Range(FileOrder) -> 0..MaxEdits] /\ NoFile \notin Bits
    /\ Saved \in Seq(Selected) /\ IsInjective(Saved)
    /\ Backends \subseteq {"runner", "nifi_native"}
    /\ PublishFaults \subseteq
            {"snapshot", "disk", "running", "ready", "failed", "crash"}
    /\ PackagesOf \in [Specs -> SUBSET Packages]
    /\ SpecOf \in [Selected -> Specs]
    /\ NoImage \notin [pkgs: SUBSET Packages, salt: Salts]

VARIABLES
    ready,
    workspace, sources, copying,
    releases, saving, packed,
    contracts,        \* virtual_contract_versions: the revisions of each operator, by version
    variants,         \* backend_variants
    jobs,             \* publish_jobs, in the order of their creation
    archives,         \* the native packages on disk, by package name
    ppc,              \* where each thread is
    req,              \* its locals
    calls,            \* how many requests there have been
    orphaned          \* history: the jobs whose process died, or whose database raised where
                      \* nobody catches it

Runtime == INSTANCE RuntimeAnswers
Store == INSTANCE SourceStore

Contract == [op: Operators, rev: Selected]

ReleaseIds == [contract: Contract, image: Runtime!Image]

Catalog == INSTANCE ReleaseCatalog

storeVars   == <<workspace, sources, copying>>
catalogVars == <<releases, saving, packed>>
tableVars   == <<contracts, variants, jobs>>
vars == <<ready, storeVars, catalogVars, tableVars, archives, ppc, req, calls, orphaned>>

-----------------------------------------------------------------------------
Variant == [contract: Contract, backend: Backends]

\* What a READY job hands out: a release of the catalog, or the package of a contract.
Refs == ReleaseIds \cup Contract

NoRef == [status |-> "NONE"]

NoVariant == [status |-> "ABSENT", ref |-> NoRef]

\* A zip file: whose content it has, complete or not, and the threads that still write it.
NoArchive == [of |-> {}, writers |-> {}]

\* packageName: the operator's name and the digest of the contract.
PackageName(c) == <<c.op, c.rev>>

PackageNames == {PackageName(c) : c \in Contract}

Places == {"idle", "scan", "copy", "save", "upsert", "create_job", "mark_running", "resolve",
           "saving", "package", "unlink", "open", "write",
           "mark_ready", "mark_failed"}

NoReq == [kind |-> "none"]

\* create_virtual_contract
Selection(op, rev) == [kind |-> "create", op |-> op, rev |-> rev]

\* compile_backend and publish_backend, once the latest contract has been read
Order(kind, v) == [kind |-> kind, variant |-> v, job |-> 0, ref |-> NoRef]

TypeOK ==
    /\ Store!StoreTypeOK
    /\ Catalog!CatalogTypeOK
    /\ contracts \in [Operators -> Seq(Selected)]
    /\ variants \in [Variant -> {NoVariant} \cup
            [status: {"COMPILED", "PUBLISHED", "FAILED"}, ref: Refs \cup {NoRef}]]
    /\ jobs \in Seq([variant: Variant, status: {"PENDING", "RUNNING", "READY", "FAILED"},
                     ref: Refs \cup {NoRef}])
    /\ archives \in [PackageNames -> [of: SUBSET Contract, writers: SUBSET Callers]]
    /\ ppc \in [Callers -> Places]
    /\ \A t \in Callers : ppc[t] \in {"mark_ready", "mark_failed"} => req[t].job \in DOMAIN jobs

Init ==
    /\ Runtime!Init
    /\ Store!StoreInit(Range(Saved))
    /\ Catalog!CatalogInit
    /\ contracts = [o \in Operators |-> Saved]
    /\ variants = [v \in Variant |-> NoVariant]
    /\ jobs = <<>>
    /\ archives = [n \in PackageNames |-> NoArchive]
    /\ ppc = [t \in Callers |-> "idle"]
    /\ req = [t \in Callers |-> NoReq]
    /\ calls = 0
    /\ orphaned = {}

Goto(t, place) == ppc' = [ppc EXCEPT ![t] = place]

Accept(t) ==
    /\ ppc[t] = "idle"
    /\ calls < MaxCalls
    /\ calls' = calls + 1

End(t) ==
    /\ ppc' = [ppc EXCEPT ![t] = "idle"]
    /\ req' = [req EXCEPT ![t] = NoReq]

-----------------------------------------------------------------------------
(* create_virtual_contract *)

EditWorkspace ==
    /\ \E f \in Store!Files : Store!Edit(f)
    /\ UNCHANGED <<ready, catalogVars, tableVars, archives, ppc, req, calls, orphaned>>

\* The selection names the revision that analyze has just shown to the client.
CreateVirtualContract(t, op) ==
    /\ Accept(t)
    /\ workspace \in Selected
    /\ req' = [req EXCEPT ![t] = Selection(op, workspace)]
    /\ Goto(t, "scan")
    /\ UNCHANGED <<ready, storeVars, catalogVars, tableVars, archives, orphaned>>

\* scan_project, SOURCE_CHANGED, compile_virtual_contract; then put_workspace looks for the revision.
ScanWorkspace(t) ==
    /\ ppc[t] = "scan"
    /\ IF workspace # req[t].rev \/ Store!Corrupt(req[t].rev)
       THEN End(t)
       ELSE /\ Goto(t, IF Store!Stored(req[t].rev) THEN "save" ELSE "copy")
            /\ UNCHANGED req
    /\ UNCHANGED <<ready, storeVars, catalogVars, tableVars, archives, calls, orphaned>>

CopyWorkspace(t) ==
    /\ ppc[t] = "copy"
    /\ Store!CopyFile(t)
    /\ UNCHANGED <<ready, catalogVars, tableVars, archives, ppc, req, calls, orphaned>>

PutWorkspace(t) ==
    /\ ppc[t] = "copy"
    /\ Store!Rename(t, req[t].rev)
    /\ Goto(t, "save")
    /\ UNCHANGED <<ready, catalogVars, tableVars, archives, req, calls, orphaned>>

PutWorkspaceRaises(t) ==
    /\ ppc[t] = "copy"
    /\ \/ "snapshot" \in PublishFaults
       \/ Len(copying[t]) = Len(FileOrder) /\ ~Store!CopyMatches(t, req[t].rev)
    /\ Store!GiveUpCopy(t)
    /\ End(t)
    /\ UNCHANGED <<ready, catalogVars, tableVars, archives, calls, orphaned>>

\* resolve and scan the snapshot, compile, then save_virtual_contract: the operator row is locked,
\* an equal contract is found again, any other gets the next version.
SaveVirtualContract(t) ==
    LET old == contracts[req[t].op] IN
    /\ ppc[t] = "save"
    /\ contracts' = [contracts EXCEPT ![req[t].op] =
            IF Contains(old, req[t].rev) THEN old ELSE Append(old, req[t].rev)]
    /\ End(t)
    /\ UNCHANGED <<ready, storeVars, catalogVars, variants, jobs, archives, calls, orphaned>>

-----------------------------------------------------------------------------
(* compile_backend, publish_backend *)

\* Threads that will still create a job.
Ordering == {t \in Callers : req[t].kind = "publish" /\ req[t].job = 0}

\* _load_current_parent: the latest version, compiled from its snapshot.
LoadCurrentParent(t, op, backend, kind) ==
    /\ Accept(t)
    /\ kind = "publish" => Len(jobs) + Cardinality(Ordering) < MaxJobs
    /\ contracts[op] # <<>>
    /\ LET c == [op |-> op, rev |-> Last(contracts[op])] IN
       /\ Store!Stored(c.rev)
       /\ req' = [req EXCEPT ![t] = Order(kind, [contract |-> c, backend |-> backend])]
    /\ Goto(t, "upsert")
    /\ UNCHANGED <<ready, storeVars, catalogVars, tableVars, archives, orphaned>>

\* INSERT ... ON CONFLICT DO UPDATE: what is PUBLISHED stays so.
UpsertVariant(t) ==
    LET v == req[t].variant IN
    /\ ppc[t] = "upsert"
    /\ variants' = [variants EXCEPT ![v].status = IF @ = "PUBLISHED" THEN @ ELSE "COMPILED"]
    /\ IF req[t].kind = "publish" THEN Goto(t, "create_job") /\ UNCHANGED req ELSE End(t)
    /\ UNCHANGED <<ready, storeVars, catalogVars, contracts, jobs, archives, calls, orphaned>>

\* Mutant: the id of the job is read before the INSERT.
CreatePublishJobStale(t) ==
    /\ ppc[t] = "create_job"
    /\ jobs' = Append(jobs, [variant |-> req[t].variant, status |-> "PENDING", ref |-> NoRef])
    /\ req' = [req EXCEPT ![t].job = Len(jobs)]
    /\ Goto(t, "mark_running")
    /\ UNCHANGED <<ready, storeVars, catalogVars, contracts, variants, archives, calls, orphaned>>

CreatePublishJob(t) ==
    /\ ppc[t] = "create_job"
    /\ jobs' = Append(jobs, [variant |-> req[t].variant, status |-> "PENDING", ref |-> NoRef])
    /\ req' = [req EXCEPT ![t].job = Len(jobs')]
    /\ Goto(t, "mark_running")
    /\ UNCHANGED <<ready, storeVars, catalogVars, contracts, variants, archives, calls, orphaned>>

MarkJob(t, status) == jobs' = [jobs EXCEPT ![req[t].job].status = status]

MarkJobRunning(t) ==
    /\ ppc[t] = "mark_running"
    /\ MarkJob(t, "RUNNING")
    /\ Goto(t, IF req[t].variant.backend = "runner" THEN "resolve" ELSE "package")
    /\ UNCHANGED <<ready, storeVars, catalogVars, contracts, variants, archives, req, calls, orphaned>>

\* Before the try block: nobody marks the job FAILED.
MarkJobRunningRaises(t) ==
    /\ ppc[t] = "mark_running"
    /\ "running" \in PublishFaults
    /\ MarkJob(t, "RUNNING") \/ UNCHANGED jobs
    /\ End(t)
    /\ orphaned' = orphaned \cup {req[t].job}
    /\ UNCHANGED <<ready, storeVars, catalogVars, contracts, variants, archives, calls>>

-----------------------------------------------------------------------------
(* _publish_runner *)

Lock(t) == SpecOf[req[t].variant.contract.rev]

\* Mutant: only the errors of the publish service are caught.
ResolveRuntimeUncaught(t) ==
    /\ ppc[t] = "resolve"
    /\ End(t)
    /\ UNCHANGED <<ready, storeVars, catalogVars, tableVars, archives, calls, orphaned>>

\* urlopen gives up after build_timeout_seconds, or gets an HTTPError or a URLError; the build
\* service may go on with the request.
ResolveRuntimeRaises(t) ==
    /\ ppc[t] = "resolve"
    /\ Goto(t, "mark_failed")
    /\ UNCHANGED <<ready, storeVars, catalogVars, tableVars, archives, req, calls, orphaned>>

\* build_client.resolve is answered READY with an image, maybe for the first time.  The staging
\* directory is packed and given to the catalog.
PublishRunner(t, bits) ==
    LET id == [contract |-> req[t].variant.contract, image |-> ready'[Lock(t)]] IN
    /\ ppc[t] = "resolve"
    /\ Runtime!Settle({Lock(t)}) \/ (ready[Lock(t)] # NoImage /\ UNCHANGED ready)
    /\ Catalog!Publish(t, id, bits)
    /\ req' = [req EXCEPT ![t].ref = id]
    /\ Goto(t, "saving")
    /\ UNCHANGED <<storeVars, tableVars, archives, calls, orphaned>>

\* RUNTIME_NOT_READY
RuntimeNotReady(t) ==
    /\ ppc[t] = "resolve"
    /\ ready[Lock(t)] = NoImage
    /\ Goto(t, "mark_failed")
    /\ UNCHANGED <<ready, storeVars, catalogVars, tableVars, archives, req, calls, orphaned>>

SaveRelease(t) ==
    /\ ppc[t] = "saving"
    /\ Catalog!SaveStep(t) \/ ("disk" \in PublishFaults /\ Catalog!SaveRaises(t))
    /\ UNCHANGED <<ready, storeVars, tableVars, archives, ppc, req, calls, orphaned>>

SaveReturns(t) ==
    /\ ppc[t] = "saving"
    /\ Catalog!SaveEnds(t)
    /\ Goto(t, IF saving[t] = "saved" THEN "mark_ready" ELSE "mark_failed")
    /\ UNCHANGED <<ready, storeVars, tableVars, archives, req, calls, orphaned>>

-----------------------------------------------------------------------------
(* _publish_native: write_native_package *)

Package(t) == PackageName(req[t].variant.contract)

\* if final_zip.exists()
PackageExists(t) ==
    /\ ppc[t] = "package"
    /\ Goto(t, IF archives[Package(t)] = NoArchive THEN "open" ELSE "unlink")
    /\ UNCHANGED <<ready, storeVars, catalogVars, tableVars, archives, req, calls, orphaned>>

\* final_zip.unlink(): FileNotFoundError when another thread was faster.
UnlinkPackage(t) ==
    /\ ppc[t] = "unlink"
    /\ archives' = [archives EXCEPT ![Package(t)] = NoArchive]
    /\ Goto(t, IF archives[Package(t)] = NoArchive THEN "mark_failed" ELSE "open")
    /\ UNCHANGED <<ready, storeVars, catalogVars, tableVars, req, calls, orphaned>>

\* ZipFile(final_zip, "w") creates the file, or truncates the one another thread writes.
OpenPackage(t) ==
    LET c == req[t].variant.contract
        old == archives[Package(t)]
    IN
    /\ ppc[t] = "open"
    /\ archives' = [archives EXCEPT ![Package(t)] =
            [of |-> IF old.writers = {} THEN {c} ELSE old.of \cup {c},
             writers |-> old.writers \cup {t}]]
    /\ Goto(t, "write")
    /\ UNCHANGED <<ready, storeVars, catalogVars, tableVars, req, calls, orphaned>>

\* The archive is closed; if it was unlinked in the meantime, nobody sees what was written.
WritePackage(t) ==
    /\ ppc[t] = "write"
    /\ archives' = [archives EXCEPT ![Package(t)].writers = @ \ {t}]
    /\ req' = [req EXCEPT ![t].ref = req[t].variant.contract]
    /\ Goto(t, "mark_ready")
    /\ UNCHANGED <<ready, storeVars, catalogVars, tableVars, calls, orphaned>>

\* What becomes of the archives when the threads T stop writing: a file that is cut off stays.
Torn(T) == [n \in PackageNames |-> [archives[n] EXCEPT !.writers = @ \ T]]

WritePackageRaises(t) ==
    /\ ppc[t] = "write"
    /\ "disk" \in PublishFaults
    /\ archives' = Torn({t})
    /\ Goto(t, "mark_failed")
    /\ UNCHANGED <<ready, storeVars, catalogVars, tableVars, req, calls, orphaned>>

-----------------------------------------------------------------------------
(* The end of a job *)

\* mark_job_ready: the job and its variant, in one transaction.
JobReady(t) ==
    /\ jobs' = [jobs EXCEPT ![req[t].job].status = "READY", ![req[t].job].ref = req[t].ref]
    /\ variants' = [variants EXCEPT ![req[t].variant] = [status |-> "PUBLISHED", ref |-> req[t].ref]]

MarkJobReady(t) ==
    /\ ppc[t] = "mark_ready"
    /\ JobReady(t)
    /\ End(t)
    /\ UNCHANGED <<ready, storeVars, catalogVars, contracts, archives, calls, orphaned>>

\* The database raises, before or after the COMMIT.
MarkJobReadyRaises(t) ==
    /\ ppc[t] = "mark_ready"
    /\ "ready" \in PublishFaults
    /\ JobReady(t) \/ UNCHANGED <<jobs, variants>>
    /\ Goto(t, "mark_failed")
    /\ UNCHANGED <<ready, storeVars, catalogVars, contracts, archives, req, calls, orphaned>>

\* Mutant: mark_job_failed does not spare a variant that is PUBLISHED.
FailedVariantAlways(row) == [row EXCEPT !.status = "FAILED"]

\* CASE WHEN status = 'PUBLISHED' THEN 'PUBLISHED' ELSE 'FAILED' END
FailedVariant(row) == [row EXCEPT !.status = IF @ = "PUBLISHED" THEN @ ELSE "FAILED"]

MarkJobFailed(t) ==
    /\ ppc[t] = "mark_failed"
    /\ MarkJob(t, "FAILED")
    /\ variants' = [variants EXCEPT ![req[t].variant] = FailedVariant(@)]
    /\ End(t)
    /\ UNCHANGED <<ready, storeVars, catalogVars, contracts, archives, calls, orphaned>>

\* The except clause raises itself.
MarkJobFailedRaises(t) ==
    /\ ppc[t] = "mark_failed"
    /\ "failed" \in PublishFaults
    /\ End(t)
    /\ orphaned' = orphaned \cup {req[t].job}
    /\ UNCHANGED <<ready, storeVars, catalogVars, tableVars, archives, calls>>

\* t works at job i.
Serves(t, i) == req[t].kind = "publish" /\ req[t].job = i

\* The process dies.  Files and rows stay as they are and nothing at the next start looks at them.
Crash ==
    /\ "crash" \in PublishFaults
    /\ ppc' = [t \in Callers |-> "idle"]
    /\ req' = [t \in Callers |-> NoReq]
    /\ copying' = [t \in Callers |-> <<>>]
    /\ Catalog!CatalogCrash
    /\ archives' = Torn(Callers)
    /\ orphaned' = orphaned \cup {i \in DOMAIN jobs : \E t \in Callers : Serves(t, i)}
    /\ UNCHANGED <<ready, workspace, sources, tableVars, calls>>

-----------------------------------------------------------------------------
\* The steps of create_virtual_contract, and of the others up to the start of a job.
Prepare(t) ==
    \/ ScanWorkspace(t) \/ CopyWorkspace(t) \/ PutWorkspace(t) \/ PutWorkspaceRaises(t)
    \/ SaveVirtualContract(t)
    \/ UpsertVariant(t) \/ CreatePublishJob(t) \/ MarkJobRunning(t) \/ MarkJobRunningRaises(t)

\* The steps of a job that is RUNNING, but for the answers of the build service.
Work(t) ==
    \/ ResolveRuntimeRaises(t) \/ SaveRelease(t) \/ SaveReturns(t)
    \/ PackageExists(t) \/ UnlinkPackage(t) \/ OpenPackage(t)
    \/ WritePackage(t) \/ WritePackageRaises(t)
    \/ MarkJobReady(t) \/ MarkJobReadyRaises(t) \/ MarkJobFailed(t) \/ MarkJobFailedRaises(t)

Next ==
    \/ EditWorkspace
    \/ \E t \in Callers, op \in Operators : CreateVirtualContract(t, op)
    \/ \E t \in Callers, op \in Operators, backend \in Backends, kind \in {"compile", "publish"} :
            LoadCurrentParent(t, op, backend, kind)
    \/ \E t \in Callers : Prepare(t) \/ Work(t)
    \/ \E t \in Callers : RuntimeNotReady(t) \/ \E bits \in Bits : PublishRunner(t, bits)
    \/ Crash

Spec == Init /\ [][Next]_vars

\* Request threads are scheduled.  The build service need not answer: urlopen times out.
FairSpec == Spec /\ \A t \in Callers : WF_vars(Work(t))

-----------------------------------------------------------------------------
(* Properties *)

\* put_workspace and save_virtual_contract: whatever the owner edits while his workspace is
\* scanned and copied, and whoever else saves at the time, a saved contract has a snapshot that
\* holds exactly the revision it names, and no contract of an operator has two versions.
ContractsSourced ==
    /\ \A op \in Operators : \A i \in DOMAIN contracts[op] : sources[contracts[op][i]] = contracts[op][i]
    /\ \A op \in Operators : IsInjective(contracts[op])

\* Catalog.save: a release.json that the Runner can see belongs to the complete archive beside
\* it, however publishers of one release race, fail or die.
CatalogWhole ==
    \A r \in ReleaseIds : releases[r].metadata # NoFile => releases[r].artifact = releases[r].metadata

\* What ref says about the contract of a variant: a release that can be read, made from this
\* contract, with an image that has every package its requirements ask for; or a package that
\* has no other contract's content.
Stands(v, ref) ==
    IF v.backend = "runner"
    THEN /\ ref \in ReleaseIds
         /\ ref.contract = v.contract
         /\ Catalog!Readable(ref)
         /\ PackagesOf[SpecOf[v.contract.rev]] \subseteq ref.image.pkgs
    ELSE ref = v.contract /\ archives[PackageName(ref)].of \subseteq {ref}

\* publish_backend: a PUBLISHED variant and a READY job name an artifact that stands, and a job
\* that was answered READY is never undone by a later publish of the same variant that fails.
PublishedStands ==
    /\ \A v \in Variant : variants[v].status = "PUBLISHED" => Stands(v, variants[v].ref)
    /\ \A i \in DOMAIN jobs : jobs[i].status = "READY" =>
            /\ variants[jobs[i].variant].status = "PUBLISHED"
            /\ Stands(jobs[i].variant, jobs[i].ref)

JobStatus(i) == IF i \in DOMAIN jobs THEN jobs[i].status ELSE "ABSENT"

\* publish_backend: whatever the build service, the catalog or the disk does, or whether the
\* build service answers at all, a job that is RUNNING becomes READY or FAILED.  Only a process
\* that dies, or a database that does not answer, leaves one behind.
JobsSettle ==
    \A i \in 1..MaxJobs :
        JobStatus(i) = "RUNNING" ~> (i \in orphaned \/ JobStatus(i) \in {"READY", "FAILED"})
=============================================================================
