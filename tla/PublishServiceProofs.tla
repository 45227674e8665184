------------------------ MODULE PublishServiceProofs ------------------------
(***************************************************************************)
(* Machine-checked theorems about PublishService with its source store,    *)
(* its release catalog and the promise of the build service, for any       *)
(* number of operators, files, edits, request threads and jobs.            *)
(***************************************************************************)
EXTENDS PublishService, SequenceTheorems, TLAPS

-----------------------------------------------------------------------------
(* The inductive invariant *)

Creates == [kind: {"create"}, op: Operators, rev: Selected]

Orders == [kind: {"compile", "publish"}, variant: Variant, job: Nat, ref: Refs \cup {NoRef}]

VariantRow == [status: {"ABSENT", "COMPILED", "PUBLISHED", "FAILED"}, ref: Refs \cup {NoRef}]

JobRow == [variant: Variant, status: {"PENDING", "RUNNING", "READY", "FAILED"},
           ref: Refs \cup {NoRef}]

ArchiveRow == [of: SUBSET Contract, writers: SUBSET Callers]

\* The tables.
Tables ==
    /\ contracts \in [Operators -> Seq(Selected)]
    /\ variants \in [Variant -> {NoVariant} \cup
            [status: {"COMPILED", "PUBLISHED", "FAILED"}, ref: Refs \cup {NoRef}]]
    /\ jobs \in Seq(JobRow)
    /\ archives \in [PackageNames -> ArchiveRow]

Threads ==
    /\ ppc \in [Callers -> Places]
    /\ req \in [Callers -> Creates \cup Orders \cup {NoReq}]

\* The places of a thread by what it is doing.
Creating  == {"scan", "copy", "save"}
Packaging == {"package", "unlink", "open", "write"}
Working   == {"mark_running", "resolve", "saving", "mark_ready", "mark_failed"} \cup Packaging

\* The image that a release is made for has the packages of its contract.
Suits(v, ref) ==
    /\ ref \in ReleaseIds
    /\ ref.contract = v.contract
    /\ PackagesOf[SpecOf[v.contract.rev]] \subseteq ref.image.pkgs

\* What a thread knows where it is.
Locals(t) ==
    /\ ppc[t] \in Creating => req[t] \in Creates
    /\ ppc[t] \in {"upsert", "create_job"} \cup Working => req[t] \in Orders
    /\ ppc[t] \in Working => /\ req[t].job \in DOMAIN jobs
                             /\ jobs[req[t].job].variant = req[t].variant
    /\ ppc[t] \in {"resolve", "saving"} => req[t].variant.backend = "runner"
    /\ ppc[t] \in Packaging => req[t].variant.backend # "runner"
    /\ ppc[t] = "saving" => /\ Suits(req[t].variant, req[t].ref)
                            /\ saving[t] # "idle" /\ packed[t].id = req[t].ref
    /\ ppc[t] # "saving" => saving[t] = "idle"
    /\ ppc[t] = "save" => sources[req[t].rev] = req[t].rev
    /\ ppc[t] = "mark_ready" => Stands(req[t].variant, req[t].ref)

\* The store holds under each revision what the revision names.
Sourced == \A r \in Store!Revisions : sources[r] \in {r, NoDir}

\* RuntimeAnswers keeps its promise.
Promised ==
    /\ ready \in [Specs -> Runtime!Image \cup {NoImage}]
    /\ \A s \in Specs : ready[s] # NoImage => ready[s] \in Runtime!Serving(s)

\* Whoever writes into the directory of a release has made it.
Writing(t) == saving[t] \in {"artifact", "metadata"}

Shelved(t) ==
    LET r == releases[packed[t].id] IN
    /\ saving[t] # "idle" => packed[t] \in [id: ReleaseIds, bits: Bits]
    /\ saving[t] = "artifact" => r.dir /\ r.artifact = NoFile /\ r.metadata = NoFile
    /\ saving[t] = "metadata" => r.dir /\ r.artifact = packed[t].bits /\ r.metadata = NoFile
    /\ saving[t] = "saved" => Catalog!Readable(packed[t].id)

Shelf ==
    /\ \A r \in ReleaseIds : ~releases[r].dir => releases[r].artifact = NoFile
                                                 /\ releases[r].metadata = NoFile
    /\ \A t \in Callers : Shelved(t)
    /\ \A t, u \in Callers : Writing(t) /\ Writing(u) /\ packed[t].id = packed[u].id => t = u

\* A package is made from one contract.
OwnPackages == \A c \in Contract : archives[PackageName(c)].of \subseteq {c}

Typed == Store!StoreTypeOK /\ Catalog!CatalogTypeOK /\ Tables /\ Threads

Inv ==
    /\ Typed
    /\ \A t \in Callers : Locals(t)
    /\ Sourced /\ ContractsSourced
    /\ Promised
    /\ Shelf /\ CatalogWhole
    /\ OwnPackages /\ PublishedStands

-----------------------------------------------------------------------------
(* What every step leaves alone *)

\* A step of a thread moves that thread only.
Moves(t) ==
    /\ ppc' = [ppc EXCEPT ![t] = ppc'[t]]
    /\ req' = [req EXCEPT ![t] = req'[t]]
    /\ \A u \in Callers \ {t} : saving'[u] = saving[u] /\ packed'[u] = packed[u]

\* Jobs, snapshots and releases are never taken back.
Grows ==
    /\ DOMAIN jobs \subseteq DOMAIN jobs'
    /\ \A i \in DOMAIN jobs : jobs'[i].variant = jobs[i].variant
    /\ \A r \in Store!Revisions : sources[r] = r => sources'[r] = r
    /\ \A r \in ReleaseIds : Catalog!Readable(r) => Catalog!Readable(r)'
    /\ OwnPackages'

\* Selections name revisions of the workspace.
LEMMA SelectedRevisions == Selected \subseteq Store!Revisions
BY PublishAssumption DEF Store!Revisions, Store!Files, Store!Contents, Store!Range, Range

\* The fields of a variant.
LEMMA VariantFields ==
    ASSUME NEW v \in Variant
    PROVE  /\ v.contract \in Contract /\ v.contract.rev \in Selected /\ v.contract.op \in Operators
           /\ v.backend \in Backends
BY DEF Variant, Contract

\* An artifact that stands goes on standing.
LEMMA StandsKept ==
    ASSUME Grows, NEW v \in Variant, NEW ref, Stands(v, ref)
    PROVE  Stands(v, ref)'
<1>1. v.contract \in Contract
  BY VariantFields
<1>2. CASE v.backend = "runner"
  BY <1>2 DEF Stands, Grows
<1>3. CASE v.backend # "runner"
  BY <1>1, <1>3 DEF Stands, Grows, OwnPackages
<1> QED
  BY <1>2, <1>3

\* A thread that does not move knows what it knew.
LEMMA OthersKeep ==
    ASSUME Inv, NEW t \in Callers, Moves(t), Grows, NEW u \in Callers, u # t
    PROVE  Locals(u)'
<1>1. ppc'[u] = ppc[u] /\ req'[u] = req[u] /\ saving'[u] = saving[u] /\ packed'[u] = packed[u]
  BY DEF Moves, Inv, Typed, Threads
<1>2. Locals(u)
  BY DEF Inv
<1>3. ppc[u] \in Working => /\ req[u].job \in DOMAIN jobs'
                            /\ jobs'[req[u].job].variant = req[u].variant
  BY <1>2 DEF Locals, Grows
<1>4. ppc[u] = "save" => sources'[req[u].rev] = req[u].rev
  <2> SUFFICES ASSUME ppc[u] = "save" PROVE sources'[req[u].rev] = req[u].rev
    OBVIOUS
  <2>1. PICK r \in Store!Revisions : r = req[u].rev
    BY <1>2, SelectedRevisions DEF Locals, Creating, Creates
  <2>2. sources[r] = r
    BY <1>2, <2>1 DEF Locals
  <2> QED
    BY <2>1, <2>2 DEF Grows
<1>5. ppc[u] = "mark_ready" => Stands(req[u].variant, req[u].ref)'
  <2> SUFFICES ASSUME ppc[u] = "mark_ready" PROVE Stands(req[u].variant, req[u].ref)'
    OBVIOUS
  <2>1. req[u] \in Orders
    BY <1>2 DEF Locals, Working
  <2>2. PICK v \in Variant, ref \in Refs \cup {NoRef} : v = req[u].variant /\ ref = req[u].ref
    BY <2>1 DEF Orders
  <2>3. Stands(v, ref)
    BY <1>2, <2>2 DEF Locals
  <2>4. Stands(v, ref)'
    BY <2>2, <2>3, StandsKept
  <2> QED
    BY <1>1, <2>2, <2>4
<1> QED
  BY <1>1, <1>2, <1>3, <1>4, <1>5 DEF Locals, Suits

\* A step of a thread keeps what all threads know, if it keeps what this one knows.
LEMMA MovesKeep ==
    ASSUME Inv, NEW t \in Callers, Moves(t), Grows, Locals(t)', ppc'[t] \in Places,
           req'[t] \in Creates \cup Orders \cup {NoReq}
    PROVE  Threads' /\ \A u \in Callers : Locals(u)'
<1>1. Threads'
  BY DEF Moves, Inv, Typed, Threads
<1>2. \A u \in Callers : Locals(u)'
  BY OthersKeep
<1> QED
  BY <1>1, <1>2

\* PUBLISHED and READY rows stand while nobody adds one.
LEMMA PublishedKept ==
    ASSUME Inv, Grows, Tables',
           \A v \in Variant : variants'[v].status = "PUBLISHED" => variants'[v] = variants[v],
           \A v \in Variant : variants[v].status = "PUBLISHED" => variants'[v].status = "PUBLISHED",
           \A i \in DOMAIN jobs' : jobs'[i].status = "READY" =>
               i \in DOMAIN jobs /\ jobs'[i] = jobs[i]
    PROVE  PublishedStands'
<1>1. ASSUME NEW v \in Variant, variants'[v].status = "PUBLISHED"
      PROVE  Stands(v, variants[v].ref)'
  <2>1. PICK ref \in Refs \cup {NoRef} : ref = variants[v].ref
    BY DEF Inv, Typed, Tables, NoVariant
  <2>2. Stands(v, ref)
    BY <1>1, <2>1 DEF Inv, PublishedStands
  <2>3. Stands(v, ref)'
    BY <2>2, StandsKept
  <2> QED
    BY <1>1, <2>1, <2>3
<1>2. ASSUME NEW i \in DOMAIN jobs', jobs'[i].status = "READY"
      PROVE  /\ variants'[jobs'[i].variant].status = "PUBLISHED"
             /\ Stands(jobs[i].variant, jobs[i].ref)'
  <2>1. i \in DOMAIN jobs /\ jobs'[i] = jobs[i]
    BY <1>2
  <2>2. jobs[i] \in JobRow
    BY <2>1 DEF Inv, Typed, Tables
  <2>3. PICK v \in Variant, ref \in Refs \cup {NoRef} : v = jobs[i].variant /\ ref = jobs[i].ref
    BY <2>2 DEF JobRow
  <2>4. variants[v].status = "PUBLISHED" /\ Stands(v, ref)
    BY <1>2, <2>1, <2>3 DEF Inv, PublishedStands
  <2>5. Stands(v, ref)'
    BY <2>4, StandsKept
  <2> QED
    BY <2>1, <2>3, <2>4, <2>5
<1> QED
  BY <1>1, <1>2 DEF PublishedStands

\* The catalog as it was.
LEMMA CatalogKept ==
    ASSUME Inv, UNCHANGED catalogVars
    PROVE  /\ Catalog!CatalogTypeOK' /\ Shelf' /\ CatalogWhole'
           /\ \A r \in ReleaseIds : Catalog!Readable(r) => Catalog!Readable(r)'
BY DEF catalogVars, Inv, Typed, Catalog!CatalogTypeOK, Shelf, Shelved, Writing, CatalogWhole,
       Catalog!Readable

\* The contracts and the snapshots as they were.
LEMMA SourcesKept ==
    ASSUME Inv, UNCHANGED <<sources, contracts>>
    PROVE  Sourced' /\ ContractsSourced'
BY DEF Inv, Sourced, ContractsSourced

\* A step that changes no row, no file of the catalog and no snapshot.
LEMMA QuietInv ==
    ASSUME Inv, NEW t \in Callers, Moves(t), Locals(t)', ppc'[t] \in Places,
           req'[t] \in Creates \cup Orders \cup {NoReq}, Store!StoreTypeOK',
           UNCHANGED <<ready, sources, catalogVars, tableVars, archives>>
    PROVE  Inv'
<1>1. UNCHANGED <<ready, sources, contracts, variants, jobs, archives>> /\ UNCHANGED catalogVars
  BY DEF tableVars
<1>2. /\ Catalog!CatalogTypeOK' /\ Shelf' /\ CatalogWhole'
      /\ \A r \in ReleaseIds : Catalog!Readable(r) => Catalog!Readable(r)'
  BY <1>1, CatalogKept
<1>3. Tables' /\ Promised' /\ OwnPackages'
  BY <1>1 DEF Inv, Typed, Tables, Promised, OwnPackages
<1>4. Grows
  BY <1>1, <1>2, <1>3 DEF Grows
<1>5. Threads' /\ \A u \in Callers : Locals(u)'
  BY <1>4, MovesKeep
<1>6. PublishedStands'
  BY <1>1, <1>3, <1>4, PublishedKept
<1> QED
  BY <1>1, <1>2, <1>3, <1>5, <1>6, SourcesKept DEF Inv, Typed

\* A step that moves no thread, in the workspace or in a copy of it.
LEMMA StillInv ==
    ASSUME Inv, Store!StoreTypeOK',
           UNCHANGED <<ready, sources, catalogVars, tableVars, archives, ppc, req>>
    PROVE  Inv'
<1>1. UNCHANGED <<ready, sources, contracts, variants, jobs, archives>> /\ UNCHANGED catalogVars
  BY DEF tableVars
<1>2. /\ Catalog!CatalogTypeOK' /\ Shelf' /\ CatalogWhole'
      /\ \A r \in ReleaseIds : Catalog!Readable(r) => Catalog!Readable(r)'
  BY <1>1, CatalogKept
<1>3. Tables' /\ Threads' /\ Promised' /\ OwnPackages'
  BY <1>1 DEF Inv, Typed, Tables, Threads, Promised, OwnPackages
<1>4. Grows
  BY <1>1, <1>2, <1>3 DEF Grows
<1>5. ASSUME NEW u \in Callers PROVE Locals(u)'
  <2>1. UNCHANGED <<ppc, req, saving, packed, releases, archives, jobs, sources>>
    BY <1>1 DEF catalogVars
  <2> QED
    BY <2>1 DEF Inv, Locals, Suits, Stands, Catalog!Readable
<1>6. PublishedStands'
  BY <1>1, <1>3, <1>4, PublishedKept
<1> QED
  BY <1>1, <1>2, <1>3, <1>5, <1>6, SourcesKept DEF Inv, Typed

\* A request ends.
LEMMA EndMoves ==
    ASSUME Inv, NEW t \in Callers, End(t), UNCHANGED catalogVars, ppc[t] # "saving"
    PROVE  Moves(t) /\ Locals(t)' /\ ppc'[t] \in Places /\ req'[t] = NoReq
<1>1. ppc'[t] = "idle" /\ req'[t] = NoReq /\ Moves(t)
  BY DEF End, Moves, catalogVars, Inv, Typed, Threads
<1>2. saving'[t] = "idle"
  BY DEF Inv, Locals, catalogVars
<1>3. Locals(t)'
  BY <1>1, <1>2 DEF Locals, Creating, Working, Packaging
<1> QED
  BY <1>1, <1>3 DEF Places

\* A request goes on.
LEMMA GotoMoves ==
    ASSUME Inv, NEW t \in Callers, NEW place \in Places, Goto(t, place), req' = req,
           UNCHANGED catalogVars
    PROVE  /\ Moves(t) /\ ppc'[t] = place /\ req'[t] = req[t]
           /\ req'[t] \in Creates \cup Orders \cup {NoReq}
           /\ saving'[t] = saving[t] /\ packed'[t] = packed[t]
BY DEF Goto, Moves, catalogVars, Inv, Typed, Threads

\* create_virtual_contract, up to the snapshot, and the owner's edits.
LEMMA CreatingInv ==
    ASSUME Inv,
           \/ EditWorkspace
           \/ \E t \in Callers : \/ ScanWorkspace(t) \/ CopyWorkspace(t) \/ PutWorkspaceRaises(t)
                                 \/ \E op \in Operators : CreateVirtualContract(t, op)
    PROVE  Inv'
<1>1. CASE EditWorkspace
  <2>1. PICK f \in Store!Files : Store!Edit(f)
    BY <1>1 DEF EditWorkspace
  <2>2. workspace \in Store!Revisions
    BY DEF Inv, Typed, Store!StoreTypeOK
  <2>3. workspace[f] + 1 \in Store!Contents
    BY <2>1, <2>2, PublishAssumption DEF Store!Edit, Store!Revisions, Store!Contents
  <2>4. workspace' \in Store!Revisions
    BY <2>1, <2>2, <2>3 DEF Store!Edit, Store!Revisions
  <2>5. Store!StoreTypeOK' /\ sources' = sources
    BY <2>1, <2>4 DEF Store!Edit, Inv, Typed, Store!StoreTypeOK
  <2> QED
    BY <1>1, <2>5, StillInv DEF EditWorkspace
<1>2. ASSUME NEW t \in Callers, CopyWorkspace(t) PROVE Inv'
  <2>1. Store!CopyFile(t)
    BY <1>2 DEF CopyWorkspace
  <2>2. copying[t] \in Seq(Store!Contents) /\ Len(copying[t]) < Len(FileOrder)
    BY <2>1 DEF Store!CopyFile, Inv, Typed, Store!StoreTypeOK
  <2>3. FileOrder[Len(copying[t]) + 1] \in Store!Files
    <3>1. Len(copying[t]) + 1 \in 1..Len(FileOrder)
      BY <2>2, PublishAssumption
    <3> QED
      BY <3>1, PublishAssumption DEF Store!Files, Store!Range, Range
  <2>4. workspace[FileOrder[Len(copying[t]) + 1]] \in Store!Contents
    BY <2>3 DEF Inv, Typed, Store!StoreTypeOK, Store!Revisions
  <2>5. Append(copying[t], workspace[FileOrder[Len(copying[t]) + 1]]) \in Seq(Store!Contents)
    BY <2>2, <2>4, AppendProperties
  <2>6. Store!StoreTypeOK' /\ sources' = sources
    BY <2>1, <2>5 DEF Store!CopyFile, Inv, Typed, Store!StoreTypeOK
  <2> QED
    BY <1>2, <2>6, StillInv DEF CopyWorkspace
<1>3. ASSUME NEW t \in Callers, PutWorkspaceRaises(t) PROVE Inv'
  <2>1. /\ End(t) /\ ppc[t] # "saving" /\ Store!GiveUpCopy(t)
        /\ UNCHANGED <<ready, catalogVars, tableVars, archives>>
    BY <1>3 DEF PutWorkspaceRaises
  <2>2. <<>> \in Seq(Store!Contents)
    OBVIOUS
  <2>3. Store!StoreTypeOK' /\ sources' = sources
    BY <2>1, <2>2 DEF Store!GiveUpCopy, Store!RemoveCopy, Inv, Typed, Store!StoreTypeOK
  <2>4. Moves(t) /\ Locals(t)' /\ ppc'[t] \in Places /\ req'[t] = NoReq
    BY <2>1, EndMoves
  <2> QED
    BY <2>1, <2>3, <2>4, QuietInv
<1>4. ASSUME NEW t \in Callers, NEW op \in Operators, CreateVirtualContract(t, op) PROVE Inv'
  <2>1. /\ ppc[t] = "idle" /\ workspace \in Selected
        /\ req' = [req EXCEPT ![t] = Selection(op, workspace)] /\ Goto(t, "scan")
        /\ UNCHANGED <<ready, storeVars, catalogVars, tableVars, archives>>
    BY <1>4 DEF CreateVirtualContract, Accept
  <2>2. Selection(op, workspace) \in Creates
    BY <2>1 DEF Selection, Creates
  <2>3. Moves(t) /\ ppc'[t] = "scan" /\ req'[t] = Selection(op, workspace)
    BY <2>1 DEF Moves, Goto, catalogVars, Inv, Typed, Threads
  <2>4. saving'[t] = "idle"
    BY <2>1 DEF Inv, Locals, catalogVars
  <2>5. Locals(t)'
    BY <2>2, <2>3, <2>4 DEF Locals, Creating, Working, Packaging
  <2>6. Store!StoreTypeOK' /\ sources' = sources
    BY <2>1 DEF storeVars, Inv, Typed, Store!StoreTypeOK
  <2> QED
    BY <2>1, <2>2, <2>3, <2>5, <2>6, QuietInv DEF Places
<1>5. ASSUME NEW t \in Callers, ScanWorkspace(t) PROVE Inv'
  <2>1. ppc[t] = "scan" /\ UNCHANGED <<ready, storeVars, catalogVars, tableVars, archives>>
    BY <1>5 DEF ScanWorkspace
  <2>2. Store!StoreTypeOK' /\ sources' = sources
    BY <2>1 DEF storeVars, Inv, Typed, Store!StoreTypeOK
  <2>3. CASE End(t)
    BY <2>1, <2>2, <2>3, EndMoves, QuietInv
  <2>4. ASSUME NEW place \in {"save", "copy"}, Goto(t, place), req' = req,
               place = "save" => sources[req[t].rev] = req[t].rev
        PROVE  Inv'
    <3>1. place \in Places
      BY DEF Places
    <3>2. /\ Moves(t) /\ ppc'[t] = place /\ req'[t] = req[t]
          /\ req'[t] \in Creates \cup Orders \cup {NoReq} /\ saving'[t] = saving[t]
      BY <2>1, <2>4, <3>1, GotoMoves
    <3>3. req[t] \in Creates /\ saving[t] = "idle"
      BY <2>1 DEF Inv, Locals, Creating
    <3>4. Locals(t)'
      BY <2>2, <2>4, <3>2, <3>3 DEF Locals, Creating, Working, Packaging
    <3> QED
      BY <2>1, <2>2, <3>1, <3>2, <3>4, QuietInv
  <2>5. \/ End(t)
        \/ Goto(t, "save") /\ req' = req /\ sources[req[t].rev] = req[t].rev
        \/ Goto(t, "copy") /\ req' = req
    BY <1>5 DEF ScanWorkspace, Store!Stored
  <2> QED
    BY <2>3, <2>4, <2>5
<1> QED
  BY <1>1, <1>2, <1>3, <1>4, <1>5

\* A step that leaves no more than the places and the locals of one thread changed.
LEMMA QuietStep ==
    ASSUME Inv, NEW t \in Callers, Moves(t), Locals(t)', ppc'[t] \in Places,
           req'[t] \in Creates \cup Orders \cup {NoReq},
           UNCHANGED <<ready, storeVars, catalogVars, tableVars, archives>>
    PROVE  Inv'
<1>1. Store!StoreTypeOK' /\ sources' = sources
  BY DEF storeVars, Inv, Typed, Store!StoreTypeOK
<1> QED
  BY <1>1, QuietInv

\* The latest contract of an operator names a selected revision.
LEMMA LatestSelected ==
    ASSUME Inv, NEW op \in Operators, contracts[op] # <<>>
    PROVE  Last(contracts[op]) \in Selected
<1>1. contracts[op] \in Seq(Selected)
  BY DEF Inv, Typed, Tables
<1>2. Len(contracts[op]) \in 1..Len(contracts[op])
  BY <1>1, EmptySeq
<1> QED
  BY <1>1, <1>2, ElementOfSeq DEF Last

\* The steps of compile_backend and publish_backend that only read.
LEMMA ReadingInv ==
    ASSUME Inv,
           \E t \in Callers :
               \/ \E op \in Operators, backend \in Backends, kind \in {"compile", "publish"} :
                      LoadCurrentParent(t, op, backend, kind)
               \/ ResolveRuntimeRaises(t) \/ RuntimeNotReady(t) \/ PackageExists(t)
               \/ MarkJobFailedRaises(t)
    PROVE  Inv'
<1>1. ASSUME NEW t \in Callers, NEW op \in Operators, NEW backend \in Backends,
             NEW kind \in {"compile", "publish"}, LoadCurrentParent(t, op, backend, kind)
      PROVE  Inv'
  <2>1. PICK v : /\ v = [contract |-> [op |-> op, rev |-> Last(contracts[op])], backend |-> backend]
                 /\ req' = [req EXCEPT ![t] = Order(kind, v)]
    BY <1>1 DEF LoadCurrentParent
  <2>2. /\ ppc[t] = "idle" /\ Goto(t, "upsert") /\ contracts[op] # <<>>
        /\ UNCHANGED <<ready, storeVars, catalogVars, tableVars, archives>>
    BY <1>1 DEF LoadCurrentParent, Accept
  <2>3. v \in Variant
    BY <2>1, <2>2, LatestSelected DEF Variant, Contract
  <2>4. Order(kind, v) \in Orders
    BY <2>3 DEF Order, Orders
  <2>5. Moves(t) /\ ppc'[t] = "upsert" /\ req'[t] = Order(kind, v)
    BY <2>1, <2>2 DEF Moves, Goto, catalogVars, Inv, Typed, Threads
  <2>6. saving'[t] = "idle"
    BY <2>2 DEF Inv, Locals, catalogVars
  <2>7. Locals(t)'
    BY <2>4, <2>5, <2>6 DEF Locals, Creating, Working, Packaging
  <2> QED
    BY <2>2, <2>4, <2>5, <2>7, QuietStep DEF Places
<1>2. ASSUME NEW t \in Callers, MarkJobFailedRaises(t) PROVE Inv'
  <2>1. /\ End(t) /\ ppc[t] # "saving"
        /\ UNCHANGED <<ready, storeVars, catalogVars, tableVars, archives>>
    BY <1>2 DEF MarkJobFailedRaises
  <2> QED
    BY <2>1, EndMoves, QuietStep
<1>3. ASSUME NEW t \in Callers, NEW place \in {"mark_failed", "open", "unlink"}, Goto(t, place),
             ppc[t] = "resolve" => place = "mark_failed",
             ppc[t] \in {"resolve", "package"}, req' = req,
             UNCHANGED <<ready, storeVars, catalogVars, tableVars, archives>>
      PROVE  Inv'
  <2>1. place \in Places
    BY DEF Places
  <2>2. /\ Moves(t) /\ ppc'[t] = place /\ req'[t] = req[t]
        /\ req'[t] \in Creates \cup Orders \cup {NoReq} /\ saving'[t] = saving[t]
    BY <1>3, <2>1, GotoMoves
  <2>3. /\ req[t] \in Orders /\ saving[t] = "idle" /\ req[t].job \in DOMAIN jobs
        /\ jobs[req[t].job].variant = req[t].variant
        /\ place # "mark_failed" => req[t].variant.backend # "runner"
    BY <1>3 DEF Inv, Locals, Working, Packaging
  <2>4. Locals(t)'
    BY <1>3, <2>2, <2>3 DEF Locals, Creating, Working, Packaging, tableVars
  <2> QED
    BY <1>3, <2>1, <2>2, <2>4, QuietStep
<1>4. ASSUME NEW t \in Callers, ResolveRuntimeRaises(t) \/ RuntimeNotReady(t) \/ PackageExists(t)
      PROVE  Inv'
  <2>1. /\ req' = req /\ UNCHANGED <<ready, storeVars, catalogVars, tableVars, archives>>
        /\ \/ ppc[t] = "resolve" /\ Goto(t, "mark_failed")
           \/ ppc[t] = "package" /\ (Goto(t, "open") \/ Goto(t, "unlink"))
    BY <1>4 DEF ResolveRuntimeRaises, RuntimeNotReady, PackageExists
  <2> QED
    BY <1>3, <2>1
<1> QED
  BY <1>1, <1>2, <1>4

-----------------------------------------------------------------------------
(* The snapshots and the contracts *)

\* put_workspace: a snapshot is renamed to the revision it was compared with.
LEMMA PutWorkspaceInv ==
    ASSUME Inv, NEW t \in Callers, PutWorkspace(t)
    PROVE  Inv'
<1>1. /\ ppc[t] = "copy" /\ Goto(t, "save") /\ req' = req /\ Store!Rename(t, req[t].rev)
      /\ UNCHANGED <<ready, catalogVars, tableVars, archives>>
  BY DEF PutWorkspace
<1>2. req[t] \in Creates /\ saving[t] = "idle"
  BY <1>1 DEF Inv, Locals, Creating
<1>3. PICK rev \in Store!Revisions : rev = req[t].rev
  BY <1>2, SelectedRevisions DEF Creates
<1>4. sources' = [sources EXCEPT ![rev] = IF @ = NoDir THEN rev ELSE @]
  BY <1>1, <1>3 DEF Store!Rename, Store!CopyMatches
<1>5. sources \in [Store!Revisions -> Store!Revisions \cup {NoDir}]
  BY DEF Inv, Typed, Store!StoreTypeOK
<1>6. sources'[rev] = rev /\ \A r \in Store!Revisions : sources'[r] \in {r, NoDir}
  BY <1>4, <1>5 DEF Inv, Sourced
<1>7. \A r \in Store!Revisions : sources[r] = r => sources'[r] = r
  BY <1>4, <1>5, <1>6
<1>8. Store!StoreTypeOK'
  <2>1. <<>> \in Seq(Store!Contents)
    OBVIOUS
  <2>2. copying' \in [Callers -> Seq(Store!Contents)] /\ workspace' = workspace
    BY <1>1, <2>1 DEF Store!Rename, Store!RemoveCopy, Inv, Typed, Store!StoreTypeOK
  <2>3. sources' \in [Store!Revisions -> Store!Revisions \cup {NoDir}]
    BY <1>3, <1>4, <1>5
  <2> QED
    BY <2>2, <2>3 DEF Inv, Typed, Store!StoreTypeOK
<1>9. UNCHANGED <<ready, contracts, variants, jobs, archives>> /\ UNCHANGED catalogVars
  BY <1>1 DEF tableVars
<1>10. /\ Catalog!CatalogTypeOK' /\ Shelf' /\ CatalogWhole'
       /\ \A r \in ReleaseIds : Catalog!Readable(r) => Catalog!Readable(r)'
  BY <1>9, CatalogKept
<1>11. Tables' /\ Promised' /\ OwnPackages'
  BY <1>9 DEF Inv, Typed, Tables, Promised, OwnPackages
<1>12. Grows
  BY <1>7, <1>9, <1>10, <1>11 DEF Grows
<1>13. "save" \in Places
  BY DEF Places
<1>14. /\ Moves(t) /\ ppc'[t] = "save" /\ req'[t] = req[t]
       /\ req'[t] \in Creates \cup Orders \cup {NoReq} /\ saving'[t] = saving[t]
  BY <1>1, <1>13, GotoMoves
<1>15. Locals(t)'
  BY <1>2, <1>3, <1>6, <1>14 DEF Locals, Creating, Working, Packaging
<1>16. Threads' /\ \A u \in Callers : Locals(u)'
  BY <1>12, <1>13, <1>14, <1>15, MovesKeep
<1>17. PublishedStands'
  BY <1>9, <1>11, <1>12, PublishedKept
<1>18. ContractsSourced'
  <2>1. ASSUME NEW op \in Operators, NEW i \in DOMAIN contracts[op]
        PROVE  sources'[contracts[op][i]] = contracts[op][i]
    <3>1. contracts[op][i] \in Store!Revisions
      BY SelectedRevisions DEF Inv, Typed, Tables
    <3> QED
      BY <1>7, <3>1 DEF Inv, ContractsSourced
  <2> QED
    BY <1>9, <2>1 DEF Inv, ContractsSourced
<1> QED
  BY <1>6, <1>8, <1>10, <1>11, <1>16, <1>17, <1>18 DEF Inv, Typed, Sourced

\* save_virtual_contract: a new version has its snapshot and is no older version again.
LEMMA SaveVirtualContractInv ==
    ASSUME Inv, NEW t \in Callers, SaveVirtualContract(t)
    PROVE  Inv'
<1>1. /\ ppc[t] = "save" /\ End(t)
      /\ UNCHANGED <<ready, storeVars, catalogVars, variants, jobs, archives>>
  BY DEF SaveVirtualContract
<1>2. req[t] \in Creates /\ sources[req[t].rev] = req[t].rev
  BY <1>1 DEF Inv, Locals, Creating
<1>3. PICK op \in Operators, rev \in Selected : op = req[t].op /\ rev = req[t].rev
  BY <1>2 DEF Creates
<1>4. contracts' = [contracts EXCEPT ![op] =
          IF Contains(contracts[op], rev) THEN contracts[op] ELSE Append(contracts[op], rev)]
  BY <1>3 DEF SaveVirtualContract
<1>5. contracts \in [Operators -> Seq(Selected)] /\ contracts[op] \in Seq(Selected)
  BY DEF Inv, Typed, Tables
<1>6. /\ contracts' \in [Operators -> Seq(Selected)]
      /\ \A o \in Operators :
            /\ \A i \in DOMAIN contracts'[o] : sources[contracts'[o][i]] = contracts'[o][i]
            /\ IsInjective(contracts'[o])
  <2>1. CASE Contains(contracts[op], rev)
    <3>1. contracts' = contracts
      BY <1>4, <1>5, <2>1
    <3> QED
      BY <1>5, <3>1 DEF Inv, ContractsSourced
  <2>2. CASE ~Contains(contracts[op], rev)
    <3>1. PICK s \in Seq(Selected) : s = Append(contracts[op], rev)
      BY <1>5, AppendProperties
    <3>2. /\ Len(s) = Len(contracts[op]) + 1
          /\ \A i \in 1..Len(contracts[op]) : s[i] = contracts[op][i]
          /\ s[Len(contracts[op]) + 1] = rev
      BY <1>5, <3>1, AppendProperties
    <3>3. contracts' = [contracts EXCEPT ![op] = s]
      BY <1>4, <2>2, <3>1
    <3>4. /\ \A i \in 1..Len(contracts[op]) : sources[contracts[op][i]] = contracts[op][i]
          /\ \A i, j \in 1..Len(contracts[op]) : contracts[op][i] = contracts[op][j] => i = j
          /\ \A i \in 1..Len(contracts[op]) : contracts[op][i] # rev
      BY <1>5, <2>2 DEF Inv, ContractsSourced, IsInjective, Contains
    <3>5. \A i \in 1..Len(s) : sources[s[i]] = s[i]
      BY <1>2, <1>3, <1>5, <3>2, <3>4
    <3>6. ASSUME NEW i \in 1..Len(s), NEW j \in 1..Len(s), s[i] = s[j]
          PROVE  i = j
      <4>1. PICK n \in Nat : n = Len(contracts[op])
        BY <1>5
      <4>2. i \in 1..(n + 1) /\ j \in 1..(n + 1)
        BY <3>2, <4>1
      <4>3. i \in 1..n /\ j \in 1..n => i = j
        BY <3>2, <3>4, <3>6, <4>1
      <4>4. i = n + 1 /\ j # n + 1 => FALSE
        <5>1. i = n + 1 /\ j # n + 1 => s[i] = rev /\ j \in 1..n
          BY <3>2, <4>1, <4>2
        <5> QED
          BY <3>2, <3>4, <3>6, <4>1, <5>1
      <4>5. j = n + 1 /\ i # n + 1 => FALSE
        <5>1. j = n + 1 /\ i # n + 1 => s[j] = rev /\ i \in 1..n
          BY <3>2, <4>1, <4>2
        <5> QED
          BY <3>2, <3>4, <3>6, <4>1, <5>1
      <4> QED
        BY <4>2, <4>3, <4>4, <4>5
    <3>7. DOMAIN s = 1..Len(s)
      BY <3>1
    <3>8. IsInjective(s)
      BY <3>6, <3>7 DEF IsInjective
    <3>9. \A i \in DOMAIN s : sources[s[i]] = s[i]
      BY <3>5, <3>7
    <3> QED
      BY <1>5, <3>3, <3>8, <3>9 DEF Inv, ContractsSourced
  <2> QED
    BY <2>1, <2>2
<1>7. Store!StoreTypeOK' /\ sources' = sources
  BY <1>1 DEF storeVars, Inv, Typed, Store!StoreTypeOK
<1>8. ContractsSourced' /\ Sourced'
  BY <1>6, <1>7 DEF Inv, Sourced, ContractsSourced
<1>9. UNCHANGED <<ready, variants, jobs, archives>> /\ UNCHANGED catalogVars
  BY <1>1
<1>10. /\ Catalog!CatalogTypeOK' /\ Shelf' /\ CatalogWhole'
       /\ \A r \in ReleaseIds : Catalog!Readable(r) => Catalog!Readable(r)'
  BY <1>9, CatalogKept
<1>11. Tables' /\ Promised' /\ OwnPackages'
  BY <1>6, <1>9 DEF Inv, Typed, Tables, Promised, OwnPackages
<1>12. Grows
  BY <1>7, <1>9, <1>10, <1>11 DEF Grows
<1>13. Moves(t) /\ Locals(t)' /\ ppc'[t] \in Places /\ req'[t] = NoReq
  BY <1>1, EndMoves
<1>14. Threads' /\ \A u \in Callers : Locals(u)'
  BY <1>12, <1>13, MovesKeep
<1>15. PublishedStands'
  BY <1>9, <1>11, <1>12, PublishedKept
<1> QED
  BY <1>7, <1>8, <1>10, <1>11, <1>14, <1>15 DEF Inv, Typed

-----------------------------------------------------------------------------
(* The tables of the jobs and of the variants *)

\* Rows of jobs and of variants change; snapshots and the catalog do not.
LEMMA RowsGrow ==
    ASSUME Inv, UNCHANGED sources, UNCHANGED catalogVars, OwnPackages',
           DOMAIN jobs \subseteq DOMAIN jobs',
           \A i \in DOMAIN jobs : jobs'[i].variant = jobs[i].variant
    PROVE  Grows
<1>1. \A r \in ReleaseIds : Catalog!Readable(r) => Catalog!Readable(r)'
  BY CatalogKept
<1> QED
  BY <1>1 DEF Grows

\* The same, for the whole invariant.
LEMMA RowsInv ==
    ASSUME Inv, NEW t \in Callers, Moves(t), Locals(t)', ppc'[t] \in Places,
           req'[t] \in Creates \cup Orders \cup {NoReq},
           UNCHANGED <<ready, storeVars, catalogVars, contracts>>,
           Tables', Grows, PublishedStands'
    PROVE  Inv'
<1>1. UNCHANGED <<ready, contracts, sources>> /\ UNCHANGED catalogVars
  BY DEF storeVars
<1>2. Catalog!CatalogTypeOK' /\ Shelf' /\ CatalogWhole'
  BY <1>1, CatalogKept
<1>3. Promised' /\ OwnPackages' /\ Store!StoreTypeOK'
  BY DEF Inv, Typed, Promised, Grows, Store!StoreTypeOK, storeVars
<1>4. Threads' /\ \A u \in Callers : Locals(u)'
  BY MovesKeep
<1> QED
  BY <1>1, <1>2, <1>3, <1>4, SourcesKept DEF Inv, Typed

\* A column of a row of backend_variants is set.
LEMMA VariantSet ==
    ASSUME Inv, NEW v \in Variant, NEW s \in {"COMPILED", "PUBLISHED", "FAILED"}
    PROVE  \E r \in [status: {"COMPILED", "PUBLISHED", "FAILED"}, ref: Refs \cup {NoRef}] :
               /\ r = [variants[v] EXCEPT !.status = s] /\ r.status = s
               /\ s = variants[v].status => r = variants[v]
<1>1. PICK q : q = variants[v]
  OBVIOUS
<1>2. q \in [status: {"ABSENT", "COMPILED", "PUBLISHED", "FAILED"}, ref: Refs \cup {NoRef}]
  BY <1>1 DEF Inv, Typed, Tables, NoVariant
<1>3. [q EXCEPT !.status = s] \in [status: {"COMPILED", "PUBLISHED", "FAILED"}, ref: Refs \cup {NoRef}]
  BY <1>2
<1>4. [q EXCEPT !.status = s].status = s /\ (s = q.status => [q EXCEPT !.status = s] = q)
  BY <1>2
<1> QED
  BY <1>1, <1>3, <1>4

\* A column of a row of publish_jobs is set.
LEMMA JobSet ==
    ASSUME NEW q \in JobRow, NEW s \in {"PENDING", "RUNNING", "READY", "FAILED"}
    PROVE  \E r \in JobRow : /\ r = [q EXCEPT !.status = s] /\ r.status = s
                             /\ r.variant = q.variant /\ r.ref = q.ref
<1>1. [q EXCEPT !.status = s] \in JobRow
  BY DEF JobRow
<1>2. /\ [q EXCEPT !.status = s].status = s /\ [q EXCEPT !.status = s].variant = q.variant
      /\ [q EXCEPT !.status = s].ref = q.ref
  BY DEF JobRow
<1> QED
  BY <1>1, <1>2

\* One row of publish_jobs is updated.
LEMMA JobsUpdated ==
    ASSUME Inv, NEW j \in DOMAIN jobs, NEW r \in JobRow, jobs' = [jobs EXCEPT ![j] = r],
           r.variant = jobs[j].variant
    PROVE  /\ jobs' \in Seq(JobRow) /\ DOMAIN jobs' = DOMAIN jobs
           /\ \A i \in DOMAIN jobs : jobs'[i].variant = jobs[i].variant
           /\ \A i \in DOMAIN jobs : jobs'[i] = IF i = j THEN r ELSE jobs[i]
<1>1. jobs \in Seq(JobRow) /\ DOMAIN jobs = 1..Len(jobs)
  BY DEF Inv, Typed, Tables
<1>2. jobs' \in Seq(JobRow) /\ Len(jobs') = Len(jobs)
  BY <1>1, ExceptSeq
<1>3. DOMAIN jobs' = DOMAIN jobs
  BY <1>1, <1>2
<1>4. \A i \in DOMAIN jobs : jobs'[i] = IF i = j THEN r ELSE jobs[i]
  BY <1>1
<1> QED
  BY <1>2, <1>3, <1>4

\* mark_job_running and mark_job_failed update the row of the thread's job.
LEMMA MarkJobRow ==
    ASSUME Inv, NEW t \in Callers, ppc[t] \in Working,
           NEW s \in {"PENDING", "RUNNING", "READY", "FAILED"}, s # "READY", MarkJob(t, s)
    PROVE  /\ jobs' \in Seq(JobRow) /\ DOMAIN jobs' = DOMAIN jobs
           /\ \A i \in DOMAIN jobs : jobs'[i].variant = jobs[i].variant
           /\ \A i \in DOMAIN jobs : jobs'[i].status = "READY" => jobs'[i] = jobs[i]
<1>1. PICK j \in DOMAIN jobs : j = req[t].job
  BY DEF Inv, Locals
<1>2. PICK q \in JobRow : q = jobs[j]
  BY DEF Inv, Typed, Tables
<1>3. PICK r \in JobRow : /\ r = [q EXCEPT !.status = s] /\ r.status = s
                          /\ r.variant = q.variant /\ r.ref = q.ref
  BY JobSet
<1>4. jobs' = [jobs EXCEPT ![j] = r] /\ r.variant = jobs[j].variant
  BY <1>1, <1>2, <1>3 DEF MarkJob
<1>5. /\ jobs' \in Seq(JobRow) /\ DOMAIN jobs' = DOMAIN jobs
      /\ \A i \in DOMAIN jobs : jobs'[i].variant = jobs[i].variant
      /\ \A i \in DOMAIN jobs : jobs'[i] = IF i = j THEN r ELSE jobs[i]
  BY <1>4, JobsUpdated
<1> QED
  BY <1>3, <1>5

\* A row of backend_variants gets the status s, unless it is PUBLISHED.
Marked(v, s) ==
    variants' = [variants EXCEPT ![v] =
        [variants[v] EXCEPT !.status = IF variants[v].status = "PUBLISHED" THEN "PUBLISHED" ELSE s]]

\* One row of backend_variants is updated, and what is PUBLISHED stays as it is.
LEMMA VariantUpdated ==
    ASSUME Inv, NEW v \in Variant, NEW s \in {"COMPILED", "FAILED"}, Marked(v, s)
    PROVE  /\ variants' \in [Variant -> {NoVariant} \cup
                  [status: {"COMPILED", "PUBLISHED", "FAILED"}, ref: Refs \cup {NoRef}]]
           /\ \A w \in Variant : variants'[w].status = "PUBLISHED" => variants'[w] = variants[w]
           /\ \A w \in Variant : variants[w].status = "PUBLISHED" => variants'[w].status = "PUBLISHED"
<1>1. PICK p \in {"COMPILED", "PUBLISHED", "FAILED"} :
          p = IF variants[v].status = "PUBLISHED" THEN "PUBLISHED" ELSE s
  OBVIOUS
<1>2. PICK r \in [status: {"COMPILED", "PUBLISHED", "FAILED"}, ref: Refs \cup {NoRef}] :
          /\ r = [variants[v] EXCEPT !.status = p] /\ r.status = p
          /\ p = variants[v].status => r = variants[v]
  BY <1>1, VariantSet
<1>3. variants' = [variants EXCEPT ![v] = r]
  BY <1>1, <1>2 DEF Marked
<1>4. variants \in [Variant -> {NoVariant} \cup
          [status: {"COMPILED", "PUBLISHED", "FAILED"}, ref: Refs \cup {NoRef}]]
  BY DEF Inv, Typed, Tables
<1>5. /\ r.status = "PUBLISHED" => r = variants[v]
      /\ variants[v].status = "PUBLISHED" => r.status = "PUBLISHED"
  BY <1>1, <1>2
<1> QED
  BY <1>3, <1>4, <1>5

\* upsert_variant
LEMMA UpsertVariantInv ==
    ASSUME Inv, NEW t \in Callers, UpsertVariant(t)
    PROVE  Inv'
<1>1. /\ ppc[t] = "upsert" /\ UNCHANGED <<ready, storeVars, catalogVars, contracts, jobs, archives>>
      /\ (Goto(t, "create_job") /\ req' = req) \/ End(t)
  BY DEF UpsertVariant
<1>2. req[t] \in Orders /\ saving[t] = "idle"
  BY <1>1 DEF Inv, Locals
<1>3. PICK v \in Variant : v = req[t].variant
  BY <1>2 DEF Orders
<1>4. Marked(v, "COMPILED")
  <2>1. variants' = [variants EXCEPT ![v].status = IF @ = "PUBLISHED" THEN @ ELSE "COMPILED"]
    BY <1>3 DEF UpsertVariant
  <2>2. variants' = [variants EXCEPT ![v] =
            [variants[v] EXCEPT !.status = IF @ = "PUBLISHED" THEN @ ELSE "COMPILED"]]
    BY <2>1, Zenon
  <2> QED
    BY <2>2 DEF Marked
<1>5. /\ variants' \in [Variant -> {NoVariant} \cup
             [status: {"COMPILED", "PUBLISHED", "FAILED"}, ref: Refs \cup {NoRef}]]
      /\ \A w \in Variant : variants'[w].status = "PUBLISHED" => variants'[w] = variants[w]
      /\ \A w \in Variant : variants[w].status = "PUBLISHED" => variants'[w].status = "PUBLISHED"
  BY <1>4, VariantUpdated
<1>6. UNCHANGED <<sources, jobs, archives, contracts>> /\ UNCHANGED catalogVars
  BY <1>1 DEF storeVars
<1>7. Tables' /\ OwnPackages'
  BY <1>5, <1>6 DEF Inv, Typed, Tables, OwnPackages
<1>8. Grows
  BY <1>6, <1>7, RowsGrow
<1>9. PublishedStands'
  BY <1>5, <1>6, <1>7, <1>8, PublishedKept
<1>10. CASE End(t)
  <2>1. Moves(t) /\ Locals(t)' /\ ppc'[t] \in Places /\ req'[t] = NoReq
    BY <1>1, <1>10, EndMoves
  <2> QED
    BY <1>1, <1>7, <1>8, <1>9, <2>1, RowsInv
<1>11. CASE Goto(t, "create_job") /\ req' = req
  <2>1. "create_job" \in Places
    BY DEF Places
  <2>2. /\ Moves(t) /\ ppc'[t] = "create_job" /\ req'[t] = req[t]
        /\ req'[t] \in Creates \cup Orders \cup {NoReq} /\ saving'[t] = saving[t]
    BY <1>6, <1>11, <2>1, GotoMoves
  <2>3. Locals(t)'
    BY <1>2, <2>2 DEF Locals, Creating, Working, Packaging
  <2> QED
    BY <1>1, <1>7, <1>8, <1>9, <2>1, <2>2, <2>3, RowsInv
<1> QED
  BY <1>1, <1>10, <1>11

\* A thread's order with one column changed is an order.
LEMMA OrderSet ==
    ASSUME NEW q \in Orders, NEW j \in Nat, NEW f \in Refs \cup {NoRef}
    PROVE  /\ \E r \in Orders : /\ r = [q EXCEPT !.job = j] /\ r.job = j
                                /\ r.variant = q.variant /\ r.ref = q.ref
           /\ \E r \in Orders : /\ r = [q EXCEPT !.ref = f] /\ r.ref = f
                                /\ r.variant = q.variant /\ r.job = q.job
<1>1. [q EXCEPT !.job = j] \in Orders /\ [q EXCEPT !.ref = f] \in Orders
  BY DEF Orders
<1>2. /\ [q EXCEPT !.job = j].job = j /\ [q EXCEPT !.job = j].variant = q.variant
      /\ [q EXCEPT !.job = j].ref = q.ref
  BY DEF Orders
<1>3. /\ [q EXCEPT !.ref = f].ref = f /\ [q EXCEPT !.ref = f].variant = q.variant
      /\ [q EXCEPT !.ref = f].job = q.job
  BY DEF Orders
<1> QED
  BY <1>1, <1>2, <1>3

\* create_publish_job: the thread knows the row it has made.
LEMMA CreatePublishJobInv ==
    ASSUME Inv, NEW t \in Callers, CreatePublishJob(t)
    PROVE  Inv'
<1>1. /\ ppc[t] = "create_job" /\ Goto(t, "mark_running")
      /\ UNCHANGED <<ready, storeVars, catalogVars, contracts, variants, archives>>
  BY DEF CreatePublishJob
<1>2. req[t] \in Orders /\ saving[t] = "idle"
  BY <1>1 DEF Inv, Locals
<1>3. PICK q \in Orders : q = req[t]
  BY <1>2
<1>4. q.variant \in Variant
  BY DEF Orders
<1>5. PICK row \in JobRow : row = [variant |-> q.variant, status |-> "PENDING", ref |-> NoRef]
  BY <1>4 DEF JobRow
<1>6. jobs' = Append(jobs, row) /\ req' = [req EXCEPT ![t].job = Len(jobs')]
  BY <1>3, <1>5 DEF CreatePublishJob
<1>7. jobs \in Seq(JobRow)
  BY DEF Inv, Typed, Tables
<1>8. /\ jobs' \in Seq(JobRow) /\ Len(jobs') = Len(jobs) + 1
      /\ \A i \in 1..Len(jobs) : jobs'[i] = jobs[i]
      /\ jobs'[Len(jobs) + 1] = row
  BY <1>6, <1>7, AppendProperties
<1>9. PICK j \in Nat : j = Len(jobs')
  BY <1>8
<1>10. /\ DOMAIN jobs \subseteq DOMAIN jobs' /\ j \in DOMAIN jobs' /\ jobs'[j] = row
       /\ \A i \in DOMAIN jobs : jobs'[i] = jobs[i]
       /\ \A i \in DOMAIN jobs' : i \in DOMAIN jobs \/ i = j
  BY <1>7, <1>8, <1>9
<1>11. \E r \in Orders : /\ r = [q EXCEPT !.job = j] /\ r.job = j
                         /\ r.variant = q.variant /\ r.ref = q.ref
  <2>1. NoRef \in Refs \cup {NoRef}
    OBVIOUS
  <2> QED
    BY <2>1, OrderSet
<1>12. PICK r \in Orders : /\ r = [q EXCEPT !.job = j] /\ r.job = j
                           /\ r.variant = q.variant /\ r.ref = q.ref
  BY <1>11
<1>13. req' = [req EXCEPT ![t] = r]
  BY <1>3, <1>6, <1>9, <1>12
<1>14. Moves(t) /\ ppc'[t] = "mark_running" /\ req'[t] = r /\ saving'[t] = "idle"
  BY <1>1, <1>2, <1>13 DEF Moves, Goto, catalogVars, Inv, Typed, Threads
<1>15. jobs'[j].variant = r.variant
  BY <1>5, <1>10, <1>12 DEF JobRow
<1>16. Locals(t)'
  BY <1>10, <1>12, <1>14, <1>15 DEF Locals, Creating, Working, Packaging
<1>17. UNCHANGED <<sources, variants, archives, contracts>> /\ UNCHANGED catalogVars
  BY <1>1 DEF storeVars
<1>18. Tables' /\ OwnPackages'
  BY <1>8, <1>17 DEF Inv, Typed, Tables, OwnPackages
<1>19. Grows
  BY <1>10, <1>17, <1>18, RowsGrow
<1>20. \A i \in DOMAIN jobs' : jobs'[i].status = "READY" => i \in DOMAIN jobs /\ jobs'[i] = jobs[i]
  <2>1. row.status # "READY"
    BY <1>5
  <2> QED
    BY <1>10, <2>1
<1>21. PublishedStands'
  BY <1>17, <1>18, <1>19, <1>20, PublishedKept
<1> QED
  BY <1>1, <1>14, <1>16, <1>18, <1>19, <1>21, RowsInv DEF Places

\* mark_job_running
LEMMA MarkJobRunningInv ==
    ASSUME Inv, NEW t \in Callers, MarkJobRunning(t) \/ MarkJobRunningRaises(t)
    PROVE  Inv'
<1>1. /\ ppc[t] = "mark_running" /\ (MarkJob(t, "RUNNING") \/ jobs' = jobs)
      /\ UNCHANGED <<ready, storeVars, catalogVars, contracts, variants, archives>>
  BY DEF MarkJobRunning, MarkJobRunningRaises
<1>2. /\ req[t] \in Orders /\ saving[t] = "idle" /\ req[t].job \in DOMAIN jobs
      /\ jobs[req[t].job].variant = req[t].variant
  BY <1>1 DEF Inv, Locals, Working
<1>3. /\ jobs' \in Seq(JobRow) /\ DOMAIN jobs' = DOMAIN jobs
      /\ \A i \in DOMAIN jobs : jobs'[i].variant = jobs[i].variant
      /\ \A i \in DOMAIN jobs : jobs'[i].status = "READY" => jobs'[i] = jobs[i]
  <2>1. CASE jobs' = jobs
    BY <2>1 DEF Inv, Typed, Tables
  <2>2. CASE MarkJob(t, "RUNNING")
    BY <1>1, <2>2, MarkJobRow DEF Working
  <2> QED
    BY <1>1, <2>1, <2>2
<1>4. UNCHANGED <<sources, variants, archives, contracts>> /\ UNCHANGED catalogVars
  BY <1>1 DEF storeVars
<1>5. Tables' /\ OwnPackages'
  BY <1>3, <1>4 DEF Inv, Typed, Tables, OwnPackages
<1>6. Grows
  BY <1>3, <1>4, <1>5, RowsGrow
<1>7. PublishedStands'
  BY <1>3, <1>4, <1>5, <1>6, PublishedKept
<1>8. CASE MarkJobRunningRaises(t)
  <2>1. Moves(t) /\ Locals(t)' /\ ppc'[t] \in Places /\ req'[t] = NoReq
    BY <1>1, <1>8, EndMoves DEF MarkJobRunningRaises
  <2> QED
    BY <1>1, <1>5, <1>6, <1>7, <2>1, RowsInv
<1>9. CASE MarkJobRunning(t)
  <2>1. PICK place \in {"resolve", "package"} :
            place = IF req[t].variant.backend = "runner" THEN "resolve" ELSE "package"
    OBVIOUS
  <2>2. Goto(t, place) /\ req' = req /\ place \in Places
    BY <1>9, <2>1 DEF MarkJobRunning, Places
  <2>3. /\ Moves(t) /\ ppc'[t] = place /\ req'[t] = req[t]
        /\ req'[t] \in Creates \cup Orders \cup {NoReq} /\ saving'[t] = saving[t]
    BY <1>4, <2>2, GotoMoves
  <2>4. Locals(t)'
    BY <1>2, <1>3, <2>1, <2>3 DEF Locals, Creating, Working, Packaging
  <2> QED
    BY <1>1, <1>5, <1>6, <1>7, <2>2, <2>3, <2>4, RowsInv
<1> QED
  BY <1>8, <1>9

-----------------------------------------------------------------------------
(* The catalog *)

\* A thread has its archive packed and saves it; it is not one of those that write.
LEMMA ShelfMoves ==
    ASSUME Inv, NEW t \in Callers, Moves(t), releases' = releases, Shelved(t)', ~Writing(t)'
    PROVE  /\ Shelf' /\ CatalogWhole'
           /\ \A r \in ReleaseIds : Catalog!Readable(r) => Catalog!Readable(r)'
<1>1. ASSUME NEW u \in Callers PROVE Shelved(u)'
  <2>1. CASE u = t
    BY <2>1
  <2>2. CASE u # t
    <3>1. saving'[u] = saving[u] /\ packed'[u] = packed[u]
      BY <2>2 DEF Moves
    <3>2. Shelved(u)
      BY DEF Inv, Shelf
    <3> QED
      BY <3>1, <3>2 DEF Shelved, Catalog!Readable
  <2> QED
    BY <2>1, <2>2
<1>2. ASSUME NEW u \in Callers, NEW w \in Callers, Writing(u)', Writing(w)', packed'[u].id = packed'[w].id
      PROVE  u = w
  <2>1. u # t /\ w # t
    BY <1>2
  <2>2. /\ saving'[u] = saving[u] /\ packed'[u] = packed[u]
        /\ saving'[w] = saving[w] /\ packed'[w] = packed[w]
    BY <2>1 DEF Moves
  <2>3. Writing(u) /\ Writing(w) /\ packed[u].id = packed[w].id
    BY <1>2, <2>2 DEF Writing
  <2> QED
    BY <2>3 DEF Inv, Shelf
<1>3. CatalogWhole' /\ \A r \in ReleaseIds : Catalog!Readable(r) => Catalog!Readable(r)'
  BY DEF Inv, CatalogWhole, Catalog!Readable
<1>4. \A r \in ReleaseIds : ~releases'[r].dir => releases'[r].artifact = NoFile
                                                  /\ releases'[r].metadata = NoFile
  BY DEF Inv, Shelf
<1> QED
  BY <1>1, <1>2, <1>3, <1>4 DEF Shelf

\* A step in the catalog that keeps it whole.
LEMMA CatalogInv ==
    ASSUME Inv, NEW t \in Callers, Moves(t), Locals(t)', ppc'[t] \in Places,
           req'[t] \in Creates \cup Orders \cup {NoReq},
           UNCHANGED <<storeVars, tableVars, archives>>,
           Promised', Catalog!CatalogTypeOK', Shelf', CatalogWhole',
           \A r \in ReleaseIds : Catalog!Readable(r) => Catalog!Readable(r)'
    PROVE  Inv'
<1>1. UNCHANGED <<contracts, variants, jobs, archives, sources>>
  BY DEF storeVars, tableVars
<1>2. Store!StoreTypeOK'
  BY DEF Inv, Typed, Store!StoreTypeOK, storeVars
<1>3. Tables' /\ OwnPackages'
  BY <1>1 DEF Inv, Typed, Tables, OwnPackages
<1>4. Grows
  BY <1>1, <1>3 DEF Grows
<1>5. Threads' /\ \A u \in Callers : Locals(u)'
  BY <1>4, MovesKeep
<1>6. PublishedStands'
  BY <1>1, <1>3, <1>4, PublishedKept
<1> QED
  BY <1>1, <1>2, <1>3, <1>5, <1>6, SourcesKept DEF Inv, Typed

\* What the build service answers for the lock of a contract has the packages of the contract.
LEMMA AnswerSuits ==
    ASSUME Inv, NEW v \in Variant, NEW lock, lock = SpecOf[v.contract.rev],
           Runtime!Settle({lock}) \/ (ready[lock] # NoImage /\ UNCHANGED ready)
    PROVE  /\ Promised'
           /\ \E id \in ReleaseIds : /\ id = [contract |-> v.contract, image |-> ready'[lock]]
                                     /\ Suits(v, id)
<1>1. v.contract \in Contract /\ lock \in Specs
  BY VariantFields, PublishAssumption
<1>2. Promised' /\ ready'[lock] \in Runtime!Serving(lock)
  <2>1. CASE Runtime!Settle({lock})
    BY <1>1, <2>1 DEF Runtime!Settle, Inv, Promised
  <2>2. CASE ready[lock] # NoImage /\ UNCHANGED ready
    BY <1>1, <2>2 DEF Inv, Promised
  <2> QED
    BY <2>1, <2>2
<1>3. PICK img \in Runtime!Image : img = ready'[lock] /\ PackagesOf[lock] \subseteq img.pkgs
  BY <1>2 DEF Runtime!Serving
<1>4. PICK id \in ReleaseIds : id = [contract |-> v.contract, image |-> img]
  BY <1>1 DEF ReleaseIds
<1>5. id.contract = v.contract /\ id.image = img
  BY <1>4
<1>6. Suits(v, id)
  BY <1>3, <1>5 DEF Suits
<1> QED
  BY <1>2, <1>3, <1>4, <1>6

\* _publish_runner: the release is identified and packed.
LEMMA PublishRunnerInv ==
    ASSUME Inv, NEW t \in Callers, NEW bits \in Bits, PublishRunner(t, bits)
    PROVE  Inv'
<1>1. /\ ppc[t] = "resolve" /\ Goto(t, "saving")
      /\ Runtime!Settle({Lock(t)}) \/ (ready[Lock(t)] # NoImage /\ UNCHANGED ready)
      /\ UNCHANGED <<storeVars, tableVars, archives>>
  BY DEF PublishRunner
<1>2. /\ req[t] \in Orders /\ req[t].job \in DOMAIN jobs /\ jobs[req[t].job].variant = req[t].variant
      /\ req[t].variant.backend = "runner"
  BY <1>1 DEF Inv, Locals, Working
<1>3. PICK q \in Orders : q = req[t]
  BY <1>2
<1>4. PICK v \in Variant : v = q.variant
  BY DEF Orders
<1>5. PICK lock : lock = Lock(t)
  OBVIOUS
<1>6. lock = SpecOf[v.contract.rev]
  BY <1>3, <1>4, <1>5 DEF Lock
<1>7. Runtime!Settle({lock}) \/ (ready[lock] # NoImage /\ UNCHANGED ready)
  BY <1>1, <1>5
<1>8. /\ Promised'
      /\ \E id \in ReleaseIds : /\ id = [contract |-> v.contract, image |-> ready'[lock]]
                                /\ Suits(v, id)
  BY <1>6, <1>7, AnswerSuits
<1>9. PICK id \in ReleaseIds : /\ id = [contract |-> v.contract, image |-> ready'[lock]]
                               /\ Suits(v, id)
  BY <1>8
<1>10. Catalog!Publish(t, id, bits) /\ req' = [req EXCEPT ![t].ref = id]
  BY <1>3, <1>4, <1>5, <1>9 DEF PublishRunner
<1>11. PICK p \in [id: ReleaseIds, bits: Bits] : p = [id |-> id, bits |-> bits] /\ p.id = id
  <2>1. [id |-> id, bits |-> bits] \in [id: ReleaseIds, bits: Bits]
    OBVIOUS
  <2>2. [id |-> id, bits |-> bits].id = id
    OBVIOUS
  <2> QED
    BY <2>1, <2>2
<1>12. /\ packed' = [packed EXCEPT ![t] = p] /\ releases' = releases
       /\ saving' = [saving EXCEPT ![t] = "exists"]
  BY <1>10, <1>11 DEF Catalog!Publish, Catalog!SaveGoto
<1>13. Catalog!CatalogTypeOK' /\ packed'[t] = p /\ saving'[t] = "exists"
  BY <1>12 DEF Inv, Typed, Catalog!CatalogTypeOK
<1>14. \E r \in Orders : /\ r = [q EXCEPT !.ref = id] /\ r.ref = id
                         /\ r.variant = q.variant /\ r.job = q.job
  <2>1. 0 \in Nat /\ id \in Refs \cup {NoRef}
    BY DEF Refs
  <2> QED
    BY <2>1, OrderSet
<1>15. PICK r \in Orders : /\ r = [q EXCEPT !.ref = id] /\ r.ref = id
                           /\ r.variant = q.variant /\ r.job = q.job
  BY <1>14
<1>16. req' = [req EXCEPT ![t] = r]
  BY <1>3, <1>10, <1>15
<1>17. Moves(t) /\ ppc'[t] = "saving" /\ req'[t] = r
  BY <1>1, <1>12, <1>16 DEF Moves, Goto, Inv, Typed, Threads, Catalog!CatalogTypeOK
<1>18. Shelved(t)' /\ ~Writing(t)'
  BY <1>13 DEF Shelved, Writing
<1>19. /\ Shelf' /\ CatalogWhole'
       /\ \A rel \in ReleaseIds : Catalog!Readable(rel) => Catalog!Readable(rel)'
  BY <1>12, <1>17, <1>18, ShelfMoves
<1>20. Locals(t)'
  <2>1. jobs' = jobs
    BY <1>1 DEF tableVars
  <2>2. /\ r.job \in DOMAIN jobs /\ jobs[r.job].variant = r.variant
        /\ r.variant.backend = "runner" /\ Suits(r.variant, r.ref) /\ packed'[t].id = r.ref
    BY <1>2, <1>3, <1>4, <1>9, <1>11, <1>13, <1>15
  <2> QED
    BY <1>13, <1>15, <1>17, <2>1, <2>2 DEF Locals, Creating, Working, Packaging, Suits
<1> QED
  BY <1>1, <1>8, <1>13, <1>17, <1>19, <1>20, CatalogInv DEF Places

\* The place of a thread in Catalog.save.
SavePlaces == {"exists", "mkdir", "artifact", "metadata", "saved", "raised"}

\* A step of Catalog.save that keeps the catalog whole keeps the invariant.
LEMMA SavingInv ==
    ASSUME Inv, NEW t \in Callers, ppc[t] = "saving",
           UNCHANGED <<ready, storeVars, tableVars, archives, ppc, req, packed>>,
           NEW place \in SavePlaces, saving' = [saving EXCEPT ![t] = place],
           releases' \in [ReleaseIds -> Catalog!Release], Shelf', CatalogWhole',
           \A r \in ReleaseIds : Catalog!Readable(r) => Catalog!Readable(r)'
    PROVE  Inv'
<1>1. /\ saving'[t] = place /\ Catalog!CatalogTypeOK'
      /\ \A u \in Callers \ {t} : saving'[u] = saving[u] /\ packed'[u] = packed[u]
  BY DEF Inv, Typed, Catalog!CatalogTypeOK, SavePlaces
<1>2. Moves(t) /\ ppc'[t] \in Places /\ req'[t] \in Creates \cup Orders \cup {NoReq}
  BY <1>1 DEF Moves, Inv, Typed, Threads
<1>3. place # "idle" /\ jobs' = jobs
  BY DEF SavePlaces, tableVars
<1>4. Locals(t)'
  <2>1. Locals(t)
    BY DEF Inv
  <2> QED
    BY <1>1, <1>3, <2>1 DEF Locals, Creating, Working, Packaging, Suits
<1>5. Promised'
  BY DEF Inv, Promised
<1> QED
  BY <1>1, <1>2, <1>4, <1>5, CatalogInv

\* Only one thread writes into the directory of a release, before anybody can read it.
LEMMA WrittenInv ==
    ASSUME Inv, NEW t \in Callers, ppc[t] = "saving",
           UNCHANGED <<ready, storeVars, tableVars, archives, ppc, req, packed>>,
           NEW place \in SavePlaces, saving' = [saving EXCEPT ![t] = place],
           NEW id \in ReleaseIds, packed[t].id = id,
           NEW x \in Catalog!Release, releases' = [releases EXCEPT ![id] = x],
           x.dir, x.metadata # NoFile => x.artifact = x.metadata,
           releases[id].metadata = NoFile,
           \A u \in Callers : Writing(u) /\ packed[u].id = id => u = t,
           Shelved(t)'
    PROVE  Inv'
<1>1. /\ releases \in [ReleaseIds -> Catalog!Release] /\ packed' = packed
      /\ saving \in [Callers -> {"idle", "exists", "mkdir", "artifact", "metadata", "saved", "raised"}]
  BY DEF Inv, Typed, Catalog!CatalogTypeOK
<1>2. /\ releases' \in [ReleaseIds -> Catalog!Release] /\ releases'[id] = x
      /\ \A r \in ReleaseIds \ {id} : releases'[r] = releases[r]
  BY <1>1
<1>3. saving'[t] = place /\ \A u \in Callers \ {t} : saving'[u] = saving[u]
  BY <1>1
<1>4. CatalogWhole'
  BY <1>2 DEF Inv, CatalogWhole
<1>5. \A r \in ReleaseIds : Catalog!Readable(r) => Catalog!Readable(r)'
  BY <1>2 DEF Catalog!Readable
<1>6. \A r \in ReleaseIds : ~releases'[r].dir => releases'[r].artifact = NoFile
                                                  /\ releases'[r].metadata = NoFile
  BY <1>2 DEF Inv, Shelf
<1>7. ASSUME NEW u \in Callers, u # t PROVE Shelved(u)'
  <2>1. Shelved(u) /\ saving'[u] = saving[u] /\ packed'[u] = packed[u]
    BY <1>1, <1>3, <1>7 DEF Inv, Shelf
  <2>2. CASE saving[u] \in {"artifact", "metadata", "saved"}
    <3>1. PICK r \in ReleaseIds : r = packed[u].id
      BY <2>1, <2>2 DEF Shelved
    <3>2. r # id
      BY <1>7, <2>1, <2>2, <3>1 DEF Shelved, Writing, Catalog!Readable
    <3>3. releases'[packed[u].id] = releases[packed[u].id]
      BY <1>2, <3>1, <3>2
    <3> QED
      BY <2>1, <3>3 DEF Shelved, Catalog!Readable
  <2>3. CASE saving[u] \notin {"artifact", "metadata", "saved"}
    BY <2>1, <2>3 DEF Shelved
  <2> QED
    BY <2>2, <2>3
<1>8. ASSUME NEW u \in Callers, NEW w \in Callers, Writing(u)', Writing(w)',
             packed'[u].id = packed'[w].id
      PROVE  u = w
  <2>1. ASSUME NEW k \in Callers, k # t, Writing(k)', packed[k].id = id PROVE FALSE
    BY <1>3, <2>1 DEF Writing
  <2>2. CASE u = t \/ w = t
    BY <1>1, <1>8, <2>1, <2>2
  <2>3. CASE u # t /\ w # t
    <3>1. Writing(u) /\ Writing(w) /\ packed[u].id = packed[w].id
      BY <1>1, <1>3, <1>8, <2>3 DEF Writing
    <3> QED
      BY <3>1 DEF Inv, Shelf
  <2> QED
    BY <2>2, <2>3
<1>9. \A u \in Callers : Shelved(u)'
  BY <1>7
<1>10. Shelf'
  BY <1>6, <1>8, <1>9 DEF Shelf
<1> QED
  BY <1>2, <1>4, <1>5, <1>10, SavingInv

\* A field of a release's directory is set.
LEMMA ReleaseSet ==
    ASSUME NEW q \in Catalog!Release, NEW b \in Bits
    PROVE  /\ \E x \in Catalog!Release : /\ x = [q EXCEPT !.dir = TRUE] /\ x.dir = TRUE
                                         /\ x.artifact = q.artifact /\ x.metadata = q.metadata
           /\ \E x \in Catalog!Release : /\ x = [q EXCEPT !.artifact = b] /\ x.dir = q.dir
                                         /\ x.artifact = b /\ x.metadata = q.metadata
           /\ \E x \in Catalog!Release : /\ x = [q EXCEPT !.metadata = b] /\ x.dir = q.dir
                                         /\ x.artifact = q.artifact /\ x.metadata = b
<1>1. /\ [q EXCEPT !.dir = TRUE] \in Catalog!Release
      /\ [q EXCEPT !.artifact = b] \in Catalog!Release
      /\ [q EXCEPT !.metadata = b] \in Catalog!Release
  BY DEF Catalog!Release
<1>2. /\ [q EXCEPT !.dir = TRUE].dir = TRUE /\ [q EXCEPT !.dir = TRUE].artifact = q.artifact
      /\ [q EXCEPT !.dir = TRUE].metadata = q.metadata
  BY DEF Catalog!Release
<1>3. /\ [q EXCEPT !.artifact = b].dir = q.dir /\ [q EXCEPT !.artifact = b].artifact = b
      /\ [q EXCEPT !.artifact = b].metadata = q.metadata
  BY DEF Catalog!Release
<1>4. /\ [q EXCEPT !.metadata = b].dir = q.dir /\ [q EXCEPT !.metadata = b].artifact = q.artifact
      /\ [q EXCEPT !.metadata = b].metadata = b
  BY DEF Catalog!Release
<1> QED
  BY <1>1, <1>2, <1>3, <1>4

\* A step of Catalog.save that writes nothing.
LEMMA SaveReadsInv ==
    ASSUME Inv, NEW t \in Callers, ppc[t] = "saving",
           UNCHANGED <<ready, storeVars, tableVars, archives, ppc, req, packed>>,
           releases' = releases,
           NEW place \in SavePlaces, saving' = [saving EXCEPT ![t] = place],
           place \notin {"artifact", "metadata"},
           place = "saved" => Catalog!Readable(packed[t].id)
    PROVE  Inv'
<1>1. /\ saving'[t] = place /\ releases' \in [ReleaseIds -> Catalog!Release]
      /\ \A u \in Callers \ {t} : saving'[u] = saving[u] /\ packed'[u] = packed[u]
  BY DEF Inv, Typed, Catalog!CatalogTypeOK
<1>2. Moves(t)
  BY <1>1 DEF Moves, Inv, Typed, Threads
<1>3. packed[t] \in [id: ReleaseIds, bits: Bits]
  BY DEF Inv, Locals, Shelf, Shelved
<1>4. Shelved(t)' /\ ~Writing(t)'
  BY <1>1, <1>3 DEF Shelved, Writing, Catalog!Readable
<1>5. /\ Shelf' /\ CatalogWhole'
      /\ \A r \in ReleaseIds : Catalog!Readable(r) => Catalog!Readable(r)'
  BY <1>2, <1>4, ShelfMoves
<1> QED
  BY <1>1, <1>5, SavingInv

\* Catalog.save
LEMMA SaveReleaseInv ==
    ASSUME Inv, NEW t \in Callers, SaveRelease(t)
    PROVE  Inv'
<1>1. /\ ppc[t] = "saving" /\ UNCHANGED <<ready, storeVars, tableVars, archives, ppc, req>>
      /\ \/ Catalog!SaveExists(t) \/ Catalog!SaveMkdir(t) \/ Catalog!SaveArtifact(t)
         \/ Catalog!SaveMetadata(t) \/ Catalog!SaveRaises(t)
  BY DEF SaveRelease, Catalog!SaveStep
<1>2. packed[t] \in [id: ReleaseIds, bits: Bits] /\ Shelved(t)
  BY <1>1 DEF Inv, Locals, Shelf, Shelved
<1>3. PICK id \in ReleaseIds, b \in Bits : id = packed[t].id /\ b = packed[t].bits
  BY <1>2
<1>4. PICK q \in Catalog!Release : q = releases[id]
  BY DEF Inv, Typed, Catalog!CatalogTypeOK
<1>5. releases \in [ReleaseIds -> Catalog!Release] /\ t \in DOMAIN saving
  BY DEF Inv, Typed, Catalog!CatalogTypeOK
<1>6. packed' = packed
  BY <1>1 DEF Catalog!SaveExists, Catalog!SaveMkdir, Catalog!SaveArtifact, Catalog!SaveMetadata,
              Catalog!SaveRaises
<1>7. CASE Catalog!SaveExists(t) \/ Catalog!SaveRaises(t)
  <2>1. /\ releases' = releases
        /\ \E place \in {"mkdir", "saved", "raised"} :
                /\ saving' = [saving EXCEPT ![t] = place]
                /\ place = "saved" => Catalog!Readable(packed[t].id)
    BY <1>7 DEF Catalog!SaveExists, Catalog!SaveRaises, Catalog!SaveGoto
  <2>2. PICK place \in {"mkdir", "saved", "raised"} :
                /\ saving' = [saving EXCEPT ![t] = place]
                /\ place = "saved" => Catalog!Readable(packed[t].id)
    BY <2>1
  <2>3. place \in SavePlaces /\ place \notin {"artifact", "metadata"}
    BY DEF SavePlaces
  <2> QED
    BY <1>1, <1>6, <2>1, <2>2, <2>3, SaveReadsInv
<1>8. CASE Catalog!SaveMkdir(t)
  <2>1. releases' = [releases EXCEPT ![id].dir = TRUE]
    BY <1>3, <1>8 DEF Catalog!SaveMkdir
  <2>2. saving' = [saving EXCEPT ![t] = IF releases[id].dir THEN "raised" ELSE "artifact"]
    BY <1>3, <1>8 DEF Catalog!SaveMkdir, Catalog!SaveGoto
  <2>3. \E x \in Catalog!Release : /\ x = [q EXCEPT !.dir = TRUE] /\ x.dir = TRUE
                                   /\ x.artifact = q.artifact /\ x.metadata = q.metadata
    BY ReleaseSet
  <2>4. PICK x \in Catalog!Release : /\ x = [q EXCEPT !.dir = TRUE] /\ x.dir = TRUE
                                     /\ x.artifact = q.artifact /\ x.metadata = q.metadata
    BY <2>3
  <2>5. releases' = [releases EXCEPT ![id] = x]
    BY <1>4, <2>1, <2>4
  <2>6. CASE q.dir
    <3>1. x = q
      BY <2>4, <2>6 DEF Catalog!Release
    <3>2. releases' = releases
      BY <1>4, <1>5, <2>5, <3>1
    <3>3. saving' = [saving EXCEPT ![t] = "raised"]
      BY <1>4, <2>2, <2>6
    <3>4. "raised" \in SavePlaces
      BY DEF SavePlaces
    <3> QED
      BY <1>1, <1>6, <3>2, <3>3, <3>4, SaveReadsInv
  <2>7. CASE ~q.dir
    <3>1. saving' = [saving EXCEPT ![t] = "artifact"]
      BY <1>4, <2>2, <2>7
    <3>2. q.artifact = NoFile /\ q.metadata = NoFile
      BY <1>4, <2>7 DEF Inv, Shelf
    <3>3. saving'[t] = "artifact" /\ releases'[id] = x
      BY <1>5, <2>5, <3>1
    <3>4. Shelved(t)'
      BY <1>2, <1>3, <1>6, <2>4, <3>2, <3>3 DEF Shelved
    <3>5. ASSUME NEW u \in Callers, Writing(u), packed[u].id = id PROVE u = t
      BY <1>4, <2>7, <3>5 DEF Inv, Shelf, Shelved, Writing
    <3>6. "artifact" \in SavePlaces
      BY DEF SavePlaces
    <3>7. x.metadata # NoFile => x.artifact = x.metadata
      BY <2>4, <3>2
    <3>8. releases[id].metadata = NoFile
      BY <1>4, <3>2
    <3> QED
      BY <1>1, <1>3, <1>6, <2>4, <2>5, <3>1, <3>4, <3>5, <3>6, <3>7, <3>8, WrittenInv
  <2> QED
    BY <2>6, <2>7
<1>9. CASE Catalog!SaveArtifact(t)
  <2>1. saving[t] = "artifact" /\ saving' = [saving EXCEPT ![t] = "metadata"]
    BY <1>9 DEF Catalog!SaveArtifact, Catalog!SaveGoto
  <2>2. releases' = [releases EXCEPT ![id].artifact = b]
    BY <1>3, <1>9 DEF Catalog!SaveArtifact
  <2>3. q.dir /\ q.artifact = NoFile /\ q.metadata = NoFile
    BY <1>2, <1>3, <1>4, <2>1 DEF Shelved
  <2>4. \E x \in Catalog!Release : /\ x = [q EXCEPT !.artifact = b] /\ x.dir = q.dir
                                   /\ x.artifact = b /\ x.metadata = q.metadata
    BY ReleaseSet
  <2>5. PICK x \in Catalog!Release : /\ x = [q EXCEPT !.artifact = b] /\ x.dir = q.dir
                                     /\ x.artifact = b /\ x.metadata = q.metadata
    BY <2>4
  <2>6. releases' = [releases EXCEPT ![id] = x]
    BY <1>4, <2>2, <2>5
  <2>7. saving'[t] = "metadata" /\ releases'[id] = x
    BY <1>5, <2>1, <2>6
  <2>8. Shelved(t)'
    BY <1>2, <1>3, <1>6, <2>3, <2>5, <2>7 DEF Shelved
  <2>9. ASSUME NEW u \in Callers, Writing(u), packed[u].id = id PROVE u = t
    BY <1>3, <2>1, <2>9 DEF Inv, Shelf, Writing
  <2>10. "metadata" \in SavePlaces
    BY DEF SavePlaces
  <2>11. x.dir /\ x.metadata = NoFile /\ releases[id].metadata = NoFile
    BY <1>4, <2>3, <2>5
  <2> QED
    BY <1>1, <1>3, <1>6, <2>1, <2>6, <2>8, <2>9, <2>10, <2>11, WrittenInv
<1>10. CASE Catalog!SaveMetadata(t)
  <2>1. saving[t] = "metadata" /\ saving' = [saving EXCEPT ![t] = "saved"]
    BY <1>10 DEF Catalog!SaveMetadata, Catalog!SaveGoto
  <2>2. releases' = [releases EXCEPT ![id].metadata = b]
    BY <1>3, <1>10 DEF Catalog!SaveMetadata
  <2>3. q.dir /\ q.artifact = b /\ q.metadata = NoFile
    BY <1>2, <1>3, <1>4, <2>1 DEF Shelved
  <2>4. \E x \in Catalog!Release : /\ x = [q EXCEPT !.metadata = b] /\ x.dir = q.dir
                                   /\ x.artifact = q.artifact /\ x.metadata = b
    BY ReleaseSet
  <2>5. PICK x \in Catalog!Release : /\ x = [q EXCEPT !.metadata = b] /\ x.dir = q.dir
                                     /\ x.artifact = q.artifact /\ x.metadata = b
    BY <2>4
  <2>6. releases' = [releases EXCEPT ![id] = x]
    BY <1>4, <2>2, <2>5
  <2>7. saving'[t] = "saved" /\ releases'[id] = x
    BY <1>5, <2>1, <2>6
  <2>8. Shelved(t)'
    BY <1>2, <1>3, <1>6, <2>3, <2>5, <2>7, PublishAssumption DEF Shelved, Catalog!Readable
  <2>9. ASSUME NEW u \in Callers, Writing(u), packed[u].id = id PROVE u = t
    BY <1>3, <2>1, <2>9 DEF Inv, Shelf, Writing
  <2>10. "saved" \in SavePlaces
    BY DEF SavePlaces
  <2>11. x.dir /\ x.artifact = x.metadata /\ releases[id].metadata = NoFile
    BY <1>4, <2>3, <2>5
  <2> QED
    BY <1>1, <1>3, <1>6, <2>1, <2>6, <2>8, <2>9, <2>10, <2>11, WrittenInv
<1> QED
  BY <1>1, <1>7, <1>8, <1>9, <1>10

\* Catalog.save has returned a release that can be read, or raised.
LEMMA SaveReturnsInv ==
    ASSUME Inv, NEW t \in Callers, SaveReturns(t)
    PROVE  Inv'
<1>1. /\ ppc[t] = "saving" /\ req' = req /\ UNCHANGED <<ready, storeVars, tableVars, archives>>
  BY DEF SaveReturns
<1>2. /\ releases' = releases /\ saving' = [saving EXCEPT ![t] = "idle"]
      /\ packed' = [packed EXCEPT ![t] = Catalog!NothingPacked]
  BY DEF SaveReturns, Catalog!SaveEnds, Catalog!SaveGoto
<1>3. PICK place \in {"mark_ready", "mark_failed"} :
          place = IF saving[t] = "saved" THEN "mark_ready" ELSE "mark_failed"
  OBVIOUS
<1>4. Goto(t, place)
  BY <1>3 DEF SaveReturns
<1>5. /\ Catalog!CatalogTypeOK' /\ saving'[t] = "idle"
      /\ \A u \in Callers \ {t} : saving'[u] = saving[u] /\ packed'[u] = packed[u]
  BY <1>2 DEF Inv, Typed, Catalog!CatalogTypeOK
<1>6. Moves(t) /\ ppc'[t] = place /\ req'[t] = req[t]
  BY <1>1, <1>4, <1>5 DEF Moves, Goto, Inv, Typed, Threads
<1>7. Shelved(t)' /\ ~Writing(t)'
  BY <1>5 DEF Shelved, Writing
<1>8. /\ Shelf' /\ CatalogWhole'
      /\ \A r \in ReleaseIds : Catalog!Readable(r) => Catalog!Readable(r)'
  BY <1>2, <1>6, <1>7, ShelfMoves
<1>9. /\ req[t] \in Orders /\ req[t].job \in DOMAIN jobs /\ jobs[req[t].job].variant = req[t].variant
      /\ req[t].variant.backend = "runner" /\ Suits(req[t].variant, req[t].ref)
      /\ packed[t].id = req[t].ref /\ Shelved(t)
  BY <1>1 DEF Inv, Locals, Working, Shelf
<1>10. place = "mark_ready" => Stands(req[t].variant, req[t].ref)'
  <2>1. place = "mark_ready" => Catalog!Readable(req[t].ref)
    BY <1>3, <1>9 DEF Shelved
  <2>2. place = "mark_ready" => Catalog!Readable(req[t].ref)'
    BY <1>1, <1>2, <2>1 DEF Catalog!Readable
  <2> QED
    BY <1>1, <1>9, <2>2 DEF Stands, Suits
<1>11. Locals(t)'
  <2>1. jobs' = jobs
    BY <1>1 DEF tableVars
  <2> QED
    BY <1>5, <1>6, <1>9, <1>10, <2>1 DEF Locals, Creating, Working, Packaging
<1>12. Promised'
  BY <1>1 DEF Inv, Promised
<1>13. ppc'[t] \in Places /\ req'[t] \in Creates \cup Orders \cup {NoReq}
  BY <1>6, <1>9 DEF Places
<1> QED
  BY <1>1, <1>5, <1>6, <1>8, <1>11, <1>12, <1>13, CatalogInv

-----------------------------------------------------------------------------
(* The native packages *)

\* A package name stands for one contract.
LEMMA PackageNamesDiffer ==
    ASSUME NEW c \in Contract, NEW d \in Contract, PackageName(c) = PackageName(d)
    PROVE  c = d
<1>1. c.op = d.op /\ c.rev = d.rev
  BY DEF PackageName
<1> QED
  BY <1>1 DEF Contract

\* What a thread that makes a package knows.
LEMMA PackagingLocals ==
    ASSUME Inv, NEW t \in Callers, ppc[t] \in Packaging
    PROVE  /\ req[t] \in Orders /\ req[t].job \in DOMAIN jobs /\ saving[t] = "idle"
           /\ jobs[req[t].job].variant = req[t].variant /\ req[t].variant.backend # "runner"
           /\ req[t].variant \in Variant /\ req[t].variant.contract \in Contract
           /\ Package(t) \in PackageNames
<1>1. /\ req[t] \in Orders /\ req[t].job \in DOMAIN jobs /\ saving[t] = "idle"
      /\ jobs[req[t].job].variant = req[t].variant /\ req[t].variant.backend # "runner"
  BY DEF Inv, Locals, Working, Packaging
<1>2. req[t].variant \in Variant
  BY <1>1 DEF Orders
<1>3. req[t].variant.contract \in Contract
  BY <1>2, VariantFields
<1> QED
  BY <1>1, <1>2, <1>3 DEF Package, PackageNames

\* A step that changes only a package and the thread that makes it.
LEMMA ArchiveInv ==
    ASSUME Inv, NEW t \in Callers, Moves(t), Locals(t)', ppc'[t] \in Places,
           req'[t] \in Creates \cup Orders \cup {NoReq},
           UNCHANGED <<ready, storeVars, catalogVars, tableVars>>,
           archives' \in [PackageNames -> ArchiveRow], OwnPackages'
    PROVE  Inv'
<1>1. UNCHANGED <<contracts, variants, jobs, sources>> /\ UNCHANGED catalogVars
  BY DEF tableVars, storeVars
<1>2. Tables'
  BY <1>1 DEF Inv, Typed, Tables
<1>3. Grows
  BY <1>1, RowsGrow
<1>4. PublishedStands'
  BY <1>1, <1>2, <1>3, PublishedKept
<1> QED
  BY <1>1, <1>2, <1>3, <1>4, RowsInv

\* One package is replaced, and has at most its own content.
LEMMA PackageReplaced ==
    ASSUME Inv, NEW c \in Contract, NEW a \in ArchiveRow, a.of \subseteq {c},
           archives' = [archives EXCEPT ![PackageName(c)] = a]
    PROVE  archives' \in [PackageNames -> ArchiveRow] /\ OwnPackages'
<1>1. archives \in [PackageNames -> ArchiveRow] /\ PackageName(c) \in PackageNames
  BY DEF Inv, Typed, Tables, PackageNames
<1>2. ASSUME NEW d \in Contract PROVE archives'[PackageName(d)].of \subseteq {d}
  <2>1. PackageName(d) \in PackageNames
    BY DEF PackageNames
  <2>2. CASE PackageName(d) = PackageName(c)
    <3>1. d = c
      BY <2>2, PackageNamesDiffer
    <3> QED
      BY <1>1, <3>1
  <2>3. CASE PackageName(d) # PackageName(c)
    BY <1>1, <2>1, <2>3 DEF Inv, OwnPackages
  <2> QED
    BY <2>2, <2>3
<1> QED
  BY <1>1, <1>2 DEF OwnPackages

\* A thread goes on from one place of the packaging to another.
LEMMA PackagingGoes ==
    ASSUME Inv, NEW t \in Callers, ppc[t] \in Packaging,
           NEW place \in {"open", "write", "mark_failed"}, Goto(t, place), req' = req,
           UNCHANGED <<ready, storeVars, catalogVars, tableVars>>,
           archives' \in [PackageNames -> ArchiveRow], OwnPackages'
    PROVE  Inv'
<1>1. place \in Places /\ UNCHANGED catalogVars /\ jobs' = jobs
  BY DEF Places, tableVars
<1>2. /\ Moves(t) /\ ppc'[t] = place /\ req'[t] = req[t]
      /\ req'[t] \in Creates \cup Orders \cup {NoReq} /\ saving'[t] = saving[t]
  BY <1>1, GotoMoves
<1>3. Locals(t)'
  BY <1>1, <1>2, PackagingLocals DEF Locals, Creating, Working, Packaging
<1> QED
  BY <1>1, <1>2, <1>3, ArchiveInv

\* The threads T stop writing: content stays what it was.
LEMMA TornOwn ==
    ASSUME Inv, NEW T \in SUBSET Callers, archives' = Torn(T)
    PROVE  archives' \in [PackageNames -> ArchiveRow] /\ OwnPackages'
<1>1. archives \in [PackageNames -> ArchiveRow]
  BY DEF Inv, Typed, Tables
<1>2. ASSUME NEW n \in PackageNames
      PROVE  archives'[n] \in ArchiveRow /\ archives'[n].of = archives[n].of
  <2>1. PICK a \in ArchiveRow : a = archives[n]
    BY <1>1
  <2>2. archives'[n] = [a EXCEPT !.writers = @ \ T]
    BY <2>1 DEF Torn
  <2>3. /\ [a EXCEPT !.writers = @ \ T] \in ArchiveRow
        /\ [a EXCEPT !.writers = @ \ T].of = a.of
    BY DEF ArchiveRow
  <2> QED
    BY <2>1, <2>2, <2>3
<1>3. archives' \in [PackageNames -> ArchiveRow]
  BY <1>2 DEF Torn
<1>4. \A d \in Contract : PackageName(d) \in PackageNames
  BY DEF PackageNames
<1> QED
  BY <1>2, <1>3, <1>4 DEF Inv, OwnPackages

\* write_native_package
LEMMA PackageInv ==
    ASSUME Inv, NEW t \in Callers,
           UnlinkPackage(t) \/ OpenPackage(t) \/ WritePackage(t) \/ WritePackageRaises(t)
    PROVE  Inv'
<1>1. /\ ppc[t] \in Packaging /\ UNCHANGED <<ready, storeVars, catalogVars, tableVars>>
  BY DEF UnlinkPackage, OpenPackage, WritePackage, WritePackageRaises, Packaging
<1>2. /\ req[t] \in Orders /\ req[t].job \in DOMAIN jobs /\ saving[t] = "idle"
      /\ jobs[req[t].job].variant = req[t].variant /\ req[t].variant.backend # "runner"
      /\ req[t].variant \in Variant /\ req[t].variant.contract \in Contract
  BY <1>1, PackagingLocals
<1>3. PICK c \in Contract : c = req[t].variant.contract
  BY <1>2
<1>4. Package(t) = PackageName(c) /\ PackageName(c) \in PackageNames
  BY <1>3 DEF Package, PackageNames
<1>5. PICK a \in ArchiveRow : a = archives[PackageName(c)]
  BY <1>4 DEF Inv, Typed, Tables
<1>6. a.of \subseteq {c} /\ a.writers \subseteq Callers
  BY <1>5 DEF Inv, OwnPackages, ArchiveRow
<1>7. CASE UnlinkPackage(t)
  <2>1. NoArchive \in ArchiveRow /\ NoArchive.of \subseteq {c}
    BY DEF NoArchive, ArchiveRow
  <2>2. archives' = [archives EXCEPT ![PackageName(c)] = NoArchive]
    BY <1>4, <1>7 DEF UnlinkPackage
  <2>3. archives' \in [PackageNames -> ArchiveRow] /\ OwnPackages'
    BY <2>1, <2>2, PackageReplaced
  <2>4. PICK place \in {"open", "write", "mark_failed"} : Goto(t, place)
    BY <1>7 DEF UnlinkPackage
  <2>5. req' = req
    BY <1>7 DEF UnlinkPackage
  <2> QED
    BY <1>1, <2>3, <2>4, <2>5, PackagingGoes
<1>8. CASE OpenPackage(t)
  <2>1. PICK b : b = [of |-> IF a.writers = {} THEN {c} ELSE a.of \cup {c},
                      writers |-> a.writers \cup {t}]
    OBVIOUS
  <2>2. b \in ArchiveRow /\ b.of \subseteq {c}
    BY <1>6, <2>1 DEF ArchiveRow
  <2>3. archives' = [archives EXCEPT ![PackageName(c)] = b]
    BY <1>3, <1>4, <1>5, <1>8, <2>1 DEF OpenPackage
  <2>4. archives' \in [PackageNames -> ArchiveRow] /\ OwnPackages'
    BY <2>2, <2>3, PackageReplaced
  <2>5. Goto(t, "write") /\ req' = req
    BY <1>8 DEF OpenPackage
  <2> QED
    BY <1>1, <2>4, <2>5, PackagingGoes
<1>9. CASE WritePackageRaises(t)
  <2>1. archives' = Torn({t}) /\ Goto(t, "mark_failed") /\ req' = req
    BY <1>9 DEF WritePackageRaises
  <2>2. archives' \in [PackageNames -> ArchiveRow] /\ OwnPackages'
    BY <2>1, TornOwn
  <2> QED
    BY <1>1, <2>1, <2>2, PackagingGoes
<1>10. CASE WritePackage(t)
  <2>1. PICK b : b = [a EXCEPT !.writers = @ \ {t}]
    OBVIOUS
  <2>2. b \in ArchiveRow /\ b.of = a.of
    BY <2>1 DEF ArchiveRow
  <2>3. archives' = [archives EXCEPT ![PackageName(c)] = b]
    BY <1>4, <1>5, <1>10, <2>1 DEF WritePackage
  <2>4. archives' \in [PackageNames -> ArchiveRow] /\ OwnPackages'
    BY <1>6, <2>2, <2>3, PackageReplaced
  <2>5. PICK q \in Orders : q = req[t]
    BY <1>2
  <2>6. \E r \in Orders : /\ r = [q EXCEPT !.ref = c] /\ r.ref = c
                          /\ r.variant = q.variant /\ r.job = q.job
    <3>1. 0 \in Nat /\ c \in Refs \cup {NoRef}
      BY DEF Refs
    <3> QED
      BY <3>1, OrderSet
  <2>7. PICK r \in Orders : /\ r = [q EXCEPT !.ref = c] /\ r.ref = c
                            /\ r.variant = q.variant /\ r.job = q.job
    BY <2>6
  <2>8. req' = [req EXCEPT ![t].ref = c] /\ Goto(t, "mark_ready")
    BY <1>3, <1>10 DEF WritePackage
  <2>9. req' = [req EXCEPT ![t] = r]
    BY <2>5, <2>7, <2>8
  <2>10. Moves(t) /\ ppc'[t] = "mark_ready" /\ req'[t] = r /\ saving'[t] = "idle"
    BY <1>1, <1>2, <2>8, <2>9 DEF Moves, Goto, catalogVars, Inv, Typed, Threads
  <2>11. Stands(r.variant, r.ref)'
    <3>1. r.variant.backend # "runner" /\ r.ref = r.variant.contract /\ r.ref \in Contract
      BY <1>2, <1>3, <2>5, <2>7
    <3>2. archives'[PackageName(r.ref)].of \subseteq {r.ref}
      BY <2>4, <3>1 DEF OwnPackages
    <3> QED
      BY <3>1, <3>2 DEF Stands
  <2>12. Locals(t)'
    <3>1. jobs' = jobs
      BY <1>1 DEF tableVars
    <3>2. r.job \in DOMAIN jobs /\ jobs[r.job].variant = r.variant
      BY <1>2, <2>5, <2>7
    <3>3. Stands(req[t].variant, req[t].ref)'
      BY <2>10, <2>11 DEF Stands
    <3> QED
      BY <2>7, <2>10, <3>1, <3>2, <3>3 DEF Locals, Creating, Working, Packaging
  <2> QED
    BY <1>1, <2>4, <2>7, <2>10, <2>12, ArchiveInv DEF Places
<1> QED
  BY <1>7, <1>8, <1>9, <1>10

-----------------------------------------------------------------------------
(* The end of a job *)

\* mark_job_ready: the artifact of the thread stands, and so the new rows do.
LEMMA JobReadyRows ==
    ASSUME Inv, NEW t \in Callers, ppc[t] = "mark_ready", JobReady(t),
           UNCHANGED <<ready, storeVars, catalogVars, contracts, archives>>
    PROVE  /\ Tables' /\ Grows /\ PublishedStands' /\ DOMAIN jobs' = DOMAIN jobs
           /\ \A i \in DOMAIN jobs : jobs'[i].variant = jobs[i].variant
<1>1. /\ req[t] \in Orders /\ req[t].job \in DOMAIN jobs /\ jobs[req[t].job].variant = req[t].variant
      /\ Stands(req[t].variant, req[t].ref)
  BY DEF Inv, Locals, Working
<1>2. PICK v \in Variant, f \in Refs \cup {NoRef} : v = req[t].variant /\ f = req[t].ref
  BY <1>1 DEF Orders
<1>3. PICK j \in DOMAIN jobs : j = req[t].job
  BY <1>1
<1>4. PICK q \in JobRow : q = jobs[j]
  BY DEF Inv, Typed, Tables
<1>5. PICK r : r = [q EXCEPT !.status = "READY", !.ref = f]
  OBVIOUS
<1>6. r \in JobRow /\ r.variant = q.variant /\ r.ref = f /\ r.status = "READY"
  BY <1>5 DEF JobRow
<1>7. jobs' = [jobs EXCEPT ![j] = r]
  BY <1>2, <1>3, <1>4, <1>5 DEF JobReady
<1>8. r.variant = jobs[j].variant /\ r.variant = v
  BY <1>1, <1>2, <1>3, <1>4, <1>6
<1>9. /\ jobs' \in Seq(JobRow) /\ DOMAIN jobs' = DOMAIN jobs
      /\ \A i \in DOMAIN jobs : jobs'[i].variant = jobs[i].variant
      /\ \A i \in DOMAIN jobs : jobs'[i] = IF i = j THEN r ELSE jobs[i]
  BY <1>6, <1>7, <1>8, JobsUpdated
<1>10. PICK p \in [status: {"COMPILED", "PUBLISHED", "FAILED"}, ref: Refs \cup {NoRef}] :
           p = [status |-> "PUBLISHED", ref |-> f]
  OBVIOUS
<1>11. p.status = "PUBLISHED" /\ p.ref = f
  BY <1>10
<1>12. variants' = [variants EXCEPT ![v] = p]
  BY <1>2, <1>10 DEF JobReady
<1>13. variants \in [Variant -> {NoVariant} \cup
           [status: {"COMPILED", "PUBLISHED", "FAILED"}, ref: Refs \cup {NoRef}]]
  BY DEF Inv, Typed, Tables
<1>14. /\ variants' \in [Variant -> {NoVariant} \cup
              [status: {"COMPILED", "PUBLISHED", "FAILED"}, ref: Refs \cup {NoRef}]]
       /\ \A w \in Variant : variants'[w] = IF w = v THEN p ELSE variants[w]
  BY <1>12, <1>13
<1>15. UNCHANGED <<sources, contracts, archives>> /\ UNCHANGED catalogVars
  BY DEF storeVars
<1>16. Tables' /\ OwnPackages'
  BY <1>9, <1>14, <1>15 DEF Inv, Typed, Tables, OwnPackages
<1>17. Grows
  BY <1>9, <1>15, <1>16, RowsGrow
<1>18. Stands(v, f)'
  <2>1. Stands(v, f)
    BY <1>1, <1>2
  <2> QED
    BY <1>17, <2>1, StandsKept
<1>19. ASSUME NEW w \in Variant, variants'[w].status = "PUBLISHED"
       PROVE  \E ref \in Refs \cup {NoRef} : ref = variants'[w].ref /\ Stands(w, ref)'
  <2>1. CASE w = v
    BY <1>11, <1>14, <1>18, <2>1
  <2>2. CASE w # v
    <3>1. variants'[w] = variants[w]
      BY <1>14, <2>2
    <3>2. PICK ref \in Refs \cup {NoRef} : ref = variants[w].ref
      BY <1>13 DEF NoVariant
    <3>3. Stands(w, ref)
      BY <1>19, <3>1, <3>2 DEF Inv, PublishedStands
    <3>4. Stands(w, ref)'
      BY <1>17, <3>3, StandsKept
    <3> QED
      BY <3>1, <3>2, <3>4
  <2> QED
    BY <2>1, <2>2
<1>20. ASSUME NEW i \in DOMAIN jobs, jobs'[i].status = "READY"
       PROVE  \E w \in Variant, ref \in Refs \cup {NoRef} :
                  /\ w = jobs'[i].variant /\ ref = jobs'[i].ref
                  /\ variants'[w].status = "PUBLISHED" /\ Stands(w, ref)'
  <2>1. CASE i = j
    BY <1>6, <1>8, <1>9, <1>11, <1>14, <1>18, <2>1
  <2>2. CASE i # j
    <3>1. jobs'[i] = jobs[i] /\ jobs[i] \in JobRow
      BY <1>9, <2>2 DEF Inv, Typed, Tables
    <3>2. PICK w \in Variant, ref \in Refs \cup {NoRef} : w = jobs[i].variant /\ ref = jobs[i].ref
      BY <3>1 DEF JobRow
    <3>3. variants[w].status = "PUBLISHED" /\ Stands(w, ref)
      BY <1>20, <3>1, <3>2 DEF Inv, PublishedStands
    <3>4. Stands(w, ref)'
      BY <1>17, <3>3, StandsKept
    <3>5. variants'[w].status = "PUBLISHED"
      BY <1>11, <1>14, <3>3
    <3> QED
      BY <3>1, <3>2, <3>4, <3>5
  <2> QED
    BY <2>1, <2>2
<1>21. PublishedStands'
  <2>1. ASSUME NEW w \in Variant, variants'[w].status = "PUBLISHED"
        PROVE  Stands(w, variants[w].ref)'
    <3>1. PICK ref \in Refs \cup {NoRef} : ref = variants'[w].ref /\ Stands(w, ref)'
      BY <1>19, <2>1
    <3> QED
      BY <3>1
  <2>2. ASSUME NEW i \in DOMAIN jobs', jobs'[i].status = "READY"
        PROVE  variants'[jobs'[i].variant].status = "PUBLISHED" /\ Stands(jobs[i].variant, jobs[i].ref)'
    <3>1. PICK w \in Variant, ref \in Refs \cup {NoRef} :
                  /\ w = jobs'[i].variant /\ ref = jobs'[i].ref
                  /\ variants'[w].status = "PUBLISHED" /\ Stands(w, ref)'
      BY <1>9, <1>20, <2>2
    <3> QED
      BY <3>1
  <2> QED
    BY <2>1, <2>2 DEF PublishedStands
<1> QED
  BY <1>9, <1>16, <1>17, <1>21

\* mark_job_ready, and the database that raises after it or instead of it.
LEMMA MarkJobReadyInv ==
    ASSUME Inv, NEW t \in Callers, MarkJobReady(t) \/ MarkJobReadyRaises(t)
    PROVE  Inv'
<1>1. /\ ppc[t] = "mark_ready" /\ (JobReady(t) \/ UNCHANGED <<jobs, variants>>)
      /\ UNCHANGED <<ready, storeVars, catalogVars, contracts, archives>>
  BY DEF MarkJobReady, MarkJobReadyRaises
<1>2. /\ Tables' /\ Grows /\ PublishedStands' /\ DOMAIN jobs' = DOMAIN jobs
      /\ \A i \in DOMAIN jobs : jobs'[i].variant = jobs[i].variant
  <2>1. CASE JobReady(t)
    BY <1>1, <2>1, JobReadyRows
  <2>2. CASE UNCHANGED <<jobs, variants>>
    <3>1. UNCHANGED <<jobs, variants, sources, contracts, archives>> /\ UNCHANGED catalogVars
      BY <1>1, <2>2 DEF storeVars
    <3>2. Tables' /\ OwnPackages'
      BY <3>1 DEF Inv, Typed, Tables, OwnPackages
    <3>3. Grows
      BY <3>1, <3>2, RowsGrow
    <3>4. PublishedStands'
      BY <3>1, <3>2, <3>3, PublishedKept
    <3> QED
      BY <3>1, <3>2, <3>3, <3>4
  <2> QED
    BY <1>1, <2>1, <2>2
<1>3. UNCHANGED catalogVars
  BY <1>1
<1>4. CASE MarkJobReady(t)
  <2>1. Moves(t) /\ Locals(t)' /\ ppc'[t] \in Places /\ req'[t] = NoReq
    BY <1>1, <1>3, <1>4, EndMoves DEF MarkJobReady
  <2> QED
    BY <1>1, <1>2, <2>1, RowsInv
<1>5. CASE MarkJobReadyRaises(t)
  <2>1. Goto(t, "mark_failed") /\ req' = req /\ "mark_failed" \in Places
    BY <1>5 DEF MarkJobReadyRaises, Places
  <2>2. /\ Moves(t) /\ ppc'[t] = "mark_failed" /\ req'[t] = req[t]
        /\ req'[t] \in Creates \cup Orders \cup {NoReq} /\ saving'[t] = saving[t]
    BY <1>3, <2>1, GotoMoves
  <2>3. /\ req[t] \in Orders /\ req[t].job \in DOMAIN jobs /\ saving[t] = "idle"
        /\ jobs[req[t].job].variant = req[t].variant
    BY <1>1 DEF Inv, Locals, Working
  <2>4. Locals(t)'
    BY <1>2, <2>2, <2>3 DEF Locals, Creating, Working, Packaging
  <2> QED
    BY <1>1, <1>2, <2>1, <2>2, <2>4, RowsInv
<1> QED
  BY <1>4, <1>5

\* mark_job_failed
LEMMA MarkJobFailedInv ==
    ASSUME Inv, NEW t \in Callers, MarkJobFailed(t)
    PROVE  Inv'
<1>1. /\ ppc[t] = "mark_failed" /\ MarkJob(t, "FAILED") /\ End(t)
      /\ UNCHANGED <<ready, storeVars, catalogVars, contracts, archives>>
  BY DEF MarkJobFailed
<1>2. req[t] \in Orders
  BY <1>1 DEF Inv, Locals, Working
<1>3. PICK v \in Variant : v = req[t].variant
  BY <1>2 DEF Orders
<1>4. Marked(v, "FAILED")
  BY <1>3 DEF MarkJobFailed, FailedVariant, Marked
<1>5. /\ variants' \in [Variant -> {NoVariant} \cup
             [status: {"COMPILED", "PUBLISHED", "FAILED"}, ref: Refs \cup {NoRef}]]
      /\ \A w \in Variant : variants'[w].status = "PUBLISHED" => variants'[w] = variants[w]
      /\ \A w \in Variant : variants[w].status = "PUBLISHED" => variants'[w].status = "PUBLISHED"
  BY <1>4, VariantUpdated
<1>6. /\ jobs' \in Seq(JobRow) /\ DOMAIN jobs' = DOMAIN jobs
      /\ \A i \in DOMAIN jobs : jobs'[i].variant = jobs[i].variant
      /\ \A i \in DOMAIN jobs : jobs'[i].status = "READY" => jobs'[i] = jobs[i]
  BY <1>1, MarkJobRow DEF Working
<1>7. UNCHANGED <<sources, contracts, archives>> /\ UNCHANGED catalogVars
  BY <1>1 DEF storeVars
<1>8. Tables' /\ OwnPackages'
  BY <1>5, <1>6, <1>7 DEF Inv, Typed, Tables, OwnPackages
<1>9. Grows
  BY <1>6, <1>7, <1>8, RowsGrow
<1>10. PublishedStands'
  BY <1>5, <1>6, <1>8, <1>9, PublishedKept
<1>11. Moves(t) /\ Locals(t)' /\ ppc'[t] \in Places /\ req'[t] = NoReq
  BY <1>1, <1>7, EndMoves
<1> QED
  BY <1>1, <1>8, <1>9, <1>10, <1>11, RowsInv

\* The process dies.
LEMMA CrashInv ==
    ASSUME Inv, Crash
    PROVE  Inv'
<1>1. /\ ppc' = [t \in Callers |-> "idle"] /\ req' = [t \in Callers |-> NoReq]
      /\ copying' = [t \in Callers |-> <<>>] /\ archives' = Torn(Callers)
      /\ UNCHANGED <<ready, workspace, sources, contracts, variants, jobs>>
  BY DEF Crash, tableVars
<1>2. /\ releases' = releases /\ saving' = [t \in Callers |-> "idle"]
      /\ packed' = [t \in Callers |-> Catalog!NothingPacked]
  BY DEF Crash, Catalog!CatalogCrash
<1>3. archives' \in [PackageNames -> ArchiveRow] /\ OwnPackages'
  <2>1. Callers \in SUBSET Callers
    OBVIOUS
  <2> QED
    BY <1>1, <2>1, TornOwn
<1>4. Tables' /\ Promised'
  BY <1>1, <1>3 DEF Inv, Typed, Tables, Promised
<1>5. CatalogWhole' /\ \A r \in ReleaseIds : Catalog!Readable(r) => Catalog!Readable(r)'
  BY <1>2 DEF Inv, CatalogWhole, Catalog!Readable
<1>6. Catalog!CatalogTypeOK'
  BY <1>2 DEF Inv, Typed, Catalog!CatalogTypeOK
<1>7. Shelf'
  BY <1>2 DEF Inv, Shelf, Shelved, Writing
<1>8. Grows
  BY <1>1, <1>3, <1>5 DEF Grows
<1>9. PublishedStands'
  BY <1>1, <1>4, <1>8, PublishedKept
<1>10. Threads' /\ \A u \in Callers : Locals(u)'
  BY <1>1, <1>2 DEF Threads, Places, Locals, Creating, Working, Packaging
<1>11. Store!StoreTypeOK'
  <2>1. <<>> \in Seq(Store!Contents)
    OBVIOUS
  <2> QED
    BY <1>1, <2>1 DEF Inv, Typed, Store!StoreTypeOK
<1> QED
  BY <1>1, <1>3, <1>4, <1>5, <1>6, <1>7, <1>9, <1>10, <1>11, SourcesKept DEF Inv, Typed

-----------------------------------------------------------------------------
(* The theorems *)

\* At the start, every operator has the contracts of Saved and nothing is published.
LEMMA InitInv == Init => Inv
<1> SUFFICES ASSUME Init PROVE Inv
  OBVIOUS
<1>1. /\ ready = [s \in Specs |-> NoImage]
      /\ workspace = [f \in Store!Files |-> 0]
      /\ sources = [r \in Store!Revisions |-> IF r \in Range(Saved) THEN r ELSE NoDir]
      /\ copying = [t \in Callers |-> <<>>]
  BY DEF Init, Runtime!Init, Store!StoreInit
<1>2. /\ releases = [r \in ReleaseIds |-> Catalog!NoRelease]
      /\ saving = [t \in Callers |-> "idle"]
      /\ packed = [t \in Callers |-> Catalog!NothingPacked]
  BY DEF Init, Catalog!CatalogInit
<1>3. /\ contracts = [o \in Operators |-> Saved]
      /\ variants = [v \in Variant |-> NoVariant] /\ jobs = <<>>
      /\ archives = [n \in PackageNames |-> NoArchive]
      /\ ppc = [t \in Callers |-> "idle"] /\ req = [t \in Callers |-> NoReq]
  BY DEF Init
<1>4. Store!StoreTypeOK
  <2>1. 0 \in Store!Contents /\ <<>> \in Seq(Store!Contents)
    BY PublishAssumption DEF Store!Contents
  <2>2. workspace \in Store!Revisions
    BY <1>1, <2>1 DEF Store!Revisions
  <2> QED
    BY <1>1, <2>1, <2>2 DEF Store!StoreTypeOK
<1>5. Catalog!CatalogTypeOK
  <2>1. Catalog!NoRelease \in Catalog!Release
    BY DEF Catalog!NoRelease, Catalog!Release
  <2> QED
    BY <1>2, <2>1 DEF Catalog!CatalogTypeOK
<1>6. Tables
  <2>1. NoArchive \in ArchiveRow /\ <<>> \in Seq(JobRow) /\ Saved \in Seq(Selected)
    BY PublishAssumption DEF NoArchive, ArchiveRow
  <2> QED
    BY <1>3, <2>1 DEF Tables
<1>7. Threads /\ \A t \in Callers : Locals(t)
  BY <1>2, <1>3 DEF Threads, Places, Locals, Creating, Working, Packaging
<1>8. Sourced
  BY <1>1 DEF Sourced
<1>9. ContractsSourced
  <2>1. ASSUME NEW i \in DOMAIN Saved PROVE sources[Saved[i]] = Saved[i]
    <3>1. Saved[i] \in Selected
      BY PublishAssumption
    <3>2. Saved[i] \in Range(Saved)
      BY DEF Range
    <3>3. PICK r \in Store!Revisions : r = Saved[i]
      BY <3>1, SelectedRevisions
    <3> QED
      BY <1>1, <3>2, <3>3
  <2> QED
    BY <1>3, <2>1, PublishAssumption DEF ContractsSourced
<1>10. Promised
  BY <1>1 DEF Promised
<1>11. Shelf /\ CatalogWhole
  BY <1>2 DEF Shelf, Shelved, Writing, CatalogWhole, Catalog!NoRelease
<1>12. OwnPackages
  <2>1. \A c \in Contract : PackageName(c) \in PackageNames
    BY DEF PackageNames
  <2> QED
    BY <1>3, <2>1 DEF OwnPackages, NoArchive
<1>13. PublishedStands
  BY <1>3 DEF PublishedStands, NoVariant
<1> QED
  BY <1>4, <1>5, <1>6, <1>7, <1>8, <1>9, <1>10, <1>11, <1>12, <1>13 DEF Inv, Typed

\* Every step keeps the invariant.
LEMMA NextInv == Inv /\ [Next]_vars => Inv'
<1> SUFFICES ASSUME Inv, [Next]_vars PROVE Inv'
  OBVIOUS
<1>1. CASE EditWorkspace
  BY <1>1, CreatingInv
<1>2. ASSUME NEW t \in Callers, NEW op \in Operators, CreateVirtualContract(t, op) PROVE Inv'
  BY <1>2, CreatingInv
<1>3. ASSUME NEW t \in Callers, NEW op \in Operators, NEW backend \in Backends,
             NEW kind \in {"compile", "publish"}, LoadCurrentParent(t, op, backend, kind)
      PROVE  Inv'
  BY <1>3, ReadingInv
<1>4. ASSUME NEW t \in Callers, Prepare(t) PROVE Inv'
  <2>1. CASE ScanWorkspace(t) \/ CopyWorkspace(t) \/ PutWorkspaceRaises(t)
    BY <2>1, CreatingInv
  <2>2. CASE PutWorkspace(t)
    BY <2>2, PutWorkspaceInv
  <2>3. CASE SaveVirtualContract(t)
    BY <2>3, SaveVirtualContractInv
  <2>4. CASE UpsertVariant(t)
    BY <2>4, UpsertVariantInv
  <2>5. CASE CreatePublishJob(t)
    BY <2>5, CreatePublishJobInv
  <2>6. CASE MarkJobRunning(t) \/ MarkJobRunningRaises(t)
    BY <2>6, MarkJobRunningInv
  <2> QED
    BY <1>4, <2>1, <2>2, <2>3, <2>4, <2>5, <2>6 DEF Prepare
<1>5. ASSUME NEW t \in Callers, Work(t) PROVE Inv'
  <2>1. CASE ResolveRuntimeRaises(t) \/ PackageExists(t) \/ MarkJobFailedRaises(t)
    BY <2>1, ReadingInv
  <2>2. CASE SaveRelease(t)
    BY <2>2, SaveReleaseInv
  <2>3. CASE SaveReturns(t)
    BY <2>3, SaveReturnsInv
  <2>4. CASE UnlinkPackage(t) \/ OpenPackage(t) \/ WritePackage(t) \/ WritePackageRaises(t)
    BY <2>4, PackageInv
  <2>5. CASE MarkJobReady(t) \/ MarkJobReadyRaises(t)
    BY <2>5, MarkJobReadyInv
  <2>6. CASE MarkJobFailed(t)
    BY <2>6, MarkJobFailedInv
  <2> QED
    BY <1>5, <2>1, <2>2, <2>3, <2>4, <2>5, <2>6 DEF Work
<1>6. ASSUME NEW t \in Callers, RuntimeNotReady(t) PROVE Inv'
  BY <1>6, ReadingInv
<1>7. ASSUME NEW t \in Callers, NEW bits \in Bits, PublishRunner(t, bits) PROVE Inv'
  BY <1>7, PublishRunnerInv
<1>8. CASE Crash
  BY <1>8, CrashInv
<1>9. CASE UNCHANGED vars
  <2>1. UNCHANGED <<ready, sources, catalogVars, tableVars, archives, ppc, req>> /\ UNCHANGED storeVars
    BY <1>9 DEF vars, storeVars
  <2>2. Store!StoreTypeOK'
    BY <2>1 DEF storeVars, Inv, Typed, Store!StoreTypeOK
  <2> QED
    BY <2>1, <2>2, StillInv
<1> QED
  BY <1>1, <1>2, <1>3, <1>4, <1>5, <1>6, <1>7, <1>8, <1>9 DEF Next

\* The invariant of every reachable state, whatever fails.
THEOREM Inductive == Spec => []Inv
BY InitInv, NextInv, PTL DEF Spec

\* Every variable of the publish service has its type, and a thread that ends a job ends a job
\* that exists.
THEOREM TypeCorrect == Spec => []TypeOK
<1>1. Inv => TypeOK
  BY DEF Inv, Typed, Tables, Threads, Locals, Working, TypeOK, JobRow, ArchiveRow
<1> QED
  BY <1>1, Inductive, PTL

\* put_workspace and save_virtual_contract: for any number of files, edits, threads and operators,
\* a saved contract has a snapshot with exactly the revision it names, and one version.
THEOREM ContractsAlwaysSourced == Spec => []ContractsSourced
<1>1. Inv => ContractsSourced
  BY DEF Inv
<1> QED
  BY <1>1, Inductive, PTL

\* Catalog.save: however many publishers race, fail or die, metadata that the Runner can see
\* belongs to the archive beside it.
THEOREM CatalogAlwaysWhole == Spec => []CatalogWhole
<1>1. Inv => CatalogWhole
  BY DEF Inv
<1> QED
  BY <1>1, Inductive, PTL

\* publish_backend: whatever fails, a PUBLISHED variant and a READY job name an artifact that
\* stands, made from the contract of the variant.
THEOREM PublishedAlwaysStands == Spec => []PublishedStands
<1>1. Inv => PublishedStands
  BY DEF Inv
<1> QED
  BY <1>1, Inductive, PTL

=============================================================================
