--------------------------- MODULE ReleaseCatalog ---------------------------
(***************************************************************************)
(* runner_engine/catalog.py (Catalog) and what runner_engine/publisher.py  *)
(* (OperatorPublisher) gives it.                                           *)
(*                                                                         *)
(* A release is a directory with an archive and a metadata file, written   *)
(* by concurrent publishers and read by the Runner.  A release id is the   *)
(* SHA-256 of what goes into the release (publisher.py: identity), so it   *)
(* is named here by that.  The archive of one release may have several     *)
(* SHA-256: one per build of zlib that packs it.                           *)
(***************************************************************************)
CONSTANTS
    ReleaseIds,       \* release.id
    Bits,             \* artifact_sha256 of an archive, for one release
    Callers,          \* publishing threads
    NoFile            \* no such file

VARIABLES
    releases,         \* the directory of each release id
    saving,           \* where each thread is in Catalog.save
    packed            \* its arguments: the release and its archive

catalogVars == <<releases, saving, packed>>

-----------------------------------------------------------------------------
NoRelease == [dir |-> FALSE, artifact |-> NoFile, metadata |-> NoFile]

Release == [dir: BOOLEAN, artifact: Bits \cup {NoFile}, metadata: Bits \cup {NoFile}]

NothingPacked == [id |-> NoFile, bits |-> NoFile]

CatalogTypeOK ==
    /\ releases \in [ReleaseIds -> Release]
    /\ saving \in [Callers -> {"idle", "exists", "mkdir", "artifact", "metadata", "saved", "raised"}]
    /\ packed \in [Callers -> [id: ReleaseIds, bits: Bits] \cup {NothingPacked}]

CatalogInit ==
    /\ releases = [r \in ReleaseIds |-> NoRelease]
    /\ saving = [t \in Callers |-> "idle"]
    /\ packed = [t \in Callers |-> NothingPacked]

SaveGoto(t, place) == saving' = [saving EXCEPT ![t] = place]

\* Catalog.get, as the Runner and save call it: release.json first, then the archive.
Readable(r) == releases[r].metadata # NoFile /\ releases[r].artifact # NoFile

\* OperatorPublisher.publish: the release is identified and packed, then saved.
Publish(t, r, bits) ==
    /\ saving[t] = "idle"
    /\ packed' = [packed EXCEPT ![t] = [id |-> r, bits |-> bits]]
    /\ SaveGoto(t, "exists")
    /\ UNCHANGED releases

\* release_dir.exists(): the release that is there, RELEASE_NOT_FOUND, CATALOG_CONFLICT, or go on.
SaveExists(t) ==
    LET r == packed[t].id IN
    /\ saving[t] = "exists"
    /\ SaveGoto(t, IF ~releases[r].dir THEN "mkdir"
                   ELSE IF Readable(r) /\ releases[r].metadata = packed[t].bits THEN "saved"
                   ELSE "raised")
    /\ UNCHANGED <<releases, packed>>

\* Mutant: mkdir(exist_ok=True).
SaveMkdirAnyway(t) ==
    /\ saving[t] = "mkdir"
    /\ releases' = [releases EXCEPT ![packed[t].id].dir = TRUE]
    /\ SaveGoto(t, "artifact")
    /\ UNCHANGED packed

\* release_dir.mkdir: FileExistsError for the second of two publishers.
SaveMkdir(t) ==
    LET r == packed[t].id IN
    /\ saving[t] = "mkdir"
    /\ releases' = [releases EXCEPT ![r].dir = TRUE]
    /\ SaveGoto(t, IF releases[r].dir THEN "raised" ELSE "artifact")
    /\ UNCHANGED packed

\* tmp_artifact.replace(artifact_path)
SaveArtifact(t) ==
    /\ saving[t] = "artifact"
    /\ releases' = [releases EXCEPT ![packed[t].id].artifact = packed[t].bits]
    /\ SaveGoto(t, "metadata")
    /\ UNCHANGED packed

\* tmp_metadata.replace(metadata_path); get reads back what was written.
SaveMetadata(t) ==
    /\ saving[t] = "metadata"
    /\ releases' = [releases EXCEPT ![packed[t].id].metadata = packed[t].bits]
    /\ SaveGoto(t, "saved")
    /\ UNCHANGED packed

\* The disk is full: the directory stays as it is.
SaveRaises(t) ==
    /\ saving[t] \in {"artifact", "metadata"}
    /\ SaveGoto(t, "raised")
    /\ UNCHANGED <<releases, packed>>

SaveStep(t) == SaveExists(t) \/ SaveMkdir(t) \/ SaveArtifact(t) \/ SaveMetadata(t)

\* save has returned or raised, and its caller goes on.
SaveEnds(t) ==
    /\ saving[t] \in {"saved", "raised"}
    /\ SaveGoto(t, "idle")
    /\ packed' = [packed EXCEPT ![t] = NothingPacked]
    /\ UNCHANGED releases

\* The process of all publishers dies; the directories stay as they are.
CatalogCrash ==
    /\ saving' = [t \in Callers |-> "idle"]
    /\ packed' = [t \in Callers |-> NothingPacked]
    /\ UNCHANGED releases
=============================================================================
