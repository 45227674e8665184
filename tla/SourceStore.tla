----------------------------- MODULE SourceStore ----------------------------
(***************************************************************************)
(* publish_service/source_store.py (LocalSourceStore) and the copying of a *)
(* workspace, operator_authoring/snapshot.py (snapshot_workspace).         *)
(*                                                                         *)
(* A workspace is edited by its owner, file by file, whenever he likes.  A *)
(* revision is the SHA-256 of all its files, so it is named here by what   *)
(* it hashes: the content of every file.  put_workspace copies the files   *)
(* one after the other into a directory of its own, compares the revision  *)
(* of the copy with the expected one and renames the directory to it.      *)
(***************************************************************************)
EXTENDS Naturals, Sequences, Functions

CONSTANTS
    FileOrder,        \* the paths of a workspace, in the order of the copy
    MaxEdits,         \* bound: how often a file is edited
    Callers,          \* request threads
    NoDir             \* no such directory

VARIABLES
    workspace,        \* what each file of the workspace holds
    sources,          \* the store: what the directory named by a revision holds
    copying           \* the temporary directory of each thread: the files copied so far

storeVars == <<workspace, sources, copying>>

Files == Range(FileOrder)

\* Every edit of a file gives it a content it did not have before.
Contents == 0..MaxEdits

Revisions == [Files -> Contents]

StoreTypeOK ==
    /\ workspace \in Revisions
    /\ sources \in [Revisions -> Revisions \cup {NoDir}]
    /\ copying \in [Callers -> Seq(Contents)]

\* The revisions in S have been stored before.
StoreInit(S) ==
    /\ workspace = [f \in Files |-> 0]
    /\ sources = [r \in Revisions |-> IF r \in S THEN r ELSE NoDir]
    /\ copying = [t \in Callers |-> <<>>]

\* The owner saves a file.
Edit(f) ==
    /\ workspace[f] < MaxEdits
    /\ workspace' = [workspace EXCEPT ![f] = @ + 1]
    /\ UNCHANGED <<sources, copying>>

\* final_dir.is_dir(): what it holds is hashed again.
Stored(rev) == sources[rev] = rev

Corrupt(rev) == sources[rev] \notin {NoDir, rev}

\* snapshot_workspace copies its next file.
CopyFile(t) ==
    /\ Len(copying[t]) < Len(FileOrder)
    /\ copying' = [copying EXCEPT ![t] = Append(@, workspace[FileOrder[Len(@) + 1]])]
    /\ UNCHANGED <<workspace, sources>>

\* source_revision(temp_dir)
Copied(t) == [f \in Files |-> copying[t][CHOOSE i \in DOMAIN FileOrder : FileOrder[i] = f]]

\* finally: shutil.rmtree(temp_dir)
RemoveCopy(t) == copying' = [copying EXCEPT ![t] = <<>>]

\* Mutant: the copy is not compared with the expected revision.
CopyAccepted(t, rev) == Len(copying[t]) = Len(FileOrder)

CopyMatches(t, rev) == Len(copying[t]) = Len(FileOrder) /\ Copied(t) = rev

\* os.replace(temp_dir, final_dir), which fails on the directory of another thread, and the
\* loser is content with that one.
Rename(t, rev) ==
    /\ CopyMatches(t, rev)
    /\ sources' = [sources EXCEPT ![rev] = IF @ = NoDir THEN Copied(t) ELSE @]
    /\ RemoveCopy(t)
    /\ UNCHANGED workspace

\* "workspace changed while creating immutable source snapshot", a symlink, too many bytes,
\* no requirements.txt.
GiveUpCopy(t) ==
    /\ RemoveCopy(t)
    /\ UNCHANGED <<workspace, sources>>
=============================================================================
