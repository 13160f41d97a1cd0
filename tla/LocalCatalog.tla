---------------------------- MODULE LocalCatalog ----------------------------
(***************************************************************************)
(* The archive store of the vps topology: ingest (Stage, FindExisting-     *)
(* SHA256, CommitLocal), DeleteArchive and the staging sweep, each broken  *)
(* into the file-system and SQLite operations it performs, with the        *)
(* failure of each operation and a crash of the server between any two.    *)
(*                                                                         *)
(* Abstractions: an archive id is 128 random bits, so a drawn id is fresh; *)
(* content is what its sha256 identifies; file names, sizes, sources and   *)
(* the audit row written after an answer carry no control and are left     *)
(* out.  Uploads and deletes are HTTP handlers (or the inbox watcher and   *)
(* the retention sweep, which call the same functions) and run             *)
(* concurrently.                                                           *)
(***************************************************************************)
EXTENDS Naturals

CONSTANTS
    Ids,         \* archive ids
    Contents,    \* archive contents, identified by their sha256
    Uploads,     \* upload requests; each is made at most once
    Deletes,     \* delete requests; each is made at most once
    None,        \* no file, no row, no id
    Partial,     \* a staging file that is still being written
    MaxCrashes   \* bound on the number of server crashes

ASSUME SentinelAssumption == {None, Partial} \cap Contents = {} /\ None # Partial
ASSUME IdAssumption == None \notin Ids
ASSUME CrashAssumption == MaxCrashes \in Nat

VARIABLES
    staging,     \* staging/{id}.partial: its content, Partial or None
    aged,        \* ids whose staging file is older than StagingGrace
    home,        \* home/{id}.tar.gz
    rows,        \* archives table: id -> sha256
    resolving,   \* ids a share or pin request has resolved but not yet linked
    deps,        \* ids that have share_links or archive_pins rows
    raced,       \* history: ids whose row went while a link was being made
    up,          \* upload handlers
    del,         \* delete handlers
    crashes      \* number of crashes so far

vars == <<staging, aged, home, rows, resolving, deps, raced, up, del, crashes>>

UploadPC == {"idle", "writing", "check", "rename", "insert",
             "created", "duplicate", "error", "stranded", "crashed"}
DeletePC == {"idle", "blob", "row", "deleted", "notfound", "error", "crashed"}

TypeOK ==
    /\ staging \in [Ids -> Contents \cup {None, Partial}]
    /\ aged \subseteq Ids
    /\ home \in [Ids -> Contents \cup {None}]
    /\ rows \in [Ids -> Contents \cup {None}]
    /\ resolving \subseteq Ids
    /\ deps \subseteq Ids
    /\ raced \subseteq Ids
    /\ up \in [Uploads -> [pc : UploadPC, id : Ids \cup {None},
                           content : Contents \cup {None}]]
    /\ del \in [Deletes -> [pc : DeletePC, id : Ids \cup {None}]]
    /\ crashes \in 0..MaxCrashes

Init ==
    /\ staging = [i \in Ids |-> None]
    /\ aged = {}
    /\ home = [i \in Ids |-> None]
    /\ rows = [i \in Ids |-> None]
    /\ resolving = {}
    /\ deps = {}
    /\ raced = {}
    /\ up = [u \in Uploads |-> [pc |-> "idle", id |-> None, content |-> None]]
    /\ del = [d \in Deletes |-> [pc |-> "idle", id |-> None]]
    /\ crashes = 0

-----------------------------------------------------------------------------
(* Ingest *)

Fresh(i) == \A u \in Uploads : up[u].id # i

\* The staging file goes: renamed, or removed.
Unstage(i) ==
    /\ staging' = [staging EXCEPT ![i] = None]
    /\ aged' = aged \ {i}

\* _ = os.Remove(st.Path): its error is ignored, and the file may stay.
Discard(i) == Unstage(i) \/ UNCHANGED <<staging, aged>>

GoUp(u, pc) == up' = [up EXCEPT ![u].pc = pc]

\* Mutant: the handler does not wait for the body.
BeginStage_SkipsBody(u, i, c) ==
    /\ up[u].pc = "idle"
    /\ Fresh(i)
    /\ up' = [up EXCEPT ![u] = [pc |-> "check", id |-> i, content |-> c]]
    /\ staging' = [staging EXCEPT ![i] = Partial]
    /\ UNCHANGED <<aged, home, rows, resolving, deps, raced, del, crashes>>

\* Stage: draw an id and open staging/{id}.partial with O_EXCL.
BeginStage(u, i, c) ==
    /\ up[u].pc = "idle"
    /\ Fresh(i)
    /\ up' = [up EXCEPT ![u] = [pc |-> "writing", id |-> i, content |-> c]]
    /\ staging' = [staging EXCEPT ![i] = Partial]
    /\ UNCHANGED <<aged, home, rows, resolving, deps, raced, del, crashes>>

\* io.Copy and Close succeed.  A file the sweep unlinked meanwhile stays
\* unlinked: the writer only holds its descriptor.
FinishStage(u) ==
    /\ up[u].pc = "writing"
    /\ GoUp(u, "check")
    /\ LET i == up[u].id IN
         staging' = [staging EXCEPT ![i] = IF @ = None THEN None ELSE up[u].content]
    /\ UNCHANGED <<aged, home, rows, resolving, deps, raced, del, crashes>>

\* The body is cut short, is empty, or the disk is full.
FailStage(u) ==
    /\ up[u].pc = "writing"
    /\ GoUp(u, "error")
    /\ Discard(up[u].id)
    /\ UNCHANGED <<home, rows, resolving, deps, raced, del, crashes>>

Existing(c) == {i \in Ids : rows[i] = c}

\* FindExistingSHA256: duplicate (409), not found, or a database error (500).
\* The vps topology never writes transit rows.
CheckDuplicate(u) ==
    /\ up[u].pc = "check"
    /\ IF Existing(up[u].content) # {}
         THEN GoUp(u, "duplicate") /\ Discard(up[u].id)
         ELSE GoUp(u, "rename") /\ UNCHANGED <<staging, aged>>
    /\ UNCHANGED <<home, rows, resolving, deps, raced, del, crashes>>

\* Mutant: any result but ErrNotFound counts as a duplicate.
FailCheck_AsDuplicate(u) ==
    /\ up[u].pc = "check"
    /\ GoUp(u, "duplicate")
    /\ Discard(up[u].id)
    /\ UNCHANGED <<home, rows, resolving, deps, raced, del, crashes>>

FailCheck(u) ==
    /\ up[u].pc = "check"
    /\ GoUp(u, "error")
    /\ Discard(up[u].id)
    /\ UNCHANGED <<home, rows, resolving, deps, raced, del, crashes>>

\* CommitLocal, os.Rename(st.Path, home).
RenameHome(u) ==
    /\ up[u].pc = "rename"
    /\ staging[up[u].id] # None
    /\ GoUp(u, "insert")
    /\ home' = [home EXCEPT ![up[u].id] = staging[up[u].id]]
    /\ Unstage(up[u].id)
    /\ UNCHANGED <<rows, resolving, deps, raced, del, crashes>>

\* Mutant: the rename's error is ignored.
FailRename_Ignored(u) ==
    /\ up[u].pc = "rename"
    /\ GoUp(u, "insert")
    /\ Discard(up[u].id)
    /\ UNCHANGED <<home, rows, resolving, deps, raced, del, crashes>>

\* The rename fails, always so when the sweep took the staging file.
FailRename(u) ==
    /\ up[u].pc = "rename"
    /\ GoUp(u, "error")
    /\ Discard(up[u].id)
    /\ UNCHANGED <<home, rows, resolving, deps, raced, del, crashes>>

\* CommitLocal, INSERT INTO archives; the handler answers 201.
InsertRow(u) ==
    /\ up[u].pc = "insert"
    /\ GoUp(u, "created")
    /\ rows' = [rows EXCEPT ![up[u].id] = up[u].content]
    /\ UNCHANGED <<staging, aged, home, resolving, deps, raced, del, crashes>>

\* The INSERT fails (500) and the home file is taken back: _ = os.Remove(home).
\* Its error is ignored too; an upload it strands is told apart by its pc.
FailInsert(u) ==
    /\ up[u].pc = "insert"
    /\ \/ /\ GoUp(u, "error")
          /\ home' = [home EXCEPT ![up[u].id] = None]
       \/ /\ GoUp(u, "stranded")
          /\ UNCHANGED home
    /\ UNCHANGED <<staging, aged, rows, resolving, deps, raced, del, crashes>>

-----------------------------------------------------------------------------
(* Delete *)

GoDel(d, pc) == del' = [del EXCEPT ![d].pc = pc]

\* removeArchive: ArchiveByID must find the row.
BeginDelete(d, i) ==
    /\ del[d].pc = "idle"
    /\ rows[i] # None
    /\ del' = [del EXCEPT ![d] = [pc |-> "blob", id |-> i]]
    /\ UNCHANGED <<staging, aged, home, rows, resolving, deps, raced, up, crashes>>

\* DeleteArchive, os.Remove(p); a missing file is tolerated.
RemoveBlob(d) ==
    /\ del[d].pc = "blob"
    /\ GoDel(d, "row")
    /\ home' = [home EXCEPT ![del[d].id] = None]
    /\ UNCHANGED <<staging, aged, rows, resolving, deps, raced, up, crashes>>

\* Mutant: a remove error does not abort the delete.
FailRemoveBlob_Ignored(d) ==
    /\ del[d].pc = "blob"
    /\ GoDel(d, "row")
    /\ UNCHANGED <<staging, aged, home, rows, resolving, deps, raced, up, crashes>>

FailRemoveBlob(d) ==
    /\ del[d].pc = "blob"
    /\ home[del[d].id] # None
    /\ GoDel(d, "error")
    /\ UNCHANGED <<staging, aged, home, rows, resolving, deps, raced, up, crashes>>

\* Mutant: the dependents are forgotten.
DropRow_KeepsDependents(d) ==
    /\ del[d].pc = "row"
    /\ rows[del[d].id] # None
    /\ GoDel(d, "deleted")
    /\ rows' = [rows EXCEPT ![del[d].id] = None]
    /\ UNCHANGED <<staging, aged, home, resolving, deps, raced, up, crashes>>

\* Mutant: the number of rows deleted is not looked at.
DropRow_IgnoresCount(d) ==
    /\ del[d].pc = "row"
    /\ GoDel(d, "deleted")
    /\ rows' = [rows EXCEPT ![del[d].id] = None]
    /\ deps' = deps \ {del[d].id}
    /\ raced' = IF del[d].id \in resolving THEN raced \cup {del[d].id} ELSE raced
    /\ UNCHANGED <<staging, aged, home, resolving, up, crashes>>

\* DeleteArchive, one transaction: the row and its dependents go together.
DropRow(d) ==
    /\ del[d].pc = "row"
    /\ rows[del[d].id] # None
    /\ GoDel(d, "deleted")
    /\ rows' = [rows EXCEPT ![del[d].id] = None]
    /\ deps' = deps \ {del[d].id}
    /\ raced' = IF del[d].id \in resolving THEN raced \cup {del[d].id} ELSE raced
    /\ UNCHANGED <<staging, aged, home, resolving, up, crashes>>

\* n = 0: another delete was faster; or the transaction fails and rolls back.
FailDropRow(d) ==
    /\ del[d].pc = "row"
    /\ \/ rows[del[d].id] = None /\ GoDel(d, "notfound")
       \/ GoDel(d, "error")
    /\ UNCHANGED <<staging, aged, home, rows, resolving, deps, raced, up, crashes>>

-----------------------------------------------------------------------------
(* Share links and pins bound to an archive: resolveArchive, then INSERT. *)

ResolveDependent(i) ==
    /\ rows[i] # None
    /\ i \notin resolving
    /\ resolving' = resolving \cup {i}
    /\ UNCHANGED <<staging, aged, home, rows, deps, raced, up, del, crashes>>

InsertDependent(i) ==
    /\ i \in resolving
    /\ resolving' = resolving \ {i}
    /\ deps' = deps \cup {i}
    /\ UNCHANGED <<staging, aged, home, rows, raced, up, del, crashes>>

-----------------------------------------------------------------------------
(* Time, the staging sweep and crashes *)

\* The file's modification time falls behind the grace period.
AgeStaging(i) ==
    /\ staging[i] # None
    /\ i \notin aged
    /\ aged' = aged \cup {i}
    /\ UNCHANGED <<staging, home, rows, resolving, deps, raced, up, del, crashes>>

\* Mutant: files that were never completed are skipped.
SweepStaging_SkipsPartial(i) ==
    /\ i \in aged
    /\ staging[i] # Partial
    /\ Unstage(i)
    /\ UNCHANGED <<home, rows, resolving, deps, raced, up, del, crashes>>

\* sweepStaging, the directory scan (the vps topology has no transit rows).
SweepStaging(i) ==
    /\ i \in aged
    /\ Unstage(i)
    /\ UNCHANGED <<home, rows, resolving, deps, raced, up, del, crashes>>

\* The process dies: files and rows stay, every handler is gone.
Crash ==
    /\ crashes < MaxCrashes
    /\ crashes' = crashes + 1
    /\ up' = [u \in Uploads |->
                IF up[u].pc \in {"writing", "check", "rename", "insert"}
                  THEN [up[u] EXCEPT !.pc = "crashed"] ELSE up[u]]
    /\ del' = [d \in Deletes |->
                IF del[d].pc \in {"blob", "row"}
                  THEN [del[d] EXCEPT !.pc = "crashed"] ELSE del[d]]
    /\ resolving' = {}
    /\ UNCHANGED <<staging, aged, home, rows, deps, raced>>

UploadStep(u) ==
    \/ FinishStage(u) \/ FailStage(u)
    \/ CheckDuplicate(u) \/ FailCheck(u)
    \/ RenameHome(u) \/ FailRename(u)
    \/ InsertRow(u) \/ FailInsert(u)

DeleteStep(d) ==
    \/ RemoveBlob(d) \/ FailRemoveBlob(d)
    \/ DropRow(d) \/ FailDropRow(d)

Next ==
    \/ \E u \in Uploads : UploadStep(u)
    \/ \E u \in Uploads, i \in Ids, c \in Contents : BeginStage(u, i, c)
    \/ \E d \in Deletes : DeleteStep(d)
    \/ \E d \in Deletes, i \in Ids : BeginDelete(d, i)
    \/ \E i \in Ids : \/ ResolveDependent(i) \/ InsertDependent(i)
                      \/ AgeStaging(i) \/ SweepStaging(i)
    \/ Crash

\* The handlers' own steps after the body has been received, the clock and
\* the ticker of SweepLoop keep going; a client may stall in mid-upload.
Fairness ==
    /\ \A u \in Uploads :
          WF_vars(CheckDuplicate(u) \/ FailCheck(u) \/ RenameHome(u)
                    \/ FailRename(u) \/ InsertRow(u) \/ FailInsert(u))
    /\ \A d \in Deletes : WF_vars(DeleteStep(d))
    /\ \A i \in Ids : WF_vars(AgeStaging(i)) /\ WF_vars(SweepStaging(i))

Spec == Init /\ [][Next]_vars
FairSpec == Spec /\ Fairness

-----------------------------------------------------------------------------
(* Properties *)

DeleteRequested == {del[d].id : d \in Deletes} \ {None}

\* A 201 is durable: the archive of an upload that was answered "created" is
\* listed and downloadable with the uploaded content until somebody asks for
\* its deletion, across crashes, the staging sweep, failed duplicates and
\* other uploads of the same content (CommitLocal, sweepStaging).
CreatedIsKept ==
    \A u \in Uploads : up[u].pc = "created" =>
        LET i == up[u].id IN
            \/ rows[i] = up[u].content /\ home[i] = up[u].content
            \/ i \in DeleteRequested

\* DeleteArchive's ordering argument: a home file without a row is never the
\* result of a delete, whatever fails in it, nor of any other failed upload;
\* it is an upload about to insert its row, one that a crash stopped exactly
\* there, or one whose INSERT failed and whose clean-up failed as well.
OrphanBlobIsUnfinishedUpload ==
    \A i \in Ids : home[i] # None /\ rows[i] = None =>
        \E u \in Uploads : up[u].id = i /\ up[u].pc \in {"insert", "crashed", "stranded"}

\* A share link or pin outlives its archive only if it was being inserted
\* while the archive was deleted (resolveArchive ... INSERT against the
\* delete transaction).
OrphanDependentsRaced ==
    \A i \in deps : rows[i] # None \/ i \in raced

\* 409 is honest: when an upload is refused as a duplicate, an archive with
\* that content is stored, or is the object of a delete request.
DuplicateIsHonest ==
    [][\A u \in Uploads : up[u].pc = "check" /\ up'[u].pc = "duplicate" =>
          \E i \in Ids : /\ rows[i] = up[u].content
                         /\ home[i] = up[u].content \/ i \in DeleteRequested]_vars

\* Nothing stays in staging forever: what a finished, failed, stalled or
\* crashed upload leaves is removed by the uploader or by the sweep.
StagingIsCleared == \A i \in Ids : staging[i] # None ~> staging[i] = None

-----------------------------------------------------------------------------
(* Refinement: what clients see is a Catalog. *)

Downloadable == [i \in Ids |-> IF rows[i] # None /\ home[i] # None
                                 THEN home[i] ELSE None]
Created == {i \in Ids : \E u \in Uploads : up[u].id = i /\ up[u].pc = "created"}
Retired == {i \in Created : Downloadable[i] = None}
Confirmed == [i \in Ids |-> {d \in Deletes : del[d].id = i /\ del[d].pc = "deleted"}]

Abstract == INSTANCE Catalog
              WITH stored <- Downloadable,
                   retired <- Retired,
                   confirmed <- Confirmed

\* Every step of the files-and-rows store is one atomic Add, Remove or Confirm
\* of the abstract catalog, or invisible: no archive changes its content,
\* appears half written, or comes back after it was removed; and of the
\* deletes that race for one archive, one at most is told that it removed it,
\* and not before the content is gone.
ImplementsCatalog == Abstract!Spec
=============================================================================
