--------------------------- MODULE BucketCatalog ----------------------------
(***************************************************************************)
(* The archive store of the vps-s3 topology: an upload is staged on disk,  *)
(* copied to the bucket and, when the copy fails, kept as a transit row    *)
(* that RetryLoop copies later.  The archives table is only an index for   *)
(* duplicate detection.  Bucket, staging directory and SQLite are separate *)
(* stores: every handler is a sequence of calls on them that other         *)
(* handlers, the retry loop, the staging sweep and crashes interleave.     *)
(*                                                                         *)
(* Abstractions: the id of an upload and its object key are in one-to-one  *)
(* correspondence and fresh; staging a body (LocalCatalog has it in        *)
(* detail) is one step; a Put may fail with or without the object having   *)
(* landed; oldest-first order of the retries is left open.                 *)
(***************************************************************************)
EXTENDS Naturals

CONSTANTS
    Ids,         \* archive ids, with their object keys
    Contents,    \* archive contents, identified by their sha256
    Uploads,     \* upload requests; each is made at most once
    Deletes,     \* delete requests; each is made at most once
    Downloads,   \* download requests; each is made at most once
    None,        \* no file, no row, no object, no id
    MaxCrashes   \* bound on the number of server crashes

ASSUME NoneAssumption == None \notin Ids \cup Contents
ASSUME CrashAssumption == MaxCrashes \in Nat

VARIABLES
    bucket,      \* objects under the prefix
    staging,     \* staging/{id}.partial
    transit,     \* transit table: id -> sha256
    meta,        \* archives table, the sha256 index: id -> sha256
    deps,        \* ids that have share_links or archive_pins rows
    agedFile,    \* ids whose staging file ever got older than the grace
    agedRow,     \* ids whose transit row ever got older than the grace
    up, del, down, \* upload, delete and download handlers
    retry,       \* RetryOnce
    crashes      \* number of crashes so far

stores == <<bucket, staging, transit, meta, deps>>
ages == <<agedFile, agedRow>>
handlers == <<up, del, down, retry>>
vars == <<stores, ages, handlers, crashes>>

Maybe(S) == S \cup {None}
UploadPC == {"idle", "check", "put", "meta", "save",
             "s3", "transit", "duplicate", "error", "crashed"}
DeletePC == {"idle", "lookup", "object", "transit", "deps",
             "deleted", "notfound", "error", "crashed"}
DownloadPC == {"idle", "lookup", "file", "ok", "notfound", "failed", "crashed"}
RetryPC == {"idle", "next", "put", "clean"}

TypeOK ==
    /\ {bucket, staging, transit, meta} \subseteq [Ids -> Maybe(Contents)]
    /\ {deps, agedFile, agedRow} \subseteq SUBSET Ids
    /\ up \in [Uploads -> [pc : UploadPC, id : Maybe(Ids), content : Maybe(Contents)]]
    /\ del \in [Deletes -> [pc : DeletePC, id : Maybe(Ids)]]
    /\ down \in [Downloads -> [pc : DownloadPC, id : Maybe(Ids)]]
    /\ retry \in [pc : RetryPC, todo : SUBSET Ids, id : Maybe(Ids),
                  content : Maybe(Contents)]
    /\ crashes \in 0..MaxCrashes

Empty == [i \in Ids |-> None]
RetryIdle == [pc |-> "idle", todo |-> {}, id |-> None, content |-> None]

Init ==
    /\ bucket = Empty /\ staging = Empty /\ transit = Empty /\ meta = Empty
    /\ deps = {} /\ agedFile = {} /\ agedRow = {}
    /\ up = [u \in Uploads |-> [pc |-> "idle", id |-> None, content |-> None]]
    /\ del = [d \in Deletes |-> [pc |-> "idle", id |-> None]]
    /\ down = [w \in Downloads |-> [pc |-> "idle", id |-> None]]
    /\ retry = RetryIdle
    /\ crashes = 0

-----------------------------------------------------------------------------
(* Upload: ingestTransit and copyOrTransit *)

GoUp(u, pc) == up' = [up EXCEPT ![u].pc = pc]

\* _ = os.Remove(path): its error is ignored, and the file may stay.
Discard(i) == staging' = [staging EXCEPT ![i] = None] \/ UNCHANGED staging

\* uniqueObjectKey (Head answers NotFound) and StageWithID.
StageUpload(u, i, c) ==
    /\ up[u].pc = "idle"
    /\ \A v \in Uploads : up[v].id # i
    /\ bucket[i] = None
    /\ up' = [up EXCEPT ![u] = [pc |-> "check", id |-> i, content |-> c]]
    /\ staging' = [staging EXCEPT ![i] = c]
    /\ UNCHANGED <<bucket, transit, meta, deps, ages, del, down, retry, crashes>>

\* Head fails, no free key is found, or the body is cut short: no file stays
\* (LocalCatalog has the one whose removal fails).
FailStage(u) ==
    /\ up[u].pc = "idle"
    /\ GoUp(u, "error")
    /\ UNCHANGED <<stores, ages, del, down, retry, crashes>>

Known(c) == {i \in Ids : meta[i] = c \/ transit[i] = c}

\* FindExistingSHA256: the index, then the transit rows.
CheckDuplicate(u) ==
    /\ up[u].pc = "check"
    /\ IF Known(up[u].content) # {}
         THEN GoUp(u, "duplicate") /\ Discard(up[u].id)
         ELSE GoUp(u, "put") /\ UNCHANGED staging
    /\ UNCHANGED <<bucket, transit, meta, deps, ages, del, down, retry, crashes>>

\* Mutant: a database error is taken for a duplicate.
FailCheck_AsDuplicate(u) ==
    /\ up[u].pc = "check"
    /\ GoUp(u, "duplicate")
    /\ Discard(up[u].id)
    /\ UNCHANGED <<bucket, transit, meta, deps, ages, del, down, retry, crashes>>

FailCheck(u) ==
    /\ up[u].pc = "check"
    /\ GoUp(u, "error")
    /\ Discard(up[u].id)
    /\ UNCHANGED <<bucket, transit, meta, deps, ages, del, down, retry, crashes>>

\* putFile succeeds.
PutObject(u) ==
    /\ up[u].pc = "put"
    /\ staging[up[u].id] # None
    /\ GoUp(u, "meta")
    /\ bucket' = [bucket EXCEPT ![up[u].id] = up[u].content]
    /\ UNCHANGED <<staging, transit, meta, deps, ages, del, down, retry, crashes>>

\* putFile fails; the object may have landed all the same.
FailPut(u) ==
    /\ up[u].pc = "put"
    /\ GoUp(u, "save")
    /\ \/ UNCHANGED bucket
       \/ /\ staging[up[u].id] # None
          /\ bucket' = [bucket EXCEPT ![up[u].id] = up[u].content]
    /\ UNCHANGED <<staging, transit, meta, deps, ages, del, down, retry, crashes>>

\* os.Remove(st.Path), InsertArchiveMeta (a failure is only logged), 201.
\* The listing and completeness caches are invalidated: see Retention.
FinishUpload(u) ==
    /\ up[u].pc = "meta"
    /\ GoUp(u, "s3")
    /\ Discard(up[u].id)
    /\ \/ meta' = [meta EXCEPT ![up[u].id] = up[u].content]
       \/ UNCHANGED meta
    /\ UNCHANGED <<bucket, transit, deps, ages, del, down, retry, crashes>>

\* Mutant: two columns of the INSERT are swapped.
SaveTransit_SwapsColumns(u) ==
    /\ up[u].pc = "save"
    /\ GoUp(u, "transit")
    /\ transit' = [transit EXCEPT ![up[u].id] = up[u].id]
    /\ UNCHANGED <<bucket, staging, meta, deps, ages, del, down, retry, crashes>>

\* SaveTransit; 201 with storage "transit".
SaveTransit(u) ==
    /\ up[u].pc = "save"
    /\ GoUp(u, "transit")
    /\ transit' = [transit EXCEPT ![up[u].id] = up[u].content]
    /\ UNCHANGED <<bucket, staging, meta, deps, ages, del, down, retry, crashes>>

\* SaveTransit fails: 500, the staging file is left to the sweep.
FailSave(u) ==
    /\ up[u].pc = "save"
    /\ GoUp(u, "error")
    /\ UNCHANGED <<stores, ages, del, down, retry, crashes>>

-----------------------------------------------------------------------------
(* Retry: RetryOnce, run by a single loop *)

\* Mutant: the file goes first, and the row stays when it cannot be removed.
ClearTransit_FileFirst(i) ==
    /\ staging[i] # None
    /\ transit' = [transit EXCEPT ![i] = None]
    /\ staging' = [staging EXCEPT ![i] = None]

\* DeleteTransit of a row that exists: the row, then the file.
ClearTransit(i) ==
    /\ transit' = [transit EXCEPT ![i] = None]
    /\ Discard(i)

\* ListTransit.
RetryList ==
    /\ retry.pc = "idle"
    /\ \E i \in Ids : transit[i] # None
    /\ retry' = [RetryIdle EXCEPT !.pc = "next", !.todo = {i \in Ids : transit[i] # None}]
    /\ UNCHANGED <<stores, ages, up, del, down, crashes>>

\* putFile, os.Open; a missing file is one more failure for last_error.
RetryOpen(i) ==
    /\ retry.pc = "next"
    /\ i \in retry.todo
    /\ retry' = IF staging[i] = None
                  THEN [retry EXCEPT !.todo = @ \ {i}]
                  ELSE [retry EXCEPT !.todo = @ \ {i}, !.pc = "put", !.id = i,
                                     !.content = staging[i]]
    /\ UNCHANGED <<stores, ages, up, del, down, crashes>>

\* putFile succeeds.
RetryPut(i) ==
    /\ retry.pc = "put" /\ retry.id = i
    /\ bucket' = [bucket EXCEPT ![i] = retry.content]
    /\ retry' = [retry EXCEPT !.pc = "clean"]
    /\ UNCHANGED <<staging, transit, meta, deps, ages, up, del, down, crashes>>

\* Mutant: the first failure ends RetryLoop.
FailRetryPut_Stops ==
    /\ retry.pc = "put"
    /\ retry' = [retry EXCEPT !.pc = "stopped"]
    /\ UNCHANGED <<stores, ages, up, del, down, crashes>>

\* Mutant: the row is cleared although the Put failed.
FailRetryPut_Clears ==
    /\ retry.pc = "put"
    /\ retry' = [retry EXCEPT !.pc = "clean"]
    /\ UNCHANGED <<stores, ages, up, del, down, crashes>>

\* putFile fails, whether or not the object landed: UpdateTransitError.
FailRetryPut ==
    /\ retry.pc = "put"
    /\ retry' = [retry EXCEPT !.pc = "next"]
    /\ \/ UNCHANGED bucket
       \/ bucket' = [bucket EXCEPT ![retry.id] = retry.content]
    /\ UNCHANGED <<staging, transit, meta, deps, ages, up, del, down, crashes>>

\* DeleteTransit; a failure, or a row that is gone, is only logged.
RetryClean ==
    /\ retry.pc = "clean"
    /\ retry' = [retry EXCEPT !.pc = "next"]
    /\ \/ transit[retry.id] # None /\ ClearTransit(retry.id)
       \/ UNCHANGED <<transit, staging>>
    /\ UNCHANGED <<bucket, meta, deps, ages, up, del, down, crashes>>

RetryEnd ==
    /\ retry.pc = "next" /\ retry.todo = {}
    /\ retry' = RetryIdle
    /\ UNCHANGED <<stores, ages, up, del, down, crashes>>

-----------------------------------------------------------------------------
(* Delete: removeBucket *)

GoDel(d, pc) == del' = [del EXCEPT ![d].pc = pc]

\* Head fails: 500.
FailHead(d) ==
    /\ del[d].pc = "idle"
    /\ GoDel(d, "error")
    /\ UNCHANGED <<stores, ages, up, down, retry, crashes>>

\* UnderPrefix and Head.
HeadObject(d, i) ==
    /\ del[d].pc = "idle"
    /\ bucket[i] # None \/ transit[i] # None
    /\ del' = [del EXCEPT ![d] =
                 [pc |-> IF bucket[i] # None THEN "object" ELSE "lookup", id |-> i]]
    /\ UNCHANGED <<stores, ages, up, down, retry, crashes>>

\* Blobs.Delete.
RemoveObject(d) ==
    /\ del[d].pc = "object"
    /\ GoDel(d, "deps")
    /\ bucket' = [bucket EXCEPT ![del[d].id] = None]
    /\ UNCHANGED <<staging, transit, meta, deps, ages, up, down, retry, crashes>>

FailRemoveObject(d) ==
    /\ del[d].pc = "object"
    /\ GoDel(d, "error")
    /\ UNCHANGED <<stores, ages, up, down, retry, crashes>>

\* TransitByS3Key, after the Head answered NotFound; any error is "not found".
LookupTransit(d) ==
    /\ del[d].pc = "lookup"
    /\ \/ transit[del[d].id] # None /\ GoDel(d, "transit")
       \/ GoDel(d, "notfound")
    /\ UNCHANGED <<stores, ages, up, down, retry, crashes>>

\* DeleteTransit reads the row, then deletes it whether or not it is still
\* there; it fails if the row went before it was read, or with the database.
RemoveTransit(d) ==
    /\ del[d].pc = "transit"
    /\ \/ ClearTransit(del[d].id) /\ GoDel(d, "deps")
       \/ UNCHANGED <<transit, staging>> /\ GoDel(d, "error")
    /\ UNCHANGED <<bucket, meta, deps, ages, up, down, retry, crashes>>

\* DeleteArchiveDependents (a failure is only logged); 204.
DropDependents(d) ==
    /\ del[d].pc = "deps"
    /\ GoDel(d, "deleted")
    /\ \/ deps' = deps \ {del[d].id}
       \/ UNCHANGED deps
    /\ UNCHANGED <<bucket, staging, transit, meta, ages, up, down, retry, crashes>>

-----------------------------------------------------------------------------
(* Download (openVPSS3), share links and pins *)

GoDown(w, pc) == down' = [down EXCEPT ![w].pc = pc]

\* Blobs.Get finds the object, or answers NotFound, or fails.  handleDownload
\* answers 404 for every error: "failed" is a 404 after a call that failed,
\* "notfound" one after calls that only found nothing.
GetObject(w, i) ==
    /\ down[w].pc = "idle"
    /\ bucket[i] # None \/ transit[i] # None
    /\ \E pc \in {IF bucket[i] # None THEN "ok" ELSE "lookup", "failed"} :
          down' = [down EXCEPT ![w] = [pc |-> pc, id |-> i]]
    /\ UNCHANGED <<stores, ages, up, del, retry, crashes>>

\* TransitByS3Key, then os.Open(tr.Path); either may fail.
OpenTransit(w) ==
    LET i == down[w].id IN
    /\ \/ /\ down[w].pc = "lookup"
          /\ GoDown(w, IF transit[i] # None THEN "file" ELSE "notfound")
       \/ /\ down[w].pc = "file"
          /\ GoDown(w, IF staging[i] # None THEN "ok" ELSE "notfound")
       \/ /\ down[w].pc \in {"lookup", "file"}
          /\ GoDown(w, "failed")
    /\ UNCHANGED <<stores, ages, up, del, retry, crashes>>

\* A share link or a pin: resolveArchiveVPSS3, then INSERT.
AddDependent(i) ==
    /\ bucket[i] # None \/ transit[i] # None
    /\ deps' = deps \cup {i}
    /\ UNCHANGED <<bucket, staging, transit, meta, ages, handlers, crashes>>

-----------------------------------------------------------------------------
(* Time, the staging sweep and crashes *)

\* The file's modification time and the row's created_at, cut to a whole
\* second, pass the grace period in either order.
AgeFile(i) ==
    /\ staging[i] # None /\ i \notin agedFile
    /\ agedFile' = agedFile \cup {i}
    /\ UNCHANGED <<stores, agedRow, handlers, crashes>>

AgeRow(i) ==
    /\ transit[i] # None /\ i \notin agedRow
    /\ agedRow' = agedRow \cup {i}
    /\ UNCHANGED <<stores, agedFile, handlers, crashes>>

\* sweepStaging, the transit rows: DeleteTransit, dependents are left.
SweepRow(i) ==
    /\ i \in agedRow /\ transit[i] # None
    /\ ClearTransit(i)
    /\ UNCHANGED <<bucket, meta, deps, ages, handlers, crashes>>

\* Mutant: the scan takes every file that has no transit row.
SweepFile_Rowless(i) ==
    /\ transit[i] = None /\ staging[i] # None
    /\ staging' = [staging EXCEPT ![i] = None]
    /\ UNCHANGED <<bucket, transit, meta, deps, ages, handlers, crashes>>

\* sweepStaging, the directory scan.
SweepFile(i) ==
    /\ i \in agedFile /\ staging[i] # None
    /\ staging' = [staging EXCEPT ![i] = None]
    /\ UNCHANGED <<bucket, transit, meta, deps, ages, handlers, crashes>>

Crash ==
    /\ crashes < MaxCrashes
    /\ crashes' = crashes + 1
    /\ up' = [u \in Uploads |-> IF up[u].pc \in {"check", "put", "meta", "save"}
                THEN [up[u] EXCEPT !.pc = "crashed"] ELSE up[u]]
    /\ del' = [d \in Deletes |-> IF del[d].pc \in {"lookup", "object", "transit", "deps"}
                THEN [del[d] EXCEPT !.pc = "crashed"] ELSE del[d]]
    /\ down' = [w \in Downloads |-> IF down[w].pc \in {"lookup", "file"}
                THEN [down[w] EXCEPT !.pc = "crashed"] ELSE down[w]]
    /\ retry' = RetryIdle
    /\ UNCHANGED <<stores, ages>>

UploadStep(u) ==
    \/ CheckDuplicate(u) \/ FailCheck(u) \/ PutObject(u) \/ FailPut(u)
    \/ FinishUpload(u) \/ SaveTransit(u) \/ FailSave(u)

DeleteStep(d) ==
    \/ RemoveObject(d) \/ FailRemoveObject(d)
    \/ LookupTransit(d) \/ RemoveTransit(d) \/ DropDependents(d)

RetryStep ==
    \/ RetryList \/ FailRetryPut \/ RetryClean \/ RetryEnd
    \/ \E i \in Ids : RetryOpen(i) \/ RetryPut(i)

Next ==
    \/ \E u \in Uploads : UploadStep(u) \/ FailStage(u)
    \/ \E u \in Uploads, i \in Ids, c \in Contents : StageUpload(u, i, c)
    \/ \E d \in Deletes : DeleteStep(d) \/ FailHead(d) \/ \E i \in Ids : HeadObject(d, i)
    \/ \E w \in Downloads : OpenTransit(w) \/ \E i \in Ids : GetObject(w, i)
    \/ RetryStep
    \/ \E i \in Ids : \/ AddDependent(i) \/ AgeFile(i) \/ AgeRow(i)
                      \/ SweepRow(i) \/ SweepFile(i)
    \/ Crash

Spec == Init /\ [][Next]_vars

\* The row comes due when its file has.
AgeRowToo(i) == i \in agedFile /\ AgeRow(i)

\* The tickers of SweepLoop and RetryLoop go on, and a bucket that is tried
\* again and again accepts a Put at some time.  Of the clock it is assumed
\* only that it does not stop between the times a file and its row come due:
\* were it fair, every transit would expire.
FairSpec ==
    /\ Spec
    /\ WF_vars(RetryStep)
    /\ \A i \in Ids : /\ SF_vars(RetryPut(i))
                      /\ WF_vars(AgeRowToo(i))
                      /\ WF_vars(SweepFile(i)) /\ WF_vars(SweepRow(i))

-----------------------------------------------------------------------------
(* Properties *)

DeleteRequested == {del[d].id : d \in Deletes} \ {None}
Expired == agedFile \cup agedRow
Kept(i, c) == bucket[i] = c \/ (transit[i] = c /\ staging[i] = c)

\* A 201 is durable in both its forms: what was answered "s3" or "transit" is
\* in the bucket, or in staging with the row that gets it copied, until a
\* delete is asked for or the grace period runs out.  Crashes between the
\* Put, the row and the file, retries of a Put that had landed, and the
\* sweep do not lose it (copyOrTransit, RetryOnce, DeleteTransit).
AcceptedIsKept ==
    \A u \in Uploads : up[u].pc \in {"s3", "transit"} =>
        Kept(up[u].id, up[u].content) \/ up[u].id \in DeleteRequested \cup Expired

\* Until the grace period runs out or a delete intervenes, a transit row
\* always has its staging file: RetryOnce cannot be stuck on a missing one.
TransitHasFile ==
    \A i \in Ids : transit[i] # None =>
        staging[i] = transit[i] \/ i \in DeleteRequested \cup Expired

\* 409 is honest up to deletes and expired transits: the content is kept
\* under an id that FindExistingSHA256 knows.
DuplicateIsHonest ==
    [][\A u \in Uploads : up[u].pc = "check" /\ up'[u].pc = "duplicate" =>
          \E i \in Ids : /\ meta[i] = up[u].content \/ transit[i] = up[u].content
                         /\ \/ Kept(i, up[u].content)
                            \/ i \in DeleteRequested \cup Expired]_vars

\* An upload in transit reaches the bucket, if nobody deletes it and the
\* grace period leaves it the time.
TransitReachesBucket ==
    \A i \in Ids : transit[i] # None ~>
        bucket[i] # None \/ i \in DeleteRequested \cup Expired

\* The grace of a row counts from its created_at and that of its file from its
\* modification time (sweepStaging): the directory scan may take the file of
\* a row that is not due, and a slow Put that fails may save a row whose file
\* is gone.  Such a row, which has RetryOnce fail at every turn and refuses
\* its content with 409, does not stay: once the file of an upload is past
\* the grace, file and row are gone together again and again, whatever
\* retries, deletes, downloads and crashes do.
LeftoversAreSwept ==
    \A i \in Ids : i \in agedFile ~> staging[i] = None /\ transit[i] = None

\* An upload is refused as a duplicate only of an archive that exists, or
\* whose delete has not finished.
DuplicateExists ==
    [][\A u \in Uploads : up[u].pc = "check" /\ up'[u].pc = "duplicate" =>
          \E i \in Ids : \/ Kept(i, up[u].content)
                         \/ i \in Expired
                         \/ \E d \in Deletes : del[d].id = i /\ del[d].pc # "deleted"]_vars

\* Once a delete has been answered the object is not in the bucket.
DeletedIsGone ==
    \A d \in Deletes : del[d].pc = "deleted" => bucket[del[d].id] = None

\* A download looks in the bucket, then for the transit row, then for the
\* file, while a retry may move the archive the other way (openVPSS3 against
\* RetryOnce).  A 404 is still no loss if none of its calls failed: the
\* archive was deleted, expired, or has reached the bucket by then.  (After a
\* failed call handleDownload answers 404 as well, of an archive that may sit
\* untouched in staging; that 404 says nothing, and nothing is claimed of it.)
MissIsNoLoss ==
    \A w \in Downloads : down[w].pc = "notfound" =>
        bucket[down[w].id] # None \/ down[w].id \in DeleteRequested \cup Expired
=============================================================================
