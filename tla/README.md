# groot-share: formal specification

groot-share (`gfs`) is a self-hosted server that receives, keeps and hands out
capture archives (`*.tar.gz`).  This directory specifies it in TLA+: modules that
model its parts, TLC configurations that check them on small instances, and
TLAPS proofs of the properties that matter most.  Definitions are translations of
the Go source under `src/`; `PROJECT.json` gives, for every definition, the lines it
stands for.

## 1. The system

One Go process, one SQLite file, one data directory, and in one of the two
topologies an S3 bucket.

| Part | State | Operations | Hard behaviour |
|---|---|---|---|
| Archive store, `vps` (`store/archives.go`, `server/catalog.go`) | `staging/{id}.partial`, `home/{id}.tar.gz`, table `archives` | `Stage`, `FindExistingSHA256`, `CommitLocal`, `DeleteArchive`, `openDownload` | file system and database are changed one after the other, by concurrent handlers, with failures and crashes between |
| Archive store, `vps-s3` (`server/catalog.go`, `store/transit.go`) | bucket, staging, table `transit`, table `archives` as a sha256 index | `ingestTransit`, `copyOrTransit`, `RetryOnce`, `removeBucket`, `openVPSS3` | three stores, a retry loop, a Put that fails after it landed |
| Share links (`store/share.go`, `server/share.go`, `server/shares_ui.go`) | table `share_links` | create, revoke, `GET /s/{token}` | a download is tested early and counted late; SQL and Go test the same link in two ways |
| Pins (`store/pins.go`) | table `archive_pins` | pin, unpin | read by retention while users change them |
| Retention (`retain/retain.go`, `server/sweep.go`, `store/protected.go`) | none of its own | `Pick`, `SweepOnce`, `SweepLoop` | acts on a listing and a protected set that were read before |
| Listing cache (`server/catalog.go`) | `listCache` | `get`, `set`, `invalidate` | filled with what was read before an invalidation; the slice is shared |
| Staging sweep (`server/sweep.go`) | none | `sweepStaging` | removes files whose uploads may still run |
| SFTP inbox (`server/watch.go`) | inbox directory, map of sizes | `WatchLoop`, `WatchOnce`, `ingestSFTPPath` | decides from two polls that a file is complete, while clients write, replace and rename; copies by descriptor, removes by path |
| Users, sessions, API keys (`store/identity.go`, `store/apikeys.go`, `server/users.go`, `server/admin.go`, ...) | tables `users`, `sessions`, `api_keys` | login, user administration, key administration | the last-admin guard is check-then-act; handlers write back what they loaded; a login checks first and inserts later |
| Permissions (`auth/perm.go`) | none | `Can` | - |
| Rate limiter (`ratelimit/ratelimit.go`) | events per key | `Allow` | reads the clock before it takes the lock |
| Audit log (`store/audit.go`, `server/audit.go`) | table `audit` | `InsertAudit` (fail-open), Activity page, `GET` of the audit API | a page is a COUNT and a SELECT, rows arrive in between; a row's time is read before it is inserted |
| Captures and Activity lists (`server/filter.go`, `sort.go`, `pager.go`, `store/filter.go`) | only the URL of the page | filter, sort, cut, links | every page is a new listing; the reader puts pages of different moments together |
| Completeness cache, HTML templates, config, logging, S3 client | - | - | presentation and I/O |

How they interact: handlers run in a goroutine per request; `RetryLoop`, `SweepLoop`
and the inbox watcher are one goroutine each.  All of them call the store functions
directly; there are no locks above the single SQLite connection pool, except inside
the caches and the rate limiter.  The sweep and `DELETE` share `removeArchive`; the watcher and
`POST /v1/archives` share `ingestWithSource`.  Deleting an archive deletes its share
links and pins (`deleteDependentsTx`), and pins and servable share links keep
retention from deleting it (`ProtectedArchiveIDs`).

What makes each part correct: an accepted upload is not lost and not changed; a
delete is complete and final; a refusal (404, 409, 410) is justified; a share link
never gives more than was promised; retention deletes what the policy says and
nothing that is protected; nothing is left behind for ever; somebody can always
administer the server, and an account that is changed loses what it must lose.

## 2. Modules

| Module | Models | Remarks |
|---|---|---|
| `Catalog` | what an archive store promises | abstract: atomic `Add` and `Remove`, ids never reused, `Confirm` tells one delete at most that it removed the archive |
| `LocalCatalog` | the `vps` store | one action per file-system or SQL operation, a failure action for each, `Crash` |
| `LocalCatalog_proofs` | - | theorems about `LocalCatalog`, refinement of `Catalog` |
| `BucketCatalog` | the `vps-s3` store | bucket, staging, transit rows, sha256 index, retry loop, staging sweep, `Crash` |
| `BucketCatalog_proofs` | - | theorems about `BucketCatalog` |
| `ShareLinks` | share links | create, revoke, the four stages of a download, deletion of the archive, a clock finer than a second |
| `ShareLinks_proofs` | - | theorems about `ShareLinks` |
| `Retain` | `retain.Pick` | pure operators |
| `Retention` | `SweepOnce`, the protected set, the listing cache | uses `Retain`; deletes and uploads are atomic here; both topologies |
| `Retention_proofs` | - | theorems about `Retention` |
| `Inbox` | the SFTP inbox watcher and its clients | on top of `Catalog` (INSTANCE); one action per file-system call that can fail or race |
| `Inbox_proofs` | - | theorems about `Inbox` |
| `RateLimit` | `Limiter.Allow` and `allowLoginAttempt` | the clock is read in one step, the lock taken in another |
| `RateLimit_proofs` | - | theorems about `RateLimit` |
| `Pager`, `Captures` | pager, sort, facets and links of the lists | pure operators |
| `Pages` | a reader who follows the links, the audit log | uses `Captures`, `Pager` and `Retain`; also states the retention policy without indexes |
| `Pages_proofs` | - | theorems about `Pages`, and about `Retain` on its listings |
| `Accounts` | users, sessions, API keys, permissions | every request is a chain of statements that others interleave with |
| `Accounts_proofs` | - | theorems about `Accounts` |
| `MC...` | - | small instances and symmetry sets for TLC |

### LocalCatalog

`staging`, `home` and `rows` are the two directories and the table, as functions
from ids; a file that is being written is `Partial`.  `up` and `del` hold the program
counters of the handlers; a program counter also is the answer once the handler is
done (`created` is 201, `duplicate` 409).  `resolving` and `deps` are the share and
pin requests between `resolveArchive` and their INSERT, and the ids that have such
rows.  `aged` says whose modification time is behind `StagingGrace`.  `raced` is a
history variable of the properties.

An upload is `BeginStage` (draw an id, open the file), `FinishStage` (copy and
close), `CheckDuplicate`, `RenameHome`, `InsertRow`; each has a `Fail...` action with
the clean-up the code does.  The code ignores the errors of its clean-ups (`_ = os.Remove`):
`Discard` may leave the staging file, and `FailInsert` the home file, of an upload that
then ends as `stranded` (500 with the file left behind).  A delete is `BeginDelete` (`ArchiveByID`),
`RemoveBlob`, `DropRow` (one transaction with the dependents).  A sweep that unlinks
a file still being written leaves the writer with a descriptor only, so the later
rename fails.  A crash keeps files and rows and ends every handler.

Abstractions: ids are 128 random bits and never collide; content is what its
sha256 identifies; the audit row written after an answer decides nothing.

### BucketCatalog

An id stands for the archive id and its object key.  `meta` is the `archives` table,
which this topology only uses to find duplicates.  A Put can fail with or without
the object having landed (`FailPut`, `FailRetryPut`), the removal of a staging file can fail
unnoticed (`Discard`), and a delete or a download can fail at each of its calls.
`handleDownload` answers 404 for every error; the model keeps the two apart, `failed` for a 404
after a call that failed and `notfound` for one after calls that only found nothing.  `retry` is `RetryOnce`: the list
it read, the file it has open, the step it is in.  `agedFile` and `agedRow` record
that a file or a row was ever older than the grace period; the two clocks differ
(the row's is cut to a second), so either may come first.

Coarser than the code: staging a body is one step (`LocalCatalog` has it in detail);
`os.Remove` of the staging file and `InsertArchiveMeta` are one step (`FinishUpload`),
as are the row and the file of `DeleteTransit` (`ClearTransit`): a crash between the
two of a pair leaves a staging file without row, which the sweep treats like any
other.  The SFTP and HTTP uploads differ in the key's name only.

### ShareLinks

Time is counted in ticks, `Second` ticks to a second; the table stores whole seconds
(`formatShareTime`), the handlers compare instants.  `Active` is the Go test,
`Servable` the SQL `WHERE` clause.  A download is `LookupShare`, `OpenArchive`,
`IncrementShareUse` and, if that touched no row, `LookupRefused`; `ServeUnmetered` is the
handler's default branch, which streams without counting.  `served` counts the
streams of a link, with and without a use.  `DBFails` switches failing database
calls on; a 404 that only such a failure accounts for is `failed`.  `Creation` also covers the HTML form, which validates its fields in its own way and
ends in the same `CreateShareLink`.

### Retain and Retention

`Pick` deletes by the index in a newest-first list and by age.  `Retention` runs the
sweep (`SweepList`, `SweepSet`, `SweepPick`, `SweepRemove` ...) against everybody else.
In the `vps-s3` topology (`UseBucket`, chosen by `Init`: there is a cache) the listing goes through `listCache`.  Go slices
are references: `sweep.alias` says that the sweep holds the very array the cache
holds, and a page that sorts the cached listing (`PageHit`) then reorders the
sweep's list too.  A page that fills the cache does it with the time and the listing
it read before (`PageList`, `PageSet`).  `died` is a history variable: when an archive was
deleted.

### Accounts

`user`, `session` and `key` are the tables; `login[l]` is the session that a login whose
password was right is to insert; `req[r]` is the handler of a
signed-in user: its step, the actor and role read at authentication, and what it will
write.  An administrative request is `RequireAdmin`, one of the loads (`PatchUser`,
`AdminUserRole`, `DeactivateUser`, `ActivateUser`, `RemoveInactive`), `GuardUser` and `GuardCount`
(the two reads of `GuardLastAdmin`), `UpdateUser` or `RemoveUser`, `SetPassword`;
`FailStatement` ends it at any step with an error and keeps what was written.  The JSON
API and the HTML forms run the same statements and share the actions.  History, for the
properties: the password a session's login checked (`since`) and the last one set while that
login was under way (`late`), the role a key's owner had when the key was made, `stale` and
`overlapped`; `made` bounds the number of
requests.  A role that a request does not name is replaced by the default before the
first statement, so inputs are the roles themselves.

### Inbox

`inbox` maps a name to the content delivered under it, `written` says how much of a
content has arrived; the bytes of a file are the pair of the two, so a half-written file
is a value of its own.  Clients `OpenFile`, `Write`, `Close`, `MoveIn` (rename a complete
file in) and `Withdraw`; they may take a name that is in use.  The watcher is `Poll`
(ReadDir), per entry `Remember`, `Skip` or `Take`, then `Copy` (open, stage, duplicate
check), `Commit`, `RemoveFile`, and `EndScan`, which prunes the size map.  `FailIngest` and
`FailRemove` are the failures, `Crash` loses the size map and keeps the inbox and the
store.  The store is `Catalog`, the specification that `LocalCatalog` is proved to
implement; other requests add to it and delete from it.  `exposed` is a history
variable: the contents whose clients did what the two-poll rule cannot notice.  So are
`accepted`, the bytes the watcher stored or found stored, and `gone`, those of them whose last
archive was deleted since.

### RateLimit

`events` and `lastSweep` are the limiter's fields; `Allow(k, t)` is the critical section,
with the time `t` the caller read before (`Begin`, `ReadClock`).  `Tick` is not taken while
a caller has waited `MaxLag` for the lock.  `admitted` keeps the times of all events that
were let through, which the limiter itself forgets.

### Pager, Captures and Pages

A URL is a record of its parameters.  `handleHome` is one step: list, filter, sort, cut.
An Activity page is two, `CountAuditFiltered` and `ListAuditFiltered`, and so is a page of
the audit API.  The reader opens a page with or without facets and goes on by `FollowNext`,
`JumpTo` (the numbers, First, Last, the page field), `SetPageSize`, `SortBy` and `PickFacet`, whose
URLs are made by the code's own builders.  `walk` is a history variable: what page 1 was
cut from, what the pages have shown since, and what was deleted or inserted meanwhile.
Uploads and deletes write an audit row, or fail to (`recordAudit` is fail-open).  The time of a
row is read before its INSERT, which waits for a connection and for SQLite's lock: rows in
`pending` have their time, and `InsertAudit` gives them their ids in any order.
Substring search is membership in a set of words; clusters are compared, not parsed.

## 3. Runs

Bounds are in the `.cfg` files; the constants that are bounds only are `MaxCrashes`,
`MaxTime`, `MaxPassword`, `MaxRequests`, `MaxLag`, `MaxRows`, `MaxDeletes` and `Moving`.

| Run | Checks | Result |
|---|---|---|
| `local_catalog` | `TypeOK`, `CreatedIsKept`, `OrphanBlobIsUnfinishedUpload`, `OrphanDependentsRaced`, `DuplicateIsHonest`, `ImplementsCatalog`, `StagingIsCleared` | holds, the last under fairness |
| `share_links` | `TypeOK`, `UseCapHolds`, `TestsAgree`, `AnswersAreHonest`, `RevokedServesNothing`, `NothingServedAfterDelete` | holds, with failing database calls |
| `bucket_catalog` | `TypeOK`, `AcceptedIsKept`, `TransitHasFile`, `DuplicateIsHonest` | holds |
| `bucket_live` | `MissIsNoLoss`, `TransitReachesBucket`, `LeftoversAreSwept` | holds, the last two under fairness |
| `bucket_duplicate` | `DuplicateExists` | violated: `removeBucket` leaves the sha256 index row |
| `bucket_deleted` | `DeletedIsGone` | violated: the retry loop puts a deleted object back |
| `retention` | `NewestAreKept`, `ProtectedBeforeIsKept`, `ExcessIsSwept` | holds, in `vps-s3` while every page uses the default order; the last for `vps`, under fairness |
| `retention_sorted` | `NewestAreKept` | violated as soon as a page sorts oldest first |
| `accounts` | `TypeOK`, `AdminRemains`, `SessionsAreNewer`, `KeyGivesNoMore`, `ReactivationIsAsked` | holds |
| `inbox` | `TypeOK`, `SentIsKept`, `StoredOnce`, `SentIsTaken` | holds, the last under fairness |
| `rate_limit` | `WindowCap`, `RefusalIsEarned`, `KeptIsRecent` | holds |
| `pages` | `DeleteCostsOne`, `LogMissesAreBounded`, `EmptyPageIsEmptyList`, `NumbersLeadEverywhere`, `PickMeetsPolicy` | holds |

Three runs expect a violation: each states what a comment, a test or a document of
the repository says and shows how the code departs from it; `PROJECT.json` quotes
the line.  Further departures are bounded by a property that holds instead:

- `CHANGELOG.md` says that deleting an archive leaves no orphaned share links or
  pins.  It can, but only by the race `OrphanDependentsRaced` describes: the archive
  was resolved before the delete committed and the row inserted after.
- `SPECIFICATIONS.md` says that a download answers 404 for an unknown archive.  In
  `vps-s3` it also can while a retry moves the archive to the bucket; by
  `MissIsNoLoss` nothing is lost then.  And it does whenever a call fails, of the bucket, of
  the database or of `os.Open`, about an archive that is where it was; no property speaks of
  that 404.
- A comment at `DeleteArchive` argues that its order (file, then row) leaves no file without a
  row.  That holds of deletes; an upload whose INSERT fails, and whose removal of the home file
  fails too, leaves one that nothing removes.  `OrphanBlobIsUnfinishedUpload` names the causes.
- `SPECIFICATIONS.md` excludes a pinned archive from retention.  A pin set after
  the sweep has read the protected set comes too late; `ProtectedBeforeIsKept` says
  that every earlier one counts.
- `keep_last` keeps the newest archives.  In `vps-s3` the sweep counts by a listing that may be
  up to `listCacheTTL` old, so that others deleted in that time still count; `NewestAreKept`
  says that no others do.
- The Activity pages are newest first by id, their windows by time, and the two orders can
  differ.  With a window a reader can then miss a row in the middle of the list;
  `LogMissesAreBounded` allows one for each row that left the window before an older one.
- `SPECIFICATIONS.md` says that the last active admin cannot be demoted or
  deactivated.  Two admins who demote each other at the same time can leave none:
  `GuardLastAdmin` is not in one transaction with the write.  `AdminRemains` says that a
  write between another request's guard and its write is the only way.
- A user is to be active again only when that is asked for.  The role form also does
  it when a deactivation commits between its read and its write; by
  `ReactivationIsAsked` such a stale write is the only other way.
- A comment in `share.go` says that a `max_uses` link cannot be oversold.  It can if the
  counting statement itself fails, when the handler serves without counting;
  `NeverOversoldCorrect` proves that this is the only way.
- `SPECIFICATIONS.md` says that the inbox ingests stable files, "size unchanged across two
  polls", and then deletes them.  A client that pauses for a poll, or takes a name the
  watcher is busy with, can lose what it sends; `SentIsKept` says that nobody else does.
- The login limit is N per window.  With callers that wait for the lock a whole window can
  hold more, because a late event is pruned against a newer time; `WindowCap` holds for the
  window less that wait.
- `SPECIFICATIONS.md` says that the filter state is encoded in the URL.  The chips keep it,
  the links of the pager and of the column headers (`listURL`) drop it: Next on a filtered
  table shows page 2 of the whole one.
- `SPECIFICATIONS.md` says that a password change deletes all sessions of the user.
  It does, but a login that checked the old password before can still insert its session
  after; `SessionsAreNewer` says that these are the only sessions of an older password.

Why the bounds are enough.  `local_catalog`: the races are between two uploads of
one content, an upload and the sweep, two deletes, a delete and a dependent, so two
of each are enough; two contents tell a swapped file from a right one, and one crash
can fall between any two steps.  The proofs lift the safety part to any number.  `share_links`:
three downloads against no cap and a cap of 2 race below, at and above it; four
instants in two seconds contain a boundary, an instant before and one after it.
`bucket_catalog`: two uploads of one content, a delete and a crash; with one content
every duplicate decision is reached.  `bucket_live`: one archive, which a delete, a
download, a crash and both loops work on.  `retention`: `keep_last` 1 and two
archives are at, and one beyond, the limit, with equal creation times included; the age
limit is reached in `vps`, whose clock goes to 3; in `vps-s3` it goes far enough for a listing
to outlive `listCacheTTL`.  `inbox`: one name, so that names are
reused, two contents of different sizes, the larger one beyond the upload limit, two ids,
a crash.  `rate_limit`: a cap of 2 and a window of 3 ticks, which the clock leaves behind;
two callers are enough to disorder times.  `pages`: pages of one and two, three archives
that differ in every sort value, so that a table has up to three pages; a log of eight
rows or more for the page numbers with gaps; new rows, two of which can wait for their INSERT at
once and be inserted in the wrong order, and a log to start from whose times are not in order.  Headers sort by
`source`, whose first order is ascending, beside the default `uploaded`, whose first order is
descending (the proof has all columns).  The log
does not grow while Captures is read, which does not look at it.  `PickMeetsPolicy` runs
over the listings of `pages`, an archive without a date included, and limits 0 to 3 (0
disables a limit).  `accounts`: two users can be each other's last fellow admin;
three requests, two at a time, suffice to create the second user and let two requests
race; two password changes can overtake a login one after the other; with two sessions one user's can be purged or ended beside the other's.

Deadlock checking is off: requests are made at most once each and the clocks are bounded,
so a finished workload is a legitimate end of a behaviour.

Fairness.  `local_catalog` (`FairSpec`): the clock, the ticker of `SweepLoop` and the
handlers' own steps after the body has arrived go on (goroutines are scheduled), and a file
the sweep tries to remove again and again goes at some time; a client may stall for ever in
mid-upload.  `bucket_live`: the tickers of
`SweepLoop` and `RetryLoop` (of the clock only that a row comes due once its file has, which
`LeftoversAreSwept` needs; were it fair, every transit would expire and `TransitReachesBucket` be
empty), and strong fairness of a successful Put, that is, a bucket
that is tried again and again accepts at some time; nothing is claimed if it never
does.  `retention`: the ticker, and strong fairness of reading the protected set
and of a removal that is tried again and again; `ExcessIsSwept` is stated for `vps` only,
because a bounded clock would let a cached listing live for ever.  `inbox`: the ticker of
`WatchLoop`, and strong fairness of each step that can fail: a file that is looked at,
copied, stored or removed again and again succeeds at some time.  No fairness is assumed for clients,
administrators or crashes.

Every property has a mutant: an operator `X_...` next to `X` that is wrong in the way
a bug in that code would be, and under which TLC finds the property violated.

## 4. Proofs

All theorems hold for every value of the constants that satisfies the named
assumptions (`None` and `Partial` are not contents, `None` is not an id, `Second` is
positive, ...).  None of the properties is inductive as it stands, save a few that
follow from the tables alone; each proof module states the inductive invariant it
needs, shows that `Init` establishes it and that every action keeps it, one lemma per
action or group of actions, and draws the property from it.  Every inductive invariant
was checked by TLC, on the instance of the component's run, before it was proved.

`LocalCatalog_proofs`.  `Inv` adds what the argument needs: ids belong to one upload each (`UniqueIds`); what the step an upload
is in says about its three places (`UploadOK`: nothing at home and no row before the
rename, the right content at home before the INSERT, a staging file that is gone or
whole after the copy); a delete that has removed the file has recorded its id
(`DeleteOK`); every file and row belongs to an upload (`FilesAreUploaded`); dependents
and resolving requests refer to rows that existed (`LinksAreBound`).  One lemma per
action group shows that a step keeps it.  From it: `TypeCorrect`,
`CreatedIsKeptCorrect`, `OrphanBlobCorrect`, `OrphanDependentsCorrect`, `DuplicateCorrect`,
and `RefinesCatalog`, in which `InsertRow` maps to `Add`, `RemoveBlob` to `Remove`, `DropRow` to
`Confirm` and every other step to a stutter: this is where it matters that an id is drawn afresh,
that the file is removed before the row, and that a delete which removed no row says so.

`ShareLinks_proofs`.  `TypeCorrect` and `UseCapCorrect` by induction over the table
(a row that is not in use yet has counted nothing: `FreeIsUnused`).  `TestsAgreeCorrect`
rests on `TruncationAgrees`: for whole-second expiries, comparing the instant and
comparing its truncation give the same answer.  `RevocationCorrect`, `DeleteCorrect` and
`AnswersCorrect` use that a link only ages (`LinksAge`): a dead link stays dead
(`DeadStaysDead`), so an answer that was right when it was chosen is still right.
`NeverOversoldCorrect` needs `~DBFails`: where database calls fail, `ServeUnmetered` oversells.

`Accounts_proofs`.  `AdminRemains` is not inductive: a request that has passed its guard
will take an admin away.  `GuardsHold` adds that every such request is `Safe`: it writes an
active admin, or there is another one that it does not write.  `GuardCount` establishes
it (of more than one counted admin, one is not the target; this needs `Users` finite), a
new user or password keeps it, and a write cannot break another request's, because it
would then overlap.  `HandlersOK` gives each handler its user.  `AdminRemainsCorrect`
follows.  `SessionsAreNewerCorrect` needs the same of the sessions that logins under way are to
insert, and that both are of users that were created (`AllDated`): a new row starts at the first
password.

`KeyGivesNoMoreCorrect` needs no invariant: it is about the two tables of `auth/perm.go`, and
holds for a user in any state, because `AuthByAPIKeyHash` reads the owner's role (`KeyRole`) in the
statement that finds the key.  `ReactivationIsAskedCorrect` is an action property: a request
that will write an active user without having been asked to has loaded the user active, and
the user still is, unless somebody wrote it since (`FlagsFresh`).

`BucketCatalog_proofs`.  `Inv` follows an archive through its places.  `UploadOK` says for each
step of an upload what staging, bucket, transit row and index hold, all of them its own
content; `UniqueIds` and `StoredIsUploaded` that nothing is anywhere that no upload put there;
`RetryOK` that the retry loop works on uploads answered `transit` only, with their content, and
is about to clear a row only when the object is in the bucket; `DeleteOK` and `IdleDelete` that a
delete at work has recorded its id; `DownloadOK` that a download that missed the bucket looks for
an upload in transit, whose object is there, or excused, if the file is gone.
`AcceptedIsKeptCorrect`, `TransitHasFileCorrect`, `MissIsNoLossCorrect` and
`DuplicateIsHonestCorrect` follow.

`Inbox_proofs`.  `SentIsKept` needs a chain of facts about the two-poll rule.  `SeenOK`: the
remembered size of a name is that of the file that has it now, and less than what is there if
the client wrote since the last poll; a client that breaks this is `exposed`.  So a file whose
size did not change was complete when it was taken (`TakenOK`), the bytes the watcher holds come
from the name it is about to remove (`CopiedOK`), and it removes only what was accepted
(`WatchOK`).  `DeliveryOK` gives a content one name; `AcceptedOK` says that accepted bytes are
in the store, or in `gone` because their own last archive was deleted, and that their file is gone,
is being removed or could not be removed, which gives `StoredOnceCorrect`.  `NoneAssumption` excludes `None` from the pairs
of content and size as well, which are the bytes of a file.

`Retention_proofs`.  Two invariants.  `Inv`, for every topology, order and policy: the sweep's
list of work holds only archives that were unprotected when it began (`TodoOK`);
`ProtectedBeforeIsKeptCorrect` follows.  `OrderInv`: the listings in the cache, in the pages and in
the sweep are newest first, and none is older than the time it carries (`FreshOK`: what it names
existed then, or still does); so what the sweep picked is `Justified`, that is, too old or
outnumbered by `keep_last` as new that the sweep may still count.  It rests on `PickFacts` and
`RankCount` (the index in a newest-first list counts archives at least as new), and a reason to
delete stays one until the sweep is over, because it counts what was deleted since.
`NewestAreKeptCorrect` has the hypothesis `NoReorder`: topology `vps`, or pages in the default
order only.  Without it the statement is false: a page sorts the listing that the cache and the
sweep share, which is the finding of run `retention_sorted`.

`RateLimit_proofs`.  `CountsOK` relates the map to the history: for every instant `c` the map
holds no more events later than `c` than were let through, and just as many if `c` lies within
the last window.  With `HandlersOK` (a reading of the clock is at most `MaxLag` old), `PastOK`
(nothing is ahead of the clock), `KeptIsRecent` and `WindowCap` itself it is inductive; a new
event is let through only with fewer than `Max` after the cutoff, and by `CountsOK` that counts
the history.  `WindowCapCorrect`, `KeptIsRecentCorrect` and `RefusalIsEarnedCorrect` follow.  What
the loop of `Allow` keeps (`LoopKeeps`, `RecentFacts`) is shown by induction over its rounds.  The
library's induction theorems take a predicate as parameter, which the provers cannot
instantiate; the set form of it, `RoundInduction`, is derived from the well-foundedness of `<`
(`LeastNumber`).

`Pages_proofs`.  First the pure part.  `SortedList`: a list that is sorted by a strict order
holds every element once, at the place that the number of elements before it says; `ArchiveOrder`
shows that every column, ascending or descending, is such an order (equal values are told apart by
key).  `LastPage`, `PageView` and `SliceFacts` are the arithmetic of pages, `CutFacts` joins both: a
page holds the elements whose place lies on it.  `LinkKeepsOrder`: parsing a pager link gives back
the page size, column and order it was made from, although defaults are left out of it.
`NumbersLead` is the argument about `pageWindow`, and `PickPolicy` the one about `retain.Pick`, for
all limits.

Then the reader.  `DeleteCostsOne` speaks of the last page only and is not inductive.
`CaptureWalk` counts, on every page, the archives that have `Slipped`: that were there all along,
were not shown, and now stand on a page that was read.  An upload moves places forward only and a
delete moves each back by at most one (`PlaceMoves`), so that at most the one archive at the page
boundary slips (`OnePlace`) and the delete pays for it; on the last page whoever was missed has
slipped.  `LogWalk` is the same for the audit log, where rows are only added: a row that is still to
be seen has at least as many newer matching rows as the pages read so far hold, and at a COUNT the
matching rows are the counted ones plus `late`.  With a time window the filter of the next page is a
later one (`WindowMoves`) and drops rows that need not be the oldest, since ids follow the insertions
and not the times; each row dropped above one that stays is counted in `torn` and costs at most one
row its place.  Nothing is assumed of the order of times, in the log at the start or later.
`CountOK` (rows are never deleted) gives
`EmptyPageIsEmptyListCorrect`.  `NoneAssumption`, `ArchiveAssumption`, `CatalogAssumption` and
`WindowsAssumption` are typing: an absent parameter is not a number or a column, ids, sizes, times
and windows are numbers.

Only model-checked: liveness (`StagingIsCleared`, `TransitReachesBucket`, `LeftoversAreSwept`,
`ExcessIsSwept`, `SentIsTaken`), which is out of the prover's reach.  Every other property of the passing runs is
a theorem.

## 5. Plan

Done: the two stores, share links, retention, accounts, the inbox, the rate limiter, the
lists and the audit log, with the proofs above.  Next: the refinement of `Catalog` by the
`Inbox`'s use of it, and by `BucketCatalog` between crashes, if an abstraction can be found under
which an archive in transit and one in the bucket are the same entry; action properties of
`Retention` (a protected archive is never the one a step removes while it is protected in both
readings).

## 6. Not modelled

- Reading and writing bytes, tar contents and the completeness badge.  Its cache holds a
  value that never changes for an id that is never used again; in `vps` it is never
  emptied.
- S3 signing and HTTP: the bucket's contract is the `bucket` variable of `BucketCatalog`.
- HTML templates, style and notices; the counts on the cluster chips; the CSV and JSON
  export, one SELECT and its formatting.
- Configuration and logging: values are read once at start and are the modules' constants.
- Login and display names, which carry no control; pins per user and their listing; the
  rows a removed user leaves, which depend on whether the connection at hand enforces
  foreign keys (`PRAGMA foreign_keys` is set on one connection of the pool).
- File descriptors (`handleShareDownload` does not close its reader after serving it).
- All or nothing of `PATCH /v1/users/{id}`: the model has the partial outcome
  (`FailStatement`), and no document promises another.
