# Formal model of upgallery

upgallery keeps file galleries. A Convex database (`src/convex`) holds the
catalog: galleries, folders, entries and the jobs on them. A storage service
(`src/storage`) holds the files: a *storage server* that receives uploads and a
*storage worker* that deletes, copies and inspects files. A web client
(`src/src`) calls Convex mutations and sends uploads to the storage server.
The two halves share no transaction: the service claims work from the catalog,
does it on the file system and reports back over HTTP, and each of those three
steps can be lost, repeated, or overtaken by another process.

The model is about that seam. It states which promises the catalog keeps to its
users while requests crash, leases lapse, replies are lost and claims are
repeated, checks them with TLC on small instances, and proves the most important
ones with TLAPS for every value of the constants.

## 1. Inventory

| Component | State | Operations | Modelled in |
| --- | --- | --- | --- |
| Catalog tables (`convex/schema.ts`) | galleries, galleryStats, entries, uploadIntents, storageDeleteJobs, entryMoveJobs, bulkOperations | row reads and writes, statistics | `Catalog` |
| Landing names (`convex/lib/entryNames.ts`) | none; reads entries, intents, move jobs | lookup, reservation, auto-rename, conflict policies | `EntryNames` |
| Uploads (`convex/entries.ts`, `convex/storageGateway.ts`, `storage/upload.ts`, `convex/storageJobs.ts`) | intent with lease; the request's claim; installed files | create, claim, renew, install, complete (insert, replace, revive), fail, sweep | `Uploads` |
| Deletions (`convex/entries.ts`, `entryExpiry.ts`, `galleryCleanup.ts`, `storageGateway.ts`, `storage/maintenance.ts`) | delete jobs with lease and attempts | remove, expire, remove a gallery, claim, unlink, complete, retry, give up | `Deletions` |
| Bulk operations (`convex/bulkOperations.ts`, `convex/lib/bulkOperations.ts`) | selection, cursor, five counters, policy | start, process, park, resolve one, resolve all, dismiss | `EntryMoves` |
| Entry moves (`storageGateway.ts`, `storage/maintenance.ts`) | move jobs with lease and attempts | claim, refuse, copy, complete, fail, retry | `EntryMoves` |
| Entry rename (`convex/entries.ts`) | entry name | rename on shared storage; on user storage an operation | `Gallery`, `FilesystemOperations` |
| Folders (`convex/folders.ts`) | folder rows with a parent and a copy of the chain of ancestors; scheduled walks | create, rename, move, remove, policies; repair and cleanup walks | `FolderTree`, `Folders` |
| Folder statistics (`convex/folderStats.ts`, `convex/lib/folderStats.ts`) | direct and subtree counters, rebuild jobs | adjust, move, hide, rebuild in pages | `FolderStats` |
| Permissions, roles, profiles (`convex/lib/permissions.ts`, `roles.ts`, `lib/ensureProfile.ts`) | profiles, emails, grants, owners of entries | resolve access, grant, revoke, adopt, sign in and merge | `Access` |
| Filesystem operations (`convex/filesystemSync.ts`, `storage/userFilesystem.ts`) | operation rows with lease and attempts, the user's directory | mkdir, rename, move, rmdir, file rename; recovery | `UserDisk`, `FilesystemOperations` |
| Filesystem sync (same files, `convex/storageJobs.ts`) | sync jobs and states, what a scan has seen | queue, claim, list, reconcile, sweep, complete | `FilesystemSync` |
| Media processing (`convex/storageJobs.ts`, `storage/mediaWorker.ts`, `locationMetadata.ts`) | media jobs, thumbnail, preview and metadata of an entry | queue, claim, read, remove the location, derive, complete, retry | `MediaJobs` |
| Storage migration (`convex/migrations.ts`, `storageGateway.ts`, `storage/maintenance.ts`) | migration rows, migration marks of entries | request, claim, copy, complete, fail, switch | `Migration` |
| Web client (`src/lib/transfers.ts`, `hooks/useUpload.ts`, `pages/GalleryPage.tsx`) | transfer rows, work queue, choice of each drop | upload, park, resolve, skip, retry, prove, delete and move folders | `Transfers`, `FolderTransfers` |
| Worker and server processes (`storage/worker.ts`, `server.ts`, `heartbeat.ts`, `polling.ts`, `concurrency.ts`) | claims, heartbeats, slots, wake-ups | loop, heartbeat, abort, admission | in the module of the work they do; slots in `Transfers`; wake-ups not |
| HTTP boundary, download tickets, gallery settings, audit, backups | single rows | validate, forward, edit, sweep | not modelled (section 5) |

**How they interact.** A client mutation writes the catalog. The storage server
and the worker poll `claim-*` mutations, act on files, and call `complete-*` or
`fail-*`. Uploads, deletions and moves meet in four places: the *name* of an
entry in a folder, the *storage key* that several entries can share, the
*moveJobId* that marks an entry as being moved, and the *statistics* of a gallery.
Folder changes meet in the *copies* of the chain of ancestors that access, path
keys and storage keys are read from, and in the counters of every folder above.
Operations and scans meet on the *disk*, which the catalog only knows by report.
Media work, uploads and migrations meet in an entry's *key and hash*, which all of
them change, and in the file at its path.

**What is hard.** A decision taken in one mutation is used in a later one
(landing names, the reference check before an unlink, the key a move copies to).
A claim is protected by a lease, but completions do not look at who claimed.
Every completion may be repeated or reported as failed after it took effect.
On user storage the file system is addressed by path, so a replacement
overwrites the file it replaces.

**What makes each component correct.** Names: one ready entry per name in an
image folder, nothing displaced unless asked for. Uploads: each lands once or
not at all, and always settles. Deletions: each deleted row has one job, files
go only with their last reference, jobs end. Moves: a file is in one folder at
any time, counters match the jobs, no item is forgotten, no entry is left
marked. Statistics equal what is listed. Folders: a copy is right or about to be
repaired, a known total is exact, an unknown one is being counted, access follows
the tree. User directories: disk and catalog agree once operations have ended; a
finished scan lists what is there. Media: derivatives belong to the content, a
removed location does not come back, a migration loses no file, an upload over a
file stays. Client: each row
tells what became of its file.

`PROJECT.json` lists the hazards line by line with the properties that cover them.

## 2. Modules

Five families of modules, each with the part of the state its components share.
A family models what it needs of the others as single steps, and says so in the
comment at its head.

```
Directory            what users are promised (abstract specification)
Catalog              tables, names, keys, records, shared reads and writes
 |- EntryNames       lib/entryNames.ts
 |   |- Uploads
 |   '- EntryMoves   bulk operations and moves
 '- Deletions
Gallery              EXTENDS Uploads, Deletions, EntryMoves: Next, Spec, properties
 |- MCGallery        instances for TLC
 '- GalleryTypes     type correctness, proved
     |- GallerySafety   four safety properties, proved
     |   '- GalleryRefinement   image galleries implement Directory, proved
     '- BulkSafety      counters of bulk operations and galleries, proved

FolderTree           folder and file rows, chains, path keys, scheduled walks
 '- FolderStats      counters and rebuilds
     '- Folders      the mutations, walks, cleanup; properties of the tree
         |- Access   roles, policies, profiles; AccessSpec          -> MCFolders
         |   '- FoldersSafety   the tree and the rights in it, proved
         '- UserDisk the directory of a gallery on user storage
             '- FilesystemOperations
                 '- FilesystemSync   scans; SyncSpec                -> MCFilesystem
                     '- FilesystemSafety   files being renamed, proved

MediaJobs            uploads over images, queue, worker, location removal
 '- Migration        migrations and deletions beside them; Spec     -> MCMedia
     '- MediaSafety   jobs and contents of galleries not migrated, proved

Transfers            uploads of one tab and the places of the server
 '- FolderTransfers  folder deletes and moves, the whole tab; Spec  -> MCTransfers
     '- TransfersSafety  the list, the slots and the choice to skip, proved
```

### Gallery

**State.** Each table is a function from ids to rows; an unused id holds a row
with status "absent", so an insert takes a free id. Ids come back only when
nothing in flight names them (`FreeDeleteJobs`, `FreeMoveJobs`), as Convex never
reuses an id. `files` maps a storage key to the content at that path.
`handlers` and `workers` hold, per process, what it learned in earlier calls:
`claimUpload` returns a name, so `handlers[h].name` keeps it even when the intent
has been claimed again under another name.

**Actions.** A Convex mutation is a serializable transaction and is one action,
with every write it makes. A task of the storage service is split at every call
and every file-system effect: an upload is `claimUpload`, `installReplacing`,
`statInstalled`, `completeUpload`, with `renewUpload`, `abortUpload`, `failUpload`
and `handlerCrash` possible in between; a deletion is `claimDelete`,
`unlinkOriginal`, `completeDelete` and so on; a move is `claimMove`,
`lookAtDestination`, `copyAtomically`, `statCopied`, `completeEntryMove`. A call
whose reply is lost is the action with `answered = FALSE`: it takes effect and
the caller goes on to report a failure.

**Time.** A lease is a flag, `lapsed`, that the clock may set at any moment and a
renewal or a new claim clears. The delay before a retried job is available is
not modelled: it may be claimed at once.

**Names and keys.** A name is a stem with a number, `<<"photo", 2>>` for
"photo (2).jpg"; all case and Unicode variants of a name are one value. On shared
storage a key is the gallery's root with the content (a stand-in for its SHA-256),
on user storage it is the path.

**Batches.** `process`, `applyConflictPolicy` and `queueEntries` work on batches
of 32 entries or jobs in one transaction; the model takes one item per step, which allows
every interleaving the batches do and more.

### Folders and access

A folder row has a `parent`, which is the truth, and `ancestors`, a copy. The
mutations of `Folders` (`create`, `rename`, `move`, `remove`, `setAccess`, ...)
change rows and counters in one step, as their transactions do, and add to `tasks`
the functions they schedule: `reparentSubtree`, `resetChildAccessPolicies`,
`cleanupMissingFolder`. Each run of such a function is one step on one folder, and
edits come between. `stats` and `rebuilds` are handled as one record, so that the
helpers of `lib/folderStats.ts` compose within a step; a rebuild reads one row per
page, and carries instead of a revision whether its revision is the current one.
`Access` resolves roles as `permissions.ts` does, along `ancestors`, and states the
properties along the parents. Roles are ranks 0 to 3. Of the second, mounted
gallery only the owners of entries are kept, for adoption and its backfill.

### User directories

`disk` maps inodes to a directory, a name and a revision that stands for the
modification time. An operation is `Request` (the mutation), a claim, the change of
the disk and the report; a runner may stall after any of these, its lease lapses,
and another does the operation again. `strayed` is a history variable: what an
operation put along a path that had changed under it, or replaced there, which
`OperationsAgree` leaves out and the README lists below. A scan is a lease on one
folder, a comparison of modification times, a listing, reconciliation of each name,
a last look at the directory and a sweep; people with a shell make one edit of any kind.

### Media and migration

Contents stand for hashes. `WithoutLocation` maps a content to what a removal leaves.
A job holds the key and hash it was queued for; a worker keeps what its claim said,
and between claim and report uploads, other jobs and migrations change the entry and
the file. An upload over an entry is three steps, `claimUpload`, `installUpload` (the
file), `completeUpload` (the row); it may stop after any of them. The worker takes one
step for each look at the file, each reading and each writing: `examine`, `readImage`,
`installImage`, `createThumbnail`, `extractMediaMetadataJson`, `createPreview`,
`checkAgain`, then the report. A derivative is put in place before the second look, as
in the code. A maintenance worker takes deletions before entries to migrate; the copy,
the report and the deletion of the old file are separate steps.

Some properties are about what holds while nothing has been put over a user file
(`overwritten`) and no content changed beside a migration (`overtaken`); what happens
otherwise is shown by configurations of their own (section 3, "Disagreements"). The history variable
`condemned` holds the keys a delete job was told to unlink while no ready entry had
them: an entry that takes such a key before the unlink loses its file, which is the
subject of the run `ready_has_file`.

### Transfers

A row of the transfer list is `rows[i]`; work behind it is a job in its drop's
queue (`pending`) or a run (`runs`), and a request of the server with its place
(`requests`, `active`, `waiters`). The user drops files, chooses for one or all
parked files, skips them, retries, clears the list. The listing proves failed rows. A
file that was given a new name is refused when that name is taken by the time it lands
(`newNameTaken`), as any other that does not replace.
`FolderTransfers` adds folder rows with their operations, which on user storage
go on without the tab once they have been claimed.

### Steps that are one in the model

Everything the properties could tell apart is a step of its own. These awaits are not:

* a derivative is made and renamed into place in one step, from the image that is read
  (`media.ts:81-186`); so is a file that is copied (`copyAtomically`), and the original,
  thumbnail and preview of a migrated entry are copied in one step (`Migration!copy`);
* looking whether a shared file is there and keeping it or renaming onto its place
  (`upload.ts:140-145`, `locationMetadata.ts:143-150`): what is there has the same content;
* in `Migration`, `unlink` and the report of a deletion (`Deletions` has them apart);
* in `MediaJobs`, the claim of an upload replaces a ready entry; one whose entry has
  gone by then would add a row, as in `Uploads`, and does nothing here;
* a worker that looks for work finds it: idle delays and wake-ups only cost time.

### Faults

**Fault operators.** An operator under a comment "Fault: ..." is a plausible bug of
the definition below it. No specification uses it; it is there to show that each
property notices that bug (`PROJECT.json`, "mutants").

## 3. What the runs check

| Run (module) | Instance | Shows |
| --- | --- | --- |
| `uploads` (MCGallery) | one shared image folder, 2 intents, 2 handlers, 2 contents, 2 entries, names "a" and "a (2)" | `UniqueReadyNames`, `ReservationsExclusive`, `LandsOnce`, `KeepsPromise` |
| `deletions` (MCGallery) | one user-storage folder, 1 seed, 1 upload, 2 delete jobs, 2 workers, 2 attempts | `TypeOK`, `DeletedHaveOneJob`, `StatsExact` |
| `sharing` (MCGallery) | an uploader gallery, 2 entries of one content, 1 handler, 1 worker, fairness | `UploadsSettle`, `DeletionsSettle` |
| `moves` (MCGallery) | a user gallery and a shared one, a namesake in each, 1 move, 2 delete jobs, 1 worker | `StatsExact`, `KeepsPromise` |
| `parking` (MCGallery) | two files to move, one onto a namesake, 2 move jobs, 2 attempts | `ParkedCounted`, `NoItemForgotten`, `ItemsAccounted` |
| `bulk` (MCGallery) | one operation over two folders, move or delete, fairness | `OperationsSettle` |
| `folders` (MCFolders) | a branch of three folders beside a restricted one, 1 file; a founder, an invited account, a visitor; mixes of edits, grants and sign-ins | `FoldersTypeOK`, `TotalsExact`, `NoStalledRebuild`, `CopiesRightOrWalked`, `NothingOrphaned`, `SiblingNamesUnique`, `InheritsOnceWalked`, `NoLeakInOneWalk`, `RightsKept`, `TreeSettles` |
| `filesystem` (MCFilesystem) | two nested folders and a file on disk; 2 operations, 2 runners, 2 scanners, 2 attempts; mixes of requests, scans, an edit by hand, crashes | `OperationsAgree`, `MarkedByOperation`, `ScanListsFiles`, `ScansEnd` |
| `media` (MCMedia) | two images of one content, or an image and a sound; 2 media workers, 1 maintenance worker, 1 upload, 2 attempts; mixes of the upload, requests, crashes, failures, migrations, a deletion | `PendingHasJob`, `DerivativesMatch`, `RemovedStays`, `OriginalsKept`, `UploadsStay`, `SwitchesWhenAllMoved`, `MediaSettles` |
| `transfers` (MCTransfers) | 3 files in 2 drops, one for a subfolder; 1 place and 1 waiting on the server; 2 folders; mixes of clicks, failures, others' changes | `RowsTell`, `SlotsCounted`, `SkipSparesChosen`, `TransfersSettle` |
| `ready_has_file` (MCGallery), `same_kind_migration` (MCMedia) | see "Disagreements" | `ReadyHasFile`, `OriginalsKept` violated |

A *mix* (`Mixes`, `Mix` in the MC modules) is an initial budget: how many steps of
which kind clients, people and misfortune may take. A run starts from each of its
mixes, so that one run covers several small situations whose product would be too
large. What the program does by itself is never budgeted.

`KeepsPromise` is refinement: under the mapping in `Gallery` (the listing is the
ready entries of each folder, a request's fate is its intent's state, a folder is
granted when a move that replaces is under way) image galleries implement
`Directory`, in which every listing change is one atomic step of an upload, a
removal, a rename or a move, and only "replace" displaces a file.

**Why the bounds are enough.** Each hazard needs two actors on one name, key, folder
or entry and one crash, lapse or lost reply between their steps: two handlers or two
workers, two claims of one job (two attempts), two rows in one place, two edits of
a branch three deep with a walk between. One free variant of a name is enough to be
taken by the other actor. More rows repeat these pairs. What the bounds exclude:

* `MCGallery`: `Standing` (no gallery is removed; `deletions` and `bulk` have that),
  `FromFirst` (operations start in f1), `MovesOnly` (`bulk` has deletions),
  `NothingRemoved` (entries stay; `moves` has removals). No run with a liveness
  property has a constraint or a symmetry. The symmetries of the other runs
  permute ids the initial state does not tell apart.
* `MCFolders`: `RefuseCycles` leaves out a move that closes a cycle (see
  `MCFolderCycle`); two edits of the tree, or one with a grant, or two grants with
  two sign-ins. Folders are listed, none is unlisted.
* `MCFilesystem`: clients do not claim an operation beyond its attempts; people with
  a shell do not give a name to another file (`KeepNames`), and no file stands where
  a folder is wanted; an operation and a scan meet without crashes.
* `MCMedia`: one maintenance worker (a second one whose lease lapsed would report
  twice); one upload, beside one request, deletion, lapse or crash; a migration comes with a deletion, a crash and failures, or with an
  upload or a removal of the same image, and two migrations without a crash.
* `MCTransfers`: one tab that stays open in one folder; two clicks, three failures;
  four requests; a folder is acted on once, and retried; the subfolder of a drop is
  new.

`CHECK_DEADLOCK FALSE` everywhere: ids are never given back to clients, so an
instance stops when its intents and operations are used up.

**Fairness.** `Fairness` in `Gallery` asks for what the service schedules: a
request or job a process holds ends (`handleUpload` and `runWithHeartbeat` bound
it by `workerTaskTimeoutMs`); an idle worker loop polls (`runLoop`); leases run
out; scheduled Convex functions run; the recovery sweep runs every minute and is
strongly fair, because tokens expire after 15 minutes and so a claim cannot keep
getting ahead of it. Nothing is assumed of clients, nor that any step succeeds.

In the other families: `AccessSpec` asks that functions the scheduler holds run
(`Background`), of each folder; `SyncSpec` that a scanner goes on, an idle one claims
a queued job, and scheduled functions run; `Spec` of `Migration` that each worker's
loop goes on and that leases nobody renews lapse; `Spec` of `FolderTransfers` that
the open tab goes on and that a request with a place ends, as its task has a
timeout. Crashes, failures, clicks and edits never have to happen, and no fairness
is asked of operations on user storage: their liveness is not claimed.

### Disagreements

Two runs check what a comment or the manual says, and TLC finds it violated; each is
a `findings` entry with its lines.

* `ready_has_file`: the reference check of a delete job and the unlink are two
  steps; an upload of the same content between them keeps the file it finds and
  completes, and then the file goes.
* `same_kind_migration`: a migration from one shared root to another (or one user
  root to another) selects its entries by the kind of storage, which a moved entry
  still has. It is claimed again, copied onto itself, and its live file is deleted
  as the old copy; the gallery never switches.

More counterexamples have a configuration each, outside the list of runs. In this
directory, `tlc -config <cfg> <module>` shows:

| Configuration (module) | Violated | What happens |
| --- | --- | --- |
| `MCMovedBack` (MCGallery) | `RemovalDecisionSafe` | The reference check leaves out the job's own entry (`storageGateway.ts:600`). For an entry that was moved out of a gallery and back while the first move's leftover job waited, that job deletes the live file. |
| `MCCountedTwice` (MCGallery) | `OverMeansSettled` | A move fails in `completeEntryMove`, the reply is lost, the worker reports an error, and the failed job is queued again after its operation counted it (`storageGateway.ts:1067`; `lib/bulkOperations.ts:12-14` says items are in one state). |
| `MCStuckMoving` (MCGallery) | `MovingHasLiveJob` | An upload replaces an entry that has a queued move. Failing the move no longer recognises the entry, which stays marked as moving (`storageGateway.ts:645-659`). |
| `MCReclaimed` (MCGallery) | `RenameKeepsBoth` | `completeUpload` takes the name from the intent, as the last claim left it (`storageGateway.ts:170`), and the path from the request, as its own claim said. On user storage an upload under "rename" that stalls past its lease and is claimed again under another name finds no namesake in its way, takes the row at its old path for its own (`:206`), and the file uploaded there meanwhile is no longer listed (`docs/user.md:244-245`: "Auto rename to keep both files under different names"). |
| `MCFolderCycle` (MCFolders) | `NoFolderInItself` | `moveMany` looks for a cycle in `ancestorIds` (`folders.ts:976-980`). A is moved under B, and before the walk has reached C below A, B is moved under C: both hang from each other, and from the root no more. |
| `MCStaleAccess` (MCFolders) | `InheritsFromParents` | After a move out of a restricted folder, or into one, access below follows the old chain until the walk is there; the manual (`docs/user.md:405`) says the nearest parent's policy counts. `InheritsOnceWalked` is what holds. |
| `MCTileLeak` (MCFolders) | `PreviewsNeverLeak` | A is moved into the restricted C, then D, which holds an image, under B below A, before the first walk is there. The chain of D's subtree does not name C yet, so a visitor sees its image in the tiles of the folders he is shown; `folders.ts:173-174` says "a restricted or unlisted subfolder never leaks into an ancestor's tile". One move is enough where its viewer was granted the old parent. `NoLeakInOneWalk` is what holds until the walks are done. |
| `MCStaleKeys` (MCFilesystem) | `ScannedKeysFound` | A directory is renamed outside and scanned. Its folder is recognised by identity and renamed, its files are "unchanged" (`filesystemSync.ts:443-447` does not compare keys) and keep the old path (`docs/user.md:472-473`: use it "to refresh the gallery after files have been added, changed, or removed outside the website"). |
| `MCStaleMetadata` (MCMedia) | `MetadataFollows` | A replacing upload stores no metadata and keeps `metadataVersion` (`storageGateway.ts:244`), so the next job does not read it (`storageJobs.ts:317-319`): the new file has none. `docs/deployment.md:100-102` says a job generates it. A scan does the same (`filesystemSync.ts:557`). |
| `MCContentAddressed` (MCMedia) | `DerivativesContentAddressed` | On user storage a file that is replaced between the worker's first look and its thumbnail gets a thumbnail of the new image under the name of the old one's hash (`mediaWorker.ts:17-49`, `media.ts:133,175`). The second look fails the job, after the fact; another entry of the old content names this thumbnail. When a location is removed there is no second look (`:47`). `docs/deployment.md:38-39`: "content-addressed thumbnails and full-resolution compatibility previews". On shared storage it cannot happen, which is proved (`SharedDerivativesAreAddressed`). |
| `MCUploadOverwritten` (MCMedia) | `UploadsKept` | On user storage a location removal reads the image, strips it and renames the result over the path, whatever is there by then (`locationMetadata.ts:120-142`). An upload that has replaced the file in between is lost, and completes all the same (`docs/user.md:244-245`: "choose Replace to overwrite it"). `UploadsStay` is what holds. |
| `MCOvertaken` (MCMedia; with `-continue` both) | `UploadsKept`, `RemovalIsPermanent` | A migration lets no new upload be claimed, but one that was claimed before completes. If its entry is being copied, the report of the copy, which does not compare keys (`storageGateway.ts:1016-1046`), sets the old content again and queues the new file for deletion. A location that is removed during the copy is back likewise, under a row that says it is gone (`docs/user.md:431-433`: "permanently rewrites the stored image"). |
| `MCProvenWrong` (MCTransfers) | `SuccessMeansLanded` | An upload fails; somebody else stores a file of that name; the row turns to success ("the live listing proves the work happened", `GalleryPage.tsx:1086-1089`). |
| `MCSkipParks` (MCTransfers) | `SkipSticks` | A file that runs under "rename" is refused when its new name has been taken by the time it lands (`storageGateway.ts:182-184`), and is parked although the user has chosen to skip the drop's conflicts: the test for that wants `policy === undefined` (`GalleryPage.tsx:887`; `transfers.ts:224-227`: "tells running batches to skip conflicts from now on"). `SkipSparesChosen` is what holds. |
| `MCDeadRetry` (MCTransfers) | `RetryCanWork` | A folder operation fails for good or expires; its row keeps a retry that calls the same operation, which can never be claimed again (`filesystemSync.ts:1099-1109`; `transfers.ts:19`: "present when the failure is retryable"). |

Smaller disagreements met while modelling, each kept apart by a bound or by the
wording of a property, none with a run of its own:

* *User directories.* `rename` follows a `stat` of its destination, so what appears
  between is replaced. A source that is gone with any directory at the destination
  counts as done. `mkdir -p` brings back a path that was renamed since the claim.
  `rmdir` looks at the name the operation was queued with. A runner that stalled
  past its lease acts on whatever is at the path by then. A scan between the change
  of the disk and its report adds a second row; one with an old listing reverts a
  name or revives a folder. An in-place change of a file does not advance the
  modification time of its directory, so a scan passes over it. A renamed to B with
  a new A in one batch leaves A unlisted until the directory changes again. An
  operation out of attempts leaves its entry marked (`MarkedByOperation` admits it),
  and a claim that throws blocks the queue behind it (`filesystemSync.ts:1136`).
* *Bulk operations.* When the source gallery is removed while items are parked,
  `processSourceGone` ends the operation as failed; a parked item that is resolved
  afterwards is refused and no longer counted (`NoItemForgotten` leaves these
  operations out), and "skip" for all computes the status anew: "processing" again,
  with nothing left to process (`bulkOperations.ts:428-444`, `:642`, `:859`).
* *Folders and roles.* A grant may name a folder that is gone, or lower the last
  owner. A batch of adoptions stops half way when the profile it adopts for is
  merged away. A folder removed before its walk leaves its children readable under
  the old chain until they go. A stale depth lets `MAX_FOLDER_DEPTH` be exceeded.
* *Media and migration.* A report of a copy made twice queues the new file for deletion, a
  preview made during the copy is forgotten. A delete job leaves its own entry out of
  the reference check, of derivatives too: migrating there and back unlinks the live
  file, and a stale job takes a thumbnail that the entry names again. On user storage a
  removal that finds a replaced file at the path, which it does not compare, records
  its content and keeps the thumbnail of the old one; between an upload's file and its
  row, or for good when it is refused, the row is that of the file before (the premise
  `~overwritten`). A failed migration leaves entries
  at the target. An upload across the switch has the new kind of storage and a key of the
  old. A video that can never be decoded gets a new job from every sweep of
  unprocessed entries. A media job that is dropped after a migration leaves the
  thumbnail pending (`PendingHasJob` holds without migrations of such entries).
* *Client.* A retried upload runs beside its drop's queue, so more than the limit
  may run, after the drop has deregistered its choices. A retry while the server
  still serves the first attempt parks on the name its own request reserved. A request
  whose client has gone keeps its place until its task times out. All files of a
  new subfolder fail with the one call that creates it.
* *Limits too large for small instances.* The reference check reads 16 entries of a
  key (`storageGateway.ts:568`); `pickAvailableName` gives up after 1000 variants and
  the operation with it (`bulkOperations.ts:599`); the second of two quick
  replacements drops the delete job of the first stale key
  (`storageGateway.ts:269`), which leaks a file.

## 4. What is proved

`tlapm` checks `GalleryTypes`, `GallerySafety`, `BulkSafety`, `GalleryRefinement`,
`FoldersSafety`, `FilesystemSafety`, `TransfersSafety` and `MediaSafety` to the last
leaf.

| Theorem | States |
| --- | --- |
| `RowsCorrect` | `Spec => []TypeInv` |
| `TypeCorrect` | `Spec => []TypeOK` |
| `NamesStayUnique` | `Spec => []UniqueReadyNames` |
| `UploadsLandOnce` | `Spec => LandsOnce` |
| `ReservationsStayExclusive` | `Spec => []ReservationsExclusive` |
| `DeletedKeepOneJob` | `Spec => []DeletedHaveOneJob` |
| `NoItemIsLost` | `Spec => []ItemsAccounted` |
| `ParkedItemsCounted` | `Spec => []ParkedCounted` |
| `NoItemIsForgotten` | `Spec => []NoItemForgotten` |
| `StatisticsExact` | `Spec => []StatsExact` |
| `GalleryKeepsPromise` | `Spec => KeepsPromise`, where all galleries are image galleries on shared storage |
| `NothingIsOrphaned` | `AccessSpec => []NothingOrphaned` |
| `SiblingsDiffer` | `AccessSpec => []SiblingNamesUnique` |
| `CopiesGetRight` | `AccessSpec => []CopiesRightOrWalked` |
| `WalkedFoldersInherit` | `AccessSpec => []InheritsOnceWalked` |
| `SigningInKeepsRights` | `AccessSpec => RightsKept` |
| `MarksAreOwned` | `SyncSpec => []MarkedByOperation` |
| `ListTellsTruth` | `Spec => []RowsTell` (of the tab) |
| `SlotsStayCounted` | `Spec => []SlotsCounted` (of the tab) |
| `SkippingSparesChosen` | `Spec => []SkipSparesChosen` (of the tab) |
| `PendingIsServed` | `Spec => []PendingHasJob` (of media), without migrations |
| `DerivativesAreOfTheImage` | `Spec => []DerivativesMatch` (of media), on shared storage without migrations |
| `RemovedLocationsStay` | `Spec => []RemovedStays` (of media), on shared storage without migrations |
| `SharedDerivativesAreAddressed` | `Spec => []DerivativesContentAddressed` (of media), on shared storage without migrations |

**Assumptions.** The theorems on `Gallery` hold for any number of galleries, folders,
entries, processes and attempts. They assume what `Catalog` does:
`CatalogAssumption` (the types of the constants, that uploader galleries use shared
storage as `galleries.create` requires, finitely many entry ids), `NoneIsNoName` and
`NoneIsNoKey` (the null value is none of the names and keys), `IdsAreUnique` (no folder
has the id of a gallery, as keys on shared storage begin with the one and keys on user
storage with the other) and `SeedsAssumption` (the initial catalog is well formed and
holds a name once per folder). Those on the
tab hold for any items, drops, folders, limits and requests, and assume
`TransfersAssumption` and `FolderTransfersAssumption`: the types of the constants, and
that items, request ids and folders are finite, because a drop becomes a sequence of
jobs and places are counted. Those on folders hold for any folders, profiles, grants
and edits, and assume `TreeAssumption`, `AccessAssumption` and `SeedTreeAssumption` (the
tree to begin with hangs from its root with right copies of the chains and no
namesakes). `MarksAreOwned` holds for any tree, disk, number of requests, runners and
scanners, and needs none of them. Those on media hold for any images, contents, jobs,
workers, requests and attempts, and assume `MediaAssumption` (the types of the constants,
and that taking the location out twice is taking it out once) and `JobsForAll` (each entry
may have a job to begin with). TLC evaluates all of them.

### The gallery

**Type correctness.** `TypeOK` is not inductive: a step dereferences
`entries[job.entry].folder`, and an unused row has no folder. `TypeInv` adds what
rows in use have: a claimed intent a folder and a resolved name, a queued job an
entry, a key and a destination, a ready entry all of its fields, a busy process
the job or intent it serves (`Rows`, `Served`, `Owned`). It needs that entries a
job or operation names are never absent, and that an id is reused only when no
process still holds it.

**Unique names.** By cases on the steps that make an entry ready or change its
name or folder: `insertUploaded` and `replaceUploaded` look for the name's
occupant in the same step, `landMove` deletes the occupant it finds or fails,
`rename` refuses. All other steps keep names or remove entries. The reservations
are not needed for this: they only keep uploads from failing at the end.

**Reservations.** An intent enters "uploading" only through `claimUpload`, with a
name from `resolveLandingName` that avoids the names of all others unless its
policy is "replace"; no step changes the resolved name of an uploading intent
without claiming it again. The first claim may be the one that replaces, which is
why the property exempts either.

**Landing once.** An intent that is settled is never changed again: the only
step that could, `failUpload`, leaves "complete" alone, and a second `failUpload`
changes nothing because a settled intent holds no lapsed lease. That last fact is
the strengthening (`SettledQuiet`).

**One job per deleted row.** `Cardinality(purging(e))` is not convenient to carry
through steps; the inductive form says that `purging(e)` is a singleton for a
deleted entry and empty otherwise, and that an absent job row purges nothing.
Steps that make an entry deleted take a free job; a revival drops the jobs of the
entry with its state; `completeDelete` drops the job with the row.

**Counters of bulk operations.** `BulkInv` is that the jobs in use are finitely many
(sets of them are counted), that a worker never copies for a parked job
(`CopiesUnparked`: otherwise its report would settle an item that is counted as
parked), and `Balanced(o)` of each operation (`OperationsBalanced`): its `conflicts` are
its parked jobs; and, while its source gallery is there, its `total` is at most what it
has tallied plus its live jobs, and once it is over it has seen its whole selection, has
tallied it and parks nothing. `ItemsAccounted` is this without the parked jobs.
`NoItemForgotten` follows: an operation that still says "processing" after its whole selection was seen has
tallied less than its total (`Waiting`), so a job of its is live. The sum is an
inequality because a failed job that is queued again is counted twice
(`MCCountedTwice`). For the same reason an operation that is over has to be covered
(`Over`): counting a late report may not turn it back with nothing live. That an
operation which is over has no live job is not claimed, and is false
(`MCCountedTwice`). Operations whose source gallery is gone are exempt (section 3,
"Bulk operations").
`CountOne` and `JobWritten` say by how much a set of jobs changes when one row does,
`TallyRow` what counting does to an operation, and each action puts the two together.

**Statistics.** A gallery's count and bytes are compared with a cardinality and with a
sum that the library folds. `Counts` says both of all galleries, removed ones too,
and takes the sum as a parameter of the table of entries, so that a step that adjusts
twice has a middle. That a fold gives what is expected of it is an induction, which is
done with least counterexamples: of two functions that satisfy the recursion and differ,
take the smallest set on which they do (`LeastSubset`, `SumsAgree`, `SumsExist`). From
there, `BytesWithout` takes any one file out of the sum, `AdjustedCounts` says
when an adjustment by so many files and bytes keeps `Counts`, and each action shows
that it adjusts by what it changes. The clamp at zero never cuts
anything off, because what is subtracted is there. A replacing upload or a move that
lands on a file needs more: it subtracts the size that it read, from the gallery that
it reads from a folder, so the key of a ready entry has to belong to its folder
(`KeysMatch`), the place a worker copies to has to belong to the destination of its job
(`CopiesBound`), and a gallery is cleaned up only after it was removed
(`CleanedAreGone`).

**The promise.** `GalleryKeepsPromise` is the step simulation: every step of `Gallery`
is, under the mapping, a step of `Directory` or leaves it alone. The mapping chooses
the entry shown under a name, so it is well defined only with `UniqueReadyNames`.
Three more invariants are needed to find the abstract step. `Resolved`: a claim
resolves a name to itself, or to a variant under "rename", so that an upload lands
where its request says. `Away`: the operation of a job moves to another folder, so a
move never lands on itself. `Marked`: an entry marked as moving is the one its job is
about, and the job takes it to another folder under a variant of its name at most; a
move that lands is recognised by this mark, and its entry may have been replaced by an
upload since (the listing then moves the new content). First every step is sorted by what
it does to entries, intents and jobs (`Step`, `Bound`), then the three invariants and the
simulation are shown of these kinds of step. The hypothesis `ImagesOnShared` is what
`Directory` is about: uploader galleries keep namesakes. On user storage an upload
looks for the row of its file by path, and paths and names may disagree
(`MCReclaimed`), so there it does not hold in general; the `moves` run checks
`KeepsPromise` with a user gallery and no uploads.

### The folders

**The tree.** `TreeInv` is `NothingOrphaned`, `SiblingNamesUnique` and
`CopiesRightOrWalked` together with what they need of the rows (`TreeShape`: the root
stays, a folder other than the root has a parent), that no folder is its own parent
(`NotOwnParent`: the walk of such a folder would compute its chain from itself), and that
no walk is scheduled where the tree cannot be moved (`WalksOnShared`: on user storage a
walk may end early, at a chain with a missing row). A move puts the moved folder
right and leaves its children to the walk that it schedules; the walk puts the
children of one folder right and passes the task on to each; a creation, a landing
file or a settled entry copies from the folder it goes into, right or not, and is
right as far as that folder is concerned. So the disjunction "right, or to be walked"
moves down the tree one level at a time, and a second move on the way only adds tasks.
A row goes only when nothing is in it any more. A folder hung under itself by
`MCFolderCycle` breaks none of this: the theorems do not assume `RefuseCycles`.
Each action is a lemma; `LooksKeep` and `FilesKeep` are for all actions that change
only names, policies and visibility, or only entries.

**Inherited roles.** `InheritsOnceWalked` compares the role along the copied chain with
the one along the parents. `CopiesRightOrWalked` is about one level, so this is an
induction up the line of parents, done as a least counterexample on the distance from
the folder (`LeastNumber`, `ClimbExists`, `ClimbShape`): where no walk is left on the
line, each copy is its parent's copy and the parent, up to the root with an empty one
(`LineInv`), so chain and line are one sequence (`LineIsChain`). Along it the code
looks for the nearest explicit policy and the strongest grant separately
from the folder's own, the manual takes the maximum of all: `StrongestOfParts` and
`RoleOfChain`. A line that closes into itself cannot be walked: its chains would grow
for ever, and a chain longer than there are folders repeats one (`WalkedOnce`).

**The rights.** `RightsInv` adds to the types that a profile that is gone has no grants,
and that the owner of a mounted entry exists or is the unknown uploader. A batch
of an adoption runs after its target may have been merged into another profile: then the
target has no grants, the batch stops, and nothing is given to a profile that is gone.
`AbsorbedKeeps` says of the merge that no grant is lost on any scope.

### Files that are being renamed

`MarkedByOperation` is inductive once the operation of a mark is known to exist and
to be a file rename (`Owned`): `failFilesystemOperation` frees an entry only for that
kind. An operation that is claimed a second time marks its own entry again, because
`mayMark` refuses the mark of another. One that ends, by the report or by the last
failure, frees its entry in the same step; one that is given up had a lapsed lease,
which nothing renews afterwards, and keeps its mark, which is the exception the
property names. `UnmarkingKeeps` and `OperationsKeep` are for the forty steps of
scans, walks, clean-ups and leases that touch only one of the two tables. The disk
appears in no part of the argument.

### The tab

`IInv` is the conjunction of what the browser and the server know. `ClientInv`: types;
`Worked`, that a row is pending exactly while one job or one run is behind it;
`Slotted`, that the slots of a drop are its runs with a slot, at most `Concurrency`;
`SkipSparesChosen` itself, which says of a row that is parked after the choice to skip
that it ran under "rename". `Asked`: the request a run waits for is about its item and
under the policy it asked for. Without it a request that was sent without a policy could
answer "exists" to a run that is to replace, and its row would be parked after that
choice. `ServerInv`: waiting requests wait once (`Queued`), the places are the requests
that hold them and nobody waits while one is free (`Placed`). `FolderInv`: a folder row
is pending exactly while one call has to settle it; what a call has to do is about
rows it has and operations that exist; and what it calls a success at the end has left
the listing by then (`Called`, `InTurn`). Cardinalities in the properties are read off
at the end; the proofs say "at most one" of jobs, runs and calls.

### Media

**Jobs.** `PendingHasJob` is not inductive: a claim or a report drops a job that its entry
no longer fits, whether or not another one is there. `JobsInv` is `PendingServed` (the
property, without its premise) with what makes this safe.
`JobsFit`: all jobs of an image that still needs a thumbnail are for its key and content.
(Only the removal of a location changes these without replacing the jobs, and it
brings the thumbnail along.) `ClaimsFit`: while its job is there, a worker works at what the
job is for, makes the thumbnail that is needed, and takes a location out only if
the job still says so. `PendingNeeds`: what is pending is needed. So a job that is
dropped leaves an image that has its thumbnail, or a job that fits beside it. It needs
that an id is not given again while a worker knows it (`unused`, `abandoned`). Failures
mark the row when the attempts have run out. The steps of the work itself change
neither rows nor jobs and keep what the claim is about (`SameWork`); uploads that are
claimed or installed change neither. `KeptJobs` is for the steps that change
neither keys nor jobs, `JobsAfter` for the others. With migrations the property does not
hold (section 3, "Media and migration").

**Contents.** On shared storage a key names a content. `ContentInv`: each file has the
content its key names (`NamedByContent`), each row has a key of its content, metadata of it
or none, and derivatives that are named by it up to its location (`EntriesFit`), and
each worker, at each of its stages, has read, made and noted what its claim says
(`WorkersFit`). Each step of the work keeps `WorkFits` of the worker that makes it, because
whatever it reads is named by its content, and writes what the name says. Nothing is
assumed of who else works on the files: a worker that lost its job writes what the name
says all the same, and an upload that installs a file keeps one that is there. A report
changes the row only if its job is still for the row, and then
`ClaimsFit` tells that the claim was for the same content. The three properties follow.
On user storage a name says nothing of the content (`MCContentAddressed`).

### Only model-checked

Liveness is out of reach of the prover. The code adds up the totals of folders along
the *actual* parents (`lib/folderStats.ts:51`, `chainFrom` in the model), not along the
copied chains. `TotalsExact` is not proved because no inductive invariant was found that
relates the sums over subtrees of any shape with rebuilds that read a folder page by page
while it changes; and a pair of moves that closes a cycle of parents (`MCFolderCycle`) breaks
it, so that it needs `RefuseCycles` besides. `FoldersTypeOK` (its counters
never negative) and `NoStalledRebuild` rest on it. `KeepsPromise` with a gallery
on user storage, where it holds while nothing is uploaded. `NoLeakInOneWalk`, which
holds only with one walk under way (`MCTileLeak`). Of the filesystem
family `OperationsAgree` and `ScanListsFiles`, about paths that are recursive functions
over directories. Of the media family `OriginalsKept`, `UploadsStay` and `SwitchesWhenAllMoved`, which
the code does not keep in general (`same_kind_migration`), and the properties above with
migrations or on user storage, where they hold within the mixes and under their premises
only (section 3).

## 5. What is not modelled

*Components.* The HTTP boundary forwards and validates; a lost reply is modelled
where callers meet it. Download tickets are one row with an expiry. Settings,
audit, activity and backups are single-row edits and reads. The rest of the React
application (`AdminPage`, `MediaViewer`, `UploaderPage`, most of `GalleryPage`) renders
queries and calls one mutation per click. Idle back-off and wake-ups of workers
only save waiting. What a codec, `sharp` or `ffmpeg` does is one step that may fail.

*Inside the components.* Case variants of a name; passwords; retry delays; page sizes
above one; the limits on reservations (256), reference checks (16) and statistics
pages; unlisted folders; hard links. An upload's content is fixed by its intent: a
client that sends something else is a failed or another upload. In `Gallery` only
upgallery writes user directories; `FilesystemSync` has the other hands.

*Between the families.* Uploads onto a directory while it is scanned, entry moves
during a migration, and the reservations that meet a client's retry are each
modelled on one side only, as single steps. Of an upload beside media work and
migrations `MediaJobs` has the claim, the file and the row, without leases and names, and
one that replaces a file only.

## 6. Plan

1. Proofs: `OperationsAgree`, once paths are functions of a bounded depth; the totals of
   folders, without a cycle of parents.
2. Composition of `Uploads` with `FilesystemSync`: uploads that complete behind a
   scan's position; two entries that come to share one key.
3. Two maintenance workers in `Migration`, once the report checks the key it copied.
4. `Concurrency`: `WorkerWakeups` and the lanes of a worker; `Tickets`.
