------------------------------ MODULE Migration ------------------------------
(***************************************************************************)
(* Storage migration of one gallery (convex/migrations.ts, claims and      *)
(* reports in convex/storageGateway.ts, storage/maintenance.ts), beside    *)
(* the media work on the same entries.                                     *)
(*                                                                         *)
(* The maintenance worker copies one entry at a time to the target, the    *)
(* entry then names the copy, and the old file is queued for deletion.     *)
(* The gallery itself switches once no ready entry has the source's kind   *)
(* of storage.  The worker takes deletions before entries to migrate.      *)
(*                                                                         *)
(* A deletion job that a worker has is not given to another (Deletions has *)
(* its leases and retries); entry moves come between (EntryMoves).         *)
(***************************************************************************)
EXTENDS MediaJobs

CONSTANTS MigrationIds, Movers

VARIABLES
    migrations, movers,
    condemned       \* history: keys chosen for deletion while no ready entry had them

migrationVars == <<migrations, movers, condemned>>
vars == <<mediaVars, migrationVars, budget>>

NoMigration == [status |-> "none", source |-> "shared", target |-> None]

Idle == [at |-> "idle", migration |-> None, entry |-> None, content |-> None,
         keys |-> <<>>, copies |-> <<>>, job |-> {}, unlinks |-> {}]

Init ==
    /\ MediaInit
    /\ migrations = [m \in MigrationIds |-> NoMigration]
    /\ movers = [w \in Movers |-> Idle]
    /\ condemned = {}

\* A user-mounted gallery has been scanned.
requestMigration(m, target) ==
    /\ migrations[m] = NoMigration
    /\ gallery.pending = None /\ target # gallery.location
    /\ migrations' = [migrations EXCEPT ![m] = [status |-> "queued",
                          source |-> gallery.location.kind, target |-> target]]
    /\ gallery' = [gallery EXCEPT !.pending = m]
    /\ UNCHANGED <<entries, uploads, workVars, deleteJobs, files, movers, condemned>>

-----------------------------------------------------------------------------
deletesInHand == UNION {movers[w].job : w \in Movers}
free == deleteJobs \ deletesInHand

\* No other ready entry has the key: up to 16 of them are looked at.
unreferenced(field, e, k) == \A x \in EntryIds \ {e} : ReadyEntry(x) => entries[x][field] # k

\* What claimMaintenance has the worker unlink.
toUnlink(d) ==
    (IF d.original /\ unreferenced("key", d.entry, d.key) THEN {d.key} ELSE {})
    \cup (IF unreferenced("thumbnail", d.entry, d.thumbnail) THEN {d.thumbnail} ELSE {})
    \cup (IF unreferenced("preview", d.entry, d.preview) THEN {d.preview} ELSE {})

\* claimMaintenance: deletions come first.
claimDelete(w) ==
    /\ movers[w] = Idle
    /\ \E d \in free :
          /\ movers' = [movers EXCEPT ![w] = [Idle EXCEPT !.at = "deleting", !.job = {d},
                                                          !.unlinks = toUnlink(d)]]
          /\ condemned' = condemned \cup
                 {k \in toUnlink(d) : \A e \in EntryIds : ReadyEntry(e) => entries[e].key # k}
    /\ UNCHANGED <<mediaVars, migrations>>

\* processDelete and completeDelete; an upload may have taken the job away.
deleteFiles(w) ==
    /\ movers[w].at = "deleting"
    /\ files' = {file \in files : file.key \notin movers[w].unlinks}
    /\ deleteJobs' = deleteJobs \ movers[w].job
    /\ entries' = [e \in EntryIds |->
           IF \E d \in movers[w].job \cap deleteJobs : d.whole /\ d.entry = e
           THEN [entries[e] EXCEPT !.state = "gone"] ELSE entries[e]]
    /\ movers' = [movers EXCEPT ![w] = Idle]
    /\ UNCHANGED <<gallery, uploads, workVars, migrations, condemned>>

-----------------------------------------------------------------------------
current == {m \in MigrationIds : migrations[m].status \in {"queued", "processing"}}

candidates(m) ==
    {e \in EntryIds : ReadyEntry(e) /\ entries[e].storageKind = migrations[m].source}

\* Fault: an entry that is being moved counts as moved.
notMoving(m) == {e \in candidates(m) : entries[e].migration # "moving"}

\* What has to be gone before the gallery switches.
remaining(m) == candidates(m)

available(m) ==
    {e \in candidates(m) : entries[e].migration = "moving" => entries[e].lapsed}

\* claimMaintenance, with no deletion and an entry of the migration to move.
claimMigration(w, m, e) ==
    LET row == entries[e]
    IN  /\ movers[w] = Idle /\ free = {} /\ m \in current /\ e \in available(m)
        /\ migrations' = [migrations EXCEPT ![m].status = "processing"]
        /\ entries' = [entries EXCEPT ![e] =
               [@ EXCEPT !.migration = "moving", !.lapsed = FALSE, !.attempts = @ + 1]]
        /\ movers' = [movers EXCEPT ![w] = [Idle EXCEPT !.at = "copying", !.migration = m,
               !.entry = e, !.content = row.content,
               !.keys = <<row.key, row.thumbnail, row.preview>>]]
        /\ UNCHANGED <<gallery, uploads, workVars, deleteJobs, files, condemned>>

\* claimMaintenance, with none left: the gallery switches.
completeGallery(w, m) ==
    /\ movers[w] = Idle /\ free = {} /\ m \in current
    /\ available(m) = {} /\ remaining(m) = {}
    /\ migrations' = [migrations EXCEPT ![m].status = "complete"]
    /\ gallery' = [location |-> migrations[m].target, pending |-> None]
    /\ UNCHANGED <<entries, uploads, workVars, deleteJobs, files, movers, condemned>>

\* renewMigration: it brings back a lapsed claim.
renewMigration(w) ==
    LET e == movers[w].entry
    IN  /\ e # None /\ entries[e].migration = "moving" /\ entries[e].lapsed
        /\ migrations[movers[w].migration].status = "processing"
        /\ entries' = [entries EXCEPT ![e].lapsed = FALSE]
        /\ UNCHANGED <<gallery, uploads, workVars, deleteJobs, files, migrationVars>>

-----------------------------------------------------------------------------
copiesOf(mover) ==
    LET to == migrations[mover.migration].target
    IN  <<storageKey(to, mover.entry, mover.content),
          IF mover.keys[2] = <<>> THEN <<>> ELSE derivativeKey("thumbnail", to, mover.content),
          IF mover.keys[3] = <<>> THEN <<>> ELSE derivativeKey("preview", to, mover.content)>>

\* copyAtomically: a destination that is there is kept, an original only if it has the
\* expected content; the source is not compared with anything.
copied(disk, from, to) ==
    IF from = <<>> \/ \E file \in disk : file.key = to THEN disk
    ELSE disk \cup {[key |-> to, content |-> c] : c \in stored(from)}

copyable(mover, to) ==
    /\ \A i \in 1..3 : mover.keys[i] # <<>> =>
           stored(mover.keys[i]) # {} \/ stored(to[i]) # {}
    /\ stored(to[1]) \subseteq {mover.content}

\* processMigration.
copy(w) ==
    LET mover == movers[w]
        to == copiesOf(mover)
    IN  /\ mover.at = "copying" /\ copyable(mover, to)
        /\ files' = copied(copied(copied(files, mover.keys[1], to[1]),
                                  mover.keys[2], to[2]), mover.keys[3], to[3])
        /\ movers' = [movers EXCEPT ![w] = [@ EXCEPT !.at = "copied", !.copies = to]]
        /\ UNCHANGED <<rowVars, uploads, workVars, migrations, condemned>>

copyFails(w) ==
    /\ movers[w].at = "copying"
    /\ movers' = [movers EXCEPT ![w].at = "failing"]
    /\ UNCHANGED <<mediaVars, migrations, condemned>>

copyImpossible(w) ==
    copyFails(w) /\ ~copyable(movers[w], copiesOf(movers[w]))

\* Fault: the old files are those that the worker copied to.
confused(mover, row) ==
    deleteJob(mover.entry, mover.copies[1], row.thumbnail, row.preview, TRUE, FALSE)

replaced(mover, row) ==
    deleteJob(mover.entry, row.key, row.thumbnail, row.preview, TRUE, FALSE)

\* completeMigration of a copy: neither the migration's status nor the entry's key or
\* claim is looked at.
completeMigration(w) ==
    LET mover == movers[w]
        e == mover.entry
        row == entries[e]
    IN  /\ mover.at = "copied"
        /\ IF row.state = "gone" THEN UNCHANGED <<entries, deleteJobs>>
           ELSE /\ entries' = [entries EXCEPT ![e] =
                       [row EXCEPT !.storageKind = migrations[mover.migration].target.kind,
                                   !.key = mover.copies[1], !.thumbnail = mover.copies[2],
                                   !.preview = mover.copies[3],
                                   !.migration = None, !.lapsed = FALSE, !.attempts = 0]]
                /\ deleteJobs' = deleteJobs \cup {replaced(mover, row)}
        /\ movers' = [movers EXCEPT ![w] = Idle]
        /\ UNCHANGED <<gallery, uploads, workVars, files, migrations, condemned>>

\* completeMigration with an error: the last attempt fails the whole migration.
failMigration(w) ==
    LET mover == movers[w]
        e == mover.entry
        m == mover.migration
        out == entries[e].attempts >= STORAGE_JOB_MAX_ATTEMPTS
    IN  /\ mover.at = "failing"
        /\ IF entries[e].state = "gone" THEN UNCHANGED <<entries, migrations, gallery>>
           ELSE /\ entries' = [entries EXCEPT ![e] = [@ EXCEPT
                       !.migration = IF out THEN "failed" ELSE None, !.lapsed = FALSE]]
                /\ migrations' = IF out THEN [migrations EXCEPT ![m].status = "failed"]
                                 ELSE migrations
                /\ gallery' = IF out THEN [gallery EXCEPT !.pending = None] ELSE gallery
        /\ movers' = [movers EXCEPT ![w] = Idle]
        /\ UNCHANGED <<uploads, workVars, deleteJobs, files, condemned>>

moverStops(w) ==
    /\ movers[w] # Idle
    /\ movers' = [movers EXCEPT ![w] = Idle]
    /\ UNCHANGED <<mediaVars, migrations, condemned>>

lapseMigration(e) ==
    /\ entries[e].migration = "moving" /\ ~entries[e].lapsed
    /\ entries' = [entries EXCEPT ![e].lapsed = TRUE]
    /\ UNCHANGED <<gallery, uploads, workVars, deleteJobs, files, migrationVars>>

held(e) == \E w \in Movers : movers[w].entry = e

Move(w) ==
    \/ claimDelete(w) \/ deleteFiles(w)
    \/ \E m \in MigrationIds : completeGallery(w, m) \/ \E e \in EntryIds : claimMigration(w, m, e)
    \/ copy(w) \/ copyImpossible(w) \/ completeMigration(w) \/ failMigration(w)

-----------------------------------------------------------------------------
spend(field) == budget[field] > 0 /\ budget' = [budget EXCEPT ![field] = @ - 1]

\* People and releases.
Ask ==
    \/ spend("uploads") /\ \E u \in UploadIds, e \in EntryIds, c \in Contents : claimUpload(u, e, c)
    \/ spend("requests") /\ \E e \in EntryIds :
          preparePreview(e) \/ removeLocationData(e) \/ refreshMetadata(e)
    \/ spend("deploys") /\ deploy
    \/ spend("deletes") /\ \E e \in EntryIds : remove(e)

Break ==
    \/ spend("failures") /\ \E w \in MediaWorkers : fails(w)
    \/ spend("crashes") /\ \E w \in MediaWorkers : workerStops(w)
    \/ spend("stalls") /\ \E j \in JobIds : ~abandoned(j) /\ lapse(j)

BreakMove ==
    \/ spend("failures") /\ \E w \in Movers : copyFails(w)
    \/ spend("crashes") /\ \E w \in Movers : moverStops(w)
    \/ spend("stalls") /\ \E e \in EntryIds : held(e) /\ lapseMigration(e)

LapseAbandoned(j) == abandoned(j) /\ lapse(j) /\ UNCHANGED migrationVars
LapseUnheld(e) == ~held(e) /\ lapseMigration(e)

Upload(u) == installUpload(u) \/ completeUpload(u)

Next ==
    \/ (Ask \/ Break) /\ UNCHANGED migrationVars
    \/ (\E u \in UploadIds : Upload(u)) /\ UNCHANGED <<migrationVars, budget>>
    \/ BreakMove
    \/ spend("migrations") /\ \E m \in MigrationIds, l \in Locations : requestMigration(m, l)
    \/ /\ \/ \E w \in MediaWorkers : MediaStep(w) \/ renewMediaProcessing(w)
       /\ UNCHANGED <<migrationVars, budget>>
    \/ (\E w \in Movers : Move(w) \/ renewMigration(w)) /\ UNCHANGED budget
    \/ (\E j \in JobIds : LapseAbandoned(j)) /\ UNCHANGED budget
    \/ (\E e \in EntryIds : LapseUnheld(e)) /\ UNCHANGED budget

\* The loops of the workers go on, and a lease that nobody renews lapses.
Spec ==
    /\ Init /\ [][Next]_vars
    /\ \A w \in MediaWorkers : WF_vars(MediaStep(w) /\ UNCHANGED <<migrationVars, budget>>)
    /\ \A w \in Movers : WF_vars(Move(w) /\ UNCHANGED budget)
    /\ \A j \in JobIds : WF_vars(LapseAbandoned(j) /\ UNCHANGED budget)
    /\ \A e \in EntryIds : WF_vars(LapseUnheld(e) /\ UNCHANGED budget)

-----------------------------------------------------------------------------
same(c, d) == WithoutLocation[c] = WithoutLocation[d]

\* An upload has been put over a user file: until it is complete the row is not the
\* file's, and the workers that read it or write it go on.
overwritten ==
    \E u \in UploadIds : uploads[u].at \in {"installed", "complete"} /\ uploads[u].location.kind = "user"

migrated == \E m \in MigrationIds : migrations[m] # NoMigration

\* Contents change beside a migration, which does not look at them again.
overtaken == migrated /\ \E e \in EntryIds : entries[e].content # FirstContent[e]

\* A thumbnail that a viewer is told to wait for has a job that will be accepted:
\* uploads, removals and retries drop jobs and queue others (storageJobs.ts:283).
PendingHasJob ==
    ~migrated =>
    \A e \in EntryIds : ReadyEntry(e) /\ entries[e].thumbnailState = "pending" =>
        \E j \in JobIds : /\ mediaJobs[j].status \in {"queued", "processing"}
                          /\ mediaJobs[j].entry = e /\ isExpected(mediaJobs[j])

\* The thumbnail and preview that an entry names are made from its image, with or
\* without its location, whoever else works on the same content and whatever upload
\* came between (mediaWorker.ts:66-79).
DerivativesMatch ==
    ~overwritten /\ ~overtaken =>
    \A e \in EntryIds : ReadyEntry(e) =>
        \A k \in {entries[e].thumbnail, entries[e].preview} \ {<<>>} :
            same(k[4], entries[e].content)
            /\ \A c \in stored(k) : same(c, entries[e].content)

\* Nor does anything else take the place of what is named by its content: "The central
\* derivative root contains generated, content-addressed thumbnails and full-resolution
\* compatibility previews" (docs/deployment.md:38-39).
DerivativesContentAddressed ==
    \A file \in files : file.key[1] \in {"thumbnail", "preview"} => same(file.content, file.key[4])

CleanByHash(e) == ReadyEntry(e) /\ ~hasLocation(entries[e].content)
StoredClean(e) == \A c \in stored(entries[e].key) : ~hasLocation(c)

\* An image whose row says that it has no location, by its hash or by its metadata, is
\* stored without one, whoever else works on the same path (locationMetadata.ts:107-170).
RemovedStays ==
    ~overwritten /\ ~overtaken =>
    \A e \in EntryIds :
        CleanByHash(e) \/ (ReadyEntry(e) /\ entries[e].metadata # None
                                          /\ ~hasLocation(entries[e].metadata)) =>
            StoredClean(e)

\* Removing the location "permanently rewrites the stored image" (docs/user.md:431-433).
RemovalIsPermanent == \A e \in EntryIds : CleanByHash(e) => StoredClean(e)

Kept(e, c) == \E d \in stored(entries[e].key) : same(d, c)

\* No migration, deletion or removal loses a file that a ready entry names
\* (docs/deployment.md:461-462), unless its deletion was decided before it was named.
OriginalsKept ==
    ~overwritten /\ ~overtaken =>
    \A e \in EntryIds : ReadyEntry(e) /\ entries[e].key \notin condemned =>
        Kept(e, entries[e].content)

\* A file that has been uploaded over another stays: "choose Replace to overwrite it"
\* (docs/user.md:244).
UploadsKept ==
    \A u \in UploadIds : LET e == uploads[u].entry IN
        /\ uploads[u].at = "complete" /\ ReadyEntry(e)
        /\ entries[e].content = uploads[u].content /\ entries[e].key \notin condemned
        => Kept(e, uploads[u].content)

\* What holds of it: such a file is only lost to a migration, or to a location removal
\* that had read the one before.  An unlink that was queued for the file it replaced, at
\* the same path or of the same content, does not take it (storageGateway.ts:32-41).
UploadsStay ==
    ~overtaken =>
    \A u \in UploadIds : LET e == uploads[u].entry IN
        /\ uploads[u].at = "complete" /\ ReadyEntry(e)
        /\ entries[e].content = uploads[u].content /\ entries[e].key \notin condemned
        => /\ stored(entries[e].key) # {}
           /\ \A c \in stored(entries[e].key) : same(c, uploads[u].content) \/ ~hasLocation(c)

\* The gallery switches when every ready entry is where uploads will then look for
\* it and store beside it, also after failures and crashes of the worker.
SwitchesWhenAllMoved ==
    [][gallery'.location # gallery.location /\ ~overtaken =>
         \A e \in EntryIds : ReadyEntry(e) =>
             entries[e].key = storageKey(gallery'.location, e, entries[e].content)]_vars

\* Jobs and migrations end, done or failed: time and again none is left.
MediaSettles ==
    []<>(/\ gallery.pending = None
         /\ \A j \in JobIds : mediaJobs[j].status \in {"none", "failed"})

\* The metadata of a changed file is that of the file once its jobs are done ("New
\* or changed files are hashed and indexed, then a separate durable media job
\* generates their thumbnail and EXIF metadata", docs/deployment.md:100-102).
MetadataFollows ==
    \A e \in EntryIds : ReadyEntry(e) /\ entries[e].content # FirstContent[e] /\ jobsOf(e) = {} =>
        entries[e].metadata = entries[e].content
=============================================================================
