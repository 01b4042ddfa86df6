------------------------------ MODULE MediaJobs ------------------------------
(***************************************************************************)
(* Media work of one gallery: the queue of mediaProcessingJobs             *)
(* (convex/storageJobs.ts, convex/lib/storageJobs.ts), what viewers and    *)
(* owners ask of it (convex/entries.ts), and the worker that makes         *)
(* thumbnails and previews, reads metadata and rewrites images without     *)
(* their location (storage/mediaWorker.ts, media.ts, locationMetadata.ts). *)
(*                                                                         *)
(* A job names the key and the hash it was queued for.  Uploads, other     *)
(* jobs and migrations change both while a worker has it; a lease that     *)
(* lapses gives the same job to two workers.                               *)
(*                                                                         *)
(* An upload that replaces a file is claimed, installs it and then changes *)
(* the row; one that goes no further has been refused or lost (Uploads has *)
(* its leases and names).  The worker stats, reads and writes in steps of  *)
(* their own, and only makes a derivative and puts it in place in one.     *)
(*                                                                         *)
(* A content stands for its hash.                                          *)
(***************************************************************************)
EXTENDS FiniteSets, Functions, Naturals, SequencesExt

CONSTANTS
    EntryIds, JobIds, UploadIds, MediaWorkers, Contents, None,
    WithoutLocation,          \* content -> the content a removal leaves
    FirstContent,             \* entry -> its content
    Locations,                \* [kind, root]
    STORAGE_JOB_MAX_ATTEMPTS,
    Budgets

ASSUME MediaAssumption ==
    /\ WithoutLocation \in [Contents -> Contents] /\ FirstContent \in [EntryIds -> Contents]
    /\ \A c \in Contents : WithoutLocation[WithoutLocation[c]] = WithoutLocation[c]
    /\ \A l \in Locations : l \in [kind : {"shared", "user"}, root : {l.root}]
    /\ \A b \in Budgets : b.kinds \in [EntryIds -> {"image", "video", "audio"}]
    /\ STORAGE_JOB_MAX_ATTEMPTS \in Nat \ {0} /\ None \notin Contents \cup EntryIds
    /\ None \notin {"pending", "failed"}

\* Every entry may have a job to begin with.
ASSUME JobsForAll == \E f \in [EntryIds -> JobIds] : IsInjective(f)

VARIABLES
    gallery,        \* where its storage is, and the migration that is pending
    entries,
    uploads,        \* those that are to replace an entry's file
    mediaJobs,
    mediaWorkers,
    deleteJobs,     \* storageDeleteJobs that wait
    files,          \* the files of the disk: key and content
    budget

rowVars == <<gallery, entries, deleteJobs>>
workVars == <<mediaJobs, mediaWorkers>>
mediaVars == <<rowVars, workVars, uploads, files>>

\* buildStorageKey: shared originals and all derivatives are named by content, user
\* originals by their path, which the entry stands for.
storageKey(location, e, c) ==
    <<"original", location.kind, location.root, IF location.kind = "user" THEN e ELSE c>>
derivativeKey(type, location, c) == <<type, location.kind, location.root, c>>

stored(k) == {file.content : file \in {file \in files : file.key = k}}
put(disk, k, c) == {file \in disk : file.key # k} \cup {[key |-> k, content |-> c]}

\* What the image is once its location is taken out of its bytes.
writeImageWithoutLocationData(c) == WithoutLocation[c]
hasLocation(c) == c # None /\ writeImageWithoutLocationData(c) # c
visual(row) == row.mediaKind \in {"image", "video"}
ReadyEntry(e) == entries[e].state = "ready"

NoUpload == [at |-> "none", entry |-> None, content |-> None, location |-> None]

NoJob == [status |-> "none", entry |-> None, key |-> <<>>, content |-> None, attempts |-> 0,
          lapsed |-> FALSE, preview |-> FALSE, removal |-> FALSE, older |-> FALSE]

newJob(e, k, c) == [NoJob EXCEPT !.status = "queued", !.entry = e, !.key = k, !.content = c]

Resting == [at |-> "idle", job |-> None, entry |-> None, key |-> <<>>, content |-> None,
            location |-> None, thumbnail |-> FALSE, metadata |-> FALSE, preview |-> FALSE,
            removal |-> FALSE, newKey |-> <<>>, result |-> None, seen |-> None]

jobsOf(e) == {j \in JobIds : mediaJobs[j].entry = e}
withStatus(s, status) == {j \in s : mediaJobs[j].status = status}
abandoned(j) == \A w \in MediaWorkers : mediaWorkers[w].job # j

\* An id is not given again while a worker knows it.
unused == {j \in withStatus(JobIds, "none") : abandoned(j)}

deleteJob(e, k, thumbnail, preview, original, whole) ==
    [entry |-> e, key |-> k, thumbnail |-> thumbnail, preview |-> preview,
     original |-> original, whole |-> whole]

-----------------------------------------------------------------------------
\* The entries that are still to be processed, or that have been.
entryAt(l, e, kind, processed) ==
    LET c == FirstContent[e]
        drawn == kind \in {"image", "video"}
    IN  [state |-> "ready", mediaKind |-> kind, storageKind |-> l.kind, content |-> c,
         key |-> storageKey(l, e, c),
         thumbnail |-> IF processed /\ drawn
                       THEN derivativeKey("thumbnail", l, c) ELSE <<>>,
         preview |-> <<>>,
         thumbnailState |-> IF processed \/ ~drawn THEN None ELSE "pending",
         metadata |-> IF processed THEN c ELSE None, version |-> processed,
         migration |-> None, lapsed |-> FALSE, attempts |-> 0]

jobFor == CHOOSE f \in [EntryIds -> JobIds] : IsInjective(f)

MediaInit ==
    /\ budget \in Budgets
    /\ \E l \in Locations : gallery = [location |-> l, pending |-> None]
    /\ entries = [e \in EntryIds |-> entryAt(gallery.location, e, budget.kinds[e],
                                       e \in budget.processed)]
    /\ mediaJobs = [j \in JobIds |->
           LET mine == {e \in EntryIds : jobFor[e] = j /\ e \notin budget.processed}
           IN  IF mine = {} THEN NoJob
               ELSE LET e == CHOOSE e \in mine : TRUE
                    IN  newJob(e, entries[e].key, entries[e].content)]
    /\ mediaWorkers = [w \in MediaWorkers |-> Resting]
    /\ uploads = [u \in UploadIds |-> NoUpload]
    /\ deleteJobs = {}
    /\ files = {[key |-> entries[e].key, content |-> entries[e].content] : e \in EntryIds}
               \cup {[key |-> entries[e].thumbnail, content |-> entries[e].content] :
                        e \in {e \in EntryIds : entries[e].thumbnail # <<>>}}

-----------------------------------------------------------------------------
markThumbnailPendingIfNeeded(rows, e) ==
    IF rows[e].thumbnail = <<>> /\ visual(rows[e])
    THEN [rows EXCEPT ![e].thumbnailState = "pending"] ELSE rows

requeued(job) == [job EXCEPT !.status = "queued", !.attempts = 0, !.lapsed = FALSE,
                             !.older = FALSE]

\* requestMediaPreview: on the job that is there, else on a new one.
preparePreview(e) ==
    LET jobs == jobsOf(e)
        first == IF withStatus(jobs, "processing") # {} THEN withStatus(jobs, "processing")
                 ELSE IF withStatus(jobs, "queued") # {} THEN withStatus(jobs, "queued")
                 ELSE withStatus(jobs, "failed")
    IN  /\ ReadyEntry(e) /\ entries[e].mediaKind = "image" /\ entries[e].preview = <<>>
        /\ \E j \in IF first = {} THEN unused ELSE first :
              mediaJobs' = [mediaJobs EXCEPT ![j] =
                 IF first = {} THEN [newJob(e, entries[e].key, entries[e].content)
                                     EXCEPT !.preview = TRUE]
                 ELSE IF @.status = "failed" THEN [requeued(@) EXCEPT !.preview = TRUE]
                 ELSE [@ EXCEPT !.preview = TRUE]]
        /\ entries' = markThumbnailPendingIfNeeded(entries, e)
        /\ UNCHANGED <<gallery, uploads, mediaWorkers, deleteJobs, files>>

\* A job that a worker has is left alone, and a second one is queued beside it.
removeLocationData(e) ==
    LET jobs == jobsOf(e)
        reusable == IF withStatus(jobs, "queued") # {} THEN withStatus(jobs, "queued")
                    ELSE withStatus(jobs, "failed")
        active == {j \in jobs : mediaJobs[j].removal
                                /\ mediaJobs[j].status \in {"queued", "processing"}}
    IN  /\ ReadyEntry(e) /\ entries[e].mediaKind = "image" /\ hasLocation(entries[e].metadata)
        /\ IF active # {} THEN UNCHANGED mediaJobs
           ELSE \E j \in IF reusable = {} THEN unused ELSE reusable :
                   mediaJobs' = [mediaJobs EXCEPT ![j] =
                      IF reusable = {} THEN [newJob(e, entries[e].key, entries[e].content)
                                             EXCEPT !.removal = TRUE]
                      ELSE IF @.status = "failed"
                      THEN [requeued(@) EXCEPT !.removal = TRUE]
                      ELSE [@ EXCEPT !.removal = TRUE]]
        /\ entries' = markThumbnailPendingIfNeeded(entries, e)
        /\ UNCHANGED <<gallery, uploads, mediaWorkers, deleteJobs, files>>

refreshMetadata(e) ==
    LET jobs == jobsOf(e)
        failed == withStatus(jobs, "failed")
    IN  /\ ReadyEntry(e) /\ ~entries[e].version
        /\ IF withStatus(jobs, "queued") \cup withStatus(jobs, "processing") # {}
           THEN UNCHANGED mediaJobs
           ELSE \E j \in IF failed = {} THEN unused ELSE failed :
                   mediaJobs' = [mediaJobs EXCEPT ![j] =
                      IF failed = {} THEN newJob(e, entries[e].key, entries[e].content)
                      ELSE requeued(@)]
        /\ entries' = markThumbnailPendingIfNeeded(entries, e)
        /\ UNCHANGED <<gallery, uploads, mediaWorkers, deleteJobs, files>>

\* A release with a new metadata version and a new processor.
deploy ==
    /\ entries' = [e \in EntryIds |-> [entries[e] EXCEPT !.version = FALSE]]
    /\ mediaJobs' = [j \in JobIds |-> [mediaJobs[j] EXCEPT
                        !.older = mediaJobs[j].status # "none"]]
    /\ UNCHANGED <<gallery, uploads, mediaWorkers, deleteJobs, files>>

-----------------------------------------------------------------------------
\* replaceMediaProcessingJob: the jobs of the old content go, with what they were
\* asked for; only a wanted preview is carried over.
replacedJobs(e, k, c, processed) ==
    LET wanted == entries[e].mediaKind = "image" /\ \E j \in jobsOf(e) : mediaJobs[j].preview
        cleared == [j \in JobIds |-> IF j \in jobsOf(e) THEN NoJob ELSE mediaJobs[j]]
        j == CHOOSE x \in JobIds : cleared[x] = NoJob /\ abandoned(x)
    IN  IF processed /\ ~wanted THEN cleared
        ELSE [cleared EXCEPT ![j] = [newJob(e, k, c) EXCEPT !.preview = wanted]]

\* claimUpload, of a file that is to replace e's.
claimUpload(u, e, c) ==
    /\ uploads[u] = NoUpload /\ ReadyEntry(e) /\ gallery.pending = None
    /\ uploads' = [uploads EXCEPT ![u] =
           [at |-> "claimed", entry |-> e, content |-> c, location |-> gallery.location]]
    /\ UNCHANGED <<rowVars, workVars, files>>

\* handleUpload installs it over a user file, or else keeps a file that is there.
installUpload(u) ==
    LET k == storageKey(uploads[u].location, uploads[u].entry, uploads[u].content)
    IN  /\ uploads[u].at = "claimed"
        /\ files' = IF uploads[u].location.kind = "shared" /\ stored(k) # {} THEN files
                    ELSE put(files, k, uploads[u].content)
        /\ uploads' = [uploads EXCEPT ![u].at = "installed"]
        /\ UNCHANGED <<rowVars, workVars>>

\* The row that is found: the one of that name, or the one at that path.
found(e, k) ==
    \/ ReadyEntry(e)
    \/ entries[e].state = "deleted" /\ gallery.location.kind = "user" /\ entries[e].key = k

\* Fault: the thumbnail of another content is kept.
thumbnailKept(changed, k) == k

derivativeKept(changed, k) == IF changed THEN <<>> ELSE k

\* Fault: the file that was replaced is queued, also when it is the one at the path.
replacedAlways(old, k) == TRUE

\* The file that was replaced is at another place than the new one.
leavesOriginal(old, k) == old.key # k

\* completeUpload, and reconcileFilesystemFile likewise: the metadata goes, its version
\* stays, and a deleted entry comes back.  A gallery that has switched to user storage
\* refuses what was installed elsewhere.
completeUpload(u) ==
    LET e == uploads[u].entry
        c == uploads[u].content
        k == storageKey(uploads[u].location, e, c)
        old == entries[e]
        changed == c # old.content
        kept(x) == derivativeKept(changed, x)
        stale(x) == IF changed THEN x ELSE <<>>
    IN  /\ uploads[u].at = "installed" /\ found(e, k)
        /\ gallery.location.kind = "user" => uploads[u].location.kind = "user"
        /\ unused \cup {j \in jobsOf(e) : abandoned(j)} # {}   \* bound: JobIds
        /\ uploads' = [uploads EXCEPT ![u].at = "complete"]
        /\ entries' = [entries EXCEPT ![e] =
               [@ EXCEPT !.state = "ready",
                         !.content = c, !.key = k, !.storageKind = gallery.location.kind,
                         !.thumbnail = kept(old.thumbnail), !.preview = kept(old.preview),
                         !.metadata = None,
                         !.thumbnailState = IF kept(old.thumbnail) = <<>> /\ visual(old)
                                            THEN "pending" ELSE None]]
        /\ deleteJobs' = {d \in deleteJobs : d.entry # e} \cup
               (IF leavesOriginal(old, k) \/ stale(old.thumbnail) # <<>> \/ stale(old.preview) # <<>>
                THEN {deleteJob(e, old.key, stale(old.thumbnail), stale(old.preview),
                                leavesOriginal(old, k), FALSE)}
                ELSE {})
        /\ mediaJobs' = replacedJobs(e, k, c, kept(old.thumbnail) # <<>>)
        /\ UNCHANGED <<gallery, mediaWorkers, files>>

remove(e) ==
    /\ ReadyEntry(e) /\ entries[e].migration # "moving"
    /\ entries' = [entries EXCEPT ![e].state = "deleted"]
    /\ deleteJobs' = deleteJobs \cup {deleteJob(e, entries[e].key, entries[e].thumbnail,
                                                entries[e].preview, TRUE, TRUE)}
    /\ UNCHANGED <<gallery, uploads, workVars, files>>

-----------------------------------------------------------------------------
StaleJob(j) == mediaJobs[j].status = "processing" /\ mediaJobs[j].lapsed
OlderJob(j) == mediaJobs[j].status = "failed" /\ mediaJobs[j].older

\* Fault: a job whose worker has gone is not looked for.
waitingQueued == withStatus(JobIds, "queued")

\* Stale ones first; the delay after a failure lets any other be next.
waitingJobs ==
    LET stale == {j \in JobIds : StaleJob(j)}
    IN  IF stale # {} THEN stale
        ELSE withStatus(JobIds, "queued") \cup {j \in JobIds : OlderJob(j)}

isExpected(job) ==
    /\ ReadyEntry(job.entry)
    /\ entries[job.entry].key = job.key /\ entries[job.entry].content = job.content

attemptsOf(job) == IF job.status = "failed" THEN 1 ELSE job.attempts + 1

claimOf(j, job) ==
    LET e == job.entry
        row == entries[e]
    IN  [Resting EXCEPT !.at = "claimed", !.job = j, !.entry = e, !.key = row.key,
                        !.content = row.content, !.newKey = row.key, !.result = row.content,
                        !.location = [gallery.location EXCEPT !.kind = row.storageKind],
                        !.thumbnail = visual(row) /\ row.thumbnail = <<>>,
                        !.metadata = ~row.version \/ job.removal,
                        !.preview = job.preview /\ row.preview = <<>> /\ row.thumbnail # <<>>,
                        !.removal = job.removal]

\* The rest of claimMediaProcessing, once there is a job.
take(w, j, job) ==
    IF ~isExpected(job)
    THEN /\ mediaJobs' = [mediaJobs EXCEPT ![j] = NoJob]
         /\ UNCHANGED <<entries, mediaWorkers>>
    ELSE IF attemptsOf(job) > STORAGE_JOB_MAX_ATTEMPTS
    THEN /\ mediaJobs' = [mediaJobs EXCEPT ![j] = [job EXCEPT !.status = "failed",
                                                              !.lapsed = FALSE, !.older = FALSE]]
         /\ entries' = IF entries[job.entry].thumbnail = <<>> /\ visual(entries[job.entry])
                       THEN [entries EXCEPT ![job.entry].thumbnailState = "failed"] ELSE entries
         /\ UNCHANGED mediaWorkers
    ELSE /\ mediaJobs' = [mediaJobs EXCEPT ![j] =
                [job EXCEPT !.status = "processing", !.attempts = attemptsOf(job),
                            !.lapsed = FALSE, !.older = FALSE]]
         /\ entries' = markThumbnailPendingIfNeeded(entries, job.entry)
         /\ mediaWorkers' = [mediaWorkers EXCEPT ![w] = claimOf(j, job)]

claimMediaProcessing(w) ==
    /\ mediaWorkers[w] = Resting
    /\ \E j \in waitingJobs : take(w, j, mediaJobs[j])
    /\ UNCHANGED <<gallery, uploads, deleteJobs, files>>

\* Nothing waits: audio and video whose metadata is of an older version.
claimUnprocessed(w) ==
    /\ mediaWorkers[w] = Resting
    /\ \A j \in waitingJobs : mediaJobs[j].status = "queued"   \* delayed, all of them
    /\ \E e \in EntryIds, j \in unused :
          /\ entries[e].mediaKind \in {"audio", "video"} /\ ReadyEntry(e) /\ ~entries[e].version
          /\ take(w, j, newJob(e, entries[e].key, entries[e].content))
    /\ UNCHANGED <<gallery, uploads, deleteJobs, files>>

\* renewMediaProcessing by whoever has the job: it brings back a lapsed lease.
renewMediaProcessing(w) ==
    LET j == mediaWorkers[w].job
    IN  /\ j # None /\ StaleJob(j)
        /\ mediaJobs' = [mediaJobs EXCEPT ![j].lapsed = FALSE]
        /\ UNCHANGED <<rowVars, uploads, mediaWorkers, files>>

-----------------------------------------------------------------------------
goesOn(w, changed) == mediaWorkers' = [mediaWorkers EXCEPT ![w] = changed]

\* What processMediaClaim does next: what the claim asks for, one after the other.
afterMetadata(claim) == IF claim.preview THEN "preview" ELSE "checking"
afterThumbnail(claim) == IF claim.metadata THEN "metadata" ELSE afterMetadata(claim)
afterImage(claim) == IF claim.thumbnail THEN "thumbnail" ELSE afterThumbnail(claim)

\* assertExpectedUserFile: a user file is the one the job is for, unless its location
\* is being removed.
fits(claim, c) == claim.location.kind = "user" /\ ~claim.removal => c = claim.content

\* The first stat.
examine(w) ==
    LET claim == mediaWorkers[w]
    IN  /\ claim.at = "claimed"
        /\ \E c \in stored(claim.newKey) : fits(claim, c)
        /\ goesOn(w, [claim EXCEPT !.at = IF claim.removal THEN "reading" ELSE afterImage(claim)])
        /\ UNCHANGED <<rowVars, uploads, mediaJobs, files>>

\* rewriteStoredImageWithoutLocationData: the image without its location is written to
\* a file of the worker's own.
readImage(w) ==
    LET claim == mediaWorkers[w]
    IN  /\ claim.at = "reading"
        /\ \E c \in stored(claim.key) :
              LET new == writeImageWithoutLocationData(c)
              IN  goesOn(w, [claim EXCEPT !.at = "installing", !.result = new,
                                          !.newKey = storageKey(claim.location, claim.entry, new)])
        /\ UNCHANGED <<rowVars, uploads, mediaJobs, files>>

\* Fault: a file that is in the place is kept, also when it is the source.
keptInPlace(disk, claim) ==
    IF stored(claim.newKey) # {} THEN disk ELSE put(disk, claim.newKey, claim.result)

\* It takes the place of a user file, whatever that is by now; else it comes beside the
\* source, where a file that is there is kept.
installed(disk, claim) ==
    IF claim.newKey # claim.key /\ stored(claim.newKey) # {} THEN disk
    ELSE put(disk, claim.newKey, claim.result)

installImage(w) ==
    LET claim == mediaWorkers[w]
    IN  /\ claim.at = "installing"
        /\ files' = installed(files, claim)
        /\ goesOn(w, [claim EXCEPT !.at = afterImage(claim)])
        /\ UNCHANGED <<rowVars, uploads, mediaJobs>>

\* What is made of the file as it is, under the name of the content it should have; a
\* derivative that is there is replaced.
createThumbnail(w) ==
    LET claim == mediaWorkers[w]
        k == derivativeKey("thumbnail", claim.location, claim.result)
    IN  /\ claim.at = "thumbnail"
        /\ \E c \in stored(claim.newKey) : files' = put(files, k, c)
        /\ goesOn(w, [claim EXCEPT !.at = afterThumbnail(claim)])
        /\ UNCHANGED <<rowVars, uploads, mediaJobs>>

extractMediaMetadataJson(w) ==
    LET claim == mediaWorkers[w]
    IN  /\ claim.at = "metadata"
        /\ \E c \in stored(claim.newKey) :
              goesOn(w, [claim EXCEPT !.at = afterMetadata(claim), !.seen = c])
        /\ UNCHANGED <<rowVars, uploads, mediaJobs, files>>

createPreview(w) ==
    LET claim == mediaWorkers[w]
        k == derivativeKey("preview", claim.location, claim.result)
    IN  /\ claim.at = "preview"
        /\ \E c \in stored(claim.newKey) : files' = put(files, k, c)
        /\ goesOn(w, [claim EXCEPT !.at = "checking"])
        /\ UNCHANGED <<rowVars, uploads, mediaJobs>>

\* The last stat.
checkAgain(w) ==
    LET claim == mediaWorkers[w]
    IN  /\ claim.at = "checking"
        /\ \E c \in stored(claim.newKey) : fits(claim, c)
        /\ goesOn(w, [claim EXCEPT !.at = "derived"])
        /\ UNCHANGED <<rowVars, uploads, mediaJobs, files>>

stages == {"claimed", "reading", "installing", "thumbnail", "metadata", "preview", "checking"}

\* A command fails or runs out of time.
fails(w) ==
    /\ mediaWorkers[w].at \in stages
    /\ goesOn(w, [mediaWorkers[w] EXCEPT !.at = "failing"])
    /\ UNCHANGED <<rowVars, uploads, mediaJobs, files>>

\* The file is gone, or not the one the job is for.
misses(w) ==
    LET claim == mediaWorkers[w]
    IN  /\ claim.at # "installing"
        /\ \A c \in stored(claim.newKey) : claim.at \in {"claimed", "checking"} /\ ~fits(claim, c)
        /\ fails(w)

\* completeMediaProcessing, when it is told that the work is done.
updatedBy(claim, job, row) ==
    LET replaced == job.removal /\ claim.removal
        seen == claim.metadata \/ job.removal
    IN  [row EXCEPT
           !.key = IF replaced THEN claim.newKey ELSE @,
           !.content = IF replaced THEN claim.result ELSE @,
           !.thumbnail = IF claim.thumbnail
                         THEN derivativeKey("thumbnail", claim.location, claim.result) ELSE @,
           !.thumbnailState = IF claim.thumbnail THEN None ELSE @,
           !.preview = IF claim.preview
                       THEN derivativeKey("preview", claim.location, claim.result) ELSE @,
           !.metadata = IF seen THEN (IF claim.metadata THEN claim.seen ELSE None) ELSE @,
           !.version = seen \/ @]

completeMediaProcessing(w) ==
    LET claim == mediaWorkers[w]
        j == claim.job
        job == mediaJobs[j]
        row == entries[claim.entry]
        new == updatedBy(claim, job, row)
        expected == job.status # "none" /\ isExpected(job)
    IN  /\ claim.at = "derived" /\ (job.removal => claim.removal)
        /\ entries' = IF expected THEN [entries EXCEPT ![claim.entry] = new] ELSE entries
        /\ deleteJobs' = IF expected /\ new.key # row.key
                         THEN deleteJobs \cup {deleteJob(claim.entry, row.key, <<>>, <<>>,
                                                         TRUE, FALSE)}
                         ELSE deleteJobs
        /\ mediaJobs' = [mediaJobs EXCEPT ![j] =
               IF expected /\ job.preview /\ ~claim.preview /\ row.preview = <<>>
               THEN requeued(@) ELSE NoJob]
        /\ goesOn(w, Resting)
        /\ UNCHANGED <<gallery, uploads, files>>

\* "Location removal did not return a valid image": the removal was asked for after
\* this worker had lost the job.
refused(w) ==
    /\ mediaWorkers[w].at = "derived"
    /\ mediaJobs[mediaWorkers[w].job].removal /\ ~mediaWorkers[w].removal
    /\ goesOn(w, [mediaWorkers[w] EXCEPT !.at = "failing"])
    /\ UNCHANGED <<rowVars, uploads, mediaJobs, files>>

\* Fault: the entry is not told when the attempts have run out.
untold(rows, job) == rows

marked(rows, job) ==
    IF isExpected(job) /\ rows[job.entry].thumbnail = <<>> /\ visual(rows[job.entry])
    THEN [rows EXCEPT ![job.entry].thumbnailState = "failed"] ELSE rows

\* completeMediaProcessing with an error.
failMediaProcessing(w) ==
    LET j == mediaWorkers[w].job
        job == mediaJobs[j]
        out == job.attempts >= STORAGE_JOB_MAX_ATTEMPTS
    IN  /\ mediaWorkers[w].at = "failing"
        /\ IF job.status = "none" THEN UNCHANGED <<mediaJobs, entries>>
           ELSE /\ mediaJobs' = [mediaJobs EXCEPT
                       ![j].status = IF out THEN "failed" ELSE "queued", ![j].lapsed = FALSE]
                /\ entries' = IF out THEN marked(entries, job) ELSE entries
        /\ goesOn(w, Resting)
        /\ UNCHANGED <<gallery, uploads, deleteJobs, files>>

\* The worker ends, or does not hear that its report has been accepted.
workerStops(w) ==
    /\ mediaWorkers[w] # Resting
    /\ goesOn(w, Resting)
    /\ UNCHANGED <<rowVars, uploads, mediaJobs, files>>

lapse(j) ==
    /\ mediaJobs[j].status = "processing" /\ ~mediaJobs[j].lapsed
    /\ mediaJobs' = [mediaJobs EXCEPT ![j].lapsed = TRUE]
    /\ UNCHANGED <<rowVars, uploads, mediaWorkers, files>>

MediaStep(w) ==
    \/ claimMediaProcessing(w) \/ claimUnprocessed(w)
    \/ examine(w) \/ readImage(w) \/ installImage(w)
    \/ createThumbnail(w) \/ extractMediaMetadataJson(w) \/ createPreview(w)
    \/ checkAgain(w) \/ misses(w)
    \/ completeMediaProcessing(w) \/ refused(w) \/ failMediaProcessing(w)
=============================================================================
