----------------------------- MODULE MediaSafety -----------------------------
(***************************************************************************)
(* What is proved of media work in a gallery that is not migrated: a       *)
(* pending thumbnail has a job, and on shared storage derivatives and      *)
(* metadata are those of the image.                                        *)
(*                                                                         *)
(* A job stays the one of its worker until the worker has reported, as its *)
(* id is not given again.  A job that no longer fits its entry is dropped  *)
(* when it is claimed or completed; that is safe as long as an entry that  *)
(* still needs a thumbnail has only jobs that fit.                         *)
(***************************************************************************)
EXTENDS Migration, TLAPS

(***************************************************************************)
(* Types                                                                   *)
(***************************************************************************)
Roots == {l.root : l \in Locations}

Places == [kind : {"shared", "user"}, root : Roots]

Keys == {<<>>} \cup ({"original", "thumbnail", "preview"} \X {"shared", "user"} \X Roots
                     \X (EntryIds \cup Contents))

EntryRow ==
    [state : {"ready", "deleted", "gone"}, mediaKind : {"image", "video", "audio"},
     storageKind : {"shared", "user"}, content : Contents, key : Keys, thumbnail : Keys,
     preview : Keys, thumbnailState : {None, "pending", "failed"},
     metadata : Contents \cup {None}, version : BOOLEAN,
     migration : {None, "moving", "failed"}, lapsed : BOOLEAN, attempts : Nat]

JobRow ==
    [status : {"none", "queued", "processing", "failed"}, entry : EntryIds \cup {None},
     key : Keys, content : Contents \cup {None}, attempts : Nat, lapsed : BOOLEAN,
     preview : BOOLEAN, removal : BOOLEAN, older : BOOLEAN]

WorkerRow ==
    [at : stages \cup {"idle", "derived", "failing"}, job : JobIds \cup {None},
     entry : EntryIds \cup {None}, key : Keys, content : Contents \cup {None},
     location : Places \cup {None}, thumbnail : BOOLEAN, metadata : BOOLEAN,
     preview : BOOLEAN, removal : BOOLEAN, newKey : Keys, result : Contents \cup {None},
     seen : Contents \cup {None}]

\* The maintenance worker does nothing but delete.
OnlyDeletes ==
    /\ movers = [w \in Movers |-> movers[w]]
    /\ \A w \in Movers : movers[w].at \in {"idle", "deleting"} /\ movers[w].entry = None

\* A claim has what the work needs.
Filled(claim) == claim.at # "idle" =>
    claim.content \in Contents /\ claim.result \in Contents /\ claim.location \in Places

ClaimsFilled == \A w \in MediaWorkers : Filled(mediaWorkers[w])

UploadRow ==
    [at : {"claimed", "installed", "complete"}, entry : EntryIds, content : Contents,
     location : Locations]

MediaTypes ==
    /\ gallery \in [location : Locations, pending : {None}]
    /\ entries \in [EntryIds -> EntryRow]
    /\ uploads \in [UploadIds -> UploadRow \cup {NoUpload}]
    /\ mediaJobs \in [JobIds -> JobRow]
    /\ mediaWorkers \in [MediaWorkers -> WorkerRow]
    /\ ClaimsFilled
    /\ files \subseteq [key : Keys, content : Contents]
    /\ OnlyDeletes

(***************************************************************************)
(* The jobs of an entry                                                    *)
(***************************************************************************)
Needs(rows, e) ==
    rows[e].state = "ready" /\ visual(rows[e]) /\ rows[e].thumbnail = <<>>

Expects(rows, job) ==
    LET row == rows[job.entry]
    IN  row.state = "ready" /\ row.key = job.key /\ row.content = job.content

Busy(w) == mediaWorkers[w].at # "idle"

JobsAreOfEntries == \A j \in JobIds :
    IF mediaJobs[j].status = "none" THEN mediaJobs[j] = NoJob ELSE mediaJobs[j].entry \in EntryIds

\* While its job is there, a worker works at what the job is for.
ClaimFits(rows, jobs, claim) ==
    LET job == jobs[claim.job]
    IN  IF claim.at = "idle" THEN claim = Resting
        ELSE /\ claim.job \in JobIds /\ claim.entry \in EntryIds
             /\ job.status # "none" =>
                   /\ job.entry = claim.entry /\ job.key = claim.key
                   /\ job.content = claim.content
                   /\ claim.removal => job.removal
                   /\ Needs(rows, claim.entry) => claim.thumbnail

ClaimsFit == \A w \in MediaWorkers : ClaimFits(entries, mediaJobs, mediaWorkers[w])

JobFits(rows, job) == job.status # "none" /\ Needs(rows, job.entry) => Expects(rows, job)

JobsFit == \A j \in JobIds : JobFits(entries, mediaJobs[j])

PendingNeeds == \A e \in EntryIds :
    ReadyEntry(e) /\ entries[e].thumbnailState = "pending" => Needs(entries, e)

PendingServed == \A e \in EntryIds :
    ReadyEntry(e) /\ entries[e].thumbnailState = "pending" =>
        \E j \in JobIds : /\ mediaJobs[j].status \in {"queued", "processing"}
                          /\ mediaJobs[j].entry = e /\ isExpected(mediaJobs[j])

JobsInv == JobsAreOfEntries /\ ClaimsFit /\ JobsFit /\ PendingNeeds /\ PendingServed

(***************************************************************************)
(* The contents of shared files                                            *)
(***************************************************************************)
SharedOnly == \A l \in Locations : l.kind = "shared"

NamedByContent == \A file \in files : file.key # <<>> /\ file.content = file.key[4]

\* An entry names its content, and derivatives of it.
RowFits(row) ==
    /\ row.storageKind = "shared" /\ row.key # <<>> /\ row.key[4] = row.content
    /\ row.metadata \in {None, row.content}
    /\ \A k \in {row.thumbnail, row.preview} \ {<<>>} : same(k[4], row.content)

EntriesFit == \A e \in EntryIds : RowFits(entries[e])

\* A worker makes what it says it makes, once it has the image that it is to make it from.
madeBy(claim) == IF claim.removal THEN WithoutLocation[claim.content] ELSE claim.content

WorkFits(claim) == claim.at # "idle" =>
    /\ claim.location \in Locations
    /\ claim.key # <<>> /\ claim.content \in Contents /\ claim.key[4] = claim.content
    /\ claim.newKey # <<>> /\ claim.newKey[4] = claim.result
    /\ claim.removal => claim.metadata
    /\ claim.at \in {"reading", "installing"} => claim.removal
    /\ claim.at \in {"claimed", "reading"} => claim.result = claim.content
    /\ claim.at \in {"installing", "thumbnail", "metadata", "preview", "checking", "derived"} =>
           claim.result = madeBy(claim)
    /\ claim.at \in {"preview", "checking", "derived"} /\ claim.metadata =>
           claim.seen = madeBy(claim)

WorkersFit == \A w \in MediaWorkers : WorkFits(mediaWorkers[w])

ContentInv == NamedByContent /\ EntriesFit /\ WorkersFit

(***************************************************************************)
(* Steps                                                                   *)
(***************************************************************************)
LEMMA PlacesHold ==
    /\ Locations \subseteq Places
    /\ \A l \in Locations, k \in {"shared", "user"} : [l EXCEPT !.kind = k] \in Places
<1>1. ASSUME NEW l \in Locations, NEW k \in {"shared", "user"}
      PROVE  l \in Places /\ [l EXCEPT !.kind = k] \in Places
  <2>1. l \in [kind : {"shared", "user"}, root : {l.root}] /\ l.root \in Roots
    BY MediaAssumption DEF Roots
  <2> QED BY <2>1 DEF Places
<1> QED BY <1>1

LEMMA OriginalKeys ==
    ASSUME NEW l \in Places, NEW e \in EntryIds, NEW c \in Contents
    PROVE  /\ storageKey(l, e, c) \in Keys \ {<<>>}
           /\ l.kind = "shared" => storageKey(l, e, c)[4] = c
BY DEF storageKey, Keys, Places

LEMMA DerivativeKeys ==
    ASSUME NEW l \in Places, NEW c \in Contents, NEW type \in {"thumbnail", "preview"}
    PROVE  /\ derivativeKey(type, l, c) \in Keys \ {<<>>}
           /\ derivativeKey(type, l, c)[4] = c
BY DEF derivativeKey, Keys, Places

LEMMA RowsRest == NoJob \in JobRow /\ Resting \in WorkerRow
BY DEF NoJob, Resting, JobRow, WorkerRow, Keys

LEMMA NothingToDo == NoJob.status = "none" /\ Resting.at = "idle" /\ NoUpload.at = "none"
BY DEF NoJob, Resting, NoUpload

LEMMA NewJobType ==
    ASSUME NEW e \in EntryIds, NEW k \in Keys, NEW c \in Contents
    PROVE  newJob(e, k, c) \in JobRow
BY DEF newJob, NoJob, JobRow

\* What the requests of people come to: a job of the entry waits or runs afterwards.
Asked(e) ==
    /\ ReadyEntry(e) /\ entries' = markThumbnailPendingIfNeeded(entries, e)
    /\ UNCHANGED <<gallery, mediaWorkers, files, movers>>
    /\ \/ /\ UNCHANGED mediaJobs
          /\ \E j \in jobsOf(e) : mediaJobs[j].status \in {"queued", "processing"}
       \/ \E j \in JobIds, job \in JobRow :
             /\ mediaJobs' = [mediaJobs EXCEPT ![j] = job]
             /\ job.status \in {"queued", "processing"} /\ job.entry = e
             /\ \/ /\ j \in unused /\ job.key = entries[e].key
                   /\ job.content = entries[e].content
                \/ /\ j \in jobsOf(e) /\ mediaJobs[j].status # "none"
                   /\ job.key = mediaJobs[j].key /\ job.content = mediaJobs[j].content
                   /\ mediaJobs[j].removal => job.removal

LEMMA Requests ==
    ASSUME MediaTypes, NEW e \in EntryIds, UNCHANGED movers,
           preparePreview(e) \/ removeLocationData(e) \/ refreshMetadata(e)
    PROVE  Asked(e)
<1>0. /\ entries[e].key \in Keys /\ entries[e].content \in Contents
      /\ \A j \in JobIds : mediaJobs[j] \in JobRow
      /\ mediaJobs \in [JobIds -> JobRow]
  BY DEF MediaTypes, EntryRow
<1> DEFINE new == newJob(e, entries[e].key, entries[e].content)
<1>1. /\ new \in JobRow /\ new.status = "queued" /\ new.entry = e
      /\ new.key = entries[e].key /\ new.content = entries[e].content
  BY <1>0, NewJobType DEF newJob, NoJob
<1>2. ASSUME NEW j \in unused, NEW job \in JobRow, mediaJobs' = [mediaJobs EXCEPT ![j] = job],
             job.status = "queued", job.entry = e, job.key = entries[e].key,
             job.content = entries[e].content, ReadyEntry(e),
             entries' = markThumbnailPendingIfNeeded(entries, e),
             UNCHANGED <<gallery, mediaWorkers, files>>
      PROVE  Asked(e)
  BY <1>2 DEF Asked, unused, withStatus
<1>3. ASSUME NEW j \in jobsOf(e), mediaJobs[j].status # "none", NEW job \in JobRow,
             mediaJobs' = [mediaJobs EXCEPT ![j] = job],
             job.status \in {"queued", "processing"}, job.entry = mediaJobs[j].entry,
             job.key = mediaJobs[j].key, job.content = mediaJobs[j].content,
             mediaJobs[j].removal => job.removal, ReadyEntry(e),
             entries' = markThumbnailPendingIfNeeded(entries, e),
             UNCHANGED <<gallery, mediaWorkers, files>>
      PROVE  Asked(e)
  <2>1. j \in JobIds /\ job.entry = e
    BY <1>3 DEF jobsOf
  <2> QED BY <1>3, <2>1 DEF Asked
<1>4. \A j \in JobIds : LET job == requeued(mediaJobs[j]) IN
         /\ job \in JobRow /\ job.status = "queued" /\ job.entry = mediaJobs[j].entry
         /\ job.key = mediaJobs[j].key /\ job.content = mediaJobs[j].content
         /\ job.removal = mediaJobs[j].removal
  BY <1>0 DEF requeued, JobRow
<1>5. \A job \in JobRow :
         LET previewed == [job EXCEPT !.preview = TRUE]
             cleaned == [job EXCEPT !.removal = TRUE]
         IN  /\ previewed \in JobRow /\ previewed.status = job.status
             /\ previewed.entry = job.entry /\ previewed.key = job.key
             /\ previewed.content = job.content /\ previewed.removal = job.removal
             /\ cleaned \in JobRow /\ cleaned.status = job.status
             /\ cleaned.entry = job.entry /\ cleaned.key = job.key
             /\ cleaned.content = job.content /\ cleaned.removal
  BY DEF JobRow
<1>6. CASE preparePreview(e)
  <2>0. /\ ReadyEntry(e) /\ entries' = markThumbnailPendingIfNeeded(entries, e)
        /\ UNCHANGED <<gallery, mediaWorkers, files>>
    BY <1>6 DEF preparePreview
  <2> DEFINE jobs == jobsOf(e)
             first == IF withStatus(jobs, "processing") # {} THEN withStatus(jobs, "processing")
                      ELSE IF withStatus(jobs, "queued") # {} THEN withStatus(jobs, "queued")
                      ELSE withStatus(jobs, "failed")
  <2>1. PICK j \in IF first = {} THEN unused ELSE first :
           mediaJobs' = [mediaJobs EXCEPT ![j] =
              IF first = {} THEN [new EXCEPT !.preview = TRUE]
              ELSE IF mediaJobs[j].status = "failed"
              THEN [requeued(mediaJobs[j]) EXCEPT !.preview = TRUE]
              ELSE [mediaJobs[j] EXCEPT !.preview = TRUE]]
    BY <1>6 DEF preparePreview
  <2>2. CASE first = {}
    <3> DEFINE job == [new EXCEPT !.preview = TRUE]
    <3>1. j \in unused /\ mediaJobs' = [mediaJobs EXCEPT ![j] = job]
      BY <2>1, <2>2
    <3>2. /\ job \in JobRow /\ job.status = "queued" /\ job.entry = e
          /\ job.key = entries[e].key /\ job.content = entries[e].content
      BY <1>1, <1>5
    <3> HIDE DEF new, job, first
    <3> QED BY <1>2, <2>0, <3>1, <3>2
  <2>3. CASE first # {}
    <3>1. /\ j \in jobsOf(e) /\ j \in JobIds
          /\ mediaJobs[j].status \in {"queued", "processing", "failed"}
      BY <2>1, <2>3 DEF withStatus, jobsOf
    <3> DEFINE job == IF mediaJobs[j].status = "failed"
                      THEN [requeued(mediaJobs[j]) EXCEPT !.preview = TRUE]
                      ELSE [mediaJobs[j] EXCEPT !.preview = TRUE]
    <3>2. /\ job \in JobRow /\ job.status \in {"queued", "processing"}
          /\ job.entry = mediaJobs[j].entry /\ job.key = mediaJobs[j].key
          /\ job.content = mediaJobs[j].content
          /\ mediaJobs[j].removal => job.removal
      BY <1>0, <1>4, <1>5, <3>1
    <3>3. mediaJobs' = [mediaJobs EXCEPT ![j] = job]
      BY <2>1, <2>3
    <3> HIDE DEF job, first
    <3> QED BY <1>3, <2>0, <3>1, <3>2, <3>3
  <2> QED BY <2>2, <2>3
<1>7. CASE removeLocationData(e)
  <2>0. /\ ReadyEntry(e) /\ entries' = markThumbnailPendingIfNeeded(entries, e)
        /\ UNCHANGED <<gallery, mediaWorkers, files>>
    BY <1>7 DEF removeLocationData
  <2> DEFINE jobs == jobsOf(e)
             reusable == IF withStatus(jobs, "queued") # {} THEN withStatus(jobs, "queued")
                         ELSE withStatus(jobs, "failed")
             active == {j \in jobs : mediaJobs[j].removal
                                     /\ mediaJobs[j].status \in {"queued", "processing"}}
  <2>1. CASE active # {}
    BY <1>7, <2>1 DEF removeLocationData, Asked, jobsOf
  <2>2. CASE active = {}
    <3>1. PICK j \in IF reusable = {} THEN unused ELSE reusable :
             mediaJobs' = [mediaJobs EXCEPT ![j] =
                IF reusable = {} THEN [new EXCEPT !.removal = TRUE]
                ELSE IF mediaJobs[j].status = "failed"
                THEN [requeued(mediaJobs[j]) EXCEPT !.removal = TRUE]
                ELSE [mediaJobs[j] EXCEPT !.removal = TRUE]]
      BY <1>7, <2>2 DEF removeLocationData
    <3>2. CASE reusable = {}
      <4> DEFINE job == [new EXCEPT !.removal = TRUE]
      <4>1. j \in unused /\ mediaJobs' = [mediaJobs EXCEPT ![j] = job]
        BY <3>1, <3>2
      <4>2. /\ job \in JobRow /\ job.status = "queued" /\ job.entry = e
            /\ job.key = entries[e].key /\ job.content = entries[e].content
        BY <1>1, <1>5
      <4> HIDE DEF new, job, reusable
      <4> QED BY <1>2, <2>0, <4>1, <4>2
    <3>3. CASE reusable # {}
      <4>1. /\ j \in jobsOf(e) /\ j \in JobIds
            /\ mediaJobs[j].status \in {"queued", "failed"}
        BY <3>1, <3>3 DEF withStatus, jobsOf
      <4> DEFINE job == IF mediaJobs[j].status = "failed"
                        THEN [requeued(mediaJobs[j]) EXCEPT !.removal = TRUE]
                        ELSE [mediaJobs[j] EXCEPT !.removal = TRUE]
      <4>2. /\ job \in JobRow /\ job.status \in {"queued", "processing"}
            /\ job.entry = mediaJobs[j].entry /\ job.key = mediaJobs[j].key
            /\ job.content = mediaJobs[j].content /\ job.removal
        BY <1>0, <1>4, <1>5, <4>1
      <4>3. mediaJobs' = [mediaJobs EXCEPT ![j] = job]
        BY <3>1, <3>3
      <4> HIDE DEF job, reusable
      <4> QED BY <1>3, <2>0, <4>1, <4>2, <4>3
    <3> QED BY <3>2, <3>3
  <2> QED BY <2>1, <2>2
<1>8. CASE refreshMetadata(e)
  <2>0. /\ ReadyEntry(e) /\ entries' = markThumbnailPendingIfNeeded(entries, e)
        /\ UNCHANGED <<gallery, mediaWorkers, files>>
    BY <1>8 DEF refreshMetadata
  <2> DEFINE jobs == jobsOf(e)
             failed == withStatus(jobs, "failed")
  <2>1. CASE withStatus(jobs, "queued") \cup withStatus(jobs, "processing") # {}
    BY <1>8, <2>1 DEF refreshMetadata, Asked, jobsOf, withStatus
  <2>2. CASE withStatus(jobs, "queued") \cup withStatus(jobs, "processing") = {}
    <3>1. PICK j \in IF failed = {} THEN unused ELSE failed :
             mediaJobs' = [mediaJobs EXCEPT ![j] =
                IF failed = {} THEN new ELSE requeued(mediaJobs[j])]
      BY <1>8, <2>2 DEF refreshMetadata
    <3>2. CASE failed = {}
      <4> HIDE DEF new
      <4> QED BY <1>1, <1>2, <2>0, <3>1, <3>2
    <3>3. CASE failed # {}
      <4>1. /\ j \in jobsOf(e) /\ j \in JobIds /\ mediaJobs[j].status = "failed"
        BY <3>1, <3>3 DEF withStatus, jobsOf
      <4>2. mediaJobs' = [mediaJobs EXCEPT ![j] = requeued(mediaJobs[j])]
        BY <3>1, <3>3
      <4> QED BY <1>3, <1>4, <2>0, <4>1, <4>2
    <3> QED BY <3>2, <3>3
  <2> QED BY <2>1, <2>2
<1> QED BY <1>6, <1>7, <1>8

\* A worker takes a job that waits, or a new one.
Taken(w) == \E j \in JobIds, job \in JobRow :
    /\ mediaWorkers[w] = Resting /\ take(w, j, job)
    /\ job.status # "none" /\ job.entry \in EntryIds
    /\ \/ job = mediaJobs[j]
       \/ j \in unused /\ job = newJob(job.entry, entries[job.entry].key, entries[job.entry].content)
    /\ UNCHANGED <<gallery, files>>

LEMMA Claims ==
    ASSUME MediaTypes, JobsAreOfEntries, NEW w \in MediaWorkers,
           claimMediaProcessing(w) \/ claimUnprocessed(w)
    PROVE  Taken(w)
<1>1. CASE claimMediaProcessing(w)
  <2>1. PICK j \in waitingJobs : take(w, j, mediaJobs[j])
    BY <1>1 DEF claimMediaProcessing
  <2>2. j \in JobIds /\ mediaJobs[j].status # "none"
    BY <2>1 DEF waitingJobs, StaleJob, OlderJob, withStatus
  <2>3. mediaJobs[j] \in JobRow /\ mediaJobs[j].entry \in EntryIds
    BY <2>2 DEF MediaTypes, JobsAreOfEntries
  <2> QED BY <1>1, <2>1, <2>2, <2>3 DEF claimMediaProcessing, Taken
<1>2. CASE claimUnprocessed(w)
  <2>1. PICK e \in EntryIds, j \in unused :
           take(w, j, newJob(e, entries[e].key, entries[e].content))
    BY <1>2 DEF claimUnprocessed
  <2> DEFINE job == newJob(e, entries[e].key, entries[e].content)
  <2>2. entries[e].key \in Keys /\ entries[e].content \in Contents
    BY DEF MediaTypes, EntryRow
  <2>3. job \in JobRow
    BY <2>2, NewJobType
  <2>4. job.status = "queued" /\ job.entry = e
    BY DEF newJob, NoJob
  <2>5. j \in JobIds
    BY <2>1 DEF unused, withStatus
  <2>6. mediaWorkers[w] = Resting /\ UNCHANGED <<gallery, files>>
    BY <1>2 DEF claimUnprocessed
  <2>7. job = newJob(job.entry, entries[job.entry].key, entries[job.entry].content)
    BY <2>4
  <2>8. take(w, j, job)
    BY <2>1
  <2> HIDE DEF job
  <2> QED BY <2>1, <2>3, <2>4, <2>5, <2>6, <2>7, <2>8 DEF Taken
<1> QED BY <1>1, <1>2

\* Steps that touch neither rows nor files.
Quiet == UNCHANGED <<gallery, entries, mediaJobs, mediaWorkers, files>>

\* A worker goes on with what it has.
Works(w) ==
    \/ examine(w) \/ readImage(w) \/ installImage(w) \/ createThumbnail(w)
    \/ extractMediaMetadataJson(w) \/ createPreview(w) \/ checkAgain(w) \/ fails(w) \/ refused(w)

LEMMA UploadsStep ==
    ASSUME MigrationIds = {}, MediaTypes, [Next]_vars
    PROVE  uploads' \in [UploadIds -> UploadRow \cup {NoUpload}]
<1>0. uploads \in [UploadIds -> UploadRow \cup {NoUpload}] /\ gallery.location \in Locations
  BY DEF MediaTypes
<1>1. ASSUME NEW u \in UploadIds, NEW e \in EntryIds, NEW c \in Contents, claimUpload(u, e, c)
      PROVE  uploads' \in [UploadIds -> UploadRow \cup {NoUpload}]
  BY <1>0, <1>1 DEF claimUpload, UploadRow
<1>2. ASSUME NEW u \in UploadIds, NEW at \in {"installed", "complete"},
             uploads[u].at # "none", uploads' = [uploads EXCEPT ![u].at = at]
      PROVE  uploads' \in [UploadIds -> UploadRow \cup {NoUpload}]
  <2>1. uploads[u] \in UploadRow
    BY <1>0, <1>2, NothingToDo
  <2>2. [uploads[u] EXCEPT !.at = at] \in UploadRow
    BY <2>1 DEF UploadRow
  <2> QED BY <1>0, <1>2, <2>2
<1>3. ASSUME NEW u \in UploadIds, Upload(u)
      PROVE  uploads' \in [UploadIds -> UploadRow \cup {NoUpload}]
  BY <1>2, <1>3 DEF Upload, installUpload, completeUpload
<1>4. ASSUME NEW e \in EntryIds, preparePreview(e) \/ removeLocationData(e)
                                  \/ refreshMetadata(e) \/ remove(e) \/ lapseMigration(e)
      PROVE  UNCHANGED uploads
  BY <1>4 DEF preparePreview, removeLocationData, refreshMetadata, remove, lapseMigration
<1>5. ASSUME NEW w \in MediaWorkers, \/ MediaStep(w) \/ renewMediaProcessing(w) \/ fails(w)
                                        \/ workerStops(w)
      PROVE  UNCHANGED uploads
  BY <1>5 DEF MediaStep, renewMediaProcessing, fails, workerStops, claimMediaProcessing,
       claimUnprocessed, examine, readImage, installImage, createThumbnail,
       extractMediaMetadataJson, createPreview, checkAgain, misses, completeMediaProcessing,
       refused, failMediaProcessing
<1>6. ASSUME NEW w \in Movers, Move(w) \/ renewMigration(w) \/ copyFails(w) \/ moverStops(w)
      PROVE  UNCHANGED uploads
  BY <1>6 DEF Move, renewMigration, copyFails, moverStops, claimDelete, deleteFiles,
       completeGallery, claimMigration, copy, copyImpossible, completeMigration, failMigration,
       mediaVars
<1>7. CASE Ask
  BY <1>0, <1>1, <1>4, <1>7 DEF Ask, deploy
<1>8. CASE Break \/ \E j \in JobIds : LapseAbandoned(j)
  BY <1>0, <1>5, <1>8 DEF Break, LapseAbandoned, lapse
<1>9. CASE BreakMove \/ \E e \in EntryIds : LapseUnheld(e)
  BY <1>0, <1>4, <1>6, <1>9 DEF BreakMove, LapseUnheld
<1>10. CASE UNCHANGED vars
  BY <1>0, <1>10 DEF vars, mediaVars
<1> QED BY <1>0, <1>3, <1>5, <1>6, <1>7, <1>8, <1>9, <1>10 DEF Next

LEMMA Steps ==
    ASSUME MigrationIds = {}, MediaTypes, JobsAreOfEntries, [Next]_vars
    PROVE  /\ OnlyDeletes'
           /\ \/ Quiet
              \/ \E e \in EntryIds : Asked(e) \/ remove(e) \/ lapseMigration(e)
              \/ \E u \in UploadIds : installUpload(u) \/ completeUpload(u)
              \/ deploy
              \/ \E w \in MediaWorkers :
                    \/ Taken(w) \/ renewMediaProcessing(w) \/ Works(w)
                    \/ completeMediaProcessing(w) \/ failMediaProcessing(w) \/ workerStops(w)
              \/ \E j \in JobIds : lapse(j)
              \/ \E w \in Movers : deleteFiles(w)
<1> DEFINE Goal ==
              \/ Quiet
              \/ \E e \in EntryIds : Asked(e) \/ remove(e) \/ lapseMigration(e)
              \/ \E u \in UploadIds : installUpload(u) \/ completeUpload(u)
              \/ deploy
              \/ \E w \in MediaWorkers :
                    \/ Taken(w) \/ renewMediaProcessing(w) \/ Works(w)
                    \/ completeMediaProcessing(w) \/ failMediaProcessing(w) \/ workerStops(w)
              \/ \E j \in JobIds : lapse(j)
              \/ \E w \in Movers : deleteFiles(w)
<1>0. OnlyDeletes /\ None \notin EntryIds
  BY MediaAssumption DEF MediaTypes
<1>1. CASE UNCHANGED vars
  BY <1>0, <1>1 DEF vars, mediaVars, rowVars, workVars, migrationVars, Quiet, OnlyDeletes
<1>2. CASE Ask /\ UNCHANGED migrationVars
  <2>1. UNCHANGED movers
    BY <1>2 DEF migrationVars
  <2>2. OnlyDeletes'
    BY <1>0, <2>1 DEF OnlyDeletes
  <2>3. CASE \E e \in EntryIds :
                preparePreview(e) \/ removeLocationData(e) \/ refreshMetadata(e)
    BY <2>1, <2>2, <2>3, Requests
  <2>4. CASE \E u \in UploadIds, e \in EntryIds, c \in Contents : claimUpload(u, e, c)
    BY <2>2, <2>4 DEF claimUpload, rowVars, workVars, Quiet
  <2> QED BY <1>2, <2>2, <2>3, <2>4 DEF Ask
<1>12. CASE (\E u \in UploadIds : Upload(u)) /\ UNCHANGED migrationVars
  <2>1. OnlyDeletes'
    BY <1>0, <1>12 DEF OnlyDeletes, migrationVars
  <2> QED BY <1>12, <2>1 DEF Upload
<1>3. CASE Break /\ UNCHANGED migrationVars
  <2>1. OnlyDeletes'
    BY <1>0, <1>3 DEF OnlyDeletes, migrationVars
  <2> QED BY <1>3, <2>1 DEF Break, Works
<1>4. CASE \E w \in MediaWorkers : /\ MediaStep(w) \/ renewMediaProcessing(w)
                                   /\ UNCHANGED migrationVars
  <2>1. OnlyDeletes'
    BY <1>0, <1>4 DEF OnlyDeletes, migrationVars
  <2>2. PICK w \in MediaWorkers : MediaStep(w) \/ renewMediaProcessing(w)
    BY <1>4
  <2>3. CASE claimMediaProcessing(w) \/ claimUnprocessed(w)
    BY <2>1, <2>3, Claims
  <2>4. CASE misses(w)
    BY <2>1, <2>4 DEF misses, Works
  <2> QED BY <2>1, <2>2, <2>3, <2>4 DEF MediaStep, Works
<1>5. CASE \E l \in Locations, m \in MigrationIds : requestMigration(m, l)
  BY <1>5
<1>6. ASSUME NEW w \in Movers, Move(w) \/ renewMigration(w) \/ moverStops(w) \/ copyFails(w)
      PROVE  OnlyDeletes' /\ (Quiet \/ deleteFiles(w))
  <2>1. movers[w].at \in {"idle", "deleting"} /\ movers[w].entry = None
    BY <1>0 DEF OnlyDeletes
  <2>2. CASE claimDelete(w)
    <3>1. PICK d \in free : \E links : movers' = [movers EXCEPT ![w] =
                   [Idle EXCEPT !.at = "deleting", !.job = {d}, !.unlinks = links]]
      BY <2>2 DEF claimDelete
    <3> QED BY <1>0, <2>2, <3>1 DEF claimDelete, mediaVars, rowVars, workVars, Quiet,
              OnlyDeletes, Idle
  <2>3. CASE deleteFiles(w) \/ moverStops(w)
    <3>1. movers' = [movers EXCEPT ![w] = Idle]
      BY <2>3 DEF deleteFiles, moverStops
    <3>2. OnlyDeletes'
      BY <1>0, <3>1 DEF OnlyDeletes, Idle
    <3> QED BY <2>3, <3>2 DEF moverStops, mediaVars, rowVars, workVars, Quiet
  <2>4. CASE \E m \in MigrationIds :
                completeGallery(w, m) \/ \E e \in EntryIds : claimMigration(w, m, e)
    BY <2>4
  <2>5. ~(copy(w) \/ copyImpossible(w) \/ completeMigration(w) \/ failMigration(w) \/ copyFails(w))
    BY <2>1 DEF copy, copyImpossible, copyFails, completeMigration, failMigration
  <2>6. ~renewMigration(w)
    BY <2>1 DEF renewMigration
  <2> QED BY <1>6, <2>2, <2>3, <2>4, <2>5, <2>6 DEF Move
<1>7. ASSUME NEW e \in EntryIds, lapseMigration(e)
      PROVE  OnlyDeletes' /\ Goal
  BY <1>0, <1>7 DEF lapseMigration, migrationVars, OnlyDeletes
<1>8. CASE BreakMove
  BY <1>6, <1>7, <1>8 DEF BreakMove
<1>9. CASE \E w \in Movers : Move(w) \/ renewMigration(w)
  BY <1>6, <1>9
<1>10. CASE \E j \in JobIds : LapseAbandoned(j)
  BY <1>0, <1>10 DEF LapseAbandoned, migrationVars, OnlyDeletes
<1>11. CASE \E e \in EntryIds : LapseUnheld(e)
  BY <1>7, <1>11 DEF LapseUnheld
<1> QED BY <1>1, <1>2, <1>3, <1>4, <1>5, <1>8, <1>9, <1>10, <1>11, <1>12 DEF Next

(***************************************************************************)
(* The rows keep their types                                               *)
(***************************************************************************)
LEMMA OwnJobs == jobFor \in [EntryIds -> JobIds] /\ IsInjective(jobFor)
BY JobsForAll DEF jobFor

\* To begin with the jobs are those of the entries that are not processed.
LEMMA FirstJobs ==
    ASSUME Init, NEW j \in JobIds
    PROVE  \/ /\ mediaJobs[j] = NoJob
              /\ \A e \in EntryIds : jobFor[e] = j => e \in budget.processed
           \/ \E e \in EntryIds :
                 /\ jobFor[e] = j /\ e \notin budget.processed
                 /\ mediaJobs[j] = newJob(e, entries[e].key, entries[e].content)
<1> DEFINE mine == {e \in EntryIds : jobFor[e] = j /\ e \notin budget.processed}
<1>1. CASE mine = {}
  BY <1>1 DEF Init, MediaInit
<1>2. CASE mine # {}
  <2> DEFINE e == CHOOSE e \in mine : TRUE
  <2>1. mediaJobs[j] = newJob(e, entries[e].key, entries[e].content)
    BY <1>2 DEF Init, MediaInit
  <2>2. e \in mine
    BY <1>2
  <2> QED BY <2>1, <2>2
<1> QED BY <1>1, <1>2

LEMMA EntryAtType ==
    ASSUME NEW l \in Locations, NEW e \in EntryIds, NEW kind \in {"image", "video", "audio"},
           NEW done
    PROVE  LET row == entryAt(l, e, kind, e \in done) IN
           /\ row \in EntryRow
           /\ row.content = FirstContent[e] /\ row.key = storageKey(l, e, row.content)
           /\ row.thumbnail = IF e \in done /\ kind \in {"image", "video"}
                              THEN derivativeKey("thumbnail", l, row.content) ELSE <<>>
<1>1. FirstContent[e] \in Contents /\ l \in Places /\ l.kind \in {"shared", "user"}
  BY MediaAssumption, PlacesHold DEF Places
<1>2. /\ storageKey(l, e, FirstContent[e]) \in Keys
      /\ derivativeKey("thumbnail", l, FirstContent[e]) \in Keys /\ <<>> \in Keys
  BY <1>1, OriginalKeys, DerivativeKeys DEF Keys
<1> QED BY <1>1, <1>2 DEF entryAt, EntryRow

LEMMA FirstEntries ==
    ASSUME Init, NEW e \in EntryIds
    PROVE  /\ budget.kinds[e] \in {"image", "video", "audio"}
           /\ entries[e] = entryAt(gallery.location, e, budget.kinds[e], e \in budget.processed)
           /\ gallery.location \in Locations /\ gallery.pending = None
           /\ gallery \in [location : Locations, pending : {None}]
BY MediaAssumption DEF Init, MediaInit

LEMMA TypesInit == Init => MediaTypes
<1> SUFFICES ASSUME Init PROVE MediaTypes
  OBVIOUS
<1>1. gallery \in [location : Locations, pending : {None}]
  BY DEF Init, MediaInit
<1>2. \A e \in EntryIds :
         /\ entries[e] \in EntryRow
         /\ entries[e].content \in Contents /\ entries[e].key \in Keys /\ entries[e].thumbnail \in Keys
  <2> SUFFICES ASSUME NEW e \in EntryIds PROVE entries[e] \in EntryRow
    BY DEF EntryRow
  <2> QED BY FirstEntries, EntryAtType
<1>3. entries \in [EntryIds -> EntryRow]
  BY <1>2 DEF Init, MediaInit
<1>4. mediaJobs \in [JobIds -> JobRow]
  <2>1. \A j \in JobIds : mediaJobs[j] \in JobRow
    BY <1>2, FirstJobs, RowsRest, NewJobType
  <2> QED BY <2>1 DEF Init, MediaInit
<1>5. mediaWorkers \in [MediaWorkers -> WorkerRow]
  BY RowsRest DEF Init, MediaInit
<1>6. files \subseteq [key : Keys, content : Contents]
  <2>1. \A e \in EntryIds : /\ [key |-> entries[e].key, content |-> entries[e].content]
                                   \in [key : Keys, content : Contents]
                           /\ [key |-> entries[e].thumbnail, content |-> entries[e].content]
                                   \in [key : Keys, content : Contents]
    BY <1>2
  <2> QED BY <2>1 DEF Init, MediaInit
<1>7. OnlyDeletes
  BY DEF Init, OnlyDeletes, Idle
<1>8. ClaimsFilled
  BY DEF Init, MediaInit, ClaimsFilled, Filled, Resting
<1>9. uploads \in [UploadIds -> UploadRow \cup {NoUpload}]
  BY DEF Init, MediaInit
<1> QED BY <1>1, <1>3, <1>4, <1>5, <1>6, <1>7, <1>8, <1>9 DEF MediaTypes

LEMMA Marking ==
    ASSUME entries \in [EntryIds -> EntryRow], NEW e \in EntryIds
    PROVE  markThumbnailPendingIfNeeded(entries, e) \in [EntryIds -> EntryRow]
BY DEF markThumbnailPendingIfNeeded, EntryRow

\* A claim of a job is for what the job is for.
LEMMA ClaimType ==
    ASSUME MediaTypes, NEW j \in JobIds, NEW job \in JobRow, job.entry \in EntryIds
    PROVE  LET claim == claimOf(j, job) IN
           /\ claim \in WorkerRow
           /\ claim.at = "claimed" /\ claim.job = j /\ claim.entry = job.entry
           /\ claim.key = entries[job.entry].key
           /\ claim.content = entries[job.entry].content
           /\ claim.location = [gallery.location EXCEPT !.kind = entries[job.entry].storageKind]
           /\ claim.newKey = claim.key /\ claim.result = claim.content
           /\ Filled(claim)
           /\ visual(entries[job.entry]) /\ entries[job.entry].thumbnail = <<>> => claim.thumbnail
           /\ claim.removal = job.removal
           /\ claim.removal => claim.metadata
<1>1. entries[job.entry] \in EntryRow
  BY DEF MediaTypes
<1>2. [gallery.location EXCEPT !.kind = entries[job.entry].storageKind] \in Places
  <2>1. gallery.location \in Locations /\ entries[job.entry].storageKind \in {"shared", "user"}
    BY <1>1 DEF MediaTypes, EntryRow
  <2> QED BY <2>1, PlacesHold
<1> DEFINE row == entries[job.entry]
           claim == claimOf(j, job)
           place == [gallery.location EXCEPT !.kind = row.storageKind]
<1>3. /\ row.key \in Keys /\ row.content \in Contents /\ row.version \in BOOLEAN
      /\ job.preview \in BOOLEAN /\ job.removal \in BOOLEAN
  BY <1>1 DEF EntryRow, JobRow
<1> DEFINE thumbnail == visual(row) /\ row.thumbnail = <<>>
           metadata == ~row.version \/ job.removal
           preview == job.preview /\ row.preview = <<>> /\ row.thumbnail # <<>>
<1>4. claim = [at |-> "claimed", job |-> j, entry |-> job.entry, key |-> row.key,
               content |-> row.content, location |-> place, thumbnail |-> thumbnail,
               metadata |-> metadata, preview |-> preview, removal |-> job.removal,
               newKey |-> row.key, result |-> row.content, seen |-> None]
  <2>1. claim = [Resting EXCEPT !.at = "claimed", !.job = j, !.entry = job.entry,
                    !.key = row.key, !.content = row.content, !.newKey = row.key,
                    !.result = row.content, !.location = place, !.thumbnail = thumbnail,
                    !.metadata = metadata, !.preview = preview, !.removal = job.removal]
    BY DEF claimOf
  <2> HIDE DEF row, claim, place, thumbnail, metadata, preview
  <2> QED BY <2>1 DEF Resting
<1>5. place \in Places /\ <<>> \in Keys
  BY <1>2 DEF Keys
<1>6. thumbnail \in BOOLEAN /\ metadata \in BOOLEAN /\ preview \in BOOLEAN
  BY <1>3 DEF visual
<1>7. /\ row = entries[job.entry]
      /\ place = [gallery.location EXCEPT !.kind = row.storageKind]
      /\ visual(row) /\ row.thumbnail = <<>> => thumbnail
      /\ job.removal => metadata
  OBVIOUS
<1> HIDE DEF row, claim, place, thumbnail, metadata, preview
<1>8. claim \in WorkerRow
  BY <1>3, <1>4, <1>5, <1>6 DEF WorkerRow, stages
<1>9. Filled(claim)
  BY <1>3, <1>4, <1>5 DEF Filled
<1> QED BY <1>3, <1>4, <1>5, <1>7, <1>8, <1>9 DEF row, claim

\* What a worker finds.
LEMMA StoredType ==
    ASSUME MediaTypes, NEW k, NEW c \in stored(k)
    PROVE  c \in Contents /\ \E file \in files : file.key = k /\ file.content = c
BY DEF MediaTypes, stored

LEMMA ResultType == \A c \in Contents : writeImageWithoutLocationData(c) \in Contents
BY MediaAssumption DEF writeImageWithoutLocationData

\* A worker goes on, or gives up what it has.
LEMMA WorkerTypes ==
    ASSUME MediaTypes, NEW w \in MediaWorkers, NEW claim \in WorkerRow, goesOn(w, claim),
           Filled(claim)
    PROVE  mediaWorkers' \in [MediaWorkers -> WorkerRow] /\ ClaimsFilled'
BY DEF goesOn, MediaTypes, ClaimsFilled

LEMMA RestTypes ==
    ASSUME MediaTypes, NEW w \in MediaWorkers, goesOn(w, Resting)
    PROVE  mediaWorkers' \in [MediaWorkers -> WorkerRow] /\ ClaimsFilled'
BY RowsRest, NothingToDo, WorkerTypes DEF Filled

\* What a claim is for.
SameWork(claim, new) ==
    /\ new.job = claim.job /\ new.entry = claim.entry /\ new.key = claim.key
    /\ new.content = claim.content /\ new.location = claim.location
    /\ new.thumbnail = claim.thumbnail /\ new.metadata = claim.metadata
    /\ new.preview = claim.preview /\ new.removal = claim.removal

LEMMA WorkerEdits ==
    ASSUME NEW claim \in WorkerRow, NEW at \in stages \cup {"derived", "failing"},
           NEW new, new = [claim EXCEPT !.at = at]
    PROVE  /\ new \in WorkerRow /\ SameWork(claim, new) /\ new.at = at
           /\ new.newKey = claim.newKey /\ new.result = claim.result /\ new.seen = claim.seen
BY DEF WorkerRow, SameWork

seeing(claim, at, c) == [claim EXCEPT !.at = at, !.seen = c]

LEMMA SeenEdits ==
    ASSUME NEW claim \in WorkerRow, NEW at \in stages, NEW c \in Contents
    PROVE  /\ seeing(claim, at, c) \in WorkerRow /\ SameWork(claim, seeing(claim, at, c))
           /\ seeing(claim, at, c).at = at /\ seeing(claim, at, c).newKey = claim.newKey
           /\ seeing(claim, at, c).result = claim.result /\ seeing(claim, at, c).seen = c
BY DEF WorkerRow, SameWork, seeing

having(claim, c, k) == [claim EXCEPT !.at = "installing", !.result = c, !.newKey = k]

LEMMA ReadEdits ==
    ASSUME NEW claim \in WorkerRow, NEW c \in Contents, NEW k \in Keys
    PROVE  /\ having(claim, c, k) \in WorkerRow /\ SameWork(claim, having(claim, c, k))
           /\ having(claim, c, k).at = "installing" /\ having(claim, c, k).newKey = k
           /\ having(claim, c, k).result = c
<1>1. "installing" \in stages
  BY DEF stages
<1> QED BY <1>1 DEF WorkerRow, SameWork, having

LEMMA NextStages ==
    ASSUME NEW claim
    PROVE  /\ afterMetadata(claim) \in {"preview", "checking"}
           /\ afterThumbnail(claim) \in {"metadata", "preview", "checking"}
           /\ afterImage(claim) \in {"thumbnail", "metadata", "preview", "checking"}
           /\ claim.metadata => /\ afterThumbnail(claim) = "metadata"
                                /\ afterImage(claim) \in {"thumbnail", "metadata"}
BY DEF afterMetadata, afterThumbnail, afterImage

\* What a replacing upload leaves of an entry and of the jobs.
LEMMA ReplacedRow ==
    ASSUME MediaTypes, NEW u \in UploadIds, completeUpload(u),
           NEW e, e = uploads[u].entry, NEW c, c = uploads[u].content
    PROVE  LET old == entries[e]
               new == entries'[e]
               k == storageKey(uploads[u].location, e, c)
               kept(x) == derivativeKept(c # old.content, x)
           IN  /\ e \in EntryIds /\ c \in Contents /\ uploads[u].location \in Locations
               /\ new \in EntryRow /\ \A x \in EntryIds \ {e} : entries'[x] = entries[x]
               /\ entries' \in [EntryIds -> EntryRow]
               /\ k \in Keys \ {<<>>} /\ new.key = k /\ new.content = c
               /\ new.state = "ready" /\ new.mediaKind = old.mediaKind
               /\ new.storageKind = gallery.location.kind /\ new.metadata = None
               /\ new.thumbnail = kept(old.thumbnail) /\ new.preview = kept(old.preview)
               /\ new.thumbnailState = IF kept(old.thumbnail) = <<>> /\ visual(old)
                                       THEN "pending" ELSE None
<1> DEFINE old == entries[e]
           k == storageKey(uploads[u].location, e, c)
           kept(x) == derivativeKept(c # old.content, x)
           state == IF kept(old.thumbnail) = <<>> /\ visual(old) THEN "pending" ELSE None
           row == [old EXCEPT !.state = "ready", !.content = c, !.key = k,
                     !.storageKind = gallery.location.kind,
                     !.thumbnail = kept(old.thumbnail), !.preview = kept(old.preview),
                     !.metadata = None, !.thumbnailState = state]
<1>0. e \in EntryIds /\ c \in Contents /\ uploads[u].location \in Locations
  <2>1. uploads[u] \in UploadRow
    BY NothingToDo DEF completeUpload, MediaTypes
  <2> QED BY <2>1 DEF UploadRow
<1>1. entries' = [entries EXCEPT ![e] = row]
  BY DEF completeUpload
<1>2. /\ gallery.location \in Places /\ gallery.location.kind \in {"shared", "user"}
      /\ k \in Keys \ {<<>>} /\ <<>> \in Keys /\ old \in EntryRow
      /\ entries \in [EntryIds -> EntryRow]
  BY <1>0, PlacesHold, OriginalKeys DEF MediaTypes, Keys, Places
<1>3. state \in {None, "pending"}
  OBVIOUS
<1>4. kept(old.thumbnail) \in Keys /\ kept(old.preview) \in Keys
  BY <1>2 DEF EntryRow, derivativeKept
<1>5. /\ row \in EntryRow /\ row.key = k /\ row.content = c /\ row.state = "ready"
      /\ row.mediaKind = old.mediaKind /\ row.storageKind = gallery.location.kind
      /\ row.metadata = None /\ row.thumbnail = kept(old.thumbnail)
      /\ row.preview = kept(old.preview) /\ row.thumbnailState = state
  <2> HIDE DEF old, k, kept, state
  <2> QED BY <1>0, <1>2, <1>3, <1>4 DEF EntryRow
<1>6. /\ entries'[e] = row /\ entries' \in [EntryIds -> EntryRow]
      /\ \A x \in EntryIds \ {e} : entries'[x] = entries[x]
  <2> HIDE DEF row
  <2> QED BY <1>0, <1>1, <1>2, <1>5
<1> HIDE DEF row
<1> QED BY <1>0, <1>1, <1>2, <1>5, <1>6

LEMMA ReplacedJobs ==
    ASSUME MediaTypes, JobsAreOfEntries, NEW u \in UploadIds, completeUpload(u),
           NEW e, e = uploads[u].entry, NEW c, c = uploads[u].content
    PROVE  LET k == storageKey(uploads[u].location, e, c)
               processed == entries'[e].thumbnail # <<>>
           IN  /\ mediaJobs' \in [JobIds -> JobRow]
               /\ \/ /\ processed
                     /\ \A x \in JobIds : mediaJobs'[x] = IF x \in jobsOf(e) THEN NoJob
                                                          ELSE mediaJobs[x]
                  \/ \E j \in JobIds :
                        /\ j \in jobsOf(e) \/ mediaJobs[j] = NoJob
                        /\ abandoned(j)
                        /\ \E new \in JobRow :
                              /\ new.status = "queued" /\ new.entry = e /\ new.key = k
                              /\ new.content = c /\ mediaJobs'[j] = new
                        /\ \A x \in JobIds \ {j} : mediaJobs'[x] = IF x \in jobsOf(e) THEN NoJob
                                                                   ELSE mediaJobs[x]
<1> DEFINE k == storageKey(uploads[u].location, e, c)
           kept == derivativeKept(c # entries[e].content, entries[e].thumbnail)
           wanted == entries[e].mediaKind = "image" /\ \E j \in jobsOf(e) : mediaJobs[j].preview
           cleared == [j \in JobIds |-> IF j \in jobsOf(e) THEN NoJob ELSE mediaJobs[j]]
           j == CHOOSE x \in JobIds : cleared[x] = NoJob /\ abandoned(x)
           new == [newJob(e, k, c) EXCEPT !.preview = wanted]
<1>1. mediaJobs' = IF kept # <<>> /\ ~wanted THEN cleared ELSE [cleared EXCEPT ![j] = new]
  <2>1. mediaJobs' = replacedJobs(e, k, c, kept # <<>>)
    BY DEF completeUpload
  <2> HIDE DEF k, kept
  <2> QED BY <2>1 DEF replacedJobs
<1>2. entries'[e].thumbnail = kept /\ k \in Keys /\ e \in EntryIds /\ c \in Contents
  BY ReplacedRow
<1>3. cleared \in [JobIds -> JobRow]
  BY RowsRest DEF MediaTypes
<1>4. j \in JobIds /\ cleared[j] = NoJob /\ abandoned(j)
  <2>1. \E x \in JobIds : abandoned(x) /\ (x \in jobsOf(e) \/ mediaJobs[x].status = "none")
    BY DEF completeUpload, unused, withStatus, jobsOf
  <2>2. \E x \in JobIds : cleared[x] = NoJob /\ abandoned(x)
    BY <2>1 DEF JobsAreOfEntries
  <2> QED BY <2>2
<1>5. /\ new \in JobRow /\ new.status = "queued" /\ new.entry = e /\ new.key = k
      /\ new.content = c
  <2>1. newJob(e, k, c) \in JobRow /\ wanted \in BOOLEAN
    BY <1>2, NewJobType
  <2>2. /\ newJob(e, k, c).status = "queued" /\ newJob(e, k, c).entry = e
        /\ newJob(e, k, c).key = k /\ newJob(e, k, c).content = c
    BY DEF newJob, NoJob
  <2> HIDE DEF wanted, k
  <2> QED BY <2>1, <2>2 DEF JobRow
<1>6. CASE kept # <<>> /\ ~wanted
  <2> HIDE DEF wanted, new, k
  <2> QED BY <1>1, <1>2, <1>3, <1>6 DEF k
<1>7. CASE ~(kept # <<>> /\ ~wanted)
  <2>1. mediaJobs' = [cleared EXCEPT ![j] = new]
    BY <1>1, <1>7
  <2>2. j \in jobsOf(e) \/ mediaJobs[j] = NoJob
    BY <1>4
  <2>3. \A x \in JobIds : cleared[x] = IF x \in jobsOf(e) THEN NoJob ELSE mediaJobs[x]
    OBVIOUS
  <2> HIDE DEF wanted, new, k, cleared, j
  <2>4. /\ mediaJobs' \in [JobIds -> JobRow] /\ mediaJobs'[j] = new
        /\ \A x \in JobIds \ {j} : mediaJobs'[x] = cleared[x]
    BY <1>3, <1>4, <1>5, <2>1
  <2> QED BY <1>4, <1>5, <2>2, <2>3, <2>4 DEF k
<1> QED BY <1>6, <1>7

\* Shared derivatives are written again, user files too.
LEMMA PutTypes ==
    ASSUME files \subseteq [key : Keys, content : Contents], NEW k \in Keys, NEW c \in Contents
    PROVE  put(files, k, c) \subseteq [key : Keys, content : Contents]
BY DEF put

LEMMA UpdatedType ==
    ASSUME NEW claim \in WorkerRow, NEW job \in JobRow, NEW row \in EntryRow,
           claim.location \in Places, claim.result \in Contents
    PROVE  LET new == updatedBy(claim, job, row)
               seen == claim.metadata \/ job.removal
           IN  /\ new \in EntryRow
               /\ new.state = row.state /\ new.mediaKind = row.mediaKind
               /\ new.storageKind = row.storageKind
               /\ new.key = IF job.removal /\ claim.removal THEN claim.newKey ELSE row.key
               /\ new.content = IF job.removal /\ claim.removal THEN claim.result ELSE row.content
               /\ new.thumbnail = IF claim.thumbnail
                                  THEN derivativeKey("thumbnail", claim.location, claim.result)
                                  ELSE row.thumbnail
               /\ new.thumbnailState = IF claim.thumbnail THEN None ELSE row.thumbnailState
               /\ new.preview = IF claim.preview
                                THEN derivativeKey("preview", claim.location, claim.result)
                                ELSE row.preview
               /\ new.metadata = IF seen THEN (IF claim.metadata THEN claim.seen ELSE None)
                                 ELSE row.metadata
<1> DEFINE thumb == derivativeKey("thumbnail", claim.location, claim.result)
           prev == derivativeKey("preview", claim.location, claim.result)
           cleaned == job.removal /\ claim.removal
           seen == claim.metadata \/ job.removal
           key == IF cleaned THEN claim.newKey ELSE row.key
           content == IF cleaned THEN claim.result ELSE row.content
           thumbnail == IF claim.thumbnail THEN thumb ELSE row.thumbnail
           state == IF claim.thumbnail THEN None ELSE row.thumbnailState
           preview == IF claim.preview THEN prev ELSE row.preview
           metadata == IF seen THEN (IF claim.metadata THEN claim.seen ELSE None)
                       ELSE row.metadata
           version == seen \/ row.version
           new == updatedBy(claim, job, row)
<1>1. thumb \in Keys /\ prev \in Keys
  BY DerivativeKeys
<1>2. /\ key \in Keys /\ content \in Contents /\ thumbnail \in Keys
      /\ state \in {None, "pending", "failed"} /\ preview \in Keys
      /\ metadata \in Contents \cup {None} /\ version \in BOOLEAN
  <2> HIDE DEF thumb, prev
  <2> QED BY <1>1 DEF EntryRow, WorkerRow
<1>3. new = [row EXCEPT !.key = key, !.content = content, !.thumbnail = thumbnail,
                        !.thumbnailState = state, !.preview = preview, !.metadata = metadata,
                        !.version = version]
  BY DEF updatedBy
<1>4. /\ new \in EntryRow
      /\ new.state = row.state /\ new.mediaKind = row.mediaKind
      /\ new.storageKind = row.storageKind /\ new.key = key /\ new.content = content
      /\ new.thumbnail = thumbnail /\ new.thumbnailState = state /\ new.preview = preview
      /\ new.metadata = metadata
  <2> HIDE DEF key, content, thumbnail, state, preview, metadata, version, new
  <2> QED BY <1>2, <1>3 DEF EntryRow
<1> HIDE DEF new
<1> QED BY <1>4 DEF new

\* Edits of single fields.
LEMMA EntryEdits ==
    ASSUME NEW row \in EntryRow
    PROVE  /\ [row EXCEPT !.state = "deleted"] \in EntryRow
           /\ [row EXCEPT !.state = "gone"] \in EntryRow
           /\ [row EXCEPT !.lapsed = TRUE] \in EntryRow
           /\ [row EXCEPT !.version = FALSE] \in EntryRow
           /\ [row EXCEPT !.thumbnailState = "failed"] \in EntryRow
BY DEF EntryRow

LEMMA JobEdits ==
    ASSUME NEW job \in JobRow
    PROVE  /\ \A older \in BOOLEAN : [job EXCEPT !.older = older] \in JobRow
           /\ \A lapsed \in BOOLEAN : [job EXCEPT !.lapsed = lapsed] \in JobRow
           /\ \A s \in {"failed", "queued"} :
                 [job EXCEPT !.status = s, !.lapsed = FALSE] \in JobRow
           /\ [job EXCEPT !.status = "failed", !.lapsed = FALSE, !.older = FALSE] \in JobRow
           /\ requeued(job) \in JobRow
           /\ [job EXCEPT !.status = "processing", !.attempts = attemptsOf(job),
                          !.lapsed = FALSE, !.older = FALSE] \in JobRow
<1>1. attemptsOf(job) \in Nat
  BY DEF attemptsOf, JobRow
<1>2. requeued(job) \in JobRow
  BY DEF requeued, JobRow
<1> QED BY <1>1, <1>2 DEF JobRow

\* Each step of the work leaves a claim for the same, and changes files at most.
LEMMA WorksOn ==
    ASSUME MediaTypes, JobsInv, NEW w \in MediaWorkers, Works(w)
    PROVE  /\ \E claim \in WorkerRow :
                 /\ goesOn(w, claim) /\ SameWork(mediaWorkers[w], claim)
                 /\ claim.at # "idle" /\ Filled(claim)
           /\ mediaWorkers[w].at # "idle" /\ UNCHANGED <<gallery, entries, mediaJobs>>
           /\ files' \subseteq [key : Keys, content : Contents]
<1> DEFINE claim == mediaWorkers[w]
           Goal == \E new \in WorkerRow : /\ goesOn(w, new) /\ SameWork(claim, new)
                                          /\ new.at # "idle" /\ Filled(new)
<1>0. claim.at # "idle" /\ UNCHANGED <<gallery, entries, mediaJobs>>
  BY DEF Works, examine, readImage, installImage, createThumbnail, extractMediaMetadataJson,
         createPreview, checkAgain, fails, refused, rowVars, stages
<1>1. /\ claim \in WorkerRow /\ claim.entry \in EntryIds /\ claim.newKey \in Keys
      /\ claim.content \in Contents /\ claim.result \in Contents /\ claim.location \in Places
      /\ files \subseteq [key : Keys, content : Contents]
  BY <1>0 DEF JobsInv, ClaimsFit, ClaimFits, MediaTypes, ClaimsFilled, Filled, WorkerRow
<1>2. \A at \in stages \cup {"derived", "failing"} : at # "idle"
  BY DEF stages
<1>3. ASSUME NEW at \in stages \cup {"derived", "failing"},
             goesOn(w, [claim EXCEPT !.at = at])
      PROVE  Goal
  <2> DEFINE new == [claim EXCEPT !.at = at]
  <2>1. new \in WorkerRow /\ SameWork(claim, new) /\ new.at = at /\ new.result = claim.result
    <3> HIDE DEF claim
    <3> QED BY <1>1, WorkerEdits
  <2> HIDE DEF new, claim
  <2>2. Filled(new)
    BY <1>1, <2>1 DEF Filled, SameWork
  <2> QED BY <1>2, <1>3, <2>1, <2>2 DEF new, claim
<1>4. ASSUME NEW k \in Keys, NEW c \in Contents, files' = put(files, k, c)
      PROVE  files' \subseteq [key : Keys, content : Contents]
  BY <1>1, <1>4, PutTypes
<1>5. /\ afterMetadata(claim) \in stages /\ afterThumbnail(claim) \in stages
      /\ afterImage(claim) \in stages
  BY NextStages DEF stages
<1>6. \A type \in {"thumbnail", "preview"} :
         derivativeKey(type, claim.location, claim.result) \in Keys
  BY <1>1, DerivativeKeys
<1>7. CASE examine(w)
  <2>1. PICK at \in stages : goesOn(w, [claim EXCEPT !.at = at])
    BY <1>5, <1>7 DEF examine, stages
  <2> QED BY <1>0, <1>1, <1>3, <1>7, <2>1 DEF examine
<1>8. CASE readImage(w)
  <2>1. PICK c \in stored(claim.key) :
           LET new == writeImageWithoutLocationData(c)
           IN  goesOn(w, [claim EXCEPT !.at = "installing", !.result = new,
                             !.newKey = storageKey(claim.location, claim.entry, new)])
    BY <1>8 DEF readImage
  <2> DEFINE result == writeImageWithoutLocationData(c)
             k == storageKey(claim.location, claim.entry, result)
             new == having(claim, result, k)
  <2>2. result \in Contents
    BY StoredType, ResultType
  <2>3. k \in Keys
    BY <1>1, <2>2, OriginalKeys
  <2>4. /\ new \in WorkerRow /\ SameWork(claim, new) /\ new.at = "installing"
        /\ new.result = result
    <3> HIDE DEF k, result, claim
    <3> QED BY <1>1, <2>2, <2>3, ReadEdits
  <2>5. goesOn(w, new)
    BY <2>1 DEF having
  <2> HIDE DEF new, claim, result
  <2>6. Filled(new)
    BY <1>1, <2>2, <2>4 DEF Filled, SameWork
  <2>7. Goal
    BY <2>4, <2>5, <2>6
  <2> QED BY <1>0, <1>1, <1>8, <2>7 DEF readImage, claim
<1>9. CASE installImage(w)
  <2>1. goesOn(w, [claim EXCEPT !.at = afterImage(claim)])
    BY <1>9 DEF installImage
  <2>2. files' = files \/ files' = put(files, claim.newKey, claim.result)
    BY <1>9 DEF installImage, installed
  <2> QED BY <1>0, <1>1, <1>3, <1>4, <1>5, <2>1, <2>2
<1>10. CASE createThumbnail(w)
  <2>1. goesOn(w, [claim EXCEPT !.at = afterThumbnail(claim)])
    BY <1>10 DEF createThumbnail
  <2>2. PICK c \in stored(claim.newKey) :
           files' = put(files, derivativeKey("thumbnail", claim.location, claim.result), c)
    BY <1>10 DEF createThumbnail
  <2>3. c \in Contents
    BY StoredType
  <2> QED BY <1>0, <1>3, <1>4, <1>5, <1>6, <2>1, <2>2, <2>3
<1>11. CASE extractMediaMetadataJson(w)
  <2>1. PICK c \in stored(claim.newKey) :
           goesOn(w, [claim EXCEPT !.at = afterMetadata(claim), !.seen = c])
    BY <1>11 DEF extractMediaMetadataJson
  <2> DEFINE new == seeing(claim, afterMetadata(claim), c)
  <2>2. c \in Contents
    BY StoredType
  <2>3. /\ new \in WorkerRow /\ SameWork(claim, new) /\ new.at = afterMetadata(claim)
        /\ new.result = claim.result
    <3> HIDE DEF claim
    <3> QED BY <1>1, <1>5, <2>2, SeenEdits
  <2>4. goesOn(w, new)
    BY <2>1 DEF seeing
  <2> HIDE DEF new, claim
  <2>5. Filled(new) /\ new.at # "idle"
    BY <1>1, <1>2, <1>5, <2>3 DEF Filled, SameWork
  <2>6. Goal
    BY <2>3, <2>4, <2>5
  <2> QED BY <1>0, <1>1, <1>11, <2>6 DEF extractMediaMetadataJson, claim
<1>12. CASE createPreview(w)
  <2>1. goesOn(w, [claim EXCEPT !.at = "checking"]) /\ "checking" \in stages
    BY <1>12 DEF createPreview, stages
  <2>2. PICK c \in stored(claim.newKey) :
           files' = put(files, derivativeKey("preview", claim.location, claim.result), c)
    BY <1>12 DEF createPreview
  <2>3. c \in Contents
    BY StoredType
  <2> QED BY <1>0, <1>3, <1>4, <1>6, <2>1, <2>2, <2>3
<1>13. CASE checkAgain(w)
  BY <1>0, <1>1, <1>3, <1>13 DEF checkAgain
<1>14. CASE fails(w) \/ refused(w)
  BY <1>0, <1>1, <1>3, <1>14 DEF fails, refused
<1> QED BY <1>7, <1>8, <1>9, <1>10, <1>11, <1>12, <1>13, <1>14 DEF Works

LEMMA TypesStep ==
    ASSUME MigrationIds = {}, MediaTypes, JobsInv, [Next]_vars
    PROVE  MediaTypes'
<1>0. /\ OnlyDeletes' /\ JobsAreOfEntries /\ <<>> \in Keys
      /\ \A e \in EntryIds : entries[e] \in EntryRow
      /\ \A j \in JobIds : mediaJobs[j] \in JobRow
      /\ \A w \in MediaWorkers : mediaWorkers[w] \in WorkerRow
      /\ uploads' \in [UploadIds -> UploadRow \cup {NoUpload}]
  BY Steps, UploadsStep DEF JobsInv, MediaTypes, Keys
<1>1. CASE Quiet
  BY <1>0, <1>1 DEF Quiet, MediaTypes, ClaimsFilled
<1>2. ASSUME NEW u \in UploadIds, completeUpload(u) PROVE MediaTypes'
  <2>1. entries' \in [EntryIds -> EntryRow]
    BY <1>2, ReplacedRow
  <2>2. mediaJobs' \in [JobIds -> JobRow]
    BY <1>0, <1>2, ReplacedJobs
  <2> QED BY <1>0, <1>2, <2>1, <2>2 DEF completeUpload, MediaTypes, ClaimsFilled
<1>16. ASSUME NEW u \in UploadIds, installUpload(u) PROVE MediaTypes'
  <2>1. uploads[u] \in UploadRow
    BY <1>16, NothingToDo DEF installUpload, MediaTypes
  <2>2. /\ uploads[u].content \in Contents
        /\ storageKey(uploads[u].location, uploads[u].entry, uploads[u].content) \in Keys
    BY <2>1, PlacesHold, OriginalKeys DEF UploadRow
  <2>3. files' \subseteq [key : Keys, content : Contents]
    BY <1>16, <2>2, PutTypes DEF installUpload, MediaTypes
  <2> QED BY <1>0, <1>16, <2>3 DEF installUpload, rowVars, workVars, MediaTypes, ClaimsFilled
<1>3. ASSUME NEW e \in EntryIds, Asked(e) PROVE MediaTypes'
  <2>1. entries' \in [EntryIds -> EntryRow]
    BY <1>3, Marking DEF Asked, MediaTypes
  <2>2. mediaJobs' \in [JobIds -> JobRow]
    BY <1>3 DEF Asked, MediaTypes
  <2> QED BY <1>0, <1>3, <2>1, <2>2 DEF Asked, MediaTypes, ClaimsFilled
<1>4. ASSUME NEW e \in EntryIds, remove(e) \/ lapseMigration(e) PROVE MediaTypes'
  <2>1. entries' \in [EntryIds -> EntryRow]
    <3>1. PICK row \in EntryRow : entries' = [entries EXCEPT ![e] = row]
      <4>1. \/ entries' = [entries EXCEPT ![e] = [entries[e] EXCEPT !.state = "deleted"]]
            \/ entries' = [entries EXCEPT ![e] = [entries[e] EXCEPT !.lapsed = TRUE]]
        BY <1>4 DEF remove, lapseMigration
      <4>2. /\ [entries[e] EXCEPT !.state = "deleted"] \in EntryRow
            /\ [entries[e] EXCEPT !.lapsed = TRUE] \in EntryRow
        BY <1>0, EntryEdits
      <4> QED BY <4>1, <4>2
    <3> QED BY <3>1 DEF MediaTypes
  <2> QED BY <1>0, <1>4, <2>1 DEF remove, lapseMigration, workVars, MediaTypes, ClaimsFilled
<1>5. CASE deploy
  <2>1. entries' \in [EntryIds -> EntryRow]
    BY <1>0, <1>5, EntryEdits DEF deploy
  <2>2. mediaJobs' \in [JobIds -> JobRow]
    <3>1. \A j \in JobIds : mediaJobs'[j] \in {[mediaJobs[j] EXCEPT !.older = TRUE],
                                               [mediaJobs[j] EXCEPT !.older = FALSE]}
      BY <1>5 DEF deploy
    <3>2. ASSUME NEW j \in JobIds PROVE mediaJobs'[j] \in JobRow
      <4>1. /\ [mediaJobs[j] EXCEPT !.older = TRUE] \in JobRow
            /\ [mediaJobs[j] EXCEPT !.older = FALSE] \in JobRow
        BY <1>0, JobEdits
      <4> QED BY <3>1, <4>1
    <3> QED BY <1>5, <3>2 DEF deploy
  <2> QED BY <1>0, <1>5, <2>1, <2>2 DEF deploy, MediaTypes, ClaimsFilled
<1>6. ASSUME NEW w \in MediaWorkers, Taken(w) PROVE MediaTypes'
  <2>1. PICK j \in JobIds, job \in JobRow :
           take(w, j, job) /\ job.entry \in EntryIds /\ UNCHANGED <<gallery, files>>
    BY <1>6 DEF Taken
  <2>2. CASE ~isExpected(job)
    <3>1. mediaJobs' \in [JobIds -> JobRow] /\ UNCHANGED <<entries, mediaWorkers>>
      BY <2>1, <2>2, RowsRest DEF take, MediaTypes
    <3> QED BY <1>0, <2>1, <3>1 DEF MediaTypes, ClaimsFilled
  <2>3. CASE isExpected(job) /\ attemptsOf(job) > STORAGE_JOB_MAX_ATTEMPTS
    <3>1. mediaJobs' \in [JobIds -> JobRow] /\ UNCHANGED mediaWorkers
      <4> DEFINE new == [job EXCEPT !.status = "failed", !.lapsed = FALSE, !.older = FALSE]
      <4>1. new \in JobRow
        BY JobEdits
      <4>2. mediaJobs' = [mediaJobs EXCEPT ![j] = new] /\ UNCHANGED mediaWorkers
        BY <2>1, <2>3 DEF take
      <4> HIDE DEF new
      <4> QED BY <4>1, <4>2 DEF MediaTypes
    <3>2. entries' \in [EntryIds -> EntryRow]
      <4> DEFINE row == [entries[job.entry] EXCEPT !.thumbnailState = "failed"]
      <4>1. entries' = entries \/ entries' = [entries EXCEPT ![job.entry] = row]
        BY <2>1, <2>3 DEF take
      <4>2. row \in EntryRow
        BY <1>0, <2>1, EntryEdits
      <4> HIDE DEF row
      <4> QED BY <2>1, <4>1, <4>2 DEF MediaTypes
    <3> QED BY <1>0, <2>1, <3>1, <3>2 DEF MediaTypes, ClaimsFilled
  <2>4. CASE isExpected(job) /\ ~(attemptsOf(job) > STORAGE_JOB_MAX_ATTEMPTS)
    <3> DEFINE claim == claimOf(j, job)
               new == [job EXCEPT !.status = "processing", !.attempts = attemptsOf(job),
                                  !.lapsed = FALSE, !.older = FALSE]
    <3>1. /\ mediaJobs' = [mediaJobs EXCEPT ![j] = new] /\ goesOn(w, claim)
          /\ entries' = markThumbnailPendingIfNeeded(entries, job.entry)
      BY <2>1, <2>4 DEF take, goesOn
    <3>2. new \in JobRow
      BY JobEdits
    <3>3. claim \in WorkerRow /\ Filled(claim)
      BY <2>1, ClaimType
    <3> HIDE DEF claim, new
    <3>4. mediaWorkers' \in [MediaWorkers -> WorkerRow] /\ ClaimsFilled'
      BY <3>1, <3>3, WorkerTypes
    <3>5. mediaJobs' \in [JobIds -> JobRow] /\ entries' \in [EntryIds -> EntryRow]
      BY <2>1, <3>1, <3>2, Marking DEF MediaTypes
    <3> QED BY <1>0, <2>1, <3>4, <3>5 DEF MediaTypes
  <2> QED BY <2>2, <2>3, <2>4
<1>7. ASSUME NEW w \in MediaWorkers, renewMediaProcessing(w) PROVE MediaTypes'
  <2>1. mediaJobs' \in [JobIds -> JobRow]
    BY <1>0, <1>7, JobEdits DEF renewMediaProcessing, MediaTypes
  <2> QED BY <1>0, <1>7, <2>1 DEF renewMediaProcessing, rowVars, MediaTypes, ClaimsFilled
<1>8. ASSUME NEW w \in MediaWorkers, Works(w) PROVE MediaTypes'
  <2>1. /\ \E claim \in WorkerRow : goesOn(w, claim) /\ Filled(claim)
        /\ UNCHANGED <<gallery, entries, mediaJobs>>
        /\ files' \subseteq [key : Keys, content : Contents]
    BY <1>8, WorksOn
  <2>2. mediaWorkers' \in [MediaWorkers -> WorkerRow] /\ ClaimsFilled'
    BY <2>1, WorkerTypes
  <2> QED BY <1>0, <2>1, <2>2 DEF MediaTypes
<1>11. ASSUME NEW w \in MediaWorkers, completeMediaProcessing(w) PROVE MediaTypes'
  <2> DEFINE claim == mediaWorkers[w]
             job == mediaJobs[claim.job]
             row == entries[claim.entry]
             new == updatedBy(claim, job, row)
  <2>1. /\ claim.job \in JobIds /\ claim.entry \in EntryIds /\ claim.location \in Places
        /\ claim.result \in Contents
    BY <1>11 DEF completeMediaProcessing, JobsInv, ClaimsFit, ClaimFits, MediaTypes, ClaimsFilled,
           Filled
  <2>2. new \in EntryRow
    BY <1>0, <2>1, UpdatedType
  <2>3. entries' \in [EntryIds -> EntryRow]
    <3>1. entries' \in {entries, [entries EXCEPT ![claim.entry] = new]}
      BY <1>11 DEF completeMediaProcessing
    <3> HIDE DEF new
    <3> QED BY <2>1, <2>2, <3>1 DEF MediaTypes
  <2>4. mediaJobs' \in [JobIds -> JobRow]
    <3>1. mediaJobs' = [mediaJobs EXCEPT ![claim.job] = requeued(job)]
          \/ mediaJobs' = [mediaJobs EXCEPT ![claim.job] = NoJob]
      BY <1>11 DEF completeMediaProcessing
    <3>2. requeued(job) \in JobRow
      BY <1>0, <2>1, JobEdits
    <3> QED BY <2>1, <3>1, <3>2, RowsRest DEF MediaTypes
  <2>5. mediaWorkers' \in [MediaWorkers -> WorkerRow] /\ ClaimsFilled'
    BY <1>11, RestTypes DEF completeMediaProcessing
  <2> QED BY <1>0, <1>11, <2>3, <2>4, <2>5 DEF completeMediaProcessing, MediaTypes
<1>12. ASSUME NEW w \in MediaWorkers, failMediaProcessing(w) PROVE MediaTypes'
  <2> DEFINE j == mediaWorkers[w].job
             job == mediaJobs[j]
  <2>1. j \in JobIds
    BY <1>12 DEF failMediaProcessing, JobsInv, ClaimsFit, ClaimFits
  <2>2. mediaJobs' \in [JobIds -> JobRow]
    <3>1. UNCHANGED mediaJobs \/ \E s \in {"failed", "queued"} :
             mediaJobs' = [mediaJobs EXCEPT ![j] = [job EXCEPT !.status = s, !.lapsed = FALSE]]
      BY <1>12, <2>1 DEF failMediaProcessing, MediaTypes
    <3>2. \A s \in {"failed", "queued"} : [job EXCEPT !.status = s, !.lapsed = FALSE] \in JobRow
      BY <1>0, <2>1, JobEdits
    <3>3. \E new \in JobRow : UNCHANGED mediaJobs \/ mediaJobs' = [mediaJobs EXCEPT ![j] = new]
      BY <1>0, <2>1, <3>1, <3>2
    <3> QED BY <2>1, <3>3 DEF MediaTypes
  <2>3. entries' \in [EntryIds -> EntryRow]
    <3> DEFINE row == [entries[job.entry] EXCEPT !.thumbnailState = "failed"]
    <3>1. entries' = entries \/ entries' = [entries EXCEPT ![job.entry] = row]
      BY <1>12 DEF failMediaProcessing, marked
    <3>2. job.status # "none" => job.entry \in EntryIds
      BY <1>0, <2>1 DEF JobsAreOfEntries
    <3>3. job.status = "none" => entries' = entries
      BY <1>12 DEF failMediaProcessing
    <3>4. job.entry \in EntryIds => row \in EntryRow
      BY <1>0, EntryEdits
    <3> HIDE DEF row, job
    <3> QED BY <3>1, <3>2, <3>3, <3>4 DEF MediaTypes
  <2>4. mediaWorkers' \in [MediaWorkers -> WorkerRow] /\ ClaimsFilled'
    BY <1>12, RestTypes DEF failMediaProcessing
  <2> QED BY <1>0, <1>12, <2>2, <2>3, <2>4 DEF failMediaProcessing, MediaTypes
<1>13. ASSUME NEW w \in MediaWorkers, workerStops(w) PROVE MediaTypes'
  BY <1>0, <1>13, RestTypes DEF workerStops, rowVars, MediaTypes
<1>14. ASSUME NEW j \in JobIds, lapse(j) PROVE MediaTypes'
  <2>1. mediaJobs' \in [JobIds -> JobRow]
    BY <1>0, <1>14, JobEdits DEF lapse, MediaTypes
  <2> QED BY <1>0, <1>14, <2>1 DEF lapse, rowVars, MediaTypes, ClaimsFilled
<1>15. ASSUME NEW w \in Movers, deleteFiles(w) PROVE MediaTypes'
  <2>1. entries' \in [EntryIds -> EntryRow]
    <3>1. \A e \in EntryIds : entries'[e] \in {entries[e], [entries[e] EXCEPT !.state = "gone"]}
      BY <1>15 DEF deleteFiles
    <3>2. ASSUME NEW e \in EntryIds PROVE entries'[e] \in EntryRow
      <4>1. entries[e] \in EntryRow /\ [entries[e] EXCEPT !.state = "gone"] \in EntryRow
        BY <1>0, EntryEdits
      <4> QED BY <3>1, <4>1
    <3> QED BY <1>15, <3>2 DEF deleteFiles
  <2>2. files' \subseteq [key : Keys, content : Contents]
    BY <1>15 DEF deleteFiles, MediaTypes
  <2> QED BY <1>0, <1>15, <2>1, <2>2 DEF deleteFiles, workVars, MediaTypes, ClaimsFilled
<1> QED BY <1>0, <1>1, <1>2, <1>3, <1>4, <1>5, <1>6, <1>7, <1>8, <1>11, <1>12, <1>13, <1>14,
           <1>15, <1>16, Steps

(***************************************************************************)
(* The jobs keep fitting the entries                                       *)
(***************************************************************************)
LEMMA JobsInit == Init => JobsInv
<1> SUFFICES ASSUME Init PROVE JobsInv
  OBVIOUS
<1>0. \A e, k, c : /\ newJob(e, k, c).status = "queued" /\ newJob(e, k, c).entry = e
                   /\ newJob(e, k, c).key = k /\ newJob(e, k, c).content = c
  BY DEF newJob, NoJob
<1>1. JobsAreOfEntries
  <2> SUFFICES ASSUME NEW j \in JobIds
               PROVE  \/ mediaJobs[j] = NoJob
                      \/ mediaJobs[j].status # "none" /\ mediaJobs[j].entry \in EntryIds
    BY NothingToDo DEF JobsAreOfEntries
  <2> QED BY <1>0, FirstJobs
<1>2. ClaimsFit
  BY DEF Init, MediaInit, ClaimsFit, ClaimFits, Resting
<1>3. JobsFit
  <2> SUFFICES ASSUME NEW j \in JobIds, mediaJobs[j].status # "none",
                      Needs(entries, mediaJobs[j].entry)
               PROVE  Expects(entries, mediaJobs[j])
    BY DEF JobsFit, JobFits
  <2>1. PICK e \in EntryIds : mediaJobs[j] = newJob(e, entries[e].key, entries[e].content)
    BY FirstJobs DEF NoJob
  <2> QED BY <1>0, <2>1 DEF Expects, Needs
<1>4. ASSUME NEW e \in EntryIds, entries[e].thumbnailState = "pending"
      PROVE  e \notin budget.processed /\ Needs(entries, e)
  <2>1. entries[e] = entryAt(gallery.location, e, budget.kinds[e], e \in budget.processed)
    BY FirstEntries
  <2>2. e \notin budget.processed /\ budget.kinds[e] \in {"image", "video"}
    BY <1>4, <2>1, MediaAssumption DEF entryAt
  <2> QED BY <2>1, <2>2 DEF entryAt, Needs, visual
<1>5. PendingNeeds
  BY <1>4 DEF PendingNeeds
<1>6. PendingServed
  <2> SUFFICES ASSUME NEW e \in EntryIds, ReadyEntry(e), entries[e].thumbnailState = "pending"
               PROVE  \E j \in JobIds : /\ mediaJobs[j].status \in {"queued", "processing"}
                                        /\ mediaJobs[j].entry = e /\ isExpected(mediaJobs[j])
    BY DEF PendingServed
  <2> DEFINE j == jobFor[e]
  <2>1. j \in JobIds /\ \A x \in EntryIds : jobFor[x] = j => x = e
    BY OwnJobs DEF IsInjective
  <2>2. mediaJobs[j] = newJob(e, entries[e].key, entries[e].content)
    BY <1>4, <2>1, FirstJobs
  <2> QED BY <1>0, <2>1, <2>2 DEF isExpected
<1> QED BY <1>1, <1>2, <1>3, <1>5, <1>6 DEF JobsInv

RowsKeep == \A e \in EntryIds :
    entries'[e].state = "ready" =>
        /\ ReadyEntry(e) /\ entries'[e].mediaKind = entries[e].mediaKind
        /\ entries'[e].key = entries[e].key /\ entries'[e].content = entries[e].content
        /\ entries'[e].thumbnail = entries[e].thumbnail
        /\ entries'[e].thumbnailState = "pending" => entries[e].thumbnailState = "pending"

JobsKeep == \A j \in JobIds :
    LET job == mediaJobs[j]
        new == mediaJobs'[j]
    IN  IF job.status = "none" THEN new = job
        ELSE /\ new.status # "none" /\ new.entry = job.entry /\ new.key = job.key
             /\ new.content = job.content
             /\ job.removal => new.removal
             /\ job.status \in {"queued", "processing"} =>
                   \/ new.status \in {"queued", "processing"}
                   \/ ~isExpected(job)
                   \/ entries'[job.entry].thumbnailState # "pending"

ClaimKept(w) ==
    LET claim == mediaWorkers[w]
        new == mediaWorkers'[w]
    IN  \/ new = claim \/ new = Resting
        \/ /\ Busy(w) /\ new.at # "idle" /\ new.job = claim.job /\ new.entry = claim.entry
           /\ new.key = claim.key /\ new.content = claim.content
           /\ new.thumbnail = claim.thumbnail /\ new.removal = claim.removal

\* Steps that change nothing of the kind keep the invariant.
LEMMA KeptJobs ==
    ASSUME JobsInv, RowsKeep, JobsKeep, \A w \in MediaWorkers : ClaimKept(w)
    PROVE  JobsInv'
<1>0. \A e \in EntryIds : Needs(entries', e) => Needs(entries, e)
  BY DEF RowsKeep, Needs, ReadyEntry, visual
<1>1. JobsAreOfEntries'
  BY DEF JobsInv, JobsAreOfEntries, JobsKeep
<1>2. ClaimsFit'
  <2> SUFFICES ASSUME NEW w \in MediaWorkers
               PROVE  ClaimFits(entries', mediaJobs', mediaWorkers'[w])
    BY DEF ClaimsFit
  <2>1. ClaimKept(w) /\ ClaimFits(entries, mediaJobs, mediaWorkers[w])
    BY DEF JobsInv, ClaimsFit
  <2>2. CASE mediaWorkers'[w] = Resting
    BY <2>2 DEF Resting, ClaimFits
  <2>3. CASE mediaWorkers'[w] # Resting
    <3>1. Busy(w) /\ mediaWorkers'[w].at # "idle"
      BY <2>1, <2>3 DEF ClaimKept, ClaimFits, Busy
    <3>2. mediaWorkers[w].job \in JobIds /\ mediaWorkers[w].entry \in EntryIds
      BY <2>1, <3>1 DEF ClaimFits, Busy
    <3> QED BY <1>0, <2>1, <2>3, <3>1, <3>2 DEF ClaimKept, JobsKeep, ClaimFits, Busy
  <2> QED BY <2>2, <2>3
<1>3. JobsFit'
  <2> SUFFICES ASSUME NEW j \in JobIds, mediaJobs'[j].status # "none",
                      Needs(entries', mediaJobs'[j].entry)
               PROVE  Expects(entries', mediaJobs'[j])
    BY DEF JobsFit, JobFits
  <2>1. mediaJobs[j].status # "none" /\ mediaJobs[j].entry \in EntryIds
    BY DEF JobsKeep, JobsInv, JobsAreOfEntries
  <2>2. Needs(entries, mediaJobs[j].entry) /\ mediaJobs'[j].entry = mediaJobs[j].entry
    BY <1>0, <2>1 DEF JobsKeep
  <2>3. Expects(entries, mediaJobs[j])
    BY <2>1, <2>2 DEF JobsInv, JobsFit, JobFits
  <2>4. /\ mediaJobs'[j].key = mediaJobs[j].key
        /\ mediaJobs'[j].content = mediaJobs[j].content
    BY <2>1 DEF JobsKeep
  <2> QED BY <2>1, <2>2, <2>3, <2>4 DEF Expects, RowsKeep, Needs
<1>4. PendingNeeds'
  BY <1>0 DEF JobsInv, PendingNeeds, RowsKeep, Needs, ReadyEntry, visual
<1>5. PendingServed'
  <2> SUFFICES ASSUME NEW e \in EntryIds, entries'[e].state = "ready",
                      entries'[e].thumbnailState = "pending"
               PROVE  \E j \in JobIds : /\ mediaJobs'[j].status \in {"queued", "processing"}
                                        /\ mediaJobs'[j].entry = e
                                        /\ Expects(entries', mediaJobs'[j])
    BY DEF PendingServed, ReadyEntry, isExpected, Expects
  <2>1. PICK j \in JobIds : /\ mediaJobs[j].status \in {"queued", "processing"}
                            /\ mediaJobs[j].entry = e /\ isExpected(mediaJobs[j])
    BY DEF RowsKeep, JobsInv, PendingServed
  <2>2. /\ mediaJobs'[j].status \in {"queued", "processing"} /\ mediaJobs'[j].entry = e
        /\ mediaJobs'[j].key = mediaJobs[j].key /\ mediaJobs'[j].content = mediaJobs[j].content
    BY <2>1 DEF JobsKeep
  <2> QED BY <2>1, <2>2 DEF isExpected, Expects, RowsKeep, ReadyEntry
<1> QED BY <1>1, <1>2, <1>3, <1>4, <1>5 DEF JobsInv

\* The conjuncts of the invariant after a step, by entry, job and worker.
LEMMA JobsAfter ==
    ASSUME \A j \in JobIds : \/ mediaJobs'[j] = NoJob
                             \/ mediaJobs'[j].status # "none" /\ mediaJobs'[j].entry \in EntryIds,
           \A w \in MediaWorkers : ClaimFits(entries', mediaJobs', mediaWorkers'[w]),
           \A j \in JobIds : JobFits(entries', mediaJobs'[j]),
           \A e \in EntryIds :
               entries'[e].state = "ready" /\ entries'[e].thumbnailState = "pending" =>
                   /\ Needs(entries', e)
                   /\ \E j \in JobIds : /\ mediaJobs'[j].status \in {"queued", "processing"}
                                        /\ mediaJobs'[j].entry = e
                                        /\ Expects(entries', mediaJobs'[j])
    PROVE  JobsInv'
<1>1. JobsAreOfEntries'
  BY NothingToDo DEF JobsAreOfEntries
<1>2. ClaimsFit' /\ JobsFit'
  BY DEF ClaimsFit, JobsFit
<1>3. PendingNeeds' /\ PendingServed'
  BY DEF PendingNeeds, PendingServed, ReadyEntry, isExpected, Expects
<1> QED BY <1>1, <1>2, <1>3 DEF JobsInv

\* What the invariant says now.
LEMMA JobsNow ==
    ASSUME JobsInv
    PROVE  /\ \A j \in JobIds : \/ mediaJobs[j] = NoJob
                                \/ mediaJobs[j].status # "none" /\ mediaJobs[j].entry \in EntryIds
           /\ \A w \in MediaWorkers : ClaimFits(entries, mediaJobs, mediaWorkers[w])
           /\ \A j \in JobIds : JobFits(entries, mediaJobs[j])
           /\ \A e \in EntryIds :
                 entries[e].state = "ready" /\ entries[e].thumbnailState = "pending" =>
                     /\ Needs(entries, e)
                     /\ \E j \in JobIds : /\ mediaJobs[j].status \in {"queued", "processing"}
                                          /\ mediaJobs[j].entry = e
                                          /\ Expects(entries, mediaJobs[j])
           /\ NoJob.status = "none" /\ Resting.at = "idle"
BY NothingToDo DEF JobsInv, JobsAreOfEntries, ClaimsFit, JobsFit, PendingNeeds, PendingServed,
       ReadyEntry, isExpected, Expects

\* Marking changes nothing that a job is compared with.
LEMMA Marks ==
    ASSUME MediaTypes, NEW e \in EntryIds,
           entries' = markThumbnailPendingIfNeeded(entries, e), ReadyEntry(e)
    PROVE  /\ \A x \in EntryIds :
                 /\ entries'[x].state = entries[x].state
                 /\ entries'[x].mediaKind = entries[x].mediaKind
                 /\ entries'[x].key = entries[x].key
                 /\ entries'[x].content = entries[x].content
                 /\ entries'[x].thumbnail = entries[x].thumbnail
           /\ \A x \in EntryIds \ {e} : entries'[x].thumbnailState = entries[x].thumbnailState
           /\ entries'[e].thumbnailState = IF Needs(entries, e) THEN "pending"
                                           ELSE entries[e].thumbnailState
BY DEF MediaTypes, EntryRow, markThumbnailPendingIfNeeded, Needs, ReadyEntry

LEMMA AskedJobs ==
    ASSUME MediaTypes, JobsInv, NEW e \in EntryIds, Asked(e)
    PROVE  JobsInv'
<1>1. /\ \A x \in EntryIds :
            /\ entries'[x].state = entries[x].state
            /\ entries'[x].mediaKind = entries[x].mediaKind
            /\ entries'[x].key = entries[x].key
            /\ entries'[x].content = entries[x].content
            /\ entries'[x].thumbnail = entries[x].thumbnail
      /\ \A x \in EntryIds \ {e} : entries'[x].thumbnailState = entries[x].thumbnailState
      /\ entries'[e].thumbnailState = IF Needs(entries, e) THEN "pending"
                                      ELSE entries[e].thumbnailState
  BY Marks DEF Asked
<1>2. \A x \in EntryIds : Needs(entries', x) <=> Needs(entries, x)
  BY <1>1 DEF Needs, visual
<1>3. \A job : job.entry \in EntryIds => (Expects(entries', job) <=> Expects(entries, job))
  BY <1>1 DEF Expects
<1>4. \A x \in EntryIds :
         entries'[x].state = "ready" /\ entries'[x].thumbnailState = "pending" =>
             Needs(entries', x)
  BY <1>1, <1>2, JobsNow
<1>5. CASE UNCHANGED mediaJobs /\ \E j \in jobsOf(e) : mediaJobs[j].status \in {"queued", "processing"}
  <2>1. PICK j \in JobIds : mediaJobs[j].entry = e /\ mediaJobs[j].status \in {"queued", "processing"}
    BY <1>5 DEF jobsOf
  <2>2. Needs(entries, e) => Expects(entries, mediaJobs[j])
    BY <2>1, JobsNow DEF JobFits
  <2>3. \A w \in MediaWorkers : ClaimFits(entries', mediaJobs', mediaWorkers'[w])
    BY <1>2, <1>5, JobsNow DEF ClaimFits, Asked
  <2>4. \A i \in JobIds : JobFits(entries', mediaJobs'[i])
    BY <1>2, <1>3, <1>5, JobsNow DEF JobFits
  <2>5. \A x \in EntryIds : entries'[x].state = "ready" /\ entries'[x].thumbnailState = "pending" =>
           \E i \in JobIds : /\ mediaJobs'[i].status \in {"queued", "processing"}
                             /\ mediaJobs'[i].entry = x /\ Expects(entries', mediaJobs'[i])
    <3> SUFFICES ASSUME NEW x \in EntryIds, entries'[x].state = "ready",
                        entries'[x].thumbnailState = "pending"
                 PROVE  \E i \in JobIds : /\ mediaJobs[i].status \in {"queued", "processing"}
                                          /\ mediaJobs[i].entry = x
                                          /\ Expects(entries, mediaJobs[i])
      BY <1>3, <1>5
    <3>1. CASE x = e
      BY <1>2, <1>4, <2>1, <2>2, <3>1
    <3>2. CASE x # e
      BY <1>1, <3>2, JobsNow
    <3> QED BY <3>1, <3>2
  <2> QED BY <1>4, <1>5, <2>3, <2>4, <2>5, JobsAfter, JobsNow
<1>6. ASSUME NEW j \in JobIds, NEW job \in JobRow, mediaJobs' = [mediaJobs EXCEPT ![j] = job],
             job.status \in {"queued", "processing"}, job.entry = e,
             \/ /\ j \in unused /\ job.key = entries[e].key
                /\ job.content = entries[e].content
             \/ /\ j \in jobsOf(e) /\ mediaJobs[j].status # "none"
                /\ job.key = mediaJobs[j].key /\ job.content = mediaJobs[j].content
                /\ mediaJobs[j].removal => job.removal
      PROVE  JobsInv'
  <2>1. mediaJobs'[j] = job /\ \A i \in JobIds \ {j} : mediaJobs'[i] = mediaJobs[i]
    BY <1>6 DEF MediaTypes
  <2>2. Needs(entries, e) => Expects(entries, job)
    <3>1. CASE j \in unused
      <4>1. job.key = entries[e].key /\ job.content = entries[e].content
        BY <1>6, <3>1 DEF unused, withStatus
      <4> QED BY <1>6, <4>1 DEF Expects, Needs
    <3>2. CASE j \in jobsOf(e) /\ mediaJobs[j].status # "none"
      <4>1. mediaJobs[j].entry = e /\ job.key = mediaJobs[j].key /\ job.content = mediaJobs[j].content
        BY <1>6, <3>2 DEF jobsOf, unused, withStatus
      <4>2. Needs(entries, e) => Expects(entries, mediaJobs[j])
        BY <3>2, <4>1, JobsNow DEF JobFits
      <4> QED BY <1>6, <4>1, <4>2 DEF Expects
    <3> QED BY <1>6, <3>1, <3>2
  <2>3. \A w \in MediaWorkers : ClaimFits(entries', mediaJobs', mediaWorkers'[w])
    <3> SUFFICES ASSUME NEW w \in MediaWorkers
                 PROVE  ClaimFits(entries', mediaJobs', mediaWorkers[w])
      BY <1>6 DEF Asked
    <3>0. ClaimFits(entries, mediaJobs, mediaWorkers[w])
      BY JobsNow
    <3>1. CASE mediaWorkers[w].at = "idle"
      BY <3>0, <3>1 DEF ClaimFits
    <3>2. CASE mediaWorkers[w].at # "idle" /\ mediaWorkers[w].job # j
      BY <1>2, <2>1, <3>0, <3>2 DEF ClaimFits
    <3>3. CASE mediaWorkers[w].at # "idle" /\ mediaWorkers[w].job = j
      <4>1. j \notin unused
        BY <3>3 DEF unused, abandoned
      <4>2. /\ mediaJobs[j].status # "none" /\ mediaJobs[j].entry = e
            /\ job.key = mediaJobs[j].key /\ job.content = mediaJobs[j].content
            /\ mediaJobs[j].removal => job.removal
        BY <1>6, <4>1 DEF jobsOf
      <4> QED BY <1>2, <1>6, <2>1, <3>0, <3>3, <4>2 DEF ClaimFits
    <3> QED BY <3>1, <3>2, <3>3
  <2>4. \A i \in JobIds : JobFits(entries', mediaJobs'[i])
    <3>1. JobFits(entries', job)
      BY <1>2, <1>3, <1>6, <2>2 DEF JobFits
    <3>2. ASSUME NEW i \in JobIds \ {j} PROVE JobFits(entries', mediaJobs[i])
      BY <1>2, <1>3, JobsNow DEF JobFits
    <3> QED BY <2>1, <3>1, <3>2
  <2>5. \A x \in EntryIds : entries'[x].state = "ready" /\ entries'[x].thumbnailState = "pending" =>
           \E i \in JobIds : /\ mediaJobs'[i].status \in {"queued", "processing"}
                             /\ mediaJobs'[i].entry = x /\ Expects(entries', mediaJobs'[i])
    <3> SUFFICES ASSUME NEW x \in EntryIds, entries'[x].state = "ready",
                        entries'[x].thumbnailState = "pending"
                 PROVE  \E i \in JobIds : /\ mediaJobs'[i].status \in {"queued", "processing"}
                                          /\ mediaJobs'[i].entry = x
                                          /\ Expects(entries', mediaJobs'[i])
      OBVIOUS
    <3>1. CASE x = e
      BY <1>2, <1>3, <1>4, <1>6, <2>1, <2>2, <3>1
    <3>2. CASE x # e
      <4>1. PICK i \in JobIds : /\ mediaJobs[i].status \in {"queued", "processing"}
                                /\ mediaJobs[i].entry = x /\ Expects(entries, mediaJobs[i])
        BY <1>1, <3>2, JobsNow
      <4>2. i # j
        BY <1>6, <3>2, <4>1 DEF unused, withStatus, jobsOf
      <4> QED BY <1>3, <2>1, <4>1, <4>2
    <3> QED BY <3>1, <3>2
  <2>6. \A i \in JobIds : \/ mediaJobs'[i] = NoJob
                          \/ mediaJobs'[i].status # "none" /\ mediaJobs'[i].entry \in EntryIds
    BY <1>6, <2>1, JobsNow
  <2> QED BY <1>4, <2>3, <2>4, <2>5, <2>6, JobsAfter
<1> QED BY <1>5, <1>6 DEF Asked

\* A step that drops, gives up or claims one job.
LEMMA TakenJobs ==
    ASSUME MediaTypes, JobsInv, NEW w \in MediaWorkers, Taken(w)
    PROVE  JobsInv'
<1>1. PICK j \in JobIds, job \in JobRow :
         /\ take(w, j, job) /\ job.status # "none" /\ job.entry \in EntryIds
         /\ \/ job = mediaJobs[j]
            \/ j \in unused /\ job = newJob(job.entry, entries[job.entry].key,
                                            entries[job.entry].content)
  BY DEF Taken
<1> DEFINE e == job.entry
           Others == \A i \in JobIds \ {j} : mediaJobs'[i] = mediaJobs[i]
<1>2. \/ job = mediaJobs[j]
      \/ /\ j \in unused /\ mediaJobs[j].status = "none" /\ mediaJobs[j] = NoJob
         /\ abandoned(j)
  BY <1>1, JobsNow DEF unused, withStatus
<1>3. \A i \in JobIds : /\ mediaJobs[i].status \in {"queued", "processing"}
                        /\ \/ mediaJobs[i].entry # e
                           \/ ~isExpected(job) /\ Expects(entries, mediaJobs[i])
                        => i # j
  BY <1>1, <1>2 DEF isExpected, Expects, ReadyEntry
<1>4. CASE ~isExpected(job)
  <2>1. mediaJobs'[j] = NoJob /\ Others /\ UNCHANGED <<entries, mediaWorkers>>
    BY <1>1, <1>4 DEF take, MediaTypes
  <2>2. \A u \in MediaWorkers : ClaimFits(entries', mediaJobs', mediaWorkers'[u])
    BY <2>1, JobsNow DEF ClaimFits
  <2>3. \A i \in JobIds : JobFits(entries', mediaJobs'[i])
    BY <2>1, JobsNow DEF JobFits
  <2>4. \A x \in EntryIds : entries'[x].state = "ready" /\ entries'[x].thumbnailState = "pending" =>
           /\ Needs(entries', x)
           /\ \E i \in JobIds : /\ mediaJobs'[i].status \in {"queued", "processing"}
                                /\ mediaJobs'[i].entry = x /\ Expects(entries', mediaJobs'[i])
    BY <1>3, <1>4, <2>1, JobsNow
  <2> QED BY <2>1, <2>2, <2>3, <2>4, JobsAfter, JobsNow
<1>5. ASSUME isExpected(job), NEW new, mediaJobs'[j] = new, Others, new.status # "none",
             new.entry = e, new.key = job.key, new.content = job.content,
             job.removal => new.removal,
             \A x \in EntryIds :
                 /\ entries'[x].state = entries[x].state
                 /\ entries'[x].mediaKind = entries[x].mediaKind
                 /\ entries'[x].key = entries[x].key
                 /\ entries'[x].content = entries[x].content
                 /\ entries'[x].thumbnail = entries[x].thumbnail,
             \A x \in EntryIds \ {e} : entries'[x].thumbnailState = entries[x].thumbnailState,
             entries'[e].thumbnailState = "pending" =>
                 Needs(entries, e) /\ new.status \in {"queued", "processing"},
             \A u \in MediaWorkers : \/ mediaWorkers'[u] = mediaWorkers[u]
                                     \/ ClaimFits(entries', mediaJobs', mediaWorkers'[u])
      PROVE  JobsInv'
  <2>1. \A x \in EntryIds : Needs(entries', x) <=> Needs(entries, x)
    BY <1>5 DEF Needs, visual
  <2>2. \A row : row.entry \in EntryIds => (Expects(entries', row) <=> Expects(entries, row))
    BY <1>5 DEF Expects
  <2>3. Expects(entries', new)
    BY <1>1, <1>5 DEF Expects, isExpected, ReadyEntry
  <2>4. \A u \in MediaWorkers : ClaimFits(entries', mediaJobs', mediaWorkers'[u])
    <3> SUFFICES ASSUME NEW u \in MediaWorkers, mediaWorkers'[u] = mediaWorkers[u]
                 PROVE  ClaimFits(entries', mediaJobs', mediaWorkers[u])
      BY <1>5
    <3>0. ClaimFits(entries, mediaJobs, mediaWorkers[u])
      BY JobsNow
    <3>1. CASE mediaWorkers[u].at = "idle"
      BY <3>0, <3>1 DEF ClaimFits
    <3>2. CASE mediaWorkers[u].at # "idle" /\ mediaWorkers[u].job # j
      BY <1>5, <2>1, <3>0, <3>2 DEF ClaimFits
    <3>3. CASE mediaWorkers[u].at # "idle" /\ mediaWorkers[u].job = j
      <4>1. job = mediaJobs[j]
        BY <1>2, <3>3 DEF abandoned
      <4> HIDE DEF e
      <4> QED BY <1>1, <1>5, <2>1, <3>0, <3>3, <4>1 DEF ClaimFits, e
    <3> QED BY <3>1, <3>2, <3>3
  <2>5. \A i \in JobIds : JobFits(entries', mediaJobs'[i])
    <3>1. \A i \in JobIds \ {j} : JobFits(entries', mediaJobs[i])
      BY <2>1, <2>2, JobsNow DEF JobFits
    <3>2. JobFits(entries', new)
      BY <2>3 DEF JobFits
    <3> QED BY <1>5, <3>1, <3>2
  <2>6. ASSUME NEW x \in EntryIds, entries'[x].state = "ready",
               entries'[x].thumbnailState = "pending"
        PROVE  /\ Needs(entries', x)
               /\ \E i \in JobIds : /\ mediaJobs'[i].status \in {"queued", "processing"}
                                    /\ mediaJobs'[i].entry = x /\ Expects(entries', mediaJobs'[i])
    <3>1. CASE x = e
      BY <1>5, <2>1, <2>3, <2>6, <3>1
    <3>2. CASE x # e
      <4>1. /\ Needs(entries, x)
            /\ \E i \in JobIds : /\ mediaJobs[i].status \in {"queued", "processing"}
                                 /\ mediaJobs[i].entry = x /\ Expects(entries, mediaJobs[i])
        BY <1>5, <2>6, <3>2, JobsNow
      <4>2. PICK i \in JobIds : /\ mediaJobs[i].status \in {"queued", "processing"}
                                /\ mediaJobs[i].entry = x /\ Expects(entries, mediaJobs[i])
        BY <4>1
      <4>3. i # j /\ mediaJobs'[i] = mediaJobs[i]
        BY <1>3, <1>5, <3>2, <4>2
      <4> QED BY <2>1, <2>2, <4>1, <4>2, <4>3
    <3> QED BY <3>1, <3>2
  <2>7. \A i \in JobIds : \/ mediaJobs'[i] = NoJob
                          \/ mediaJobs'[i].status # "none" /\ mediaJobs'[i].entry \in EntryIds
    BY <1>1, <1>5, JobsNow
  <2> QED BY <2>4, <2>5, <2>6, <2>7, JobsAfter
<1>6. CASE isExpected(job) /\ attemptsOf(job) > STORAGE_JOB_MAX_ATTEMPTS
  <2> DEFINE new == [job EXCEPT !.status = "failed", !.lapsed = FALSE, !.older = FALSE]
  <2>1. mediaJobs' = [mediaJobs EXCEPT ![j] = new] /\ UNCHANGED mediaWorkers
    BY <1>1, <1>6 DEF take
  <2>2. /\ new.status = "failed" /\ new.entry = e /\ new.key = job.key
        /\ new.content = job.content /\ new.removal = job.removal
    BY DEF JobRow
  <2>3. mediaJobs'[j] = new /\ Others
    BY <2>1 DEF MediaTypes
  <2>4. entries' = IF Needs(entries, e) THEN [entries EXCEPT ![e].thumbnailState = "failed"]
                   ELSE entries
    BY <1>1, <1>6 DEF take, Needs, isExpected, ReadyEntry
  <2>5. /\ \A x \in EntryIds :
              /\ entries'[x].state = entries[x].state
              /\ entries'[x].mediaKind = entries[x].mediaKind
              /\ entries'[x].key = entries[x].key
              /\ entries'[x].content = entries[x].content
              /\ entries'[x].thumbnail = entries[x].thumbnail
        /\ \A x \in EntryIds \ {e} : entries'[x].thumbnailState = entries[x].thumbnailState
        /\ entries'[e].thumbnailState = IF Needs(entries, e) THEN "failed"
                                        ELSE entries[e].thumbnailState
    BY <1>1, <2>4 DEF MediaTypes, EntryRow
  <2>6. entries'[e].thumbnailState # "pending"
    BY <1>1, <1>6, <2>5, JobsNow DEF isExpected, ReadyEntry
  <2> HIDE DEF new
  <2> QED BY <1>5, <1>6, <2>1, <2>2, <2>3, <2>5, <2>6
<1>7. CASE isExpected(job) /\ ~(attemptsOf(job) > STORAGE_JOB_MAX_ATTEMPTS)
  <2> DEFINE new == [job EXCEPT !.status = "processing", !.attempts = attemptsOf(job),
                                !.lapsed = FALSE, !.older = FALSE]
             claim == claimOf(j, job)
  <2>1. /\ mediaJobs' = [mediaJobs EXCEPT ![j] = new]
        /\ mediaWorkers' = [mediaWorkers EXCEPT ![w] = claim]
        /\ entries' = markThumbnailPendingIfNeeded(entries, e)
    BY <1>1, <1>7 DEF take
  <2>2. /\ new.status = "processing" /\ new.entry = e /\ new.key = job.key
        /\ new.content = job.content /\ new.removal = job.removal
    BY DEF JobRow
  <2>3. mediaJobs'[j] = new /\ Others
    BY <2>1 DEF MediaTypes
  <2>4. /\ \A x \in EntryIds :
              /\ entries'[x].state = entries[x].state
              /\ entries'[x].mediaKind = entries[x].mediaKind
              /\ entries'[x].key = entries[x].key
              /\ entries'[x].content = entries[x].content
              /\ entries'[x].thumbnail = entries[x].thumbnail
        /\ \A x \in EntryIds \ {e} : entries'[x].thumbnailState = entries[x].thumbnailState
        /\ entries'[e].thumbnailState = IF Needs(entries, e) THEN "pending"
                                        ELSE entries[e].thumbnailState
    BY <1>1, <1>7, <2>1, Marks DEF isExpected
  <2>5. entries'[e].thumbnailState = "pending" => Needs(entries, e)
    BY <1>1, <1>7, <2>4, JobsNow DEF isExpected, ReadyEntry
  <2>6. /\ claim.at = "claimed" /\ claim.job = j /\ claim.entry = e
        /\ claim.key = entries[e].key /\ claim.content = entries[e].content
        /\ visual(entries[e]) /\ entries[e].thumbnail = <<>> => claim.thumbnail
        /\ claim.removal = job.removal
    <3>1. j \in JobIds /\ job \in JobRow /\ e \in EntryIds
      BY <1>1
    <3> QED BY <3>1, ClaimType
  <2>7. entries[e].key = job.key /\ entries[e].content = job.content
    BY <1>7 DEF isExpected
  <2> HIDE DEF new, claim
  <2>8. ClaimFits(entries', mediaJobs', claim)
    BY <1>1, <2>2, <2>3, <2>4, <2>6, <2>7 DEF ClaimFits, Needs, visual
  <2>9. \A u \in MediaWorkers : mediaWorkers'[u] = IF u = w THEN claim ELSE mediaWorkers[u]
    BY <2>1 DEF MediaTypes
  <2> QED BY <1>5, <1>7, <2>2, <2>3, <2>4, <2>5, <2>8, <2>9
<1> QED BY <1>4, <1>6, <1>7

LEMMA ReplacingJobs ==
    ASSUME MediaTypes, JobsInv, NEW u \in UploadIds, completeUpload(u)
    PROVE  JobsInv'
<1> DEFINE e == uploads[u].entry
           c == uploads[u].content
           k == storageKey(uploads[u].location, e, c)
<1>1. /\ \A x \in EntryIds \ {e} : entries'[x] = entries[x]
      /\ e \in EntryIds /\ entries'[e].key = k /\ entries'[e].content = c
      /\ entries'[e].state = "ready" /\ entries'[e].mediaKind = entries[e].mediaKind
      /\ entries'[e].thumbnailState = "pending" =>
            visual(entries[e]) /\ entries'[e].thumbnail = <<>>
  <2>1. None # "pending"
    BY MediaAssumption
  <2> QED BY <2>1, ReplacedRow
<1> HIDE DEF e, c, k
<1>2. PICK fresh \in SUBSET JobIds :
         /\ \A j \in fresh : /\ mediaJobs'[j].status = "queued" /\ mediaJobs'[j].entry = e
                             /\ Expects(entries', mediaJobs'[j]) /\ abandoned(j)
                             /\ mediaJobs[j].status # "none" => mediaJobs[j].entry = e
         /\ \A j \in JobIds \ fresh :
               mediaJobs'[j] = IF mediaJobs[j].entry = e THEN NoJob ELSE mediaJobs[j]
         /\ fresh = {} => entries'[e].thumbnail # <<>>
  <2>0. /\ \A x \in jobsOf(e) : mediaJobs[x].entry = e
        /\ \A x \in JobIds \ jobsOf(e) : mediaJobs[x].entry # e
    BY DEF jobsOf
  <2>1. CASE /\ entries'[e].thumbnail # <<>>
             /\ \A x \in JobIds : mediaJobs'[x] = IF x \in jobsOf(e) THEN NoJob ELSE mediaJobs[x]
    <3> WITNESS {} \in SUBSET JobIds
    <3> QED BY <2>0, <2>1
  <2>2. ASSUME NEW j \in JobIds, j \in jobsOf(e) \/ mediaJobs[j] = NoJob, abandoned(j),
               NEW new \in JobRow, new.status = "queued", new.entry = e,
               new.key = k, new.content = c,
               mediaJobs'[j] = new,
               \A x \in JobIds \ {j} : mediaJobs'[x] = IF x \in jobsOf(e) THEN NoJob
                                                        ELSE mediaJobs[x]
        PROVE  \E fresh \in SUBSET JobIds :
                 /\ \A i \in fresh : /\ mediaJobs'[i].status = "queued" /\ mediaJobs'[i].entry = e
                                     /\ Expects(entries', mediaJobs'[i]) /\ abandoned(i)
                                     /\ mediaJobs[i].status # "none" => mediaJobs[i].entry = e
                 /\ \A i \in JobIds \ fresh :
                       mediaJobs'[i] = IF mediaJobs[i].entry = e THEN NoJob ELSE mediaJobs[i]
                 /\ fresh = {} => entries'[e].thumbnail # <<>>
    <3>1. Expects(entries', new)
      BY <1>1, <2>2 DEF Expects
    <3> WITNESS {j} \in SUBSET JobIds
    <3> QED BY <2>0, <2>2, <3>1, NothingToDo
  <2>3. JobsAreOfEntries
    BY DEF JobsInv
  <2> QED BY <2>1, <2>2, <2>3, ReplacedJobs DEF e, c, k
<1>3. \A w \in MediaWorkers : ClaimFits(entries', mediaJobs', mediaWorkers'[w])
  <2> SUFFICES ASSUME NEW w \in MediaWorkers
               PROVE  ClaimFits(entries', mediaJobs', mediaWorkers[w])
    BY DEF completeUpload
  <2> DEFINE claim == mediaWorkers[w]
             j == claim.job
  <2>1. ClaimFits(entries, mediaJobs, claim)
    BY JobsNow
  <2>2. CASE claim.at # "idle"
    <3>1. j \in JobIds /\ j \notin fresh
      BY <1>2, <2>1, <2>2 DEF ClaimFits, abandoned
    <3>2. CASE mediaJobs[j].entry = e
      BY <1>2, <2>1, <2>2, <3>1, <3>2, NothingToDo DEF ClaimFits
    <3>3. CASE mediaJobs[j].entry # e
      <4>1. mediaJobs'[j] = mediaJobs[j]
        BY <1>2, <3>1, <3>3
      <4>2. mediaJobs[j].status # "none" => entries'[claim.entry] = entries[claim.entry]
        BY <1>1, <2>1, <2>2, <3>3 DEF ClaimFits
      <4> QED BY <2>1, <2>2, <4>1, <4>2 DEF ClaimFits, Needs
    <3> QED BY <3>2, <3>3
  <2> QED BY <2>1, <2>2 DEF ClaimFits
<1>4. ASSUME NEW j \in JobIds PROVE JobFits(entries', mediaJobs'[j])
  <2>1. CASE j \in fresh
    BY <1>2, <2>1 DEF JobFits
  <2>2. CASE j \notin fresh /\ mediaJobs[j].entry # e /\ mediaJobs[j].status # "none"
    <3>1. mediaJobs'[j] = mediaJobs[j] /\ entries'[mediaJobs[j].entry] = entries[mediaJobs[j].entry]
      BY <1>1, <1>2, <2>2, JobsNow
    <3> QED BY <3>1, JobsNow DEF JobFits, Needs, Expects
  <2>3. CASE j \notin fresh /\ (mediaJobs[j].entry = e \/ mediaJobs[j].status = "none")
    BY <1>2, <2>3, NothingToDo DEF JobFits
  <2> QED BY <2>1, <2>2, <2>3
<1>5. ASSUME NEW x \in EntryIds, entries'[x].state = "ready",
             entries'[x].thumbnailState = "pending"
      PROVE  /\ Needs(entries', x)
             /\ \E i \in JobIds : /\ mediaJobs'[i].status \in {"queued", "processing"}
                                  /\ mediaJobs'[i].entry = x /\ Expects(entries', mediaJobs'[i])
  <2>1. CASE x = e
    BY <1>1, <1>2, <1>5, <2>1 DEF Needs, visual
  <2>2. CASE x # e
    <3>1. /\ Needs(entries, x)
          /\ \E i \in JobIds : /\ mediaJobs[i].status \in {"queued", "processing"}
                               /\ mediaJobs[i].entry = x /\ Expects(entries, mediaJobs[i])
      BY <1>1, <1>5, <2>2, JobsNow
    <3>2. PICK i \in JobIds : /\ mediaJobs[i].status \in {"queued", "processing"}
                              /\ mediaJobs[i].entry = x /\ Expects(entries, mediaJobs[i])
      BY <3>1
    <3>3. mediaJobs'[i] = mediaJobs[i]
      BY <1>2, <2>2, <3>2
    <3> QED BY <1>1, <2>2, <3>1, <3>2, <3>3 DEF Needs, Expects
  <2> QED BY <2>1, <2>2
<1>6. \A j \in JobIds : \/ mediaJobs'[j] = NoJob
                        \/ mediaJobs'[j].status # "none" /\ mediaJobs'[j].entry \in EntryIds
  BY <1>1, <1>2, JobsNow
<1> QED BY <1>3, <1>4, <1>5, <1>6, JobsAfter

LEMMA CompletedJobs ==
    ASSUME MediaTypes, JobsInv, NEW w \in MediaWorkers, completeMediaProcessing(w)
    PROVE  JobsInv'
<1> DEFINE claim == mediaWorkers[w]
           j == claim.job
           job == mediaJobs[j]
           e == claim.entry
           row == entries[e]
           new == updatedBy(claim, job, row)
           expected == job.status # "none" /\ isExpected(job)
           after == mediaJobs'[j]
<1>1. /\ claim.at = "derived" /\ ClaimFits(entries, mediaJobs, claim)
      /\ claim.location \in Places /\ claim.result \in Contents
  BY JobsNow DEF completeMediaProcessing, MediaTypes, ClaimsFilled, Filled
<1>2. j \in JobIds /\ e \in EntryIds /\ job \in JobRow /\ row \in EntryRow /\ claim \in WorkerRow
  BY <1>1 DEF ClaimFits, MediaTypes
<1>3. /\ mediaWorkers' = [mediaWorkers EXCEPT ![w] = Resting]
      /\ \/ mediaJobs' = [mediaJobs EXCEPT ![j] = NoJob]
         \/ expected /\ mediaJobs' = [mediaJobs EXCEPT ![j] = requeued(job)]
      /\ entries' = IF expected THEN [entries EXCEPT ![e] = new] ELSE entries
  BY DEF completeMediaProcessing, goesOn
<1>4. \A u \in MediaWorkers : mediaWorkers'[u] = IF u = w THEN Resting ELSE mediaWorkers[u]
  BY <1>3 DEF MediaTypes
<1>5. /\ \A i \in JobIds \ {j} : mediaJobs'[i] = mediaJobs[i]
      /\ \/ after = NoJob
         \/ /\ expected /\ after.status = "queued" /\ after.entry = job.entry
            /\ after.key = job.key /\ after.content = job.content /\ after.removal = job.removal
  <2>1. /\ requeued(job).status = "queued" /\ requeued(job).entry = job.entry
        /\ requeued(job).key = job.key /\ requeued(job).content = job.content
        /\ requeued(job).removal = job.removal
    BY <1>2 DEF requeued, JobRow
  <2> HIDE DEF expected, j, job
  <2> QED BY <1>2, <1>3, <2>1 DEF MediaTypes
<1>6. ASSUME expected
      PROVE  /\ job.entry = e
             /\ ~Needs(entries', e)
             /\ entries'[e].state = "ready" => entries'[e].thumbnailState # "pending"
             /\ \A x \in EntryIds \ {e} : entries'[x] = entries[x]
  <2>1. job.entry = e /\ (Needs(entries, e) => claim.thumbnail)
    BY <1>1, <1>6 DEF ClaimFits
  <2>2. /\ new.state = row.state /\ new.mediaKind = row.mediaKind
        /\ new.thumbnail = IF claim.thumbnail
                           THEN derivativeKey("thumbnail", claim.location, claim.result)
                           ELSE row.thumbnail
        /\ new.thumbnailState = IF claim.thumbnail THEN None ELSE row.thumbnailState
    BY <1>1, <1>2, UpdatedType
  <2>3. derivativeKey("thumbnail", claim.location, claim.result) # <<>>
    BY <1>1, DerivativeKeys
  <2>4. entries'[e] = new /\ \A x \in EntryIds \ {e} : entries'[x] = entries[x]
    <3> HIDE DEF new, expected
    <3> QED BY <1>2, <1>3, <1>6 DEF MediaTypes
  <2> HIDE DEF new
  <2>5. ~Needs(entries', e)
    BY <2>1, <2>2, <2>3, <2>4 DEF Needs, visual
  <2>6. new.state = "ready" => new.thumbnailState # "pending"
    <3>1. None # "pending"
      BY MediaAssumption
    <3>2. row.state = "ready" /\ row.thumbnailState = "pending" => Needs(entries, e)
      BY <1>2, JobsNow
    <3> QED BY <2>1, <2>2, <3>1, <3>2
  <2> QED BY <2>1, <2>4, <2>5, <2>6
<1>7. ~expected => entries' = entries /\ after = NoJob
  BY <1>3, <1>5
<1>8. \A x \in EntryIds : ~(expected /\ x = e) => entries'[x] = entries[x]
  BY <1>6, <1>7
<1>9. \A x \in EntryIds : Needs(entries', x) => Needs(entries, x) /\ entries'[x] = entries[x]
  BY <1>6, <1>8 DEF Needs
<1> HIDE DEF new, expected, after
<1>10. ASSUME NEW u \in MediaWorkers
       PROVE  ClaimFits(entries', mediaJobs', mediaWorkers'[u])
  <2>1. CASE u = w
    BY <1>4, <2>1, NothingToDo DEF ClaimFits
  <2>2. CASE u # w /\ mediaWorkers[u].at # "idle"
    <3>1. mediaWorkers'[u] = mediaWorkers[u] /\ ClaimFits(entries, mediaJobs, mediaWorkers[u])
      BY <1>4, <2>2, JobsNow
    <3>2. CASE mediaWorkers[u].job # j
      BY <1>5, <1>9, <2>2, <3>1, <3>2 DEF ClaimFits
    <3>3. CASE mediaWorkers[u].job = j
      BY <1>5, <1>9, <2>2, <3>1, <3>3, NothingToDo DEF ClaimFits, after, expected
    <3> QED BY <3>2, <3>3
  <2>3. CASE u # w /\ mediaWorkers[u].at = "idle"
    BY <1>4, <2>3, JobsNow DEF ClaimFits
  <2> QED BY <2>1, <2>2, <2>3
<1>11. ASSUME NEW i \in JobIds PROVE JobFits(entries', mediaJobs'[i])
  <2>1. CASE i = j
    BY <1>5, <1>6, <2>1, NothingToDo DEF JobFits, after
  <2>2. CASE i # j /\ mediaJobs[i].status # "none"
    <3>1. mediaJobs'[i] = mediaJobs[i] /\ mediaJobs[i].entry \in EntryIds
      BY <1>5, <2>2, JobsNow
    <3> QED BY <1>9, <3>1, JobsNow DEF JobFits, Expects
  <2>3. CASE i # j /\ mediaJobs[i].status = "none"
    BY <1>5, <2>3 DEF JobFits
  <2> QED BY <2>1, <2>2, <2>3
<1>12. ASSUME NEW x \in EntryIds, entries'[x].state = "ready",
              entries'[x].thumbnailState = "pending"
       PROVE  /\ Needs(entries', x)
              /\ \E i \in JobIds : /\ mediaJobs'[i].status \in {"queued", "processing"}
                                   /\ mediaJobs'[i].entry = x /\ Expects(entries', mediaJobs'[i])
  <2>1. ~(expected /\ x = e) /\ entries'[x] = entries[x]
    BY <1>6, <1>8, <1>12
  <2>2. /\ Needs(entries, x)
        /\ \E i \in JobIds : /\ mediaJobs[i].status \in {"queued", "processing"}
                             /\ mediaJobs[i].entry = x /\ Expects(entries, mediaJobs[i])
    BY <1>12, <2>1, JobsNow
  <2>3. PICK i \in JobIds : /\ mediaJobs[i].status \in {"queued", "processing"}
                            /\ mediaJobs[i].entry = x /\ Expects(entries, mediaJobs[i])
    BY <2>2
  <2>4. i # j
    <3>1. CASE expected
      BY <1>6, <2>1, <2>3, <3>1
    <3>2. CASE ~expected
      BY <2>3, <3>2 DEF expected, Expects, isExpected, ReadyEntry
    <3> QED BY <3>1, <3>2
  <2> QED BY <1>5, <2>1, <2>2, <2>3, <2>4 DEF Needs, Expects
<1>13. \A i \in JobIds : \/ mediaJobs'[i] = NoJob
                         \/ mediaJobs'[i].status # "none" /\ mediaJobs'[i].entry \in EntryIds
  BY <1>2, <1>5, <1>6, JobsNow DEF after
<1> QED BY <1>10, <1>11, <1>12, <1>13, JobsAfter

\* The same when nothing but a worker goes on.
LEMMA SameRows ==
    ASSUME UNCHANGED <<entries, mediaJobs>>
    PROVE  RowsKeep /\ JobsKeep
BY DEF RowsKeep, JobsKeep, ReadyEntry

\* A deletion and a lapsed move leave the rest of an entry as it is.
LEMMA FieldsKept ==
    ASSUME NEW row \in EntryRow,
           NEW new \in {row, [row EXCEPT !.lapsed = TRUE], [row EXCEPT !.state = "deleted"]}
    PROVE  /\ new.mediaKind = row.mediaKind /\ new.key = row.key
           /\ new.content = row.content /\ new.thumbnail = row.thumbnail
           /\ new.thumbnailState = row.thumbnailState
           /\ new.state = "ready" => row.state = "ready"
BY DEF EntryRow

LEMMA NeverOlder ==
    ASSUME NEW job \in JobRow, job.older = FALSE
    PROVE  [job EXCEPT !.older = FALSE] = job
BY DEF JobRow

LEMMA JobsStep ==
    ASSUME MigrationIds = {}, MediaTypes, JobsInv, [Next]_vars
    PROVE  JobsInv'
<1>0. /\ \A e \in EntryIds : entries[e] \in EntryRow
      /\ \A j \in JobIds : mediaJobs[j] \in JobRow
      /\ \A w \in MediaWorkers : mediaWorkers[w] \in WorkerRow
      /\ JobsAreOfEntries
  BY DEF MediaTypes, JobsInv
<1>1. ASSUME UNCHANGED mediaWorkers, RowsKeep, JobsKeep PROVE JobsInv'
  <2>1. \A w \in MediaWorkers : ClaimKept(w)
    BY <1>1 DEF ClaimKept
  <2> QED BY <1>1, <2>1, KeptJobs
<1>2. ASSUME NEW w \in MediaWorkers, NEW claim, goesOn(w, claim), RowsKeep, JobsKeep,
             \/ claim = Resting
             \/ /\ Busy(w) /\ claim.at # "idle" /\ claim.job = mediaWorkers[w].job
                /\ claim.entry = mediaWorkers[w].entry /\ claim.key = mediaWorkers[w].key
                /\ claim.content = mediaWorkers[w].content
                /\ claim.thumbnail = mediaWorkers[w].thumbnail
                /\ claim.removal = mediaWorkers[w].removal
      PROVE  JobsInv'
  <2>1. \A u \in MediaWorkers : mediaWorkers'[u] = IF u = w THEN claim ELSE mediaWorkers[u]
    BY <1>2 DEF goesOn, MediaTypes
  <2>2. \A u \in MediaWorkers : ClaimKept(u)
    BY <1>2, <2>1 DEF ClaimKept
  <2> QED BY <1>2, <2>2, KeptJobs
<1>3. UNCHANGED <<entries, mediaJobs>> => RowsKeep /\ JobsKeep
  BY SameRows
<1>4. UNCHANGED mediaJobs => JobsKeep
  BY DEF JobsKeep
<1>5. UNCHANGED entries => RowsKeep
  BY DEF RowsKeep, ReadyEntry
<1>6. CASE Quiet
  BY <1>1, <1>3, <1>6 DEF Quiet
<1>7. ASSUME NEW e \in EntryIds, remove(e) \/ lapseMigration(e) PROVE JobsInv'
  <2>1. RowsKeep
    <3>1. \A x \in EntryIds : \/ entries'[x] = entries[x]
                            \/ entries'[x] = [entries[x] EXCEPT !.state = "deleted"]
                            \/ entries'[x] = [entries[x] EXCEPT !.lapsed = TRUE]
      BY <1>7 DEF remove, lapseMigration, MediaTypes
    <3>2. ASSUME NEW x \in EntryIds
          PROVE  LET row == entries[x]  new == entries'[x] IN
                 /\ new.mediaKind = row.mediaKind /\ new.key = row.key
                 /\ new.content = row.content /\ new.thumbnail = row.thumbnail
                 /\ new.thumbnailState = row.thumbnailState
                 /\ new.state = "ready" => row.state = "ready"
      <4>1. entries[x] \in EntryRow
        BY <1>0
      <4>2. entries'[x] \in {entries[x], [entries[x] EXCEPT !.lapsed = TRUE],
                             [entries[x] EXCEPT !.state = "deleted"]}
        BY <3>1
      <4> QED BY <4>1, <4>2, FieldsKept
    <3> QED BY <3>2 DEF RowsKeep, ReadyEntry
  <2> QED BY <1>1, <1>4, <1>7, <2>1 DEF remove, lapseMigration, workVars
<1>8. CASE deploy
  <2>1. RowsKeep
    BY <1>0, <1>8 DEF deploy, RowsKeep, EntryRow, ReadyEntry
  <2>2. JobsKeep
    <3> SUFFICES ASSUME NEW j \in JobIds
                 PROVE  IF mediaJobs[j].status = "none" THEN mediaJobs'[j] = mediaJobs[j]
                        ELSE /\ mediaJobs'[j].status = mediaJobs[j].status
                             /\ mediaJobs'[j].entry = mediaJobs[j].entry
                             /\ mediaJobs'[j].key = mediaJobs[j].key
                             /\ mediaJobs'[j].content = mediaJobs[j].content
                             /\ mediaJobs'[j].removal = mediaJobs[j].removal
      BY DEF JobsKeep
    <3>1. CASE mediaJobs[j].status = "none"
      <4>1. mediaJobs[j] = NoJob
        BY <3>1, JobsNow
      <4>2. mediaJobs'[j] = [mediaJobs[j] EXCEPT !.older = FALSE]
        BY <1>8, <3>1 DEF deploy
      <4>3. NoJob \in JobRow /\ NoJob.older = FALSE
        BY RowsRest DEF NoJob
      <4> QED BY <4>1, <4>2, <4>3, NeverOlder
    <3>2. CASE mediaJobs[j].status # "none"
      <4>1. mediaJobs'[j] = [mediaJobs[j] EXCEPT !.older = TRUE]
        BY <1>8, <3>2 DEF deploy
      <4> QED BY <1>0, <3>2, <4>1 DEF JobRow
    <3> QED BY <3>1, <3>2
  <2> QED BY <1>1, <1>8, <2>1, <2>2 DEF deploy
<1>9. ASSUME NEW j \in JobIds, NEW lapsed, mediaJobs[j].status = "processing",
             mediaJobs' = [mediaJobs EXCEPT ![j].lapsed = lapsed],
             UNCHANGED <<entries, mediaWorkers>>
      PROVE  JobsInv'
  <2>1. JobsKeep
    BY <1>0, <1>9 DEF JobsKeep, MediaTypes, JobRow
  <2> QED BY <1>1, <1>5, <1>9, <2>1
<1>10. ASSUME NEW w \in MediaWorkers, renewMediaProcessing(w) PROVE JobsInv'
  <2>1. mediaWorkers[w].job \in JobIds
    BY <1>0, <1>10 DEF renewMediaProcessing, WorkerRow
  <2> QED BY <1>9, <1>10, <2>1 DEF renewMediaProcessing, StaleJob, rowVars
<1>11. ASSUME NEW w \in MediaWorkers, Works(w) PROVE JobsInv'
  <2>1. /\ \E claim \in WorkerRow :
              goesOn(w, claim) /\ SameWork(mediaWorkers[w], claim) /\ claim.at # "idle"
        /\ Busy(w) /\ UNCHANGED <<entries, mediaJobs>>
    BY <1>11, WorksOn DEF Busy
  <2> QED BY <1>2, <1>3, <2>1 DEF SameWork
<1>12. ASSUME NEW u \in UploadIds, installUpload(u) PROVE JobsInv'
  BY <1>1, <1>3, <1>12 DEF installUpload, rowVars, workVars
<1>14. ASSUME NEW w \in MediaWorkers, workerStops(w) PROVE JobsInv'
  BY <1>2, <1>3, <1>14 DEF workerStops, rowVars
<1>15. ASSUME NEW w \in MediaWorkers, failMediaProcessing(w) PROVE JobsInv'
  <2> DEFINE j == mediaWorkers[w].job
             job == mediaJobs[j]
             out == job.attempts >= STORAGE_JOB_MAX_ATTEMPTS
             new == [job EXCEPT !.status = IF out THEN "failed" ELSE "queued", !.lapsed = FALSE]
  <2>1. goesOn(w, Resting) /\ j \in JobIds
    BY <1>15, JobsNow DEF failMediaProcessing, ClaimFits
  <2>2. CASE job.status = "none"
    BY <1>2, <1>3, <1>15, <2>1, <2>2 DEF failMediaProcessing
  <2>3. CASE job.status # "none"
    <3>1. /\ mediaJobs' = [mediaJobs EXCEPT ![j] = new]
          /\ entries' = IF out THEN marked(entries, job) ELSE entries
      BY <1>15, <2>1, <2>3 DEF failMediaProcessing, MediaTypes
    <3>2. job.entry \in EntryIds
      BY <2>1, <2>3, JobsNow, NothingToDo
    <3>3. /\ new.status = (IF out THEN "failed" ELSE "queued") /\ new.entry = job.entry
          /\ new.key = job.key /\ new.content = job.content /\ new.removal = job.removal
      BY <1>0, <2>1 DEF JobRow
    <3>4. entries' = entries \/ entries' = [entries EXCEPT ![job.entry].thumbnailState = "failed"]
      BY <3>1 DEF marked
    <3>5. RowsKeep
      BY <1>0, <3>2, <3>4 DEF RowsKeep, MediaTypes, EntryRow, ReadyEntry
    <3>6. out /\ isExpected(job) => entries'[job.entry].thumbnailState # "pending"
      <4>1. CASE Needs(entries, job.entry)
        <5>1. out /\ isExpected(job)
              => entries' = [entries EXCEPT ![job.entry].thumbnailState = "failed"]
          BY <3>1, <4>1 DEF marked, Needs
        <5> QED BY <1>0, <3>2, <5>1 DEF MediaTypes, EntryRow
      <4>2. CASE ~Needs(entries, job.entry)
        BY <3>1, <3>2, <4>2, JobsNow DEF marked, Needs, isExpected, ReadyEntry
      <4> QED BY <4>1, <4>2
    <3>7. mediaJobs'[j] = new /\ \A i \in JobIds \ {j} : mediaJobs'[i] = mediaJobs[i]
      <4> HIDE DEF new
      <4> QED BY <2>1, <3>1 DEF MediaTypes
    <3> HIDE DEF new, out
    <3>8. JobsKeep
      BY <2>3, <3>3, <3>6, <3>7 DEF JobsKeep
    <3> QED BY <1>2, <2>1, <3>5, <3>8
  <2> QED BY <2>2, <2>3
<1>16. ASSUME NEW w \in Movers, deleteFiles(w) PROVE JobsInv'
  <2>1. \A e \in EntryIds : entries'[e] \in {entries[e], [entries[e] EXCEPT !.state = "gone"]}
    BY <1>16 DEF deleteFiles
  <2>2. RowsKeep
    BY <1>0, <2>1 DEF RowsKeep, EntryRow, ReadyEntry
  <2> QED BY <1>1, <1>4, <1>16, <2>2 DEF deleteFiles, workVars
<1>17. ASSUME NEW j \in JobIds, lapse(j) PROVE JobsInv'
  BY <1>9, <1>17 DEF lapse, rowVars
<1> QED BY <1>0, <1>6, <1>7, <1>8, <1>10, <1>11, <1>12, <1>14, <1>15, <1>16, <1>17,
           AskedJobs, TakenJobs, ReplacingJobs, CompletedJobs, Steps

\* A thumbnail that a viewer is told to wait for has a job that will be accepted, in a
\* gallery that is not migrated, for any number of images, jobs, workers and attempts
\* (storageJobs.ts:283): whatever uploads, removals, requests, releases, lapsed claims and
\* crashes come between.
THEOREM PendingIsServed == MigrationIds = {} /\ Spec => []PendingHasJob
<1> SUFFICES ASSUME MigrationIds = {} PROVE Spec => []PendingHasJob
  OBVIOUS
<1>1. Init => MediaTypes /\ JobsInv
  BY TypesInit, JobsInit
<1>2. MediaTypes /\ JobsInv /\ [Next]_vars => (MediaTypes /\ JobsInv)'
  BY TypesStep, JobsStep
<1>3. JobsInv => PendingHasJob
  BY DEF JobsInv, PendingServed, PendingHasJob
<1> QED BY <1>1, <1>2, <1>3, PTL DEF Spec

(***************************************************************************)
(* Shared files keep the content that their keys name                      *)
(***************************************************************************)
LEMMA SharedPlaces ==
    ASSUME SharedOnly, NEW l \in Locations
    PROVE  l \in Places /\ l.kind = "shared" /\ [l EXCEPT !.kind = "shared"] = l
<1>1. l \in [kind : {"shared", "user"}, root : {l.root}] /\ l.kind = "shared"
  BY MediaAssumption DEF SharedOnly
<1>2. l \in Places
  BY PlacesHold
<1> QED BY <1>1, <1>2

LEMMA Removals ==
    ASSUME NEW c \in Contents
    PROVE  /\ WithoutLocation[c] \in Contents
           /\ WithoutLocation[WithoutLocation[c]] = WithoutLocation[c]
           /\ same(c, c) /\ same(c, WithoutLocation[c]) /\ same(WithoutLocation[c], c)
BY MediaAssumption DEF same

LEMMA ContentInit ==
    ASSUME SharedOnly, Init
    PROVE  ContentInv
<1>1. \A e \in EntryIds :
         LET row == entries[e]
         IN  /\ row.content \in Contents /\ row.storageKind = "shared"
             /\ row.metadata \in {None, row.content} /\ row.preview = <<>>
             /\ row.key # <<>> /\ row.key[4] = row.content
             /\ row.thumbnail # <<>> => row.thumbnail[4] = row.content
  <2> SUFFICES ASSUME NEW e \in EntryIds
               PROVE  LET row == entries[e]
                      IN  /\ row.content \in Contents /\ row.storageKind = "shared"
                          /\ row.metadata \in {None, row.content} /\ row.preview = <<>>
                          /\ row.key # <<>> /\ row.key[4] = row.content
                          /\ row.thumbnail # <<>> => row.thumbnail[4] = row.content
    OBVIOUS
  <2> DEFINE l == gallery.location
             kind == budget.kinds[e]
             row == entryAt(l, e, kind, e \in budget.processed)
  <2>1. /\ entries[e] = row /\ l \in Places /\ l.kind = "shared" /\ l \in Locations
        /\ kind \in {"image", "video", "audio"} /\ FirstContent[e] \in Contents
    BY FirstEntries, SharedPlaces, MediaAssumption
  <2>2. /\ row.content = FirstContent[e] /\ row.key = storageKey(l, e, row.content)
        /\ row.thumbnail = IF e \in budget.processed /\ kind \in {"image", "video"}
                           THEN derivativeKey("thumbnail", l, row.content) ELSE <<>>
    BY <2>1, EntryAtType
  <2>3. /\ row.storageKind = l.kind /\ row.preview = <<>>
        /\ row.metadata \in {None, row.content}
    BY DEF entryAt
  <2> HIDE DEF l, kind, row
  <2>4. /\ storageKey(l, e, row.content) # <<>> /\ storageKey(l, e, row.content)[4] = row.content
        /\ derivativeKey("thumbnail", l, row.content)[4] = row.content
    BY <2>1, <2>2, OriginalKeys, DerivativeKeys
  <2> QED BY <2>1, <2>2, <2>3, <2>4
<1>2. EntriesFit
  BY <1>1, Removals DEF EntriesFit, RowFits
<1>3. NamedByContent
  <2>1. files = {[key |-> entries[e].key, content |-> entries[e].content] : e \in EntryIds}
                \cup {[key |-> entries[e].thumbnail, content |-> entries[e].content] :
                         e \in {e \in EntryIds : entries[e].thumbnail # <<>>}}
    BY DEF Init, MediaInit
  <2>2. \A file \in files : \E e \in EntryIds :
            /\ file.content = entries[e].content
            /\ \/ file.key = entries[e].key
               \/ file.key = entries[e].thumbnail /\ file.key # <<>>
    BY <2>1
  <2> QED BY <1>1, <2>2 DEF NamedByContent
<1>4. WorkersFit
  BY NothingToDo DEF Init, MediaInit, WorkersFit, WorkFits
<1> QED BY <1>2, <1>3, <1>4 DEF ContentInv

\* Steps that leave what entries name, take files away, and stop workers.
NamesKept == \A e \in EntryIds :
    LET row == entries[e]
        new == entries'[e]
    IN  /\ new.storageKind = row.storageKind /\ new.key = row.key /\ new.content = row.content
        /\ new.metadata = row.metadata /\ new.thumbnail = row.thumbnail
        /\ new.preview = row.preview

LEMMA ContentsKept ==
    ASSUME ContentInv
    PROVE  /\ NamesKept => EntriesFit'
           /\ files' \subseteq files => NamedByContent'
           /\ (\A w \in MediaWorkers : mediaWorkers'[w] \in {mediaWorkers[w], Resting}) => WorkersFit'
<1>1. ASSUME NamesKept PROVE EntriesFit'
  <2> SUFFICES ASSUME NEW e \in EntryIds PROVE RowFits(entries[e])'
    BY DEF EntriesFit
  <2>1. RowFits(entries[e])
    BY DEF ContentInv, EntriesFit
  <2> QED BY <1>1, <2>1 DEF NamesKept, RowFits
<1>2. files' \subseteq files => NamedByContent'
  BY DEF ContentInv, NamedByContent
<1>3. ASSUME \A w \in MediaWorkers : mediaWorkers'[w] \in {mediaWorkers[w], Resting}
      PROVE  WorkersFit'
  <2> SUFFICES ASSUME NEW w \in MediaWorkers PROVE WorkFits(mediaWorkers'[w])
    BY DEF WorkersFit
  <2>1. WorkFits(mediaWorkers[w]) /\ WorkFits(Resting)
    BY NothingToDo DEF ContentInv, WorkersFit, WorkFits
  <2> QED BY <1>3, <2>1
<1> QED BY <1>1, <1>2, <1>3

LEMMA NameEdits ==
    ASSUME NEW row \in EntryRow,
           NEW new, \/ new = row \/ new = [row EXCEPT !.state = "deleted"]
                    \/ new = [row EXCEPT !.state = "gone"] \/ new = [row EXCEPT !.lapsed = TRUE]
                    \/ new = [row EXCEPT !.version = FALSE]
                    \/ new = [row EXCEPT !.thumbnailState = "pending"]
                    \/ new = [row EXCEPT !.thumbnailState = "failed"]
    PROVE  /\ new.storageKind = row.storageKind /\ new.key = row.key /\ new.content = row.content
           /\ new.metadata = row.metadata /\ new.thumbnail = row.thumbnail
           /\ new.preview = row.preview
BY DEF EntryRow

LEMMA EditsKeepNames ==
    ASSUME MediaTypes,
           \A e \in EntryIds :
               LET row == entries[e]
                   new == entries'[e]
               IN  \/ new = row \/ new = [row EXCEPT !.state = "deleted"]
                   \/ new = [row EXCEPT !.state = "gone"] \/ new = [row EXCEPT !.lapsed = TRUE]
                   \/ new = [row EXCEPT !.version = FALSE]
                   \/ new = [row EXCEPT !.thumbnailState = "pending"]
                   \/ new = [row EXCEPT !.thumbnailState = "failed"]
    PROVE  NamesKept
<1> SUFFICES ASSUME NEW e \in EntryIds
             PROVE  LET row == entries[e]
                        new == entries'[e]
                    IN  /\ new.storageKind = row.storageKind /\ new.key = row.key
                        /\ new.content = row.content /\ new.metadata = row.metadata
                        /\ new.thumbnail = row.thumbnail /\ new.preview = row.preview
  BY DEF NamesKept
<1>1. entries[e] \in EntryRow
  BY DEF MediaTypes
<1> QED BY <1>1, NameEdits

\* A worker that goes on in the same place with the same file.
LEMMA OneWorker ==
    ASSUME MediaTypes, WorkersFit, NEW w \in MediaWorkers, NEW claim, goesOn(w, claim),
           WorkFits(claim)
    PROVE  WorkersFit'
<1>1. \A u \in MediaWorkers : mediaWorkers'[u] = IF u = w THEN claim ELSE mediaWorkers[u]
  BY DEF goesOn, MediaTypes
<1> QED BY <1>1 DEF WorkersFit

LEMMA PutNamed ==
    ASSUME NamedByContent, NEW k, NEW c, k # <<>>, k[4] = c, files' = put(files, k, c)
    PROVE  NamedByContent'
BY DEF NamedByContent, put

LEMMA StoredNamed ==
    ASSUME NamedByContent, NEW k, NEW c \in stored(k)
    PROVE  k # <<>> /\ c = k[4]
BY DEF NamedByContent, stored

LEMMA TakenContents ==
    ASSUME SharedOnly, MediaTypes, ContentInv, NEW w \in MediaWorkers, Taken(w)
    PROVE  ContentInv'
<1>1. PICK j \in JobIds, job \in JobRow :
         take(w, j, job) /\ job.entry \in EntryIds /\ UNCHANGED <<gallery, files>>
  BY DEF Taken
<1>2. NamesKept
  <2>1. entries' \in {entries, [entries EXCEPT ![job.entry].thumbnailState = "pending"],
                      [entries EXCEPT ![job.entry].thumbnailState = "failed"]}
    BY <1>1 DEF take, markThumbnailPendingIfNeeded
  <2>2. \A e \in EntryIds : \/ entries'[e] = entries[e]
                           \/ entries'[e] = [entries[e] EXCEPT !.thumbnailState = "pending"]
                           \/ entries'[e] = [entries[e] EXCEPT !.thumbnailState = "failed"]
    BY <1>1, <2>1 DEF MediaTypes
  <2> QED BY <2>2, EditsKeepNames
<1>3. WorkersFit'
  <2>1. CASE ~isExpected(job) \/ attemptsOf(job) > STORAGE_JOB_MAX_ATTEMPTS
    BY <1>1, <2>1, ContentsKept DEF take
  <2>2. CASE isExpected(job) /\ ~(attemptsOf(job) > STORAGE_JOB_MAX_ATTEMPTS)
    <3> DEFINE claim == claimOf(j, job)
               row == entries[job.entry]
    <3>1. goesOn(w, claim)
      BY <1>1, <2>2 DEF take, goesOn
    <3>2. /\ claim.at = "claimed" /\ claim.key = row.key /\ claim.content = row.content
          /\ claim.location = [gallery.location EXCEPT !.kind = row.storageKind]
          /\ claim.content \in Contents
          /\ claim.newKey = claim.key /\ claim.result = claim.content
          /\ claim.removal => claim.metadata
      BY <1>1, ClaimType DEF Filled
    <3>3. row.storageKind = "shared" /\ row.key # <<>> /\ row.key[4] = row.content
      BY <1>1 DEF ContentInv, EntriesFit, RowFits
    <3>4. claim.location \in Locations
      BY <3>2, <3>3, SharedPlaces DEF MediaTypes
    <3> HIDE DEF claim, row
    <3>5. WorkFits(claim)
      BY <3>2, <3>3, <3>4 DEF WorkFits
    <3> QED BY <3>1, <3>5, OneWorker DEF ContentInv
  <2> QED BY <2>1, <2>2
<1> QED BY <1>1, <1>2, <1>3, ContentsKept DEF ContentInv

LEMMA InstalledContents ==
    ASSUME SharedOnly, MediaTypes, ContentInv, NEW u \in UploadIds, installUpload(u)
    PROVE  ContentInv'
<1> DEFINE c == uploads[u].content
           k == storageKey(uploads[u].location, uploads[u].entry, c)
<1>1. uploads[u] \in UploadRow
  BY NothingToDo DEF installUpload, MediaTypes
<1>2. k # <<>> /\ k[4] = c
  BY <1>1, SharedPlaces, OriginalKeys DEF UploadRow
<1>3. files' = files \/ files' = put(files, k, c)
  BY DEF installUpload
<1>4. NamedByContent'
  <2> HIDE DEF c, k
  <2> QED BY <1>2, <1>3, PutNamed DEF ContentInv, NamedByContent
<1> QED BY <1>4, ContentsKept DEF installUpload, rowVars, workVars, ContentInv, EntriesFit

LEMMA ReplacedContents ==
    ASSUME SharedOnly, MediaTypes, ContentInv, NEW u \in UploadIds, completeUpload(u)
    PROVE  ContentInv'
<1> DEFINE e == uploads[u].entry
           c == uploads[u].content
           k == storageKey(uploads[u].location, e, c)
           old == entries[e]
           new == entries'[e]
           kept(x) == derivativeKept(c # old.content, x)
<1>1. /\ e \in EntryIds /\ \A x \in EntryIds \ {e} : entries'[x] = entries[x]
      /\ c \in Contents /\ uploads[u].location \in Locations
      /\ new.key = k /\ new.content = c /\ new.storageKind = gallery.location.kind
      /\ new.metadata = None /\ new.thumbnail = kept(old.thumbnail)
      /\ new.preview = kept(old.preview)
  BY ReplacedRow
<1>2. /\ k # <<>> /\ k[4] = c /\ gallery.location.kind = "shared"
  BY <1>1, SharedPlaces, OriginalKeys DEF MediaTypes
<1>3. RowFits(old)
  BY <1>1 DEF ContentInv, EntriesFit
<1>4. RowFits(new)
  <2>1. \A x \in {new.thumbnail, new.preview} \ {<<>>} : same(x[4], new.content)
    <3> HIDE DEF new, k
    <3> QED BY <1>1, <1>3 DEF RowFits, derivativeKept
  <2> HIDE DEF new, k
  <2> QED BY <1>1, <1>2, <2>1 DEF RowFits
<1>5. EntriesFit'
  BY <1>1, <1>4 DEF ContentInv, EntriesFit
<1> QED BY <1>5, ContentsKept DEF completeUpload, ContentInv, NamedByContent

\* A worker goes on, when what it has then fits.
LEMMA GoesOn ==
    ASSUME MediaTypes, ContentInv, NEW w \in MediaWorkers, NEW claim, goesOn(w, claim),
           WorkFits(claim), NamedByContent', UNCHANGED entries
    PROVE  ContentInv'
BY OneWorker DEF ContentInv, EntriesFit

\* What remains to be shown of what it has, as the work is the same.
LEMMA SameFits ==
    ASSUME NEW claim, NEW new, WorkFits(claim), claim.at # "idle", SameWork(claim, new),
           new.newKey # <<>>, new.newKey[4] = new.result,
           new.at \in {"reading", "installing"} => new.removal,
           new.at \in {"claimed", "reading"} => new.result = new.content,
           new.at \in {"installing", "thumbnail", "metadata", "preview", "checking", "derived"}
               => new.result = madeBy(claim),
           new.at \in {"preview", "checking", "derived"} /\ new.metadata =>
               new.seen = madeBy(claim)
    PROVE  WorkFits(new)
<1>1. madeBy(new) = madeBy(claim)
  BY DEF madeBy, SameWork
<1> QED BY <1>1 DEF WorkFits, SameWork

\* A worker makes of a shared file what the file's name says.
LEMMA WorkedContents ==
    ASSUME SharedOnly, MediaTypes, JobsInv, ContentInv, NEW w \in MediaWorkers, Works(w)
    PROVE  ContentInv'
<1> DEFINE claim == mediaWorkers[w]
<1>1. claim.at # "idle" /\ UNCHANGED entries
  BY WorksOn
<1>2. /\ claim \in WorkerRow /\ WorkFits(claim) /\ claim.entry \in EntryIds
      /\ claim.content \in Contents /\ claim.result \in Contents
      /\ claim.location \in Locations /\ claim.location \in Places
      /\ claim.location.kind = "shared"
      /\ claim.newKey # <<>> /\ claim.newKey[4] = claim.result
  <2>1. claim \in WorkerRow /\ WorkFits(claim)
    BY DEF MediaTypes, ContentInv, WorkersFit
  <2>2. claim.entry \in EntryIds /\ claim.result \in Contents
    BY <1>1 DEF MediaTypes, ClaimsFilled, Filled, JobsInv, ClaimsFit, ClaimFits
  <2> QED BY <1>1, <2>1, <2>2, SharedPlaces DEF WorkFits
<1>3. \A c \in stored(claim.newKey) : c = claim.result
  BY <1>2, StoredNamed DEF ContentInv
<1>4. UNCHANGED files => NamedByContent'
  BY DEF ContentInv, NamedByContent
<1>5. ASSUME NEW type \in {"thumbnail", "preview"},
             NEW c \in stored(claim.newKey),
             files' = put(files, derivativeKey(type, claim.location, claim.result), c)
      PROVE  NamedByContent'
  <2> DEFINE k == derivativeKey(type, claim.location, claim.result)
  <2>1. k # <<>> /\ k[4] = c
    BY <1>2, <1>3, DerivativeKeys
  <2> HIDE DEF k
  <2> QED BY <1>5, <2>1, PutNamed DEF ContentInv, k
<1>6. ASSUME NEW at \in stages \cup {"derived", "failing"},
             goesOn(w, [claim EXCEPT !.at = at]), NamedByContent',
             at \in {"reading", "installing"} => claim.removal,
             at \in {"claimed", "reading"} => claim.result = claim.content,
             at \in {"installing", "thumbnail", "metadata", "preview", "checking", "derived"}
                 => claim.result = madeBy(claim),
             at \in {"preview", "checking", "derived"} /\ claim.metadata =>
                 claim.seen = madeBy(claim)
      PROVE  ContentInv'
  <2> DEFINE new == [claim EXCEPT !.at = at]
  <2>1. /\ SameWork(claim, new) /\ new.at = at
        /\ new.newKey = claim.newKey /\ new.result = claim.result /\ new.seen = claim.seen
    <3> HIDE DEF claim
    <3> QED BY <1>2, WorkerEdits
  <2>2. goesOn(w, new)
    BY <1>6
  <2> HIDE DEF new, claim
  <2>3. new.removal = claim.removal /\ new.content = claim.content /\ new.metadata = claim.metadata
    BY <2>1 DEF SameWork
  <2>4. WorkFits(new)
    BY <1>1, <1>2, <1>6, <2>1, <2>3, SameFits
  <2> QED BY <1>1, <1>6, <2>2, <2>4, GoesOn
<1>7. /\ claim.at = "claimed" => /\ claim.result = claim.content
                                 /\ ~claim.removal => claim.result = madeBy(claim)
      /\ claim.at \in {"installing", "thumbnail", "metadata", "preview", "checking"} =>
            claim.result = madeBy(claim)
      /\ claim.removal => claim.metadata
  <2> HIDE DEF claim
  <2> QED BY <1>1, <1>2 DEF WorkFits, madeBy
<1>8. CASE examine(w)
  <2>1. claim.at = "claimed" /\ UNCHANGED files
    BY <1>8 DEF examine
  <2>2. CASE claim.removal
    <3>1. goesOn(w, [claim EXCEPT !.at = "reading"]) /\ "reading" \in stages
      BY <1>8, <2>2 DEF examine, stages
    <3> QED BY <1>4, <1>6, <1>7, <2>1, <2>2, <3>1
  <2>3. CASE ~claim.removal
    <3>1. PICK at \in {"thumbnail", "metadata", "preview", "checking"} :
             /\ goesOn(w, [claim EXCEPT !.at = at])
             /\ claim.metadata => at \in {"thumbnail", "metadata"}
      BY <1>8, <2>3, NextStages DEF examine
    <3>2. at \in stages
      BY DEF stages
    <3> QED BY <1>4, <1>6, <1>7, <2>1, <2>3, <3>1, <3>2
  <2> QED BY <2>2, <2>3
<1>9. CASE readImage(w)
  <2>1. PICK c \in stored(claim.key) :
           LET new == writeImageWithoutLocationData(c)
           IN  goesOn(w, [claim EXCEPT !.at = "installing", !.result = new,
                             !.newKey = storageKey(claim.location, claim.entry, new)])
    BY <1>9 DEF readImage
  <2> DEFINE result == writeImageWithoutLocationData(c)
             k == storageKey(claim.location, claim.entry, result)
             new == having(claim, result, k)
  <2>2. claim.at = "reading" /\ claim.removal /\ claim.key[4] = claim.content
    BY <1>2, <1>9 DEF readImage, WorkFits
  <2>3. c = claim.content
    BY <2>2, StoredNamed DEF ContentInv
  <2>4. result = madeBy(claim) /\ result \in Contents
    BY <1>2, <2>2, <2>3, Removals DEF madeBy, writeImageWithoutLocationData
  <2>5. k \in Keys /\ k # <<>> /\ k[4] = result
    BY <1>2, <2>4, OriginalKeys
  <2>6. /\ SameWork(claim, new) /\ new.at = "installing" /\ new.newKey = k
        /\ new.result = result
    <3> HIDE DEF k, result, claim
    <3> QED BY <1>2, <2>4, <2>5, ReadEdits
  <2>7. goesOn(w, new)
    BY <2>1 DEF having
  <2>8. NamedByContent'
    BY <1>4, <1>9 DEF readImage
  <2> HIDE DEF new, k, result, claim
  <2>9. new.removal
    BY <2>2, <2>6 DEF SameWork
  <2>10. WorkFits(new)
    BY <1>1, <1>2, <2>4, <2>5, <2>6, <2>9, SameFits
  <2> QED BY <1>1, <2>7, <2>8, <2>10, GoesOn
<1>10. CASE installImage(w)
  <2>1. /\ goesOn(w, [claim EXCEPT !.at = afterImage(claim)]) /\ claim.at = "installing"
        /\ files' = files \/ files' = put(files, claim.newKey, claim.result)
    BY <1>10 DEF installImage, installed
  <2>2. NamedByContent'
    BY <1>2, <1>4, <2>1, PutNamed DEF ContentInv
  <2>3. claim.removal
    BY <1>2, <2>1 DEF WorkFits
  <2>4. PICK at \in {"thumbnail", "metadata"} : afterImage(claim) = at
    BY <1>7, <2>3, NextStages
  <2>5. at \in stages
    BY DEF stages
  <2> QED BY <1>6, <1>7, <2>1, <2>2, <2>4, <2>5
<1>11. CASE createThumbnail(w)
  <2>1. claim.at = "thumbnail" /\ NamedByContent'
    BY <1>5, <1>11 DEF createThumbnail
  <2>2. PICK at \in {"metadata", "preview", "checking"} :
           /\ goesOn(w, [claim EXCEPT !.at = at])
           /\ claim.metadata => at = "metadata"
    BY <1>11, NextStages DEF createThumbnail
  <2>3. at \in stages
    BY DEF stages
  <2> QED BY <1>6, <1>7, <2>1, <2>2, <2>3
<1>12. CASE extractMediaMetadataJson(w)
  <2>1. PICK c \in stored(claim.newKey) :
           goesOn(w, [claim EXCEPT !.at = afterMetadata(claim), !.seen = c])
    BY <1>12 DEF extractMediaMetadataJson
  <2>2. claim.at = "metadata" /\ NamedByContent'
    BY <1>4, <1>12 DEF extractMediaMetadataJson
  <2>3. c = madeBy(claim) /\ c \in Contents
    BY <1>2, <1>3, <1>7, <2>2
  <2> DEFINE new == seeing(claim, afterMetadata(claim), c)
  <2>4. /\ SameWork(claim, new) /\ new.at \in {"preview", "checking"}
        /\ new.newKey = claim.newKey /\ new.result = claim.result /\ new.seen = c
    <3>1. afterMetadata(claim) \in {"preview", "checking"} \cap stages
      BY NextStages DEF stages
    <3> HIDE DEF claim
    <3> QED BY <1>2, <2>3, <3>1, SeenEdits
  <2>5. goesOn(w, new)
    BY <2>1 DEF seeing
  <2> HIDE DEF new, claim
  <2>6. WorkFits(new)
    BY <1>1, <1>2, <1>7, <2>2, <2>3, <2>4, SameFits
  <2> QED BY <1>1, <2>2, <2>5, <2>6, GoesOn
<1>13. CASE createPreview(w)
  <2>1. /\ claim.at = "preview" /\ NamedByContent' /\ goesOn(w, [claim EXCEPT !.at = "checking"])
        /\ "checking" \in stages
    BY <1>5, <1>13 DEF createPreview, stages
  <2>2. claim.metadata => claim.seen = madeBy(claim)
    BY <1>2, <2>1 DEF WorkFits
  <2> QED BY <1>6, <1>7, <2>1, <2>2
<1>14. CASE checkAgain(w)
  <2>1. /\ claim.at = "checking" /\ UNCHANGED files /\ goesOn(w, [claim EXCEPT !.at = "derived"])
    BY <1>14 DEF checkAgain
  <2>2. claim.metadata => claim.seen = madeBy(claim)
    BY <1>2, <2>1 DEF WorkFits
  <2> QED BY <1>4, <1>6, <1>7, <2>1, <2>2
<1>15. CASE fails(w) \/ refused(w)
  <2>1. goesOn(w, [claim EXCEPT !.at = "failing"]) /\ UNCHANGED files
    BY <1>15 DEF fails, refused
  <2> QED BY <1>4, <1>6, <2>1
<1> QED BY <1>8, <1>9, <1>10, <1>11, <1>12, <1>13, <1>14, <1>15 DEF Works

\* What a report may change of an entry, when its job is still the one of the claim.
LEMMA UpdatedContents ==
    ASSUME SharedOnly, NEW claim \in WorkerRow, NEW job \in JobRow, NEW row \in EntryRow,
           WorkFits(claim), RowFits(row), claim.at = "derived", row.content = claim.content,
           job.removal => claim.removal, claim.removal => job.removal
    PROVE  RowFits(updatedBy(claim, job, row))
<1> DEFINE new == updatedBy(claim, job, row)
           seen == claim.metadata \/ job.removal
<1>1. /\ claim.location \in Locations /\ claim.location \in Places
      /\ claim.content \in Contents /\ claim.result = madeBy(claim)
      /\ claim.metadata => claim.seen = madeBy(claim)
      /\ claim.removal => claim.metadata /\ claim.newKey # <<>> /\ claim.newKey[4] = madeBy(claim)
  BY SharedPlaces DEF WorkFits
<1>2. madeBy(claim) \in Contents /\ same(claim.content, madeBy(claim))
      /\ same(madeBy(claim), madeBy(claim))
  BY <1>1, Removals DEF madeBy
<1>3. /\ new.storageKind = row.storageKind
      /\ new.key = IF job.removal /\ claim.removal THEN claim.newKey ELSE row.key
      /\ new.content = IF job.removal /\ claim.removal THEN claim.result ELSE row.content
      /\ new.thumbnail = IF claim.thumbnail
                         THEN derivativeKey("thumbnail", claim.location, claim.result)
                         ELSE row.thumbnail
      /\ new.preview = IF claim.preview
                       THEN derivativeKey("preview", claim.location, claim.result)
                       ELSE row.preview
      /\ new.metadata = IF seen THEN (IF claim.metadata THEN claim.seen ELSE None)
                        ELSE row.metadata
  BY <1>1, <1>2, UpdatedType
<1>4. /\ derivativeKey("thumbnail", claim.location, claim.result)[4] = madeBy(claim)
      /\ derivativeKey("preview", claim.location, claim.result)[4] = madeBy(claim)
  BY <1>1, <1>2, DerivativeKeys
<1>5. new.content = madeBy(claim)
  BY <1>1, <1>3 DEF madeBy
<1> HIDE DEF new
<1>6. new.storageKind = "shared" /\ new.key # <<>> /\ new.key[4] = new.content
  BY <1>1, <1>3, <1>5 DEF RowFits
<1>7. new.metadata \in {None, new.content}
  <2>1. CASE claim.metadata
    BY <1>1, <1>3, <1>5, <2>1
  <2>2. CASE ~claim.metadata
    <3>1. ~claim.removal /\ new.metadata \in {None, row.metadata} /\ new.content = row.content
      BY <1>1, <1>3, <2>2
    <3> QED BY <3>1 DEF RowFits
  <2> QED BY <2>1, <2>2
<1>8. \A k : same(k[4], row.content) => same(k[4], new.content)
  BY <1>2, <1>5 DEF same
<1>9. \A k \in {new.thumbnail, new.preview} \ {<<>>} : same(k[4], new.content)
  <2>1. \A k \in {row.thumbnail, row.preview} \ {<<>>} : same(k[4], new.content)
    BY <1>8 DEF RowFits
  <2>2. new.thumbnail # <<>> => same(new.thumbnail[4], new.content)
    BY <1>2, <1>3, <1>4, <1>5, <2>1
  <2>3. new.preview # <<>> => same(new.preview[4], new.content)
    BY <1>2, <1>3, <1>4, <1>5, <2>1
  <2> QED BY <2>2, <2>3
<1>10. RowFits(new)
  BY <1>6, <1>7, <1>9 DEF RowFits
<1> QED BY <1>10 DEF new

LEMMA CompletedContents ==
    ASSUME SharedOnly, MediaTypes, JobsInv, ContentInv, NEW w \in MediaWorkers,
           completeMediaProcessing(w)
    PROVE  ContentInv'
<1> DEFINE claim == mediaWorkers[w]
           job == mediaJobs[claim.job]
           row == entries[claim.entry]
           new == updatedBy(claim, job, row)
           expected == job.status # "none" /\ isExpected(job)
<1>1. /\ claim.at = "derived" /\ (job.removal => claim.removal)
      /\ claim.job \in JobIds /\ claim.entry \in EntryIds
      /\ claim \in WorkerRow /\ job \in JobRow /\ row \in EntryRow
      /\ WorkFits(claim) /\ RowFits(row) /\ ClaimFits(entries, mediaJobs, claim)
  BY DEF completeMediaProcessing, MediaTypes, JobsInv, ClaimsFit, ClaimFits, ContentInv,
         WorkersFit, EntriesFit
<1>2. EntriesFit'
  <2>1. CASE expected
    <3>1. /\ job.entry = claim.entry /\ job.content = claim.content
          /\ claim.removal => job.removal
      BY <1>1, <2>1 DEF ClaimFits
    <3>2. row.content = claim.content
      BY <2>1, <3>1 DEF isExpected
    <3>3. RowFits(new)
      BY <1>1, <3>1, <3>2, UpdatedContents
    <3>4. entries' = [entries EXCEPT ![claim.entry] = new]
      BY <2>1 DEF completeMediaProcessing
    <3>5. \A e \in EntryIds : entries'[e] = IF e = claim.entry THEN new ELSE entries[e]
      <4> HIDE DEF new
      <4> QED BY <3>4 DEF MediaTypes
    <3> HIDE DEF new
    <3> QED BY <3>3, <3>5 DEF ContentInv, EntriesFit
  <2>2. CASE ~expected
    BY <2>2 DEF completeMediaProcessing, ContentInv, EntriesFit
  <2> QED BY <2>1, <2>2
<1>3. WorkersFit'
  BY ContentsKept DEF completeMediaProcessing, goesOn, MediaTypes
<1> QED BY <1>2, <1>3, ContentsKept DEF completeMediaProcessing, ContentInv

LEMMA ContentStep ==
    ASSUME SharedOnly, MigrationIds = {}, MediaTypes, JobsInv, ContentInv, [Next]_vars
    PROVE  ContentInv'
<1>1. ASSUME NamesKept, files' \subseteq files,
             \A w \in MediaWorkers : mediaWorkers'[w] \in {mediaWorkers[w], Resting}
      PROVE  ContentInv'
  BY <1>1, ContentsKept DEF ContentInv
<1>2. UNCHANGED entries => NamesKept
  BY DEF NamesKept
<1>3. CASE Quiet
  BY <1>1, <1>2, <1>3 DEF Quiet
<1>4. ASSUME NEW e \in EntryIds, Asked(e) PROVE ContentInv'
  <2>1. \A x \in EntryIds : \/ entries'[x] = entries[x]
                           \/ entries'[x] = [entries[x] EXCEPT !.thumbnailState = "pending"]
    BY <1>4 DEF Asked, markThumbnailPendingIfNeeded, MediaTypes
  <2>2. NamesKept
    BY <2>1, EditsKeepNames
  <2> QED BY <1>1, <1>4, <2>2 DEF Asked
<1>5. ASSUME NEW e \in EntryIds, remove(e) \/ lapseMigration(e) PROVE ContentInv'
  <2>1. \A x \in EntryIds : \/ entries'[x] = entries[x]
                           \/ entries'[x] = [entries[x] EXCEPT !.state = "deleted"]
                           \/ entries'[x] = [entries[x] EXCEPT !.lapsed = TRUE]
    BY <1>5 DEF remove, lapseMigration, MediaTypes
  <2>2. NamesKept
    BY <2>1, EditsKeepNames
  <2> QED BY <1>1, <1>5, <2>2 DEF remove, lapseMigration, workVars
<1>6. CASE deploy
  <2>1. NamesKept
    BY <1>6, EditsKeepNames DEF deploy
  <2> QED BY <1>1, <1>6, <2>1 DEF deploy
<1>7. ASSUME NEW w \in MediaWorkers, renewMediaProcessing(w) \/ workerStops(w) PROVE ContentInv'
  BY <1>1, <1>2, <1>7 DEF renewMediaProcessing, workerStops, goesOn, rowVars, MediaTypes
<1>9. ASSUME NEW w \in MediaWorkers, failMediaProcessing(w) PROVE ContentInv'
  <2> DEFINE job == mediaJobs[mediaWorkers[w].job]
  <2>1. entries' = entries \/ entries' = [entries EXCEPT ![job.entry].thumbnailState = "failed"]
    BY <1>9 DEF failMediaProcessing, marked
  <2>2. \A e \in EntryIds : \/ entries'[e] = entries[e]
                           \/ entries'[e] = [entries[e] EXCEPT !.thumbnailState = "failed"]
    <3> HIDE DEF job
    <3> QED BY <2>1 DEF MediaTypes
  <2>3. NamesKept
    BY <2>2, EditsKeepNames
  <2> QED BY <1>1, <1>9, <2>3 DEF failMediaProcessing, goesOn, MediaTypes
<1>10. ASSUME NEW j \in JobIds, lapse(j) PROVE ContentInv'
  BY <1>1, <1>2, <1>10 DEF lapse, rowVars
<1>11. ASSUME NEW w \in Movers, deleteFiles(w) PROVE ContentInv'
  <2>1. \A e \in EntryIds : \/ entries'[e] = entries[e]
                           \/ entries'[e] = [entries[e] EXCEPT !.state = "gone"]
    BY <1>11 DEF deleteFiles
  <2>2. NamesKept
    BY <2>1, EditsKeepNames
  <2> QED BY <1>1, <1>11, <2>2 DEF deleteFiles, workVars
<1> QED BY <1>3, <1>4, <1>5, <1>6, <1>7, <1>9, <1>10, <1>11, TakenContents, InstalledContents,
           ReplacedContents, WorkedContents, CompletedContents, Steps
           DEF JobsInv

\* The thumbnail and preview that an entry of a shared gallery names are made from its image,
\* with or without its location (mediaWorker.ts:66-79), for any number of images, jobs and
\* workers: whatever uploads and removals come between a claim and its report.
THEOREM DerivativesAreOfTheImage ==
    SharedOnly /\ MigrationIds = {} /\ Spec => []DerivativesMatch
<1> SUFFICES ASSUME SharedOnly, MigrationIds = {} PROVE Spec => []DerivativesMatch
  OBVIOUS
<1>1. Init => MediaTypes /\ JobsInv /\ ContentInv
  BY TypesInit, JobsInit, ContentInit
<1>2. MediaTypes /\ JobsInv /\ ContentInv /\ [Next]_vars => (MediaTypes /\ JobsInv /\ ContentInv)'
  BY TypesStep, JobsStep, ContentStep
<1>3. ContentInv => DerivativesMatch
  <2> SUFFICES ASSUME ContentInv, NEW e \in EntryIds,
                      NEW k \in {entries[e].thumbnail, entries[e].preview} \ {<<>>}
               PROVE  /\ same(k[4], entries[e].content)
                      /\ \A c \in stored(k) : same(c, entries[e].content)
    BY DEF DerivativesMatch
  <2>1. same(k[4], entries[e].content)
    BY DEF ContentInv, EntriesFit, RowFits
  <2>2. \A c \in stored(k) : c = k[4]
    BY StoredNamed DEF ContentInv
  <2> QED BY <2>1, <2>2
<1> QED BY <1>1, <1>2, <1>3, PTL DEF Spec

\* An image of a shared gallery whose row says that it has no location is stored without
\* one (locationMetadata.ts:107-170), for any number of images, jobs and workers.
THEOREM RemovedLocationsStay ==
    SharedOnly /\ MigrationIds = {} /\ Spec => []RemovedStays
<1> SUFFICES ASSUME SharedOnly, MigrationIds = {} PROVE Spec => []RemovedStays
  OBVIOUS
<1>1. Init => MediaTypes /\ JobsInv /\ ContentInv
  BY TypesInit, JobsInit, ContentInit
<1>2. MediaTypes /\ JobsInv /\ ContentInv /\ [Next]_vars => (MediaTypes /\ JobsInv /\ ContentInv)'
  BY TypesStep, JobsStep, ContentStep
<1>3. ContentInv => RemovedStays
  <2> SUFFICES ASSUME ContentInv, NEW e \in EntryIds, NEW c \in stored(entries[e].key),
                      \/ ~hasLocation(entries[e].content)
                      \/ entries[e].metadata # None /\ ~hasLocation(entries[e].metadata)
               PROVE  ~hasLocation(c)
    BY DEF RemovedStays, CleanByHash, StoredClean
  <2>1. c = entries[e].content /\ entries[e].metadata \in {None, entries[e].content}
    BY StoredNamed DEF ContentInv, EntriesFit, RowFits
  <2> QED BY <2>1
<1> QED BY <1>1, <1>2, <1>3, PTL DEF Spec

\* On shared storage nothing takes the place of a derivative that is named by its content,
\* as docs/deployment.md:38-39 says: media.ts:133 and 175 replace it by the same.
THEOREM SharedDerivativesAreAddressed ==
    SharedOnly /\ MigrationIds = {} /\ Spec => []DerivativesContentAddressed
<1> SUFFICES ASSUME SharedOnly, MigrationIds = {} PROVE Spec => []DerivativesContentAddressed
  OBVIOUS
<1>1. Init => MediaTypes /\ JobsInv /\ ContentInv
  BY TypesInit, JobsInit, ContentInit
<1>2. MediaTypes /\ JobsInv /\ ContentInv /\ [Next]_vars => (MediaTypes /\ JobsInv /\ ContentInv)'
  BY TypesStep, JobsStep, ContentStep
<1>3. ContentInv => DerivativesContentAddressed
  BY DEF ContentInv, NamedByContent, DerivativesContentAddressed, same
<1> QED BY <1>1, <1>2, <1>3, PTL DEF Spec
=============================================================================
