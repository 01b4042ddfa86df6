------------------------------ MODULE Gallery ------------------------------
(***************************************************************************)
(* The catalog, the storage server and the storage worker together: every  *)
(* client mutation, storage call, scheduled function and crash that works  *)
(* on entries and their files, interleaved in any order.                   *)
(***************************************************************************)
EXTENDS Uploads, Deletions, EntryMoves, FiniteSetsExt

(***************************************************************************)
(* entries.rename.  On user storage it only inserts a filesystemOperations *)
(* row, which another worker loop carries out.  It asks for no namesake in *)
(* any kind of gallery and does not look at reserved names.                *)
(***************************************************************************)
rename(e, name) ==
    /\ Ready(e)
    /\ ~galleries[GalleryOf[entries[e].folder]].deleted
    /\ Storage[GalleryOf[entries[e].folder]] = "shared"
    /\ entries[e].moveJob = None
    /\ name # entries[e].name
    /\ findReadyEntryByNameKey(entries[e].folder, name, e) = None
    /\ entries' = [entries EXCEPT ![e].name = name]
    /\ UNCHANGED <<galleries, intents, deleteJobs, moveJobs, operations, files,
                   handlers, workers>>

(***************************************************************************)
(* Initial states                                                          *)
(***************************************************************************)

seedKey(e) == buildStorageKey(Seeds[e].folder, Seeds[e].name, Seeds[e].content)

seedsOf(g) == {e \in DOMAIN Seeds : GalleryOf[Seeds[e].folder] = g}

seedBytes(g) == MapThenSumSet(LAMBDA e : Size[Seeds[e].content], seedsOf(g))

Init ==
    /\ galleries = [g \in Galleries |->
          [deleted |-> FALSE, cleaning |-> FALSE, itemCount |-> Cardinality(seedsOf(g)),
           totalBytes |-> seedBytes(g)]]
    /\ entries = [e \in EntryIds |->
          IF e \in DOMAIN Seeds
          THEN [state |-> "ready", folder |-> Seeds[e].folder, name |-> Seeds[e].name,
                content |-> Seeds[e].content, key |-> seedKey(e),
                intent |-> None, moveJob |-> None]
          ELSE Blank("absent")]
    /\ files = [k \in Keys |->
          IF \E e \in DOMAIN Seeds : seedKey(e) = k
          THEN Seeds[CHOOSE e \in DOMAIN Seeds : seedKey(e) = k].content ELSE None]
    /\ intents = [i \in IntentIds |-> NoIntent]
    /\ deleteJobs = [j \in DeleteJobIds |-> NoDeleteJob]
    /\ moveJobs = [j \in MoveJobIds |-> NoMoveJob]
    /\ operations = [o \in OperationIds |-> NoOperation]
    /\ handlers = [h \in Handlers |-> IdleHandler]
    /\ workers = [w \in Workers |-> IdleWorker]

(***************************************************************************)
(* Steps                                                                   *)
(***************************************************************************)

StartUpload == \E i \in IntentIds, f \in Folders, s \in Stems, p \in Policies, c \in Contents :
                  createUploadIntent(i, f, <<s, 1>>, p, c)

Rename == \E e \in EntryIds, n \in Names : rename(e, n)

Remove == \E e \in EntryIds, j \in DeleteJobIds : remove(e, j) \/ expire(e, j)

RemoveGallery == \E g \in Galleries : removeGallery(g)

StartBulk == \E o \in OperationIds, s \in Folders, k \in {"ids", "folder"},
                todo \in SUBSET EntryIds :
                \/ startDelete(o, s, k, todo)
                \/ \E f \in Folders : startMove(o, s, f, k, todo)

Resolve == \/ \E j \in MoveJobIds, p \in {"replace", "rename"} : resolveConflict(j, p)
           \/ \E o \in OperationIds, p \in {"replace", "rename", "skip"} : resolveConflicts(o, p)

Dismiss == \E o \in OperationIds : dismissFinished(o)

Client == StartUpload \/ Rename \/ Remove \/ RemoveGallery \/ StartBulk \/ Resolve \/ Dismiss

Claim(h) == \E i \in IntentIds : claimUpload(h, i)

\* What a request does when nothing goes wrong around it.
Serve(h) == \/ installReplacing(h)
            \/ statInstalled(h)
            \/ \E answered \in BOOLEAN : completeUpload(h, answered)
            \/ completeUploadRejected(h)
            \/ failUpload(h)

StorageServer == \E h \in Handlers :
    Claim(h) \/ Serve(h) \/ renewUpload(h) \/ abortUpload(h) \/ handlerCrash(h)

ClaimMaintenance(w) ==
    \/ \E j \in DeleteJobIds : claimDelete(w, j) \/ claimDeleteExhausted(w, j)
    \/ \E j \in MoveJobIds : claimMove(w, j) \/ claimMoveRefused(w, j)

Work(w) == \/ unlinkOriginal(w)
           \/ \E answered \in BOOLEAN : completeDelete(w, answered) \/ completeEntryMove(w, answered)
           \/ completeDeleteError(w)
           \/ lookAtDestination(w)
           \/ copyAtomically(w)
           \/ statCopied(w)
           \/ completeEntryMoveThrows(w)
           \/ completeEntryMoveError(w)

StorageWorker == \E w \in Workers :
    \/ ClaimMaintenance(w) \/ Work(w)
    \/ renewDelete(w) \/ renewEntryMove(w)
    \/ deleteTaskFails(w) \/ moveTaskFails(w) \/ workerCrash(w)

Lapse == \/ \E i \in IntentIds : uploadLeaseLapses(i)
         \/ \E j \in DeleteJobIds : deleteLeaseLapses(j)
         \/ \E j \in MoveJobIds : moveLeaseLapses(j)

Sweep == \E expired \in SUBSET IntentIds : recoverStaleRequests(expired)

CleanUp == \E g \in Galleries : queueEntries(g)

ProcessBulk(o) == \/ \E e \in EntryIds : process(o, e)
                  \/ processSourceGone(o)
                  \/ processNothing(o)
                  \/ applyConflictPolicy(o)

Scheduler == Lapse \/ Sweep \/ CleanUp \/ \E o \in OperationIds : ProcessBulk(o)

Next == Client \/ StorageServer \/ StorageWorker \/ Scheduler

Spec == Init /\ [][Next]_vars

(***************************************************************************)
(* What keeps running.  The storage server finishes or aborts a request it *)
(* holds, and the worker a job (handleUpload and runWithHeartbeat bound    *)
(* both by a timeout); a worker loop that is idle polls; leases run out;   *)
(* the recovery sweep runs every minute and tokens expire, so a request    *)
(* cannot be claimed again for ever; Convex runs what is scheduled.        *)
(***************************************************************************)
Fairness ==
    /\ \A h \in Handlers : WF_vars(Serve(h))
    /\ \A w \in Workers : WF_vars(Work(w)) /\ WF_vars(ClaimMaintenance(w))
    /\ WF_vars(Lapse)
    /\ SF_vars(Sweep)
    /\ WF_vars(CleanUp)
    /\ \A o \in OperationIds : WF_vars(ProcessBulk(o))

FairSpec == Spec /\ Fairness

(***************************************************************************)
(* Type                                                                    *)
(***************************************************************************)

\* Every table holds rows of its type, every file has a content.
TypeOK ==
    /\ galleries \in [Galleries -> GalleryRow]
    /\ entries \in [EntryIds -> Entry]
    /\ intents \in [IntentIds -> Intent]
    /\ deleteJobs \in [DeleteJobIds -> DeleteJob]
    /\ moveJobs \in [MoveJobIds -> MoveJob]
    /\ operations \in [OperationIds -> Operation]
    /\ files \in [Keys -> Contents \cup {None}]
    /\ handlers \in [Handlers -> Handler]
    /\ workers \in [Workers -> Worker]

(***************************************************************************)
(* Safety                                                                  *)
(***************************************************************************)

\* An image folder holds a name once, whichever of uploads, moves and renames
\* brought it there (entryNames.ts; all three check in their own mutation).
UniqueReadyNames ==
    \A e, d \in EntryIds :
        (/\ e # d /\ Ready(e) /\ Ready(d)
         /\ entries[e].folder = entries[d].folder
         /\ Kind[GalleryOf[entries[e].folder]] = "image")
        => entries[e].name # entries[d].name

\* Two requests past their claim hold the same name of an image folder only if
\* one of them replaces what it finds (claimUpload reserves the name).
ReservationsExclusive ==
    \A i, k \in IntentIds :
        (/\ i # k
         /\ intents[i].state = "uploading" /\ intents[k].state = "uploading"
         /\ intents[i].folder = intents[k].folder
         /\ intents[i].resolved = intents[k].resolved
         /\ Kind[GalleryOf[intents[i].folder]] = "image")
        => intents[i].policy = "replace" \/ intents[k].policy = "replace"

purging(e) == {j \in DeleteJobIds : deleteJobs[j].status # "absent"
                                    /\ deleteJobs[j].entry = e /\ deleteJobs[j].deleteEntry}

\* Exactly the deleted entries have a job that removes their row, and one each:
\* a row is never leaked, nor removed under a ready entry or twice
\* (entryDeletion.ts, galleryCleanup.ts, completeUpload's revival of an entry).
DeletedHaveOneJob ==
    \A e \in EntryIds :
        Cardinality(purging(e)) = IF entries[e].state = "deleted" THEN 1 ELSE 0

\* galleryStats counts the ready entries of a gallery and their bytes; the
\* clamping at zero never hides a difference (lib/galleryStats.ts).
StatsExact ==
    \A g \in Galleries : ~galleries[g].deleted =>
        /\ galleries[g].itemCount = Cardinality(entriesOf(g))
        /\ galleries[g].totalBytes = MapThenSumSet(SizeOf, entriesOf(g))

\* A worker is told to unlink a file only while no ready entry refers to it, the
\* job's own entry included, which may have been moved away and back since the
\* job was queued: shared keys are "reference-checked, so they are always safe to
\* queue" (storageGateway.ts).
RemovalDecisionSafe ==
    [][\A w \in Workers :
          (workers[w].pc = "idle" /\ workers'[w].remove)
          => \A e \in EntryIds : Ready(e) => entries[e].key # workers'[w].key]_vars

\* A settled upload stays settled, and an entry takes over an upload only in
\* the step that completes it: retries, lost replies and stale requests land a
\* file at most once (completeUpload's by_uploadIntentId check).
LandsOnce ==
    [][\A i \in IntentIds :
          /\ intents[i].state \in {"complete", "failed"} => intents'[i] = intents[i]
          /\ (\E e \in EntryIds : entries[e].intent # i /\ entries'[e].intent = i)
             => intents[i].state = "uploading" /\ intents'[i].state = "complete"]_vars

live(o) == {j \in MoveJobIds : moveJobs[j].op = o /\ moveJobs[j].status \in {"queued", "processing"}}

\* An operation knows exactly how many of its items are parked on a conflict,
\* over resolving them one by one, all at once, and skipping (bulkOperations.ts).
ParkedCounted ==
    \A o \in OperationIds : operations[o].conflicts = Cardinality(parked(o))

\* No item is lost on the way, while the source gallery is there: every one an
\* operation found is counted as done, failed or parked, or has a move that is
\* queued or running, over discovery, resolving, skipping, failures and retries.
\* An operation that is over has seen its whole selection, with every item counted
\* and none parked.  It is no equality: a failed job that is queued again is
\* counted twice (bulkOperations.ts, completeEntryMove).
ItemsAccounted ==
    \A o \in OperationIds : operations[o].status # "absent" /\ ~sourceGone(o) =>
        LET op == operations[o]
            tallied == op.completed + op.failed + op.conflicts
        IN  /\ op.total <= tallied + Cardinality(live(o))
            /\ op.status \in {"complete", "failed"} =>
                  op.discovered /\ op.total <= tallied /\ op.conflicts = 0

\* No item is forgotten: an operation that has seen its whole selection is only
\* "processing" while one of its moves still is queued or running.  Its source
\* has to be there: process fails an operation whose source gallery is removed,
\* a refused claim then counts nothing, and skipping an item that was parked
\* before computes a status that waits for ever (bulkOperations.ts).
NoItemForgotten ==
    \A o \in OperationIds :
        operations[o].status = "processing" /\ operations[o].discovered /\ ~sourceGone(o)
        => live(o) # {}

\* An operation that is over moves nothing any more: "Items are either still
\* moving, done, failed, or parked on a name conflict" (lib/bulkOperations.ts),
\* so none is counted twice.
OverMeansSettled ==
    \A e \in EntryIds : Ready(e) /\ entries[e].moveJob # None =>
        LET o == moveJobs[entries[e].moveJob].op
        IN  sourceGone(o) \/ operations[o].status \notin {"complete", "failed"}

\* An entry that is marked as moving, which blocks deleting, renaming and
\* selecting it, is held by a job that still can settle it; an upload may
\* replace the entry under its move.
MovingHasLiveJob ==
    \A e \in EntryIds : Ready(e) /\ entries[e].moveJob # None =>
        LET job == moveJobs[entries[e].moveJob]
        IN  job.entry = e /\ job.status \in {"queued", "processing"}

\* An upload under "rename" leaves all other files listed as they were: "Auto rename to
\* keep both files under different names" (docs/user.md).
RenameKeepsBoth ==
    [][\A i \in IntentIds : intents[i].policy = "rename"
          /\ intents[i].state = "uploading" /\ intents'[i].state = "complete"
          => \A e \in EntryIds : Ready(e) => entries'[e] = entries[e]]_vars

\* The file of a ready entry exists: "Shared keys are content-addressed and
\* reference-checked, so they are always safe to queue" (storageGateway.ts).
ReadyHasFile ==
    \A e \in EntryIds : Ready(e) => files[entries[e].key] # None

(***************************************************************************)
(* Liveness                                                                *)
(***************************************************************************)

\* Every upload is eventually complete or failed, whatever crashes, lost replies
\* and stale claims it goes through (the lease and the recovery sweep).
UploadsSettle ==
    \A i \in IntentIds : intents[i].state \in {"pending", "uploading"}
                         ~> intents[i].state \in {"complete", "failed"}

\* Every row of storageDeleteJobs is eventually carried out or given up.
DeletionsSettle ==
    \A j \in DeleteJobIds : deleteJobs[j].status \in {"queued", "processing"}
                            ~> deleteJobs[j].status \in {"absent", "failed"}

\* Every bulk operation eventually is over or waits for its user.
OperationsSettle ==
    \A o \in OperationIds : operations[o].status \in {"queued", "processing"}
                            ~> operations[o].status \in {"complete", "failed", "conflict"}

(***************************************************************************)
(* The promise kept                                                        *)
(***************************************************************************)

listed(f, n) ==
    IF readyEntriesNamed(f, n, None) = {} THEN None
    ELSE entries[findReadyEntryByNameKey(f, n, None)].content

fate(i) == CASE intents[i].state = "absent"                   -> "none"
             [] intents[i].state \in {"pending", "uploading"} -> "open"
             [] intents[i].state = "complete"                 -> "landed"
             [] intents[i].state = "failed"                   -> "failed"

Promise == INSTANCE Directory WITH
    Uploads <- IntentIds,
    listing <- [f \in Folders |-> [n \in Names |-> listed(f, n)]],
    request <- [i \in IntentIds |-> [fate |-> fate(i), folder |-> intents[i].folder,
                   name |-> intents[i].name, policy |-> intents[i].policy,
                   content |-> intents[i].content]],
    granted <- {moveJobs[j].folder : j \in {x \in MoveJobIds :
                   moveJobs[x].status # "absent" /\ moveJobs[x].policy = "replace"}}

\* Image galleries on shared storage implement Directory: reservations, leases,
\* retries, delete and move jobs never show in a listing (all of the modules).
KeepsPromise == Promise!Spec

=============================================================================
