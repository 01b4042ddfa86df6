----------------------------- MODULE EntryMoves -----------------------------
(***************************************************************************)
(* Bulk operations (convex/bulkOperations.ts) delete or move a selection   *)
(* of entries item by item; a move becomes an entryMoveJobs row, which the *)
(* storage worker claims, copies and completes (convex/storageGateway.ts,  *)
(* storage/maintenance.ts).                                                *)
(***************************************************************************)
EXTENDS EntryNames

(***************************************************************************)
(* Starting an operation                                                   *)
(***************************************************************************)

openFolder(f) == Kind[GalleryOf[f]] = "image" /\ ~galleries[GalleryOf[f]].deleted

insertOperation(o, kind, source, folder, selection, todo) ==
    /\ operations[o].status = "absent"
    /\ openFolder(source)
    /\ todo \subseteq {e \in EntryIds : entries[e].state \in {"ready", "deleted"}}
    /\ selection = "ids" => todo # {}
    /\ operations' = [operations EXCEPT ![o] = [NoOperation EXCEPT
                         !.status = "queued", !.kind = kind, !.source = source,
                         !.folder = folder, !.selection = selection, !.todo = todo]]
    /\ UNCHANGED <<galleries, entries, intents, deleteJobs, moveJobs, files,
                   handlers, workers>>

startDelete(o, source, selection, todo) ==
    insertOperation(o, "delete", source, None, selection, todo)

startMove(o, source, folder, selection, todo) ==
    /\ openFolder(folder)
    /\ insertOperation(o, "move", source, folder, selection, todo)

(***************************************************************************)
(* Counters                                                                *)
(***************************************************************************)

operationStatus(op) ==
    IF ~op.discovered \/ op.completed + op.failed + op.conflicts < op.total
    THEN "processing"
    ELSE IF op.conflicts > 0 THEN "conflict"
    ELSE IF op.failed > 0 THEN "failed" ELSE "complete"

counted(op) == [op EXCEPT !.status = operationStatus(op)]

oneCompleted(op) == counted([op EXCEPT !.completed = @ + 1])
oneFailed(op)    == counted([op EXCEPT !.failed = @ + 1])
oneParked(op)    == counted([op EXCEPT !.conflicts = @ + 1])

\* Fault: a skipped item is still one of the operation's.
stillInTotal(op) == counted(op)

oneFewer(op) == counted([op EXCEPT !.total = AtLeastZero(@ - 1)])

\* An operation that is over counts no more.
settleBulkMoveItem(o, success) ==
    operations' = IF operations[o].status \in {"complete", "failed"} THEN operations
                  ELSE [operations EXCEPT ![o] =
                          IF success THEN oneCompleted(@) ELSE oneFailed(@)]

(***************************************************************************)
(* process, with a batch of one item                                       *)
(***************************************************************************)

\* process reschedules itself until it has seen the whole selection.
scheduled(o) == operations[o].status \in {"queued", "processing"} /\ ~operations[o].discovered

sourceGone(o) == galleries[GalleryOf[operations[o].source]].deleted

processSourceGone(o) ==
    /\ scheduled(o)
    /\ sourceGone(o)
    /\ operations' = [operations EXCEPT ![o].status = "failed", ![o].discovered = TRUE]
    /\ UNCHANGED <<galleries, entries, intents, deleteJobs, moveJobs, files,
                   handlers, workers>>

movable(e, source) == Ready(e) /\ entries[e].folder = source /\ entries[e].moveJob = None

\* A folder selection is read off an index of the movable entries; which of
\* them the cursor has passed is kept, their order is not.
candidates(o) ==
    IF operations[o].selection = "ids" THEN operations[o].todo
    ELSE {e \in operations[o].todo : movable(e, operations[o].source)}

\* The operation after the page with e, before e is counted any further.
visited(o, e) ==
    [operations[o] EXCEPT !.todo = @ \ {e}, !.total = @ + 1,
                          !.discovered = candidates(o) = {e}]

tooLarge(e, folder) == SizeOf(e) > MaxFileSize[GalleryOf[folder]]

eligible(o, e) ==
    LET op == operations[o]
    IN  /\ movable(e, op.source)
        /\ op.kind = "move" =>
              /\ openFolder(op.folder)
              /\ op.folder # op.source => ~tooLarge(e, op.folder)

refuseItem(o, e) ==
    /\ ~eligible(o, e)
    /\ operations' = [operations EXCEPT ![o] = oneFailed(visited(o, e))]
    /\ UNCHANGED <<galleries, entries, deleteJobs, moveJobs>>

deleteItem(o, e) ==
    /\ eligible(o, e)
    /\ operations[o].kind = "delete"
    /\ \E j \in DeleteJobIds : queueEntryDeletion(e, j)
    /\ operations' = [operations EXCEPT ![o] = oneCompleted(visited(o, e))]
    /\ UNCHANGED moveJobs

\* It is in the destination already.
keepItem(o, e) ==
    /\ eligible(o, e)
    /\ operations[o].kind = "move"
    /\ operations[o].folder = operations[o].source
    /\ operations' = [operations EXCEPT ![o] = oneCompleted(visited(o, e))]
    /\ UNCHANGED <<galleries, entries, deleteJobs, moveJobs>>

QueuedMove(o, e, name, policy) ==
    [NoMoveJob EXCEPT !.status = "queued", !.entry = e, !.op = o,
                      !.source = GalleryOf[operations[o].source],
                      !.folder = operations[o].folder, !.expected = entries[e].key,
                      !.policy = policy,
                      !.target = IF name = entries[e].name THEN None ELSE name]

queueMoveJob(j, o, e, name, policy) ==
    /\ moveJobs' = [moveJobs EXCEPT ![j] = QueuedMove(o, e, name, policy)]
    /\ entries' = [entries EXCEPT ![e].moveJob = j]

\* A name that is taken is queued under the operation's policy, withdrawn from
\* the operation under "skip", or parked until the user decides.
moveItem(o, e) ==
    LET op       == operations[o]
        policy   == IF op.policy = "skip" THEN "ask" ELSE op.policy
        landing  == resolveLandingName(op.folder, entries[e].name, policy,
                                       reservedNameKeys(op.folder, None, None), e)
    IN  /\ eligible(o, e)
        /\ op.kind = "move"
        /\ op.folder # op.source
        /\ \/ /\ \E j \in FreeMoveJobs, name \in landing : queueMoveJob(j, o, e, name, policy)
              /\ operations' = [operations EXCEPT ![o] = counted(visited(o, e))]
           \/ /\ landing = {} /\ op.policy = "ask"
              /\ \E j \in FreeMoveJobs : moveJobs' = [moveJobs EXCEPT ![j] =
                    [QueuedMove(o, e, entries[e].name, "ask") EXCEPT !.status = "conflict"]]
              /\ operations' = [operations EXCEPT ![o] = oneParked(visited(o, e))]
              /\ UNCHANGED entries
           \/ /\ landing = {} /\ op.policy = "skip"
              /\ operations' = [operations EXCEPT ![o] = oneFewer(visited(o, e))]
              /\ UNCHANGED <<entries, moveJobs>>
        /\ UNCHANGED <<galleries, deleteJobs>>

process(o, e) ==
    /\ scheduled(o)
    /\ ~sourceGone(o)
    /\ e \in candidates(o)
    /\ refuseItem(o, e) \/ deleteItem(o, e) \/ keepItem(o, e) \/ moveItem(o, e)
    /\ UNCHANGED <<intents, files, handlers, workers>>

\* An empty page: the folder has nothing (left) to select.
processNothing(o) ==
    /\ scheduled(o)
    /\ ~sourceGone(o)
    /\ candidates(o) = {}
    /\ operations' = [operations EXCEPT ![o] =
                         counted([operations[o] EXCEPT !.discovered = TRUE])]
    /\ UNCHANGED <<galleries, entries, intents, deleteJobs, moveJobs, files,
                   handlers, workers>>

(***************************************************************************)
(* Parked items                                                            *)
(***************************************************************************)

parked(o) == {j \in MoveJobIds : moveJobs[j].status = "conflict" /\ moveJobs[j].op = o}

\* Fault: a resolved item stays counted as parked.
stillParked(o) == operations[o]

unparked(o) == [operations[o] EXCEPT !.conflicts = AtLeastZero(@ - 1)]

resolveParkedJob(j, policy) ==
    LET job == moveJobs[j]
        e   == job.entry
        o   == job.op
        valid == /\ movable(e, operations[o].source)
                 /\ openFolder(job.folder)
                 /\ ~tooLarge(e, job.folder)
    IN  \/ /\ ~valid
           /\ moveJobs' = [moveJobs EXCEPT ![j].status = "failed"]
           /\ operations' = [operations EXCEPT ![o] = oneFailed(unparked(o))]
           /\ UNCHANGED entries
        \/ /\ valid
           /\ \E name \in resolveLandingName(job.folder, entries[e].name, policy,
                              reservedNameKeys(job.folder, None, j), e) :
                 queueMoveJob(j, o, e, name, policy)
           /\ operations' = [operations EXCEPT ![o] = counted(unparked(o))]

\* The user settles one parked item ...
resolveConflict(j, policy) ==
    /\ moveJobs[j].status = "conflict"
    /\ resolveParkedJob(j, policy)
    /\ UNCHANGED <<galleries, intents, deleteJobs, files, handlers, workers>>

\* ... or picks a policy for all of them, which is applied in the background.
resolveConflicts(o, policy) ==
    /\ operations[o].kind = "move"
    /\ ~operations[o].dismissed
    /\ operations[o].conflicts # 0
    /\ operations' = [operations EXCEPT ![o].policy = policy, ![o].apply = TRUE]
    /\ UNCHANGED <<galleries, entries, intents, deleteJobs, moveJobs, files,
                   handlers, workers>>

\* With a batch of one; it reschedules itself unless its batch was not full.
applyConflictPolicy(o) ==
    LET op == operations[o]
    IN  /\ op.apply
        /\ \/ /\ op.dismissed
              /\ operations' = [operations EXCEPT ![o].apply = FALSE]
              /\ UNCHANGED <<entries, moveJobs>>
           \/ /\ ~op.dismissed
              /\ parked(o) = {}
              /\ operations' = [operations EXCEPT ![o].apply = FALSE,
                     ![o].status = IF op.policy = "skip" THEN operationStatus(op) ELSE @]
              /\ UNCHANGED <<entries, moveJobs>>
           \/ /\ ~op.dismissed
              /\ op.policy = "skip"
              /\ \E j \in parked(o) : moveJobs' = [moveJobs EXCEPT ![j] = NoMoveJob]
              /\ operations' = [operations EXCEPT ![o] = oneFewer(unparked(o))]
              /\ UNCHANGED entries
           \/ /\ ~op.dismissed
              /\ op.policy # "skip"
              /\ \E j \in parked(o) : resolveParkedJob(j, op.policy)
        /\ UNCHANGED <<galleries, intents, deleteJobs, files, handlers, workers>>

\* dismissFinished by the user, dismissStale by the clock.
dismissFinished(o) ==
    /\ operations[o].status \in {"complete", "failed"}
    /\ ~operations[o].dismissed
    /\ operations' = [operations EXCEPT ![o].dismissed = TRUE]
    /\ UNCHANGED <<galleries, entries, intents, deleteJobs, moveJobs, files,
                   handlers, workers>>

(***************************************************************************)
(* The move branch of claimMaintenance                                     *)
(***************************************************************************)

\* The entry is still the one the job was queued for.
sourceUnchanged(j) ==
    LET e == moveJobs[j].entry
    IN  /\ Ready(e)
        /\ GalleryOf[entries[e].folder] = moveJobs[j].source
        /\ entries[e].key = moveJobs[j].expected
        /\ entries[e].moveJob = j

occupantAt(j) == findReadyEntryByNameKey(moveJobs[j].folder, landingName(moveJobs[j]),
                                         moveJobs[j].entry)

moveRefused(j) ==
    \/ moveJobs[j].attempts = MaxAttempts
    \/ ~sourceUnchanged(j)
    \/ galleries[moveJobs[j].source].deleted
    \/ ~openFolder(moveJobs[j].folder)
    \/ occupantAt(j) # None /\ moveJobs[j].policy = "ask"

\* Deletions come first: only when none can be claimed is a move looked at.
nextMove(w, j) ==
    /\ workers[w].pc = "idle"
    /\ \A d \in claimable(deleteJobs) : deleteJobs[d].status = "queued"
                                        /\ deleteJobs[d].attempts > 0
    /\ j \in claimable(moveJobs)

\* Fault: the operation is not told.
failMoveUnsettled(j) ==
    LET e == moveJobs[j].entry
    IN  /\ moveJobs' = [moveJobs EXCEPT ![j].status = "failed", ![j].lapsed = FALSE]
        /\ entries' = IF entries[e].moveJob = j
                      THEN [entries EXCEPT ![e].moveJob = None] ELSE entries
        /\ UNCHANGED operations

failMove(j) ==
    LET e == moveJobs[j].entry
    IN  /\ moveJobs' = [moveJobs EXCEPT ![j].status = "failed", ![j].lapsed = FALSE]
        /\ entries' = IF entries[e].moveJob = j /\ entries[e].key = moveJobs[j].expected
                      THEN [entries EXCEPT ![e].moveJob = None] ELSE entries
        /\ settleBulkMoveItem(moveJobs[j].op, FALSE)

claimMoveRefused(w, j) ==
    /\ nextMove(w, j)
    /\ moveRefused(j)
    /\ failMove(j)
    /\ UNCHANGED <<galleries, intents, deleteJobs, files, handlers, workers>>

claimMove(w, j) ==
    LET job    == moveJobs[j]
        e      == job.entry
        repick == occupantAt(j) # None /\ job.policy = "rename"
    IN  /\ nextMove(w, j)
        /\ ~moveRefused(j)
        /\ \E name \in IF repick
                       THEN pickAvailableName(job.folder, entries[e].name,
                                reservedNameKeys(job.folder, None, j), e)
                       ELSE {landingName(job)} :
              /\ moveJobs' = [moveJobs EXCEPT ![j].status = "processing",
                                 ![j].attempts = @ + 1, ![j].lapsed = FALSE,
                                 ![j].target = IF repick THEN name ELSE @]
              /\ workers' = [workers EXCEPT ![w] = [IdleWorker EXCEPT
                    !.pc = "copying", !.job = j, !.key = entries[e].key,
                    !.dest = buildStorageKey(job.folder, name, entries[e].content),
                    !.content = entries[e].content,
                    !.overwrite = job.policy = "replace",
                    !.replaces = replacedKey(job.folder, occupantAt(j), job.policy)]]
        /\ UNCHANGED <<galleries, entries, intents, deleteJobs, operations, files, handlers>>

moveLeaseLapses(j) ==
    /\ moveJobs[j].status = "processing"
    /\ ~moveJobs[j].lapsed
    /\ moveJobs' = [moveJobs EXCEPT ![j].lapsed = TRUE]
    /\ UNCHANGED <<galleries, entries, intents, deleteJobs, operations, files,
                   handlers, workers>>

\* The heartbeat; when it throws, a copy that is under way is aborted.
renewEntryMove(w) ==
    LET j == workers[w].job
        active == moveJobs[j].status = "processing"
                  /\ entries[moveJobs[j].entry].moveJob = j
    IN  /\ workers[w].pc \in {"copying", "writing", "copied", "reporting"}
        /\ \/ /\ active
              /\ moveJobs[j].lapsed
              /\ moveJobs' = [moveJobs EXCEPT ![j].lapsed = FALSE]
              /\ UNCHANGED workers
           \/ /\ ~active
              /\ workers[w].pc \in {"copying", "writing"}
              /\ workers' = [workers EXCEPT ![w].pc = "moveFailing"]
              /\ UNCHANGED moveJobs
        /\ UNCHANGED <<galleries, entries, intents, deleteJobs, operations, files, handlers>>

(***************************************************************************)
(* processEntryMove                                                        *)
(***************************************************************************)

\* copyAtomically looks at the destination: a file with the expected content
\* is kept, another one is refused unless the move replaces ...
lookAtDestination(w) ==
    LET found == files[workers[w].dest]
    IN  /\ workers[w].pc = "copying"
        /\ workers' = [workers EXCEPT ![w].pc =
              IF found = workers[w].content THEN "copied"
              ELSE IF found # None /\ ~workers[w].overwrite THEN "moveFailing"
              ELSE "writing"]
        /\ UNCHANGED <<galleries, entries, intents, deleteJobs, moveJobs, operations,
                       files, handlers>>

\* ... and renames a copy of whatever the source holds by then over it.
copyAtomically(w) ==
    LET source == files[workers[w].key]
    IN  /\ workers[w].pc = "writing"
        /\ files' = IF source = None THEN files
                    ELSE [files EXCEPT ![workers[w].dest] = source]
        /\ workers' = [workers EXCEPT ![w].pc =
                          IF source = None THEN "moveFailing" ELSE "copied"]
        /\ UNCHANGED <<galleries, entries, intents, deleteJobs, moveJobs, operations, handlers>>

statCopied(w) ==
    LET present == files[workers[w].dest] # None
    IN  /\ workers[w].pc = "copied"
        /\ IF present THEN removeReplacedFile(workers[w].replaces, workers[w].dest)
           ELSE UNCHANGED files
        /\ workers' = [workers EXCEPT ![w].pc = IF present THEN "reporting" ELSE "moveFailing"]
        /\ UNCHANGED <<galleries, entries, intents, deleteJobs, moveJobs, operations, handlers>>

\* An I/O error, an abort, or complete-entry-move cannot be reached.
moveTaskFails(w) ==
    /\ workers[w].pc \in {"copying", "writing", "copied", "reporting"}
    /\ workers' = [workers EXCEPT ![w].pc = "moveFailing"]
    /\ UNCHANGED <<galleries, entries, intents, deleteJobs, moveJobs, operations,
                   files, handlers>>

(***************************************************************************)
(* completeEntryMove                                                       *)
(***************************************************************************)

failCompletion(j) ==
    LET e == moveJobs[j].entry
    IN  /\ moveJobs' = [moveJobs EXCEPT ![j].status = "failed", ![j].lapsed = FALSE]
        /\ entries' = IF entries[e].moveJob = j
                      THEN [entries EXCEPT ![e].moveJob = None] ELSE entries
        /\ settleBulkMoveItem(moveJobs[j].op, FALSE)
        /\ UNCHANGED <<galleries, deleteJobs>>

destinationGone(j) == galleries[GalleryOf[moveJobs[j].folder]].deleted

\* The rows a landed move queues: the replaced occupant, and the old path.
queueLeftovers(e, occupant, gallery, key) ==
    LET stale == entries[e].key # key
        replaced == QueuedDelete(occupant, entries[occupant].key,
                       ~keepsReplacedOriginal(gallery, entries[occupant].key, key), TRUE)
        left == QueuedDelete(e, entries[e].key, TRUE, FALSE)
    IN  CASE occupant = None /\ ~stale -> UNCHANGED deleteJobs
          [] occupant = None /\ stale ->
                \E a \in FreeDeleteJobs : deleteJobs' = [deleteJobs EXCEPT ![a] = left]
          [] occupant # None /\ ~stale ->
                \E a \in FreeDeleteJobs : deleteJobs' = [deleteJobs EXCEPT ![a] = replaced]
          [] occupant # None /\ stale ->
                \E a, b \in FreeDeleteJobs :
                   a # b /\ deleteJobs' = [deleteJobs EXCEPT ![a] = replaced, ![b] = left]

landMove(j, key) ==
    LET job      == moveJobs[j]
        e        == job.entry
        occupant == occupantAt(j)
        gallery  == GalleryOf[job.folder]
        landed   == [entries EXCEPT ![e].folder = job.folder, ![e].name = landingName(job),
                                    ![e].key = key, ![e].moveJob = None]
        freed    == IF occupant = None THEN galleries
                    ELSE adjustGalleryStats(galleries, gallery, -1, -SizeOf(occupant))
    IN  /\ entries' = IF occupant = None THEN landed
                      ELSE [landed EXCEPT ![occupant].state = "deleted"]
        /\ galleries' = IF job.source = gallery THEN freed
                        ELSE adjustGalleryStats(
                                adjustGalleryStats(freed, job.source, -1, -SizeOf(e)),
                                gallery, 1, SizeOf(e))
        /\ queueLeftovers(e, occupant, gallery, key)
        /\ moveJobs' = [moveJobs EXCEPT ![j] = NoMoveJob]
        /\ settleBulkMoveItem(job.op, TRUE)

\* Fault: the claim's condition, under which "rename" is no reason to fail.
takenForAsk(j) == occupantAt(j) # None /\ moveJobs[j].policy = "ask"

takenMeanwhile(j) == occupantAt(j) # None /\ moveJobs[j].policy # "replace"

\* Who claimed the job, and whether it still is processing, is not looked at.
completeEntryMove(w, answered) ==
    LET j == workers[w].job
    IN  /\ workers[w].pc = "reporting"
        /\ \/ /\ moveJobs[j].status = "absent"
              /\ UNCHANGED <<galleries, entries, deleteJobs, moveJobs, operations>>
           \/ /\ moveJobs[j].status # "absent"
              /\ ~sourceUnchanged(j)
              /\ failCompletion(j)
           \/ /\ moveJobs[j].status # "absent"
              /\ sourceUnchanged(j)
              /\ ~destinationGone(j)
              /\ IF takenMeanwhile(j) THEN failCompletion(j) ELSE landMove(j, workers[w].dest)
        /\ workers' = [workers EXCEPT ![w] = IF answered THEN IdleWorker
                                             ELSE [@ EXCEPT !.pc = "moveFailing"]]
        /\ UNCHANGED <<intents, files, handlers>>

\* "Move destination is no longer available": the mutation throws.
completeEntryMoveThrows(w) ==
    LET j == workers[w].job
    IN  /\ workers[w].pc = "reporting"
        /\ moveJobs[j].status # "absent"
        /\ sourceUnchanged(j)
        /\ destinationGone(j)
        /\ workers' = [workers EXCEPT ![w].pc = "moveFailing"]
        /\ UNCHANGED <<galleries, entries, intents, deleteJobs, moveJobs, operations,
                       files, handlers>>

\* complete-entry-move with an error, also after a completion whose reply was
\* lost: back to the queue, or failed for good.
completeEntryMoveError(w) ==
    LET j == workers[w].job
    IN  /\ workers[w].pc = "moveFailing"
        /\ \/ /\ moveJobs[j].status = "absent"
              /\ UNCHANGED <<entries, moveJobs, operations>>
           \/ /\ moveJobs[j].status # "absent"
              /\ moveJobs[j].attempts = MaxAttempts
              /\ failMove(j)
           \/ /\ moveJobs[j].status # "absent"
              /\ moveJobs[j].attempts < MaxAttempts
              /\ moveJobs' = [moveJobs EXCEPT ![j].status = "queued", ![j].lapsed = FALSE]
              /\ UNCHANGED <<entries, operations>>
        /\ workers' = [workers EXCEPT ![w] = IdleWorker]
        /\ UNCHANGED <<galleries, intents, deleteJobs, files, handlers>>

=============================================================================
