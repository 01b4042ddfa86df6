----------------------------- MODULE Deletions -----------------------------
(***************************************************************************)
(* How files leave: a user deletes an entry, an upload expires, a gallery  *)
(* is removed.  Each marks entries deleted and queues a storageDeleteJobs  *)
(* row; the storage worker claims the row, unlinks the file when nothing   *)
(* else refers to it and reports back (convex/storageGateway.ts,           *)
(* storage/maintenance.ts).                                                *)
(***************************************************************************)
EXTENDS Catalog

(***************************************************************************)
(* Entries and galleries                                                   *)
(***************************************************************************)

\* entries.remove and removeMany refuse an entry that is being moved.
remove(e, j) ==
    /\ Ready(e)
    /\ entries[e].moveJob = None
    /\ queueEntryDeletion(e, j)
    /\ UNCHANGED <<intents, moveJobs, operations, files, handlers, workers>>

\* entryExpiry.expire: only uploader galleries have expiring files, and an
\* entry being moved is looked at again a minute later.
expire(e, j) ==
    /\ Ready(e)
    /\ Kind[GalleryOf[entries[e].folder]] = "uploader"
    /\ entries[e].moveJob = None
    /\ queueEntryDeletion(e, j)
    /\ UNCHANGED <<intents, moveJobs, operations, files, handlers, workers>>

removeGallery(g) ==
    /\ ~galleries[g].deleted
    /\ galleries' = [galleries EXCEPT ![g].deleted = TRUE, ![g].cleaning = TRUE]
    /\ UNCHANGED <<entries, intents, deleteJobs, moveJobs, operations,
                   files, handlers, workers>>

entriesOf(g) == {e \in EntryIds : Ready(e) /\ GalleryOf[entries[e].folder] = g}

\* galleryCleanup.queueEntries with a batch of one: it deletes an entry that
\* is being moved too, leaves galleryStats alone, and reschedules itself
\* unless its batch was not full.
queueEntries(g) ==
    /\ galleries[g].cleaning
    /\ \/ \E e \in entriesOf(g), j \in FreeDeleteJobs :
            /\ entries' = [entries EXCEPT ![e].state = "deleted"]
            /\ deleteJobs' = [deleteJobs EXCEPT ![j] =
                                 QueuedDelete(e, entries[e].key, TRUE, TRUE)]
            /\ UNCHANGED galleries
       \/ /\ entriesOf(g) = {}
          /\ galleries' = [galleries EXCEPT ![g].cleaning = FALSE]
          /\ UNCHANGED <<entries, deleteJobs>>
    /\ UNCHANGED <<intents, moveJobs, operations, files, handlers, workers>>

(***************************************************************************)
(* The delete branch of claimMaintenance                                   *)
(***************************************************************************)

\* Another ready entry refers to the file; the job's own entry does not count.
referencedElsewhere(job) ==
    \E e \in EntryIds \ {job.entry} : Ready(e) /\ entries[e].key = job.key

\* Fault: attempts are counted and never looked at.
claimDeleteEndlessly(w, j) ==
    /\ workers[w].pc = "idle"
    /\ j \in claimable(deleteJobs)
    /\ deleteJobs' = [deleteJobs EXCEPT ![j].status = "processing",
                                        ![j].attempts = @ + 1,
                                        ![j].lapsed = FALSE]
    /\ workers' = [workers EXCEPT ![w] = [IdleWorker EXCEPT
                      !.pc = "unlinking", !.job = j, !.key = deleteJobs[j].key]]
    /\ UNCHANGED <<galleries, entries, intents, moveJobs, operations, files, handlers>>

claimDelete(w, j) ==
    /\ workers[w].pc = "idle"
    /\ j \in claimable(deleteJobs)
    /\ deleteJobs[j].attempts < MaxAttempts
    /\ deleteJobs' = [deleteJobs EXCEPT ![j].status = "processing",
                                        ![j].attempts = @ + 1,
                                        ![j].lapsed = FALSE]
    /\ workers' = [workers EXCEPT ![w] = [IdleWorker EXCEPT
                      !.pc = "unlinking", !.job = j, !.key = deleteJobs[j].key,
                      !.remove = deleteJobs[j].deleteOriginal
                                 /\ ~referencedElsewhere(deleteJobs[j])]]
    /\ UNCHANGED <<galleries, entries, intents, moveJobs, operations, files, handlers>>

\* A job out of attempts (its workers crashed) fails when it is next claimed.
claimDeleteExhausted(w, j) ==
    /\ workers[w].pc = "idle"
    /\ j \in claimable(deleteJobs)
    /\ deleteJobs[j].attempts = MaxAttempts
    /\ deleteJobs' = [deleteJobs EXCEPT ![j].status = "failed", ![j].lapsed = FALSE]
    /\ UNCHANGED <<galleries, entries, intents, moveJobs, operations,
                   files, handlers, workers>>

deleteLeaseLapses(j) ==
    /\ deleteJobs[j].status = "processing"
    /\ ~deleteJobs[j].lapsed
    /\ deleteJobs' = [deleteJobs EXCEPT ![j].lapsed = TRUE]
    /\ UNCHANGED <<galleries, entries, intents, moveJobs, operations,
                   files, handlers, workers>>

\* The heartbeat; it throws once the job is gone or no longer processing, which
\* aborts the task unless that is past its only check (throwIfAborted).
renewDelete(w) ==
    LET j == workers[w].job
    IN  /\ workers[w].pc \in {"unlinking", "unlinked"}
        /\ \/ /\ deleteJobs[j].status = "processing"
              /\ deleteJobs[j].lapsed
              /\ deleteJobs' = [deleteJobs EXCEPT ![j].lapsed = FALSE]
              /\ UNCHANGED workers
           \/ /\ deleteJobs[j].status # "processing"
              /\ workers[w].pc = "unlinking"
              /\ workers' = [workers EXCEPT ![w].pc = "deleteFailing"]
              /\ UNCHANGED deleteJobs
        /\ UNCHANGED <<galleries, entries, intents, moveJobs, operations, files, handlers>>

(***************************************************************************)
(* processDelete and completeDelete                                        *)
(***************************************************************************)

\* A file that is missing already counts as removed.
unlinkOriginal(w) ==
    /\ workers[w].pc = "unlinking"
    /\ files' = IF workers[w].remove THEN [files EXCEPT ![workers[w].key] = None] ELSE files
    /\ workers' = [workers EXCEPT ![w].pc = "unlinked"]
    /\ UNCHANGED <<galleries, entries, intents, deleteJobs, moveJobs, operations, handlers>>

\* unlink fails, the task is aborted, or complete-delete cannot be reached.
deleteTaskFails(w) ==
    /\ workers[w].pc \in {"unlinking", "unlinked"}
    /\ workers' = [workers EXCEPT ![w].pc = "deleteFailing"]
    /\ UNCHANGED <<galleries, entries, intents, deleteJobs, moveJobs, operations,
                   files, handlers>>

completeDelete(w, answered) ==
    LET j == workers[w].job
        job == deleteJobs[j]
    IN  /\ workers[w].pc = "unlinked"
        /\ deleteJobs' = [deleteJobs EXCEPT ![j] = NoDeleteJob]
        /\ entries' = IF job.deleteEntry      \* a job that is gone deletes nothing
                      THEN [entries EXCEPT ![job.entry] = Blank("purged")]
                      ELSE entries
        /\ workers' = [workers EXCEPT ![w] = IF answered THEN IdleWorker
                                             ELSE [@ EXCEPT !.pc = "deleteFailing"]]
        /\ UNCHANGED <<galleries, intents, moveJobs, operations, files, handlers>>

\* complete-delete with an error: back to the queue, or failed for good.  A job
\* that is gone meanwhile is left alone.
completeDeleteError(w) ==
    LET j == workers[w].job
        job == deleteJobs[j]
    IN  /\ workers[w].pc = "deleteFailing"
        /\ deleteJobs' = IF job.status = "absent" THEN deleteJobs
                         ELSE [deleteJobs EXCEPT ![j].lapsed = FALSE, ![j].status =
                                  IF job.attempts = MaxAttempts THEN "failed" ELSE "queued"]
        /\ workers' = [workers EXCEPT ![w] = IdleWorker]
        /\ UNCHANGED <<galleries, entries, intents, moveJobs, operations, files, handlers>>

\* The worker dies, or its report is lost: only the lease brings the job back.
workerCrash(w) ==
    /\ workers[w].pc # "idle"
    /\ workers' = [workers EXCEPT ![w] = IdleWorker]
    /\ UNCHANGED <<galleries, entries, intents, deleteJobs, moveJobs, operations,
                   files, handlers>>

=============================================================================
