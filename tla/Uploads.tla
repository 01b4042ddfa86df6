------------------------------ MODULE Uploads ------------------------------
(***************************************************************************)
(* Uploads: the intent a client creates (convex/entries.ts), the mutations *)
(* of the storage gateway that claim, renew, complete and fail it, the     *)
(* request handler of the storage server between them (storage/upload.ts), *)
(* and the sweep that fails abandoned intents.                             *)
(***************************************************************************)
EXTENDS EntryNames

(***************************************************************************)
(* Client                                                                  *)
(***************************************************************************)

\* Without a policy a name that is taken is refused before any byte is sent.
createUploadIntent(i, folder, name, policy, content) ==
    /\ intents[i].state = "absent"
    /\ ~galleries[GalleryOf[folder]].deleted
    /\ Size[content] <= MaxFileSize[GalleryOf[folder]]
    /\ policy = "ask" => resolveLandingName(folder, name, policy,
                             reservedNameKeys(folder, None, None), None) # {}
    /\ intents' = [intents EXCEPT ![i] = [NoIntent EXCEPT
                      !.state = "pending", !.folder = folder, !.name = name,
                      !.policy = policy, !.content = content]]
    /\ UNCHANGED <<galleries, entries, deleteJobs, moveJobs, operations,
                   files, handlers, workers>>

(***************************************************************************)
(* Storage server and gateway                                              *)
(***************************************************************************)

\* A pending intent, or one whose request stopped renewing its lease.
Claimable(i) ==
    \/ intents[i].state = "pending"
    \/ intents[i].state = "uploading" /\ intents[i].lapsed

\* The token has not expired; when it has, RecoverStaleRequests is what comes.
claimUpload(h, i) ==
    LET intent == intents[i]
        reserved == reservedNameKeys(intent.folder, i, None)
        occupant == findReadyEntryByNameKey(intent.folder, intent.name, None)
    IN  /\ handlers[h].pc = "idle"
        /\ Claimable(i)
        /\ ~galleries[GalleryOf[intent.folder]].deleted
        /\ \E name \in resolveLandingName(intent.folder, intent.name, intent.policy,
                                          reserved, None) :
              /\ intents' = [intents EXCEPT ![i].state = "uploading",
                                            ![i].resolved = name,
                                            ![i].lapsed = FALSE]
              /\ handlers' = [handlers EXCEPT ![h] = [pc |-> "claimed", intent |-> i, name |-> name,
                     replaces |-> replacedKey(intent.folder, occupant, intent.policy)]]
        /\ UNCHANGED <<galleries, entries, deleteJobs, moveJobs, operations, files, workers>>

\* The key comes from the claim, not from what the intent says by now.
keyOf(h) == buildStorageKey(intents[handlers[h].intent].folder, handlers[h].name,
                            intents[handlers[h].intent].content)

\* A file already at a content address is kept and the received copy dropped;
\* on user storage the received file always replaces the one at its path.
keptAsItIs(h) == /\ Storage[GalleryOf[intents[handlers[h].intent].folder]] # "user"
                 /\ files[keyOf(h)] # None

installReplacing(h) ==
    /\ handlers[h].pc = "claimed"
    /\ files' = IF keptAsItIs(h) THEN files
                ELSE [files EXCEPT ![keyOf(h)] = intents[handlers[h].intent].content]
    /\ handlers' = [handlers EXCEPT ![h].pc = "installed"]
    /\ UNCHANGED <<galleries, entries, intents, deleteJobs, moveJobs, operations, workers>>

\* chmod and stat of the installed path, which fail when it is gone by then,
\* and the removal of a replaced file that sat on another path.
statInstalled(h) ==
    LET present == files[keyOf(h)] # None
    IN  /\ handlers[h].pc = "installed"
        /\ IF present THEN removeReplacedFile(handlers[h].replaces, keyOf(h))
           ELSE UNCHANGED files
        /\ handlers' = [handlers EXCEPT ![h].pc = IF present THEN "present" ELSE "failing"]
        /\ UNCHANGED <<galleries, entries, intents, deleteJobs, moveJobs, operations, workers>>

\* The heartbeat; it throws (and aborts the request) once the intent is settled.
renewUpload(h) ==
    LET i == handlers[h].intent
    IN  /\ handlers[h].pc \in {"claimed", "installed", "present"}
        /\ \/ /\ intents[i].state = "uploading"
              /\ intents[i].lapsed
              /\ intents' = [intents EXCEPT ![i].lapsed = FALSE]
              /\ UNCHANGED handlers
           \/ /\ intents[i].state # "uploading"
              /\ handlers' = [handlers EXCEPT ![h].pc = "failing"]
              /\ UNCHANGED intents
        /\ UNCHANGED <<galleries, entries, deleteJobs, moveJobs, operations, files, workers>>

(***************************************************************************)
(* completeUpload                                                          *)
(***************************************************************************)

landedFrom(i) == {e \in EntryIds : /\ entries[e].state \in {"ready", "deleted"}
                                   /\ entries[e].intent = i}

\* by_storageKey finds deleted entries as well.
entriesAt(key) == {e \in EntryIds : /\ entries[e].state \in {"ready", "deleted"}
                                    /\ entries[e].key = key}

\* Fault: only an upload that replaces looks for an entry in its way.
occupantToReplace(i) ==
    IF Kind[GalleryOf[intents[i].folder]] = "image" /\ intents[i].policy = "replace"
    THEN findReadyEntryByNameKey(intents[i].folder, intents[i].resolved, None)
    ELSE None

\* The entry in the way of the upload: its namesake in an image folder.
occupantOf(i) ==
    IF Kind[GalleryOf[intents[i].folder]] = "image"
    THEN findReadyEntryByNameKey(intents[i].folder, intents[i].resolved, None)
    ELSE None

\* The entry it lands on, as a set: that one, else on user storage the entry
\* of its path, which may be a deleted one awaiting cleanup.
existingFor(i, key) ==
    IF occupantOf(i) # None THEN {occupantOf(i)}
    ELSE IF Storage[GalleryOf[intents[i].folder]] = "user" THEN entriesAt(key)
    ELSE {}

\* Fault: a settled intent is accepted again.
acceptedThoughSettled(i, key) ==
    /\ ~galleries[GalleryOf[intents[i].folder]].deleted
    /\ occupantOf(i) # None => intents[i].policy = "replace"

\* Fault: the name settled by the claim is not checked again.
acceptedThoughTaken(i, key) ==
    /\ intents[i].state = "uploading"
    /\ ~galleries[GalleryOf[intents[i].folder]].deleted

\* What the mutation requires; otherwise it throws.  Neither the lease nor the
\* claim it belongs to is looked at.
uploadAccepted(i, key) ==
    /\ intents[i].state = "uploading"
    /\ ~galleries[GalleryOf[intents[i].folder]].deleted
    /\ occupantOf(i) # None => intents[i].policy = "replace"
    /\ Storage[GalleryOf[intents[i].folder]] = "user" =>
          Cardinality(entriesAt(key)) <= 1               \* .unique()

landedEntry(i, key, moveJob) ==
    [state |-> "ready", folder |-> intents[i].folder, name |-> intents[i].resolved,
     content |-> intents[i].content, key |-> key, intent |-> i, moveJob |-> moveJob]

insertUploaded(i, key) ==
    \E e \in EntryIds :
        /\ entries[e].state = "absent"
        /\ entries' = [entries EXCEPT ![e] = landedEntry(i, key, None)]
        /\ galleries' = adjustGalleryStats(galleries, GalleryOf[intents[i].folder],
                                           1, Size[intents[i].content])
        /\ UNCHANGED deleteJobs

\* Fault: a job some worker has claimed already is left alone.
withoutQueuedJobsOf(e) ==
    [j \in DeleteJobIds |-> IF deleteJobs[j].entry = e /\ deleteJobs[j].status = "queued"
                            THEN NoDeleteJob ELSE deleteJobs[j]]

\* The jobs of a replaced entry are dropped whatever their state.
withoutJobsOf(e) ==
    [j \in DeleteJobIds |-> IF deleteJobs[j].entry = e THEN NoDeleteJob ELSE deleteJobs[j]]

\* The file the replaced entry leaves behind, when it had another key.
queueStaleFile(e, key) ==
    IF entries[e].key = key THEN deleteJobs' = withoutJobsOf(e)
    ELSE \E j \in FreeDeleteJobs :
           deleteJobs' = [withoutJobsOf(e) EXCEPT ![j] = QueuedDelete(e, entries[e].key,
               ~keepsReplacedOriginal(GalleryOf[entries[e].folder], entries[e].key, key),
               FALSE)]

\* Fault: a revived entry is taken for a replaced one.
reviveUncounted(i, key, e) ==
    /\ entries' = [entries EXCEPT ![e] = landedEntry(i, key, entries[e].moveJob)]
    /\ galleries' = adjustGalleryStats(galleries, GalleryOf[intents[i].folder],
                                       0, Size[intents[i].content] - SizeOf(e))
    /\ queueStaleFile(e, key)

replaceUploaded(i, key, e) ==
    /\ entries' = [entries EXCEPT ![e] = landedEntry(i, key, entries[e].moveJob)]
    /\ galleries' = adjustGalleryStats(galleries, GalleryOf[intents[i].folder],
                       IF Ready(e) THEN 0 ELSE 1,
                       Size[intents[i].content] - (IF Ready(e) THEN SizeOf(e) ELSE 0))
    /\ queueStaleFile(e, key)

\* answered: whether the handler gets to see the reply before its call times
\* out or its request is aborted.
completeUpload(h, answered) ==
    LET i == handlers[h].intent
    IN  /\ handlers[h].pc = "present"
        /\ IF landedFrom(i) # {}
           THEN UNCHANGED <<galleries, entries, intents, deleteJobs>>
           ELSE /\ uploadAccepted(i, keyOf(h))
                /\ IF existingFor(i, keyOf(h)) = {} THEN insertUploaded(i, keyOf(h))
                   ELSE \E e \in existingFor(i, keyOf(h)) : replaceUploaded(i, keyOf(h), e)
                /\ intents' = [intents EXCEPT ![i].state = "complete", ![i].lapsed = FALSE]
        /\ handlers' = [handlers EXCEPT ![h] = IF answered THEN IdleHandler
                                               ELSE [@ EXCEPT !.pc = "failing"]]
        /\ UNCHANGED <<moveJobs, operations, files, workers>>

\* The mutation throws: entry_exists, gallery gone, intent settled, ...
completeUploadRejected(h) ==
    /\ handlers[h].pc = "present"
    /\ landedFrom(handlers[h].intent) = {}
    /\ ~uploadAccepted(handlers[h].intent, keyOf(h))
    /\ handlers' = [handlers EXCEPT ![h].pc = "failing"]
    /\ UNCHANGED <<galleries, entries, intents, deleteJobs, moveJobs, operations,
                   files, workers>>

(***************************************************************************)
(* Failure                                                                 *)
(***************************************************************************)

\* Client disconnect, task timeout, oversized or malformed body, I/O error,
\* complete-upload unreachable.
abortUpload(h) ==
    /\ handlers[h].pc \in {"claimed", "installed", "present"}
    /\ handlers' = [handlers EXCEPT ![h].pc = "failing"]
    /\ UNCHANGED <<galleries, entries, intents, deleteJobs, moveJobs, operations,
                   files, workers>>

failUpload(h) ==
    LET i == handlers[h].intent
    IN  /\ handlers[h].pc = "failing"
        /\ intents' = [intents EXCEPT ![i].state = IF @ = "complete" THEN @ ELSE "failed",
                                      ![i].lapsed = FALSE]
        /\ handlers' = [handlers EXCEPT ![h] = IdleHandler]
        /\ UNCHANGED <<galleries, entries, deleteJobs, moveJobs, operations, files, workers>>

\* The storage server dies, or its fail-upload call is lost.
handlerCrash(h) ==
    /\ handlers[h].pc # "idle"
    /\ handlers' = [handlers EXCEPT ![h] = IdleHandler]
    /\ UNCHANGED <<galleries, entries, intents, deleteJobs, moveJobs, operations,
                   files, workers>>

\* The clock: two minutes pass without a renewal.
uploadLeaseLapses(i) ==
    /\ intents[i].state = "uploading"
    /\ ~intents[i].lapsed
    /\ intents' = [intents EXCEPT ![i].lapsed = TRUE]
    /\ UNCHANGED <<galleries, entries, deleteJobs, moveJobs, operations,
                   files, handlers, workers>>

\* Fault: an upload whose request died is not swept.
sweepPendingOnly(expired) ==
    /\ expired # {}
    /\ expired \subseteq {i \in IntentIds : intents[i].state = "pending"}
    /\ intents' = [i \in IntentIds |-> IF i \in expired
                                       THEN [intents[i] EXCEPT !.state = "failed"]
                                       ELSE intents[i]]
    /\ UNCHANGED <<galleries, entries, deleteJobs, moveJobs, operations,
                   files, handlers, workers>>

\* expired: the pending intents whose 15-minute token has run out.
recoverStaleRequests(expired) ==
    LET stale == {i \in IntentIds : intents[i].state = "uploading" /\ intents[i].lapsed}
    IN  /\ expired \subseteq {i \in IntentIds : intents[i].state = "pending"}
        /\ stale \cup expired # {}
        /\ intents' = [i \in IntentIds |->
                IF i \in stale \cup expired
                THEN [intents[i] EXCEPT !.state = "failed", !.lapsed = FALSE]
                ELSE intents[i]]
        /\ UNCHANGED <<galleries, entries, deleteJobs, moveJobs, operations,
                       files, handlers, workers>>

=============================================================================
