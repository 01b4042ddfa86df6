---------------------------- MODULE GallerySafety ----------------------------
(***************************************************************************)
(* Safety of Gallery for every value of its constants: names stay unique   *)
(* and reserved, uploads land once, deleted entries have one job each.     *)
(* The tables are typed throughout (GalleryTypes), so each proof looks     *)
(* only at the steps that touch what its property reads.                   *)
(***************************************************************************)
EXTENDS GalleryTypes

(***************************************************************************)
(* UniqueReadyNames                                                        *)
(***************************************************************************)

\* No ready entry but those in X is new, elsewhere or renamed.
OnlyNewIn(X) == \A e \in EntryIds \ X : entries'[e].state = "ready" =>
    /\ entries[e].state = "ready"
    /\ entries'[e].folder = entries[e].folder
    /\ entries'[e].name = entries[e].name

\* Names stay unique when at most x arrives somewhere, and finds its name free.
LEMMA OneArrives ==
    ASSUME UniqueReadyNames, NEW x, OnlyNewIn({x}),
           \A d \in EntryIds \ {x} :
              ~(/\ entries'[x].state = "ready" /\ entries'[d].state = "ready"
                /\ entries'[d].folder = entries'[x].folder
                /\ entries'[d].name = entries'[x].name
                /\ Kind[GalleryOf[entries'[x].folder]] = "image")
    PROVE  UniqueReadyNames'
<1> SUFFICES ASSUME NEW e \in EntryIds, NEW d \in EntryIds, e # d,
                    entries'[e].state = "ready", entries'[d].state = "ready",
                    entries'[e].folder = entries'[d].folder,
                    Kind[GalleryOf[entries'[e].folder]] = "image"
             PROVE  entries'[e].name # entries'[d].name
  BY DEF UniqueReadyNames, Ready
<1>1. CASE e = x
  BY <1>1
<1>2. CASE d = x
  BY <1>2
<1>3. CASE e # x /\ d # x
  BY <1>3 DEF OnlyNewIn, UniqueReadyNames, Ready
<1> QED BY <1>1, <1>2, <1>3

\* Names stay unique when nothing arrives.
LEMMA NothingArrives ==
    ASSUME UniqueReadyNames, OnlyNewIn({})
    PROVE  UniqueReadyNames'
BY DEF UniqueReadyNames, OnlyNewIn, Ready

\* Marking an entry as deleted, moving or no longer moving brings nothing new.
LEMMA NothingNew ==
    ASSUME TypeInv, NEW e,
           \/ entries' = [entries EXCEPT ![e].state = "deleted"]
           \/ entries' = [entries EXCEPT ![e] = Blank("purged")]
           \/ \E j : entries' = [entries EXCEPT ![e].moveJob = j]
           \/ entries' = entries
    PROVE  OnlyNewIn({})
BY DEF OnlyNewIn, TypeInv, Rows, EntryRow, Entry, Blank

\* A rename asks for a free name.
LEMMA RenameUnique ==
    ASSUME TypeInv, UniqueReadyNames, NEW e \in EntryIds, NEW n \in Names, rename(e, n)
    PROVE  UniqueReadyNames'
<1>1. entries' = [entries EXCEPT ![e].name = n] /\ entries[e] \in EntryRow
  BY DEF rename, TypeInv, Rows
<1>2. OnlyNewIn({e}) /\ entries'[e].folder = entries[e].folder /\ entries'[e].name = n
  BY <1>1 DEF OnlyNewIn, TypeInv, Rows, EntryRow, Entry
<1>3. readyEntriesNamed(entries[e].folder, n, e) = {}
  BY FindReady DEF rename
<1>4. \A d \in EntryIds \ {e} : entries'[d] = entries[d]
  BY <1>1 DEF TypeInv, Rows
<1> QED BY <1>2, <1>3, <1>4, OneArrives DEF readyEntriesNamed, Ready

\* An upload lands on the namesake it finds, or finds none.
LEMMA CompleteUploadUnique ==
    ASSUME TypeInv, UniqueReadyNames, NEW h \in Handlers, NEW answered \in BOOLEAN,
           completeUpload(h, answered)
    PROVE  UniqueReadyNames'
<1> DEFINE i == handlers[h].intent
           key == keyOf(h)
<1>1. CASE entries' = entries
  BY <1>1, NothingNew, NothingArrives
<1>2. ASSUME NEW e \in EntryIds, NEW m,
             entries' = [entries EXCEPT ![e] = landedEntry(i, key, m)],
             e \in existingFor(i, key) \/ existingFor(i, key) = {}
      PROVE  UniqueReadyNames'
  <2>1. /\ entries'[e].folder = intents[i].folder /\ entries'[e].name = intents[i].resolved
        /\ \A d \in EntryIds \ {e} : entries'[d] = entries[d]
    BY <1>2 DEF landedEntry, TypeInv, Rows
  <2>2. OnlyNewIn({e})
    BY <2>1 DEF OnlyNewIn
  <2>3. ASSUME Kind[GalleryOf[intents[i].folder]] = "image", NEW d \in EntryIds \ {e},
               Ready(d), entries[d].folder = intents[i].folder,
               entries[d].name = intents[i].resolved
        PROVE  FALSE
    <3> DEFINE o == findReadyEntryByNameKey(intents[i].folder, intents[i].resolved, None)
    <3>1. d \in readyEntriesNamed(intents[i].folder, intents[i].resolved, None)
      BY <2>3, NoneType DEF readyEntriesNamed
    <3>2. o # None /\ o \in readyEntriesNamed(intents[i].folder, intents[i].resolved, None)
      BY <3>1, FindReady
    <3>3. occupantOf(i) = o
      BY <2>3 DEF occupantOf
    <3>4. e = o
      BY <1>2, <3>2, <3>3 DEF existingFor
    <3>5. e \in EntryIds /\ Ready(e) /\ entries[e].folder = entries[d].folder
          /\ entries[e].name = entries[d].name
      BY <2>3, <3>2, <3>4 DEF readyEntriesNamed
    <3> QED BY <2>3, <3>5 DEF UniqueReadyNames
  <2> QED BY <2>1, <2>2, <2>3, OneArrives DEF Ready
<1>3. CASE entries' # entries
  <2>1. \/ existingFor(i, key) = {} /\ insertUploaded(i, key)
        \/ \E e \in existingFor(i, key) : replaceUploaded(i, key, e)
    BY <1>3 DEF completeUpload
  <2>2. existingFor(i, key) \subseteq EntryIds
    BY FindReady, NoneType DEF existingFor, occupantOf, entriesAt, readyEntriesNamed
  <2> HIDE DEF i, key
  <2> QED BY <1>2, <2>1, <2>2 DEF insertUploaded, replaceUploaded
<1> QED BY <1>1, <1>3

\* A move lands on a free name, or its occupant leaves in the same step.
LEMMA LandMoveUnique ==
    ASSUME TypeInv, UniqueReadyNames, NEW j \in MoveJobIds, moveJobs[j].status # "absent",
           sourceUnchanged(j), NEW key, landMove(j, key)
    PROVE  UniqueReadyNames'
<1> DEFINE job      == moveJobs[j]
           e        == job.entry
           o        == occupantAt(j)
           landed   == [entries EXCEPT ![e].folder = job.folder, ![e].name = landingName(job),
                                       ![e].key = key, ![e].moveJob = None]
<1>1. e \in EntryIds /\ Ready(e) /\ entries[e] \in EntryRow
  BY DEF TypeInv, Rows, MoveRow, sourceUnchanged
<1>2. IF o = None THEN readyEntriesNamed(job.folder, landingName(job), e) = {}
      ELSE o \in readyEntriesNamed(job.folder, landingName(job), e)
  BY FindReady DEF occupantAt
<1>3. /\ landed[e].folder = job.folder /\ landed[e].name = landingName(job)
      /\ \A d \in EntryIds \ {e} : landed[d] = entries[d]
      /\ DOMAIN landed = EntryIds
  BY <1>1 DEF TypeInv, Rows, EntryRow, Entry
<1>4. entries' = IF o = None THEN landed ELSE [landed EXCEPT ![o].state = "deleted"]
  BY DEF landMove
<1> HIDE DEF landed
<1>5. CASE o = None
  <2>1. OnlyNewIn({e})
    BY <1>3, <1>4, <1>5 DEF OnlyNewIn
  <2> QED BY <1>2, <1>3, <1>4, <1>5, <2>1, OneArrives DEF readyEntriesNamed, Ready
<1>6. CASE o # None
  <2>1. o \in EntryIds /\ o # e /\ Ready(o) /\ entries[o].folder = job.folder
        /\ entries[o].name = landingName(job) /\ entries[o] \in EntryRow
    BY <1>2, <1>6 DEF readyEntriesNamed, TypeInv, Rows
  <2>2. /\ entries'[o].state = "deleted" /\ entries'[e] = landed[e]
        /\ \A d \in EntryIds \ {e, o} : entries'[d] = entries[d]
    BY <1>3, <1>4, <1>6, <2>1 DEF EntryRow, Entry
  <2>3. OnlyNewIn({e})
    BY <2>2 DEF OnlyNewIn
  <2>4. ASSUME Kind[GalleryOf[job.folder]] = "image", NEW d \in EntryIds \ {e},
               entries'[d].state = "ready", entries'[d].folder = job.folder,
               entries'[d].name = landingName(job)
        PROVE  FALSE
    <3>1. d # o /\ entries'[d] = entries[d]
      BY <2>2, <2>4
    <3> QED BY <2>1, <2>4, <3>1 DEF UniqueReadyNames, Ready
  <2>5. entries'[e].folder = job.folder /\ entries'[e].name = landingName(job)
    BY <1>3, <2>2
  <2> HIDE DEF e, job
  <2> QED BY <1>1, <2>3, <2>4, <2>5, OneArrives
<1> QED BY <1>5, <1>6

\* All a step can do to the entries.
LEMMA EntriesChange ==
    ASSUME TypeInv, [Next]_vars
    PROVE  \/ entries' = entries
           \/ \E e, j : entries' = [entries EXCEPT ![e].moveJob = j]
           \/ \E e \in EntryIds : entries' = [entries EXCEPT ![e].state = "deleted"]
           \/ \E e : entries' = [entries EXCEPT ![e] = Blank("purged")]
           \/ \E e \in EntryIds, n \in Names : rename(e, n)
           \/ \E h \in Handlers, answered \in BOOLEAN : completeUpload(h, answered)
           \/ \E j \in MoveJobIds, key \in Keys :
                 moveJobs[j].status # "absent" /\ sourceUnchanged(j) /\ landMove(j, key)
<1>1. CASE UNCHANGED vars
  BY <1>1 DEF vars
<1>2. CASE Client
  <2>1. CASE StartUpload \/ RemoveGallery \/ Dismiss
    BY <2>1 DEF StartUpload, createUploadIntent, RemoveGallery, removeGallery, Dismiss,
                dismissFinished
  <2>2. CASE Rename
    BY <2>2 DEF Rename
  <2>3. CASE Remove
    BY <2>3 DEF Remove, remove, expire, queueEntryDeletion
  <2>4. CASE StartBulk
    BY <2>4, ZenonT(60) DEF StartBulk, startDelete, startMove, insertOperation
  <2>5. CASE Resolve
    BY <2>5 DEF Resolve, resolveConflict, resolveParkedJob, queueMoveJob, resolveConflicts
  <2> QED BY <1>2, <2>1, <2>2, <2>3, <2>4, <2>5 DEF Client
<1>3. CASE StorageServer
  <2>1. PICK h \in Handlers :
           Claim(h) \/ Serve(h) \/ renewUpload(h) \/ abortUpload(h) \/ handlerCrash(h)
    BY <1>3 DEF StorageServer
  <2>2. CASE Claim(h) \/ renewUpload(h) \/ abortUpload(h) \/ handlerCrash(h)
    BY <2>2 DEF Claim, claimUpload, renewUpload, abortUpload, handlerCrash
  <2>3. CASE Serve(h)
    BY <2>3 DEF Serve, installReplacing, statInstalled, completeUploadRejected, failUpload
  <2> QED BY <2>1, <2>2, <2>3
<1>4. CASE StorageWorker
  <2>1. PICK w \in Workers :
           \/ ClaimMaintenance(w) \/ Work(w) \/ renewDelete(w) \/ renewEntryMove(w)
           \/ deleteTaskFails(w) \/ moveTaskFails(w) \/ workerCrash(w)
    BY <1>4 DEF StorageWorker
  <2>2. CASE renewDelete(w) \/ renewEntryMove(w)
             \/ deleteTaskFails(w) \/ moveTaskFails(w) \/ workerCrash(w)
    BY <2>2 DEF renewDelete, renewEntryMove, deleteTaskFails, moveTaskFails, workerCrash
  <2>3. CASE ClaimMaintenance(w)
    BY <2>3 DEF ClaimMaintenance, claimDelete, claimDeleteExhausted, claimMove,
                claimMoveRefused, failMove
  <2>4. CASE \E answered \in BOOLEAN : completeEntryMove(w, answered)
    <3>1. workers[w].job \in MoveJobIds /\ workers[w].dest \in Keys
      BY <2>4 DEF completeEntryMove, TypeInv, Rows, WorkerRow, Moving
    <3> QED BY <2>4, <3>1 DEF completeEntryMove, failCompletion
  <2>5. CASE unlinkOriginal(w) \/ completeDeleteError(w) \/ lookAtDestination(w)
             \/ copyAtomically(w) \/ statCopied(w) \/ completeEntryMoveThrows(w)
             \/ completeEntryMoveError(w)
    BY <2>5 DEF unlinkOriginal, completeDeleteError, lookAtDestination, copyAtomically,
                statCopied, completeEntryMoveThrows, completeEntryMoveError, failMove
  <2>6. CASE \E answered \in BOOLEAN : completeDelete(w, answered)
    BY <2>6 DEF completeDelete
  <2> QED BY <2>1, <2>2, <2>3, <2>4, <2>5, <2>6 DEF Work
<1>5. CASE Scheduler
  <2>1. CASE Lapse \/ Sweep
    BY <2>1 DEF Lapse, uploadLeaseLapses, deleteLeaseLapses, moveLeaseLapses, Sweep,
                recoverStaleRequests
  <2>2. CASE CleanUp
    BY <2>2 DEF CleanUp, queueEntries, entriesOf
  <2>3. CASE \E o \in OperationIds : ProcessBulk(o)
    <3>1. PICK o \in OperationIds : ProcessBulk(o)
      BY <2>3
    <3>2. CASE processSourceGone(o) \/ processNothing(o)
      BY <3>2 DEF processSourceGone, processNothing
    <3>3. CASE applyConflictPolicy(o)
      <4>1. ASSUME NEW j, NEW p, resolveParkedJob(j, p)
            PROVE  entries' = entries \/ \E e, k : entries' = [entries EXCEPT ![e].moveJob = k]
        BY <4>1 DEF resolveParkedJob, queueMoveJob
      <4> QED BY <3>3, <4>1 DEF applyConflictPolicy
    <3>4. CASE \E e \in EntryIds : process(o, e)
      <4>1. PICK e \in EntryIds :
               refuseItem(o, e) \/ deleteItem(o, e) \/ keepItem(o, e) \/ moveItem(o, e)
        BY <3>4 DEF process
      <4>2. CASE moveItem(o, e)
        BY <4>2 DEF moveItem, queueMoveJob
      <4>3. CASE refuseItem(o, e) \/ deleteItem(o, e) \/ keepItem(o, e)
        BY <4>3 DEF refuseItem, deleteItem, queueEntryDeletion, keepItem
      <4> QED BY <4>1, <4>2, <4>3
    <3> QED BY <3>1, <3>2, <3>3, <3>4 DEF ProcessBulk
  <2> QED BY <1>5, <2>1, <2>2, <2>3 DEF Scheduler
<1> QED BY <1>1, <1>2, <1>3, <1>4, <1>5 DEF Next

\* An image folder holds a name once, whichever of uploads, moves and renames
\* brought it there and however they interleave (entryNames.ts).
THEOREM NamesStayUnique == Spec => []UniqueReadyNames
<1>1. Init => UniqueReadyNames
  BY SeedsAssumption DEF Init, UniqueReadyNames, Ready, Blank
<1>2. TypeInv /\ UniqueReadyNames /\ [Next]_vars => UniqueReadyNames'
  <2> SUFFICES ASSUME TypeInv, UniqueReadyNames, [Next]_vars PROVE UniqueReadyNames'
    OBVIOUS
  <2>1. CASE \/ entries' = entries
             \/ \E e, j : entries' = [entries EXCEPT ![e].moveJob = j]
             \/ \E e \in EntryIds : entries' = [entries EXCEPT ![e].state = "deleted"]
             \/ \E e : entries' = [entries EXCEPT ![e] = Blank("purged")]
    BY <2>1, NothingNew, NothingArrives
  <2>2. CASE \E e \in EntryIds, n \in Names : rename(e, n)
    BY <2>2, RenameUnique
  <2>3. CASE \E h \in Handlers, answered \in BOOLEAN : completeUpload(h, answered)
    BY <2>3, CompleteUploadUnique
  <2>4. CASE \E j \in MoveJobIds, key \in Keys :
                moveJobs[j].status # "absent" /\ sourceUnchanged(j) /\ landMove(j, key)
    BY <2>4, LandMoveUnique
  <2> QED BY <2>1, <2>2, <2>3, <2>4, EntriesChange
<1> QED BY <1>1, <1>2, RowsCorrect, PTL DEF Spec

(***************************************************************************)
(* Uploads                                                                 *)
(***************************************************************************)

Settled == {"complete", "failed"}

\* The intents in X have settled; nothing else happened to any.
SettledIn(X) == \A i \in IntentIds :
    IF i \in X
    THEN /\ intents[i].state \in {"pending", "uploading"}
         /\ intents'[i].state \in Settled
         /\ ~intents'[i].lapsed
    ELSE intents'[i] = intents[i]

\* All a step can do to the intents.
LEMMA IntentsChange ==
    ASSUME TypeInv, [Next]_vars
    PROVE  \/ intents' = intents
           \/ \E i \in IntentIds : /\ intents[i].state = "absent"
                                   /\ intents'[i].state = "pending"
                                   /\ ~intents'[i].lapsed
                                   /\ \A k \in IntentIds \ {i} : intents'[k] = intents[k]
           \/ \E h \in Handlers, i \in IntentIds : claimUpload(h, i)
           \/ \E i \in IntentIds, b \in BOOLEAN :
                 /\ intents[i].state = "uploading"
                 /\ intents' = [intents EXCEPT ![i].lapsed = b]
           \/ \E h \in Handlers : failUpload(h)
           \/ \E X \in SUBSET IntentIds : SettledIn(X)
<1>1. CASE UNCHANGED vars
  BY <1>1 DEF vars
<1>2. CASE Client
  <2>1. CASE StartUpload
    <3>1. PICK i \in IntentIds, f \in Folders, s \in Stems, p \in Policies, c \in Contents :
             createUploadIntent(i, f, <<s, 1>>, p, c)
      BY <2>1 DEF StartUpload
    <3> DEFINE row == [NoIntent EXCEPT !.state = "pending", !.folder = f, !.name = <<s, 1>>,
                                       !.policy = p, !.content = c]
    <3>2. row.state = "pending" /\ row.lapsed = FALSE
      BY DEF NoIntent
    <3>3. intents' = [intents EXCEPT ![i] = row] /\ intents[i].state = "absent"
      BY <3>1 DEF createUploadIntent
    <3> HIDE DEF row
    <3>4. intents'[i] = row /\ \A k \in IntentIds \ {i} : intents'[k] = intents[k]
      BY <3>3 DEF TypeInv, Rows
    <3> QED BY <3>2, <3>3, <3>4
  <2>2. CASE Rename \/ Remove \/ RemoveGallery
    BY <2>2 DEF Rename, rename, Remove, remove, expire, RemoveGallery, removeGallery
  <2>3. CASE StartBulk \/ Dismiss
    BY <2>3, ZenonT(60) DEF StartBulk, startDelete, startMove, insertOperation, Dismiss, dismissFinished
  <2>4. CASE Resolve
    BY <2>4 DEF Resolve, resolveConflict, resolveConflicts
  <2> QED BY <1>2, <2>1, <2>2, <2>3, <2>4 DEF Client
<1>3. CASE StorageServer
  <2>1. PICK h \in Handlers :
           Claim(h) \/ Serve(h) \/ renewUpload(h) \/ abortUpload(h) \/ handlerCrash(h)
    BY <1>3 DEF StorageServer
  <2>2. CASE abortUpload(h) \/ handlerCrash(h) \/ installReplacing(h) \/ statInstalled(h)
             \/ completeUploadRejected(h)
    BY <2>2 DEF abortUpload, handlerCrash, installReplacing, statInstalled,
                completeUploadRejected
  <2>3. CASE renewUpload(h)
    <3>1. handlers[h].intent \in IntentIds
      BY <2>3, KeyOfType DEF renewUpload
    <3> QED BY <2>3, <3>1 DEF renewUpload
  <2>4. CASE \E answered \in BOOLEAN : completeUpload(h, answered)
    <3> DEFINE i == handlers[h].intent
    <3>1. i \in IntentIds
      BY <2>4, KeyOfType DEF completeUpload
    <3>2. CASE intents' = intents
      BY <3>2
    <3>3. CASE intents' # intents
      <4>1. /\ intents[i].state = "uploading"
            /\ intents' = [intents EXCEPT ![i].state = "complete", ![i].lapsed = FALSE]
        BY <2>4, <3>3 DEF completeUpload, uploadAccepted
      <4>2. SettledIn({i})
        BY <3>1, <4>1 DEF SettledIn, Settled, TypeInv, Rows, IntentRow, Intent
      <4> QED BY <3>1, <4>2
    <3> QED BY <3>2, <3>3
  <2> QED BY <2>1, <2>2, <2>3, <2>4 DEF Claim, Serve
<1>4. CASE StorageWorker
  <2>1. PICK w \in Workers :
           \/ ClaimMaintenance(w) \/ Work(w) \/ renewDelete(w) \/ renewEntryMove(w)
           \/ deleteTaskFails(w) \/ moveTaskFails(w) \/ workerCrash(w)
    BY <1>4 DEF StorageWorker
  <2>2. CASE renewDelete(w) \/ renewEntryMove(w)
             \/ deleteTaskFails(w) \/ moveTaskFails(w) \/ workerCrash(w)
    BY <2>2 DEF renewDelete, renewEntryMove, deleteTaskFails, moveTaskFails, workerCrash
  <2>3. CASE ClaimMaintenance(w)
    BY <2>3 DEF ClaimMaintenance, claimDelete, claimDeleteExhausted, claimMove,
                claimMoveRefused
  <2>4. CASE Work(w)
    BY <2>4 DEF Work, unlinkOriginal, completeDelete, completeEntryMove, completeDeleteError,
                lookAtDestination, copyAtomically, statCopied, completeEntryMoveThrows,
                completeEntryMoveError
  <2> QED BY <2>1, <2>2, <2>3, <2>4
<1>5. CASE Scheduler
  <2>1. CASE Lapse
    BY <2>1 DEF Lapse, uploadLeaseLapses, deleteLeaseLapses, moveLeaseLapses
  <2>2. CASE Sweep
    <3>1. PICK expired \in SUBSET IntentIds : recoverStaleRequests(expired)
      BY <2>2 DEF Sweep
    <3> DEFINE X == expired \cup
                    {i \in IntentIds : intents[i].state = "uploading" /\ intents[i].lapsed}
    <3>2. \A i \in IntentIds : intents'[i] = IF i \in X
               THEN [intents[i] EXCEPT !.state = "failed", !.lapsed = FALSE] ELSE intents[i]
      BY <3>1 DEF recoverStaleRequests
    <3>3. \A i \in X : intents[i].state \in {"pending", "uploading"}
      BY <3>1 DEF recoverStaleRequests
    <3> HIDE DEF X
    <3>4. \A r \in IntentRow : LET s == [r EXCEPT !.state = "failed", !.lapsed = FALSE]
                               IN  s.state = "failed" /\ s.lapsed = FALSE
      BY DEF IntentRow, Intent
    <3>5. SettledIn(X)
      BY <3>2, <3>3, <3>4 DEF SettledIn, Settled, TypeInv, Rows
    <3> QED BY <3>5 DEF X
  <2>3. CASE CleanUp
    BY <2>3 DEF CleanUp, queueEntries
  <2>4. CASE \E o \in OperationIds : ProcessBulk(o)
    BY <2>4 DEF ProcessBulk, process, processSourceGone, processNothing, applyConflictPolicy
  <2> QED BY <1>5, <2>1, <2>2, <2>3, <2>4 DEF Scheduler
<1> QED BY <1>1, <1>2, <1>3, <1>4, <1>5 DEF Next

\* The lease of a settled upload is over.
SettledQuiet == \A i \in IntentIds : intents[i].state \in Settled => ~intents[i].lapsed

\* Settling an upload ends its lease, and no settled upload gets another.
LEMMA QuietStep == TypeInv /\ SettledQuiet /\ [Next]_vars => SettledQuiet'
<1> SUFFICES ASSUME TypeInv, SettledQuiet, [Next]_vars,
                    NEW k \in IntentIds, intents'[k].state \in Settled
             PROVE  ~intents'[k].lapsed
  BY DEF SettledQuiet
<1>1. CASE intents' = intents
  BY <1>1 DEF SettledQuiet
<1>2. CASE \E i \in IntentIds : /\ intents[i].state = "absent"
                                /\ intents'[i].state = "pending"
                                /\ ~intents'[i].lapsed
                                /\ \A x \in IntentIds \ {i} : intents'[x] = intents[x]
  BY <1>2 DEF SettledQuiet
<1>3. CASE \E h \in Handlers, i \in IntentIds : claimUpload(h, i)
  BY <1>3 DEF SettledQuiet, claimUpload, TypeInv, Rows, IntentRow, Intent
<1>4. CASE \E i \in IntentIds, b \in BOOLEAN :
              /\ intents[i].state = "uploading"
              /\ intents' = [intents EXCEPT ![i].lapsed = b]
  <2>1. PICK i \in IntentIds, b \in BOOLEAN : /\ intents[i].state = "uploading"
                                              /\ intents' = [intents EXCEPT ![i].lapsed = b]
    BY <1>4
  <2>2. intents'[k].state = intents[k].state
    BY <2>1 DEF TypeInv, Rows, IntentRow, Intent
  <2>3. k # i /\ intents'[k] = intents[k]
    BY <2>1, <2>2 DEF Settled, TypeInv, Rows
  <2> QED BY <2>3 DEF SettledQuiet
<1>5. CASE \E h \in Handlers : failUpload(h)
  BY <1>5 DEF SettledQuiet, failUpload, TypeInv, Rows, IntentRow, Intent
<1>6. CASE \E X \in SUBSET IntentIds : SettledIn(X)
  BY <1>6 DEF SettledQuiet, SettledIn
<1> QED BY <1>1, <1>2, <1>3, <1>4, <1>5, <1>6, IntentsChange

\* A settled upload is not touched any more.
LEMMA SettledStays ==
    ASSUME TypeInv, SettledQuiet, [Next]_vars,
           NEW i \in IntentIds, intents[i].state \in Settled
    PROVE  intents'[i] = intents[i]
<1>0. intents[i] \in IntentRow /\ intents[i].lapsed = FALSE
  BY DEF TypeInv, Rows, SettledQuiet, IntentRow, Intent
<1>1. CASE intents' = intents
  BY <1>1
<1>2. CASE \E k \in IntentIds : /\ intents[k].state = "absent"
                                /\ intents'[k].state = "pending"
                                /\ ~intents'[k].lapsed
                                /\ \A x \in IntentIds \ {k} : intents'[x] = intents[x]
  BY <1>2 DEF Settled
<1>3. CASE \E h \in Handlers, k \in IntentIds : claimUpload(h, k)
  BY <1>3 DEF Settled, claimUpload, Claimable, TypeInv, Rows
<1>4. CASE \E k \in IntentIds, b \in BOOLEAN :
              /\ intents[k].state = "uploading"
              /\ intents' = [intents EXCEPT ![k].lapsed = b]
  BY <1>4 DEF Settled, TypeInv, Rows
<1>5. CASE \E h \in Handlers : failUpload(h)
  <2>1. PICK h \in Handlers : failUpload(h)
    BY <1>5
  <2>2. CASE handlers[h].intent = i
    BY <1>0, <2>1, <2>2 DEF failUpload, Settled, TypeInv, Rows, IntentRow, Intent
  <2>3. CASE handlers[h].intent # i
    BY <2>1, <2>3 DEF failUpload, TypeInv, Rows
  <2> QED BY <2>2, <2>3
<1>6. CASE \E X \in SUBSET IntentIds : SettledIn(X)
  BY <1>6 DEF SettledIn, Settled
<1> QED BY <1>1, <1>2, <1>3, <1>4, <1>5, <1>6, IntentsChange

\* An entry takes over an upload only in the step that completes it.
LEMMA TakenOverWhenCompleted ==
    ASSUME TypeInv, [Next]_vars, NEW i \in IntentIds, NEW e \in EntryIds,
           entries[e].intent # i, entries'[e].intent = i
    PROVE  intents[i].state = "uploading" /\ intents'[i].state = "complete"
<1>0. entries[e] \in EntryRow /\ i # None
  BY NoneType DEF TypeInv, Rows
<1>1. CASE \/ entries' = entries
           \/ \E d, j : entries' = [entries EXCEPT ![d].moveJob = j]
           \/ \E d \in EntryIds : entries' = [entries EXCEPT ![d].state = "deleted"]
           \/ \E d : entries' = [entries EXCEPT ![d] = Blank("purged")]
           \/ \E d \in EntryIds, n \in Names : rename(d, n)
  BY <1>0, <1>1 DEF Blank, rename, TypeInv, Rows, EntryRow, Entry
<1>2. CASE \E j \in MoveJobIds, key \in Keys :
              moveJobs[j].status # "absent" /\ sourceUnchanged(j) /\ landMove(j, key)
  <2>1. PICK j \in MoveJobIds, key \in Keys : landMove(j, key)
    BY <1>2
  <2> DEFINE job    == moveJobs[j]
             landed == [entries EXCEPT ![job.entry].folder = job.folder,
                                       ![job.entry].name = landingName(job),
                                       ![job.entry].key = key, ![job.entry].moveJob = None]
             o      == occupantAt(j)
  <2>2. landed[e].intent = entries[e].intent
    BY <1>0 DEF TypeInv, Rows, EntryRow, Entry
  <2> QED BY <1>0, <2>1 DEF landMove, TypeInv, Rows, EntryRow, Entry
<1>3. CASE \E h \in Handlers, answered \in BOOLEAN : completeUpload(h, answered)
  <2>1. PICK h \in Handlers, answered \in BOOLEAN : completeUpload(h, answered)
    BY <1>3
  <2> DEFINE k == handlers[h].intent
  <2>2. k \in IntentIds
    BY <2>1, KeyOfType DEF completeUpload
  <2>3. intents[k].state = "uploading" /\ intents'[k].state = "complete"
    BY <1>0, <2>1, <2>2 DEF completeUpload, uploadAccepted, TypeInv, Rows, IntentRow, Intent
  <2>4. \E d \in EntryIds : \E m : entries' = [entries EXCEPT ![d] = landedEntry(k, keyOf(h), m)]
    <3>1. existingFor(k, keyOf(h)) \subseteq EntryIds
      BY FindReady, NoneType DEF existingFor, occupantOf, entriesAt, readyEntriesNamed
    <3>2. entries' # entries
      BY <1>0
    <3> QED BY <2>1, <3>1, <3>2 DEF completeUpload, insertUploaded, replaceUploaded
  <2>5. k = i
    BY <1>0, <2>4 DEF landedEntry, TypeInv, Rows
  <2> QED BY <2>3, <2>5
<1> QED BY <1>1, <1>2, <1>3, EntriesChange

\* A settled upload stays settled and a file lands at most once, however often
\* a request is retried, its reply lost or its intent claimed again
\* (completeUpload's by_uploadIntentId check, failUpload).
THEOREM UploadsLandOnce == Spec => LandsOnce
<1>1. Init => SettledQuiet
  BY DEF Init, SettledQuiet, NoIntent
<1>2. TypeInv /\ SettledQuiet /\ [Next]_vars =>
        [\A i \in IntentIds :
          /\ intents[i].state \in {"complete", "failed"} => intents'[i] = intents[i]
          /\ (\E e \in EntryIds : entries[e].intent # i /\ entries'[e].intent = i)
             => intents[i].state = "uploading" /\ intents'[i].state = "complete"]_vars
  BY SettledStays, TakenOverWhenCompleted DEF Settled
<1> QED BY <1>1, <1>2, QuietStep, RowsCorrect, PTL DEF Spec, LandsOnce

(***************************************************************************)
(* ReservationsExclusive                                                   *)
(***************************************************************************)

\* In an image folder a file lands on a reserved name only to replace.
LEMMA LandingUnreserved ==
    ASSUME NEW f \in Folders, Kind[GalleryOf[f]] = "image", NEW n, NEW p \in Policies,
           NEW reserved, NEW x, NEW y \in resolveLandingName(f, n, p, reserved, x)
    PROVE  y \notin reserved \/ p = "replace"
<1>1. CASE ~nameTaken(f, n, reserved, x)
  BY <1>1 DEF resolveLandingName, nameTaken
<1>2. CASE nameTaken(f, n, reserved, x) /\ p = "ask"
  BY <1>2 DEF resolveLandingName
<1>3. CASE nameTaken(f, n, reserved, x) /\ p = "rename"
  <2>1. y \in pickAvailableName(f, n, reserved, x)
    BY <1>3 DEF resolveLandingName
  <2>2. ~nameTaken(f, y, reserved, x)
    BY <2>1 DEF pickAvailableName
  <2> QED BY <2>2 DEF nameTaken
<1> QED BY <1>1, <1>2, <1>3 DEF Policies

\* An upload is as much of a claim on a name as it was before.
KeptOrReleased(i) ==
    intents'[i].state = "uploading" =>
        /\ intents[i].state = "uploading"
        /\ intents'[i].folder = intents[i].folder
        /\ intents'[i].resolved = intents[i].resolved
        /\ intents'[i].policy = intents[i].policy

\* A claim that reserves what nobody else has reserved keeps names exclusive.
LEMMA ClaimExclusive ==
    ASSUME TypeInv, ReservationsExclusive, NEW h \in Handlers, NEW k \in IntentIds,
           claimUpload(h, k)
    PROVE  ReservationsExclusive'
<1> DEFINE f == intents[k].folder
           reserved == reservedNameKeys(f, k, None)
<1>0. intents[k] \in IntentRow /\ intents[k].state # "absent"
  BY DEF claimUpload, Claimable, TypeInv, Rows
<1>1. PICK name \in resolveLandingName(f, intents[k].name, intents[k].policy, reserved, None) :
         intents' = [intents EXCEPT ![k].state = "uploading", ![k].resolved = name,
                                    ![k].lapsed = FALSE]
  BY DEF claimUpload
<1>2. /\ intents'[k].folder = f /\ intents'[k].resolved = name
      /\ intents'[k].policy = intents[k].policy
      /\ f \in Folders /\ intents[k].policy \in Policies
  BY <1>0, <1>1 DEF TypeInv, Rows, IntentRow, Intent
<1>3. \A i \in IntentIds \ {k} : intents'[i] = intents[i]
  BY <1>1 DEF TypeInv, Rows
<1>4. Kind[GalleryOf[f]] = "image" => name \notin reserved \/ intents[k].policy = "replace"
  BY <1>1, <1>2, LandingUnreserved
<1>5. \A i \in IntentIds \ {k} :
         intents[i].state = "uploading" /\ intents[i].folder = f => intents[i].resolved \in reserved
  BY DEF reservedNameKeys
<1> HIDE DEF f, reserved
<1> QED BY <1>2, <1>3, <1>4, <1>5 DEF ReservationsExclusive

\* Two requests past their claim hold the same name of an image folder only if
\* one of them replaces what it finds (claimUpload, reservedNameKeys).
THEOREM ReservationsStayExclusive == Spec => []ReservationsExclusive
<1>1. Init => ReservationsExclusive
  BY DEF Init, ReservationsExclusive, NoIntent
<1>2. TypeInv /\ ReservationsExclusive /\ [Next]_vars => ReservationsExclusive'
  <2> SUFFICES ASSUME TypeInv, ReservationsExclusive, [Next]_vars PROVE ReservationsExclusive'
    OBVIOUS
  <2>1. ASSUME \A i \in IntentIds : KeptOrReleased(i) PROVE ReservationsExclusive'
    BY <2>1 DEF ReservationsExclusive, KeptOrReleased
  <2>2. CASE intents' = intents
    BY <2>1, <2>2 DEF KeptOrReleased
  <2>3. CASE \E k \in IntentIds : /\ intents[k].state = "absent"
                                  /\ intents'[k].state = "pending"
                                  /\ ~intents'[k].lapsed
                                  /\ \A x \in IntentIds \ {k} : intents'[x] = intents[x]
    BY <2>1, <2>3 DEF KeptOrReleased
  <2>4. CASE \E h \in Handlers, k \in IntentIds : claimUpload(h, k)
    BY <2>4, ClaimExclusive
  <2>5. CASE \E k \in IntentIds, b \in BOOLEAN :
                /\ intents[k].state = "uploading"
                /\ intents' = [intents EXCEPT ![k].lapsed = b]
    <3>1. \A i \in IntentIds : KeptOrReleased(i)
      BY <2>5 DEF KeptOrReleased, TypeInv, Rows, IntentRow, Intent
    <3> QED BY <2>1, <3>1
  <2>6. CASE \E h \in Handlers : failUpload(h)
    <3>1. PICK h \in Handlers : failUpload(h)
      BY <2>6
    <3>2. \A i \in IntentIds : KeptOrReleased(i)
      BY <3>1 DEF failUpload, KeptOrReleased, TypeInv, Rows, IntentRow, Intent
    <3> QED BY <2>1, <3>2
  <2>7. CASE \E X \in SUBSET IntentIds : SettledIn(X)
    <3>1. \A i \in IntentIds : KeptOrReleased(i)
      BY <2>7 DEF SettledIn, Settled, KeptOrReleased
    <3> QED BY <2>1, <3>1
  <2> QED BY <2>2, <2>3, <2>4, <2>5, <2>6, <2>7, IntentsChange
<1> QED BY <1>1, <1>2, RowsCorrect, PTL DEF Spec

(***************************************************************************)
(* DeletedHaveOneJob                                                       *)
(***************************************************************************)

\* The inductive form: a set with one element instead of a cardinality, and no
\* row that is gone would delete an entry if it were reported on once more.
PurgeInv ==
    /\ \A e \in EntryIds : IF entries[e].state = "deleted"
                           THEN \E j \in DeleteJobIds : purging(e) = {j}
                           ELSE purging(e) = {}
    /\ \A j \in DeleteJobIds : deleteJobs[j].status = "absent" => ~deleteJobs[j].deleteEntry

\* The delete jobs there are, and what they are for, stay the same.
JobsSteady == \A j \in DeleteJobIds :
    /\ deleteJobs'[j].status = "absent" <=> deleteJobs[j].status = "absent"
    /\ deleteJobs'[j].entry = deleteJobs[j].entry
    /\ deleteJobs'[j].deleteEntry = deleteJobs[j].deleteEntry

\* No entry becomes deleted or is deleted no longer.
StatesSteady == \A e \in EntryIds :
    entries'[e].state = "deleted" <=> entries[e].state = "deleted"

\* Nothing about deleted entries changes when neither they nor their jobs do.
LEMMA SteadyPurge ==
    ASSUME PurgeInv, JobsSteady, StatesSteady
    PROVE  PurgeInv'
<1>1. \A e \in EntryIds : purging(e)' = purging(e)
  BY DEF purging, JobsSteady
<1> QED BY <1>1 DEF PurgeInv, JobsSteady, StatesSteady

\* A ready entry is deleted and a row queued that will remove it.
EntryQueued(e, j) ==
    /\ Ready(e)
    /\ j \in FreeDeleteJobs
    /\ entries' = [entries EXCEPT ![e].state = "deleted"]
    /\ deleteJobs' = [deleteJobs EXCEPT ![j] = QueuedDelete(e, entries[e].key, TRUE, TRUE)]

\* What a queued row is for.
LEMMA QueuedDeleteIs ==
    ASSUME NEW e, NEW k, NEW original \in BOOLEAN, NEW row \in BOOLEAN
    PROVE  LET q == QueuedDelete(e, k, original, row)
           IN  q.status = "queued" /\ q.entry = e /\ q.deleteEntry = row
BY DEF QueuedDelete, NoDeleteJob

\* A ready entry had no such row, and gets one.
LEMMA QueuedPurge ==
    ASSUME TypeInv, PurgeInv, NEW e \in EntryIds, NEW j \in DeleteJobIds, EntryQueued(e, j)
    PROVE  PurgeInv'
<1> DEFINE q == QueuedDelete(e, entries[e].key, TRUE, TRUE)
<1>1. q.status = "queued" /\ q.entry = e /\ q.deleteEntry = TRUE
  BY QueuedDeleteIs
<1> HIDE DEF q
<1>2. deleteJobs'[j] = q /\ \A x \in DeleteJobIds \ {j} : deleteJobs'[x] = deleteJobs[x]
  BY DEF EntryQueued, TypeInv, Rows, q
<1>3. deleteJobs[j].status = "absent"
  BY DEF EntryQueued, FreeDeleteJobs
<1>4. /\ entries'[e].state = "deleted"
      /\ \A d \in EntryIds \ {e} : entries'[d] = entries[d]
  BY DEF EntryQueued, TypeInv, Rows, EntryRow, Entry
<1>5. purging(e) = {}
  BY DEF PurgeInv, EntryQueued, Ready
<1>6. purging(e)' = {j}
  BY <1>1, <1>2, <1>5 DEF purging
<1>7. \A d \in EntryIds \ {e} : purging(d)' = purging(d)
  BY <1>1, <1>2, <1>3 DEF purging
<1> QED BY <1>1, <1>2, <1>4, <1>6, <1>7 DEF PurgeInv

\* A report removes the row and, with it, the entry it was for.
LEMMA ReportedPurge ==
    ASSUME TypeInv, PurgeInv, NEW w \in Workers, NEW answered \in BOOLEAN,
           completeDelete(w, answered)
    PROVE  PurgeInv'
<1>1. PICK j \in DeleteJobIds : j = workers[w].job
  BY DEF completeDelete, TypeInv, Rows, WorkerRow, Deleting
<1>2. /\ deleteJobs'[j] = NoDeleteJob
      /\ \A x \in DeleteJobIds \ {j} : deleteJobs'[x] = deleteJobs[x]
  BY <1>1 DEF completeDelete, TypeInv, Rows
<1>3. NoDeleteJob.status = "absent" /\ NoDeleteJob.deleteEntry = FALSE
  BY DEF NoDeleteJob
<1>4. \A d : purging(d)' = purging(d) \ {j}
  BY <1>2, <1>3 DEF purging
<1>5. CASE ~deleteJobs[j].deleteEntry
  <2>1. entries' = entries
    BY <1>1, <1>5 DEF completeDelete
  <2>2. \A d : purging(d)' = purging(d)
    BY <1>4, <1>5 DEF purging
  <2> QED BY <1>2, <1>3, <2>1, <2>2 DEF PurgeInv
<1>6. CASE deleteJobs[j].deleteEntry
  <2>0. PICK e : e = deleteJobs[j].entry
    OBVIOUS
  <2>1. deleteJobs[j].status # "absent" /\ e \in EntryIds
    BY <1>1, <2>0, <1>6 DEF PurgeInv, TypeInv, Rows, DeleteRow
  <2>2. purging(e) = {j}
    BY <1>6, <2>0, <2>1 DEF PurgeInv, purging
  <2>3. \A d \in EntryIds \ {e} : purging(d)' = purging(d)
    BY <1>4, <2>0 DEF purging
  <2>4. entries' = [entries EXCEPT ![e] = Blank("purged")]
    BY <1>1, <1>6, <2>0 DEF completeDelete
  <2>5. entries'[e].state = "purged" /\ \A d \in EntryIds \ {e} : entries'[d] = entries[d]
    BY <2>1, <2>4 DEF TypeInv, Rows, Blank
  <2>6. purging(e)' = {}
    BY <1>4, <2>2
  <2> QED BY <1>2, <1>3, <2>3, <2>5, <2>6 DEF PurgeInv
<1> QED BY <1>5, <1>6

\* An upload that lands on an entry drops the jobs that would remove it, also
\* those some worker is carrying out.
LEMMA UploadedPurge ==
    ASSUME TypeInv, PurgeInv, NEW h \in Handlers, NEW answered \in BOOLEAN,
           completeUpload(h, answered)
    PROVE  PurgeInv'
<1> DEFINE i == handlers[h].intent
           key == keyOf(h)
<1>1. ASSUME NEW e \in EntryIds, NEW m,
             entries' = [entries EXCEPT ![e] = landedEntry(i, key, m)],
             \A x \in DeleteJobIds :
                \/ deleteJobs'[x] = deleteJobs[x] /\ deleteJobs[x].entry # e
                \/ ~deleteJobs'[x].deleteEntry
                   /\ (deleteJobs[x].entry = e \/ deleteJobs[x].status = "absent")
      PROVE  PurgeInv'
  <2>1. entries'[e].state = "ready" /\ \A d \in EntryIds \ {e} : entries'[d] = entries[d]
    BY <1>1 DEF landedEntry, TypeInv, Rows
  <2>2. purging(e)' = {}
    BY <1>1 DEF purging
  <2>3. \A d \in EntryIds \ {e} : purging(d)' = purging(d)
    BY <1>1 DEF purging
  <2>4. \A x \in DeleteJobIds : deleteJobs'[x].status = "absent" => ~deleteJobs'[x].deleteEntry
    BY <1>1 DEF PurgeInv
  <2> QED BY <2>1, <2>2, <2>3, <2>4 DEF PurgeInv
<1>2. CASE entries' = entries /\ deleteJobs' = deleteJobs
  BY <1>2, SteadyPurge DEF JobsSteady, StatesSteady
<1>3. CASE insertUploaded(i, key)
  <2>1. PICK e \in EntryIds : /\ entries[e].state = "absent"
                              /\ entries' = [entries EXCEPT ![e] = landedEntry(i, key, None)]
                              /\ deleteJobs' = deleteJobs
    BY <1>3 DEF insertUploaded
  <2>2. purging(e) = {}
    BY <2>1 DEF PurgeInv
  <2>3. \A x \in DeleteJobIds : \/ deleteJobs[x].entry # e
                                \/ ~deleteJobs[x].deleteEntry
    BY <2>2 DEF purging, PurgeInv
  <2>4. entries'[e].state = "ready" /\ \A d \in EntryIds \ {e} : entries'[d] = entries[d]
    BY <2>1 DEF landedEntry, TypeInv, Rows
  <2>5. \A d : purging(d)' = purging(d)
    BY <2>1 DEF purging
  <2> QED BY <2>1, <2>2, <2>4, <2>5 DEF PurgeInv
<1>4. CASE \E e \in existingFor(i, key) : replaceUploaded(i, key, e)
  <2>1. existingFor(i, key) \subseteq EntryIds
    BY FindReady, NoneType DEF existingFor, occupantOf, entriesAt, readyEntriesNamed
  <2>2. PICK e \in EntryIds : replaceUploaded(i, key, e)
    BY <1>4, <2>1
  <2>3. NoDeleteJob.status = "absent" /\ NoDeleteJob.deleteEntry = FALSE
    BY DEF NoDeleteJob
  <2>4. \A x \in DeleteJobIds :
           \/ withoutJobsOf(e)[x] = deleteJobs[x] /\ deleteJobs[x].entry # e
           \/ ~withoutJobsOf(e)[x].deleteEntry /\ deleteJobs[x].entry = e
    BY <2>3 DEF withoutJobsOf
  <2>5. CASE deleteJobs' = withoutJobsOf(e)
    BY <1>1, <2>2, <2>4, <2>5 DEF replaceUploaded
  <2>6. CASE \E j \in FreeDeleteJobs, original \in BOOLEAN :
                deleteJobs' = [withoutJobsOf(e) EXCEPT ![j] =
                                  QueuedDelete(e, entries[e].key, original, FALSE)]
    <3>1. PICK j \in FreeDeleteJobs, original \in BOOLEAN :
                deleteJobs' = [withoutJobsOf(e) EXCEPT ![j] =
                                  QueuedDelete(e, entries[e].key, original, FALSE)]
      BY <2>6
    <3> DEFINE q == QueuedDelete(e, entries[e].key, original, FALSE)
    <3>2. q.deleteEntry = FALSE
      BY QueuedDeleteIs, ZenonT(60)
    <3>3. DOMAIN withoutJobsOf(e) = DeleteJobIds
      BY DEF withoutJobsOf
    <3>4. j \in DeleteJobIds /\ deleteJobs[j].status = "absent"
      BY DEF FreeDeleteJobs
    <3> HIDE DEF q
    <3>5. /\ deleteJobs'[j] = q
          /\ \A x \in DeleteJobIds \ {j} : deleteJobs'[x] = withoutJobsOf(e)[x]
      BY <3>1, <3>3, <3>4 DEF q
    <3>6. \A x \in DeleteJobIds :
             \/ deleteJobs'[x] = deleteJobs[x] /\ deleteJobs[x].entry # e
             \/ ~deleteJobs'[x].deleteEntry
                /\ (deleteJobs[x].entry = e \/ deleteJobs[x].status = "absent")
      BY <2>4, <3>2, <3>4, <3>5
    <3> QED BY <1>1, <2>2, <3>6 DEF replaceUploaded
  <2> QED BY <2>2, <2>5, <2>6 DEF replaceUploaded, queueStaleFile
<1> QED BY <1>2, <1>3, <1>4 DEF completeUpload

\* What a landed move queues: the row that removes its occupant, and one for the
\* path it left, which removes no entry.
LEMMA LandedPurge ==
    ASSUME TypeInv, PurgeInv, NEW j \in MoveJobIds, moveJobs[j].status # "absent",
           sourceUnchanged(j), NEW key \in Keys, landMove(j, key)
    PROVE  PurgeInv'
<1>1. PICK e \in EntryIds : e = moveJobs[j].entry /\ Ready(e) /\ entries[e] \in EntryRow
  BY DEF TypeInv, Rows, MoveRow, sourceUnchanged
<1>2. PICK o : o = occupantAt(j)
  OBVIOUS
<1>3. o # None => o \in EntryIds \ {e} /\ Ready(o) /\ entries[o] \in EntryRow
  BY <1>1, <1>2, FindReady DEF occupantAt, readyEntriesNamed, TypeInv, Rows
<1>4. PICK landed :
         /\ DOMAIN landed = EntryIds
         /\ landed[e].state = "ready"
         /\ \A d \in EntryIds \ {e} : landed[d] = entries[d]
         /\ entries' = IF o = None THEN landed ELSE [landed EXCEPT ![o].state = "deleted"]
  <2> DEFINE job    == moveJobs[j]
             landed == [entries EXCEPT ![e].folder = job.folder, ![e].name = landingName(job),
                                       ![e].key = key, ![e].moveJob = None]
  <2>2. DOMAIN landed = EntryIds
    BY DEF TypeInv, Rows
  <2>3. landed[e].state = "ready" /\ \A d \in EntryIds \ {e} : landed[d] = entries[d]
    BY <1>1 DEF Ready, TypeInv, Rows, EntryRow, Entry
  <2>4. entries' = IF o = None THEN landed ELSE [landed EXCEPT ![o].state = "deleted"]
    BY <1>1, <1>2 DEF landMove
  <2> HIDE DEF landed
  <2> QED BY <2>2, <2>3, <2>4
<1>5. PICK left, replaced :
         /\ left.status = "queued" /\ ~left.deleteEntry
         /\ replaced.status = "queued" /\ replaced.entry = o /\ replaced.deleteEntry
         /\ \/ o = None /\ deleteJobs' = deleteJobs
            \/ o = None /\ \E a \in FreeDeleteJobs : deleteJobs' = [deleteJobs EXCEPT ![a] = left]
            \/ o # None /\ \E a \in FreeDeleteJobs :
                              deleteJobs' = [deleteJobs EXCEPT ![a] = replaced]
            \/ o # None /\ \E a, b \in FreeDeleteJobs :
                  a # b /\ deleteJobs' = [deleteJobs EXCEPT ![a] = replaced, ![b] = left]
  <2> DEFINE gallery  == GalleryOf[moveJobs[j].folder]
             keep     == keepsReplacedOriginal(gallery, entries[o].key, key)
             left     == QueuedDelete(e, entries[e].key, TRUE, FALSE)
             replaced == QueuedDelete(o, entries[o].key, ~keep, TRUE)
  <2>1. left.status = "queued" /\ left.deleteEntry = FALSE
    BY DEF QueuedDelete, NoDeleteJob
  <2>2. replaced.status = "queued" /\ replaced.entry = o /\ replaced.deleteEntry = TRUE
    BY DEF QueuedDelete, NoDeleteJob
  <2>3. queueLeftovers(e, o, gallery, key)
    BY <1>1, <1>2 DEF landMove
  <2>4. \/ o = None /\ deleteJobs' = deleteJobs
        \/ o = None /\ \E a \in FreeDeleteJobs : deleteJobs' = [deleteJobs EXCEPT ![a] = left]
        \/ o # None /\ \E a \in FreeDeleteJobs :
                          deleteJobs' = [deleteJobs EXCEPT ![a] = replaced]
        \/ o # None /\ \E a, b \in FreeDeleteJobs :
              a # b /\ deleteJobs' = [deleteJobs EXCEPT ![a] = replaced, ![b] = left]
    BY <2>3 DEF queueLeftovers
  <2> HIDE DEF left, replaced
  <2> QED BY <2>1, <2>2, <2>4
<1>6. FreeDeleteJobs \subseteq {x \in DeleteJobIds : deleteJobs[x].status = "absent"}
  BY DEF FreeDeleteJobs
<1>7. \A d \in EntryIds \ {o} : purging(d)' = purging(d)
  BY <1>5, <1>6 DEF purging, TypeInv, Rows
<1>8. CASE o = None
  <2>1. o \notin EntryIds
    BY <1>8, NoneType
  <2>2. StatesSteady
    BY <1>1, <1>4, <1>8 DEF StatesSteady, Ready
  <2>3. \A x \in DeleteJobIds : deleteJobs'[x].status = "absent" => ~deleteJobs'[x].deleteEntry
    BY <1>5, <1>6, <1>8 DEF PurgeInv, TypeInv, Rows
  <2> QED BY <1>7, <2>1, <2>2, <2>3 DEF PurgeInv, StatesSteady
<1>9. CASE o # None
  <2>1. entries'[o].state = "deleted" /\ entries'[e].state = "ready"
        /\ \A d \in EntryIds \ {e, o} : entries'[d] = entries[d]
    BY <1>3, <1>4, <1>9 DEF EntryRow, Entry
  <2>2. purging(o) = {}
    BY <1>3, <1>9 DEF PurgeInv, Ready
  <2>3. \E a \in DeleteJobIds : purging(o)' = {a}
    BY <1>5, <1>6, <1>9, <2>2 DEF purging, TypeInv, Rows
  <2>4. \A x \in DeleteJobIds : deleteJobs'[x].status = "absent" => ~deleteJobs'[x].deleteEntry
    BY <1>5, <1>6, <1>9 DEF PurgeInv, TypeInv, Rows
  <2>5. purging(e) = {}
    BY <1>1 DEF PurgeInv, Ready
  <2> QED BY <1>1, <1>3, <1>7, <1>9, <2>1, <2>3, <2>4, <2>5 DEF PurgeInv
<1> QED BY <1>8, <1>9

\* Marks and renames delete nothing.
LEMMA MarkedSteady ==
    ASSUME TypeInv, deleteJobs' = deleteJobs, NEW e,
           \/ \E j : entries' = [entries EXCEPT ![e].moveJob = j]
           \/ \E n : entries' = [entries EXCEPT ![e].name = n]
           \/ entries' = entries
    PROVE  JobsSteady /\ StatesSteady
BY DEF JobsSteady, StatesSteady, TypeInv, Rows, EntryRow, Entry

\* All a step can do to the deleted entries and the jobs that remove them.
LEMMA PurgeChange ==
    ASSUME TypeInv, [Next]_vars
    PROVE  \/ JobsSteady /\ StatesSteady
           \/ \E e \in EntryIds, j \in DeleteJobIds : EntryQueued(e, j)
           \/ \E w \in Workers, answered \in BOOLEAN : completeDelete(w, answered)
           \/ \E h \in Handlers, answered \in BOOLEAN : completeUpload(h, answered)
           \/ \E j \in MoveJobIds, key \in Keys :
                 moveJobs[j].status # "absent" /\ sourceUnchanged(j) /\ landMove(j, key)
<1>0. ASSUME UNCHANGED <<entries, deleteJobs>> PROVE JobsSteady /\ StatesSteady
  BY <1>0 DEF JobsSteady, StatesSteady
<1>1. ASSUME NEW e \in EntryIds, NEW j \in DeleteJobIds, queueEntryDeletion(e, j)
      PROVE  EntryQueued(e, j)
  BY <1>1 DEF queueEntryDeletion, EntryQueued
<1>2. CASE UNCHANGED vars
  BY <1>0, <1>2 DEF vars
<1>3. CASE Client
  <2>1. CASE StartUpload \/ RemoveGallery \/ Dismiss
    <3>1. UNCHANGED <<entries, deleteJobs>>
      BY <2>1 DEF StartUpload, createUploadIntent, RemoveGallery, removeGallery, Dismiss,
                  dismissFinished
    <3> QED BY <1>0, <3>1
  <2>5. CASE StartBulk
    <3>1. UNCHANGED <<entries, deleteJobs>>
      BY <2>5, ZenonT(60) DEF StartBulk, startDelete, startMove, insertOperation
    <3> QED BY <1>0, <3>1
  <2>2. CASE Rename
    BY <2>2, MarkedSteady DEF Rename, rename
  <2>3. CASE Remove
    BY <1>1, <2>3 DEF Remove, remove, expire
  <2>4. CASE Resolve
    BY <2>4, MarkedSteady DEF Resolve, resolveConflict, resolveParkedJob, queueMoveJob,
                              resolveConflicts
  <2> QED BY <1>3, <2>1, <2>2, <2>3, <2>4, <2>5 DEF Client
<1>4. CASE StorageServer
  <2>1. PICK h \in Handlers :
           Claim(h) \/ Serve(h) \/ renewUpload(h) \/ abortUpload(h) \/ handlerCrash(h)
    BY <1>4 DEF StorageServer
  <2>2. CASE Claim(h) \/ renewUpload(h) \/ abortUpload(h) \/ handlerCrash(h)
    BY <1>0, <2>2 DEF Claim, claimUpload, renewUpload, abortUpload, handlerCrash
  <2>3. CASE Serve(h)
    BY <1>0, <2>3 DEF Serve, installReplacing, statInstalled, completeUploadRejected, failUpload
  <2> QED BY <2>1, <2>2, <2>3
<1>5. CASE StorageWorker
  <2>0. ASSUME NEW j \in DeleteJobIds, deleteJobs[j].status # "absent", entries' = entries,
               \A x \in DeleteJobIds \ {j} : deleteJobs'[x] = deleteJobs[x],
               deleteJobs'[j].status # "absent", deleteJobs'[j].entry = deleteJobs[j].entry,
               deleteJobs'[j].deleteEntry = deleteJobs[j].deleteEntry
        PROVE  JobsSteady /\ StatesSteady
    BY <2>0 DEF JobsSteady, StatesSteady
  <2>1. PICK w \in Workers :
           \/ ClaimMaintenance(w) \/ Work(w) \/ renewDelete(w) \/ renewEntryMove(w)
           \/ deleteTaskFails(w) \/ moveTaskFails(w) \/ workerCrash(w)
    BY <1>5 DEF StorageWorker
  <2>2. CASE renewEntryMove(w) \/ deleteTaskFails(w) \/ moveTaskFails(w) \/ workerCrash(w)
    BY <1>0, <2>2 DEF renewEntryMove, deleteTaskFails, moveTaskFails, workerCrash
  <2>3. CASE renewDelete(w)
    <3>1. CASE deleteJobs' = deleteJobs
      BY <1>0, <2>3, <3>1 DEF renewDelete
    <3>2. CASE deleteJobs' # deleteJobs
      <4>1. PICK j \in DeleteJobIds : j = workers[w].job
        BY <2>3 DEF renewDelete, TypeInv, Rows, WorkerRow, Deleting
      <4>2. /\ deleteJobs[j].status = "processing" /\ entries' = entries
            /\ deleteJobs' = [deleteJobs EXCEPT ![j].lapsed = FALSE]
        BY <2>3, <3>2, <4>1 DEF renewDelete
      <4> QED BY <2>0, <4>2 DEF TypeInv, Rows, DeleteRow, DeleteJob
    <3> QED BY <3>1, <3>2
  <2>4. CASE \E j \in DeleteJobIds : claimDelete(w, j) \/ claimDeleteExhausted(w, j)
    <3>1. PICK j \in DeleteJobIds : claimDelete(w, j) \/ claimDeleteExhausted(w, j)
      BY <2>4
    <3>2. deleteJobs[j].status # "absent"
      BY <3>1 DEF claimDelete, claimDeleteExhausted, claimable
    <3> QED BY <2>0, <3>1, <3>2, SMTT(30) DEF claimDelete, claimDeleteExhausted, TypeInv, Rows,
                                    DeleteRow, DeleteJob
  <2>5. CASE \E j \in MoveJobIds : claimMove(w, j) \/ claimMoveRefused(w, j)
    BY <1>0, <2>5, MarkedSteady DEF claimMove, claimMoveRefused, failMove
  <2>6. CASE \E answered \in BOOLEAN : completeEntryMove(w, answered)
    <3>1. workers[w].job \in MoveJobIds /\ workers[w].dest \in Keys
      BY <2>6 DEF completeEntryMove, TypeInv, Rows, WorkerRow, Moving
    <3>2. CASE failCompletion(workers[w].job)
      BY <3>2, MarkedSteady DEF failCompletion
    <3> QED BY <1>0, <2>6, <3>1, <3>2 DEF completeEntryMove
  <2>7. CASE completeDeleteError(w)
    <3>1. CASE deleteJobs' = deleteJobs
      BY <1>0, <2>7, <3>1 DEF completeDeleteError
    <3>2. CASE deleteJobs' # deleteJobs
      <4>1. PICK j \in DeleteJobIds : j = workers[w].job
        BY <2>7 DEF completeDeleteError, TypeInv, Rows, WorkerRow, Deleting
      <4>2. /\ deleteJobs[j].status # "absent" /\ entries' = entries
            /\ \E s \in {"failed", "queued"} :
                  deleteJobs' = [deleteJobs EXCEPT ![j].lapsed = FALSE, ![j].status = s]
        BY <2>7, <3>2, <4>1 DEF completeDeleteError
      <4> QED BY <2>0, <4>2 DEF TypeInv, Rows, DeleteRow, DeleteJob
    <3> QED BY <3>1, <3>2
  <2>8. CASE unlinkOriginal(w) \/ lookAtDestination(w) \/ copyAtomically(w) \/ statCopied(w)
             \/ completeEntryMoveThrows(w)
    BY <1>0, <2>8 DEF unlinkOriginal, lookAtDestination, copyAtomically, statCopied,
                      completeEntryMoveThrows
  <2>9. CASE completeEntryMoveError(w)
    BY <1>0, <2>9, MarkedSteady DEF completeEntryMoveError, failMove
  <2> QED BY <2>1, <2>2, <2>3, <2>4, <2>5, <2>6, <2>7, <2>8, <2>9 DEF Work, ClaimMaintenance
<1>6. CASE Scheduler
  <2>1. CASE \E j \in DeleteJobIds : deleteLeaseLapses(j)
    BY <2>1 DEF deleteLeaseLapses, JobsSteady, StatesSteady, TypeInv, Rows, DeleteRow, DeleteJob
  <2>2. CASE Sweep \/ (\E i \in IntentIds : uploadLeaseLapses(i))
                   \/ (\E j \in MoveJobIds : moveLeaseLapses(j))
    BY <1>0, <2>2 DEF uploadLeaseLapses, moveLeaseLapses, Sweep, recoverStaleRequests
  <2>3. CASE CleanUp
    BY <1>0, <2>3 DEF CleanUp, queueEntries, entriesOf, EntryQueued, FreeDeleteJobs
  <2>4. CASE \E o \in OperationIds : ProcessBulk(o)
    <3>1. PICK o \in OperationIds : ProcessBulk(o)
      BY <2>4
    <3>2. CASE processSourceGone(o) \/ processNothing(o)
      BY <1>0, <3>2 DEF processSourceGone, processNothing
    <3>3. CASE applyConflictPolicy(o)
      <4>1. ASSUME NEW j, NEW p, resolveParkedJob(j, p), deleteJobs' = deleteJobs
            PROVE  JobsSteady /\ StatesSteady
        BY <1>0, <4>1, MarkedSteady DEF resolveParkedJob, queueMoveJob
      <4> QED BY <1>0, <3>3, <4>1 DEF applyConflictPolicy
    <3>4. CASE \E e \in EntryIds : process(o, e)
      <4>1. PICK e \in EntryIds :
               refuseItem(o, e) \/ deleteItem(o, e) \/ keepItem(o, e) \/ moveItem(o, e)
        BY <3>4 DEF process
      <4>2. CASE moveItem(o, e)
        BY <1>0, <4>2, MarkedSteady DEF moveItem, queueMoveJob
      <4>3. CASE deleteItem(o, e)
        BY <1>1, <4>3 DEF deleteItem
      <4>4. CASE refuseItem(o, e) \/ keepItem(o, e)
        BY <1>0, <4>4 DEF refuseItem, keepItem
      <4> QED BY <4>1, <4>2, <4>3, <4>4
    <3> QED BY <3>1, <3>2, <3>3, <3>4 DEF ProcessBulk
  <2> QED BY <1>6, <2>1, <2>2, <2>3, <2>4 DEF Scheduler, Lapse
<1> QED BY <1>2, <1>3, <1>4, <1>5, <1>6 DEF Next

\* At every step of a run a purge that is going on has the deletion job of its entry.
LEMMA PurgesKept == Spec => []PurgeInv
<1>1. Init => PurgeInv
  BY NoneType DEF Init, PurgeInv, purging, NoDeleteJob, Blank
<1>2. TypeInv /\ PurgeInv /\ [Next]_vars => PurgeInv'
  BY PurgeChange, SteadyPurge, QueuedPurge, ReportedPurge, UploadedPurge, LandedPurge
<1> QED BY <1>1, <1>2, RowsCorrect, PTL DEF Spec

\* Exactly the deleted entries have a job that removes their row, and one each,
\* through deletions, expiry, clean-up, replacement by uploads and by moves,
\* revival by an upload, repeated claims and repeated reports of a job.
THEOREM DeletedKeepOneJob == Spec => []DeletedHaveOneJob
<1>1. PurgeInv => DeletedHaveOneJob
  <2> SUFFICES ASSUME PurgeInv, NEW e \in EntryIds
               PROVE  Cardinality(purging(e)) = IF entries[e].state = "deleted" THEN 1 ELSE 0
    BY DEF DeletedHaveOneJob
  <2>1. CASE entries[e].state = "deleted"
    BY <2>1, FS_Singleton DEF PurgeInv
  <2>2. CASE entries[e].state # "deleted"
    BY <2>2, FS_EmptySet DEF PurgeInv
  <2> QED BY <2>1, <2>2
<1> QED BY <1>1, PurgesKept, PTL

=============================================================================
