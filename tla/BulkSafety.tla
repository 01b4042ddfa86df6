----------------------------- MODULE BulkSafety -----------------------------
(***************************************************************************)
(* The counters of bulk operations and of galleries for every value of the *)
(* constants: an operation knows how many of its items are parked, and it  *)
(* has forgotten none; a gallery knows its files and bytes.  The counters  *)
(* are written in many places, so one lemma says what counting does to a   *)
(* row, one what writing a job or an entry does to the sets that are       *)
(* counted, and every action puts the two together.                        *)
(***************************************************************************)
EXTENDS GallerySafety

(***************************************************************************)
(* The inductive invariant of the operations                               *)
(***************************************************************************)

InUse == {j \in MoveJobIds : moveJobs[j].status # "absent"}

\* The items that are done, failed or parked.
Tallied(op) == op.completed + op.failed + op.conflicts

\* The status that counting computes: "processing" after the whole selection was
\* seen means that some item is still out, and "over" that none is.
Waiting(op) == op.status = "processing" /\ op.discovered => Tallied(op) < op.total

Over(op) == op.status \in {"complete", "failed"} =>
                op.discovered /\ op.total <= Tallied(op) /\ op.conflicts = 0

\* Every item is tallied or has a live job.  A source that is gone ends the
\* operation wherever its counters stand.
Balanced(o) ==
    /\ operations[o].conflicts = Cardinality(parked(o))
    /\ Waiting(operations[o])
    /\ operations[o].status # "absent" /\ ~sourceGone(o) =>
          /\ Over(operations[o])
          /\ operations[o].total <= Tallied(operations[o]) + Cardinality(live(o))

\* What a worker copies was queued before: a parked job has no worker.
CopiesUnparked == \A w \in Workers :
    workers[w].pc \in Moving => moveJobs[workers[w].job].status # "conflict"

BulkInv == IsFiniteSet(InUse) /\ CopiesUnparked /\ \A o \in OperationIds : Balanced(o)

(***************************************************************************)
(* Counting                                                                *)
(***************************************************************************)

One(P) == IF P THEN 1 ELSE 0

\* Two sets that differ in x at most differ by one at most.
LEMMA CountOne ==
    ASSUME NEW S, IsFiniteSet(S), NEW x, NEW T, S \ {x} = T \ {x}
    PROVE  /\ IsFiniteSet(T) /\ Cardinality(S) \in Nat /\ Cardinality(T) \in Nat
           /\ Cardinality(T) = Cardinality(S) - One(x \in S) + One(x \in T)
<1> DEFINE R == S \ {x}
<1>1. IsFiniteSet(R) /\ Cardinality(R) \in Nat /\ Cardinality(S) \in Nat
  BY FS_RemoveElement, FS_CardinalityType
<1>2. Cardinality(R) = Cardinality(S) - One(x \in S)
  BY <1>1, FS_RemoveElement DEF One
<1>3. IsFiniteSet(T) /\ Cardinality(T) = Cardinality(R) + One(x \in T)
  <2>1. CASE x \in T
    <3>1. T = R \cup {x} /\ x \notin R
      BY <2>1
    <3> HIDE DEF R
    <3> QED BY <1>1, <2>1, <3>1, FS_AddElement DEF One
  <2>2. CASE x \notin T
    <3>1. T = R
      BY <2>2
    <3> HIDE DEF R
    <3> QED BY <1>1, <2>2, <3>1 DEF One
  <2> QED BY <2>1, <2>2
<1>4. Cardinality(T) \in Nat
  BY <1>3, FS_CardinalityType
<1> HIDE DEF R
<1> QED BY <1>1, <1>2, <1>3, <1>4 DEF One

\* The jobs of an operation are some of those in use.
LEMMA JobSetsFinite ==
    ASSUME IsFiniteSet(InUse), NEW o
    PROVE  /\ IsFiniteSet(live(o)) /\ IsFiniteSet(parked(o))
           /\ Cardinality(live(o)) \in Nat /\ Cardinality(parked(o)) \in Nat
<1>1. live(o) \in SUBSET InUse /\ parked(o) \in SUBSET InUse
  BY DEF live, parked, InUse
<1> QED BY <1>1, FS_Subset, FS_CardinalityType

\* Writing one job of an operation changes what that operation has live and
\* parked by that job, and nothing of the others.
LEMMA JobWritten ==
    ASSUME Rows, IsFiniteSet(InUse), NEW o, NEW j \in MoveJobIds, NEW row \in MoveRow,
           moveJobs' = [moveJobs EXCEPT ![j] = row],
           moveJobs[j].status # "absent" => moveJobs[j].op = o,
           row.status # "absent" => row.op = o
    PROVE  /\ IsFiniteSet(InUse')
           /\ \A p : p # o => live(p)' = live(p) /\ parked(p)' = parked(p)
           /\ Cardinality(live(o)') \in Nat /\ Cardinality(parked(o)') \in Nat
           /\ Cardinality(live(o)') = Cardinality(live(o))
                 - One(moveJobs[j].status \in {"queued", "processing"})
                 + One(row.status \in {"queued", "processing"})
           /\ Cardinality(parked(o)') = Cardinality(parked(o))
                 - One(moveJobs[j].status = "conflict") + One(row.status = "conflict")
<1>1. moveJobs'[j] = row /\ \A k \in MoveJobIds \ {j} : moveJobs'[k] = moveJobs[k]
  BY DEF Rows
<1>2. /\ InUse \ {j} = InUse' \ {j}
      /\ live(o) \ {j} = live(o)' \ {j}
      /\ parked(o) \ {j} = parked(o)' \ {j}
  BY <1>1 DEF InUse, live, parked
<1>3. IsFiniteSet(InUse')
  BY <1>2, CountOne
<1>4. \A p : p # o => live(p)' = live(p) /\ parked(p)' = parked(p)
  BY <1>1 DEF live, parked
<1>5. /\ j \in live(o) <=> moveJobs[j].status \in {"queued", "processing"}
      /\ j \in live(o)' <=> row.status \in {"queued", "processing"}
      /\ j \in parked(o) <=> moveJobs[j].status = "conflict"
      /\ j \in parked(o)' <=> row.status = "conflict"
  BY <1>1 DEF live, parked
<1>6. /\ Cardinality(live(o)') \in Nat
      /\ Cardinality(live(o)') =
            Cardinality(live(o)) - One(j \in live(o)) + One(j \in live(o)')
  BY <1>2, JobSetsFinite, CountOne
<1>7. /\ Cardinality(parked(o)') \in Nat
      /\ Cardinality(parked(o)') =
            Cardinality(parked(o)) - One(j \in parked(o)) + One(j \in parked(o)')
  BY <1>2, JobSetsFinite, CountOne
<1> QED BY <1>3, <1>4, <1>5, <1>6, <1>7 DEF One

\* Counting computes a status that says what the counters do.
LEMMA CountedRow ==
    ASSUME NEW op \in OperationRow, op.status # "absent"
    PROVE  /\ Waiting(counted(op)) /\ Over(counted(op))
           /\ counted(op).total = op.total /\ counted(op).conflicts = op.conflicts
           /\ Tallied(counted(op)) = Tallied(op)
           /\ counted(op).source = op.source
<1>1. op.completed \in Nat /\ op.failed \in Nat /\ op.conflicts \in Nat /\ op.total \in Nat
  BY DEF OperationRow, Operation
<1> DEFINE r == counted(op)
<1>2. /\ r.status = operationStatus(op) /\ r.discovered = op.discovered
      /\ r.total = op.total /\ r.conflicts = op.conflicts /\ r.completed = op.completed
      /\ r.failed = op.failed /\ r.source = op.source
  BY DEF counted, OperationRow, Operation
<1> HIDE DEF r
<1>3. Waiting(r) /\ Over(r)
  BY <1>1, <1>2 DEF Waiting, Over, Tallied, operationStatus
<1>4. Tallied(r) = Tallied(op)
  BY <1>2 DEF Tallied
<1> QED BY <1>2, <1>3, <1>4 DEF r

(***************************************************************************)
(* What a step does to galleries, jobs and operations                      *)
(***************************************************************************)

\* A removed gallery stays removed, and only its removal starts its clean-up.
StaysGone == \A g \in Galleries :
    /\ galleries[g].deleted => galleries'[g].deleted
    /\ galleries'[g].cleaning => galleries[g].cleaning \/ galleries'[g].deleted

\* Counting files removes no gallery, brings none back and starts no clean-up.
LEMMA AdjustKeepsDeleted ==
    ASSUME NEW table \in [Galleries -> GalleryRow], NEW g \in Galleries,
           NEW items \in Int, NEW bytes \in Int, NEW x \in Galleries
    PROVE  /\ adjustGalleryStats(table, g, items, bytes)[x].deleted = table[x].deleted
           /\ adjustGalleryStats(table, g, items, bytes)[x].cleaning = table[x].cleaning
BY DEF adjustGalleryStats, GalleryRow

\* An entry that is deleted belongs to a gallery, and so do its counts.
LEMMA QueueEntryDeletionStays ==
    ASSUME TypeInv, NEW e \in EntryIds, NEW j, queueEntryDeletion(e, j)
    PROVE  StaysGone
<1>1. GalleryOf[entries[e].folder] \in Galleries /\ SizeOf(e) \in Nat
  BY CatalogAssumption DEF queueEntryDeletion, TypeInv, Rows, EntryRow, Ready, SizeOf
<1>2. -1 \in Int /\ -SizeOf(e) \in Int
  BY <1>1
<1>3. galleries' = adjustGalleryStats(galleries, GalleryOf[entries[e].folder], -1, -SizeOf(e))
  BY DEF queueEntryDeletion
<1> QED BY <1>1, <1>2, <1>3, AdjustKeepsDeleted DEF StaysGone, TypeInv, Rows

\* So do those of an upload that lands ...
LEMMA CompleteUploadStays ==
    ASSUME TypeInv, NEW h \in Handlers, NEW answered \in BOOLEAN, completeUpload(h, answered)
    PROVE  StaysGone
<1> DEFINE i == handlers[h].intent
           key == keyOf(h)
           g == GalleryOf[intents[i].folder]
<1>1. CASE galleries' = galleries
  BY <1>1 DEF StaysGone
<1>2. CASE galleries' # galleries
  <2>1. /\ uploadAccepted(i, key)
        /\ \/ insertUploaded(i, key)
           \/ \E e \in existingFor(i, key) : replaceUploaded(i, key, e)
    BY <1>2 DEF completeUpload
  <2>2. i \in IntentIds /\ intents[i] \in IntentRow /\ intents[i].state = "uploading"
    BY <2>1, KeyOfType DEF completeUpload, uploadAccepted, TypeInv, Rows
  <2>3. g \in Galleries /\ Size[intents[i].content] \in Nat
    BY <2>2, CatalogAssumption DEF IntentRow
  <2>4. \A e \in existingFor(i, key) : SizeOf(e) \in Nat
    BY CatalogAssumption, FindReady, NoneType
    DEF existingFor, occupantOf, entriesAt, readyEntriesNamed, Ready, SizeOf, TypeInv, Rows,
        EntryRow
  <2> HIDE DEF i, key, g
  <2>5. \E items \in Int, bytes \in Int :
           galleries' = adjustGalleryStats(galleries, g, items, bytes)
    <3>1. CASE insertUploaded(i, key)
      BY <2>3, <3>1 DEF insertUploaded, g
    <3>2. ASSUME NEW e \in existingFor(i, key), replaceUploaded(i, key, e)
          PROVE  \E items \in Int, bytes \in Int :
                    galleries' = adjustGalleryStats(galleries, g, items, bytes)
      <4> DEFINE items == IF Ready(e) THEN 0 ELSE 1
                 bytes == Size[intents[i].content] - (IF Ready(e) THEN SizeOf(e) ELSE 0)
      <4>1. items \in Int /\ bytes \in Int
        BY <2>3, <2>4
      <4>2. galleries' = adjustGalleryStats(galleries, g, items, bytes)
        BY <3>2 DEF replaceUploaded, g
      <4> HIDE DEF items, bytes
      <4> QED BY <4>1, <4>2
    <3> QED BY <2>1, <3>1, <3>2
  <2> QED BY <2>3, <2>5, AdjustKeepsDeleted DEF StaysGone, TypeInv, Rows
<1> QED BY <1>1, <1>2

\* ... and of a move that lands, in up to three places.
LEMMA LandMoveStays ==
    ASSUME TypeInv, NEW j \in MoveJobIds, moveJobs[j].status # "absent",
           sourceUnchanged(j), NEW key, landMove(j, key)
    PROVE  StaysGone
<1> DEFINE job == moveJobs[j]
           e == job.entry
           o == occupantAt(j)
           g == GalleryOf[job.folder]
           freed == IF o = None THEN galleries
                    ELSE adjustGalleryStats(galleries, g, -1, -SizeOf(o))
           left == adjustGalleryStats(freed, job.source, -1, -SizeOf(e))
<1>1. /\ job \in MoveRow /\ e \in EntryIds /\ Ready(e) /\ entries[e] \in EntryRow
      /\ g \in Galleries /\ job.source \in Galleries
  BY CatalogAssumption DEF TypeInv, Rows, MoveRow, sourceUnchanged
<1>2. SizeOf(e) \in Nat /\ (o # None => SizeOf(o) \in Nat)
  BY <1>1, CatalogAssumption, FindReady
  DEF occupantAt, readyEntriesNamed, Ready, SizeOf, TypeInv, Rows, EntryRow
<1>3. galleries' = IF job.source = g THEN freed ELSE adjustGalleryStats(left, g, 1, SizeOf(e))
  BY DEF landMove
<1>4. -1 \in Int /\ 1 \in Int /\ SizeOf(e) \in Int /\ -SizeOf(e) \in Int
      /\ (o # None => -SizeOf(o) \in Int)
  BY <1>2
<1> HIDE DEF job, e, o, g
<1>5. /\ freed \in [Galleries -> GalleryRow]
      /\ \A x \in Galleries : /\ freed[x].deleted = galleries[x].deleted
                             /\ freed[x].cleaning = galleries[x].cleaning
  BY <1>1, <1>4, StatsType, AdjustKeepsDeleted DEF TypeInv, Rows
<1> HIDE DEF freed
<1>6. /\ left \in [Galleries -> GalleryRow]
      /\ \A x \in Galleries : /\ left[x].deleted = freed[x].deleted
                             /\ left[x].cleaning = freed[x].cleaning
  BY <1>1, <1>4, <1>5, StatsType, AdjustKeepsDeleted
<1> HIDE DEF left
<1>7. \A x \in Galleries :
         /\ adjustGalleryStats(left, g, 1, SizeOf(e))[x].deleted = left[x].deleted
         /\ adjustGalleryStats(left, g, 1, SizeOf(e))[x].cleaning = left[x].cleaning
  BY <1>1, <1>4, <1>6, AdjustKeepsDeleted
<1> QED BY <1>3, <1>5, <1>6, <1>7 DEF StaysGone

\* No step brings a removed gallery back (galleries.remove has no inverse).
LEMMA GalleriesStayGone ==
    ASSUME TypeInv, [Next]_vars
    PROVE  StaysGone
<1>1. CASE galleries' = galleries
  BY <1>1 DEF StaysGone
<1>2. CASE Client /\ galleries' # galleries
  <2>1. CASE Remove
    BY <2>1, QueueEntryDeletionStays DEF Remove, remove, expire
  <2>2. CASE RemoveGallery
    BY <2>2 DEF RemoveGallery, removeGallery, StaysGone, TypeInv, Rows, GalleryRow
  <2>3. CASE StartUpload \/ Rename \/ StartBulk
    BY <1>2, <2>3, ZenonT(60) DEF StartUpload, createUploadIntent, Rename, rename, StartBulk, startDelete,
                      startMove, insertOperation
  <2>4. CASE Resolve \/ Dismiss
    BY <1>2, <2>4 DEF Resolve, resolveConflict, resolveConflicts, Dismiss, dismissFinished
  <2> QED BY <1>2, <2>1, <2>2, <2>3, <2>4 DEF Client
<1>3. CASE StorageServer /\ galleries' # galleries
  <2>1. PICK h \in Handlers :
           Claim(h) \/ Serve(h) \/ renewUpload(h) \/ abortUpload(h) \/ handlerCrash(h)
    BY <1>3 DEF StorageServer
  <2>2. CASE \E answered \in BOOLEAN : completeUpload(h, answered)
    BY <2>2, CompleteUploadStays
  <2> QED BY <1>3, <2>1, <2>2
          DEF Claim, claimUpload, Serve, installReplacing, statInstalled,
              completeUploadRejected, failUpload, renewUpload, abortUpload, handlerCrash
<1>4. CASE StorageWorker /\ galleries' # galleries
  <2>1. PICK w \in Workers :
           \/ ClaimMaintenance(w) \/ Work(w) \/ renewDelete(w) \/ renewEntryMove(w)
           \/ deleteTaskFails(w) \/ moveTaskFails(w) \/ workerCrash(w)
    BY <1>4 DEF StorageWorker
  <2>2. CASE \E answered \in BOOLEAN : completeEntryMove(w, answered)
    <3>1. workers[w].job \in MoveJobIds
      BY <2>2 DEF completeEntryMove, TypeInv, Rows, WorkerRow, Moving
    <3>2. PICK answered \in BOOLEAN : completeEntryMove(w, answered)
      BY <2>2
    <3>3. /\ moveJobs[workers[w].job].status # "absent" /\ sourceUnchanged(workers[w].job)
          /\ landMove(workers[w].job, workers[w].dest)
      BY <1>4, <3>2 DEF completeEntryMove, failCompletion
    <3> QED BY <3>1, <3>3, LandMoveStays
  <2>3. CASE Work(w) /\ ~\E answered \in BOOLEAN : completeEntryMove(w, answered)
    BY <1>4, <2>3 DEF Work, unlinkOriginal, completeDelete, completeDeleteError,
        lookAtDestination, copyAtomically, statCopied, completeEntryMoveThrows,
        completeEntryMoveError
  <2>4. CASE ClaimMaintenance(w)
    BY <1>4, <2>4 DEF ClaimMaintenance, claimDelete, claimDeleteExhausted, claimMove,
        claimMoveRefused
  <2>5. CASE renewDelete(w) \/ renewEntryMove(w)
             \/ deleteTaskFails(w) \/ moveTaskFails(w) \/ workerCrash(w)
    BY <1>4, <2>5 DEF renewDelete, renewEntryMove, deleteTaskFails, moveTaskFails, workerCrash
  <2> QED BY <2>1, <2>2, <2>3, <2>4, <2>5
<1>5. CASE Scheduler /\ galleries' # galleries
  <2>1. CASE Lapse \/ Sweep
    BY <1>5, <2>1 DEF Lapse, uploadLeaseLapses, deleteLeaseLapses, moveLeaseLapses, Sweep,
                      recoverStaleRequests
  <2>2. CASE CleanUp
    <3>1. PICK g \in Galleries : galleries' = [galleries EXCEPT ![g].cleaning = FALSE]
      BY <1>5, <2>2 DEF CleanUp, queueEntries
    <3> QED BY <3>1 DEF StaysGone, TypeInv, Rows, GalleryRow
  <2>3. ASSUME NEW o \in OperationIds, NEW e \in EntryIds, process(o, e) PROVE StaysGone
    <3>1. deleteItem(o, e)
      BY <1>5, <2>3 DEF process, refuseItem, keepItem, moveItem
    <3> QED BY <3>1, QueueEntryDeletionStays DEF deleteItem
  <2>4. ASSUME NEW o \in OperationIds,
               processSourceGone(o) \/ processNothing(o) \/ applyConflictPolicy(o)
        PROVE  FALSE
    BY <1>5, <2>4 DEF processSourceGone, processNothing, applyConflictPolicy
  <2> QED BY <1>5, <2>1, <2>2, <2>3, <2>4 DEF Scheduler, ProcessBulk
<1>6. CASE UNCHANGED vars
  BY <1>1, <1>6 DEF vars
<1> QED BY <1>1, <1>2, <1>3, <1>4, <1>5, <1>6 DEF Next

\* Where the files of a folder are kept.
KeysOf(f) == {buildStorageKey(f, n, c) : n \in Names, c \in Contents}

\* A worker moves what it moved before, or a job it has just claimed, to a place
\* in the folder of that job.
WorkersKeep == \A w \in Workers : workers'[w].pc \in Moving =>
    LET j == workers'[w].job
    IN  \/ workers[w].pc \in Moving /\ j = workers[w].job /\ workers'[w].dest = workers[w].dest
        \/ moveJobs'[j].status = "processing" /\ workers'[w].dest \in KeysOf(moveJobs'[j].folder)

\* A job that is not parked is, still or again, to be carried out.
Requeued(j) ==
    /\ moveJobs[j].status \in {"queued", "processing", "failed"}
    /\ \E row \in MoveRow : /\ row.status \in {"queued", "processing"}
                            /\ row.op = moveJobs[j].op
                            /\ row.folder = moveJobs[j].folder
                            /\ moveJobs' = [moveJobs EXCEPT ![j] = row]
    /\ UNCHANGED operations

\* A job that is not parked is over, and its item is settled.
Closed(j) ==
    /\ moveJobs[j].status \in {"queued", "processing", "failed"}
    /\ \E row \in MoveRow : /\ row.status \in {"absent", "failed"}
                            /\ row.status # "absent" =>
                                  row.op = moveJobs[j].op /\ row.folder = moveJobs[j].folder
                            /\ moveJobs' = [moveJobs EXCEPT ![j] = row]
    /\ \E success \in BOOLEAN : settleBulkMoveItem(moveJobs[j].op, success)

\* A job that fails or lands is closed.
LEMMA ClosedJob ==
    ASSUME TypeInv, NEW j \in MoveJobIds, moveJobs[j].status \in {"queued", "processing", "failed"},
           failMove(j) \/ failCompletion(j) \/ \E key : landMove(j, key)
    PROVE  Closed(j)
<1>1. moveJobs[j] \in MoveRow
  BY DEF TypeInv, Rows
<1>2. CASE failMove(j) \/ failCompletion(j)
  <2> DEFINE row == [moveJobs[j] EXCEPT !.status = "failed", !.lapsed = FALSE]
  <2>1. /\ row \in MoveRow /\ row.status = "failed" /\ row.op = moveJobs[j].op
        /\ row.folder = moveJobs[j].folder
    BY <1>1 DEF MoveRow, MoveJob
  <2>2. /\ moveJobs' = [moveJobs EXCEPT ![j] = row]
        /\ settleBulkMoveItem(moveJobs[j].op, FALSE)
    BY <1>2 DEF failMove, failCompletion
  <2> HIDE DEF row
  <2> QED BY <2>1, <2>2 DEF Closed
<1>3. CASE \E key : landMove(j, key)
  <2>1. /\ moveJobs' = [moveJobs EXCEPT ![j] = NoMoveJob]
        /\ settleBulkMoveItem(moveJobs[j].op, TRUE)
    BY <1>3 DEF landMove
  <2>2. NoMoveJob \in MoveRow /\ NoMoveJob.status = "absent"
    BY CatalogAssumption DEF NoMoveJob, MoveRow, MoveJob, Policies
  <2> QED BY <2>1, <2>2 DEF Closed
<1> QED BY <1>2, <1>3

\* A lease, a retry and a claim leave a job with its operation.
LEMMA RequeuedRow ==
    ASSUME NEW r \in MoveRow, r.status # "absent"
    PROVE  /\ \A b \in BOOLEAN : LET s == [r EXCEPT !.lapsed = b] IN
                 s \in MoveRow /\ s.op = r.op /\ s.folder = r.folder /\ s.status = r.status
           /\ LET s == [r EXCEPT !.status = "queued", !.lapsed = FALSE] IN
                 s \in MoveRow /\ s.op = r.op /\ s.folder = r.folder /\ s.status = "queued"
           /\ r.attempts # MaxAttempts => \A t \in Names \cup {None} :
                 LET s == [r EXCEPT !.status = "processing", !.attempts = r.attempts + 1,
                                    !.lapsed = FALSE, !.target = t] IN
                 s \in MoveRow /\ s.op = r.op /\ s.folder = r.folder /\ s.status = "processing"
<1>1. r.attempts # MaxAttempts => r.attempts + 1 \in 0..MaxAttempts
  BY CatalogAssumption DEF MoveRow, MoveJob
<1> QED BY <1>1 DEF MoveRow, MoveJob

\* What a worker does to the job it moves: nothing, a lease, a retry or its end.
LEMMA WorkerJobs ==
    ASSUME TypeInv, CopiesUnparked, NEW w \in Workers,
           \/ \E answered \in BOOLEAN : completeEntryMove(w, answered)
           \/ completeEntryMoveError(w)
           \/ renewEntryMove(w)
    PROVE  /\ WorkersKeep
           /\ \/ UNCHANGED <<moveJobs, operations>>
              \/ \E j \in MoveJobIds : Requeued(j) \/ Closed(j)
<1> DEFINE j == workers[w].job
<1>1. workers[w].pc \in Moving
  BY DEF completeEntryMove, completeEntryMoveError, renewEntryMove, Moving
<1>2. j \in MoveJobIds /\ moveJobs[j] \in MoveRow /\ moveJobs[j].status # "conflict"
      /\ workers[w] \in WorkerRow
  BY <1>1 DEF CopiesUnparked, TypeInv, Rows, WorkerRow
<1>3. moveJobs[j].status # "absent" => moveJobs[j].status \in {"queued", "processing", "failed"}
  BY <1>2 DEF MoveRow, MoveJob
<1>4. /\ \A x \in Workers \ {w} : workers'[x] = workers[x]
      /\ \/ workers'[w].job = j /\ workers'[w].dest = workers[w].dest
         \/ workers'[w].pc = "idle"
  <2>1. \/ workers' = workers
        \/ workers' = [workers EXCEPT ![w] = IdleWorker]
        \/ workers' = [workers EXCEPT ![w].pc = "moveFailing"]
    BY DEF completeEntryMove, completeEntryMoveError, renewEntryMove
  <2> QED BY <1>2, <2>1 DEF TypeInv, Rows, WorkerRow, Worker, IdleWorker
<1>5. WorkersKeep
  BY <1>1, <1>4 DEF WorkersKeep, Moving
<1>6. CASE \E answered \in BOOLEAN : completeEntryMove(w, answered)
  <2>1. CASE UNCHANGED <<moveJobs, operations>>
    BY <1>5, <2>1
  <2>2. CASE ~UNCHANGED <<moveJobs, operations>>
    <3>1. /\ moveJobs[j].status # "absent"
          /\ failCompletion(j) \/ landMove(j, workers[w].dest)
      BY <1>6, <2>2 DEF completeEntryMove
    <3> QED BY <1>2, <1>3, <1>5, <3>1, ClosedJob
  <2> QED BY <2>1, <2>2
<1>7. CASE completeEntryMoveError(w)
  <2>1. CASE UNCHANGED <<moveJobs, operations>>
    BY <1>5, <2>1
  <2>2. CASE moveJobs[j].status # "absent" /\ failMove(j)
    BY <1>2, <1>3, <1>5, <2>2, ClosedJob
  <2>3. CASE /\ moveJobs[j].status # "absent"
             /\ moveJobs' = [moveJobs EXCEPT ![j].status = "queued", ![j].lapsed = FALSE]
             /\ UNCHANGED operations
    <3> DEFINE row == [moveJobs[j] EXCEPT !.status = "queued", !.lapsed = FALSE]
    <3>1. row \in MoveRow /\ row.op = moveJobs[j].op /\ row.folder = moveJobs[j].folder /\ row.status = "queued"
      BY <1>2, <2>3, RequeuedRow
    <3>2. moveJobs' = [moveJobs EXCEPT ![j] = row]
      BY <2>3
    <3> HIDE DEF row
    <3>3. Requeued(j)
      BY <1>3, <2>3, <3>1, <3>2 DEF Requeued
    <3> QED BY <1>2, <1>5, <3>3
  <2> QED BY <1>7, <2>1, <2>2, <2>3 DEF completeEntryMoveError
<1>8. CASE renewEntryMove(w)
  <2>1. CASE UNCHANGED moveJobs
    BY <1>5, <1>8, <2>1 DEF renewEntryMove
  <2>2. CASE /\ moveJobs[j].status = "processing"
             /\ moveJobs' = [moveJobs EXCEPT ![j].lapsed = FALSE]
    <3> DEFINE row == [moveJobs[j] EXCEPT !.lapsed = FALSE]
    <3>1. row \in MoveRow /\ row.op = moveJobs[j].op /\ row.folder = moveJobs[j].folder /\ row.status = "processing"
      BY <1>2, <2>2, RequeuedRow
    <3>2. moveJobs' = [moveJobs EXCEPT ![j] = row]
      BY <2>2
    <3> HIDE DEF row
    <3>3. Requeued(j)
      BY <1>3, <1>8, <2>2, <3>1, <3>2 DEF Requeued, renewEntryMove
    <3> QED BY <1>2, <1>5, <3>3
  <2> QED BY <1>8, <2>1, <2>2 DEF renewEntryMove
<1> QED BY <1>6, <1>7, <1>8

\* A claim takes a job that can be claimed, and gives it to a worker or closes it.
LEMMA ClaimedJobs ==
    ASSUME TypeInv, NEW w \in Workers, NEW j \in MoveJobIds,
           claimMove(w, j) \/ claimMoveRefused(w, j)
    PROVE  WorkersKeep /\ (Requeued(j) \/ Closed(j))
<1>1. moveJobs[j] \in MoveRow /\ moveJobs[j].status \in {"queued", "processing"}
  BY DEF claimMove, claimMoveRefused, nextMove, claimable, TypeInv, Rows
<1>2. CASE claimMove(w, j)
  <2> DEFINE job == moveJobs[j]
             e == job.entry
             repick == occupantAt(j) # None /\ job.policy = "rename"
             names == IF repick
                      THEN pickAvailableName(job.folder, entries[e].name,
                               reservedNameKeys(job.folder, None, j), e)
                      ELSE {landingName(job)}
             claimed(name) == [IdleWorker EXCEPT
                    !.pc = "copying", !.job = j, !.key = entries[e].key,
                    !.dest = buildStorageKey(job.folder, name, entries[e].content),
                    !.content = entries[e].content,
                    !.overwrite = job.policy = "replace",
                    !.replaces = replacedKey(job.folder, occupantAt(j), job.policy)]
  <2>1. e \in EntryIds /\ Ready(e) /\ entries[e] \in EntryRow /\ entries[e].name \in Names
        /\ job.attempts # MaxAttempts
    BY <1>1, <1>2 DEF claimMove, moveRefused, sourceUnchanged, TypeInv, Rows, MoveRow,
                      EntryRow, Ready
  <2>2. "ask" \in Policies
    BY DEF Policies
  <2>3. names \subseteq Names
    <3>1. landingName(job) \in Names
      BY <1>1, <2>1 DEF landingName, MoveRow, MoveJob
    <3> QED BY <2>1, <2>2, <3>1, LandingType
  <2>4. PICK name \in names :
          /\ moveJobs' = [moveJobs EXCEPT ![j].status = "processing", ![j].attempts = @ + 1,
                             ![j].lapsed = FALSE, ![j].target = IF repick THEN name ELSE @]
          /\ workers' = [workers EXCEPT ![w] = claimed(name)]
    BY <1>2 DEF claimMove
  <2>5. claimed(name).job = j /\ claimed(name).dest \in KeysOf(job.folder)
    <3>1. /\ claimed(name).job = j
          /\ claimed(name).dest = buildStorageKey(job.folder, name, entries[e].content)
      BY DEF IdleWorker
    <3>2. name \in Names /\ entries[e].content \in Contents
      BY <2>1, <2>3, <2>4 DEF EntryRow, Ready
    <3> HIDE DEF claimed, names
    <3> QED BY <3>1, <3>2 DEF KeysOf
  <2> DEFINE t == IF repick THEN name ELSE job.target
             row == [job EXCEPT !.status = "processing", !.attempts = job.attempts + 1,
                                !.lapsed = FALSE, !.target = t]
  <2>6. t \in Names \cup {None}
    <3>1. job.target \in Names \cup {None}
      BY <1>1 DEF MoveRow, MoveJob
    <3>2. repick => name \in Names
      BY <2>3, <2>4
    <3> HIDE DEF repick, names
    <3> QED BY <3>1, <3>2
  <2>7. moveJobs' = [moveJobs EXCEPT ![j] = row]
    BY <1>1, <2>4 DEF TypeInv, Rows, MoveRow, MoveJob
  <2> HIDE DEF t, names, repick, claimed
  <2>8. row \in MoveRow /\ row.op = job.op /\ row.folder = job.folder /\ row.status = "processing"
    BY <1>1, <2>1, <2>6, RequeuedRow
  <2> HIDE DEF row
  <2>9. Requeued(j)
    BY <1>1, <1>2, <2>7, <2>8 DEF Requeued, claimMove
  <2>10. moveJobs'[j].status = "processing" /\ moveJobs'[j].folder = job.folder
    BY <2>7, <2>8 DEF TypeInv, Rows
  <2>11. WorkersKeep
    BY <2>4, <2>5, <2>10 DEF WorkersKeep, TypeInv, Rows
  <2> QED BY <2>9, <2>11
<1>3. CASE claimMoveRefused(w, j)
  <2>1. Closed(j)
    BY <1>1, <1>3, ClosedJob DEF claimMoveRefused
  <2> QED BY <1>3, <2>1 DEF claimMoveRefused, WorkersKeep
<1> QED BY <1>2, <1>3

\* All a step can do to jobs and operations.
LEMMA JobsChange ==
    ASSUME TypeInv, CopiesUnparked, [Next]_vars
    PROVE  \/ WorkersKeep /\ UNCHANGED <<moveJobs, operations>>
           \/ WorkersKeep /\ \E j \in MoveJobIds : Requeued(j) \/ Closed(j)
           \/ \E o \in OperationIds, kind \in {"delete", "move"}, s \in Folders,
                 f \in Folders \cup {None}, k \in {"ids", "folder"}, todo \in SUBSET EntryIds :
                 insertOperation(o, kind, s, f, k, todo)
           \/ \E j \in MoveJobIds, p \in {"replace", "rename"} : resolveConflict(j, p)
           \/ \E o \in OperationIds, p \in {"replace", "rename", "skip"} : resolveConflicts(o, p)
           \/ \E o \in OperationIds : dismissFinished(o) \/ ProcessBulk(o)
<1>1. CASE UNCHANGED <<moveJobs, operations, workers>>
  BY <1>1 DEF WorkersKeep
<1>2. CASE UNCHANGED vars
  BY <1>1, <1>2 DEF vars
<1>3. CASE Client
  <2>1. CASE StartUpload \/ Rename \/ Remove \/ RemoveGallery
    BY <1>1, <2>1, ZenonT(60) DEF StartUpload, createUploadIntent, Rename, rename, Remove, remove, expire,
                      RemoveGallery, removeGallery
  <2>2. CASE StartBulk
    BY <2>2 DEF StartBulk, startDelete, startMove
  <2>3. CASE Resolve
    BY <2>3 DEF Resolve
  <2>4. CASE Dismiss
    BY <2>4 DEF Dismiss
  <2> QED BY <1>3, <2>1, <2>2, <2>3, <2>4 DEF Client
<1>4. CASE StorageServer
  <2>1. UNCHANGED <<moveJobs, operations, workers>>
    BY <1>4 DEF StorageServer, Claim, claimUpload, Serve, installReplacing, statInstalled,
        completeUpload, completeUploadRejected, failUpload, renewUpload, abortUpload,
        handlerCrash
  <2> QED BY <1>1, <2>1
<1>5. CASE StorageWorker
  <2>1. PICK w \in Workers :
           \/ ClaimMaintenance(w) \/ Work(w) \/ renewDelete(w) \/ renewEntryMove(w)
           \/ deleteTaskFails(w) \/ moveTaskFails(w) \/ workerCrash(w)
    BY <1>5 DEF StorageWorker
  <2>2. CASE \E j \in MoveJobIds : claimMove(w, j) \/ claimMoveRefused(w, j)
    BY <2>2, ClaimedJobs
  <2>3. CASE \/ \E answered \in BOOLEAN : completeEntryMove(w, answered)
             \/ completeEntryMoveError(w) \/ renewEntryMove(w)
    BY <2>3, WorkerJobs
  <2> DEFINE before == workers[w]
  <2>4. ASSUME UNCHANGED <<moveJobs, operations>>, NEW row,
               workers' = [workers EXCEPT ![w] = row],
               row.pc \in Moving =>
                  before.pc \in Moving /\ row.job = before.job /\ row.dest = before.dest
        PROVE  WorkersKeep
    BY <2>4 DEF WorkersKeep, TypeInv, Rows
  <2>5. before \in WorkerRow
    BY DEF TypeInv, Rows
  <2>6. CASE \E j \in DeleteJobIds : claimDelete(w, j) \/ claimDeleteExhausted(w, j)
    <3>1. CASE workers' = workers
      BY <1>1, <2>6, <3>1 DEF claimDelete, claimDeleteExhausted
    <3>2. CASE workers' # workers
      <4>1. PICK j \in DeleteJobIds : claimDelete(w, j)
        BY <2>6, <3>2 DEF claimDeleteExhausted
      <4> DEFINE row == [IdleWorker EXCEPT
                      !.pc = "unlinking", !.job = j, !.key = deleteJobs[j].key,
                      !.remove = deleteJobs[j].deleteOriginal
                                 /\ ~referencedElsewhere(deleteJobs[j])]
      <4>2. row.pc \notin Moving
        BY DEF IdleWorker, Moving
      <4>3. workers' = [workers EXCEPT ![w] = row]
        BY <4>1 DEF claimDelete
      <4> HIDE DEF row
      <4> QED BY <2>4, <4>1, <4>2, <4>3 DEF claimDelete
    <3> QED BY <3>1, <3>2
  <2>7. \A pc \in {"unlinked", "deleteFailing", "copied", "writing", "reporting", "moveFailing"} :
           LET row == [before EXCEPT !.pc = pc]
           IN  row.pc = pc /\ row.job = before.job /\ row.dest = before.dest
    BY <2>5 DEF WorkerRow, Worker
  <2>8. IdleWorker.pc = "idle"
    BY DEF IdleWorker
  <2>9. CASE \/ unlinkOriginal(w) \/ completeDeleteError(w)
             \/ \E answered \in BOOLEAN : completeDelete(w, answered)
             \/ renewDelete(w) \/ deleteTaskFails(w) \/ workerCrash(w)
    <3>1. /\ \/ workers' = workers
             \/ workers' = [workers EXCEPT ![w] = IdleWorker]
             \/ workers' = [workers EXCEPT ![w].pc = "unlinked"]
             \/ workers' = [workers EXCEPT ![w].pc = "deleteFailing"]
          /\ UNCHANGED <<moveJobs, operations>>
      BY <2>9 DEF unlinkOriginal, completeDelete, completeDeleteError, renewDelete,
                  deleteTaskFails, workerCrash
    <3> HIDE DEF before
    <3> QED BY <1>1, <2>4, <2>7, <2>8, <3>1 DEF Moving, before
  <2>10. CASE lookAtDestination(w) \/ copyAtomically(w) \/ statCopied(w)
              \/ completeEntryMoveThrows(w) \/ moveTaskFails(w)
    <3>1. /\ \E pc \in {"copied", "writing", "reporting", "moveFailing"} :
                workers' = [workers EXCEPT ![w].pc = pc]
          /\ UNCHANGED <<moveJobs, operations>>
      BY <2>10 DEF lookAtDestination, copyAtomically, statCopied, completeEntryMoveThrows,
                   moveTaskFails
    <3>2. before.pc \in Moving
      BY <2>10 DEF lookAtDestination, copyAtomically, statCopied, completeEntryMoveThrows,
                   moveTaskFails, Moving
    <3>3. PICK pc \in {"copied", "writing", "reporting", "moveFailing"} :
              workers' = [workers EXCEPT ![w] = [before EXCEPT !.pc = pc]]
      BY <3>1
    <3> DEFINE row == [before EXCEPT !.pc = pc]
    <3>4. row.job = before.job /\ row.dest = before.dest
      BY <2>7, <3>3
    <3>5. workers' = [workers EXCEPT ![w] = row]
      BY <3>3
    <3> HIDE DEF before, row
    <3> QED BY <2>4, <3>1, <3>2, <3>4, <3>5
  <2> QED BY <2>1, <2>2, <2>3, <2>6, <2>9, <2>10 DEF ClaimMaintenance, Work
<1>6. CASE Scheduler
  <2>1. CASE \E j \in MoveJobIds : moveLeaseLapses(j)
    <3>1. PICK j \in MoveJobIds : moveLeaseLapses(j)
      BY <2>1
    <3> DEFINE row == [moveJobs[j] EXCEPT !.lapsed = TRUE]
    <3>2. row \in MoveRow /\ row.op = moveJobs[j].op /\ row.folder = moveJobs[j].folder /\ row.status = "processing"
      BY <3>1, RequeuedRow DEF moveLeaseLapses, TypeInv, Rows
    <3>3. moveJobs' = [moveJobs EXCEPT ![j] = row]
      BY <3>1 DEF moveLeaseLapses
    <3> HIDE DEF row
    <3> QED BY <3>1, <3>2, <3>3 DEF Requeued, moveLeaseLapses, WorkersKeep
  <2>2. CASE \/ \E i \in IntentIds : uploadLeaseLapses(i)
             \/ \E j \in DeleteJobIds : deleteLeaseLapses(j)
             \/ Sweep \/ CleanUp
    BY <1>1, <2>2 DEF uploadLeaseLapses, deleteLeaseLapses, Sweep, recoverStaleRequests,
                      CleanUp, queueEntries
  <2>3. CASE \E o \in OperationIds : ProcessBulk(o)
    BY <2>3
  <2> QED BY <1>6, <2>1, <2>2, <2>3 DEF Scheduler, Lapse
<1> QED BY <1>2, <1>3, <1>4, <1>5, <1>6 DEF Next

(***************************************************************************)
(* Rows after counting                                                     *)
(***************************************************************************)

\* A row that was counted after another one, so many items further.
Counted(r, op, tallied, conflicts) ==
    /\ r \in OperationRow /\ r.source = op.source
    /\ Waiting(r) /\ Over(r)
    /\ Tallied(r) = Tallied(op) + tallied
    /\ r.conflicts = op.conflicts + conflicts

\* What each way of counting an item does to the numbers of a row.
LEMMA TallyRow ==
    ASSUME NEW op \in OperationRow, op.status # "absent"
    PROVE  /\ Counted(counted(op), op, 0, 0) /\ counted(op).total = op.total
           /\ Counted(oneCompleted(op), op, 1, 0) /\ oneCompleted(op).total = op.total
           /\ Counted(oneFailed(op), op, 1, 0) /\ oneFailed(op).total = op.total
           /\ Counted(oneParked(op), op, 1, 1) /\ oneParked(op).total = op.total
           /\ Counted(oneFewer(op), op, 0, 0) /\ oneFewer(op).total = AtLeastZero(op.total - 1)
<1>1. op.completed \in Nat /\ op.failed \in Nat /\ op.conflicts \in Nat /\ op.total \in Nat
      /\ Tallied(op) \in Nat
  BY DEF OperationRow, Operation, Tallied
<1>2. AtLeastZero(op.total - 1) \in Nat
  BY <1>1 DEF AtLeastZero
<1>3. ASSUME NEW r \in OperationRow, r.status # "absent"
      PROVE  /\ Waiting(counted(r)) /\ Over(counted(r)) /\ counted(r) \in OperationRow
             /\ counted(r).total = r.total /\ counted(r).conflicts = r.conflicts
             /\ Tallied(counted(r)) = Tallied(r)
             /\ counted(r).source = r.source
  BY <1>3, CountedRow, CountedType
<1> DEFINE c == [op EXCEPT !.completed = op.completed + 1]
           f == [op EXCEPT !.failed = op.failed + 1]
           p == [op EXCEPT !.conflicts = op.conflicts + 1]
           t == [op EXCEPT !.total = AtLeastZero(op.total - 1)]
<1>4. /\ c \in OperationRow /\ c.status # "absent" /\ c.source = op.source
      /\ c.total = op.total /\ c.conflicts = op.conflicts /\ Tallied(c) = Tallied(op) + 1
  BY <1>1 DEF OperationRow, Operation, Tallied
<1>5. /\ f \in OperationRow /\ f.status # "absent" /\ f.source = op.source
      /\ f.total = op.total /\ f.conflicts = op.conflicts /\ Tallied(f) = Tallied(op) + 1
  BY <1>1 DEF OperationRow, Operation, Tallied
<1>6. /\ p \in OperationRow /\ p.status # "absent" /\ p.source = op.source
      /\ p.total = op.total /\ p.conflicts = op.conflicts + 1 /\ Tallied(p) = Tallied(op) + 1
  BY <1>1 DEF OperationRow, Operation, Tallied
<1>7. /\ t \in OperationRow /\ t.status # "absent" /\ t.source = op.source
      /\ t.total = AtLeastZero(op.total - 1) /\ t.conflicts = op.conflicts
      /\ Tallied(t) = Tallied(op)
  BY <1>1, <1>2 DEF OperationRow, Operation, Tallied
<1>8. /\ oneCompleted(op) = counted(c) /\ oneFailed(op) = counted(f)
      /\ oneParked(op) = counted(p) /\ oneFewer(op) = counted(t)
  BY DEF oneCompleted, oneFailed, oneParked, oneFewer
<1> HIDE DEF c, f, p, t
<1>9. Counted(counted(op), op, 0, 0) /\ counted(op).total = op.total
  BY <1>1, <1>3 DEF Counted
<1>10. Counted(counted(c), op, 1, 0) /\ counted(c).total = op.total
  BY <1>1, <1>3, <1>4 DEF Counted
<1>11. Counted(counted(f), op, 1, 0) /\ counted(f).total = op.total
  BY <1>1, <1>3, <1>5 DEF Counted
<1>12. Counted(counted(p), op, 1, 1) /\ counted(p).total = op.total
  BY <1>1, <1>3, <1>6 DEF Counted
<1>13. Counted(counted(t), op, 0, 0) /\ counted(t).total = AtLeastZero(op.total - 1)
  BY <1>1, <1>3, <1>7 DEF Counted
<1> QED BY <1>8, <1>9, <1>10, <1>11, <1>12, <1>13

\* A page counts its item in the total alone.
LEMMA VisitedRow ==
    ASSUME Rows, NEW o \in OperationIds, NEW e \in EntryIds, scheduled(o)
    PROVE  /\ visited(o, e) \in OperationRow /\ visited(o, e).status # "absent"
           /\ visited(o, e).total = operations[o].total + 1
           /\ visited(o, e).conflicts = operations[o].conflicts
           /\ Tallied(visited(o, e)) = Tallied(operations[o])
           /\ visited(o, e).source = operations[o].source
<1> DEFINE last == candidates(o) = {e}
           op == operations[o]
           v == [op EXCEPT !.todo = op.todo \ {e}, !.total = op.total + 1, !.discovered = last]
<1>1. op \in OperationRow
  BY DEF Rows
<1>2. visited(o, e) = v
  BY DEF visited
<1> HIDE DEF last, op
<1>3. /\ v.total = op.total + 1 /\ v.conflicts = op.conflicts /\ v.source = op.source
      /\ Tallied(v) = Tallied(op)
  BY <1>1 DEF OperationRow, Operation, Tallied
<1> HIDE DEF v
<1> QED BY <1>2, <1>3, VisitedType DEF op

\* A parked item that is taken up again is parked no longer.
LEMMA UnparkedRow ==
    ASSUME Rows, NEW o \in OperationIds, operations[o].status # "absent",
           operations[o].conflicts > 0
    PROVE  /\ unparked(o) \in OperationRow /\ unparked(o).status # "absent"
           /\ unparked(o).total = operations[o].total
           /\ unparked(o).conflicts = operations[o].conflicts - 1
           /\ Tallied(unparked(o)) = Tallied(operations[o]) - 1
           /\ unparked(o).source = operations[o].source
<1> DEFINE op == operations[o]
<1>1. op \in OperationRow /\ op.conflicts \in Nat
      /\ op.completed \in Nat /\ op.failed \in Nat
  BY DEF Rows, OperationRow, Operation
<1>2. AtLeastZero(op.conflicts - 1) = op.conflicts - 1 /\ op.conflicts - 1 \in Nat
  BY <1>1 DEF AtLeastZero
<1>3. unparked(o) = [op EXCEPT !.conflicts = op.conflicts - 1]
  BY <1>2 DEF unparked
<1>4. op.status # "absent"
  OBVIOUS
<1> HIDE DEF op
<1> QED BY <1>1, <1>2, <1>3, <1>4 DEF OperationRow, Operation, Tallied, op

(***************************************************************************)
(* Steps                                                                   *)
(***************************************************************************)

\* Everything but one operation stays balanced when the jobs of the others do
\* not change.
LEMMA OthersBalanced ==
    ASSUME TypeInv, BulkInv, StaysGone, NEW o \in OperationIds, NEW row \in OperationRow,
           operations' = [operations EXCEPT ![o] = row],
           \A p : p # o => live(p)' = live(p) /\ parked(p)' = parked(p)
    PROVE  \A p \in OperationIds \ {o} : Balanced(p)'
<1> SUFFICES ASSUME NEW p \in OperationIds \ {o} PROVE Balanced(p)'
  OBVIOUS
<1>1. operations'[p] = operations[p] /\ Balanced(p)
  BY DEF BulkInv, TypeInv, Rows
<1>2. operations[p].status # "absent" => GalleryOf[operations[p].source] \in Galleries
  BY CatalogAssumption DEF TypeInv, Rows, OperationRow
<1>3. operations[p].status # "absent" /\ ~sourceGone(p)' => ~sourceGone(p)
  BY <1>1, <1>2 DEF sourceGone, StaysGone
<1> QED BY <1>1, <1>3 DEF Balanced

\* An operation is counted again, and its jobs stay as they are.
LEMMA CountOnly ==
    ASSUME TypeInv, BulkInv, StaysGone, NEW o \in OperationIds, NEW row \in OperationRow,
           operations[o].status # "absent", row.source = operations[o].source,
           operations' = [operations EXCEPT ![o] = row], UNCHANGED <<moveJobs, workers>>,
           Waiting(row), row.conflicts = operations[o].conflicts,
           ~sourceGone(o) => /\ Over(row)
                             /\ row.total <= Tallied(row) + Cardinality(live(o))
    PROVE  BulkInv'
<1>1. /\ InUse' = InUse /\ \A p : live(p)' = live(p) /\ parked(p)' = parked(p)
      /\ CopiesUnparked'
  BY DEF InUse, live, parked, CopiesUnparked, BulkInv
<1>2. operations'[o] = row /\ Balanced(o)
  BY DEF TypeInv, Rows, BulkInv
<1>3. ~sourceGone(o)' => ~sourceGone(o)
  BY <1>2, CatalogAssumption DEF sourceGone, StaysGone, TypeInv, Rows, OperationRow
<1>4. Balanced(o)'
  BY <1>1, <1>2, <1>3 DEF Balanced
<1>5. \A p \in OperationIds \ {o} : Balanced(p)'
  BY <1>1, OthersBalanced
<1> QED BY <1>1, <1>4, <1>5 DEF BulkInv

Live(r) == r.status \in {"queued", "processing"}

\* An operation is counted again while one of its jobs is written.
LEMMA CountWithJob ==
    ASSUME TypeInv, BulkInv, StaysGone, CopiesUnparked', NEW o \in OperationIds,
           NEW row \in OperationRow, operations[o].status # "absent",
           row.source = operations[o].source, operations' = [operations EXCEPT ![o] = row],
           NEW j \in MoveJobIds, NEW job \in MoveRow, moveJobs' = [moveJobs EXCEPT ![j] = job],
           moveJobs[j].status # "absent" => moveJobs[j].op = o,
           job.status # "absent" => job.op = o,
           Waiting(row),
           row.conflicts = operations[o].conflicts
                 - One(moveJobs[j].status = "conflict") + One(job.status = "conflict"),
           ~sourceGone(o) =>
              /\ Over(row)
              /\ row.total <= Tallied(row) + (Cardinality(live(o)) - One(Live(moveJobs[j]))
                                                                   + One(Live(job)))
    PROVE  BulkInv'
<1>1. /\ IsFiniteSet(InUse')
      /\ \A p : p # o => live(p)' = live(p) /\ parked(p)' = parked(p)
      /\ Cardinality(live(o)') =
            Cardinality(live(o)) - One(Live(moveJobs[j])) + One(Live(job))
      /\ Cardinality(parked(o)') = Cardinality(parked(o))
            - One(moveJobs[j].status = "conflict") + One(job.status = "conflict")
  BY JobWritten DEF TypeInv, BulkInv, Live
<1>2. operations'[o] = row /\ Balanced(o)
  BY DEF TypeInv, Rows, BulkInv
<1>3. ~sourceGone(o)' => ~sourceGone(o)
  BY <1>2, CatalogAssumption DEF sourceGone, StaysGone, TypeInv, Rows, OperationRow
<1>4. Balanced(o)'
  <2>1. row.conflicts = Cardinality(parked(o)')
    BY <1>1, <1>2 DEF Balanced
  <2>2. ~sourceGone(o)' => Over(row) /\ row.total <= Tallied(row) + Cardinality(live(o)')
    BY <1>1, <1>3
  <2> QED BY <1>2, <2>1, <2>2 DEF Balanced
<1>5. \A p \in OperationIds \ {o} : Balanced(p)'
  BY <1>1, OthersBalanced
<1> QED BY <1>1, <1>4, <1>5 DEF BulkInv

\* A job that a worker has, or is given, was not parked in between: parked jobs
\* come from the rows no worker names.
LEMMA UnparkedKept ==
    ASSUME TypeInv, CopiesUnparked, WorkersKeep, NEW j \in MoveJobIds, NEW row,
           row.status # "conflict", moveJobs' = [moveJobs EXCEPT ![j] = row]
    PROVE  CopiesUnparked'
<1> SUFFICES ASSUME NEW w \in Workers, workers'[w].pc \in Moving
             PROVE  moveJobs'[workers'[w].job].status # "conflict"
  BY DEF CopiesUnparked
<1>1. CASE moveJobs'[workers'[w].job].status = "processing"
  BY <1>1
<1>2. CASE workers[w].pc \in Moving /\ workers'[w].job = workers[w].job
  <2>1. workers[w].job \in MoveJobIds /\ moveJobs[workers[w].job].status # "conflict"
    BY <1>2 DEF CopiesUnparked, TypeInv, Rows, WorkerRow
  <2> QED BY <1>2, <2>1 DEF TypeInv, Rows
<1> QED BY <1>1, <1>2 DEF WorkersKeep

\* A job that starts parked is one no worker names.
LEMMA FreshKept ==
    ASSUME TypeInv, CopiesUnparked, UNCHANGED workers, NEW j \in FreeMoveJobs, NEW row,
           moveJobs' = [moveJobs EXCEPT ![j] = row]
    PROVE  CopiesUnparked'
BY DEF CopiesUnparked, FreeMoveJobs, TypeInv, Rows, WorkerRow

\* Counting on without writing a job.
LEMMA QuietBalanced ==
    ASSUME TypeInv, BulkInv, StaysGone, WorkersKeep, UNCHANGED <<moveJobs, operations>>
    PROVE  BulkInv'
<1>1. /\ InUse' = InUse /\ \A p : live(p)' = live(p) /\ parked(p)' = parked(p)
  BY DEF InUse, live, parked
<1>2. CopiesUnparked'
  BY DEF CopiesUnparked, WorkersKeep, BulkInv
<1>3. ASSUME NEW p \in OperationIds PROVE Balanced(p)'
  <2>1. operations'[p] = operations[p] /\ Balanced(p)
    BY DEF BulkInv
  <2>2. operations[p].status # "absent" => GalleryOf[operations[p].source] \in Galleries
    BY CatalogAssumption DEF TypeInv, Rows, OperationRow
  <2>3. operations[p].status # "absent" /\ ~sourceGone(p)' => ~sourceGone(p)
    BY <2>1, <2>2 DEF sourceGone, StaysGone
  <2> QED BY <1>1, <2>1, <2>3 DEF Balanced
<1> QED BY <1>1, <1>2, <1>3 DEF BulkInv

\* A job that is queued again is live again.
LEMMA RequeuedBalanced ==
    ASSUME TypeInv, BulkInv, StaysGone, WorkersKeep, NEW j \in MoveJobIds, Requeued(j)
    PROVE  BulkInv'
<1> DEFINE o == moveJobs[j].op
           row == operations[o]
<1>1. PICK job \in MoveRow : /\ job.status \in {"queued", "processing"}
                             /\ job.op = moveJobs[j].op
                             /\ moveJobs' = [moveJobs EXCEPT ![j] = job]
  BY DEF Requeued
<1>2. /\ o \in OperationIds /\ operations[o].status # "absent" /\ row \in OperationRow
      /\ Balanced(o) /\ IsFiniteSet(InUse)
  BY DEF Requeued, TypeInv, Rows, Owned, MoveRow, BulkInv
<1>3. operations' = [operations EXCEPT ![o] = row]
  BY <1>2 DEF Requeued, TypeInv, Rows
<1>4. CopiesUnparked'
  BY <1>1, UnparkedKept DEF BulkInv
<1>5. row.conflicts \in Nat /\ row.total \in Nat /\ Tallied(row) \in Nat
      /\ Cardinality(live(o)) \in Nat
  BY <1>2, JobSetsFinite DEF OperationRow, Operation, Tallied
<1>6. /\ One(Live(job)) = 1 /\ One(Live(moveJobs[j])) \in {0, 1}
      /\ One(job.status = "conflict") = 0 /\ One(moveJobs[j].status = "conflict") = 0
  BY <1>1 DEF One, Live, Requeued
<1>7. Waiting(row) /\ (~sourceGone(o) => Over(row)
         /\ row.total <= Tallied(row) + Cardinality(live(o)))
  BY <1>2 DEF Balanced
<1>8. row.conflicts = operations[o].conflicts
            - One(moveJobs[j].status = "conflict") + One(job.status = "conflict")
  BY <1>5, <1>6
<1>9. ~sourceGone(o) => row.total <= Tallied(row)
            + (Cardinality(live(o)) - One(Live(moveJobs[j])) + One(Live(job)))
  BY <1>5, <1>6, <1>7
<1>10. moveJobs[j].status # "absent" => moveJobs[j].op = o
  OBVIOUS
<1> HIDE DEF o, row
<1> QED BY <1>1, <1>2, <1>3, <1>4, <1>7, <1>8, <1>9, <1>10, CountWithJob DEF o, row

\* A job that is closed is counted as done or failed, unless the operation is
\* over and has counted all.
LEMMA ClosedBalanced ==
    ASSUME TypeInv, BulkInv, StaysGone, WorkersKeep, NEW j \in MoveJobIds, Closed(j)
    PROVE  BulkInv'
<1> DEFINE o == moveJobs[j].op
           op == operations[o]
<1>1. PICK job \in MoveRow : /\ job.status \in {"absent", "failed"}
                             /\ job.status # "absent" => job.op = moveJobs[j].op
                             /\ moveJobs' = [moveJobs EXCEPT ![j] = job]
  BY DEF Closed
<1>2. /\ o \in OperationIds /\ op.status # "absent" /\ op \in OperationRow
      /\ Balanced(o) /\ IsFiniteSet(InUse)
  BY DEF Closed, TypeInv, Rows, Owned, MoveRow, BulkInv
<1>3. CopiesUnparked'
  BY <1>1, UnparkedKept DEF BulkInv
<1>4. op.conflicts \in Nat /\ op.total \in Nat /\ Tallied(op) \in Nat
      /\ Cardinality(live(o)) \in Nat
  BY <1>2, JobSetsFinite DEF OperationRow, Operation, Tallied
<1>5. /\ One(Live(job)) = 0 /\ One(Live(moveJobs[j])) \in {0, 1}
      /\ One(job.status = "conflict") = 0 /\ One(moveJobs[j].status = "conflict") = 0
  BY <1>1 DEF One, Live, Closed
<1>6. Waiting(op) /\ (~sourceGone(o) => Over(op)
         /\ op.total <= Tallied(op) + Cardinality(live(o)))
      /\ op.conflicts = Cardinality(parked(o))
  BY <1>2 DEF Balanced
<1>7. \E row \in OperationRow :
         /\ operations' = [operations EXCEPT ![o] = row] /\ row.source = op.source
         /\ Waiting(row) /\ row.conflicts = op.conflicts
         /\ ~sourceGone(o) => Over(row) /\ row.total <= Tallied(row)
                              + (Cardinality(live(o)) - One(Live(moveJobs[j])) + One(Live(job)))
  <2>1. CASE op.status \in {"complete", "failed"}
    <3>1. operations' = [operations EXCEPT ![o] = op]
      BY <1>2, <2>1 DEF Closed, settleBulkMoveItem, TypeInv, Rows
    <3>2. ~sourceGone(o) => Over(op) /\ op.total <= Tallied(op)
                              + (Cardinality(live(o)) - One(Live(moveJobs[j])) + One(Live(job)))
      <4>1. CASE ~sourceGone(o)
        <5>1. Cardinality(live(o)) - One(Live(moveJobs[j])) + One(Live(job)) >= 0
          <6>1. CASE Live(moveJobs[j])
            <7>1. j \in live(o)
              BY <6>1 DEF live, Live
            <7>2. Cardinality(live(o)) # 0
              BY <1>2, <7>1, JobSetsFinite, FS_EmptySet
            <7> HIDE DEF o
            <7> QED BY <1>4, <1>5, <7>2
          <6>2. CASE ~Live(moveJobs[j])
            <7>1. One(Live(moveJobs[j])) = 0
              BY <6>2 DEF One
            <7> HIDE DEF o
            <7> QED BY <1>4, <1>5, <7>1
          <6> QED BY <6>1, <6>2
        <5>2. Over(op) /\ op.total <= Tallied(op)
          BY <1>6, <2>1, <4>1 DEF Over
        <5>3. One(Live(moveJobs[j])) \in Int /\ One(Live(job)) \in Int
          BY <1>5
        <5> HIDE DEF op, o
        <5> QED BY <1>4, <5>1, <5>2, <5>3
      <4> QED BY <4>1
    <3> QED BY <1>2, <1>6, <3>1, <3>2
  <2>2. CASE op.status \notin {"complete", "failed"}
    <3>1. PICK row \in {oneCompleted(op), oneFailed(op)} :
             operations' = [operations EXCEPT ![o] = row]
      BY <2>2 DEF Closed, settleBulkMoveItem
    <3> HIDE DEF op, o
    <3>2. /\ Waiting(row) /\ Over(row) /\ row.source = op.source /\ row \in OperationRow
          /\ row.total = op.total /\ row.conflicts = op.conflicts
          /\ Tallied(row) = Tallied(op) + 1
      <4>1. Counted(row, op, 1, 0) /\ row.total = op.total
        BY <1>2, <3>1, TallyRow
      <4> QED BY <1>4, <4>1 DEF Counted
    <3>3. ~sourceGone(o) => row.total <= Tallied(row)
                              + (Cardinality(live(o)) - One(Live(moveJobs[j])) + One(Live(job)))
      BY <1>4, <1>5, <1>6, <3>2
    <3> QED BY <3>1, <3>2, <3>3
  <2> QED BY <2>1, <2>2
<1>8. moveJobs[j].status # "absent" => moveJobs[j].op = o
  OBVIOUS
<1>9. op.conflicts = op.conflicts
            - One(moveJobs[j].status = "conflict") + One(job.status = "conflict")
  BY <1>4, <1>5
<1>10. op = operations[o]
  OBVIOUS
<1>11. job.status # "absent" => job.op = o
  BY <1>1
<1> HIDE DEF op, o
<1>12. PICK row \in OperationRow :
         /\ operations' = [operations EXCEPT ![o] = row] /\ row.source = op.source
         /\ Waiting(row) /\ row.conflicts = op.conflicts
         /\ ~sourceGone(o) => Over(row) /\ row.total <= Tallied(row)
                              + (Cardinality(live(o)) - One(Live(moveJobs[j])) + One(Live(job)))
  BY <1>7
<1> QED BY <1>1, <1>2, <1>3, <1>8, <1>9, <1>10, <1>11, <1>12, CountWithJob

\* A row that is written without counting.
LEMMA RewrittenBalanced ==
    ASSUME TypeInv, BulkInv, StaysGone, NEW o \in OperationIds, NEW row \in OperationRow,
           operations[o].status # "absent", operations' = [operations EXCEPT ![o] = row],
           UNCHANGED <<moveJobs, workers>>, row.source = operations[o].source,
           row.total = operations[o].total, row.conflicts = operations[o].conflicts,
           Tallied(row) = Tallied(operations[o]),
           Waiting(row), ~sourceGone(o) => Over(row)
    PROVE  BulkInv'
<1>1. ~sourceGone(o) => row.total <= Tallied(row) + Cardinality(live(o))
  BY DEF BulkInv, Balanced
<1> QED BY <1>1, CountOnly

\* A new operation has no items yet.
LEMMA StartBalanced ==
    ASSUME TypeInv, BulkInv, StaysGone, NEW o \in OperationIds, NEW kind \in {"delete", "move"},
           NEW source \in Folders, NEW folder \in Folders \cup {None},
           NEW selection \in {"ids", "folder"}, NEW todo \in SUBSET EntryIds,
           insertOperation(o, kind, source, folder, selection, todo), TypeInv'
    PROVE  BulkInv'
<1> DEFINE row == [NoOperation EXCEPT !.status = "queued", !.kind = kind, !.source = source,
                     !.folder = folder, !.selection = selection, !.todo = todo]
<1>1. /\ operations' = [operations EXCEPT ![o] = row] /\ UNCHANGED <<moveJobs, workers>>
      /\ operations[o].status = "absent"
  BY DEF insertOperation
<1>2. /\ row.status = "queued" /\ row.total = 0 /\ row.completed = 0 /\ row.failed = 0
      /\ row.conflicts = 0 /\ row.discovered = FALSE
  BY DEF NoOperation
<1> HIDE DEF row
<1>3. operations'[o] = row /\ row \in OperationRow
  BY <1>1 DEF TypeInv, Rows
<1>4. /\ InUse' = InUse /\ \A p : live(p)' = live(p) /\ parked(p)' = parked(p)
      /\ CopiesUnparked'
  BY <1>1 DEF InUse, live, parked, CopiesUnparked, BulkInv
<1>5. parked(o) = {} /\ live(o) = {}
  BY <1>1 DEF parked, live, TypeInv, Owned, Rows
<1>6. Balanced(o)'
  BY <1>2, <1>3, <1>4, <1>5, FS_EmptySet DEF Balanced, Waiting, Over, Tallied
<1>7. \A p \in OperationIds \ {o} : Balanced(p)'
  BY <1>1, <1>3, <1>4, OthersBalanced
<1> QED BY <1>4, <1>6, <1>7 DEF BulkInv

\* The user's choices change no count.
LEMMA ChoiceBalanced ==
    ASSUME TypeInv, BulkInv, StaysGone, NEW o \in OperationIds,
           \/ \E p \in {"replace", "rename", "skip"} : resolveConflicts(o, p)
           \/ dismissFinished(o)
    PROVE  BulkInv'
<1> DEFINE op == operations[o]
<1>1. op \in OperationRow /\ op.status # "absent" /\ op.conflicts \in Nat
  BY DEF resolveConflicts, dismissFinished, TypeInv, Rows, OperationRow, Operation
<1>2. UNCHANGED <<moveJobs, workers>>
  BY DEF resolveConflicts, dismissFinished
<1>3. Waiting(op) /\ (~sourceGone(o) => Over(op))
  BY <1>1 DEF BulkInv, Balanced
<1>4. CASE \E p \in {"replace", "rename", "skip"} : resolveConflicts(o, p)
  <2>1. PICK p \in {"replace", "rename", "skip"} : resolveConflicts(o, p)
    BY <1>4
  <2> DEFINE row == [op EXCEPT !.policy = p, !.apply = TRUE]
  <2>2. operations' = [operations EXCEPT ![o] = row]
    BY <2>1 DEF resolveConflicts
  <2>3. /\ row \in OperationRow /\ row.source = op.source /\ row.status = op.status
        /\ row.total = op.total /\ row.conflicts = op.conflicts /\ row.completed = op.completed
        /\ row.failed = op.failed /\ row.discovered = op.discovered
    BY <1>1 DEF OperationRow, Operation, Policies
  <2> HIDE DEF row
  <2>4. Waiting(row) /\ (~sourceGone(o) => Over(row)) /\ Tallied(row) = Tallied(op)
    BY <1>3, <2>3 DEF Waiting, Over, Tallied
  <2> QED BY <1>1, <1>2, <2>2, <2>3, <2>4, RewrittenBalanced
<1>5. CASE dismissFinished(o)
  <2> DEFINE row == [op EXCEPT !.dismissed = TRUE]
  <2>2. operations' = [operations EXCEPT ![o] = row]
    BY <1>5 DEF dismissFinished
  <2>3. /\ row \in OperationRow /\ row.source = op.source /\ row.status = op.status
        /\ row.total = op.total /\ row.conflicts = op.conflicts /\ row.completed = op.completed
        /\ row.failed = op.failed /\ row.discovered = op.discovered
    BY <1>1 DEF OperationRow, Operation
  <2> HIDE DEF row
  <2>4. Waiting(row) /\ (~sourceGone(o) => Over(row)) /\ Tallied(row) = Tallied(op)
    BY <1>3, <2>3 DEF Waiting, Over, Tallied
  <2> QED BY <1>1, <1>2, <2>2, <2>3, <2>4, RewrittenBalanced
<1> QED BY <1>4, <1>5

\* A source that is gone, or has nothing to select, ends the operation.
LEMMA EndsBalanced ==
    ASSUME TypeInv, BulkInv, StaysGone, NEW o \in OperationIds,
           processSourceGone(o) \/ processNothing(o)
    PROVE  BulkInv'
<1> DEFINE op == operations[o]
<1>1. op \in OperationRow /\ op.status # "absent"
  BY DEF processSourceGone, processNothing, scheduled, TypeInv, Rows
<1>2. UNCHANGED <<moveJobs, workers>>
  BY DEF processSourceGone, processNothing
<1>3. CASE processSourceGone(o)
  <2> DEFINE row == [op EXCEPT !.status = "failed", !.discovered = TRUE]
  <2>1. operations' = [operations EXCEPT ![o] = row] /\ sourceGone(o)
    BY <1>3 DEF processSourceGone
  <2>2. /\ row \in OperationRow /\ row.source = op.source /\ row.status = "failed"
        /\ row.total = op.total /\ row.conflicts = op.conflicts /\ Tallied(row) = Tallied(op)
    BY <1>1 DEF OperationRow, Operation, Tallied
  <2> HIDE DEF row
  <2>3. Waiting(row)
    BY <2>2 DEF Waiting
  <2> QED BY <1>1, <1>2, <2>1, <2>2, <2>3, RewrittenBalanced
<1>4. CASE processNothing(o)
  <2> DEFINE seen == [op EXCEPT !.discovered = TRUE]
             row == counted(seen)
  <2>1. operations' = [operations EXCEPT ![o] = row]
    BY <1>4 DEF processNothing
  <2>2. /\ seen \in OperationRow /\ seen.source = op.source /\ seen.status # "absent"
        /\ seen.total = op.total /\ seen.conflicts = op.conflicts /\ Tallied(seen) = Tallied(op)
    BY <1>1 DEF OperationRow, Operation, Tallied
  <2> HIDE DEF seen
  <2>3. /\ Waiting(row) /\ Over(row) /\ row \in OperationRow /\ row.total = op.total
        /\ row.conflicts = op.conflicts /\ Tallied(row) = Tallied(op) /\ row.source = op.source
    BY <2>2, CountedRow, CountedType
  <2> HIDE DEF row
  <2> QED BY <1>1, <1>2, <2>1, <2>3, RewrittenBalanced
<1> QED BY <1>3, <1>4

\* An item that is refused, deleted or kept is counted as it is visited.
LEMMA SettledItemBalanced ==
    ASSUME TypeInv, BulkInv, StaysGone, NEW o \in OperationIds, NEW e \in EntryIds,
           scheduled(o), refuseItem(o, e) \/ deleteItem(o, e) \/ keepItem(o, e),
           UNCHANGED workers
    PROVE  BulkInv'
<1> DEFINE op == operations[o]
           v  == visited(o, e)
<1>1. op.status # "absent" /\ Balanced(o) /\ op \in OperationRow
      /\ Cardinality(live(o)) \in Nat
  BY JobSetsFinite DEF scheduled, BulkInv, TypeInv, Rows
<1>2. op.total \in Nat /\ Tallied(op) \in Nat /\ op.conflicts \in Nat
  BY <1>1 DEF OperationRow, Operation, Tallied
<1>3. /\ v \in OperationRow /\ v.status # "absent" /\ v.total = op.total + 1
      /\ v.conflicts = op.conflicts /\ Tallied(v) = Tallied(op) /\ v.source = op.source
  BY VisitedRow DEF TypeInv
<1>4. /\ UNCHANGED moveJobs
      /\ \/ operations' = [operations EXCEPT ![o] = oneCompleted(v)]
         \/ operations' = [operations EXCEPT ![o] = oneFailed(v)]
  BY DEF refuseItem, deleteItem, keepItem
<1> HIDE DEF v
<1>5. PICK row : /\ operations' = [operations EXCEPT ![o] = row]
                 /\ Counted(row, v, 1, 0) /\ row.total = v.total
  BY <1>3, <1>4, TallyRow
<1>6. ~sourceGone(o) => op.total <= Tallied(op) + Cardinality(live(o))
  BY <1>1 DEF Balanced
<1> HIDE DEF op
<1>7. /\ row \in OperationRow /\ Waiting(row) /\ Over(row) /\ row.source = op.source
      /\ row.conflicts = op.conflicts /\ row.total = op.total + 1
      /\ Tallied(row) = Tallied(op) + 1
  BY <1>2, <1>3, <1>5 DEF Counted
<1>8. ~sourceGone(o) => row.total <= Tallied(row) + Cardinality(live(o))
  BY <1>1, <1>2, <1>6, <1>7
<1> QED BY <1>1, <1>4, <1>5, <1>7, <1>8, CountOnly DEF op

\* A job that moves an item of o, or waits to.
JobOf(o) == {r \in MoveRow : r.status # "absent" /\ r.op = o}

\* The row that queues an item ...
LEMMA QueuedJob ==
    ASSUME Rows, NEW o \in OperationIds, operations[o].status # "absent",
           operations[o].kind = "move", NEW e \in EntryIds, Ready(e),
           NEW name \in Names, NEW policy \in Policies
    PROVE  /\ QueuedMove(o, e, name, policy) \in JobOf(o)
           /\ QueuedMove(o, e, name, policy).status = "queued"
<1>1. QueuedMove(o, e, name, policy).status = "queued"
  BY DEF QueuedMove, NoMoveJob
<1> QED BY <1>1, QueuedMoveType DEF JobOf

\* ... and the row that parks it.
LEMMA ParkedJob ==
    ASSUME NEW o, NEW r \in JobOf(o)
    PROVE  LET s == [r EXCEPT !.status = "conflict"]
           IN  s \in JobOf(o) /\ s.status = "conflict"
BY DEF JobOf, MoveRow, MoveJob

\* An item that is visited and moved is live, parked or withdrawn.
LEMMA MovedItemBalanced ==
    ASSUME TypeInv, BulkInv, StaysGone, NEW o \in OperationIds, NEW e \in EntryIds,
           scheduled(o), moveItem(o, e), UNCHANGED workers
    PROVE  BulkInv'
<1> DEFINE op == operations[o]
           v  == visited(o, e)
           policy == IF op.policy = "skip" THEN "ask" ELSE op.policy
           landing == resolveLandingName(op.folder, entries[e].name, policy,
                                         reservedNameKeys(op.folder, None, None), e)
<1>1. /\ op.status # "absent" /\ op.kind = "move" /\ Balanced(o) /\ op \in OperationRow
      /\ Cardinality(live(o)) \in Nat /\ Ready(e) /\ entries[e].name \in Names
  BY JobSetsFinite
  DEF scheduled, moveItem, eligible, movable, BulkInv, TypeInv, Rows, EntryRow, Ready
<1>2. op.total \in Nat /\ Tallied(op) \in Nat /\ op.conflicts \in Nat
  BY <1>1 DEF OperationRow, Operation, Tallied
<1>3. /\ v \in OperationRow /\ v.status # "absent" /\ v.total = op.total + 1
      /\ v.conflicts = op.conflicts /\ Tallied(v) = Tallied(op) /\ v.source = op.source
  BY VisitedRow DEF TypeInv
<1>4. ~sourceGone(o) => op.total <= Tallied(op) + Cardinality(live(o))
  BY <1>1 DEF Balanced
<1>5. policy \in Policies /\ "ask" \in Policies
  BY <1>1 DEF OperationRow, Operation, Policies
<1>6. landing \subseteq Names
  BY <1>1, <1>5, LandingType
<1>7. \/ \E j \in FreeMoveJobs, name \in landing :
            /\ moveJobs' = [moveJobs EXCEPT ![j] = QueuedMove(o, e, name, policy)]
            /\ operations' = [operations EXCEPT ![o] = counted(v)]
      \/ \E j \in FreeMoveJobs :
            /\ moveJobs' = [moveJobs EXCEPT ![j] =
                    [QueuedMove(o, e, entries[e].name, "ask") EXCEPT !.status = "conflict"]]
            /\ operations' = [operations EXCEPT ![o] = oneParked(v)]
      \/ /\ operations' = [operations EXCEPT ![o] = oneFewer(v)]
         /\ UNCHANGED moveJobs
  BY DEF moveItem, queueMoveJob
<1> HIDE DEF v, policy, landing
<1>8. /\ Counted(counted(v), v, 0, 0) /\ counted(v).total = v.total
      /\ Counted(oneParked(v), v, 1, 1) /\ oneParked(v).total = v.total
      /\ Counted(oneFewer(v), v, 0, 0) /\ oneFewer(v).total = AtLeastZero(v.total - 1)
  BY <1>3, TallyRow
<1> DEFINE Fresh(job, row, tallied, conflicts) ==
              /\ job \in JobOf(o) /\ \E j \in FreeMoveJobs : moveJobs' = [moveJobs EXCEPT ![j] = job]
              /\ operations' = [operations EXCEPT ![o] = row]
              /\ Counted(row, v, tallied, conflicts) /\ row.total = v.total
<1>9. ASSUME NEW job, NEW row, NEW tallied \in {0, 1}, NEW conflicts \in {0, 1},
             Fresh(job, row, tallied, conflicts),
             conflicts = One(job.status = "conflict"), tallied + One(Live(job)) = 1
      PROVE  BulkInv'
  <2>1. PICK j \in FreeMoveJobs : moveJobs' = [moveJobs EXCEPT ![j] = job]
    BY <1>9
  <2>2. j \in MoveJobIds /\ moveJobs[j].status = "absent" /\ CopiesUnparked'
    BY <2>1, FreshKept DEF FreeMoveJobs, BulkInv
  <2>3. One(Live(moveJobs[j])) = 0 /\ One(moveJobs[j].status = "conflict") = 0
        /\ One(Live(job)) \in {0, 1}
    BY <2>2 DEF One, Live
  <2>4. job \in MoveRow /\ job.op = o /\ row \in OperationRow /\ Waiting(row) /\ Over(row)
    BY <1>9 DEF JobOf, Counted
  <2> HIDE DEF op
  <2>5. /\ row.source = op.source /\ row.total = op.total + 1
        /\ row.conflicts = op.conflicts + conflicts /\ Tallied(row) = Tallied(op) + tallied
    BY <1>3, <1>9 DEF Counted
  <2>6. row.conflicts = op.conflicts - One(moveJobs[j].status = "conflict")
                                     + One(job.status = "conflict")
    BY <1>2, <1>9, <2>3, <2>5
  <2>7. ~sourceGone(o) => row.total <= Tallied(row)
           + (Cardinality(live(o)) - One(Live(moveJobs[j])) + One(Live(job)))
    BY <1>1, <1>2, <1>4, <1>9, <2>3, <2>5
  <2>8. operations' = [operations EXCEPT ![o] = row]
    BY <1>9
  <2> HIDE DEF Fresh
  <2> QED BY <1>1, <2>1, <2>2, <2>4, <2>5, <2>6, <2>7, <2>8, CountWithJob DEF op
<1>10. ASSUME NEW j \in FreeMoveJobs, NEW name \in landing,
              moveJobs' = [moveJobs EXCEPT ![j] = QueuedMove(o, e, name, policy)],
              operations' = [operations EXCEPT ![o] = counted(v)]
       PROVE  BulkInv'
  <2> DEFINE job == QueuedMove(o, e, name, policy)
  <2>1. job \in JobOf(o) /\ job.status = "queued"
    <3>1. name \in Names
      BY <1>6
    <3> QED BY <1>1, <1>5, <3>1, QueuedJob DEF TypeInv
  <2>2. moveJobs' = [moveJobs EXCEPT ![j] = job]
    BY <1>10
  <2> HIDE DEF job
  <2>3. One(job.status = "conflict") = 0 /\ One(Live(job)) = 1
    BY <2>1 DEF One, Live
  <2>4. Fresh(job, counted(v), 0, 0)
    BY <1>8, <1>10, <2>1, <2>2
  <2> HIDE DEF Fresh
  <2> QED BY <1>9, <2>3, <2>4
<1>11. ASSUME NEW j \in FreeMoveJobs,
              moveJobs' = [moveJobs EXCEPT ![j] =
                  [QueuedMove(o, e, entries[e].name, "ask") EXCEPT !.status = "conflict"]],
              operations' = [operations EXCEPT ![o] = oneParked(v)]
       PROVE  BulkInv'
  <2> DEFINE job == [QueuedMove(o, e, entries[e].name, "ask") EXCEPT !.status = "conflict"]
  <2>1. job \in JobOf(o) /\ job.status = "conflict"
    <3>1. QueuedMove(o, e, entries[e].name, "ask") \in JobOf(o)
      BY <1>1, <1>5, QueuedJob DEF TypeInv
    <3> QED BY <3>1, ParkedJob
  <2>2. moveJobs' = [moveJobs EXCEPT ![j] = job]
    BY <1>11
  <2> HIDE DEF job
  <2>3. One(job.status = "conflict") = 1 /\ One(Live(job)) = 0
    BY <2>1 DEF One, Live
  <2>4. Fresh(job, oneParked(v), 1, 1)
    BY <1>8, <1>11, <2>1, <2>2
  <2> HIDE DEF Fresh
  <2> QED BY <1>9, <2>3, <2>4
<1>12. CASE operations' = [operations EXCEPT ![o] = oneFewer(v)] /\ UNCHANGED moveJobs
  <2> DEFINE row == oneFewer(v)
  <2>1. AtLeastZero(v.total - 1) = op.total
    BY <1>2, <1>3 DEF AtLeastZero
  <2>2. /\ row \in OperationRow /\ Waiting(row) /\ Over(row) /\ row.source = op.source
        /\ row.conflicts = op.conflicts /\ row.total = op.total /\ Tallied(row) = Tallied(op)
    BY <1>2, <1>3, <1>8, <2>1 DEF Counted
  <2> HIDE DEF row
  <2>3. operations' = [operations EXCEPT ![o] = row]
    BY <1>12 DEF row
  <2> QED BY <1>1, <1>12, <2>2, <2>3, RewrittenBalanced
<1> QED BY <1>7, <1>10, <1>11, <1>12

\* The operation of a parked item counts it.
LEMMA ParkedOnce ==
    ASSUME TypeInv, BulkInv, NEW j \in MoveJobIds, moveJobs[j].status = "conflict"
    PROVE  LET o == moveJobs[j].op
           IN  /\ o \in OperationIds /\ operations[o].status # "absent"
               /\ operations[o].kind = "move" /\ operations[o] \in OperationRow
               /\ operations[o].conflicts \in Nat /\ operations[o].conflicts > 0
<1> DEFINE o == moveJobs[j].op
<1>1. /\ o \in OperationIds /\ operations[o].status # "absent" /\ operations[o].kind = "move"
      /\ operations[o] \in OperationRow /\ Balanced(o)
      /\ IsFiniteSet(parked(o))
  BY JobSetsFinite DEF TypeInv, Rows, Owned, MoveRow, BulkInv
<1>2. j \in parked(o)
  BY DEF parked
<1>3. Cardinality(parked(o)) # 0
  BY <1>1, <1>2, FS_EmptySet
<1>4. operations[o].conflicts \in Nat
  BY <1>1 DEF OperationRow, Operation
<1> QED BY <1>1, <1>3, <1>4 DEF Balanced

\* A parked item that is taken up is counted as parked no longer.
LEMMA TakenUpBalanced ==
    ASSUME TypeInv, BulkInv, StaysGone, UNCHANGED workers,
           NEW j \in MoveJobIds, moveJobs[j].status = "conflict", NEW o, o = moveJobs[j].op,
           NEW job \in MoveRow, job.status # "conflict", job.status # "absent" => job.op = o,
           moveJobs' = [moveJobs EXCEPT ![j] = job],
           NEW row, operations' = [operations EXCEPT ![o] = row],
           NEW tallied \in {0, 1}, Counted(row, unparked(o), tallied, 0),
           row.total = AtLeastZero(unparked(o).total - (1 - tallied - One(Live(job))))
    PROVE  BulkInv'
<1> DEFINE op == operations[o]
           u  == unparked(o)
<1>1. /\ o \in OperationIds /\ op.status # "absent" /\ op \in OperationRow /\ Balanced(o)
      /\ Cardinality(live(o)) \in Nat
  BY JobSetsFinite DEF TypeInv, Rows, Owned, MoveRow, BulkInv
<1>2. op.total \in Nat /\ Tallied(op) \in Nat /\ op.conflicts \in Nat
      /\ op.conflicts <= Tallied(op)
  BY <1>1 DEF OperationRow, Operation, Tallied
<1>3. op.conflicts > 0
  BY ParkedOnce
<1>4. /\ u.total = op.total /\ u.conflicts = op.conflicts - 1 /\ Tallied(u) = Tallied(op) - 1
      /\ u.source = op.source
  BY <1>1, <1>3, UnparkedRow DEF TypeInv
<1>5. ~sourceGone(o) => op.total <= Tallied(op) + Cardinality(live(o))
  BY <1>1 DEF Balanced
<1>6. /\ One(Live(moveJobs[j])) = 0 /\ One(moveJobs[j].status = "conflict") = 1
      /\ One(job.status = "conflict") = 0 /\ One(Live(job)) \in {0, 1}
  BY DEF One, Live
<1> HIDE DEF op, u
<1>7. /\ row \in OperationRow /\ Waiting(row) /\ Over(row) /\ row.source = op.source
      /\ Tallied(row) = Tallied(op) - 1 + tallied /\ row.conflicts = op.conflicts - 1
      /\ row.total = AtLeastZero(op.total - (1 - tallied - One(Live(job))))
  BY <1>2, <1>4 DEF Counted, u
<1>8. row.conflicts = op.conflicts - One(moveJobs[j].status = "conflict")
                                   + One(job.status = "conflict")
  BY <1>2, <1>6, <1>7
<1>9. ~sourceGone(o) => row.total <= Tallied(row)
           + (Cardinality(live(o)) - One(Live(moveJobs[j])) + One(Live(job)))
  <2> DEFINE c == Cardinality(live(o))
             k == One(Live(job))
             n == Tallied(op)
  <2>1. c \in Nat /\ k \in {0, 1} /\ n \in Nat /\ n > 0 /\ op.total \in Nat
    BY <1>1, <1>2, <1>3, <1>6
  <2>2. row.total = IF op.total - (1 - tallied - k) < 0 THEN 0 ELSE op.total - (1 - tallied - k)
    BY <1>7 DEF AtLeastZero
  <2>3. Tallied(row) = n - 1 + tallied /\ One(Live(moveJobs[j])) = 0
        /\ (~sourceGone(o) => op.total <= n + c)
    BY <1>5, <1>6, <1>7
  <2> HIDE DEF c, k, n
  <2>4. ~sourceGone(o) => row.total <= Tallied(row) + (c - One(Live(moveJobs[j])) + k)
    BY <2>1, <2>2, <2>3
  <2> QED BY <2>4 DEF c, k
<1>10. CopiesUnparked'
  <2>1. WorkersKeep
    BY DEF WorkersKeep
  <2> QED BY <2>1, UnparkedKept DEF BulkInv
<1> QED BY <1>1, <1>7, <1>8, <1>9, <1>10, CountWithJob DEF op

\* Taken up, an item is queued or has failed.
LEMMA ResolvedBalanced ==
    ASSUME TypeInv, BulkInv, StaysGone, UNCHANGED workers, NEW j \in MoveJobIds,
           moveJobs[j].status = "conflict", NEW policy \in Policies, resolveParkedJob(j, policy)
    PROVE  BulkInv'
<1> DEFINE o == moveJobs[j].op
           e == moveJobs[j].entry
           u == unparked(o)
<1>1. /\ o \in OperationIds /\ operations[o].status # "absent" /\ operations[o].kind = "move"
      /\ operations[o] \in OperationRow /\ moveJobs[j] \in MoveRow /\ e \in EntryIds
  BY DEF TypeInv, Rows, Owned, MoveRow
<1>2. u \in OperationRow /\ u.status # "absent" /\ u.total \in Nat
  <2>1. u \in OperationRow /\ u.status # "absent"
    BY <1>1, ParkedOnce, UnparkedRow DEF TypeInv
  <2> QED BY <2>1 DEF OperationRow, Operation
<1>3. /\ Counted(counted(u), u, 0, 0) /\ counted(u).total = u.total
      /\ Counted(oneFailed(u), u, 1, 0) /\ oneFailed(u).total = u.total
  BY <1>2, TallyRow
<1>4. CASE /\ moveJobs' = [moveJobs EXCEPT ![j].status = "failed"]
           /\ operations' = [operations EXCEPT ![o] = oneFailed(u)]
  <2> DEFINE job == [moveJobs[j] EXCEPT !.status = "failed"]
             row == oneFailed(u)
  <2>1. job \in MoveRow /\ job.status = "failed" /\ job.op = o
    BY <1>1 DEF MoveRow, MoveJob
  <2>2. moveJobs' = [moveJobs EXCEPT ![j] = job] /\ operations' = [operations EXCEPT ![o] = row]
    BY <1>4
  <2> HIDE DEF job
  <2>3. One(Live(job)) = 0
    BY <2>1 DEF One, Live
  <2>4. Counted(row, u, 1, 0) /\ row.total = u.total
    BY <1>3
  <2> HIDE DEF row
  <2>5. row.total = AtLeastZero(u.total - (1 - 1 - One(Live(job))))
    BY <1>2, <2>3, <2>4 DEF AtLeastZero
  <2> QED BY <2>1, <2>2, <2>4, <2>5, TakenUpBalanced
<1>5. CASE /\ movable(e, operations[o].source)
           /\ \E name \in resolveLandingName(moveJobs[j].folder, entries[e].name, policy,
                              reservedNameKeys(moveJobs[j].folder, None, j), e) :
                 queueMoveJob(j, o, e, name, policy)
           /\ operations' = [operations EXCEPT ![o] = counted(u)]
  <2>1. Ready(e) /\ entries[e].name \in Names
    BY <1>1, <1>5 DEF movable, Ready, TypeInv, Rows, EntryRow
  <2>2. PICK name \in Names : moveJobs' = [moveJobs EXCEPT ![j] = QueuedMove(o, e, name, policy)]
    BY <1>5, <2>1, LandingType DEF queueMoveJob
  <2> DEFINE job == QueuedMove(o, e, name, policy)
             row == counted(u)
  <2>3. job \in JobOf(o) /\ job.status = "queued"
    BY <1>1, <2>1, QueuedJob DEF TypeInv
  <2>4. moveJobs' = [moveJobs EXCEPT ![j] = job] /\ operations' = [operations EXCEPT ![o] = row]
    BY <1>5, <2>2
  <2> HIDE DEF job
  <2>5. One(Live(job)) = 1 /\ job \in MoveRow /\ job.op = o
    BY <2>3 DEF One, Live, JobOf
  <2>6. Counted(row, u, 0, 0) /\ row.total = u.total
    BY <1>3
  <2> HIDE DEF row
  <2>7. row.total = AtLeastZero(u.total - (1 - 0 - One(Live(job))))
    BY <1>2, <2>5, <2>6 DEF AtLeastZero
  <2> QED BY <2>3, <2>4, <2>5, <2>6, <2>7, TakenUpBalanced
<1> QED BY <1>4, <1>5 DEF resolveParkedJob

\* The policy for all parked items is applied to one, or there is none left.
LEMMA PolicyBalanced ==
    ASSUME TypeInv, BulkInv, StaysGone, NEW o \in OperationIds, applyConflictPolicy(o)
    PROVE  BulkInv'
<1> DEFINE op == operations[o]
<1>1. op \in OperationRow /\ op.status # "absent" /\ Balanced(o) /\ UNCHANGED workers
  BY DEF applyConflictPolicy, TypeInv, Rows, OperationRow, BulkInv
<1>2. ASSUME NEW row, operations' = [operations EXCEPT ![o] = row], UNCHANGED moveJobs,
             row = [op EXCEPT !.apply = FALSE]
                \/ row = [op EXCEPT !.apply = FALSE, !.status = operationStatus(op)]
      PROVE  BulkInv'
  <2>1. row \in OperationRow /\ row.source = op.source
        /\ row.total = op.total /\ row.conflicts = op.conflicts /\ row.completed = op.completed
        /\ row.failed = op.failed /\ row.discovered = op.discovered
        /\ (row.status = op.status \/ row.status = operationStatus(op))
    BY <1>1, <1>2, ZenonT(60) DEF OperationRow, Operation, operationStatus
  <2>2. op.completed \in Nat /\ op.failed \in Nat /\ op.conflicts \in Nat /\ op.total \in Nat
    BY <1>1 DEF OperationRow, Operation
  <2>3. Waiting(op) /\ (~sourceGone(o) => Over(op))
    BY <1>1 DEF Balanced
  <2>4. Tallied(row) = Tallied(op)
    BY <2>1 DEF Tallied
  <2>5. Waiting(row) /\ (~sourceGone(o) => Over(row))
    BY <2>1, <2>2, <2>3 DEF Waiting, Over, Tallied, operationStatus
  <2> QED BY <1>1, <1>2, <2>1, <2>4, <2>5, RewrittenBalanced
<1>3. CASE \E j \in parked(o) : op.policy # "skip" /\ resolveParkedJob(j, op.policy)
  <2>1. op.policy \in Policies /\ parked(o) \subseteq MoveJobIds
        /\ \A j \in parked(o) : moveJobs[j].status = "conflict"
    BY <1>1, <1>3 DEF OperationRow, Operation, parked
  <2> QED BY <1>1, <1>3, <2>1, ResolvedBalanced
<1>4. CASE /\ \E j \in parked(o) : moveJobs' = [moveJobs EXCEPT ![j] = NoMoveJob]
           /\ operations' = [operations EXCEPT ![o] = oneFewer(unparked(o))]
  <2>1. PICK j \in MoveJobIds : /\ moveJobs[j].status = "conflict" /\ moveJobs[j].op = o
                                /\ moveJobs' = [moveJobs EXCEPT ![j] = NoMoveJob]
    BY <1>4 DEF parked
  <2> DEFINE u == unparked(o)
             row == oneFewer(u)
             job == NoMoveJob
  <2>2. u \in OperationRow /\ u.status # "absent"
    BY <1>1, <2>1, ParkedOnce, UnparkedRow DEF TypeInv
  <2>3. u.total \in Nat
    BY <2>2 DEF OperationRow, Operation
  <2>4. Counted(row, u, 0, 0) /\ row.total = AtLeastZero(u.total - 1)
    BY <2>2, TallyRow
  <2>5. job \in MoveRow /\ job.status = "absent"
    BY CatalogAssumption DEF NoMoveJob, MoveRow, MoveJob, Policies
  <2>6. moveJobs' = [moveJobs EXCEPT ![j] = job] /\ operations' = [operations EXCEPT ![o] = row]
    BY <1>4, <2>1
  <2> HIDE DEF row, job
  <2>7. One(Live(job)) = 0
    BY <2>5 DEF One, Live
  <2>8. row.total = AtLeastZero(u.total - (1 - 0 - One(Live(job))))
    BY <2>3, <2>4, <2>7
  <2> QED BY <1>1, <2>1, <2>4, <2>5, <2>6, <2>8, TakenUpBalanced
<1>5. CASE op.dismissed /\ UNCHANGED moveJobs /\ operations' = [operations EXCEPT ![o].apply = FALSE]
  <2> DEFINE row == [op EXCEPT !.apply = FALSE]
  <2>1. operations' = [operations EXCEPT ![o] = row]
    BY <1>5
  <2> QED BY <1>2, <1>5, <2>1
<1>6. CASE /\ UNCHANGED moveJobs
           /\ operations' = [operations EXCEPT ![o].apply = FALSE,
                     ![o].status = IF op.policy = "skip" THEN operationStatus(op) ELSE @]
  <2> DEFINE same == [op EXCEPT !.apply = FALSE]
             ended == [op EXCEPT !.apply = FALSE, !.status = operationStatus(op)]
  <2>1. CASE op.policy = "skip"
    <3>1. operations' = [operations EXCEPT ![o] = ended]
      BY <1>1, <1>6, <2>1 DEF TypeInv, Rows, OperationRow, Operation
    <3> QED BY <1>2, <1>6, <3>1
  <2>2. CASE op.policy # "skip"
    <3>1. operations' = [operations EXCEPT ![o] = same]
      BY <1>1, <1>6, <2>2 DEF TypeInv, Rows, OperationRow, Operation
    <3> QED BY <1>2, <1>6, <3>1
  <2> QED BY <2>1, <2>2
<1> QED BY <1>3, <1>4, <1>5, <1>6 DEF applyConflictPolicy

(***************************************************************************)
(* The specification                                                       *)
(***************************************************************************)

\* There are no operations and no jobs to begin with.
LEMMA BulkInit == Init => BulkInv
<1> SUFFICES ASSUME Init PROVE BulkInv
  OBVIOUS
<1>1. InUse = {} /\ \A o : parked(o) = {} /\ live(o) = {}
  BY DEF Init, InUse, parked, live, NoMoveJob
<1>2. IsFiniteSet(InUse) /\ \A o : Cardinality(parked(o)) = 0
  BY <1>1, FS_EmptySet
<1>3. CopiesUnparked
  BY DEF Init, CopiesUnparked, IdleWorker, Moving
<1>4. \A o \in OperationIds : Balanced(o)
  BY <1>2 DEF Init, Balanced, Waiting, NoOperation
<1> QED BY <1>2, <1>3, <1>4 DEF BulkInv

\* Every step keeps every operation balanced.
LEMMA BulkStep ==
    ASSUME TypeInv, BulkInv, [Next]_vars
    PROVE  BulkInv'
<1>1. StaysGone /\ TypeInv' /\ CopiesUnparked
  BY GalleriesStayGone, NextType DEF BulkInv
<1>2. CASE WorkersKeep /\ UNCHANGED <<moveJobs, operations>>
  BY <1>1, <1>2, QuietBalanced
<1>3. CASE WorkersKeep /\ \E j \in MoveJobIds : Requeued(j) \/ Closed(j)
  BY <1>1, <1>3, RequeuedBalanced, ClosedBalanced
<1>4. CASE \E o \in OperationIds, kind \in {"delete", "move"}, s \in Folders,
              f \in Folders \cup {None}, k \in {"ids", "folder"}, todo \in SUBSET EntryIds :
              insertOperation(o, kind, s, f, k, todo)
  BY <1>1, <1>4, StartBalanced
<1>5. CASE \E j \in MoveJobIds, p \in {"replace", "rename"} : resolveConflict(j, p)
  <2>1. PICK j \in MoveJobIds, p \in {"replace", "rename"} : resolveConflict(j, p)
    BY <1>5
  <2>2. /\ moveJobs[j].status = "conflict" /\ UNCHANGED workers /\ p \in Policies
        /\ resolveParkedJob(j, p)
    BY <2>1 DEF resolveConflict, Policies
  <2> QED BY <1>1, <2>2, ResolvedBalanced
<1>6. CASE \E o \in OperationIds, p \in {"replace", "rename", "skip"} : resolveConflicts(o, p)
  BY <1>1, <1>6, ChoiceBalanced
<1>7. CASE \E o \in OperationIds : dismissFinished(o) \/ ProcessBulk(o)
  <2>1. PICK o \in OperationIds : dismissFinished(o) \/ ProcessBulk(o)
    BY <1>7
  <2>2. CASE dismissFinished(o)
    BY <1>1, <2>2, ChoiceBalanced
  <2>3. CASE processSourceGone(o) \/ processNothing(o)
    BY <1>1, <2>3, EndsBalanced
  <2>4. CASE applyConflictPolicy(o)
    BY <1>1, <2>4, PolicyBalanced
  <2>5. ASSUME NEW e \in EntryIds, process(o, e) PROVE BulkInv'
    <3>1. scheduled(o) /\ UNCHANGED workers
      BY <2>5 DEF process
    <3>2. CASE moveItem(o, e)
      BY <1>1, <3>1, <3>2, MovedItemBalanced
    <3>3. CASE refuseItem(o, e) \/ deleteItem(o, e) \/ keepItem(o, e)
      BY <1>1, <3>1, <3>3, SettledItemBalanced
    <3> QED BY <2>5, <3>2, <3>3 DEF process
  <2> QED BY <2>1, <2>2, <2>3, <2>4, <2>5 DEF ProcessBulk
<1> QED BY <1>1, <1>2, <1>3, <1>4, <1>5, <1>6, <1>7, JobsChange

\* The operations' invariant is inductive (bulkOperations.ts counts in process,
\* settleBulkMoveItem, resolveParkedJob and applyConflictPolicy).
THEOREM OperationsBalanced == Spec => []BulkInv
<1>1. Init => BulkInv
  BY BulkInit
<1>2. TypeInv /\ BulkInv /\ [Next]_vars => BulkInv'
  BY BulkStep
<1> QED BY <1>1, <1>2, RowsCorrect, PTL DEF Spec

\* While its source gallery is there, every item an operation has found is counted
\* as done, failed or parked or has a move that is queued or running, and one that
\* is over has seen and counted them all, with none parked (process,
\* settleBulkMoveItem, resolveParkedJob and applyConflictPolicy count them).
THEOREM NoItemIsLost == Spec => []ItemsAccounted
<1>1. BulkInv => ItemsAccounted
  BY DEF BulkInv, Balanced, Over, Tallied, ItemsAccounted
<1> QED BY <1>1, OperationsBalanced, PTL

\* An operation knows how many of its items are parked on a name conflict,
\* over resolving them one by one, all at once, and skipping (bulkOperations.ts).
THEOREM ParkedItemsCounted == Spec => []ParkedCounted
<1>1. BulkInv => ParkedCounted
  BY DEF BulkInv, Balanced, ParkedCounted
<1> QED BY <1>1, OperationsBalanced, PTL

\* An operation that is still "processing" after it saw its selection has a move
\* that is queued or running and can bring it to its end, unless its source gallery
\* was removed meanwhile; not the converse (settleBulkMoveItem and every path that
\* closes a job settle its item).
THEOREM NoItemIsForgotten == Spec => []NoItemForgotten
<1>1. TypeInv /\ BulkInv => NoItemForgotten
  <2> SUFFICES ASSUME TypeInv, BulkInv, NEW o \in OperationIds,
                      operations[o].status = "processing", operations[o].discovered,
                      ~sourceGone(o)
               PROVE  live(o) # {}
    BY DEF NoItemForgotten
  <2>1. /\ Tallied(operations[o]) < operations[o].total
        /\ operations[o].total <= Tallied(operations[o]) + Cardinality(live(o))
    BY DEF BulkInv, Balanced, Waiting
  <2>2. Tallied(operations[o]) \in Nat /\ operations[o].total \in Nat
    BY DEF TypeInv, Rows, OperationRow, Operation, Tallied
  <2>3. Cardinality(live(o)) # 0 /\ Cardinality({}) = 0
    BY <2>1, <2>2, FS_EmptySet
  <2> QED BY <2>3
<1> QED BY <1>1, RowsCorrect, OperationsBalanced, PTL

(***************************************************************************)
(* The counts of a gallery                                                 *)
(***************************************************************************)

filesOf(rows, g) == {e \in EntryIds : rows[e].state = "ready" /\ GalleryOf[rows[e].folder] = g}

\* A table of galleries counts the ready entries of a table of entries.
Counts(table, rows) == \A g \in Galleries : ~table[g].deleted =>
    /\ table[g].itemCount = Cardinality(filesOf(rows, g))
    /\ table[g].totalBytes = bytesIn(rows, filesOf(rows, g))

\* Every entry but those in X is ready in the same gallery, with the same bytes.
SameBut(rows, more, X) == \A e \in EntryIds \ X :
    /\ rows[e].state = "ready" <=> more[e].state = "ready"
    /\ rows[e].state = "ready" => /\ GalleryOf[rows[e].folder] = GalleryOf[more[e].folder]
                                  /\ rows[e].content = more[e].content

\* The files of a gallery are finitely many, and have sizes.
LEMMA FilesType ==
    ASSUME NEW rows \in [EntryIds -> EntryRow], NEW g, NEW X
    PROVE  /\ IsFiniteSet(filesOf(rows, g)) /\ SizesIn(rows, filesOf(rows, g))
           /\ IsFiniteSet(filesOf(rows, g) \ X) /\ SizesIn(rows, filesOf(rows, g) \ X)
           /\ Cardinality(filesOf(rows, g)) \in Nat /\ bytesIn(rows, filesOf(rows, g)) \in Nat
           /\ bytesIn(rows, filesOf(rows, g) \ X) \in Nat
<1>1. filesOf(rows, g) \in SUBSET EntryIds /\ filesOf(rows, g) \ X \in SUBSET EntryIds
  BY DEF filesOf
<1>2. IsFiniteSet(filesOf(rows, g)) /\ IsFiniteSet(filesOf(rows, g) \ X)
  BY <1>1, CatalogAssumption, FS_Subset
<1>3. SizesIn(rows, filesOf(rows, g)) /\ SizesIn(rows, filesOf(rows, g) \ X)
  BY CatalogAssumption DEF SizesIn, filesOf, EntryRow
<1> QED BY <1>2, <1>3, FS_CardinalityType, BytesType

BytesIf(P, n) == IF P THEN n ELSE 0

\* Writing one row changes what is counted by that row.
LEMMA OneRecounted ==
    ASSUME NEW rows \in [EntryIds -> EntryRow], NEW more \in [EntryIds -> EntryRow],
           NEW e, SameBut(rows, more, {e}), NEW g
    PROVE  /\ Cardinality(filesOf(more, g)) = Cardinality(filesOf(rows, g))
                 - One(e \in filesOf(rows, g)) + One(e \in filesOf(more, g))
           /\ bytesIn(more, filesOf(more, g)) = bytesIn(rows, filesOf(rows, g))
                 - BytesIf(e \in filesOf(rows, g), Size[rows[e].content])
                 + BytesIf(e \in filesOf(more, g), Size[more[e].content])
<1> DEFINE R == filesOf(rows, g)
           M == filesOf(more, g)
           rest == R \ {e}
<1>1. rest = M \ {e} /\ \A d \in rest : rows[d].content = more[d].content
  BY DEF SameBut, filesOf
<1>2. /\ IsFiniteSet(R) /\ SizesIn(rows, R) /\ IsFiniteSet(M) /\ SizesIn(more, M)
      /\ IsFiniteSet(rest) /\ bytesIn(rows, rest) \in Nat
      /\ bytesIn(rows, R) \in Nat /\ bytesIn(more, M) \in Nat
  BY FilesType
<1> HIDE DEF R, M
<1>3. Cardinality(M) = Cardinality(R) - One(e \in R) + One(e \in M)
  BY <1>1, <1>2, CountOne
<1>4. bytesIn(rows, R) = BytesIf(e \in R, Size[rows[e].content]) + bytesIn(rows, rest)
  <2>1. CASE e \in R
    <3>1. bytesIn(rows, R) = Size[rows[e].content] + bytesIn(rows, R \ {e})
      BY <1>2, <2>1, BytesWithout
    <3> QED BY <2>1, <3>1 DEF BytesIf
  <2>2. CASE e \notin R
    <3>1. R = rest
      BY <2>2
    <3> HIDE DEF rest
    <3> QED BY <1>2, <2>2, <3>1 DEF BytesIf
  <2> QED BY <2>1, <2>2
<1>5. bytesIn(more, rest) = bytesIn(rows, rest)
  BY <1>1, <1>2, BytesSame
<1>6. bytesIn(more, M) = BytesIf(e \in M, Size[more[e].content]) + bytesIn(more, rest)
  <2>1. CASE e \in M
    <3>1. bytesIn(more, M) = Size[more[e].content] + bytesIn(more, M \ {e})
      BY <1>2, <2>1, BytesWithout
    <3> QED BY <1>1, <2>1, <3>1 DEF BytesIf
  <2>2. CASE e \notin M
    <3>1. M = rest
      BY <1>1, <2>2
    <3> HIDE DEF rest
    <3> QED BY <1>2, <1>5, <2>2, <3>1 DEF BytesIf
  <2> QED BY <2>1, <2>2
<1>7. /\ e \in R => Size[rows[e].content] \in Nat
      /\ e \in M => Size[more[e].content] \in Nat
  BY <1>2 DEF SizesIn
<1>8. /\ BytesIf(e \in R, Size[rows[e].content]) \in Nat
      /\ BytesIf(e \in M, Size[more[e].content]) \in Nat
  BY <1>7 DEF BytesIf
<1> HIDE DEF rest
<1>9. bytesIn(more, M) = bytesIn(rows, R) - BytesIf(e \in R, Size[rows[e].content])
                         + BytesIf(e \in M, Size[more[e].content])
  BY <1>2, <1>4, <1>5, <1>6, <1>8
<1> QED BY <1>3, <1>9 DEF R, M

\* Counts stay right over writing a row that concerns one gallery at most, when
\* that gallery is adjusted by what the row counted and counts.
LEMMA AdjustedCounts ==
    ASSUME NEW rows \in [EntryIds -> EntryRow], NEW more \in [EntryIds -> EntryRow],
           NEW table \in [Galleries -> GalleryRow], Counts(table, rows),
           NEW e, SameBut(rows, more, {e}), NEW g \in Galleries,
           \A x \in Galleries \ {g} : e \notin filesOf(rows, x) /\ e \notin filesOf(more, x),
           NEW items, NEW bytes,
           items = One(e \in filesOf(more, g)) - One(e \in filesOf(rows, g)),
           bytes = BytesIf(e \in filesOf(more, g), Size[more[e].content])
                   - BytesIf(e \in filesOf(rows, g), Size[rows[e].content])
    PROVE  Counts(adjustGalleryStats(table, g, items, bytes), more)
<1> DEFINE new == adjustGalleryStats(table, g, items, bytes)
<1> SUFFICES ASSUME NEW x \in Galleries, ~new[x].deleted
             PROVE  /\ new[x].itemCount = Cardinality(filesOf(more, x))
                    /\ new[x].totalBytes = bytesIn(more, filesOf(more, x))
  BY DEF Counts
<1>1. /\ Cardinality(filesOf(more, x)) = Cardinality(filesOf(rows, x))
            - One(e \in filesOf(rows, x)) + One(e \in filesOf(more, x))
      /\ bytesIn(more, filesOf(more, x)) = bytesIn(rows, filesOf(rows, x))
            - BytesIf(e \in filesOf(rows, x), Size[rows[e].content])
            + BytesIf(e \in filesOf(more, x), Size[more[e].content])
  BY OneRecounted
<1>2. /\ Cardinality(filesOf(rows, x)) \in Nat /\ bytesIn(rows, filesOf(rows, x)) \in Nat
      /\ Cardinality(filesOf(more, x)) \in Nat /\ bytesIn(more, filesOf(more, x)) \in Nat
      /\ SizesIn(rows, filesOf(rows, x)) /\ SizesIn(more, filesOf(more, x))
  BY FilesType
<1>3. /\ BytesIf(e \in filesOf(rows, x), Size[rows[e].content]) \in Nat
      /\ BytesIf(e \in filesOf(more, x), Size[more[e].content]) \in Nat
      /\ One(e \in filesOf(rows, x)) \in Nat /\ One(e \in filesOf(more, x)) \in Nat
  BY <1>2 DEF BytesIf, One, SizesIn
<1>4. CASE x = g
  <2>1. /\ new[x].itemCount = AtLeastZero(table[x].itemCount + items)
        /\ new[x].totalBytes = AtLeastZero(table[x].totalBytes + bytes)
        /\ new[x].deleted = table[x].deleted
    BY <1>4 DEF adjustGalleryStats, GalleryRow
  <2>2. /\ table[x].itemCount = Cardinality(filesOf(rows, x))
        /\ table[x].totalBytes = bytesIn(rows, filesOf(rows, x))
    BY <2>1 DEF Counts
  <2> HIDE DEF new
  <2>3. table[x].itemCount + items = Cardinality(filesOf(more, x))
    BY <1>1, <1>2, <1>3, <1>4, <2>2
  <2>4. table[x].totalBytes + bytes = bytesIn(more, filesOf(more, x))
    BY <1>1, <1>2, <1>3, <1>4, <2>2
  <2> QED BY <1>2, <2>1, <2>3, <2>4 DEF AtLeastZero
<1>5. CASE x # g
  <2>1. new[x] = table[x]
    BY <1>5 DEF adjustGalleryStats
  <2>2. e \notin filesOf(rows, x) /\ e \notin filesOf(more, x)
    BY <1>5
  <2>3. /\ table[x].itemCount = Cardinality(filesOf(rows, x))
        /\ table[x].totalBytes = bytesIn(rows, filesOf(rows, x))
    BY <2>1 DEF Counts
  <2> HIDE DEF new
  <2>4. /\ Cardinality(filesOf(more, x)) = Cardinality(filesOf(rows, x))
        /\ bytesIn(more, filesOf(more, x)) = bytesIn(rows, filesOf(rows, x))
    BY <1>1, <1>2, <2>2 DEF One, BytesIf
  <2> QED BY <2>1, <2>3, <2>4
<1> QED BY <1>4, <1>5

\* Counts stay right when nothing changes in the galleries that are not deleted.
LEMMA SameCounts ==
    ASSUME NEW rows \in [EntryIds -> EntryRow], NEW more \in [EntryIds -> EntryRow],
           NEW table, NEW new, Counts(table, rows),
           \A g \in Galleries : ~new[g].deleted =>
              /\ ~table[g].deleted /\ new[g].itemCount = table[g].itemCount
              /\ new[g].totalBytes = table[g].totalBytes
              /\ filesOf(more, g) = filesOf(rows, g)
              /\ \A e \in filesOf(rows, g) : rows[e].content = more[e].content
    PROVE  Counts(new, more)
<1> SUFFICES ASSUME NEW g \in Galleries, ~new[g].deleted
             PROVE  /\ new[g].itemCount = Cardinality(filesOf(more, g))
                    /\ new[g].totalBytes = bytesIn(more, filesOf(more, g))
  BY DEF Counts
<1>1. bytesIn(rows, filesOf(rows, g)) = bytesIn(more, filesOf(rows, g))
  BY FilesType, BytesSame
<1> QED BY <1>1 DEF Counts

(***************************************************************************)
(* Where files are                                                         *)
(***************************************************************************)

\* A ready entry has a key of its folder, and a move is copied to one of the
\* folder its job has, as long as there is that job.
KeysMatch == \A e \in EntryIds : Ready(e) => entries[e].key \in KeysOf(entries[e].folder)

CopiesBound == \A w \in Workers :
    workers[w].pc \in Moving /\ moveJobs[workers[w].job].status # "absent"
    => workers[w].dest \in KeysOf(moveJobs[workers[w].job].folder)

\* Folders of different galleries have no path on user storage in common.
LEMMA UserKeys ==
    ASSUME NEW f \in Folders, NEW d \in Folders, Storage[GalleryOf[f]] = "user",
           NEW k, k \in KeysOf(f), k \in KeysOf(d)
    PROVE  GalleryOf[f] = GalleryOf[d]
<1>1. PICK n \in Names : k = <<f, n>>
  BY DEF KeysOf, buildStorageKey
<1>2. GalleryOf[d] \in Galleries
  BY CatalogAssumption
<1>3. CASE Storage[GalleryOf[d]] = "user"
  BY <1>1, <1>3 DEF KeysOf, buildStorageKey
<1>4. CASE Storage[GalleryOf[d]] # "user"
  <2>1. PICK c \in Contents : k = <<GalleryOf[d], c>>
    BY <1>4 DEF KeysOf, buildStorageKey
  <2>2. f = GalleryOf[d]
    BY <1>1, <2>1
  <2> QED BY <1>2, <2>2, IdsAreUnique
<1> QED BY <1>3, <1>4

\* A job keeps its folder while a worker moves it.
LEMMA CopiesStayBound ==
    ASSUME TypeInv, CopiesUnparked, CopiesBound, [Next]_vars
    PROVE  CopiesBound'
<1> SUFFICES ASSUME NEW w \in Workers, workers'[w].pc \in Moving,
                    moveJobs'[workers'[w].job].status # "absent"
             PROVE  workers'[w].dest \in KeysOf(moveJobs'[workers'[w].job].folder)
  BY DEF CopiesBound
<1> DEFINE j == workers[w].job
<1>0. workers[w].pc \in Moving => j \in MoveJobIds /\ moveJobs[j].status # "conflict"
  BY DEF CopiesUnparked, TypeInv, Rows, WorkerRow
<1>1. ASSUME WorkersKeep,
             workers[w].pc \in Moving /\ moveJobs'[j].status # "absent"
             => moveJobs[j].status # "absent" /\ moveJobs'[j].folder = moveJobs[j].folder
      PROVE  workers'[w].dest \in KeysOf(moveJobs'[workers'[w].job].folder)
  BY <1>1 DEF WorkersKeep, CopiesBound
<1>2. ASSUME UNCHANGED workers,
             moveJobs'[j].status # "absent"
             => moveJobs[j].status # "absent" /\ moveJobs'[j].folder = moveJobs[j].folder
      PROVE  workers'[w].dest \in KeysOf(moveJobs'[workers'[w].job].folder)
  BY <1>2 DEF CopiesBound
<1>3. ASSUME UNCHANGED workers, NEW k \in MoveJobIds,
             moveJobs[k].status = "conflict" \/ k \in FreeMoveJobs,
             NEW row, moveJobs' = [moveJobs EXCEPT ![k] = row]
      PROVE  workers'[w].dest \in KeysOf(moveJobs'[workers'[w].job].folder)
  <2>1. k # j
    BY <1>0, <1>3 DEF FreeMoveJobs
  <2>2. moveJobs'[j] = moveJobs[j]
    BY <1>0, <1>3, <2>1 DEF TypeInv, Rows
  <2> QED BY <1>2, <1>3, <2>2
<1>4. CASE WorkersKeep /\ UNCHANGED moveJobs
  BY <1>1, <1>4
<1>5. CASE WorkersKeep /\ \E k \in MoveJobIds : Requeued(k) \/ Closed(k)
  <2>1. PICK k \in MoveJobIds : Requeued(k) \/ Closed(k)
    BY <1>5
  <2>2. PICK row \in MoveRow :
           /\ moveJobs[k].status # "absent"
           /\ row.status # "absent" => row.folder = moveJobs[k].folder
           /\ moveJobs' = [moveJobs EXCEPT ![k] = row]
    BY <2>1 DEF Requeued, Closed
  <2> QED BY <1>0, <1>1, <1>5, <2>2 DEF TypeInv, Rows
<1>6. ASSUME NEW k \in MoveJobIds, NEW p, moveJobs[k].status = "conflict", resolveParkedJob(k, p),
             UNCHANGED workers
      PROVE  workers'[w].dest \in KeysOf(moveJobs'[workers'[w].job].folder)
  <2>1. \E row : moveJobs' = [moveJobs EXCEPT ![k] = row]
    BY <1>6 DEF resolveParkedJob, queueMoveJob
  <2> QED BY <1>3, <1>6, <2>1
<1>7. CASE \E k \in MoveJobIds, p \in {"replace", "rename"} : resolveConflict(k, p)
  BY <1>6, <1>7 DEF resolveConflict
<1>8. CASE UNCHANGED <<moveJobs, workers>>
  BY <1>2, <1>8 DEF CopiesBound
<1>9. CASE \E o \in OperationIds : ProcessBulk(o)
  <2>1. PICK o \in OperationIds : ProcessBulk(o)
    BY <1>9
  <2>2. CASE processSourceGone(o) \/ processNothing(o)
    BY <1>8, <2>2 DEF processSourceGone, processNothing
  <2>3. CASE applyConflictPolicy(o)
    <3>1. UNCHANGED workers
      BY <2>3 DEF applyConflictPolicy
    <3>2. \/ UNCHANGED moveJobs
          \/ \E k \in parked(o) : moveJobs' = [moveJobs EXCEPT ![k] = NoMoveJob]
          \/ \E k \in parked(o) : resolveParkedJob(k, operations[o].policy)
      BY <2>3 DEF applyConflictPolicy
    <3>3. parked(o) \subseteq MoveJobIds /\ \A k \in parked(o) : moveJobs[k].status = "conflict"
      BY DEF parked
    <3> QED BY <1>3, <1>6, <1>8, <3>1, <3>2, <3>3
  <2>4. ASSUME NEW e \in EntryIds, process(o, e)
        PROVE  workers'[w].dest \in KeysOf(moveJobs'[workers'[w].job].folder)
    <3>1. UNCHANGED workers
      BY <2>4 DEF process
    <3>2. CASE refuseItem(o, e) \/ deleteItem(o, e) \/ keepItem(o, e)
      BY <1>8, <3>1, <3>2 DEF refuseItem, deleteItem, keepItem
    <3>3. CASE moveItem(o, e)
      <4>1. \/ UNCHANGED moveJobs
            \/ \E k \in FreeMoveJobs : \E row : moveJobs' = [moveJobs EXCEPT ![k] = row]
        BY <3>3 DEF moveItem, queueMoveJob
      <4> QED BY <1>3, <1>8, <3>1, <4>1 DEF FreeMoveJobs
    <3> QED BY <2>4, <3>2, <3>3 DEF process
  <2> QED BY <2>1, <2>2, <2>3, <2>4 DEF ProcessBulk
<1>10. CASE \/ \E o \in OperationIds, kind \in {"delete", "move"}, s \in Folders,
                 f \in Folders \cup {None}, k \in {"ids", "folder"}, todo \in SUBSET EntryIds :
                 insertOperation(o, kind, s, f, k, todo)
            \/ \E o \in OperationIds, p \in {"replace", "rename", "skip"} : resolveConflicts(o, p)
            \/ \E o \in OperationIds : dismissFinished(o)
  <2>1. UNCHANGED <<moveJobs, workers>>
    BY <1>10 DEF insertOperation, resolveConflicts, dismissFinished
  <2> QED BY <1>8, <2>1
<1> QED BY <1>4, <1>5, <1>7, <1>9, <1>10, JobsChange

\* A move lands: its job still is what the worker was told, its destination is there.
Landing(w) ==
    LET j == workers[w].job
    IN  /\ workers[w].pc = "reporting"
        /\ moveJobs[j].status # "absent" /\ sourceUnchanged(j)
        /\ landMove(j, workers[w].dest)

\* All a step can do to the entries and the counts of their galleries.
LEMMA FilesChange ==
    ASSUME TypeInv, [Next]_vars
    PROVE  \/ UNCHANGED <<galleries, entries>>
           \/ galleries' = galleries /\ \E e, j : entries' = [entries EXCEPT ![e].moveJob = j]
           \/ \E e \in EntryIds, j \in DeleteJobIds : queueEntryDeletion(e, j)
           \/ \E g \in Galleries : removeGallery(g) \/ queueEntries(g)
           \/ \E e \in EntryIds, n \in Names : rename(e, n)
           \/ \E w \in Workers, answered \in BOOLEAN : completeDelete(w, answered)
           \/ \E h \in Handlers, answered \in BOOLEAN : completeUpload(h, answered)
           \/ \E w \in Workers : Landing(w)
<1>1. CASE UNCHANGED vars
  BY <1>1 DEF vars
<1>2. CASE Client
  <2>1. CASE StartUpload \/ Dismiss
    BY <2>1 DEF StartUpload, createUploadIntent, Dismiss, dismissFinished
  <2>2. CASE Rename
    BY <2>2 DEF Rename
  <2>3. CASE Remove
    BY <2>3 DEF Remove, remove, expire
  <2>4. CASE StartBulk
    BY <2>4, ZenonT(60) DEF StartBulk, startDelete, startMove, insertOperation
  <2>5. CASE Resolve
    BY <2>5 DEF Resolve, resolveConflict, resolveParkedJob, queueMoveJob, resolveConflicts
  <2>6. CASE RemoveGallery
    BY <2>6 DEF RemoveGallery
  <2> QED BY <1>2, <2>1, <2>2, <2>3, <2>4, <2>5, <2>6 DEF Client
<1>3. CASE StorageServer
  <2>1. PICK h \in Handlers :
           Claim(h) \/ Serve(h) \/ renewUpload(h) \/ abortUpload(h) \/ handlerCrash(h)
    BY <1>3 DEF StorageServer
  <2>2. CASE Claim(h) \/ renewUpload(h) \/ abortUpload(h) \/ handlerCrash(h)
    BY <2>2 DEF Claim, claimUpload, renewUpload, abortUpload, handlerCrash
  <2>3. CASE Serve(h)
    BY <2>3 DEF Serve, installReplacing, statInstalled, completeUploadRejected, failUpload
  <2> QED BY <2>1, <2>2, <2>3
<1>4. CASE StorageWorker
  <2>1. PICK w \in Workers :
           \/ ClaimMaintenance(w) \/ Work(w) \/ renewDelete(w) \/ renewEntryMove(w)
           \/ deleteTaskFails(w) \/ moveTaskFails(w) \/ workerCrash(w)
    BY <1>4 DEF StorageWorker
  <2>2. CASE renewDelete(w) \/ renewEntryMove(w)
             \/ deleteTaskFails(w) \/ moveTaskFails(w) \/ workerCrash(w)
    BY <2>2 DEF renewDelete, renewEntryMove, deleteTaskFails, moveTaskFails, workerCrash
  <2>3. CASE ClaimMaintenance(w)
    BY <2>3 DEF ClaimMaintenance, claimDelete, claimDeleteExhausted, claimMove,
                claimMoveRefused, failMove
  <2>4. CASE \E answered \in BOOLEAN : completeEntryMove(w, answered)
    BY <2>4 DEF completeEntryMove, failCompletion, Landing
  <2>5. CASE unlinkOriginal(w) \/ completeDeleteError(w) \/ lookAtDestination(w)
             \/ copyAtomically(w) \/ statCopied(w) \/ completeEntryMoveThrows(w)
             \/ completeEntryMoveError(w)
    BY <2>5 DEF unlinkOriginal, completeDeleteError, lookAtDestination, copyAtomically,
                statCopied, completeEntryMoveThrows, completeEntryMoveError, failMove
  <2>6. CASE \E answered \in BOOLEAN : completeDelete(w, answered)
    BY <2>6
  <2> QED BY <2>1, <2>2, <2>3, <2>4, <2>5, <2>6 DEF Work
<1>5. CASE Scheduler
  <2>1. CASE Lapse \/ Sweep
    BY <2>1 DEF Lapse, uploadLeaseLapses, deleteLeaseLapses, moveLeaseLapses, Sweep,
                recoverStaleRequests
  <2>2. CASE CleanUp
    BY <2>2 DEF CleanUp
  <2>3. CASE \E o \in OperationIds : ProcessBulk(o)
    <3>1. PICK o \in OperationIds : ProcessBulk(o)
      BY <2>3
    <3>2. CASE processSourceGone(o) \/ processNothing(o)
      BY <3>2 DEF processSourceGone, processNothing
    <3>3. CASE applyConflictPolicy(o)
      <4>1. ASSUME NEW j, NEW p, resolveParkedJob(j, p)
            PROVE  entries' = entries \/ \E e, k : entries' = [entries EXCEPT ![e].moveJob = k]
        BY <4>1 DEF resolveParkedJob, queueMoveJob
      <4> QED BY <3>3, <4>1 DEF applyConflictPolicy
    <3>4. CASE \E e \in EntryIds : process(o, e)
      <4>1. PICK e \in EntryIds :
               refuseItem(o, e) \/ deleteItem(o, e) \/ keepItem(o, e) \/ moveItem(o, e)
        BY <3>4 DEF process
      <4>2. CASE moveItem(o, e)
        BY <4>2 DEF moveItem, queueMoveJob
      <4>3. CASE refuseItem(o, e) \/ deleteItem(o, e) \/ keepItem(o, e)
        BY <4>3 DEF refuseItem, deleteItem, keepItem
      <4> QED BY <4>1, <4>2, <4>3
    <3> QED BY <3>1, <3>2, <3>3, <3>4 DEF ProcessBulk
  <2> QED BY <1>5, <2>1, <2>2, <2>3 DEF Scheduler
<1> QED BY <1>1, <1>2, <1>3, <1>4, <1>5 DEF Next

\* What an upload reports is kept in the folder it was sent to.
LEMMA UploadedKey ==
    ASSUME TypeInv, NEW h \in Handlers, handlers[h].pc # "idle"
    PROVE  /\ keyOf(h) \in KeysOf(intents[handlers[h].intent].folder)
           /\ intents[handlers[h].intent].folder \in Folders
<1>1. /\ handlers[h].intent \in IntentIds /\ handlers[h].name \in Names
      /\ intents[handlers[h].intent].folder \in Folders
      /\ intents[handlers[h].intent].content \in Contents
  BY DEF TypeInv, Rows, Served, HandlerRow, IntentRow
<1> QED BY <1>1 DEF keyOf, KeysOf

\* All an upload that completes does to entries and counts.
LEMMA UploadLands ==
    ASSUME TypeInv, NEW h \in Handlers, NEW answered \in BOOLEAN, completeUpload(h, answered)
    PROVE  LET i == handlers[h].intent IN
           \/ UNCHANGED <<galleries, entries>>
           \/ \E e \in EntryIds, m \in MoveJobIds \cup {None} :
                /\ landedEntry(i, keyOf(h), m) \in EntryRow
                /\ entries' = [entries EXCEPT ![e] = landedEntry(i, keyOf(h), m)]
                /\ galleries' = adjustGalleryStats(galleries, GalleryOf[intents[i].folder],
                       IF Ready(e) THEN 0 ELSE 1,
                       Size[intents[i].content] - (IF Ready(e) THEN SizeOf(e) ELSE 0))
                /\ Ready(e) => \/ entries[e].folder = intents[i].folder
                               \/ /\ Storage[GalleryOf[intents[i].folder]] = "user"
                                  /\ entries[e].key = keyOf(h)
<1> DEFINE i == handlers[h].intent
           key == keyOf(h)
<1>0. i \in IntentIds /\ key \in Keys /\ intents[i] \in IntentRow
      /\ Size[intents[i].content] \in Nat
  BY KeyOfType, CatalogAssumption DEF completeUpload, TypeInv, Rows
<1>1. CASE UNCHANGED <<galleries, entries>>
  BY <1>1
<1>2. CASE uploadAccepted(i, key) /\ insertUploaded(i, key)
  <2>1. PICK e \in EntryIds :
        /\ entries[e].state = "absent"
        /\ entries' = [entries EXCEPT ![e] = landedEntry(i, key, None)]
        /\ galleries' = adjustGalleryStats(galleries, GalleryOf[intents[i].folder],
                                           1, Size[intents[i].content])
    BY <1>2 DEF insertUploaded
  <2>2. landedEntry(i, key, None) \in EntryRow
    BY <1>0, <1>2, LandedType DEF uploadAccepted, TypeInv
  <2>3. ~Ready(e) /\ Size[intents[i].content] - 0 = Size[intents[i].content]
    BY <1>0, <2>1 DEF Ready
  <2> QED BY <2>1, <2>2, <2>3
<1>3. CASE uploadAccepted(i, key) /\ \E e \in existingFor(i, key) : replaceUploaded(i, key, e)
  <2>1. PICK e \in existingFor(i, key) : replaceUploaded(i, key, e)
    BY <1>3
  <2>2. e \in EntryIds /\ (Ready(e) => \/ entries[e].folder = intents[i].folder
                                       \/ /\ Storage[GalleryOf[intents[i].folder]] = "user"
                                          /\ entries[e].key = key)
    BY FindReady, NoneType DEF existingFor, occupantOf, entriesAt, readyEntriesNamed
  <2>3. entries[e].moveJob \in MoveJobIds \cup {None}
    BY <2>2 DEF TypeInv, Rows, EntryRow, Entry
  <2>4. landedEntry(i, key, entries[e].moveJob) \in EntryRow
    BY <1>0, <1>3, <2>3, LandedType DEF uploadAccepted, TypeInv
  <2> QED BY <2>1, <2>2, <2>3, <2>4 DEF replaceUploaded
<1> QED BY <1>1, <1>2, <1>3 DEF completeUpload

\* What a move that lands does to entries and counts, one row after the other:
\* the occupant is deleted, the entry taken out of its gallery and put into the
\* other one.
LEMMA MoveLands ==
    ASSUME TypeInv, NEW w \in Workers, Landing(w)
    PROVE  LET j == workers[w].job
               e == moveJobs[j].entry
               o == occupantAt(j)
               f == moveJobs[j].folder
               rows == IF o = None THEN entries ELSE [entries EXCEPT ![o].state = "deleted"]
               freed == IF o = None THEN galleries
                        ELSE adjustGalleryStats(galleries, GalleryOf[f], -1, -SizeOf(o))
           IN  /\ workers[w].pc \in Moving /\ j \in MoveJobIds /\ workers[w].dest \in Keys
               /\ f \in Folders /\ e \in EntryIds /\ Ready(e)
               /\ moveJobs[j].source = GalleryOf[entries[e].folder]
               /\ o # None => o \in EntryIds \ {e} /\ Ready(o) /\ entries[o].folder = f
               /\ entries'[e].folder = f /\ entries'[e].key = workers[w].dest
               /\ entries'[e].state = "ready" /\ entries'[e].content = entries[e].content
               /\ \A d \in EntryIds \ {e} : entries'[d] = rows[d]
               /\ galleries' = IF GalleryOf[entries[e].folder] = GalleryOf[f] THEN freed
                     ELSE adjustGalleryStats(
                             adjustGalleryStats(freed, GalleryOf[entries[e].folder], -1, -SizeOf(e)),
                             GalleryOf[f], 1, SizeOf(e))
<1> DEFINE j == workers[w].job
           e == moveJobs[j].entry
           o == occupantAt(j)
           f == moveJobs[j].folder
<1>1. workers[w].pc \in Moving /\ j \in MoveJobIds /\ workers[w].dest \in Keys
  BY DEF Landing, Moving, TypeInv, Rows, WorkerRow
<1>2. /\ f \in Folders /\ e \in EntryIds /\ Ready(e) /\ entries[e] \in EntryRow
      /\ moveJobs[j].source = GalleryOf[entries[e].folder] /\ landMove(j, workers[w].dest)
  BY <1>1 DEF Landing, TypeInv, Rows, MoveRow, sourceUnchanged
<1>3. o # None => o \in EntryIds \ {e} /\ Ready(o) /\ entries[o].folder = f
  BY FindReady DEF occupantAt, readyEntriesNamed
<1> DEFINE landed == [entries EXCEPT ![e].folder = f, ![e].name = landingName(moveJobs[j]),
                                     ![e].key = workers[w].dest, ![e].moveJob = None]
<1>4. /\ DOMAIN landed = EntryIds /\ DOMAIN entries = EntryIds
      /\ landed[e].folder = f /\ landed[e].key = workers[w].dest
      /\ landed[e].state = "ready" /\ landed[e].content = entries[e].content
      /\ \A d \in EntryIds \ {e} : landed[d] = entries[d]
  BY <1>2 DEF Ready, TypeInv, Rows, EntryRow, Entry
<1>5. entries' = IF o = None THEN landed ELSE [landed EXCEPT ![o].state = "deleted"]
  BY <1>2 DEF landMove
<1> HIDE DEF landed
<1>6. /\ entries'[e].folder = f /\ entries'[e].key = workers[w].dest
      /\ entries'[e].state = "ready" /\ entries'[e].content = entries[e].content
      /\ \A d \in EntryIds \ {e} : entries'[d] =
            (IF o = None THEN entries ELSE [entries EXCEPT ![o].state = "deleted"])[d]
  BY <1>2, <1>3, <1>4, <1>5
<1>7. galleries' = LET freed == IF o = None THEN galleries
                        ELSE adjustGalleryStats(galleries, GalleryOf[f], -1, -SizeOf(o))
           IN  IF moveJobs[j].source = GalleryOf[f] THEN freed
               ELSE adjustGalleryStats(
                       adjustGalleryStats(freed, moveJobs[j].source, -1, -SizeOf(e)),
                       GalleryOf[f], 1, SizeOf(e))
  BY <1>2 DEF landMove
<1> HIDE DEF j, e, o, f
<1> QED BY <1>1, <1>2, <1>3, <1>6, <1>7 DEF j, e, o, f

\* Every entry that becomes ready, or goes elsewhere, gets a key of its folder.
LEMMA KeysStayMatched ==
    ASSUME TypeInv, KeysMatch, CopiesBound, [Next]_vars
    PROVE  KeysMatch'
<1>0. ASSUME NEW x \in EntryIds, entries'[x].key \in KeysOf(entries'[x].folder),
             \A e \in EntryIds \ {x} : entries'[e].state = "ready" =>
                /\ entries[e].state = "ready"
                /\ entries'[e].folder = entries[e].folder /\ entries'[e].key = entries[e].key
      PROVE  KeysMatch'
  BY <1>0 DEF KeysMatch, Ready, KeysOf, buildStorageKey
<1>1. ASSUME \A e \in EntryIds : entries'[e].state = "ready" =>
                /\ entries[e].state = "ready"
                /\ entries'[e].folder = entries[e].folder /\ entries'[e].key = entries[e].key
      PROVE  KeysMatch'
  BY <1>1 DEF KeysMatch, Ready, KeysOf, buildStorageKey
<1>2. ASSUME NEW e, \/ entries' = entries
                    \/ \E j : entries' = [entries EXCEPT ![e].moveJob = j]
                    \/ \E n : entries' = [entries EXCEPT ![e].name = n]
                    \/ entries' = [entries EXCEPT ![e].state = "deleted"]
                    \/ entries' = [entries EXCEPT ![e] = Blank("purged")]
      PROVE  KeysMatch'
  <2>1. \A d \in EntryIds : entries'[d].state = "ready" =>
           /\ entries[d].state = "ready"
           /\ entries'[d].folder = entries[d].folder /\ entries'[d].key = entries[d].key
    BY <1>2 DEF TypeInv, Rows, EntryRow, Entry, Blank
  <2> QED BY <1>1, <2>1
<1>3. CASE \E e \in EntryIds, j \in DeleteJobIds : queueEntryDeletion(e, j)
  BY <1>2, <1>3 DEF queueEntryDeletion
<1>4. CASE \E g \in Galleries : removeGallery(g) \/ queueEntries(g)
  BY <1>2, <1>4 DEF removeGallery, queueEntries
<1>5. CASE \E e \in EntryIds, n \in Names : rename(e, n)
  BY <1>2, <1>5 DEF rename
<1>6. CASE \E w \in Workers, answered \in BOOLEAN : completeDelete(w, answered)
  BY <1>2, <1>6 DEF completeDelete
<1>7. ASSUME NEW h \in Handlers, NEW answered \in BOOLEAN, completeUpload(h, answered)
      PROVE  KeysMatch'
  <2>1. CASE entries' = entries
    BY <1>2, <2>1
  <2>2. ASSUME NEW e \in EntryIds, NEW m \in MoveJobIds \cup {None},
               entries' = [entries EXCEPT ![e] = landedEntry(handlers[h].intent, keyOf(h), m)]
        PROVE  KeysMatch'
    <3> DEFINE row == landedEntry(handlers[h].intent, keyOf(h), m)
    <3>1. row.key \in KeysOf(row.folder)
      BY <1>7, UploadedKey DEF completeUpload, landedEntry
    <3>2. entries' = [entries EXCEPT ![e] = row]
      BY <2>2
    <3> HIDE DEF row
    <3> QED BY <1>0, <3>1, <3>2 DEF TypeInv, Rows
  <2> QED BY <1>7, <2>1, <2>2, UploadLands
<1>8. ASSUME NEW w \in Workers, Landing(w) PROVE KeysMatch'
  <2> DEFINE j == workers[w].job
             e == moveJobs[j].entry
             o == occupantAt(j)
  <2>1. /\ workers[w].pc \in Moving /\ moveJobs[j].status # "absent"
        /\ e \in EntryIds /\ entries'[e].folder = moveJobs[j].folder
        /\ entries'[e].key = workers[w].dest
    BY <1>8, MoveLands DEF Landing
  <2>2. workers[w].dest \in KeysOf(moveJobs[j].folder)
    BY <2>1 DEF CopiesBound
  <2>3. \A d \in EntryIds \ {e} : entries'[d] =
           (IF o = None THEN entries ELSE [entries EXCEPT ![o].state = "deleted"])[d]
    BY <1>8, MoveLands
  <2> HIDE DEF e, o
  <2>4. \A d \in EntryIds \ {e} : entries'[d].state = "ready" => entries'[d] = entries[d]
    BY <2>3 DEF TypeInv, Rows, EntryRow, Entry
  <2> QED BY <1>0, <2>1, <2>2, <2>4
<1> QED BY <1>2, <1>3, <1>4, <1>5, <1>6, <1>7, <1>8, FilesChange

(***************************************************************************)
(* Steps on what is counted                                                *)
(***************************************************************************)

\* A gallery is cleaned up after it was removed.
CleanedAreGone == \A g \in Galleries : galleries[g].cleaning => galleries[g].deleted

\* What galleryStats counts, and what makes it so.
StatsInv == Counts(galleries, entries) /\ CleanedAreGone /\ KeysMatch /\ CopiesBound

\* Deleting an entry takes it out of its gallery.
LEMMA DeletionCounted ==
    ASSUME NEW rows \in [EntryIds -> EntryRow], NEW table \in [Galleries -> GalleryRow],
           Counts(table, rows), NEW e \in EntryIds, rows[e].state = "ready"
    PROVE  LET g   == GalleryOf[rows[e].folder]
               new == adjustGalleryStats(table, g, -1, -Size[rows[e].content])
               more == [rows EXCEPT ![e].state = "deleted"]
           IN  /\ new \in [Galleries -> GalleryRow] /\ more \in [EntryIds -> EntryRow]
               /\ Counts(new, more)
<1> DEFINE g   == GalleryOf[rows[e].folder]
           new == adjustGalleryStats(table, g, -1, -Size[rows[e].content])
           more == [rows EXCEPT ![e].state = "deleted"]
<1>1. g \in Galleries /\ Size[rows[e].content] \in Nat /\ [rows[e] EXCEPT !.state = "deleted"] \in EntryRow
  BY CatalogAssumption DEF EntryRow, Entry
<1>2. new \in [Galleries -> GalleryRow]
  <2>1. -1 \in Int /\ -Size[rows[e].content] \in Int
    BY <1>1
  <2> QED BY <1>1, <2>1, StatsType
<1>3. more \in [EntryIds -> EntryRow] /\ more[e].state = "deleted"
      /\ \A d \in EntryIds \ {e} : more[d] = rows[d]
  BY <1>1 DEF EntryRow, Entry
<1> HIDE DEF more
<1>4. SameBut(rows, more, {e})
  BY <1>3 DEF SameBut
<1>5. \A x \in Galleries : e \notin filesOf(more, x) /\ (e \in filesOf(rows, x) <=> x = g)
  BY <1>3 DEF filesOf
<1> HIDE DEF g
<1>6. /\ -1 = One(e \in filesOf(more, g)) - One(e \in filesOf(rows, g))
      /\ -Size[rows[e].content] = BytesIf(e \in filesOf(more, g), Size[more[e].content])
                                  - BytesIf(e \in filesOf(rows, g), Size[rows[e].content])
  BY <1>1, <1>5 DEF One, BytesIf
<1>7. Counts(new, more)
  BY <1>1, <1>3, <1>4, <1>5, <1>6, AdjustedCounts
<1> QED BY <1>2, <1>3, <1>7 DEF more, g

\* Nothing that is counted changes.
LEMMA UncountedSteps ==
    ASSUME TypeInv, TypeInv', PurgeInv, StatsInv,
           \/ UNCHANGED <<galleries, entries>>
           \/ galleries' = galleries /\ \E e, j : entries' = [entries EXCEPT ![e].moveJob = j]
           \/ \E g \in Galleries : removeGallery(g) \/ queueEntries(g)
           \/ \E e \in EntryIds, n \in Names : rename(e, n)
           \/ \E w \in Workers, answered \in BOOLEAN : completeDelete(w, answered)
    PROVE  Counts(galleries', entries') /\ CleanedAreGone'
<1>0. /\ entries \in [EntryIds -> EntryRow] /\ entries' \in [EntryIds -> EntryRow]
      /\ galleries \in [Galleries -> GalleryRow]
      /\ Counts(galleries, entries) /\ CleanedAreGone
  BY DEF TypeInv, Rows, StatsInv
<1>1. ASSUME galleries' = galleries,
             \A d \in EntryIds : entries[d].state = "ready" \/ entries'[d].state = "ready" =>
                /\ entries'[d].state = "ready" /\ entries[d].state = "ready"
                /\ entries'[d].folder = entries[d].folder
                /\ entries'[d].content = entries[d].content
      PROVE  Counts(galleries', entries') /\ CleanedAreGone'
  <2>1. \A g : filesOf(entries', g) = filesOf(entries, g)
    BY <1>1 DEF filesOf
  <2>2. \A g : \A d \in filesOf(entries, g) : entries[d].content = entries'[d].content
    BY <1>1 DEF filesOf
  <2> QED BY <1>0, <1>1, <2>1, <2>2, SameCounts DEF CleanedAreGone
<1>2. CASE UNCHANGED <<galleries, entries>>
  BY <1>0, <1>2 DEF CleanedAreGone
<1>3. CASE galleries' = galleries /\ \E e, j : entries' = [entries EXCEPT ![e].moveJob = j]
  <2>1. \A d \in EntryIds : /\ entries'[d].state = entries[d].state
                            /\ entries'[d].folder = entries[d].folder
                            /\ entries'[d].content = entries[d].content
    BY <1>0, <1>3 DEF EntryRow, Entry
  <2> QED BY <1>1, <1>3, <2>1
<1>4. CASE \E e \in EntryIds, n \in Names : rename(e, n)
  <2>1. galleries' = galleries /\ \E e, n : entries' = [entries EXCEPT ![e].name = n]
    BY <1>4 DEF rename
  <2>2. \A d \in EntryIds : /\ entries'[d].state = entries[d].state
                            /\ entries'[d].folder = entries[d].folder
                            /\ entries'[d].content = entries[d].content
    BY <1>0, <2>1 DEF EntryRow, Entry
  <2> QED BY <1>1, <2>1, <2>2
<1>5. ASSUME NEW w \in Workers, NEW answered \in BOOLEAN, completeDelete(w, answered)
      PROVE  Counts(galleries', entries') /\ CleanedAreGone'
  <2>1. PICK j \in DeleteJobIds : j = workers[w].job
    BY <1>5 DEF completeDelete, TypeInv, Rows, WorkerRow, Deleting
  <2>2. galleries' = galleries
    BY <1>5 DEF completeDelete
  <2>3. CASE entries' = entries
    BY <1>1, <2>2, <2>3
  <2>4. CASE entries' # entries
    <3>1. /\ deleteJobs[j].deleteEntry
          /\ entries' = [entries EXCEPT ![deleteJobs[j].entry] = Blank("purged")]
      BY <1>5, <2>1, <2>4 DEF completeDelete
    <3>2. deleteJobs[j].entry \in EntryIds /\ entries[deleteJobs[j].entry].state = "deleted"
      <4>1. deleteJobs[j].status # "absent" /\ deleteJobs[j].entry \in EntryIds
        BY <2>1, <3>1 DEF PurgeInv, TypeInv, Rows, DeleteRow
      <4>2. j \in purging(deleteJobs[j].entry)
        BY <2>1, <3>1, <4>1 DEF purging
      <4> QED BY <4>1, <4>2 DEF PurgeInv
    <3>3. Blank("purged").state = "purged"
      BY DEF Blank
    <3> QED BY <1>0, <1>1, <2>2, <3>1, <3>2, <3>3
  <2> QED BY <2>3, <2>4
<1>6. ASSUME NEW g \in Galleries, removeGallery(g)
      PROVE  Counts(galleries', entries') /\ CleanedAreGone'
  <2>1. entries' = entries /\ galleries'[g].deleted /\ \A x \in Galleries \ {g} : galleries'[x] = galleries[x]
    BY <1>0, <1>6 DEF removeGallery, GalleryRow
  <2> QED BY <1>0, <2>1 DEF Counts, CleanedAreGone
<1>7. ASSUME NEW g \in Galleries, queueEntries(g)
      PROVE  Counts(galleries', entries') /\ CleanedAreGone'
  <2>1. galleries[g].deleted
    BY <1>0, <1>7 DEF queueEntries, CleanedAreGone
  <2>2. /\ \A x \in Galleries : /\ galleries'[x].deleted = galleries[x].deleted
                                /\ galleries'[x].cleaning => galleries[x].cleaning
        /\ \A x \in Galleries \ {g} : galleries'[x] = galleries[x]
    <3>1. galleries' = galleries \/ galleries' = [galleries EXCEPT ![g].cleaning = FALSE]
      BY <1>7 DEF queueEntries
    <3> QED BY <1>0, <3>1 DEF GalleryRow
  <2>3. CASE entries' = entries
    BY <1>0, <2>1, <2>2, <2>3 DEF Counts, CleanedAreGone
  <2>4. CASE entries' # entries
    <3>1. PICK e \in entriesOf(g) : entries' = [entries EXCEPT ![e].state = "deleted"]
      BY <1>7, <2>4 DEF queueEntries
    <3>2. /\ e \in EntryIds /\ GalleryOf[entries[e].folder] = g
          /\ entries'[e].state = "deleted" /\ \A d \in EntryIds \ {e} : entries'[d] = entries[d]
      BY <1>0, <3>1 DEF entriesOf, EntryRow, Entry
    <3>3. \A x \in Galleries \ {g} :
             /\ filesOf(entries', x) = filesOf(entries, x)
             /\ \A d \in filesOf(entries, x) : entries[d].content = entries'[d].content
      BY <3>2 DEF filesOf
    <3>4. \A x \in Galleries : ~galleries'[x].deleted => x # g /\ galleries'[x] = galleries[x]
      BY <2>1, <2>2
    <3> DEFINE new == galleries'
               more == entries'
    <3>5. \A x \in Galleries : ~new[x].deleted =>
             /\ ~galleries[x].deleted /\ new[x].itemCount = galleries[x].itemCount
             /\ new[x].totalBytes = galleries[x].totalBytes
             /\ filesOf(more, x) = filesOf(entries, x)
             /\ \A d \in filesOf(entries, x) : entries[d].content = more[d].content
      BY <3>3, <3>4
    <3>6. more \in [EntryIds -> EntryRow]
      BY <1>0
    <3> HIDE DEF new, more
    <3>7. Counts(new, more)
      BY <1>0, <3>5, <3>6, SameCounts
    <3> QED BY <1>0, <2>2, <3>7 DEF CleanedAreGone, new, more
  <2> QED BY <2>3, <2>4
<1> QED BY <1>2, <1>3, <1>4, <1>5, <1>6, <1>7

\* An upload adds an entry, revives one or replaces the bytes of one.
LEMMA UploadCounted ==
    ASSUME TypeInv, StatsInv, NEW h \in Handlers, NEW answered \in BOOLEAN,
           completeUpload(h, answered)
    PROVE  Counts(galleries', entries')
<1> DEFINE i == handlers[h].intent
           f == intents[i].folder
           g == GalleryOf[f]
<1>0. /\ entries \in [EntryIds -> EntryRow] /\ galleries \in [Galleries -> GalleryRow]
      /\ Counts(galleries, entries) /\ handlers[h].pc # "idle"
  BY DEF TypeInv, Rows, StatsInv, completeUpload
<1>1. f \in Folders /\ g \in Galleries /\ keyOf(h) \in KeysOf(f)
      /\ intents[i].content \in Contents /\ Size[intents[i].content] \in Nat
  BY <1>0, UploadedKey, KeyOfType, CatalogAssumption
<1>2. CASE UNCHANGED <<galleries, entries>>
  BY <1>0, <1>2
<1>3. ASSUME NEW e \in EntryIds, NEW m \in MoveJobIds \cup {None},
             landedEntry(i, keyOf(h), m) \in EntryRow,
             entries' = [entries EXCEPT ![e] = landedEntry(i, keyOf(h), m)],
             galleries' = adjustGalleryStats(galleries, g, IF Ready(e) THEN 0 ELSE 1,
                             Size[intents[i].content] - (IF Ready(e) THEN SizeOf(e) ELSE 0)),
             Ready(e) => \/ entries[e].folder = f
                         \/ Storage[g] = "user" /\ entries[e].key = keyOf(h)
      PROVE  Counts(galleries', entries')
  <2> DEFINE row == landedEntry(i, keyOf(h), m)
             more == [entries EXCEPT ![e] = row]
  <2>1. row.state = "ready" /\ row.folder = f /\ row.content = intents[i].content
    BY DEF landedEntry
  <2>2. row \in EntryRow
    BY <1>3
  <2> HIDE DEF row
  <2>3. /\ more \in [EntryIds -> EntryRow] /\ more[e] = row
        /\ \A d \in EntryIds \ {e} : more[d] = entries[d]
    BY <1>0, <2>2
  <2> HIDE DEF more
  <2>4. SameBut(entries, more, {e})
    BY <2>3 DEF SameBut
  <2>5. Ready(e) => GalleryOf[entries[e].folder] = g
    <3>1. Ready(e) => entries[e].folder \in Folders /\ entries[e].key \in KeysOf(entries[e].folder)
      BY <1>0 DEF StatsInv, KeysMatch, Ready, EntryRow
    <3> QED BY <1>1, <1>3, <3>1, UserKeys
  <2>6. \A x \in Galleries : /\ e \in filesOf(more, x) <=> x = g
                             /\ e \in filesOf(entries, x) <=> Ready(e) /\ x = g
    BY <2>1, <2>3, <2>5 DEF filesOf, Ready
  <2>7. Ready(e) => SizeOf(e) \in Nat /\ SizeOf(e) = Size[entries[e].content]
    BY <1>0, CatalogAssumption DEF Ready, SizeOf, EntryRow
  <2> HIDE DEF g, f, i
  <2> DEFINE items == IF Ready(e) THEN 0 ELSE 1
             bytes == Size[intents[i].content] - (IF Ready(e) THEN SizeOf(e) ELSE 0)
  <2>8. items = One(e \in filesOf(more, g)) - One(e \in filesOf(entries, g))
    BY <1>1, <2>6 DEF One
  <2>9. bytes = BytesIf(e \in filesOf(more, g), Size[more[e].content])
                - BytesIf(e \in filesOf(entries, g), Size[entries[e].content])
    BY <1>1, <2>1, <2>3, <2>6, <2>7 DEF BytesIf
  <2>10. galleries' = adjustGalleryStats(galleries, g, items, bytes) /\ entries' = more
    BY <1>3 DEF more, row
  <2>11. \A x \in Galleries \ {g} : e \notin filesOf(entries, x) /\ e \notin filesOf(more, x)
    BY <2>6
  <2> HIDE DEF items, bytes
  <2>12. Counts(adjustGalleryStats(galleries, g, items, bytes), more)
    BY <1>0, <1>1, <2>3, <2>4, <2>8, <2>9, <2>11, AdjustedCounts
  <2> QED BY <2>10, <2>12
<1> QED BY <1>2, <1>3, UploadLands

\* A move deletes the occupant, takes the entry out of its gallery and puts it
\* into the other one; each is counted by itself.
LEMMA MoveCounted ==
    ASSUME TypeInv, TypeInv', StatsInv, NEW w \in Workers, Landing(w)
    PROVE  Counts(galleries', entries')
<1> DEFINE j == workers[w].job
           e == moveJobs[j].entry
           o == occupantAt(j)
           f == moveJobs[j].folder
           s == GalleryOf[entries[e].folder]
           g == GalleryOf[f]
           rows == IF o = None THEN entries ELSE [entries EXCEPT ![o].state = "deleted"]
           freed == IF o = None THEN galleries ELSE adjustGalleryStats(galleries, g, -1, -SizeOf(o))
           left == adjustGalleryStats(freed, s, -1, -SizeOf(e))
           gone == [rows EXCEPT ![e].state = "deleted"]
<1>0. /\ entries \in [EntryIds -> EntryRow] /\ entries' \in [EntryIds -> EntryRow]
      /\ galleries \in [Galleries -> GalleryRow] /\ Counts(galleries, entries)
  BY DEF TypeInv, Rows, StatsInv
<1>1. /\ f \in Folders /\ e \in EntryIds /\ Ready(e)
      /\ o # None => o \in EntryIds \ {e} /\ Ready(o) /\ entries[o].folder = f
      /\ entries'[e].folder = f /\ entries'[e].state = "ready"
      /\ entries'[e].content = entries[e].content
      /\ \A d \in EntryIds \ {e} : entries'[d] = rows[d]
      /\ galleries' = IF s = g THEN freed ELSE adjustGalleryStats(left, g, 1, SizeOf(e))
  BY MoveLands
<1>2. s \in Galleries /\ g \in Galleries /\ SizeOf(e) \in Nat
  BY <1>0, <1>1, CatalogAssumption DEF Ready, SizeOf, EntryRow
<1>3. /\ rows \in [EntryIds -> EntryRow] /\ freed \in [Galleries -> GalleryRow]
      /\ Counts(freed, rows) /\ rows[e] = entries[e]
  <2>1. CASE o = None
    BY <1>0, <2>1
  <2>2. CASE o # None
    <3>1. /\ o \in EntryIds \ {e} /\ entries[o].state = "ready" /\ GalleryOf[entries[o].folder] = g
          /\ SizeOf(o) = Size[entries[o].content]
      BY <1>1, <2>2 DEF Ready, SizeOf
    <3> DEFINE new == adjustGalleryStats(galleries, GalleryOf[entries[o].folder], -1,
                                         -Size[entries[o].content])
               more == [entries EXCEPT ![o].state = "deleted"]
    <3>2. new \in [Galleries -> GalleryRow] /\ more \in [EntryIds -> EntryRow] /\ Counts(new, more)
      BY <1>0, <3>1, DeletionCounted
    <3>3. rows = more /\ freed = new
      BY <2>2, <3>1
    <3>4. rows[e] = entries[e]
      BY <1>0, <1>1, <2>2, <3>1
    <3> HIDE DEF rows, freed, more, new
    <3> QED BY <3>2, <3>3, <3>4
  <2> QED BY <2>1, <2>2
<1> HIDE DEF rows, freed, o
<1>4. CASE s = g
  <2>0. \A d \in EntryIds :
           /\ entries'[d].state = "ready" <=> rows[d].state = "ready"
           /\ GalleryOf[entries'[d].folder] = GalleryOf[rows[d].folder]
           /\ entries'[d].content = rows[d].content
    BY <1>1, <1>3, <1>4 DEF Ready
  <2>1. \A x : filesOf(entries', x) = filesOf(rows, x)
    BY <2>0 DEF filesOf
  <2>2. \A x : \A d \in filesOf(rows, x) : rows[d].content = entries'[d].content
    BY <1>1, <1>3 DEF filesOf
  <2>3. galleries' = freed
    BY <1>1, <1>4
  <2> DEFINE more == entries'
  <2>4. \A x \in Galleries : ~freed[x].deleted =>
           /\ filesOf(more, x) = filesOf(rows, x)
           /\ \A d \in filesOf(rows, x) : rows[d].content = more[d].content
    BY <2>1, <2>2
  <2>5. more \in [EntryIds -> EntryRow]
    BY <1>0
  <2> HIDE DEF e, f, s, g, more
  <2>6. Counts(freed, more)
    BY <1>3, <2>4, <2>5, SameCounts
  <2> QED BY <2>3, <2>6 DEF more
<1>5. CASE s # g
  <2>1. rows[e].state = "ready" /\ SizeOf(e) = Size[rows[e].content] /\ GalleryOf[rows[e].folder] = s
    BY <1>1, <1>3 DEF Ready, SizeOf
  <2>2. left \in [Galleries -> GalleryRow] /\ gone \in [EntryIds -> EntryRow] /\ Counts(left, gone)
    <3> HIDE DEF e, s
    <3>1. left = adjustGalleryStats(freed, GalleryOf[rows[e].folder], -1, -Size[rows[e].content])
      BY <2>1
    <3> HIDE DEF left
    <3> QED BY <1>1, <1>3, <2>1, <3>1, DeletionCounted
  <2>3. gone[e].state = "deleted" /\ \A d \in EntryIds \ {e} : gone[d] = rows[d]
    BY <1>1, <1>3 DEF EntryRow, Entry
  <2> HIDE DEF left, gone
  <2>4. SameBut(gone, entries', {e})
    BY <1>1, <2>3 DEF SameBut
  <2>5. \A x \in Galleries : e \notin filesOf(gone, x) /\ (e \in filesOf(entries', x) <=> x = g)
    BY <1>1, <2>3 DEF filesOf
  <2>6. SizeOf(e) = Size[entries'[e].content] /\ galleries' = adjustGalleryStats(left, g, 1, SizeOf(e))
    BY <1>1, <1>5 DEF SizeOf
  <2> DEFINE n == SizeOf(e)
             x == e
  <2>7. x \in EntryIds /\ n \in Nat /\ n = Size[entries'[x].content]
    BY <1>1, <1>2, <2>6
  <2> HIDE DEF e, f, s, g, n
  <2>8. /\ 1 = One(e \in filesOf(entries', g)) - One(e \in filesOf(gone, g))
        /\ n = BytesIf(e \in filesOf(entries', g), Size[entries'[e].content])
               - BytesIf(e \in filesOf(gone, g), Size[gone[e].content])
    BY <1>2, <2>5, <2>7 DEF One, BytesIf
  <2>9. \A y \in Galleries \ {g} : e \notin filesOf(gone, y) /\ e \notin filesOf(entries', y)
    BY <2>5
  <2>10. Counts(adjustGalleryStats(left, g, 1, n), entries')
    BY <1>0, <1>2, <2>2, <2>4, <2>8, <2>9, AdjustedCounts
  <2> QED BY <2>6, <2>10 DEF n
<1> QED BY <1>4, <1>5

\* What is counted stays right over every step.
LEMMA CountedStep ==
    ASSUME TypeInv, TypeInv', PurgeInv, StatsInv, [Next]_vars
    PROVE  Counts(galleries', entries') /\ CleanedAreGone'
<1>0. /\ entries \in [EntryIds -> EntryRow] /\ galleries \in [Galleries -> GalleryRow]
      /\ Counts(galleries, entries) /\ CleanedAreGone
  BY DEF TypeInv, Rows, StatsInv
<1>1. CleanedAreGone'
  BY <1>0, GalleriesStayGone DEF CleanedAreGone, StaysGone
<1>2. ASSUME NEW e \in EntryIds, NEW j \in DeleteJobIds, queueEntryDeletion(e, j)
      PROVE  Counts(galleries', entries')
  <2>1. /\ entries[e].state = "ready" /\ SizeOf(e) = Size[entries[e].content]
        /\ entries' = [entries EXCEPT ![e].state = "deleted"]
        /\ galleries' = adjustGalleryStats(galleries, GalleryOf[entries[e].folder], -1, -SizeOf(e))
    BY <1>2 DEF queueEntryDeletion, Ready, SizeOf
  <2> QED BY <1>0, <2>1, DeletionCounted
<1> QED BY <1>1, <1>2, FilesChange, UncountedSteps, UploadCounted, MoveCounted

\* To begin with the counts are those of the seeded entries.
LEMMA StatsInit == Init => StatsInv
<1> SUFFICES ASSUME Init PROVE StatsInv
  OBVIOUS
<1>0. entries \in [EntryIds -> EntryRow]
  BY InitType DEF TypeInv, Rows
<1>1. \A e \in EntryIds : entries[e].state = "ready" =>
         /\ e \in DOMAIN Seeds /\ entries[e].folder = Seeds[e].folder
         /\ entries[e].content = Seeds[e].content /\ entries[e].key = seedKey(e)
  BY DEF Init, Blank
<1>2. \A e \in DOMAIN Seeds : /\ e \in EntryIds /\ entries[e].state = "ready"
                              /\ entries[e].folder = Seeds[e].folder
                              /\ entries[e].content = Seeds[e].content
  BY SeedsAssumption DEF Init
<1>3. Counts(galleries, entries)
  <2> SUFFICES ASSUME NEW g \in Galleries
               PROVE  /\ galleries[g].itemCount = Cardinality(filesOf(entries, g))
                      /\ galleries[g].totalBytes = bytesIn(entries, filesOf(entries, g))
    BY DEF Counts
  <2>1. seedsOf(g) = filesOf(entries, g)
    BY <1>1, <1>2 DEF seedsOf, filesOf
  <2>2. seedBytes(g) = bytesIn(Seeds, seedsOf(g))
    BY DEF seedBytes, bytesIn
  <2>3. /\ IsFiniteSet(seedsOf(g)) /\ SizesIn(Seeds, seedsOf(g))
        /\ \A e \in seedsOf(g) : Seeds[e].content = entries[e].content
    <3>1. IsFiniteSet(seedsOf(g)) /\ SizesIn(entries, filesOf(entries, g))
      BY <1>0, <2>1, FilesType
    <3>2. \A e \in seedsOf(g) : Seeds[e].content = entries[e].content
      BY <1>2 DEF seedsOf
    <3> QED BY <2>1, <3>1, <3>2 DEF SizesIn
  <2>4. bytesIn(Seeds, seedsOf(g)) = bytesIn(entries, seedsOf(g))
    BY <2>3, BytesSame
  <2>5. galleries[g].itemCount = Cardinality(seedsOf(g)) /\ galleries[g].totalBytes = seedBytes(g)
    BY DEF Init
  <2> QED BY <2>1, <2>2, <2>4, <2>5
<1>4. CleanedAreGone
  BY DEF Init, CleanedAreGone
<1>5. KeysMatch
  <2> SUFFICES ASSUME NEW e \in EntryIds, entries[e].state = "ready"
               PROVE  entries[e].key \in KeysOf(entries[e].folder)
    BY DEF KeysMatch, Ready
  <2> QED BY <1>1, SeedsAssumption DEF seedKey, KeysOf
<1>6. CopiesBound
  BY DEF Init, CopiesBound, IdleWorker, Moving
<1> QED BY <1>3, <1>4, <1>5, <1>6 DEF StatsInv

\* The counters of a gallery, kept by adding and subtracting in every mutation
\* that touches an entry and clamped at zero, are at any time what counting its
\* ready entries and adding up their bytes gives (lib/galleryStats.ts).
THEOREM StatisticsExact == Spec => []StatsExact
<1>1. TypeInv /\ TypeInv' /\ PurgeInv /\ BulkInv /\ StatsInv /\ [Next]_vars => StatsInv'
  BY CountedStep, KeysStayMatched, CopiesStayBound DEF StatsInv, BulkInv
<1>2. StatsInv => StatsExact
  <2> SUFFICES ASSUME StatsInv, NEW g \in Galleries, ~galleries[g].deleted
               PROVE  /\ galleries[g].itemCount = Cardinality(entriesOf(g))
                      /\ galleries[g].totalBytes = MapThenSumSet(SizeOf, entriesOf(g))
    BY DEF StatsExact
  <2>1. entriesOf(g) = filesOf(entries, g)
    BY DEF entriesOf, filesOf, Ready
  <2>2. MapThenSumSet(SizeOf, entriesOf(g)) = bytesIn(entries, entriesOf(g))
    BY DEF bytesIn, MapThenSumSet, MapThenFoldSet, SizeOf
  <2> QED BY <2>1, <2>2 DEF StatsInv, Counts
<1> QED BY <1>1, <1>2, StatsInit, RowsCorrect, PurgesKept, OperationsBalanced, PTL DEF Spec

=============================================================================
