-------------------------- MODULE GalleryRefinement --------------------------
(***************************************************************************)
(* Image galleries on shared storage implement Directory, for every value  *)
(* of the other constants: whatever uploads, moves, deletions, crashes and *)
(* retries do in between, each of their steps changes the listings the way *)
(* one step of Directory does, or not at all.                              *)
(***************************************************************************)
EXTENDS GallerySafety

ImagesOnShared == \A g \in Galleries : Kind[g] = "image" /\ Storage[g] = "shared"

(***************************************************************************)
(* What the mapping relies on                                              *)
(***************************************************************************)

\* A claim resolves a name to itself, or to a variant under "rename".
Resolved == \A i \in IntentIds : intents[i].state = "uploading" =>
    IF intents[i].policy = "rename" THEN intents[i].resolved[1] = intents[i].name[1]
                                    ELSE intents[i].resolved = intents[i].name

\* The operation of a job moves to another folder.
Away == \A j \in MoveJobIds : moveJobs[j].status # "absent" =>
    operations[moveJobs[j].op].folder # operations[moveJobs[j].op].source

Marking == {"queued", "processing", "failed"}

\* An entry that is marked as moving is the one its job is about, and the job
\* takes it to another folder under a variant of its name at most.
Marked == \A e \in EntryIds : Ready(e) /\ entries[e].moveJob # None =>
    LET job == moveJobs[entries[e].moveJob]
    IN  /\ job.status \in Marking
        /\ job.entry = e
        /\ job.folder # entries[e].folder
        /\ job.target # None => job.target[1] = entries[e].name[1]

(***************************************************************************)
(* Steps on jobs and the marks of entries                                  *)
(***************************************************************************)

\* A lease, a claim, a retry or a failure, with or without clearing the mark.
JobWorkedOn(j) ==
    /\ moveJobs[j].status # "absent"
    /\ \E row : /\ moveJobs' = [moveJobs EXCEPT ![j] = row]
                /\ row.status \in Marking
                /\ row.op = moveJobs[j].op
                /\ row.entry = moveJobs[j].entry
                /\ row.folder = moveJobs[j].folder
                /\ row.target = moveJobs[j].target
                   \/ row.target[1] = entries[moveJobs[j].entry].name[1]
    /\ \/ entries' = entries
       \/ entries' = [entries EXCEPT ![moveJobs[j].entry].moveJob = None]

\* An item is parked, or a parked one fails or is withdrawn.
JobParked(j) ==
    /\ moveJobs[j].status \in {"absent", "conflict"}
    /\ \E row : /\ moveJobs' = [moveJobs EXCEPT ![j] = row]
                /\ row.status # "absent" =>
                      \/ moveJobs[j].status # "absent" /\ row.op = moveJobs[j].op
                      \/ /\ row.op \in OperationIds
                         /\ operations[row.op].status # "absent"
                         /\ operations[row.op].folder # operations[row.op].source
    /\ UNCHANGED entries

\* An item is queued, fresh or after it was parked.
JobQueued(j) ==
    \E o \in OperationIds, e \in EntryIds, name \in Names, policy \in Policies :
        /\ operations[o].status # "absent" /\ operations[o].kind = "move"
        /\ \/ moveJobs[j].status = "conflict" /\ o = moveJobs[j].op
           \/ moveJobs[j].status = "absent" /\ operations[o].folder # operations[o].source
        /\ movable(e, operations[o].source)
        /\ name[1] = entries[e].name[1]
        /\ queueMoveJob(j, o, e, name, policy)

\* A move lands.
JobLanded(j) ==
    /\ moveJobs[j].status # "absent"
    /\ sourceUnchanged(j)
    /\ ~takenMeanwhile(j)
    /\ \E key \in Keys : landMove(j, key)

JobStep == \E j \in MoveJobIds : JobWorkedOn(j) \/ JobParked(j) \/ JobQueued(j) \/ JobLanded(j)

(***************************************************************************)
(* All a step can do to entries, intents and move jobs                     *)
(***************************************************************************)

EntryStep ==
    /\ UNCHANGED <<intents, moveJobs>>
    /\ \/ \E e \in EntryIds : entries' = [entries EXCEPT ![e].state = "deleted"]
       \/ \E e \in EntryIds : entries' = [entries EXCEPT ![e] = Blank("purged")]
       \/ \E e \in EntryIds, n \in Names : rename(e, n)

IntentStep ==
    /\ UNCHANGED <<entries, moveJobs>>
    /\ \/ \E i \in IntentIds, f \in Folders, s \in Stems, p \in Policies, c \in Contents :
             createUploadIntent(i, f, <<s, 1>>, p, c)
       \/ \E h \in Handlers, i \in IntentIds : claimUpload(h, i)
       \/ \E i \in IntentIds, b \in BOOLEAN : intents' = [intents EXCEPT ![i].lapsed = b]
       \/ \E h \in Handlers : failUpload(h)
       \/ \E expired \in SUBSET IntentIds : recoverStaleRequests(expired)

Step == \/ UNCHANGED <<entries, intents, moveJobs>>
        \/ EntryStep
        \/ IntentStep
        \/ \E h \in Handlers, answered \in BOOLEAN : completeUpload(h, answered)
        \/ UNCHANGED intents /\ JobStep

\* A picked name is a variant of the wanted one.
LEMMA PickedVariant ==
    ASSUME NEW f, NEW n, NEW reserved, NEW x, NEW y \in pickAvailableName(f, n, reserved, x)
    PROVE  y[1] = n[1]
<1>1. PICK m \in 2..MaxRenameAttempts : y = <<n[1], m>>
  BY DEF pickAvailableName, autoRenamedFileName
<1> QED BY <1>1

\* A file lands as itself, or as a variant under "rename".
LEMMA LandingVariant ==
    ASSUME NEW f, NEW n, NEW p \in Policies, NEW reserved, NEW x,
           NEW y \in resolveLandingName(f, n, p, reserved, x)
    PROVE  /\ IF p = "rename" THEN y[1] = n[1] ELSE y = n
           /\ y[1] = n[1]
<1>1. \A z \in pickAvailableName(f, n, reserved, x) : z[1] = n[1]
  BY PickedVariant
<1>2. CASE Kind[GalleryOf[f]] # "image" \/ ~nameTaken(f, n, reserved, x)
  BY <1>2 DEF resolveLandingName
<1>3. CASE Kind[GalleryOf[f]] = "image" /\ nameTaken(f, n, reserved, x)
  <2>1. CASE p = "ask"
    BY <1>3, <2>1 DEF resolveLandingName
  <2>2. CASE p = "replace"
    BY <1>3, <2>2 DEF resolveLandingName
  <2>3. CASE p = "rename"
    BY <1>1, <1>3, <2>3 DEF resolveLandingName
  <2> QED BY <2>1, <2>2, <2>3 DEF Policies
<1> QED BY <1>2, <1>3

\* A job that fails keeps what it was about, and unmarks its entry at most.
LEMMA FailedJob ==
    ASSUME TypeInv, NEW j \in MoveJobIds, moveJobs[j].status # "absent",
           failMove(j) \/ failCompletion(j)
    PROVE  JobWorkedOn(j)
<1> DEFINE row == [moveJobs[j] EXCEPT !.status = "failed", !.lapsed = FALSE]
<1>1. moveJobs[j] \in MoveRow
  BY DEF TypeInv, Rows
<1>2. /\ row.status = "failed" /\ row.op = moveJobs[j].op /\ row.entry = moveJobs[j].entry
      /\ row.folder = moveJobs[j].folder /\ row.target = moveJobs[j].target
  BY <1>1 DEF MoveRow, MoveJob
<1>3. moveJobs' = [moveJobs EXCEPT ![j] = row]
  BY DEF failMove, failCompletion
<1>4. \/ entries' = entries
      \/ entries' = [entries EXCEPT ![moveJobs[j].entry].moveJob = None]
  BY DEF failMove, failCompletion
<1> HIDE DEF row
<1> QED BY <1>2, <1>3, <1>4 DEF JobWorkedOn, Marking

\* So does one whose lease or status changes.
LEMMA RetriedJob ==
    ASSUME TypeInv, NEW j \in MoveJobIds, moveJobs[j].status # "absent",
           \/ /\ moveJobs[j].status = "processing"
              /\ \E b \in BOOLEAN : moveJobs' = [moveJobs EXCEPT ![j].lapsed = b]
           \/ moveJobs' = [moveJobs EXCEPT ![j].status = "queued", ![j].lapsed = FALSE],
           UNCHANGED entries
    PROVE  JobWorkedOn(j)
<1>1. moveJobs[j] \in MoveRow
  BY DEF TypeInv, Rows
<1>2. ASSUME NEW b \in BOOLEAN, moveJobs[j].status = "processing",
             moveJobs' = [moveJobs EXCEPT ![j].lapsed = b]
      PROVE  JobWorkedOn(j)
  <2> DEFINE row == [moveJobs[j] EXCEPT !.lapsed = b]
  <2>1. /\ row.status = "processing" /\ row.op = moveJobs[j].op /\ row.entry = moveJobs[j].entry
        /\ row.folder = moveJobs[j].folder /\ row.target = moveJobs[j].target
    BY <1>1, <1>2 DEF MoveRow, MoveJob
  <2>2. moveJobs' = [moveJobs EXCEPT ![j] = row]
    BY <1>2
  <2> HIDE DEF row
  <2> QED BY <2>1, <2>2 DEF JobWorkedOn, Marking
<1>3. CASE moveJobs' = [moveJobs EXCEPT ![j].status = "queued", ![j].lapsed = FALSE]
  <2> DEFINE row == [moveJobs[j] EXCEPT !.status = "queued", !.lapsed = FALSE]
  <2>1. /\ row.status = "queued" /\ row.op = moveJobs[j].op /\ row.entry = moveJobs[j].entry
        /\ row.folder = moveJobs[j].folder /\ row.target = moveJobs[j].target
    BY <1>1, <1>3 DEF MoveRow, MoveJob
  <2>2. moveJobs' = [moveJobs EXCEPT ![j] = row]
    BY <1>3
  <2> HIDE DEF row
  <2> QED BY <2>1, <2>2 DEF JobWorkedOn, Marking
<1> QED BY <1>2, <1>3

\* A claim may pick another variant of the name to land under.
LEMMA ClaimedJob ==
    ASSUME TypeInv, NEW w \in Workers, NEW j \in MoveJobIds, claimMove(w, j)
    PROVE  JobWorkedOn(j)
<1> DEFINE job == moveJobs[j]
           e == job.entry
           repick == occupantAt(j) # None /\ job.policy = "rename"
           names == IF repick
                    THEN pickAvailableName(job.folder, entries[e].name,
                             reservedNameKeys(job.folder, None, j), e)
                    ELSE {landingName(job)}
<1>1. job \in MoveRow /\ job.status # "absent"
  BY DEF claimMove, nextMove, claimable, TypeInv, Rows
<1>2. PICK name \in names :
         moveJobs' = [moveJobs EXCEPT ![j].status = "processing", ![j].attempts = @ + 1,
                         ![j].lapsed = FALSE, ![j].target = IF repick THEN name ELSE @]
  BY DEF claimMove
<1>3. repick => name[1] = entries[e].name[1]
  BY <1>2, PickedVariant
<1> DEFINE t == IF repick THEN name ELSE job.target
           row == [job EXCEPT !.status = "processing", !.attempts = job.attempts + 1,
                              !.lapsed = FALSE, !.target = t]
<1>4. moveJobs' = [moveJobs EXCEPT ![j] = row]
  BY <1>1, <1>2 DEF TypeInv, Rows, MoveRow, MoveJob
<1>5. t = job.target \/ t[1] = entries[e].name[1]
  BY <1>3
<1> HIDE DEF t, names, repick
<1>6. /\ row.status = "processing" /\ row.op = job.op /\ row.entry = job.entry
      /\ row.folder = job.folder /\ row.target = t
  BY <1>1 DEF MoveRow, MoveJob
<1> HIDE DEF row
<1>7. entries' = entries
  BY DEF claimMove
<1> QED BY <1>1, <1>4, <1>5, <1>6, <1>7 DEF JobWorkedOn, Marking

\* A job that is reported done fails or lands.
LEMMA ReportedJob ==
    ASSUME TypeInv, NEW w \in Workers, NEW answered \in BOOLEAN, completeEntryMove(w, answered)
    PROVE  Step
<1> DEFINE j == workers[w].job
<1>1. j \in MoveJobIds /\ workers[w].dest \in Keys
  BY DEF completeEntryMove, TypeInv, Rows, WorkerRow, Moving
<1>2. CASE UNCHANGED <<entries, moveJobs>>
  BY <1>2 DEF completeEntryMove, Step
<1>3. CASE moveJobs[j].status # "absent" /\ failCompletion(j)
  BY <1>1, <1>3, FailedJob DEF completeEntryMove, Step, JobStep
<1>4. CASE /\ moveJobs[j].status # "absent" /\ sourceUnchanged(j) /\ ~takenMeanwhile(j)
           /\ landMove(j, workers[w].dest)
  <2>1. JobLanded(j)
    BY <1>1, <1>4 DEF JobLanded
  <2> QED BY <1>1, <2>1 DEF completeEntryMove, Step, JobStep
<1> QED BY <1>2, <1>3, <1>4 DEF completeEntryMove

\* An item of a selection is deleted, queued, parked or left where it is.
LEMMA ProcessedItem ==
    ASSUME TypeInv, NEW o \in OperationIds, NEW e \in EntryIds, process(o, e)
    PROVE  Step
<1>1. scheduled(o) /\ operations[o].status # "absent" /\ operations[o] \in OperationRow
      /\ UNCHANGED intents
  BY DEF process, scheduled, TypeInv, Rows
<1>2. CASE refuseItem(o, e) \/ keepItem(o, e)
  BY <1>1, <1>2 DEF refuseItem, keepItem, Step
<1>3. CASE deleteItem(o, e)
  BY <1>1, <1>3 DEF deleteItem, queueEntryDeletion, Step, EntryStep
<1>4. CASE moveItem(o, e)
  <2> DEFINE op     == operations[o]
             policy == IF op.policy = "skip" THEN "ask" ELSE op.policy
             landing == resolveLandingName(op.folder, entries[e].name, policy,
                                           reservedNameKeys(op.folder, None, None), e)
  <2>1. movable(e, op.source) /\ op.kind = "move" /\ op.folder # op.source
    BY <1>4 DEF moveItem, eligible
  <2>2. policy \in Policies /\ entries[e].name \in Names
    BY <1>1, <2>1 DEF OperationRow, Operation, Policies, movable, TypeInv, Rows, Ready, EntryRow
  <2>3. ASSUME NEW j \in FreeMoveJobs, NEW name \in landing, queueMoveJob(j, o, e, name, policy)
        PROVE  JobQueued(j)
    <3>1. name \in Names /\ name[1] = entries[e].name[1]
      <4> HIDE DEF policy
      <4> QED BY <2>2, <2>3, LandingType, LandingVariant
    <3> HIDE DEF policy, landing
    <3> QED BY <1>1, <2>1, <2>2, <2>3, <3>1 DEF JobQueued, FreeMoveJobs
  <2>4. ASSUME NEW j \in FreeMoveJobs, UNCHANGED entries,
               moveJobs' = [moveJobs EXCEPT ![j] =
                    [QueuedMove(o, e, entries[e].name, "ask") EXCEPT !.status = "conflict"]]
        PROVE  JobParked(j)
    <3>1. [QueuedMove(o, e, entries[e].name, "ask") EXCEPT !.status = "conflict"].op = o
      BY DEF QueuedMove, NoMoveJob
    <3> QED BY <1>1, <2>1, <2>4, <3>1 DEF JobParked, FreeMoveJobs
  <2>5. CASE UNCHANGED <<entries, moveJobs>>
    BY <1>1, <2>5 DEF Step
  <2>6. FreeMoveJobs \subseteq MoveJobIds
    BY DEF FreeMoveJobs
  <2>7. \/ \E j \in FreeMoveJobs, name \in landing : queueMoveJob(j, o, e, name, policy)
        \/ \E j \in FreeMoveJobs :
              /\ UNCHANGED entries
              /\ moveJobs' = [moveJobs EXCEPT ![j] =
                    [QueuedMove(o, e, entries[e].name, "ask") EXCEPT !.status = "conflict"]]
        \/ UNCHANGED <<entries, moveJobs>>
    BY <1>4 DEF moveItem
  <2> HIDE DEF policy, landing
  <2> QED BY <1>1, <2>3, <2>4, <2>5, <2>6, <2>7 DEF Step, JobStep
<1> QED BY <1>2, <1>3, <1>4 DEF process

\* A parked item fails or is queued.
LEMMA ResolvedItem ==
    ASSUME TypeInv, NEW j \in MoveJobIds, moveJobs[j].status = "conflict",
           NEW p \in Policies, resolveParkedJob(j, p)
    PROVE  JobParked(j) \/ JobQueued(j)
<1> DEFINE job == moveJobs[j]
           e == job.entry
           o == job.op
<1>1. /\ job \in MoveRow /\ e \in EntryIds /\ o \in OperationIds
      /\ operations[o].status # "absent" /\ operations[o].kind = "move"
  BY DEF TypeInv, Rows, MoveRow, Owned
<1>2. CASE moveJobs' = [moveJobs EXCEPT ![j].status = "failed"] /\ UNCHANGED entries
  <2> DEFINE row == [job EXCEPT !.status = "failed"]
  <2>1. row.op = o
    BY <1>1 DEF MoveRow, MoveJob
  <2>2. moveJobs' = [moveJobs EXCEPT ![j] = row]
    BY <1>2
  <2> HIDE DEF row
  <2> QED BY <1>2, <2>1, <2>2 DEF JobParked
<1>3. CASE /\ movable(e, operations[o].source)
           /\ \E name \in resolveLandingName(job.folder, entries[e].name, p,
                              reservedNameKeys(job.folder, None, j), e) :
                 queueMoveJob(j, o, e, name, p)
  <2>1. PICK name \in resolveLandingName(job.folder, entries[e].name, p,
                              reservedNameKeys(job.folder, None, j), e) :
                 queueMoveJob(j, o, e, name, p)
    BY <1>3
  <2>2. entries[e].name \in Names
    BY <1>1, <1>3 DEF movable, TypeInv, Rows, Ready, EntryRow
  <2>3. name \in Names /\ name[1] = entries[e].name[1]
    BY <2>1, <2>2, LandingType, LandingVariant
  <2> QED BY <1>1, <1>3, <2>1, <2>3 DEF JobQueued
<1> QED BY <1>2, <1>3 DEF resolveParkedJob

\* So is one the chosen policy is applied to, which "skip" withdraws.
LEMMA AppliedPolicy ==
    ASSUME TypeInv, NEW o \in OperationIds, applyConflictPolicy(o)
    PROVE  Step
<1>1. operations[o] \in OperationRow /\ UNCHANGED intents
  BY DEF applyConflictPolicy, TypeInv, Rows
<1>2. CASE UNCHANGED <<entries, moveJobs>>
  BY <1>1, <1>2 DEF Step
<1>3. CASE /\ UNCHANGED entries
           /\ \E j \in parked(o) : moveJobs' = [moveJobs EXCEPT ![j] = NoMoveJob]
  <2>1. PICK j \in parked(o) : moveJobs' = [moveJobs EXCEPT ![j] = NoMoveJob]
    BY <1>3
  <2>2. JobParked(j)
    BY <1>3, <2>1 DEF JobParked, parked, NoMoveJob
  <2> QED BY <1>1, <2>1, <2>2 DEF Step, JobStep, parked
<1>4. CASE /\ operations[o].policy # "skip"
           /\ \E j \in parked(o) : resolveParkedJob(j, operations[o].policy)
  <2>1. operations[o].policy \in Policies
    BY <1>1, <1>4 DEF OperationRow, Operation
  <2> QED BY <1>1, <1>4, <2>1, ResolvedItem DEF Step, JobStep, parked
<1> QED BY <1>2, <1>3, <1>4 DEF applyConflictPolicy

\* What the worker and its clock do to jobs.
LEMMA WorkerStep ==
    ASSUME TypeInv, NEW w \in Workers,
           \/ ClaimMaintenance(w) \/ Work(w) \/ renewDelete(w) \/ renewEntryMove(w)
           \/ deleteTaskFails(w) \/ moveTaskFails(w) \/ workerCrash(w)
    PROVE  Step
<1> DEFINE quiet == UNCHANGED <<entries, intents, moveJobs>>
<1>1. CASE quiet
  BY <1>1 DEF Step
<1>2. CASE \/ renewDelete(w) \/ deleteTaskFails(w) \/ moveTaskFails(w) \/ workerCrash(w)
  BY <1>1, <1>2 DEF renewDelete, deleteTaskFails, moveTaskFails, workerCrash
<1>3. CASE renewEntryMove(w)
  <2> DEFINE j == workers[w].job
  <2>1. j \in MoveJobIds
    BY <1>3 DEF renewEntryMove, TypeInv, Rows, WorkerRow, Moving
  <2>2. \/ quiet
        \/ /\ moveJobs[j].status = "processing" /\ UNCHANGED <<entries, intents>>
           /\ moveJobs' = [moveJobs EXCEPT ![j].lapsed = FALSE]
    BY <1>3 DEF renewEntryMove
  <2> HIDE DEF j
  <2> QED BY <1>1, <2>1, <2>2, RetriedJob DEF Step, JobStep
<1>4. CASE ClaimMaintenance(w)
  <2>1. PICK j \in DeleteJobIds \cup MoveJobIds :
           \/ claimDelete(w, j) \/ claimDeleteExhausted(w, j)
           \/ j \in MoveJobIds /\ claimMove(w, j)
           \/ j \in MoveJobIds /\ claimMoveRefused(w, j)
    BY <1>4 DEF ClaimMaintenance
  <2>2. CASE claimDelete(w, j) \/ claimDeleteExhausted(w, j)
    BY <1>1, <2>2 DEF claimDelete, claimDeleteExhausted
  <2>3. CASE j \in MoveJobIds /\ claimMove(w, j)
    BY <2>3, ClaimedJob DEF claimMove, Step, JobStep
  <2>4. CASE j \in MoveJobIds /\ claimMoveRefused(w, j)
    <3>1. moveJobs[j].status # "absent"
      BY <2>4 DEF claimMoveRefused, nextMove, claimable
    <3> QED BY <2>4, <3>1, FailedJob DEF claimMoveRefused, Step, JobStep
  <2> QED BY <2>1, <2>2, <2>3, <2>4
<1>5. CASE \E answered \in BOOLEAN : completeDelete(w, answered)
  <2> DEFINE e == deleteJobs[workers[w].job].entry
  <2>1. /\ UNCHANGED <<intents, moveJobs>>
        /\ entries' = entries \/ entries' = [entries EXCEPT ![e] = Blank("purged")]
    BY <1>5 DEF completeDelete
  <2>2. CASE e \in EntryIds
    BY <2>1, <2>2 DEF Step, EntryStep
  <2>3. CASE e \notin EntryIds
    <3>1. [entries EXCEPT ![e] = Blank("purged")] = entries
      BY <2>3 DEF TypeInv, Rows
    <3> QED BY <1>1, <2>1, <3>1
  <2> QED BY <2>2, <2>3
<1>6. CASE completeEntryMoveError(w)
  <2> DEFINE j == workers[w].job
  <2>1. j \in MoveJobIds
    BY <1>6 DEF completeEntryMoveError, TypeInv, Rows, WorkerRow, Moving
  <2>2. \/ quiet
        \/ moveJobs[j].status # "absent" /\ failMove(j)
        \/ /\ moveJobs[j].status # "absent" /\ UNCHANGED entries
           /\ moveJobs' = [moveJobs EXCEPT ![j].status = "queued", ![j].lapsed = FALSE]
    BY <1>6 DEF completeEntryMoveError
  <2>3. UNCHANGED intents
    BY <1>6 DEF completeEntryMoveError
  <2> HIDE DEF j
  <2> QED BY <1>1, <2>1, <2>2, <2>3, RetriedJob, FailedJob DEF Step, JobStep
<1>7. CASE \E answered \in BOOLEAN : completeEntryMove(w, answered)
  BY <1>7, ReportedJob
<1>8. CASE unlinkOriginal(w) \/ completeDeleteError(w) \/ lookAtDestination(w)
           \/ copyAtomically(w) \/ statCopied(w) \/ completeEntryMoveThrows(w)
  BY <1>1, <1>8 DEF unlinkOriginal, completeDeleteError, lookAtDestination, copyAtomically,
                    statCopied, completeEntryMoveThrows
<1> QED BY <1>2, <1>3, <1>4, <1>5, <1>6, <1>7, <1>8 DEF Work

\* All a step can do to what the listings and requests are read from.
LEMMA NextStep ==
    ASSUME TypeInv, [Next]_vars
    PROVE  Step
<1>1. CASE UNCHANGED <<entries, intents, moveJobs>>
  BY <1>1 DEF Step
<1>2. CASE UNCHANGED vars
  BY <1>1, <1>2 DEF vars
<1>3. CASE Client
  <2>1. CASE StartUpload
    BY <2>1 DEF StartUpload, createUploadIntent, Step, IntentStep
  <2>2. CASE RemoveGallery \/ Dismiss \/ StartBulk
    <3>1. UNCHANGED <<entries, intents, moveJobs>>
      BY <2>2, ZenonT(60) DEF RemoveGallery, removeGallery, Dismiss, dismissFinished, StartBulk,
                  startDelete, startMove, insertOperation
    <3> QED BY <1>1, <3>1
  <2>3. CASE Rename
    BY <2>3 DEF Rename, rename, Step, EntryStep
  <2>4. CASE Remove
    BY <2>4 DEF Remove, remove, expire, queueEntryDeletion, Step, EntryStep
  <2>5. CASE Resolve
    <3>1. CASE \E o \in OperationIds, p \in {"replace", "rename", "skip"} : resolveConflicts(o, p)
      BY <1>1, <3>1 DEF resolveConflicts
    <3>2. CASE \E j \in MoveJobIds, p \in {"replace", "rename"} : resolveConflict(j, p)
      BY <3>2, ResolvedItem DEF resolveConflict, Step, JobStep, Policies
    <3> QED BY <2>5, <3>1, <3>2 DEF Resolve
  <2> QED BY <1>3, <2>1, <2>2, <2>3, <2>4, <2>5 DEF Client
<1>4. CASE StorageServer
  <2>1. PICK h \in Handlers :
           Claim(h) \/ Serve(h) \/ renewUpload(h) \/ abortUpload(h) \/ handlerCrash(h)
    BY <1>4 DEF StorageServer
  <2>2. CASE abortUpload(h) \/ handlerCrash(h) \/ installReplacing(h) \/ statInstalled(h)
             \/ completeUploadRejected(h)
    BY <1>1, <2>2 DEF abortUpload, handlerCrash, installReplacing, statInstalled,
                      completeUploadRejected
  <2>3. CASE renewUpload(h)
    <3>1. handlers[h].intent \in IntentIds
      BY <2>3, KeyOfType DEF renewUpload
    <3> QED BY <1>1, <2>3, <3>1 DEF renewUpload, Step, IntentStep
  <2>4. CASE Claim(h)
    BY <2>4 DEF Claim, claimUpload, Step, IntentStep
  <2>5. CASE failUpload(h)
    BY <2>5 DEF failUpload, Step, IntentStep
  <2>6. CASE \E answered \in BOOLEAN : completeUpload(h, answered)
    BY <2>6 DEF Step
  <2> QED BY <2>1, <2>2, <2>3, <2>4, <2>5, <2>6 DEF Serve
<1>5. CASE StorageWorker
  BY <1>5, WorkerStep DEF StorageWorker
<1>6. CASE Scheduler
  <2>1. CASE \E i \in IntentIds : uploadLeaseLapses(i)
    BY <2>1 DEF uploadLeaseLapses, Step, IntentStep
  <2>2. CASE \E j \in DeleteJobIds : deleteLeaseLapses(j)
    BY <1>1, <2>2 DEF deleteLeaseLapses
  <2>3. CASE \E j \in MoveJobIds : moveLeaseLapses(j)
    BY <2>3, RetriedJob DEF moveLeaseLapses, Step, JobStep
  <2>4. CASE Sweep
    BY <2>4 DEF Sweep, recoverStaleRequests, Step, IntentStep
  <2>5. CASE CleanUp
    BY <1>1, <2>5 DEF CleanUp, queueEntries, entriesOf, Step, EntryStep
  <2>6. CASE \E o \in OperationIds : ProcessBulk(o)
    BY <1>1, <2>6, ProcessedItem, AppliedPolicy DEF ProcessBulk, processSourceGone, processNothing
  <2> QED BY <1>6, <2>1, <2>2, <2>3, <2>4, <2>5, <2>6 DEF Scheduler, Lapse
<1> QED BY <1>2, <1>3, <1>4, <1>5, <1>6 DEF Next

(***************************************************************************)
(* An operation keeps moving from its source to its destination            *)
(***************************************************************************)

SameWay(row, op) == row.folder = op.folder /\ row.source = op.source

Bound == \A o \in OperationIds : operations[o].status # "absent" =>
    SameWay(operations'[o], operations[o])

\* Counting changes numbers.
LEMMA TallySameWay ==
    ASSUME NEW op \in OperationRow
    PROVE  /\ SameWay(counted(op), op)
           /\ SameWay(oneCompleted(op), op)
           /\ SameWay(oneFailed(op), op)
           /\ SameWay(oneParked(op), op)
           /\ SameWay(oneFewer(op), op)
<1>1. \A s : LET r == [op EXCEPT !.status = s] IN SameWay(r, op)
  BY DEF SameWay, OperationRow, Operation
<1>2. \A n, s : LET r == [op EXCEPT !.completed = n, !.status = s] IN SameWay(r, op)
  BY DEF SameWay, OperationRow, Operation
<1>3. \A n, s : LET r == [op EXCEPT !.failed = n, !.status = s] IN SameWay(r, op)
  BY DEF SameWay, OperationRow, Operation
<1>4. \A n, s : LET r == [op EXCEPT !.conflicts = n, !.status = s] IN SameWay(r, op)
  BY DEF SameWay, OperationRow, Operation
<1>5. \A n, s : LET r == [op EXCEPT !.total = n, !.status = s] IN SameWay(r, op)
  BY DEF SameWay, OperationRow, Operation
<1> QED BY <1>1, <1>2, <1>3, <1>4, <1>5 DEF counted, oneCompleted, oneFailed, oneParked, oneFewer

\* One row is written, and goes the same way.
LEMMA RowBound ==
    ASSUME Rows, NEW o \in OperationIds, NEW row, operations' = [operations EXCEPT ![o] = row],
           operations[o].status = "absent" \/ SameWay(row, operations[o])
    PROVE  Bound
BY DEF Rows, Bound, SameWay

\* A settled item is counted at most.
LEMMA SettleBound ==
    ASSUME Rows, NEW o \in OperationIds, NEW success \in BOOLEAN, settleBulkMoveItem(o, success)
    PROVE  Bound
<1>1. CASE operations' = operations
  BY <1>1 DEF Bound, SameWay
<1>2. CASE operations' # operations
  <2>1. operations[o] \in OperationRow
    BY DEF Rows
  <2>2. \/ operations' = [operations EXCEPT ![o] = oneCompleted(operations[o])]
        \/ operations' = [operations EXCEPT ![o] = oneFailed(operations[o])]
    BY <1>2 DEF settleBulkMoveItem
  <2> QED BY <2>1, <2>2, TallySameWay, RowBound
<1> QED BY <1>1, <1>2

\* Whatever process, a user or a policy does to an operation.
LEMMA BulkBound ==
    ASSUME TypeInv, NEW o \in OperationIds,
           \/ \E p : resolveConflicts(o, p)
           \/ dismissFinished(o)
           \/ processSourceGone(o)
           \/ processNothing(o)
           \/ \E e \in EntryIds : process(o, e)
    PROVE  Bound
<1> DEFINE op == operations[o]
<1>1. Rows /\ op \in OperationRow
  BY DEF TypeInv, Rows
<1>2. CASE \E p : resolveConflicts(o, p)
  <2>1. PICK p : operations' = [operations EXCEPT ![o].policy = p, ![o].apply = TRUE]
    BY <1>2 DEF resolveConflicts
  <2> DEFINE row == [op EXCEPT !.policy = p, !.apply = TRUE]
  <2>2. SameWay(row, op)
    BY <1>1 DEF SameWay, OperationRow, Operation
  <2>3. operations' = [operations EXCEPT ![o] = row]
    BY <1>1, <2>1 DEF Rows
  <2> HIDE DEF row
  <2> QED BY <1>1, <2>2, <2>3, RowBound
<1>3. CASE dismissFinished(o)
  <2> DEFINE row == [op EXCEPT !.dismissed = TRUE]
  <2>1. SameWay(row, op) /\ operations' = [operations EXCEPT ![o] = row]
    BY <1>1, <1>3 DEF SameWay, OperationRow, Operation, dismissFinished
  <2> HIDE DEF row
  <2> QED BY <1>1, <2>1, RowBound
<1>4. CASE processSourceGone(o)
  <2> DEFINE row == [op EXCEPT !.status = "failed", !.discovered = TRUE]
  <2>1. SameWay(row, op)
    BY <1>1 DEF SameWay, OperationRow, Operation
  <2>2. operations' = [operations EXCEPT ![o] = row]
    BY <1>1, <1>4 DEF processSourceGone, Rows
  <2> HIDE DEF row
  <2> QED BY <1>1, <2>1, <2>2, RowBound
<1>5. CASE processNothing(o)
  <2> DEFINE seen == [op EXCEPT !.discovered = TRUE]
  <2>1. seen \in OperationRow /\ SameWay(seen, op)
    BY <1>1 DEF SameWay, OperationRow, Operation
  <2>2. operations' = [operations EXCEPT ![o] = counted(seen)]
    BY <1>5 DEF processNothing
  <2> HIDE DEF seen
  <2>3. SameWay(counted(seen), op)
    BY <2>1, TallySameWay DEF SameWay
  <2> QED BY <1>1, <2>2, <2>3, RowBound
<1>6. CASE \E e \in EntryIds : process(o, e)
  <2>1. PICK e \in EntryIds : process(o, e)
    BY <1>6
  <2> DEFINE v == visited(o, e)
             last == candidates(o) = {e}
  <2>2. v \in OperationRow
    BY <1>1, <2>1, VisitedType DEF process
  <2>3. SameWay(v, op)
    <3> DEFINE row(n, todo, seen) == [op EXCEPT !.todo = todo, !.total = n, !.discovered = seen]
    <3>1. \A n, todo, seen : SameWay(row(n, todo, seen), op)
      BY <1>1 DEF SameWay, OperationRow, Operation
    <3>2. v = row(op.total + 1, op.todo \ {e}, last)
      BY DEF visited
    <3> HIDE DEF row, v
    <3> QED BY <3>1, <3>2
  <2>4. \/ operations' = [operations EXCEPT ![o] = oneFailed(v)]
        \/ operations' = [operations EXCEPT ![o] = oneCompleted(v)]
        \/ operations' = [operations EXCEPT ![o] = counted(v)]
        \/ operations' = [operations EXCEPT ![o] = oneParked(v)]
        \/ operations' = [operations EXCEPT ![o] = oneFewer(v)]
    BY <2>1 DEF process, refuseItem, deleteItem, keepItem, moveItem
  <2> HIDE DEF v
  <2>5. /\ SameWay(oneFailed(v), op) /\ SameWay(oneCompleted(v), op) /\ SameWay(counted(v), op)
        /\ SameWay(oneParked(v), op) /\ SameWay(oneFewer(v), op)
    BY <2>2, <2>3, TallySameWay DEF SameWay
  <2> QED BY <1>1, <2>4, <2>5, RowBound
<1> QED BY <1>2, <1>3, <1>4, <1>5, <1>6

\* Whatever becomes of a parked item.
LEMMA ParkedBound ==
    ASSUME TypeInv, NEW o \in OperationIds, operations[o].status # "absent",
           \/ applyConflictPolicy(o)
           \/ \E j \in MoveJobIds : \E p : moveJobs[j].op = o /\ resolveParkedJob(j, p)
    PROVE  Bound
<1> DEFINE op == operations[o]
           u == unparked(o)
<1>1. Rows /\ op \in OperationRow
  BY DEF TypeInv, Rows
<1>2. u \in OperationRow /\ SameWay(u, op)
  <2> DEFINE n == AtLeastZero(op.conflicts - 1)
  <2>1. n \in Nat
    BY <1>1 DEF AtLeastZero, OperationRow, Operation
  <2>2. u = [op EXCEPT !.conflicts = n]
    BY DEF unparked
  <2> HIDE DEF n, u
  <2> QED BY <1>1, <2>1, <2>2 DEF SameWay, OperationRow, Operation
<1>3. \/ operations' = [operations EXCEPT ![o].apply = FALSE]
      \/ \E s : operations' = [operations EXCEPT ![o].apply = FALSE, ![o].status = s]
      \/ operations' = [operations EXCEPT ![o] = oneFewer(u)]
      \/ operations' = [operations EXCEPT ![o] = oneFailed(u)]
      \/ operations' = [operations EXCEPT ![o] = counted(u)]
  <2>1. ASSUME NEW j, NEW p, moveJobs[j].op = o, resolveParkedJob(j, p)
        PROVE  \/ operations' = [operations EXCEPT ![o] = oneFailed(u)]
               \/ operations' = [operations EXCEPT ![o] = counted(u)]
    BY <2>1 DEF resolveParkedJob
  <2> HIDE DEF u
  <2>2. CASE applyConflictPolicy(o)
    <3>1. CASE \E j \in parked(o) : resolveParkedJob(j, op.policy)
      BY <2>1, <3>1 DEF parked
    <3>2. CASE ~\E j \in parked(o) : resolveParkedJob(j, op.policy)
      BY <2>2, <3>2 DEF applyConflictPolicy, u
    <3> QED BY <3>1, <3>2
  <2> QED BY <2>1, <2>2
<1> HIDE DEF u
<1>4. /\ SameWay(oneFewer(u), op) /\ SameWay(oneFailed(u), op) /\ SameWay(counted(u), op)
  BY <1>2, TallySameWay DEF SameWay
<1>5. CASE operations' = [operations EXCEPT ![o].apply = FALSE]
  <2> DEFINE row == [op EXCEPT !.apply = FALSE]
  <2>1. SameWay(row, op) /\ operations' = [operations EXCEPT ![o] = row]
    BY <1>1, <1>5 DEF SameWay, OperationRow, Operation
  <2> HIDE DEF row
  <2> QED BY <1>1, <2>1, RowBound
<1>6. ASSUME NEW s, operations' = [operations EXCEPT ![o].apply = FALSE, ![o].status = s]
      PROVE  Bound
  <2> DEFINE row == [op EXCEPT !.apply = FALSE, !.status = s]
  <2>1. SameWay(row, op)
    BY <1>1 DEF SameWay, OperationRow, Operation
  <2>2. operations' = [operations EXCEPT ![o] = row]
    BY <1>1, <1>6 DEF Rows
  <2> HIDE DEF row
  <2> QED BY <1>1, <2>1, <2>2, RowBound
<1> QED BY <1>1, <1>3, <1>4, <1>5, <1>6, RowBound

\* No step turns an operation round.
LEMMA NextBound ==
    ASSUME TypeInv, [Next]_vars
    PROVE  Bound
<1>0. Rows
  BY DEF TypeInv
<1>1. CASE UNCHANGED operations
  BY <1>1 DEF Bound, SameWay
<1>2. CASE UNCHANGED vars
  BY <1>1, <1>2 DEF vars
<1>3. CASE Client
  <2>1. CASE StartUpload \/ Rename \/ Remove \/ RemoveGallery
    <3>1. UNCHANGED operations
      BY <2>1 DEF StartUpload, createUploadIntent, Rename, rename, Remove, remove, expire,
                  RemoveGallery, removeGallery
    <3> QED BY <1>1, <3>1
  <2>2. CASE StartBulk
    <3>1. \E o \in OperationIds : \E row : operations[o].status = "absent"
                                       /\ operations' = [operations EXCEPT ![o] = row]
      BY <2>2, ZenonT(60) DEF StartBulk, startDelete, startMove, insertOperation
    <3> QED BY <1>0, <3>1, RowBound
  <2>3. CASE \E j \in MoveJobIds : \E p : resolveConflict(j, p)
    <3>1. PICK j \in MoveJobIds : \E p : moveJobs[j].status = "conflict" /\ resolveParkedJob(j, p)
      BY <2>3 DEF resolveConflict
    <3>2. moveJobs[j].op \in OperationIds /\ operations[moveJobs[j].op].status # "absent"
      BY <3>1 DEF TypeInv, Rows, MoveRow, Owned
    <3> QED BY <3>1, <3>2, ParkedBound
  <2>4. CASE \E o \in OperationIds : \E p : resolveConflicts(o, p)
    BY <2>4, BulkBound
  <2>5. CASE Dismiss
    BY <2>5, BulkBound DEF Dismiss
  <2> QED BY <1>3, <2>1, <2>2, <2>3, <2>4, <2>5 DEF Client, Resolve
<1>4. CASE StorageServer
  <2>1. UNCHANGED operations
    BY <1>4 DEF StorageServer, Claim, claimUpload, Serve, installReplacing, statInstalled,
        completeUpload, completeUploadRejected, failUpload, renewUpload, abortUpload,
        handlerCrash
  <2> QED BY <1>1, <2>1
<1>5. CASE StorageWorker
  <2>1. ASSUME NEW j \in MoveJobIds, moveJobs[j].status # "absent", NEW success \in BOOLEAN,
               settleBulkMoveItem(moveJobs[j].op, success)
        PROVE  Bound
    BY <1>0, <2>1, SettleBound DEF Rows, MoveRow
  <2>2. PICK w \in Workers :
           \/ ClaimMaintenance(w) \/ Work(w) \/ renewDelete(w) \/ renewEntryMove(w)
           \/ deleteTaskFails(w) \/ moveTaskFails(w) \/ workerCrash(w)
    BY <1>5 DEF StorageWorker
  <2>3. CASE \E j \in MoveJobIds : claimMoveRefused(w, j)
    BY <2>1, <2>3 DEF claimMoveRefused, nextMove, claimable, failMove
  <2>4. CASE \/ completeEntryMoveError(w)
             \/ \E answered \in BOOLEAN : completeEntryMove(w, answered)
    <3>1. workers[w].job \in MoveJobIds
      BY <2>4 DEF completeEntryMoveError, completeEntryMove, TypeInv, Rows, WorkerRow, Moving
    <3> QED BY <1>1, <2>1, <2>4, <3>1
            DEF completeEntryMoveError, completeEntryMove, failMove, failCompletion, landMove
  <2>5. CASE \/ unlinkOriginal(w) \/ completeDeleteError(w)
             \/ \E answered \in BOOLEAN : completeDelete(w, answered)
             \/ lookAtDestination(w) \/ copyAtomically(w) \/ statCopied(w)
             \/ completeEntryMoveThrows(w) \/ renewDelete(w) \/ renewEntryMove(w)
             \/ deleteTaskFails(w) \/ moveTaskFails(w) \/ workerCrash(w)
    <3>1. UNCHANGED operations
      BY <2>5 DEF unlinkOriginal, completeDeleteError, completeDelete, lookAtDestination,
          copyAtomically, statCopied, completeEntryMoveThrows, renewDelete, renewEntryMove,
          deleteTaskFails, moveTaskFails, workerCrash
    <3> QED BY <1>1, <3>1
  <2>6. CASE \/ \E j \in DeleteJobIds : claimDelete(w, j) \/ claimDeleteExhausted(w, j)
             \/ \E j \in MoveJobIds : claimMove(w, j)
    <3>1. UNCHANGED operations
      BY <2>6 DEF claimDelete, claimDeleteExhausted, claimMove
    <3> QED BY <1>1, <3>1
  <2> QED BY <2>2, <2>3, <2>4, <2>5, <2>6 DEF ClaimMaintenance, Work
<1>6. CASE Scheduler
  <2>1. CASE Lapse \/ Sweep \/ CleanUp
    <3>1. UNCHANGED operations
      BY <2>1 DEF Lapse, uploadLeaseLapses, deleteLeaseLapses, moveLeaseLapses, Sweep,
                  recoverStaleRequests, CleanUp, queueEntries
    <3> QED BY <1>1, <3>1
  <2>2. CASE \E o \in OperationIds : applyConflictPolicy(o)
    <3>1. PICK o \in OperationIds : applyConflictPolicy(o)
      BY <2>2
    <3>2. operations[o].status # "absent"
      BY <1>0, <3>1 DEF applyConflictPolicy, Rows, OperationRow
    <3> QED BY <3>1, <3>2, ParkedBound
  <2>3. CASE \E o \in OperationIds : \/ processSourceGone(o) \/ processNothing(o)
                                     \/ \E e \in EntryIds : process(o, e)
    BY <2>3, BulkBound
  <2> QED BY <1>6, <2>1, <2>2, <2>3 DEF Scheduler, ProcessBulk
<1> QED BY <1>2, <1>3, <1>4, <1>5, <1>6 DEF Next

(***************************************************************************)
(* The mapping's invariants                                                *)
(***************************************************************************)

\* What a step makes of the job that is written.
LEMMA WrittenJob ==
    ASSUME TypeInv, NEW j \in MoveJobIds,
           JobWorkedOn(j) \/ JobParked(j) \/ JobQueued(j) \/ JobLanded(j)
    PROVE  \A k \in MoveJobIds \ {j} : moveJobs'[k] = moveJobs[k]
BY DEF JobWorkedOn, JobParked, JobQueued, JobLanded, queueMoveJob, landMove, TypeInv, Rows

\* A queued move is about its item, and goes where its operation goes.
LEMMA QueuedMoveIs ==
    ASSUME NEW o, NEW e, NEW name, NEW policy
    PROVE  LET job == QueuedMove(o, e, name, policy)
           IN  /\ job.status = "queued" /\ job.op = o /\ job.entry = e
               /\ job.folder = operations[o].folder
               /\ job.policy = policy
               /\ job.target = IF name = entries[e].name THEN None ELSE name
BY DEF QueuedMove, NoMoveJob

\* A job keeps its operation, or gets one that moves its item away.
LEMMA AwayStep ==
    ASSUME TypeInv, Away, Bound, Step
    PROVE  Away'
<1> SUFFICES ASSUME NEW k \in MoveJobIds, moveJobs'[k].status # "absent"
             PROVE  operations'[moveJobs'[k].op].folder # operations'[moveJobs'[k].op].source
  BY DEF Away
<1>1. ASSUME moveJobs[k].status # "absent", moveJobs'[k].op = moveJobs[k].op
      PROVE  operations'[moveJobs'[k].op].folder # operations'[moveJobs'[k].op].source
  <2>1. /\ moveJobs[k].op \in OperationIds
        /\ operations[moveJobs[k].op].status # "absent"
        /\ operations[moveJobs[k].op].folder # operations[moveJobs[k].op].source
    BY <1>1 DEF TypeInv, Rows, MoveRow, Owned, Away
  <2> QED BY <1>1, <2>1 DEF Bound, SameWay
<1>2. ASSUME moveJobs'[k].op \in OperationIds,
             operations[moveJobs'[k].op].status # "absent",
             operations[moveJobs'[k].op].folder # operations[moveJobs'[k].op].source
      PROVE  operations'[moveJobs'[k].op].folder # operations'[moveJobs'[k].op].source
  BY <1>2 DEF Bound, SameWay
<1>3. CASE UNCHANGED moveJobs
  BY <1>1, <1>3
<1>4. CASE JobStep
  <2>1. PICK j \in MoveJobIds : JobWorkedOn(j) \/ JobParked(j) \/ JobQueued(j) \/ JobLanded(j)
    BY <1>4 DEF JobStep
  <2>2. CASE k # j
    BY <1>1, <2>1, <2>2, WrittenJob
  <2>3. CASE k = j /\ JobWorkedOn(j)
    BY <1>1, <2>3 DEF JobWorkedOn, TypeInv, Rows
  <2>4. CASE k = j /\ JobParked(j)
    <3>1. PICK row : /\ moveJobs'[k] = row
                     /\ row.status # "absent" =>
                           \/ moveJobs[j].status # "absent" /\ row.op = moveJobs[j].op
                           \/ /\ row.op \in OperationIds
                              /\ operations[row.op].status # "absent"
                              /\ operations[row.op].folder # operations[row.op].source
      BY <2>4 DEF JobParked, TypeInv, Rows
    <3> QED BY <1>1, <1>2, <2>4, <3>1
  <2>5. CASE k = j /\ JobQueued(j)
    <3>1. PICK o \in OperationIds, e \in EntryIds, name \in Names, policy \in Policies :
             /\ operations[o].status # "absent"
             /\ \/ moveJobs[j].status = "conflict" /\ o = moveJobs[j].op
                \/ moveJobs[j].status = "absent" /\ operations[o].folder # operations[o].source
             /\ queueMoveJob(j, o, e, name, policy)
      BY <2>5 DEF JobQueued
    <3>2. moveJobs'[k].op = o
      BY <2>5, <3>1, QueuedMoveIs DEF queueMoveJob, TypeInv, Rows
    <3> QED BY <1>1, <1>2, <2>5, <3>1, <3>2
  <2>6. CASE k = j /\ JobLanded(j)
    <3>1. moveJobs' = [moveJobs EXCEPT ![j] = NoMoveJob]
      BY <2>6 DEF JobLanded, landMove
    <3>2. moveJobs'[k] = NoMoveJob
      BY <2>6, <3>1 DEF TypeInv, Rows
    <3> QED BY <3>2 DEF NoMoveJob
  <2> QED BY <2>1, <2>2, <2>3, <2>4, <2>5, <2>6
<1> QED BY <1>3, <1>4 DEF Step, EntryStep, IntentStep, completeUpload

\* A request that holds a name held it before, or is claiming it.
LEMMA ResolvedStep ==
    ASSUME TypeInv, Resolved, Step
    PROVE  Resolved'
<1> SUFFICES ASSUME NEW k \in IntentIds, intents'[k].state = "uploading"
             PROVE  IF intents'[k].policy = "rename"
                    THEN intents'[k].resolved[1] = intents'[k].name[1]
                    ELSE intents'[k].resolved = intents'[k].name
  BY DEF Resolved
<1>1. ASSUME intents[k].state = "uploading", intents'[k].policy = intents[k].policy,
             intents'[k].name = intents[k].name, intents'[k].resolved = intents[k].resolved
      PROVE  IF intents'[k].policy = "rename"
             THEN intents'[k].resolved[1] = intents'[k].name[1]
             ELSE intents'[k].resolved = intents'[k].name
  BY <1>1 DEF Resolved
<1>2. intents \in [IntentIds -> IntentRow] /\ intents[k] \in IntentRow
  BY DEF TypeInv, Rows
<1>3. CASE UNCHANGED intents
  BY <1>1, <1>3
<1>4. CASE \E i \in IntentIds, f \in Folders, s \in Stems, p \in Policies, c \in Contents :
              createUploadIntent(i, f, <<s, 1>>, p, c)
  <2>1. PICK i \in IntentIds, f \in Folders, s \in Stems, p \in Policies, c \in Contents :
           createUploadIntent(i, f, <<s, 1>>, p, c)
    BY <1>4
  <2>2. intents'[i].state = "pending"
    BY <1>2, <2>1 DEF createUploadIntent, NoIntent
  <2>3. intents'[k] = intents[k]
    BY <1>2, <2>1, <2>2 DEF createUploadIntent
  <2> QED BY <1>1, <2>3
<1>5. CASE \E h \in Handlers, i \in IntentIds : claimUpload(h, i)
  <2>1. PICK h \in Handlers, i \in IntentIds : claimUpload(h, i)
    BY <1>5
  <2>2. PICK name \in resolveLandingName(intents[i].folder, intents[i].name, intents[i].policy,
                                         reservedNameKeys(intents[i].folder, i, None), None) :
           intents' = [intents EXCEPT ![i].state = "uploading", ![i].resolved = name,
                                      ![i].lapsed = FALSE]
    BY <2>1 DEF claimUpload
  <2>3. CASE k # i
    BY <1>1, <1>2, <2>2, <2>3
  <2>4. CASE k = i
    <3>1. intents[i].policy \in Policies
      BY <1>2, <2>4 DEF IntentRow, Intent
    <3>2. IF intents[i].policy = "rename" THEN name[1] = intents[i].name[1]
                                          ELSE name = intents[i].name
      BY <2>2, <3>1, LandingVariant
    <3>3. /\ intents'[k].policy = intents[i].policy /\ intents'[k].name = intents[i].name
          /\ intents'[k].resolved = name
      BY <1>2, <2>2, <2>4 DEF IntentRow, Intent
    <3> QED BY <3>2, <3>3
  <2> QED BY <2>3, <2>4
<1>6. CASE \E i \in IntentIds, b \in BOOLEAN : intents' = [intents EXCEPT ![i].lapsed = b]
  <2>1. /\ intents[k].state = "uploading" /\ intents'[k].policy = intents[k].policy
        /\ intents'[k].name = intents[k].name /\ intents'[k].resolved = intents[k].resolved
    BY <1>2, <1>6 DEF IntentRow, Intent
  <2> QED BY <1>1, <2>1
<1>7. CASE \E h \in Handlers : failUpload(h)
  <2>1. PICK h \in Handlers : failUpload(h)
    BY <1>7
  <2>2. k # handlers[h].intent
    BY <1>2, <2>1 DEF failUpload, IntentRow, Intent
  <2> QED BY <1>1, <1>2, <2>1, <2>2 DEF failUpload
<1>8. CASE \E expired \in SUBSET IntentIds : recoverStaleRequests(expired)
  <2>1. \A s \in {"failed"} : LET r == [intents[k] EXCEPT !.state = s, !.lapsed = FALSE]
                              IN  r.state = s
    BY <1>2 DEF IntentRow, Intent
  <2>2. intents'[k] = intents[k]
    BY <1>8, <2>1 DEF recoverStaleRequests
  <2> QED BY <1>1, <2>2
<1>9. CASE \E h \in Handlers, answered \in BOOLEAN : completeUpload(h, answered)
  <2>1. PICK h \in Handlers, answered \in BOOLEAN : completeUpload(h, answered)
    BY <1>9
  <2>2. CASE intents' = [intents EXCEPT ![handlers[h].intent].state = "complete",
                                        ![handlers[h].intent].lapsed = FALSE]
    <3>1. k # handlers[h].intent
      BY <1>2, <2>2 DEF IntentRow, Intent
    <3> QED BY <1>1, <1>2, <2>2, <3>1
  <2> QED BY <1>3, <2>1, <2>2 DEF completeUpload
<1> QED BY <1>3, <1>4, <1>5, <1>6, <1>7, <1>8, <1>9 DEF Step, EntryStep, IntentStep

\* An upload lands on a new row, or on the file of its name.
LEMMA UploadLands ==
    ASSUME TypeInv, ImagesOnShared, NEW h \in Handlers, NEW answered \in BOOLEAN,
           completeUpload(h, answered), landedFrom(handlers[h].intent) = {}
    PROVE  LET i == handlers[h].intent
               named == readyEntriesNamed(intents[i].folder, intents[i].resolved, None)
           IN  /\ i \in IntentIds /\ intents[i].state = "uploading"
               /\ intents' = [intents EXCEPT ![i].state = "complete", ![i].lapsed = FALSE]
               /\ intents[i].folder \in Folders /\ intents[i].resolved \in Names
               /\ intents[i].content \in Contents
               /\ named = {} \/ intents[i].policy = "replace"
               /\ \E e \in EntryIds :
                     \/ /\ entries[e].state = "absent" /\ named = {}
                        /\ entries' = [entries EXCEPT ![e] = landedEntry(i, keyOf(h), None)]
                     \/ /\ e \in named
                        /\ entries' = [entries EXCEPT ![e] =
                                          landedEntry(i, keyOf(h), entries[e].moveJob)]
<1> DEFINE i == handlers[h].intent
           named == readyEntriesNamed(intents[i].folder, intents[i].resolved, None)
           key == keyOf(h)
<1>1. i \in IntentIds
  BY KeyOfType DEF completeUpload
<1>2. /\ uploadAccepted(i, key)
      /\ intents' = [intents EXCEPT ![i].state = "complete", ![i].lapsed = FALSE]
      /\ IF existingFor(i, key) = {} THEN insertUploaded(i, key)
         ELSE \E e \in existingFor(i, key) : replaceUploaded(i, key, e)
  BY DEF completeUpload
<1>3. intents[i].state = "uploading" /\ intents[i] \in IntentRow
  BY <1>1, <1>2 DEF uploadAccepted, TypeInv, Rows
<1>4. intents[i].folder \in Folders /\ intents[i].resolved \in Names
      /\ intents[i].content \in Contents
  BY <1>3 DEF IntentRow
<1>5. Kind[GalleryOf[intents[i].folder]] = "image" /\ Storage[GalleryOf[intents[i].folder]] = "shared"
  BY <1>4, CatalogAssumption DEF ImagesOnShared
<1>6. IF occupantOf(i) = None THEN named = {} ELSE occupantOf(i) \in named
  BY <1>5, FindReady DEF occupantOf
<1>7. existingFor(i, key) = IF occupantOf(i) = None THEN {} ELSE {occupantOf(i)}
  BY <1>5 DEF existingFor
<1>8. named \subseteq EntryIds
  BY DEF readyEntriesNamed
<1>9. CASE occupantOf(i) = None
  <2>1. \E e \in EntryIds : /\ entries[e].state = "absent"
                            /\ entries' = [entries EXCEPT ![e] = landedEntry(i, key, None)]
    BY <1>2, <1>7, <1>9 DEF insertUploaded
  <2> HIDE DEF i, key, named
  <2> QED BY <1>1, <1>2, <1>3, <1>4, <1>6, <1>9, <2>1 DEF i, key, named
<1>10. CASE occupantOf(i) # None
  <2> DEFINE o == occupantOf(i)
  <2>1. entries' = [entries EXCEPT ![o] = landedEntry(i, key, entries[o].moveJob)]
    BY <1>2, <1>7, <1>10 DEF replaceUploaded
  <2>2. intents[i].policy = "replace"
    BY <1>2, <1>10 DEF uploadAccepted
  <2>3. o \in named /\ o \in EntryIds
    BY <1>6, <1>8, <1>10
  <2> HIDE DEF i, key, named, o
  <2> QED BY <1>1, <1>2, <1>3, <1>4, <2>1, <2>2, <2>3 DEF i, key, named
<1> QED BY <1>9, <1>10

\* What a marked entry keeps.
MarkKept(e) == entries'[e].state = "ready" /\ entries'[e].moveJob # None =>
    /\ Ready(e)
    /\ entries'[e].moveJob = entries[e].moveJob
    /\ entries'[e].folder = entries[e].folder
    /\ entries'[e].name[1] = entries[e].name[1]

\* What its job keeps.
JobKept(j) ==
    /\ moveJobs'[j].status \in Marking
    /\ moveJobs'[j].entry = moveJobs[j].entry
    /\ moveJobs'[j].folder = moveJobs[j].folder
    /\ \/ moveJobs'[j].target = moveJobs[j].target
       \/ moveJobs'[j].target[1] = entries[moveJobs[j].entry].name[1]

\* Nothing but a job's own steps mark an entry.
LEMMA MarksKept ==
    ASSUME TypeInv, ImagesOnShared,
           \/ UNCHANGED entries \/ EntryStep
           \/ \E h \in Handlers, answered \in BOOLEAN : completeUpload(h, answered)
    PROVE  \A e \in EntryIds : MarkKept(e)
<1>0. entries \in [EntryIds -> EntryRow]
  BY DEF TypeInv, Rows
<1>1. CASE UNCHANGED entries
  BY <1>1 DEF MarkKept, Ready
<1>2. CASE EntryStep
  <2>1. CASE \/ \E e \in EntryIds : entries' = [entries EXCEPT ![e].state = "deleted"]
             \/ \E e \in EntryIds : entries' = [entries EXCEPT ![e] = Blank("purged")]
    BY <1>0, <2>1 DEF MarkKept, Ready, Blank, EntryRow, Entry
  <2>2. CASE \E e \in EntryIds, n \in Names : rename(e, n)
    <3>1. PICK e \in EntryIds, n \in Names : rename(e, n)
      BY <2>2
    <3>2. entries[e].moveJob = None /\ entries' = [entries EXCEPT ![e].name = n]
      BY <3>1 DEF rename
    <3>3. entries'[e].moveJob = None
      BY <1>0, <3>2 DEF EntryRow, Entry
    <3>4. \A d \in EntryIds \ {e} : entries'[d] = entries[d]
      BY <1>0, <3>2
    <3> QED BY <3>3, <3>4 DEF MarkKept, Ready
  <2> QED BY <1>2, <2>1, <2>2 DEF EntryStep
<1>3. CASE \E h \in Handlers, answered \in BOOLEAN : completeUpload(h, answered)
  <2>1. CASE entries' = entries
    BY <1>1, <2>1
  <2>2. CASE entries' # entries
    <3>1. PICK h \in Handlers, answered \in BOOLEAN : completeUpload(h, answered)
      BY <1>3
    <3> DEFINE i == handlers[h].intent
               named == readyEntriesNamed(intents[i].folder, intents[i].resolved, None)
    <3>0. PICK e \in EntryIds :
             \E m : /\ entries' = [entries EXCEPT ![e] = landedEntry(i, keyOf(h), m)]
                    /\ m = None \/ (e \in named /\ m = entries[e].moveJob)
      <4>1. landedFrom(i) = {}
        BY <2>2, <3>1 DEF completeUpload
      <4> QED BY <3>1, <4>1, UploadLands
    <3>2. PICK m : /\ entries' = [entries EXCEPT ![e] = landedEntry(i, keyOf(h), m)]
                   /\ m = None \/ (e \in named /\ m = entries[e].moveJob)
      BY <3>0
    <3>3. /\ entries'[e].moveJob = m /\ entries'[e].folder = intents[i].folder
          /\ entries'[e].name = intents[i].resolved
      BY <1>0, <3>2 DEF landedEntry
    <3>4. e \in named => /\ Ready(e) /\ entries[e].folder = intents[i].folder
                         /\ entries[e].name = intents[i].resolved
      BY DEF readyEntriesNamed
    <3>5. \A d \in EntryIds \ {e} : entries'[d] = entries[d]
      BY <1>0, <3>2
    <3> HIDE DEF i, named
    <3> QED BY <3>2, <3>3, <3>4, <3>5 DEF MarkKept, Ready
  <2> QED BY <2>1, <2>2
<1> QED BY <1>1, <1>2, <1>3

\* An entry that keeps its mark, by a job that keeps what it is about, is
\* marked as before.
LEMMA StaysMarked ==
    ASSUME Marked, NEW e \in EntryIds, MarkKept(e),
           entries'[e].state = "ready", entries'[e].moveJob # None,
           moveJobs'[entries[e].moveJob] = moveJobs[entries[e].moveJob]
           \/ JobKept(entries[e].moveJob)
    PROVE  LET job == moveJobs'[entries'[e].moveJob]
           IN  /\ job.status \in Marking
               /\ job.entry = e
               /\ job.folder # entries'[e].folder
               /\ job.target # None => job.target[1] = entries'[e].name[1]
<1> DEFINE j == entries[e].moveJob
<1>1. /\ Ready(e) /\ j # None /\ entries'[e].moveJob = j /\ entries'[e].folder = entries[e].folder
      /\ entries'[e].name[1] = entries[e].name[1]
  BY DEF MarkKept
<1>2. /\ moveJobs[j].status \in Marking /\ moveJobs[j].entry = e
      /\ moveJobs[j].folder # entries[e].folder
      /\ moveJobs[j].target # None => moveJobs[j].target[1] = entries[e].name[1]
  BY <1>1 DEF Marked
<1> HIDE DEF j
<1>3. moveJobs'[j] = moveJobs[j] \/ JobKept(j)
  BY DEF j
<1> QED BY <1>1, <1>2, <1>3 DEF JobKept

\* What landing does to the entries: the one that moves is in its folder, and
\* the one it replaces is deleted.
LEMMA MovedEntries ==
    ASSUME TypeInv, NEW j \in MoveJobIds, JobLanded(j)
    PROVE  LET job == moveJobs[j]
               e == job.entry
               named == readyEntriesNamed(job.folder, landingName(job), e)
           IN  /\ e \in EntryIds /\ Ready(e) /\ entries[e].moveJob = j
               /\ job \in MoveRow /\ job.status # "absent"
               /\ moveJobs' = [moveJobs EXCEPT ![j] = NoMoveJob]
               /\ entries'[e].state = "ready" /\ entries'[e].folder = job.folder
               /\ entries'[e].name = landingName(job) /\ entries'[e].moveJob = None
               /\ entries'[e].content = entries[e].content
               /\ \E o \in EntryIds \cup {None} :
                     /\ IF o = None THEN named = {}
                        ELSE o \in named /\ job.policy = "replace" /\ entries'[o].state = "deleted"
                     /\ \A d \in EntryIds \ {e, o} : entries'[d] = entries[d]
<1> DEFINE job == moveJobs[j]
           e == job.entry
           o == occupantAt(j)
           named == readyEntriesNamed(job.folder, landingName(job), e)
<1>1. /\ job.status # "absent" /\ sourceUnchanged(j) /\ ~takenMeanwhile(j)
      /\ \E key \in Keys : landMove(j, key)
  BY DEF JobLanded
<1>2. job \in MoveRow /\ e \in EntryIds /\ Ready(e) /\ entries[e].moveJob = j
      /\ entries[e] \in EntryRow /\ entries \in [EntryIds -> EntryRow]
  BY <1>1 DEF TypeInv, Rows, MoveRow, sourceUnchanged
<1>3. PICK key \in Keys : landMove(j, key)
  BY <1>1
<1> DEFINE landed == [entries EXCEPT ![e].folder = job.folder, ![e].name = landingName(job),
                                     ![e].key = key, ![e].moveJob = None]
<1>4. /\ landed[e].state = "ready" /\ landed[e].folder = job.folder
      /\ landed[e].name = landingName(job) /\ landed[e].moveJob = None
      /\ landed[e].content = entries[e].content
      /\ \A d \in EntryIds \ {e} : landed[d] = entries[d]
      /\ DOMAIN landed = EntryIds
  BY <1>2 DEF EntryRow, Entry, Ready
<1>5. /\ entries' = IF o = None THEN landed ELSE [landed EXCEPT ![o].state = "deleted"]
      /\ moveJobs' = [moveJobs EXCEPT ![j] = NoMoveJob]
  BY <1>3 DEF landMove
<1>6. IF o = None THEN named = {} ELSE o \in named
  BY FindReady DEF occupantAt
<1>7. o # None => job.policy = "replace"
  BY <1>1 DEF takenMeanwhile
<1>8. o # None => /\ o \in EntryIds \ {e} /\ entries[o] \in EntryRow
  BY <1>2, <1>6 DEF readyEntriesNamed
<1> HIDE DEF landed, named, o, e, job
<1>9. CASE o = None
  BY <1>1, <1>2, <1>4, <1>5, <1>6, <1>9 DEF named, e, job
<1>10. CASE o # None
  <2>1. entries' = [landed EXCEPT ![o].state = "deleted"] /\ o \in EntryIds \ {e}
    BY <1>5, <1>8, <1>10
  <2>2. entries'[e] = landed[e] /\ \A d \in EntryIds \ {e, o} : entries'[d] = entries[d]
    BY <1>2, <1>4, <2>1
  <2>3. entries'[o].state = "deleted"
    BY <1>4, <1>8, <1>10, <2>1 DEF EntryRow, Entry
  <2> QED BY <1>1, <1>2, <1>4, <1>5, <1>6, <1>7, <1>10, <2>1, <2>2, <2>3 DEF named, e, job
<1> QED BY <1>9, <1>10

\* A mark stays with its job until the job fails or lands.
LEMMA MarkedStep ==
    ASSUME TypeInv, ImagesOnShared, Away, Marked, Step
    PROVE  Marked'
<1> DEFINE Right(e) == LET job == moveJobs'[entries'[e].moveJob]
                       IN  /\ job.status \in Marking
                           /\ job.entry = e
                           /\ job.folder # entries'[e].folder
                           /\ job.target # None => job.target[1] = entries'[e].name[1]
<1> SUFFICES ASSUME NEW e \in EntryIds, entries'[e].state = "ready", entries'[e].moveJob # None
             PROVE  Right(e)
  BY DEF Marked, Ready
<1>1. ASSUME MarkKept(e), moveJobs'[entries[e].moveJob] = moveJobs[entries[e].moveJob]
                          \/ JobKept(entries[e].moveJob)
      PROVE  Right(e)
  BY <1>1, StaysMarked
<1> HIDE DEF Right
<1>2. CASE UNCHANGED moveJobs /\ (\/ UNCHANGED entries \/ EntryStep
             \/ \E h \in Handlers, answered \in BOOLEAN : completeUpload(h, answered))
  BY <1>1, <1>2, MarksKept
<1>3. /\ moveJobs \in [MoveJobIds -> MoveRow] /\ entries \in [EntryIds -> EntryRow]
      /\ entries[e].moveJob \in MoveJobIds \cup {None}
  BY DEF TypeInv, Rows, EntryRow, Entry
<1>4. ASSUME Ready(e), entries[e].moveJob # None
      PROVE  /\ moveJobs[entries[e].moveJob].status \in Marking
             /\ moveJobs[entries[e].moveJob].entry = e
             /\ entries[e].moveJob \in MoveJobIds
  BY <1>3, <1>4 DEF Marked
<1>5. ASSUME NEW j \in MoveJobIds, JobWorkedOn(j)
      PROVE  Right(e)
  <2>1. JobKept(j)
    BY <1>3, <1>5 DEF JobWorkedOn, JobKept
  <2>2. MarkKept(e)
    BY <1>3, <1>5 DEF JobWorkedOn, MarkKept, Ready, EntryRow, Entry
  <2>3. Ready(e) /\ entries[e].moveJob # None
    BY <2>2 DEF MarkKept
  <2> QED BY <1>1, <1>4, <1>5, <2>1, <2>2, <2>3, WrittenJob
<1>6. ASSUME NEW j \in MoveJobIds, JobParked(j)
      PROVE  Right(e)
  <2>1. Ready(e) /\ MarkKept(e) /\ entries[e].moveJob # None
    BY <1>6 DEF JobParked, MarkKept, Ready
  <2>2. entries[e].moveJob # j
    BY <1>4, <1>6, <2>1 DEF JobParked, Marking
  <2> QED BY <1>1, <1>4, <1>6, <2>1, <2>2, WrittenJob
<1>7. ASSUME NEW j \in MoveJobIds, JobQueued(j)
      PROVE  Right(e)
  <2>1. PICK o \in OperationIds, x \in EntryIds, name \in Names, policy \in Policies :
           /\ \/ moveJobs[j].status = "conflict" /\ o = moveJobs[j].op
              \/ moveJobs[j].status = "absent" /\ operations[o].folder # operations[o].source
           /\ movable(x, operations[o].source)
           /\ name[1] = entries[x].name[1]
           /\ queueMoveJob(j, o, x, name, policy)
    BY <1>7 DEF JobQueued
  <2>2. operations[o].folder # operations[o].source
    BY <2>1 DEF Away
  <2>3. entries' = [entries EXCEPT ![x].moveJob = j]
        /\ moveJobs'[j] = QueuedMove(o, x, name, policy)
    BY <1>3, <2>1 DEF queueMoveJob
  <2>4. CASE e = x
    <3>1. /\ entries'[e].moveJob = j /\ entries'[e].folder = operations[o].source
          /\ entries'[e].name = entries[e].name
      BY <1>3, <2>1, <2>3, <2>4 DEF movable, EntryRow, Entry
    <3>2. /\ moveJobs'[j].status = "queued" /\ moveJobs'[j].entry = e
          /\ moveJobs'[j].folder = operations[o].folder
          /\ moveJobs'[j].target = IF name = entries[e].name THEN None ELSE name
      BY <2>3, <2>4, QueuedMoveIs
    <3> QED BY <2>1, <2>2, <2>4, <3>1, <3>2 DEF Right, Marking
  <2>5. CASE e # x
    <3>1. entries'[e] = entries[e]
      BY <1>3, <2>3, <2>5
    <3>2. Ready(e) /\ MarkKept(e) /\ entries[e].moveJob # None
      BY <3>1 DEF MarkKept, Ready
    <3>3. entries[e].moveJob # j
      BY <1>4, <2>1, <3>2 DEF Marking
    <3> QED BY <1>1, <1>4, <1>7, <3>2, <3>3, WrittenJob
  <2> QED BY <2>4, <2>5
<1>8. ASSUME NEW j \in MoveJobIds, JobLanded(j)
      PROVE  Right(e)
  <2>1. /\ entries[moveJobs[j].entry].moveJob = j /\ entries'[moveJobs[j].entry].moveJob = None
        /\ \E o : (o # None => entries'[o].state = "deleted")
                  /\ \A d \in EntryIds \ {moveJobs[j].entry, o} : entries'[d] = entries[d]
    BY <1>8, MovedEntries, NoneType
  <2>2. entries'[e] = entries[e] /\ e # moveJobs[j].entry
    BY <2>1, NoneType
  <2>3. Ready(e) /\ MarkKept(e) /\ entries[e].moveJob # None
    BY <2>2 DEF MarkKept, Ready
  <2>4. entries[e].moveJob # j
    BY <1>4, <2>2, <2>3
  <2> QED BY <1>1, <1>4, <1>8, <2>3, <2>4, WrittenJob
<1> QED BY <1>2, <1>5, <1>6, <1>7, <1>8 DEF Step, EntryStep, IntentStep, JobStep, completeUpload

(***************************************************************************)
(* The state of Directory                                                  *)
(***************************************************************************)

Listing == [f \in Folders |-> [n \in Names |-> listed(f, n)]]

Requests == [i \in IntentIds |-> [fate |-> fate(i), folder |-> intents[i].folder,
                                  name |-> intents[i].name, policy |-> intents[i].policy,
                                  content |-> intents[i].content]]

Grants == {moveJobs[j].folder : j \in {x \in MoveJobIds :
               moveJobs[x].status # "absent" /\ moveJobs[x].policy = "replace"}}

\* Its steps, in terms of what they do to that state.
LEMMA IsQuiet ==
    ASSUME UNCHANGED <<Listing, Requests, Grants>>
    PROVE  UNCHANGED Promise!vars
BY DEF Promise!vars, Listing, Requests, Grants

\* Submit.
LEMMA IsSubmit ==
    ASSUME NEW i \in IntentIds, Requests[i].fate = "none",
           NEW f \in Folders, NEW n \in Names, NEW p \in Policies, NEW c \in Contents,
           Requests' = [Requests EXCEPT ![i] = [fate |-> "open", folder |-> f, name |-> n,
                                                policy |-> p, content |-> c]],
           UNCHANGED <<Listing, Grants>>
    PROVE  Promise!Changes
<1>1. \E g \in Folders, m \in Names, q \in {"ask", "replace", "rename"}, d \in Contents :
         Requests' = [Requests EXCEPT ![i] = [fate |-> "open", folder |-> g, name |-> m,
                                              policy |-> q, content |-> d]]
  BY DEF Policies
<1>2. Promise!Submit(i)
  BY <1>1 DEF Promise!Submit, Listing, Requests, Grants
<1> QED BY <1>2 DEF Promise!Changes

\* Land.
LEMMA IsLand ==
    ASSUME NEW i \in IntentIds, NEW n \in Names,
           Requests[i].fate = "open",
           IF Requests[i].policy = "rename" THEN n[1] = Requests[i].name[1]
                                            ELSE n = Requests[i].name,
           Listing[Requests[i].folder][n] # None => Requests[i].policy = "replace",
           Listing' = [Listing EXCEPT ![Requests[i].folder][n] = Requests[i].content],
           Requests' = [Requests EXCEPT ![i].fate = "landed"],
           UNCHANGED Grants
    PROVE  Promise!Changes
<1>1. Promise!Land(i, n)
  BY DEF Promise!Land, Promise!Variant, Listing, Requests, Grants
<1> QED BY <1>1 DEF Promise!Changes

\* Fail.
LEMMA IsFail ==
    ASSUME NEW failed \in SUBSET IntentIds, failed # {},
           \A i \in failed : Requests[i].fate = "open",
           Requests' = [i \in IntentIds |-> IF i \in failed
                           THEN [Requests[i] EXCEPT !.fate = "failed"] ELSE Requests[i]],
           UNCHANGED <<Listing, Grants>>
    PROVE  Promise!Changes
<1>1. Promise!Fail(failed)
  BY DEF Promise!Fail, Listing, Requests, Grants
<1> QED BY <1>1 DEF Promise!Changes

\* Remove.
LEMMA IsRemove ==
    ASSUME NEW f \in Folders, NEW n \in Names, Listing[f][n] # None,
           Listing' = [Listing EXCEPT ![f][n] = None], UNCHANGED <<Requests, Grants>>
    PROVE  Promise!Changes
<1>1. Promise!Remove(f, n)
  BY DEF Promise!Remove, Listing, Requests, Grants
<1> QED BY <1>1 DEF Promise!Changes

\* Rename.
LEMMA IsRename ==
    ASSUME NEW f \in Folders, NEW n \in Names, NEW m \in Names,
           Listing[f][n] # None, Listing[f][m] = None,
           Listing' = [Listing EXCEPT ![f][n] = None, ![f][m] = Listing[f][n]],
           UNCHANGED <<Requests, Grants>>
    PROVE  Promise!Changes
<1>1. Promise!Rename(f, n, m)
  BY DEF Promise!Rename, Listing, Requests, Grants
<1> QED BY <1>1 DEF Promise!Changes

\* Grant.
LEMMA IsGrant ==
    ASSUME Grants' \in SUBSET Folders, UNCHANGED <<Listing, Requests>>
    PROVE  Promise!Changes
<1>1. Promise!Grant
  BY DEF Promise!Grant, Listing, Requests, Grants
<1> QED BY <1>1 DEF Promise!Changes

\* Move.
LEMMA IsMove ==
    ASSUME NEW f \in Folders, NEW n \in Names, NEW g \in Folders, NEW m \in Names,
           Listing[f][n] # None, f # g, n[1] = m[1],
           Listing[g][m] # None => g \in Grants,
           Listing' = [Listing EXCEPT ![f][n] = None, ![g][m] = Listing[f][n]],
           Grants' \in SUBSET Grants, UNCHANGED Requests
    PROVE  Promise!Changes
<1>1. Promise!Move(f, n, g, m)
  BY DEF Promise!Move, Promise!Variant, Listing, Requests, Grants
<1> QED BY <1>1 DEF Promise!Changes

(***************************************************************************)
(* Listings                                                                *)
(***************************************************************************)

Shown(e, f, n) == Ready(e) /\ entries[e].folder = f /\ entries[e].name = n

\* A folder of an image gallery lists the one file that is shown under a name.
ListedRight == \A f \in Folders, n \in Names : Kind[GalleryOf[f]] = "image" =>
    /\ \A e \in EntryIds : Shown(e, f, n) => listed(f, n) = entries[e].content
    /\ (\A e \in EntryIds : ~Shown(e, f, n)) => listed(f, n) = None

\* Names are unique, so it does not matter which one is found.
LEMMA ListedOne == TypeInv /\ UniqueReadyNames => ListedRight
<1> SUFFICES ASSUME TypeInv, UniqueReadyNames, NEW f \in Folders, NEW n \in Names,
                    Kind[GalleryOf[f]] = "image"
             PROVE  /\ \A e \in EntryIds : Shown(e, f, n) => listed(f, n) = entries[e].content
                    /\ (\A e \in EntryIds : ~Shown(e, f, n)) => listed(f, n) = None
  BY DEF ListedRight
<1> DEFINE named == readyEntriesNamed(f, n, None)
           found == findReadyEntryByNameKey(f, n, None)
<1>1. \A e \in EntryIds : e \in named <=> Shown(e, f, n)
  BY NoneType DEF readyEntriesNamed, Shown
<1>2. named \subseteq EntryIds
  BY DEF readyEntriesNamed
<1>3. named # {} => found \in named
  BY FindReady DEF findReadyEntryByNameKey
<1>4. listed(f, n) = IF named = {} THEN None ELSE entries[found].content
  BY DEF listed
<1> HIDE DEF named, found
<1>5. ASSUME NEW e \in EntryIds, Shown(e, f, n)
      PROVE  listed(f, n) = entries[e].content
  <2>1. found \in EntryIds /\ Shown(found, f, n)
    BY <1>1, <1>2, <1>3, <1>5
  <2>2. found = e
    BY <1>5, <2>1 DEF UniqueReadyNames, Shown
  <2> QED BY <1>1, <1>4, <1>5, <2>2
<1>6. (\A e \in EntryIds : ~Shown(e, f, n)) => listed(f, n) = None
  BY <1>1, <1>2, <1>4
<1> QED BY <1>5, <1>6

\* A name shows what it showed when its files do.
LEMMA CellKept ==
    ASSUME ListedRight, ListedRight', NEW f \in Folders, NEW n \in Names,
           Kind[GalleryOf[f]] = "image",
           \A e \in EntryIds : /\ Shown(e, f, n)' <=> Shown(e, f, n)
                               /\ Shown(e, f, n) => entries'[e].content = entries[e].content
    PROVE  listed(f, n)' = listed(f, n)
<1>1. CASE \E e \in EntryIds : Shown(e, f, n)
  BY <1>1 DEF ListedRight
<1>2. CASE ~\E e \in EntryIds : Shown(e, f, n)
  BY <1>2 DEF ListedRight
<1> QED BY <1>1, <1>2

\* Listings are unchanged but for one name.
LEMMA ListingOne ==
    ASSUME NEW g \in Folders, NEW m \in Names,
           \A f \in Folders, n \in Names : <<f, n>> # <<g, m>> => listed(f, n)' = listed(f, n)
    PROVE  Listing' = [Listing EXCEPT ![g][m] = listed(g, m)']
BY DEF Listing

\* A step that leaves intents alone leaves requests alone.
LEMMA SameRequests ==
    ASSUME UNCHANGED intents
    PROVE  UNCHANGED Requests
BY DEF Requests, fate

\* What may be replaced is read from move jobs alone.
LEMMA SameGrants ==
    ASSUME UNCHANGED moveJobs
    PROVE  UNCHANGED Grants
BY DEF Grants

\* Every folder is one of an image gallery.
LEMMA AllImages ==
    ASSUME ImagesOnShared, NEW f \in Folders
    PROVE  Kind[GalleryOf[f]] = "image"
BY CatalogAssumption DEF ImagesOnShared

\* Marks do not show in a listing.
LEMMA SameListing ==
    ASSUME ImagesOnShared, ListedRight, ListedRight',
           \A e \in EntryIds : \/ entries'[e] = entries[e]
                               \/ ~Ready(e) /\ entries'[e].state # "ready"
                               \/ /\ entries'[e].state = entries[e].state
                                  /\ entries'[e].folder = entries[e].folder
                                  /\ entries'[e].name = entries[e].name
                                  /\ entries'[e].content = entries[e].content
    PROVE  UNCHANGED Listing
<1>1. ASSUME NEW f \in Folders, NEW n \in Names
      PROVE  listed(f, n)' = listed(f, n)
  <2>1. \A e \in EntryIds : /\ Shown(e, f, n)' <=> Shown(e, f, n)
                            /\ Shown(e, f, n) => entries'[e].content = entries[e].content
    BY DEF Shown, Ready
  <2> QED BY <2>1, AllImages, CellKept
<1> QED BY <1>1 DEF Listing

\* An entry is deleted, or its row is.
LEMMA Vanishes ==
    ASSUME TypeInv, ImagesOnShared, UniqueReadyNames, ListedRight, ListedRight',
           UNCHANGED <<intents, moveJobs>>,
           NEW x \in EntryIds, entries'[x].state # "ready",
           \A d \in EntryIds \ {x} : entries'[d] = entries[d]
    PROVE  UNCHANGED Promise!vars \/ Promise!Changes
<1>0. UNCHANGED <<Requests, Grants>>
  BY SameRequests, SameGrants
<1>1. CASE ~Ready(x)
  <2>1. UNCHANGED Listing
    BY <1>1, SameListing DEF Ready
  <2> QED BY <1>0, <2>1, IsQuiet
<1>2. CASE Ready(x)
  <2>0. entries[x] \in EntryRow /\ entries[x].state = "ready"
    BY <1>2 DEF TypeInv, Rows, Ready
  <2>1. PICK f \in Folders, n \in Names : Shown(x, f, n) /\ entries[x].content \in Contents
    BY <2>0 DEF EntryRow, Shown, Ready
  <2>2. listed(f, n) # None
    BY <2>1, AllImages, NoneType DEF ListedRight
  <2>3. \A d \in EntryIds : ~Shown(d, f, n)'
    BY <2>1, AllImages DEF UniqueReadyNames, Shown, Ready
  <2>4. listed(f, n)' = None
    BY <2>1, <2>3, AllImages DEF ListedRight
  <2>5. ASSUME NEW g \in Folders, NEW m \in Names, <<g, m>> # <<f, n>>
        PROVE  listed(g, m)' = listed(g, m)
    <3>1. \A e \in EntryIds : /\ Shown(e, g, m)' <=> Shown(e, g, m)
                              /\ Shown(e, g, m) => entries'[e].content = entries[e].content
      BY <2>1, <2>5 DEF Shown, Ready
    <3> QED BY <3>1, AllImages, CellKept
  <2>6. Listing' = [Listing EXCEPT ![f][n] = None]
    BY <2>1, <2>4, <2>5, ListingOne
  <2>7. Listing[f][n] # None
    BY <2>1, <2>2 DEF Listing
  <2> QED BY <1>0, <2>1, <2>6, <2>7, IsRemove
<1> QED BY <1>1, <1>2

\* An entry is renamed.
LEMMA Renamed ==
    ASSUME TypeInv, ImagesOnShared, UniqueReadyNames, ListedRight, ListedRight',
           UNCHANGED <<intents, moveJobs>>,
           NEW x \in EntryIds, NEW m \in Names, rename(x, m)
    PROVE  Promise!Changes
<1>1. UNCHANGED <<Requests, Grants>>
  BY SameRequests, SameGrants
<1>2. /\ entries \in [EntryIds -> EntryRow] /\ entries[x] \in EntryRow
      /\ entries[x].state = "ready"
  BY DEF TypeInv, Rows, Ready, rename
<1>3. PICK f \in Folders, n \in Names, c \in Contents :
         Shown(x, f, n) /\ entries[x].content = c
  BY <1>2 DEF EntryRow, Shown, Ready
<1>4. /\ m # n /\ findReadyEntryByNameKey(f, m, x) = None
      /\ entries' = [entries EXCEPT ![x].name = m]
  BY <1>3 DEF rename, Shown
<1>5. /\ entries'[x].state = "ready" /\ entries'[x].folder = f /\ entries'[x].name = m
      /\ entries'[x].content = c
      /\ \A d \in EntryIds \ {x} : entries'[d] = entries[d]
  BY <1>2, <1>3, <1>4 DEF Shown, EntryRow, Entry
<1>6. \A d \in EntryIds : ~Shown(d, f, m)
  BY <1>3, <1>4, FindReady DEF readyEntriesNamed, Shown
<1>7. Shown(x, f, m)'
  BY <1>5 DEF Shown, Ready
<1>8. \A d \in EntryIds : ~Shown(d, f, n)'
  BY <1>3, <1>4, <1>5, AllImages DEF UniqueReadyNames, Shown, Ready
<1>9. /\ listed(f, n) = c /\ listed(f, m) = None
      /\ listed(f, n)' = None /\ listed(f, m)' = c
  BY <1>3, <1>5, <1>6, <1>7, <1>8, AllImages DEF ListedRight
<1>10. ASSUME NEW g \in Folders, NEW k \in Names, <<g, k>> # <<f, n>>, <<g, k>> # <<f, m>>
       PROVE  listed(g, k)' = listed(g, k)
  <2>1. \A e \in EntryIds : /\ Shown(e, g, k)' <=> Shown(e, g, k)
                            /\ Shown(e, g, k) => entries'[e].content = entries[e].content
    BY <1>3, <1>5, <1>10 DEF Shown, Ready
  <2> QED BY <2>1, AllImages, CellKept
<1>11. Listing' = [Listing EXCEPT ![f][n] = None, ![f][m] = c]
  <2>1. <<f, n>> # <<f, m>>
    BY <1>4
  <2>2. /\ listed(f, n)' = None /\ listed(f, m)' = c
        /\ \A g \in Folders, k \in Names :
              <<g, k>> # <<f, n>> /\ <<g, k>> # <<f, m>> => listed(g, k)' = listed(g, k)
    BY <1>9, <1>10
  <2> QED BY <2>1, <2>2 DEF Listing
<1>12. Listing[f][n] = c /\ Listing[f][m] = None
  BY <1>9 DEF Listing
<1> QED BY <1>1, <1>11, <1>12, NoneType, IsRename

\* An upload lands, or is found landed.
LEMMA Uploaded ==
    ASSUME TypeInv, ImagesOnShared, UniqueReadyNames, ListedRight, ListedRight', Resolved,
           NEW h \in Handlers, NEW answered \in BOOLEAN, completeUpload(h, answered)
    PROVE  UNCHANGED Promise!vars \/ Promise!Changes
<1>0. UNCHANGED Grants
  BY SameGrants DEF completeUpload
<1>1. CASE landedFrom(handlers[h].intent) # {}
  <2>1. UNCHANGED <<entries, intents>>
    BY <1>1 DEF completeUpload
  <2> QED BY <1>0, <2>1, SameRequests, SameListing, IsQuiet
<1>2. CASE landedFrom(handlers[h].intent) = {}
  <2>1. PICK i \in IntentIds : i = handlers[h].intent
    BY <1>2, UploadLands
  <2>2. PICK f \in Folders, n \in Names, c \in Contents :
           intents[i].folder = f /\ intents[i].resolved = n /\ intents[i].content = c
    BY <1>2, <2>1, UploadLands
  <2> DEFINE named == readyEntriesNamed(f, n, None)
  <2>3. /\ intents[i].state = "uploading"
        /\ intents' = [intents EXCEPT ![i].state = "complete", ![i].lapsed = FALSE]
        /\ named = {} \/ intents[i].policy = "replace"
    BY <1>2, <2>1, <2>2, UploadLands
  <2>0. PICK x \in EntryIds :
           /\ entries[x].state = "absent" \/ x \in named
           /\ \E k : entries' = [entries EXCEPT ![x] = landedEntry(i, keyOf(h), k)]
    <3>1. \E x \in EntryIds :
             \/ /\ entries[x].state = "absent"
                /\ entries' = [entries EXCEPT ![x] = landedEntry(i, keyOf(h), None)]
             \/ /\ x \in readyEntriesNamed(intents[i].folder, intents[i].resolved, None)
                /\ entries' = [entries EXCEPT ![x] = landedEntry(i, keyOf(h), entries[x].moveJob)]
      BY <1>2, <2>1, UploadLands
    <3> QED BY <2>2, <3>1
  <2>4. PICK k : entries' = [entries EXCEPT ![x] = landedEntry(i, keyOf(h), k)]
    BY <2>0
  <2>5. \A d \in EntryIds : d \in named <=> Shown(d, f, n)
    BY NoneType DEF readyEntriesNamed, Shown
  <2>6. /\ Shown(x, f, n)' /\ entries'[x].content = c
        /\ \A d \in EntryIds \ {x} : entries'[d] = entries[d]
    BY <2>2, <2>4 DEF TypeInv, Rows, landedEntry, Shown, Ready
  <2>7. Ready(x) => Shown(x, f, n)
    BY <2>0, <2>5 DEF Ready
  <2> HIDE DEF named
  <2>8. listed(f, n)' = c
    BY <2>6, AllImages DEF ListedRight
  <2>9. listed(f, n) # None => intents[i].policy = "replace"
    <3>1. (\A d \in EntryIds : ~Shown(d, f, n)) => listed(f, n) = None
      BY AllImages DEF ListedRight
    <3> QED BY <2>3, <2>5, <3>1
  <2>10. ASSUME NEW g \in Folders, NEW m \in Names, <<g, m>> # <<f, n>>
         PROVE  listed(g, m)' = listed(g, m)
    <3>1. \A e \in EntryIds : /\ Shown(e, g, m)' <=> Shown(e, g, m)
                              /\ Shown(e, g, m) => entries'[e].content = entries[e].content
      BY <2>6, <2>7, <2>10 DEF Shown, Ready
    <3> QED BY <3>1, AllImages, CellKept
  <2>11. Listing' = [Listing EXCEPT ![f][n] = c]
    BY <2>8, <2>10, ListingOne
  <2>12. Listing[f][n] = listed(f, n)
    BY DEF Listing
  <2>13. intents \in [IntentIds -> IntentRow]
    BY DEF TypeInv, Rows
  <2>14. Requests' = [Requests EXCEPT ![i].fate = "landed"]
    <3>1. \A d \in IntentIds \ {i} : intents'[d] = intents[d]
      BY <2>3, <2>13
    <3>2. /\ intents'[i].state = "complete" /\ intents'[i].folder = intents[i].folder
          /\ intents'[i].name = intents[i].name /\ intents'[i].policy = intents[i].policy
          /\ intents'[i].content = intents[i].content
      BY <2>3, <2>13 DEF IntentRow, Intent
    <3> QED BY <3>1, <3>2 DEF Requests, fate
  <2>15. /\ Requests[i].fate = "open" /\ Requests[i].folder = f /\ Requests[i].content = c
         /\ Requests[i].policy = intents[i].policy /\ Requests[i].name = intents[i].name
    BY <2>2, <2>3 DEF Requests, fate
  <2>16. IF intents[i].policy = "rename" THEN n[1] = intents[i].name[1] ELSE n = intents[i].name
    BY <2>2, <2>3 DEF Resolved
  <2> QED BY <1>0, <2>9, <2>11, <2>12, <2>14, <2>15, <2>16, IsLand
<1> QED BY <1>1, <1>2

\* What becomes of requests: a new one is submitted, open ones fail, claims and
\* leases do not show.
LEMMA RequestStep ==
    ASSUME TypeInv, ImagesOnShared, ListedRight, ListedRight', IntentStep
    PROVE  UNCHANGED Promise!vars \/ Promise!Changes
<1>0. intents \in [IntentIds -> IntentRow]
  BY DEF TypeInv, Rows
<1>1. UNCHANGED <<Listing, Grants>>
  BY SameListing, SameGrants DEF IntentStep
<1>2. ASSUME NEW i \in IntentIds, NEW f \in Folders, NEW s \in Stems, NEW p \in Policies,
             NEW c \in Contents, createUploadIntent(i, f, <<s, 1>>, p, c)
      PROVE  Promise!Changes
  <2>1. <<s, 1>> \in Names
    BY CatalogAssumption DEF Names
  <2>2. PICK n \in Names : createUploadIntent(i, f, n, p, c)
    BY <1>2, <2>1
  <2>3. /\ intents[i].state = "absent"
        /\ intents' = [intents EXCEPT ![i] = [NoIntent EXCEPT !.state = "pending",
                          !.folder = f, !.name = n, !.policy = p, !.content = c]]
    BY <2>2 DEF createUploadIntent
  <2>4. /\ intents'[i].state = "pending" /\ intents'[i].folder = f /\ intents'[i].name = n
        /\ intents'[i].policy = p /\ intents'[i].content = c
        /\ \A k \in IntentIds \ {i} : intents'[k] = intents[k]
    BY <1>0, <2>3 DEF NoIntent
  <2>5. /\ Requests[i].fate = "none"
        /\ Requests' = [Requests EXCEPT ![i] = [fate |-> "open", folder |-> f, name |-> n,
                                                policy |-> p, content |-> c]]
    BY <2>3, <2>4 DEF Requests, fate
  <2> QED BY <1>1, <2>5, IsSubmit
<1>3. ASSUME \A k \in IntentIds :
                 /\ \/ intents'[k].state = intents[k].state
                    \/ intents[k].state \in {"pending", "uploading"}
                       /\ intents'[k].state \in {"pending", "uploading"}
                 /\ intents'[k].folder = intents[k].folder
                 /\ intents'[k].name = intents[k].name
                 /\ intents'[k].policy = intents[k].policy
                 /\ intents'[k].content = intents[k].content
      PROVE  UNCHANGED Promise!vars
  <2>1. UNCHANGED Requests
    BY <1>3 DEF Requests, fate
  <2> QED BY <1>1, <2>1, IsQuiet
<1>4. ASSUME NEW h \in Handlers, NEW i \in IntentIds, claimUpload(h, i)
      PROVE  UNCHANGED Promise!vars
  <2>1. /\ intents[i].state \in {"pending", "uploading"}
        /\ \E y : intents' = [intents EXCEPT ![i].state = "uploading", ![i].resolved = y,
                                             ![i].lapsed = FALSE]
    BY <1>4 DEF claimUpload, Claimable
  <2>2. /\ intents'[i].state = "uploading" /\ intents'[i].folder = intents[i].folder
        /\ intents'[i].name = intents[i].name /\ intents'[i].policy = intents[i].policy
        /\ intents'[i].content = intents[i].content
        /\ \A k \in IntentIds \ {i} : intents'[k] = intents[k]
    BY <1>0, <2>1 DEF IntentRow, Intent
  <2> QED BY <1>3, <2>1, <2>2
<1>5. ASSUME NEW i \in IntentIds, NEW b \in BOOLEAN, intents' = [intents EXCEPT ![i].lapsed = b]
      PROVE  UNCHANGED Promise!vars
  <2>1. /\ intents'[i].state = intents[i].state /\ intents'[i].folder = intents[i].folder
        /\ intents'[i].name = intents[i].name /\ intents'[i].policy = intents[i].policy
        /\ intents'[i].content = intents[i].content
        /\ \A k \in IntentIds \ {i} : intents'[k] = intents[k]
    BY <1>0, <1>5 DEF IntentRow, Intent
  <2> QED BY <1>3, <2>1
<1>6. ASSUME NEW failed \in SUBSET IntentIds, failed # {},
             \A i \in failed : /\ intents[i].state \in {"pending", "uploading"}
                               /\ intents'[i].state = "failed"
                               /\ intents'[i].folder = intents[i].folder
                               /\ intents'[i].name = intents[i].name
                               /\ intents'[i].policy = intents[i].policy
                               /\ intents'[i].content = intents[i].content,
             \A i \in IntentIds \ failed : intents'[i] = intents[i]
      PROVE  Promise!Changes
  <2>1. \A i \in failed : Requests[i].fate = "open"
    BY <1>6 DEF Requests, fate
  <2>2. Requests' = [i \in IntentIds |-> IF i \in failed
                        THEN [Requests[i] EXCEPT !.fate = "failed"] ELSE Requests[i]]
    BY <1>6, ZenonT(60) DEF Requests, fate
  <2> QED BY <1>1, <1>6, <2>1, <2>2, IsFail
<1>7. ASSUME NEW h \in Handlers, failUpload(h)
      PROVE  UNCHANGED Promise!vars \/ Promise!Changes
  <2>1. PICK i \in IntentIds : i = handlers[h].intent
    BY <1>7 DEF failUpload, TypeInv, Rows, HandlerRow
  <2>2. /\ intents[i].state # "absent" /\ intents[i] \in IntentRow
        /\ intents' = [intents EXCEPT ![i].state = IF @ = "complete" THEN @ ELSE "failed",
                                      ![i].lapsed = FALSE]
    BY <1>0, <1>7, <2>1 DEF failUpload, TypeInv, Served
  <2>3. /\ intents'[i].state = IF intents[i].state = "complete" THEN "complete" ELSE "failed"
        /\ intents'[i].folder = intents[i].folder
        /\ intents'[i].name = intents[i].name /\ intents'[i].policy = intents[i].policy
        /\ intents'[i].content = intents[i].content
        /\ \A k \in IntentIds \ {i} : intents'[k] = intents[k]
    BY <1>0, <2>2 DEF IntentRow, Intent
  <2>4. CASE intents[i].state \in {"complete", "failed"}
    BY <1>3, <2>3, <2>4
  <2>5. CASE intents[i].state \in {"pending", "uploading"}
    <3>1. {i} \in SUBSET IntentIds /\ {i} # {} /\ \A k \in {i} : k = i
      OBVIOUS
    <3> QED BY <1>6, <2>3, <2>5, <3>1
  <2> QED BY <2>2, <2>4, <2>5 DEF IntentRow, Intent
<1>8. ASSUME NEW expired \in SUBSET IntentIds, recoverStaleRequests(expired)
      PROVE  Promise!Changes
  <2> DEFINE failed == expired \cup {i \in IntentIds : intents[i].state = "uploading"
                                                       /\ intents[i].lapsed}
  <2>1. /\ failed \in SUBSET IntentIds /\ failed # {}
        /\ \A i \in failed : intents[i].state \in {"pending", "uploading"}
        /\ intents' = [i \in IntentIds |-> IF i \in failed
                THEN [intents[i] EXCEPT !.state = "failed", !.lapsed = FALSE] ELSE intents[i]]
    BY <1>8 DEF recoverStaleRequests
  <2>2. PICK gone \in SUBSET IntentIds : gone = failed
    BY <2>1
  <2> HIDE DEF failed
  <2>3. \A i \in gone : /\ intents'[i].state = "failed"
                        /\ intents'[i].folder = intents[i].folder
                        /\ intents'[i].name = intents[i].name
                        /\ intents'[i].policy = intents[i].policy
                        /\ intents'[i].content = intents[i].content
    BY <1>0, <2>1, <2>2 DEF IntentRow, Intent
  <2> QED BY <1>6, <2>1, <2>2, <2>3
<1> QED BY <1>2, <1>4, <1>5, <1>7, <1>8 DEF IntentStep

\* Jobs come and go without a trace but what they may replace.
LEMMA JobUnseen ==
    ASSUME TypeInv, TypeInv', ImagesOnShared, ListedRight, ListedRight', UNCHANGED intents,
           \/ UNCHANGED entries
           \/ \E e \in EntryIds : \E k : entries' = [entries EXCEPT ![e].moveJob = k]
    PROVE  Promise!Changes
<1>1. entries \in [EntryIds -> EntryRow]
  BY DEF TypeInv, Rows
<1>2. \A e \in EntryIds : /\ entries'[e].state = entries[e].state
                          /\ entries'[e].folder = entries[e].folder
                          /\ entries'[e].name = entries[e].name
                          /\ entries'[e].content = entries[e].content
  BY <1>1 DEF EntryRow, Entry
<1>3. UNCHANGED Listing
  BY <1>2, SameListing
<1>4. (moveJobs \in [MoveJobIds -> MoveRow])'
  BY DEF TypeInv, Rows
<1>5. Grants' \in SUBSET Folders
  BY <1>4 DEF Grants, MoveRow
<1> QED BY <1>3, <1>5, SameRequests, IsGrant

\* A file is moved.
LEMMA Moved ==
    ASSUME TypeInv, ImagesOnShared, UniqueReadyNames, ListedRight, ListedRight', Marked,
           UNCHANGED intents, NEW j \in MoveJobIds, JobLanded(j)
    PROVE  Promise!Changes
<1>1. PICK x \in EntryIds : x = moveJobs[j].entry
  BY MovedEntries
<1>2. /\ Ready(x) /\ entries[x].moveJob = j /\ moveJobs[j] \in MoveRow
      /\ moveJobs[j].status # "absent" /\ moveJobs' = [moveJobs EXCEPT ![j] = NoMoveJob]
      /\ entries[x] \in EntryRow /\ entries[x].state = "ready"
  BY <1>1, MovedEntries DEF TypeInv, Rows, Ready
<1>3. PICK f \in Folders, n \in Names, c \in Contents :
         Shown(x, f, n) /\ entries[x].content = c
  BY <1>2 DEF EntryRow, Shown, Ready
<1>4. PICK g \in Folders, m \in Names : g = moveJobs[j].folder /\ m = landingName(moveJobs[j])
  BY <1>1, <1>2, <1>3 DEF MoveRow, MoveJob, landingName, Shown
<1>5. g # f /\ m[1] = n[1]
  BY <1>1, <1>2, <1>3, <1>4, NoneType DEF Marked, landingName, Shown
<1> DEFINE named == readyEntriesNamed(g, m, x)
<1>6. PICK o \in EntryIds \cup {None} :
         /\ IF o = None THEN named = {}
            ELSE o \in named /\ moveJobs[j].policy = "replace" /\ entries'[o].state = "deleted"
         /\ \A d \in EntryIds \ {x, o} : entries'[d] = entries[d]
  BY <1>1, <1>4, MovedEntries
<1>7. Shown(x, g, m)' /\ entries'[x].content = c
  BY <1>1, <1>3, <1>4, MovedEntries DEF Shown, Ready
<1>8. \A d \in EntryIds : d \in named <=> d # x /\ Shown(d, g, m)
  BY DEF readyEntriesNamed, Shown
<1> HIDE DEF named
<1>9. \A d \in EntryIds : Shown(d, g, m) => d \in named
  BY <1>3, <1>5, <1>8 DEF Shown
<1>10. \A d \in EntryIds : ~Shown(d, f, n)'
  <2>1. SUFFICES ASSUME NEW d \in EntryIds, Shown(d, f, n)' PROVE FALSE
    OBVIOUS
  <2>2. d # x
    BY <1>5, <1>7, <2>1 DEF Shown
  <2>3. d # o
    BY <1>6, <2>1, NoneType DEF Shown, Ready
  <2>4. Shown(d, f, n)
    BY <1>6, <2>1, <2>2, <2>3 DEF Shown, Ready
  <2> QED BY <1>3, <2>2, <2>4, AllImages DEF UniqueReadyNames, Shown
<1>11. /\ listed(f, n) = c /\ listed(f, n)' = None /\ listed(g, m)' = c
  BY <1>3, <1>7, <1>10, AllImages DEF ListedRight
<1>12. ASSUME NEW h \in Folders, NEW k \in Names, <<h, k>> # <<f, n>>, <<h, k>> # <<g, m>>
       PROVE  listed(h, k)' = listed(h, k)
  <2>1. ASSUME NEW e \in EntryIds
        PROVE  /\ Shown(e, h, k)' <=> Shown(e, h, k)
               /\ Shown(e, h, k) => entries'[e].content = entries[e].content
    <3>1. CASE e = x
      BY <1>3, <1>7, <1>12, <3>1 DEF Shown
    <3>2. CASE e = o
      BY <1>6, <1>8, <1>12, <3>2, NoneType DEF Shown, Ready
    <3>3. CASE e # x /\ e # o
      BY <1>6, <3>3 DEF Shown, Ready
    <3> QED BY <3>1, <3>2, <3>3
  <2> QED BY <2>1, AllImages, CellKept
<1>13. Listing' = [Listing EXCEPT ![f][n] = None, ![g][m] = c]
  <2>1. /\ listed(f, n)' = None /\ listed(g, m)' = c
        /\ \A h \in Folders, k \in Names :
              <<h, k>> # <<f, n>> /\ <<h, k>> # <<g, m>> => listed(h, k)' = listed(h, k)
    BY <1>11, <1>12
  <2> QED BY <1>5, <2>1 DEF Listing
<1>14. Listing[f][n] = c /\ Listing[g][m] = listed(g, m)
  BY <1>11 DEF Listing
<1>15. listed(g, m) # None => g \in Grants
  <2>1. (\A d \in EntryIds : ~Shown(d, g, m)) => listed(g, m) = None
    BY AllImages DEF ListedRight
  <2>2. listed(g, m) # None => moveJobs[j].policy = "replace"
    BY <1>6, <1>9, <2>1
  <2> QED BY <1>2, <1>4, <2>2 DEF Grants
<1>16. Grants' \in SUBSET Grants
  <2>1. moveJobs \in [MoveJobIds -> MoveRow]
    BY DEF TypeInv, Rows
  <2>2. moveJobs'[j].status = "absent" /\ \A k \in MoveJobIds \ {j} : moveJobs'[k] = moveJobs[k]
    BY <1>2, <2>1 DEF NoMoveJob
  <2> QED BY <2>2 DEF Grants
<1>17. UNCHANGED Requests
  BY SameRequests
<1>18. /\ Listing[f][n] # None /\ f # g /\ n[1] = m[1]
       /\ Listing[g][m] # None => g \in Grants
       /\ Listing' = [Listing EXCEPT ![f][n] = None, ![g][m] = Listing[f][n]]
  BY <1>5, <1>13, <1>14, <1>15, NoneType
<1> HIDE DEF Listing, Grants, Requests
<1> QED BY <1>16, <1>17, <1>18, IsMove

(***************************************************************************)
(* The promise kept                                                        *)
(***************************************************************************)

\* Every step is one of Directory's, or none.
LEMMA PromiseStep ==
    ASSUME TypeInv, TypeInv', ImagesOnShared, UniqueReadyNames, UniqueReadyNames',
           Resolved, Marked, Step
    PROVE  UNCHANGED Promise!vars \/ Promise!Changes
<1>0. ListedRight
  BY ListedOne
<1>1. ListedRight'
  BY ListedOne, PTL
<1>2. CASE UNCHANGED <<entries, intents, moveJobs>>
  BY <1>0, <1>1, <1>2, SameListing, SameRequests, SameGrants, IsQuiet
<1>3. CASE EntryStep
  <2>1. ASSUME NEW e \in EntryIds, \/ entries' = [entries EXCEPT ![e].state = "deleted"]
                                   \/ entries' = [entries EXCEPT ![e] = Blank("purged")]
        PROVE  UNCHANGED Promise!vars \/ Promise!Changes
    <3>1. /\ entries'[e].state # "ready"
          /\ \A d \in EntryIds \ {e} : entries'[d] = entries[d]
      BY <2>1 DEF TypeInv, Rows, EntryRow, Entry, Blank
    <3>2. UNCHANGED <<intents, moveJobs>>
      BY <1>3 DEF EntryStep
    <3> QED BY <1>0, <1>1, <3>1, <3>2, Vanishes
  <2>2. ASSUME NEW e \in EntryIds, NEW n \in Names, rename(e, n)
        PROVE  Promise!Changes
    BY <1>0, <1>1, <1>3, <2>2, Renamed DEF EntryStep
  <2> QED BY <1>3, <2>1, <2>2 DEF EntryStep
<1>4. CASE IntentStep
  BY <1>0, <1>1, <1>4, RequestStep
<1>5. CASE \E h \in Handlers, answered \in BOOLEAN : completeUpload(h, answered)
  BY <1>0, <1>1, <1>5, Uploaded
<1>6. CASE UNCHANGED intents /\ JobStep
  <2>1. PICK j \in MoveJobIds : JobWorkedOn(j) \/ JobParked(j) \/ JobQueued(j) \/ JobLanded(j)
    BY <1>6 DEF JobStep
  <2>2. CASE JobLanded(j)
    BY <1>0, <1>1, <1>6, <2>2, Moved
  <2>3. CASE JobWorkedOn(j)
    <3>1. moveJobs[j].entry \in EntryIds
      BY <2>3 DEF JobWorkedOn, TypeInv, Rows, MoveRow
    <3> QED BY <1>0, <1>1, <1>6, <2>3, <3>1, JobUnseen DEF JobWorkedOn
  <2>4. CASE JobParked(j)
    BY <1>0, <1>1, <1>6, <2>4, JobUnseen DEF JobParked
  <2>5. CASE JobQueued(j)
    BY <1>0, <1>1, <1>6, <2>5, JobUnseen DEF JobQueued, queueMoveJob
  <2> QED BY <2>1, <2>2, <2>3, <2>4, <2>5
<1> QED BY <1>2, <1>3, <1>4, <1>5, <1>6 DEF Step

\* To begin with, listings show the seeds and nobody asked for anything.
LEMMA PromiseInit ==
    ASSUME TypeInv, ImagesOnShared, UniqueReadyNames, Init
    PROVE  Promise!Init
<1>1. ListedRight
  BY ListedOne
<1>2. \A f \in Folders, n \in Names : listed(f, n) \in Contents \cup {None}
  <2> SUFFICES ASSUME NEW f \in Folders, NEW n \in Names
               PROVE  listed(f, n) \in Contents \cup {None}
    OBVIOUS
  <2>1. CASE \E e \in EntryIds : Shown(e, f, n)
    <3>1. PICK e \in EntryIds : Shown(e, f, n)
      BY <2>1
    <3>2. entries[e] \in EntryRow /\ entries[e].state = "ready"
      BY <3>1 DEF TypeInv, Rows, Shown, Ready
    <3>3. listed(f, n) = entries[e].content
      BY <1>1, <3>1, AllImages DEF ListedRight
    <3> QED BY <3>2, <3>3 DEF EntryRow
  <2>2. CASE ~\E e \in EntryIds : Shown(e, f, n)
    BY <1>1, <2>2, AllImages DEF ListedRight
  <2> QED BY <2>1, <2>2
<1>3. Listing \in [Folders -> [Names -> Contents \cup {None}]]
  BY <1>2 DEF Listing
<1>4. Requests = [i \in IntentIds |-> Promise!NoRequest]
  BY DEF Init, Requests, fate, NoIntent, Promise!NoRequest
<1>5. Grants = {}
  BY DEF Init, Grants, NoMoveJob
<1> QED BY <1>3, <1>4, <1>5 DEF Promise!Init, Listing, Requests, Grants

\* What holds to begin with of the names that are resolved, the folders that are
\* moved to and the marks.
LEMMA InitMarks == Init => Resolved /\ Away /\ Marked
BY NoneType DEF Init, Resolved, Away, Marked, Ready, NoIntent, NoMoveJob, Blank

\* Image galleries on shared storage implement Directory: whatever is retried,
\* resumed, reserved, queued or lost on the way, every change to a listing is one
\* step, an upload lands once or not at all, and nothing is displaced unless a
\* replacement was asked for (all of the mutations of this specification).
THEOREM GalleryKeepsPromise == ASSUME ImagesOnShared PROVE Spec => KeepsPromise
<1>1. Init /\ TypeInv /\ UniqueReadyNames => Promise!Init
  BY PromiseInit
<1>2. TypeInv /\ UniqueReadyNames /\ Resolved /\ Away /\ Marked /\ [Next]_vars
      => Resolved' /\ Away' /\ Marked'
  <2> SUFFICES ASSUME TypeInv, Resolved, Away, Marked, [Next]_vars
               PROVE  Resolved' /\ Away' /\ Marked'
    OBVIOUS
  <2>1. Step /\ Bound
    BY NextStep, NextBound
  <2> QED BY <2>1, AwayStep, ResolvedStep, MarkedStep
<1>3. TypeInv /\ TypeInv' /\ UniqueReadyNames /\ UniqueReadyNames' /\ Resolved /\ Marked
      /\ [Next]_vars => [Promise!Next]_(Promise!vars)
  <2> SUFFICES ASSUME TypeInv, TypeInv', UniqueReadyNames, UniqueReadyNames', Resolved,
                      Marked, [Next]_vars
               PROVE  [Promise!Next]_(Promise!vars)
    OBVIOUS
  <2>1. UNCHANGED Promise!vars \/ Promise!Changes
    BY NextStep, PromiseStep
  <2> QED BY <2>1 DEF Promise!Next
<1> QED BY <1>1, <1>2, <1>3, InitMarks, RowsCorrect, NamesStayUnique, PTL
       DEF Spec, KeepsPromise, Promise!Spec

=============================================================================
