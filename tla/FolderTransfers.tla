--------------------------- MODULE FolderTransfers ---------------------------
(***************************************************************************)
(* The rest of the tab's transfer list: folders it deletes or moves        *)
(* (src/pages/GalleryPage.tsx), and the whole tab.  On shared storage the  *)
(* mutation is all there is to do.  On user storage it returns one         *)
(* operation per folder, and the tab has the storage server carry them out *)
(* one after the other; one that was claimed and fails goes on without the *)
(* tab, with the recovery loop of a worker (FilesystemOperations).         *)
(*                                                                         *)
(* A row that failed before there was an operation asks for one again when *)
(* it is retried, another calls the operation it has.  A folder that has   *)
(* gone from the listing proves its row.                                   *)
(***************************************************************************)
EXTENDS Transfers

CONSTANTS
    Folders,                    \* those of the shown folder
    Selections,                    \* what the user may do with them: [kind, folders]
    STORAGE_JOB_MAX_ATTEMPTS

ASSUME FolderTransfersAssumption ==
    /\ STORAGE_JOB_MAX_ATTEMPTS \in Nat \ {0}
    /\ IsFiniteSet(Folders)
    /\ \A c \in Selections : c.kind \in {"delete", "move", "stay"} /\ c.folders \subseteq Folders

VARIABLES
    folderRows,
    calls,        \* deletes, moves and retries of the tab that have not ended
    operations,   \* folder -> filesystemOperations asked for, oldest first
    away          \* folders that have left the listing

folderVars == <<folderRows, calls, operations, away>>
allVars == <<vars, folderVars>>

NoFolderRow == [status |-> "none", kind |-> None, operation |-> 0]

\* One call of queueFolderMove, deleteSelection, retryFolderMove, retryFolderDelete or
\* retryFilesystemOperation: the rows it still has to settle, the operations it still
\* has to run.
newCall(origin, kind, fs) ==
    [origin |-> origin, kind |-> kind, left |-> fs, todo |-> <<>>, at |-> "asking"]

FolderInit ==
    /\ folderRows = [f \in Folders |-> NoFolderRow]
    /\ calls = {}
    /\ operations = [f \in Folders |-> <<>>]
    /\ away = {}

TabInit == Init /\ FolderInit

-----------------------------------------------------------------------------
\* evaluate again: a failed row whose folder has gone has succeeded.
settledBy(items, gone) ==
    [f \in Folders |-> IF items[f].status = "error" /\ f \in gone
                       THEN [items[f] EXCEPT !.status = "success"] ELSE items[f]]

withRows(fs, row) == [f \in Folders |-> IF f \in fs THEN row ELSE folderRows[f]]
became(kind, status, operation) == [status |-> status, kind |-> kind, operation |-> operation]

\* queueFolderMove and deleteSelection, up to their mutation.
begin(selection) ==
    /\ selection.folders \cap away = {} /\ selection.folders # {}
    /\ \A f \in selection.folders : folderRows[f].status = "none"
    /\ folderRows' = withRows(selection.folders, became(selection.kind, "active", 0))
    /\ calls' = calls \cup {newCall("all", selection.kind, selection.folders)}
    /\ UNCHANGED <<operations, away>>

\* The mutation throws: every row asks again when it is retried.
mutationFails(c) ==
    /\ c.at = "asking"
    /\ calls' = calls \ {c}
    /\ folderRows' = settledBy(withRows(c.left, became(c.kind, "error", 0)), away)
    /\ UNCHANGED <<operations, away>>

\* removeMany of a folder that is gone.
refusedAsGone(c) == c.kind = "delete" /\ c.left \cap away # {} /\ mutationFails(c)

\* moveMany finds them all in the destination: nothing is shown of a first attempt.
nothingToMove(c) ==
    /\ c.at = "asking" /\ (c.kind = "stay" \/ (c.kind = "move" /\ c.left \subseteq away))
    /\ calls' = calls \ {c}
    /\ folderRows' = withRows(c.left,
           became(c.kind, IF c.origin = "all" THEN "gone" ELSE "success", 0))
    /\ UNCHANGED <<operations, away>>

answerable(c) ==
    /\ c.at = "asking" /\ c.kind # "stay"
    /\ IF c.kind = "delete" THEN c.left \cap away = {} ELSE ~(c.left \subseteq away)

\* removeMany and moveMany on shared storage.
doneAtOnce(c) ==
    /\ answerable(c) /\ ~budget.userStorage
    /\ calls' = calls \ {c}
    /\ away' = away \cup c.left
    /\ folderRows' = settledBy(withRows(c.left, became(c.kind, "success", 0)), away')
    /\ UNCHANGED operations

Pending == [state |-> "pending", attempts |-> 0]

\* On user storage: one operation for each folder that is not there yet.
operationsMade(c) ==
    LET fs == c.left \ away
        made == [f \in Folders |-> IF f \in fs THEN Append(operations[f], Pending)
                                   ELSE operations[f]]
    IN  /\ answerable(c) /\ budget.userStorage
        /\ operations' = made
        /\ calls' = (calls \ {c}) \cup {[c EXCEPT !.at = "running",
               !.todo = SetToSeq({<<f, Len(made[f])>> : f \in fs})]}
        /\ UNCHANGED <<folderRows, away>>

-----------------------------------------------------------------------------
operation(x) == operations[x[1]][x[2]]
setOperation(x, row) == operations' = [operations EXCEPT ![x[1]][x[2]] = row]

claimed(x) == [operation(x) EXCEPT !.state = "claimed", !.attempts = @ + 1]

\* The next operation is claimed, by the storage server for the tab.
callOperation(c) ==
    LET x == Head(c.todo)
    IN  /\ c.at = "running" /\ c.todo # <<>>
        /\ operation(x).state \in {"pending", "stale"}
        /\ setOperation(x, claimed(x))
        /\ calls' = (calls \ {c}) \cup {[c EXCEPT !.at = "waiting"]}
        /\ UNCHANGED <<folderRows, away>>

\* Fault: the row is left with those the end of the call settles.
settledTwice(c, fs) == c.left

\* The folder's row is settled with its operation; what the call ends with is the rest.
stillToSettle(c, fs) == c.left \ fs

\* The row of the first operation is settled, and the call goes on to the next.
goesOn(c, row, gone) ==
    LET f == Head(c.todo)[1]
    IN  /\ calls' = (calls \ {c}) \cup {[c EXCEPT !.at = "running", !.todo = Tail(@),
                                                  !.left = stillToSettle(c, {f})]}
        /\ folderRows' = settledBy(withRows({f}, row), gone)

\* failTransfer: a retry of the mutation is retried as such, everything else calls
\* the operation again.
operationFails(c) ==
    LET x == Head(c.todo)
    IN  goesOn(c, became(c.kind, "error", IF c.origin = "again" THEN 0 ELSE x[2]), away)

\* "Filesystem operation is invalid or expired": others have it, or it has ended.  The
\* row of a folder that was deleted may be gone by then, too.
operationRefused(c) ==
    /\ c.at = "running" /\ c.todo # <<>>
    /\ \/ operation(Head(c.todo)).state \notin {"pending", "stale"}
       \/ c.kind = "delete" /\ Head(c.todo)[1] \in away
    /\ operationFails(c)
    /\ UNCHANGED <<operations, away>>

\* The connection is lost; the storage server goes on.
loseOperation(c) ==
    /\ c.at = "waiting"
    /\ operationFails(c)
    /\ UNCHANGED <<operations, away>>

\* The tab's calls that wait for operation x.
waitingFor(x) == {c \in calls : c.at = "waiting" /\ Head(c.todo) = x}

\* runFilesystemOperation, for the tab or for a worker: the directory and the row are
\* changed, and whoever waits is answered.
operationDone(x) ==
    LET cs == waitingFor(x)
    IN  /\ operation(x).state = "claimed"
        /\ setOperation(x, [operation(x) EXCEPT !.state = "complete"])
        /\ away' = away \cup {x[1]}
        /\ IF cs = {} THEN folderRows' = settledBy(folderRows, away') /\ UNCHANGED calls
           ELSE LET c == CHOOSE c \in cs : TRUE
                IN  goesOn(c, became(c.kind, "success", 0), away')

\* failFilesystemOperation: claimable again after a delay for as long as there are
\* attempts.
operationNotDone(x) ==
    LET cs == waitingFor(x)
    IN  /\ operation(x).state = "claimed"
        /\ setOperation(x, [operation(x) EXCEPT !.state =
               IF operation(x).attempts < STORAGE_JOB_MAX_ATTEMPTS THEN "delayed" ELSE "failed"])
        /\ IF cs = {} THEN UNCHANGED <<folderRows, calls>>
           ELSE operationFails(CHOOSE c \in cs : TRUE)
        /\ UNCHANGED away

\* The delay is over.
operationStale(x) ==
    /\ operation(x).state = "delayed"
    /\ setOperation(x, [operation(x) EXCEPT !.state = "stale"])
    /\ UNCHANGED <<folderRows, calls, away>>

\* claimRecoverableFilesystemOperation.
recoverOperation(x) ==
    /\ operation(x).state = "stale"
    /\ setOperation(x, claimed(x))
    /\ UNCHANGED <<folderRows, calls, away>>

\* Not called within a quarter of an hour: the one before it took that long.
expireOperation(x) ==
    /\ operation(x).state = "pending"
    /\ setOperation(x, [operation(x) EXCEPT !.state = "failed"])
    /\ UNCHANGED <<folderRows, calls, away>>

\* "Every transfer is settled now": rows without an operation were in the destination.
callEnds(c) ==
    /\ c.at = "running" /\ c.todo = <<>>
    /\ calls' = calls \ {c}
    /\ folderRows' = withRows(c.left, became(c.kind, "success", 0))
    /\ UNCHANGED <<operations, away>>

\* retryFolderMove and retryFolderDelete, or retryFilesystemOperation.
retryFolder(f) ==
    LET row == folderRows[f]
        anew == newCall("again", row.kind, {f})
    IN  /\ row.status = "error"
        /\ folderRows' = [folderRows EXCEPT ![f].status = "active"]
        /\ calls' = calls \cup
               {IF row.operation = 0 THEN anew
                ELSE [anew EXCEPT !.origin = "operation", !.at = "running",
                                  !.todo = <<<<f, row.operation>>>>]}
        /\ UNCHANGED <<operations, away>>

clearFinishedFolders ==
    /\ folderRows' = [f \in Folders |-> IF transferFinished(folderRows[f])
                                        THEN became(folderRows[f].kind, "gone", 0)
                                        ELSE folderRows[f]]
    /\ UNCHANGED <<calls, operations, away>>

-----------------------------------------------------------------------------
spend(field) == budget[field] > 0 /\ budget' = [budget EXCEPT ![field] = @ - 1]

liveOperations == UNION {{f} \X DOMAIN operations[f] : f \in Folders}

Clear ==
    /\ (\E i \in Items : transferFinished(rows[i]))
          \/ \E f \in Folders : transferFinished(folderRows[f])
    /\ clearFinishedTransfers /\ clearFinishedFolders

User ==
    \/ \E b \in budget.drops : drop(b) /\ UNCHANGED <<budget, folderVars>>
    \/ budget.folders /\ \E c \in Selections : begin(c) /\ UNCHANGED vars
    \/ /\ spend("clicks")
       /\ \/ /\ \/ \E p \in Policies : \/ resolveAllTransferConflicts(p)
                                        \/ \E i \in Items : resolve(i, p)
                \/ skipAllTransferConflicts
                \/ \E i \in Items : retryTransfer(i)
             /\ UNCHANGED folderVars
          \/ (\E f \in Folders : retryFolder(f)) /\ UNCHANGED <<clientVars, serverVars>>
          \/ Clear

\* What the tab goes on with by itself.
Tab(b) ==
    \/ pump(b) \/ folderCreated(b)
    \/ \E u \in {u \in runs : BatchOf[u.item] = b} :
          resolveTargetFolder(u) \/ call(u) \/ refused(u) \/ send(u) \/ refusedBusy(u)

FolderTab(c) ==
    \/ refusedAsGone(c) \/ nothingToMove(c) \/ doneAtOnce(c) \/ operationsMade(c)
    \/ callOperation(c) \/ operationRefused(c) \/ callEnds(c)

\* A request whose client is gone may fail by itself.
Server(r) == claimName(r) \/ land(r) \/ ((\A u \in runs : u.request # r) /\ serveFails(r))

Workers(x) == operationStale(x) \/ recoverOperation(x)

Trouble ==
    \/ /\ spend("failures")
       /\ \/ /\ \/ \E b \in Batches : folderFails(b)
                \/ \E r \in RequestIds : serveFails(r)
                \/ \E u \in runs : lose(u)
             /\ UNCHANGED folderVars
          \/ /\ \/ \E c \in calls : mutationFails(c) \/ loseOperation(c)
                \/ \E x \in liveOperations : operationNotDone(x) \/ expireOperation(x)
             /\ UNCHANGED <<clientVars, serverVars>>
    \/ /\ spend("others") /\ UNCHANGED folderVars
       /\ (\E n \in Names : othersChange(n)) \/ (\E r \in RequestIds : newNameTaken(r))

TabGoes ==
    \/ (\E b \in Batches : Tab(b)) /\ UNCHANGED <<budget, folderVars>>
    \/ (\E c \in calls : FolderTab(c)) /\ UNCHANGED vars

ServerGoes ==
    \/ (\E r \in RequestIds : Server(r)) /\ UNCHANGED <<budget, folderVars>>
    \/ (\E x \in liveOperations : operationDone(x)) /\ UNCHANGED vars

WorkersGo == (\E x \in liveOperations : Workers(x)) /\ UNCHANGED vars

Next == User \/ Trouble \/ TabGoes \/ ServerGoes \/ WorkersGo

\* The tab stays open, and a request that has a place ends (its task has a timeout).
Spec == TabInit /\ [][Next]_allVars /\ WF_allVars(TabGoes) /\ WF_allVars(ServerGoes)

-----------------------------------------------------------------------------
jobsFor(i) == {k \in DOMAIN pending[BatchOf[i]] : pending[BatchOf[i]][k].item = i}
runsFor(i) == {u \in runs : u.item = i}
callsFor(f) == {c \in calls : f \in c.left}

\* What the list shows is so: a pending row has exactly one job or call behind it, over
\* retries, choices and answers that never come, and no other row has any ("Every
\* transfer is settled now; a throw below must not re-fail them", GalleryPage.tsx:1416);
\* and a folder shown as deleted or moved has left.
RowsTell ==
    /\ \A i \in Items : Cardinality(jobsFor(i)) + Cardinality(runsFor(i))
                            = IF transferPending(rows[i]) THEN 1 ELSE 0
    /\ \A f \in Folders :
          /\ Cardinality(callsFor(f)) = IF transferPending(folderRows[f]) THEN 1 ELSE 0
          /\ folderRows[f].status = "success" /\ folderRows[f].kind # "stay" => f \in away

\* The slots of the work queues and of the server are those of the work that has them,
\* and no request waits while one is free (concurrency.ts:25-54, transfers.ts:293-325).
SlotsCounted ==
    /\ \A b \in Batches : inFlight[b] = slotsOf(runs, b) /\ inFlight[b] <= Concurrency
    /\ active = Cardinality({r \in RequestIds : requests[r].at \in {"serving", "claimed"}})
    /\ active <= MaxConcurrentUploads
    /\ waiters # <<>> => active = MaxConcurrentUploads

\* Once the user has chosen to skip, nothing of that drop is parked: "Drops every parked
\* item and tells running batches to skip conflicts from now on" (transfers.ts:224-227).
SkipSticks ==
    \A i \in Items : choice[BatchOf[i]] = "skip" => rows[i].status # "conflict"

\* What holds of it: only a file for which the user had chosen to rename is parked after
\* that, because the new name was taken too.  Choices come while calls are on their way,
\* queues wait and retries run (GalleryPage.tsx:886-897).
SkipSparesChosen ==
    \A i \in Items : choice[BatchOf[i]] = "skip" /\ rows[i].status = "conflict" =>
        rows[i].policy = "rename"

\* A row says that its file is stored only if it has been: "When the live listing proves
\* the work happened" (GalleryPage.tsx:1086-1089).
SuccessMeansLanded ==
    \A i \in Items : rows[i].status = "success" => i \in landed

\* A retry can still do what failed: "Re-attempts the failed operation; present when
\* the failure is retryable" (transfers.ts:19).
RetryCanWork ==
    \A f \in Folders : folderRows[f].status = "error" /\ folderRows[f].operation # 0 =>
        operation(<<f, folderRows[f].operation>>).state # "failed"

\* Every upload, delete and move comes to an end, or waits for its user: each slot the
\* work queue and the server give is given back, and each call settles its rows.
TransfersSettle ==
    /\ \A i \in Items : transferPending(rows[i]) ~> ~transferPending(rows[i])
    /\ \A f \in Folders : transferPending(folderRows[f]) ~> ~transferPending(folderRows[f])
=============================================================================
