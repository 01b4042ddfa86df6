------------------------ MODULE FilesystemOperations ------------------------
(***************************************************************************)
(* Changes of the tree of a gallery on user storage.  A client's mutation  *)
(* (folders.ts, entries.ts) inserts a row of filesystemOperations; the     *)
(* client then has the storage server carry it out                         *)
(* (storage/userFilesystem.ts): claim the row, look at the disk, change    *)
(* it, report what is there, and the catalog follows (filesystemSync.ts).  *)
(* A row whose lease has lapsed is claimed again, by the client or by the  *)
(* recovery loop of a worker, and done again: source and destination are   *)
(* computed afresh, and a source that is gone counts as done if the        *)
(* destination is there.                                                   *)
(*                                                                         *)
(* The last stat and the report are one step.                              *)
(***************************************************************************)
EXTENDS UserDisk

CONSTANTS
    OperationIds,
    Runners,                 \* requests of the storage server and recovery loops
    STORAGE_JOB_MAX_ATTEMPTS,
    OperationKinds           \* what clients of the instance ask for

ASSUME OperationsAssumption ==
    /\ STORAGE_JOB_MAX_ATTEMPTS \in Nat \ {0}
    /\ OperationKinds \subseteq {"mkdir", "rename", "rmdir", "move", "fileRename"}
    /\ \A b \in Budgets : {b.requests, b.crashes} \subseteq Nat

VARIABLES
    operations,   \* filesystemOperations
    runners,
    strayed       \* folders whose directory is elsewhere, inodes replaced or removed by mistake

operationVars == <<operations, runners, strayed>>

NoOperation == [state |-> "absent", kind |-> "mkdir", parent |-> None, folder |-> None,
                entry |-> None, name |-> None, policy |-> "inherit", attempts |-> 0,
                lapsed |-> FALSE]

Idle == [at |-> "idle", operation |-> None, source |-> <<>>, destination |-> <<>>]

OperationsInit ==
    /\ operations = [o \in OperationIds |-> NoOperation]
    /\ runners = [r \in Runners |-> Idle]
    /\ strayed = {}

-----------------------------------------------------------------------------
insertOperation(o, row) ==
    /\ operations[o].state = "absent" /\ row.kind \in OperationKinds
    /\ operations' = [operations EXCEPT ![o] = row]
    /\ UNCHANGED <<runners, strayed, files, tasks, stats, rebuilds, disk>>

asked(kind, parent, name) ==
    [NoOperation EXCEPT !.state = "pending", !.kind = kind, !.parent = parent, !.name = name]

requestCreate(o, p, name, policy) ==
    /\ canCreate(p, name)
    /\ insertOperation(o, [asked("mkdir", p, name) EXCEPT !.policy = policy])
    /\ UNCHANGED folders

requestRemove(o, f) ==
    /\ canRemove(f)
    /\ insertOperation(o, [asked("rmdir", folders[f].parent, folders[f].name)
                           EXCEPT !.folder = f])
    /\ UNCHANGED folders

requestMove(o, f, d) ==
    /\ canMove(f, d)
    /\ insertOperation(o, [asked("move", d, folders[f].name) EXCEPT !.folder = f])
    /\ UNCHANGED folders

\* The settings apply at once; the operation carries the name alone.
requestRename(o, f, name, policy) ==
    /\ f # Root /\ name # folders[f].name /\ canUpdate(f, name, policy)
    /\ insertOperation(o, [asked("rename", folders[f].parent, name) EXCEPT !.folder = f])
    /\ folders' = [folders EXCEPT ![f].policy = policy]

requestFileRename(o, e, name) ==
    /\ ReadyFile(e) /\ ~files[e].moving /\ name # files[e].name
    /\ \A other \in filesIn(files[e].folder) : files[other].name # name
    /\ insertOperation(o, [asked("fileRename", files[e].folder, name) EXCEPT !.entry = e])
    /\ UNCHANGED folders

\* recoverStaleRequests: the client never came to have it carried out.
expire(o) ==
    /\ operations[o].state = "pending"
    /\ operations' = [operations EXCEPT ![o].state = "failed"]
    /\ UNCHANGED <<runners, strayed, treeVars, disk>>

-----------------------------------------------------------------------------
\* requireUserDirectory, and getFilesystemFolderSegments finds every ancestor.
hasPath(f) == Visible(f) /\ ancestryValid(f)

mayMark(o, e) ==
    \/ files[e].moving /\ files[e].operation = o
    \/ ~files[e].moving /\ files[e].operation = None

\* What filesystemOperationClaim throws at is not claimable.
claimable(o) ==
    LET op == operations[o]
        f == op.folder
    IN  /\ hasPath(op.parent)
        /\ op.kind = "fileRename" =>
              ReadyFile(op.entry) /\ files[op.entry].folder = op.parent /\ mayMark(o, op.entry)
        /\ op.kind \in {"rename", "rmdir"} =>
              /\ Present(f) /\ folders[f].parent = op.parent /\ f # Root
              /\ ancestryValid(f)
        /\ op.kind = "move" =>
              /\ hasPath(f) /\ f # Root /\ folders[f].name = op.name
              /\ op.parent # f /\ ~hasAncestor(op.parent, f)

sourceOf(op) ==
    IF op.kind = "fileRename" THEN Append(pathOf(op.parent), files[op.entry].name)
    ELSE IF op.kind = "mkdir" THEN <<>> ELSE pathOf(op.folder)

destinationOf(op) == Append(pathOf(op.parent), op.name)

filesystemOperationClaim(r, o) ==
    LET op == operations[o]
    IN  /\ runners[r] = Idle /\ claimable(o)
        /\ operations' = [operations EXCEPT ![o].state = "uploading", ![o].lapsed = FALSE,
                                            ![o].attempts = @ + 1]
        /\ files' = IF op.kind # "fileRename" THEN files
                    ELSE [files EXCEPT ![op.entry].moving = TRUE, ![op.entry].operation = o]
        /\ runners' = [runners EXCEPT ![r] =
               [at |-> "claimed", operation |-> o,
                source |-> sourceOf(op), destination |-> destinationOf(op)]]
        /\ UNCHANGED <<folders, tasks, stats, rebuilds, strayed, disk>>

claimFilesystemOperation(r, o) ==
    /\ \/ operations[o].state = "pending"
       \/ operations[o].state = "uploading" /\ operations[o].lapsed
          /\ operations[o].attempts < STORAGE_JOB_MAX_ATTEMPTS   \* bound: clients give up
    /\ filesystemOperationClaim(r, o)

Stale(o) == operations[o].state = "uploading" /\ operations[o].lapsed

claimRecoverableFilesystemOperation(r, o) ==
    /\ Stale(o) /\ operations[o].attempts < STORAGE_JOB_MAX_ATTEMPTS
    /\ filesystemOperationClaim(r, o)

\* Out of attempts: failed while claimed, and the entry it marked stays marked.
giveUp(o) ==
    /\ Stale(o) /\ operations[o].attempts >= STORAGE_JOB_MAX_ATTEMPTS
    /\ operations' = [operations EXCEPT ![o].state = "failed"]
    /\ UNCHANGED <<runners, strayed, treeVars, disk>>

\* The lease outlives neither a crash nor a runner that has stalled.
lapse(o) ==
    /\ operations[o].state = "uploading" /\ ~operations[o].lapsed
    /\ operations' = [operations EXCEPT ![o].lapsed = TRUE]
    /\ UNCHANGED <<runners, strayed, treeVars, disk>>

\* renewFilesystemOperation: the row is asked for its state, not for its runner.
renew(r) ==
    LET o == runners[r].operation
    IN  /\ runners[r].at \in {"claimed", "looked", "acted"}
        /\ Stale(o)
        /\ operations' = [operations EXCEPT ![o].lapsed = FALSE]
        /\ UNCHANGED <<runners, strayed, treeVars, disk>>

-----------------------------------------------------------------------------
Running(r, at) == runners[r].at = at
kindOf(r) == operations[runners[r].operation].kind
\* A runner that stalled comes back to an operation others have completed.
outlived(r) == operations[runners[r].operation].state # "uploading"

goes(r, to) == runners' = [runners EXCEPT ![r].at = to]

\* executeFilesystemOperation, up to what changes the item itself.  rmdir has
\* nothing to look at, and the destination of the others gets its directory.
look(r) ==
    LET to == runners[r].destination
        made == madeDirectories(disk, parentPath(to))
        source == stat(made, runners[r].source)
        there == stat(made, to)
    IN  /\ Running(r, "claimed") /\ kindOf(r) # "rmdir"
        /\ missingDirectories(disk, parentPath(to))
              <= Cardinality(unusedInodes(disk, DirInodes))   \* bound: DirInodes
        /\ disk' = made
        /\ goes(r, IF kindOf(r) = "mkdir" THEN "looked"
                   ELSE IF source = None THEN IF there # None THEN "acted" ELSE "failing"
                   ELSE IF there \in {None, source} THEN "looked" ELSE "failing")
        /\ UNCHANGED <<operations, strayed, treeVars>>

makeDirectory(r) ==
    LET to == runners[r].destination
        d == stat(disk, parentPath(to))
        there == stat(disk, to)
    IN  /\ Running(r, "looked") /\ kindOf(r) = "mkdir"
        /\ d = None \/ there # None \/ unusedInodes(disk, DirInodes) # {}   \* bound
        /\ disk' = IF d = None \/ there # None THEN disk
                   ELSE placed(disk, CHOOSE i \in unusedInodes(disk, DirInodes) : TRUE,
                               d, to[Len(to)])
        /\ goes(r, IF d = None THEN "failing" ELSE "acted")
        /\ UNCHANGED <<operations, strayed, treeVars>>

\* What stands at the destination by now is replaced, as rename(2) does.
renameOnDisk(r) ==
    LET to == runners[r].destination
        source == stat(disk, runners[r].source)
        d == stat(disk, parentPath(to))
        there == stat(disk, to)
        possible == /\ source # None /\ d # None /\ d \notin insideOf(disk, source)
                    /\ there \in {None, source} \/ canReplace(disk, source, there)
    IN  /\ Running(r, "looked") /\ kindOf(r) # "mkdir"
        /\ disk' = IF possible THEN renamed(disk, source, to) ELSE disk
        /\ goes(r, IF possible \/ (source = None /\ there # None) THEN "acted" ELSE "failing")
        /\ strayed' = IF ~possible THEN strayed
                      ELSE strayed \cup ({there} \ {None, source})
                           \cup (IF outlived(r) THEN insideOf(disk, source) ELSE {})
        /\ UNCHANGED <<operations, treeVars>>

\* Whatever is at the path by now: after a rename, or when the runner has been
\* outlived, it is another folder's directory.
removeDirectory(r) ==
    LET there == stat(disk, runners[r].destination)
        op == operations[runners[r].operation]
        meant == ~outlived(r) /\ there = folders[op.folder].identity
    IN  /\ Running(r, "claimed") /\ kindOf(r) = "rmdir"
        /\ disk' = IF there = None THEN disk ELSE removed(disk, there)
        /\ goes(r, "acted")
        /\ strayed' = IF there = None \/ meant THEN strayed
                      ELSE strayed \cup insideOf(disk, there)
        /\ UNCHANGED <<operations, treeVars>>

-----------------------------------------------------------------------------
Settled(o) == operations' = [operations EXCEPT ![o].state = "complete", ![o].lapsed = FALSE]

\* Reported, and there: every kind but rmdir says what it found at the destination.
Reporting(r, o, kind) ==
    /\ Running(r, "acted") /\ runners[r].operation = o
    /\ operations[o].kind = kind /\ operations[o].state = "uploading"
    /\ kind # "rmdir" => stat(disk, runners[r].destination) # None
    /\ Present(operations[o].parent)

found(r) == stat(disk, runners[r].destination)

mayCompleteFileRename(o) ==
    LET e == operations[o].entry
    IN  /\ ReadyFile(e) /\ files[e].folder = operations[o].parent
        /\ files[e].moving /\ files[e].operation = o
        /\ ancestryValid(operations[o].parent)

completeFileRename(r, o) ==
    LET op == operations[o]
    IN  /\ Reporting(r, o, "fileRename") /\ mayCompleteFileRename(o)
        /\ files' = [files EXCEPT ![op.entry].name = op.name,
                                  ![op.entry].key = getFilesystemStorageKey(pathOf(op.parent), op.name),
                                  ![op.entry].identity = found(r),
                                  ![op.entry].moving = FALSE, ![op.entry].operation = None]
        /\ Settled(o) /\ runners' = [runners EXCEPT ![r] = Idle]
        /\ UNCHANGED <<folders, tasks, stats, rebuilds, strayed, disk>>

\* The path has changed under the operation, or another directory was taken for the
\* folder's: a source that is gone and any directory at the destination are "done".
straying(r, p, f, identity) ==
    IF /\ Append(pathOf(p), operations[runners[r].operation].name) = runners[r].destination
       /\ identity \in {None, found(r)}
    THEN strayed ELSE strayed \cup {f}

\* A folder of that name is used, hidden or not; else the folder gets its row.
completeCreate(r, o) ==
    LET op == operations[o]
        p == op.parent
        existing == siblingsNamed(p, op.name)
        f == IF existing # {} THEN CHOOSE g \in existing : TRUE
             ELSE CHOOSE g \in FolderIds : ~Present(g)
    IN  /\ Reporting(r, o, "mkdir") /\ (existing # {} \/ \E g \in FolderIds : ~Present(g))
        /\ folders' = [folders EXCEPT ![f] =
               IF existing # {} THEN [@ EXCEPT !.policy = op.policy, !.missing = FALSE,
                                               !.identity = found(r)]
               ELSE [newFolder(p, op.name, op.policy) EXCEPT !.identity = found(r)]]
        /\ Write(IF existing # {} THEN reparentFolderStats(counters, f, p, FALSE)
                 ELSE [counters EXCEPT !.stats[f] = EmptyStats])
        /\ strayed' = straying(r, p, f, None)
        /\ Settled(o) /\ runners' = [runners EXCEPT ![r] = Idle]
        /\ UNCHANGED <<files, tasks, disk>>

completeRemove(r, o) ==
    LET f == operations[o].folder
        visible == Visible(f)
    IN  /\ Reporting(r, o, "rmdir")
        /\ folders' = IF visible THEN [folders EXCEPT ![f].missing = TRUE] ELSE folders
        /\ Write(IF visible THEN reparentFolderStats(counters, f, folders[f].parent, TRUE)
                 ELSE counters)
        /\ tasks' = IF Present(f) THEN tasks \cup {task("cleanupMissingFolder", f)} ELSE tasks
        /\ Settled(o) /\ runners' = [runners EXCEPT ![r] = Idle]
        /\ UNCHANGED <<files, strayed, disk>>

mayCompleteMove(o) ==
    LET f == operations[o].folder
    IN  Present(f) /\ operations[o].parent # f /\ ~hasAncestor(operations[o].parent, f)

completeMove(r, o) ==
    LET f == operations[o].folder
        d == operations[o].parent
    IN  /\ Reporting(r, o, "move") /\ mayCompleteMove(o)
        /\ folders' = [folders EXCEPT ![f].parent = d, ![f].ancestors = ancestorsUnder(d),
                                      ![f].identity = found(r), ![f].missing = FALSE]
        /\ Write(reparentFolderStats(counters, f, d, FALSE))
        /\ tasks' = tasks \cup {task("reparentSubtree", f)}
        /\ strayed' = straying(r, d, f, folders[f].identity)
        /\ Settled(o) /\ runners' = [runners EXCEPT ![r] = Idle]
        /\ UNCHANGED <<files, disk>>

completeRename(r, o) ==
    LET f == operations[o].folder
    IN  /\ Reporting(r, o, "rename") /\ Present(f)
        /\ folders' = [folders EXCEPT ![f].name = operations[o].name,
                                      ![f].identity = found(r), ![f].missing = FALSE]
        /\ Write(reparentFolderStats(counters, f, folders[f].parent, FALSE))
        /\ tasks' = tasks \cup {task("reparentSubtree", f)}
        /\ strayed' = straying(r, folders[f].parent, f, folders[f].identity)
        /\ Settled(o) /\ runners' = [runners EXCEPT ![r] = Idle]
        /\ UNCHANGED <<files, disk>>

completeFilesystemOperation(r, o) ==
    \/ completeFileRename(r, o) \/ completeCreate(r, o) \/ completeRemove(r, o)
    \/ completeMove(r, o) \/ completeRename(r, o)

\* The destination is not there after all, or the mutation throws.
reportFails(r) ==
    LET o == runners[r].operation
        kind == operations[o].kind
    IN  /\ Running(r, "acted")
        /\ \/ ~Reporting(r, o, kind)
           \/ kind = "fileRename" /\ ~mayCompleteFileRename(o)
           \/ kind = "move" /\ ~mayCompleteMove(o)
           \/ kind = "rename" /\ ~Present(operations[o].folder)
        /\ goes(r, "failing")
        /\ UNCHANGED <<operations, strayed, treeVars, disk>>

-----------------------------------------------------------------------------
\* Fault: the entry of a failed rename is not released.
keepEntry(o) == files

releaseEntry(o) ==
    LET e == operations[o].entry
    IN  IF operations[o].kind = "fileRename" /\ files[e].operation = o
        THEN [files EXCEPT ![e].moving = FALSE, ![e].operation = None]
        ELSE files

\* Retried after a delay for as long as there are attempts, and then failed.
failFilesystemOperation(r) ==
    LET o == runners[r].operation
        again == operations[o].attempts < STORAGE_JOB_MAX_ATTEMPTS
    IN  /\ Running(r, "failing")
        /\ IF operations[o].state = "complete" THEN UNCHANGED <<operations, files>>
           ELSE /\ operations' = [operations EXCEPT
                       ![o].state = IF again THEN "uploading" ELSE "failed",
                       ![o].lapsed = FALSE]
                /\ files' = IF again THEN files ELSE releaseEntry(o)
        /\ runners' = [runners EXCEPT ![r] = Idle]
        /\ UNCHANGED <<folders, tasks, stats, rebuilds, strayed, disk>>

\* The process ends, or the call that reports is lost.
runnerStops(r) ==
    /\ runners[r] # Idle
    /\ runners' = [runners EXCEPT ![r] = Idle]
    /\ UNCHANGED <<operations, strayed, treeVars, disk>>

Run(r) ==
    \/ look(r) \/ makeDirectory(r) \/ renameOnDisk(r) \/ removeDirectory(r)
    \/ \E o \in OperationIds : completeFilesystemOperation(r, o)
    \/ reportFails(r) \/ failFilesystemOperation(r)

Request(o) ==
    \/ \E f \in FolderIds, name \in FolderNames, policy \in FolderPolicies :
          requestCreate(o, f, name, policy) \/ requestRename(o, f, name, policy)
    \/ \E f \in FolderIds : requestRemove(o, f) \/ \E d \in FolderIds : requestMove(o, f, d)
    \/ \E e \in FileIds, name \in FileNames : requestFileRename(o, e, name)

Claim(r) ==
    \E o \in OperationIds :
        claimFilesystemOperation(r, o) \/ claimRecoverableFilesystemOperation(r, o)

-----------------------------------------------------------------------------
\* Nothing is under way, and nothing was given up half way.
Quiet ==
    /\ tasks = {} /\ \A r \in Runners : runners[r] = Idle
    /\ \A o \in OperationIds : operations[o].state \in {"absent", "complete"}
                               \/ (operations[o].state = "failed" /\ operations[o].attempts = 0)

notAstray(f) == \A g \in strayed : f # g /\ ~hasAncestor(f, g)

Known(identity) == identity \notin strayed \cup {None}

\* Once operations have been carried out and their walks have ended, every folder
\* is the directory at its path and every file is at its key: the disk, the rows
\* and the keys below them were changed in separate steps, in any order of two
\* operations, with crashes between.  Left out are folders an operation put along a
\* path that was changed under it (mkdir -p brings the old path back) or mistook for
\* the directory that is there now, and what was replaced or removed at a path that
\* had become another item's.
CatalogOnDisk ==
    Quiet =>
        /\ \A f \in FolderIds : Visible(f) /\ notAstray(f) /\ Known(folders[f].identity) =>
              directoryOf(f) = folders[f].identity
        /\ \A e \in FileIds : ReadyFile(e) /\ notAstray(files[e].folder)
                              /\ Known(files[e].identity) =>
              stat(disk, files[e].key) = files[e].identity

\* An entry that is marked as being renamed has an operation that will release it,
\* or that was given up when its attempts had been used (giveUp); no other path
\* leaves a file that can be neither moved nor deleted.
MarkedByOperation ==
    \A e \in FileIds : files[e].moving =>
        LET o == files[e].operation
        IN  /\ operations[o].entry = e
            /\ \/ operations[o].state = "uploading"
               \/ operations[o].state = "failed" /\ operations[o].lapsed
=============================================================================
