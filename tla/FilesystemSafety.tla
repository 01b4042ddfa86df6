-------------------------- MODULE FilesystemSafety --------------------------
(***************************************************************************)
(* Files that are being renamed on user storage, for every value of the    *)
(* constants: requests, claims, retries, crashes, scans and clean-ups      *)
(* leave no file marked without the operation it is marked for.  What is   *)
(* on the disk does not matter for that.                                   *)
(***************************************************************************)
EXTENDS FilesystemSync, TLAPS

(***************************************************************************)
(* The inductive invariant                                                 *)
(***************************************************************************)

\* The tables are functions to rows with these fields.
RowsShape ==
    /\ DOMAIN files = FileIds /\ \A e \in FileIds : DOMAIN files[e] = DOMAIN NoFile
    /\ DOMAIN operations = OperationIds
    /\ \A o \in OperationIds : DOMAIN operations[o] = DOMAIN NoOperation

\* The operation is a rename of this very file, claimed or given up: what releases an
\* entry asks for the kind, and what claims one for the mark.
Owned(e) ==
    LET o == files[e].operation
    IN  /\ o \in OperationIds
        /\ operations[o].kind = "fileRename" /\ operations[o].entry = e
        /\ \/ operations[o].state = "uploading"
           \/ operations[o].state = "failed" /\ operations[o].lapsed

MarkInv ==
    /\ RowsShape
    /\ \A e \in FileIds : files[e].moving => Owned(e)

(***************************************************************************)
(* What other parts do to files and operations                             *)
(***************************************************************************)

\* A step that marks nothing new and leaves the operations alone.
LEMMA UnmarkingKeeps ==
    ASSUME MarkInv, UNCHANGED operations, DOMAIN files' = FileIds,
           \A e \in FileIds : /\ DOMAIN files'[e] = DOMAIN NoFile
                              /\ files'[e].moving => /\ files[e].moving
                                                     /\ files'[e].operation = files[e].operation
    PROVE  MarkInv'
BY DEF MarkInv, RowsShape, Owned

\* A step that leaves the files alone, and every operation its kind and entry; one
\* that was claimed stays claimed, or has been given up.
LEMMA OperationsKeep ==
    ASSUME MarkInv, UNCHANGED files, DOMAIN operations' = OperationIds,
           \A o \in OperationIds :
              /\ DOMAIN operations'[o] = DOMAIN NoOperation
              /\ operations[o].state \in {"uploading", "failed"} =>
                    /\ operations'[o].kind = operations[o].kind
                    /\ operations'[o].entry = operations[o].entry
              /\ operations[o].state = "uploading" =>
                    \/ operations'[o].state = "uploading"
                    \/ operations'[o].state = "failed" /\ operations'[o].lapsed
                    \/ \A e \in FileIds : ~(files[e].moving /\ files[e].operation = o)
              /\ operations[o].state = "failed" /\ operations[o].lapsed =>
                    \/ operations'[o].state = "uploading"
                    \/ operations'[o].state = "failed" /\ operations'[o].lapsed
    PROVE  MarkInv'
<1>1. RowsShape'
  BY DEF MarkInv, RowsShape
<1>2. ASSUME NEW e \in FileIds, files'[e].moving PROVE Owned(e)'
  BY <1>2 DEF MarkInv, Owned
<1> QED BY <1>1, <1>2 DEF MarkInv

\* Walks and clean-ups drop entries, or change their paths.
LEMMA TreeWorkKeeps ==
    ASSUME MarkInv, UNCHANGED operations, NEW f \in FolderIds,
           walk(f) \/ cleanupMissingFolder(f)
    PROVE  MarkInv'
<1>1. CASE UNCHANGED files
  BY <1>1, UnmarkingKeeps DEF MarkInv, RowsShape
<1>2. CASE reparentSubtree(f)
  <2> DEFINE path == folderPathKey(f)
             keyed(e) == IF UserStorage
                         THEN getFilesystemStorageKey(getFilesystemFolderSegments(f),
                                                      files[e].name)
                         ELSE files[e].key
  <2>1. files' = [e \in FileIds |->
            IF files[e].folder # f THEN files[e]
            ELSE [files[e] EXCEPT !.pathKey = path, !.key = keyed(e)]]
    BY <1>2 DEF reparentSubtree
  <2> HIDE DEF path, keyed
  <2>2. \A e \in FileIds : /\ DOMAIN files'[e] = DOMAIN files[e]
                           /\ files'[e].moving = files[e].moving
                           /\ files'[e].operation = files[e].operation
    BY <2>1 DEF MarkInv, RowsShape, NoFile
  <2> QED BY <2>1, <2>2, UnmarkingKeeps DEF MarkInv, RowsShape
<1>3. CASE cleanupFiles(f)
  <2>1. files' = [e \in FileIds |-> IF e \in filesIn(f) THEN NoFile ELSE files[e]]
    BY <1>3 DEF cleanupFiles
  <2> QED BY <2>1, UnmarkingKeeps DEF MarkInv, RowsShape, NoFile
<1> QED
  BY <1>1, <1>2, <1>3 DEF walk, walkEnds, resetChildAccessPolicies, cleanupMissingFolder,
     cleanupOver, cleanupChildren, cleanupRow

\* A scan finds entries, forgets those whose files have gone, and knows of no marks.
LEMMA ScanKeeps ==
    ASSUME MarkInv, NEW w \in Scanners, Scan(w)
    PROVE  MarkInv'
<1>0. UNCHANGED operations
  BY Zenon DEF Scan, finish, passOver, claimFilesystemSync, compareFilesystemDirectory, list,
     reconcileFilesystemDirectories, checkFilesystemFiles, reconcileFilesystemFile, lookAgain,
     sweepEntries, sweepFolders, failFilesystemSync, operationVars
<1>1. CASE UNCHANGED files
  BY <1>0, <1>1, UnmarkingKeeps DEF MarkInv, RowsShape
<1>2. ASSUME NEW c \in scanners[w].unread, reconcileFilesystemFile(w, c) PROVE MarkInv'
  <2> DEFINE existing == rowFor(w, c)
             e == IF existing # {} THEN CHOOSE x \in existing : TRUE
                  ELSE CHOOSE x \in FileIds : ~ReadyFile(x)
             row == IF existing # {} THEN files[e] ELSE [NoFile EXCEPT !.status = "ready"]
             f == scanners[w].folder
             path == folderPathKey(f)
             key == keyIn(w, c.name)
             size == c.size
             name == c.name
             inode == c.inode
  <2>1. files' = [files EXCEPT ![e] =
            [row EXCEPT !.folder = f, !.pathKey = path, !.name = name,
                        !.key = key, !.size = size, !.identity = inode]]
    BY <1>2 DEF reconcileFilesystemFile
  <2>2. row = files[e] \/ row = [NoFile EXCEPT !.status = "ready"]
    OBVIOUS
  <2> HIDE DEF existing, e, row, f, path, key, size, name, inode
  <2>3. DOMAIN files' = FileIds /\ \A x \in FileIds \ {e} : files'[x] = files[x]
    BY <2>1 DEF MarkInv, RowsShape
  <2>4. CASE e \in FileIds
    <3>1. DOMAIN row = DOMAIN NoFile
      BY <2>2, <2>4 DEF MarkInv, RowsShape, NoFile
    <3>2. files'[e] = [row EXCEPT !.folder = f, !.pathKey = path, !.name = name,
                                  !.key = key, !.size = size, !.identity = inode]
      BY <2>1, <2>4 DEF MarkInv, RowsShape
    <3>3. /\ DOMAIN files'[e] = DOMAIN NoFile
          /\ files'[e].moving = row.moving /\ files'[e].operation = row.operation
      BY <3>1, <3>2 DEF NoFile
    <3>4. row = files[e] \/ ~row.moving
      BY <2>2 DEF NoFile
    <3> QED BY <1>0, <2>3, <3>3, <3>4, UnmarkingKeeps DEF MarkInv, RowsShape
  <2> QED BY <1>0, <2>3, <2>4, UnmarkingKeeps DEF MarkInv, RowsShape
<1>3. CASE sweepEntries(w)
  <2> DEFINE gone == filesIn(scanners[w].folder) \ syncStates[scanners[w].folder].seen
  <2>1. files' = [e \in FileIds |-> IF e \in gone THEN NoFile ELSE files[e]]
    BY <1>3 DEF sweepEntries
  <2> QED BY <1>0, <2>1, UnmarkingKeeps DEF MarkInv, RowsShape, NoFile
<1> QED
  BY <1>1, <1>2, <1>3 DEF Scan, finish, passOver, claimFilesystemSync,
     compareFilesystemDirectory, list, reconcileFilesystemDirectories, checkFilesystemFiles,
     lookAgain, sweepFolders, failFilesystemSync, treeVars

(***************************************************************************)
(* The operations themselves                                               *)
(***************************************************************************)

\* A request takes an operation nobody has marked an entry for.
LEMMA RequestKeeps ==
    ASSUME MarkInv, NEW o \in OperationIds, Request(o)
    PROVE  MarkInv'
<1>1. PICK row : insertOperation(o, row) /\ DOMAIN row = DOMAIN NoOperation
  <2>1. ASSUME NEW p, NEW name, NEW policy, requestCreate(o, p, name, policy)
        PROVE  \E row : insertOperation(o, row) /\ DOMAIN row = DOMAIN NoOperation
    <3> DEFINE row == [asked("mkdir", p, name) EXCEPT !.policy = policy]
    <3>1. insertOperation(o, row) BY <2>1 DEF requestCreate
    <3>2. DOMAIN row = DOMAIN NoOperation BY DEF asked, NoOperation
    <3> QED BY <3>1, <3>2
  <2>2. ASSUME NEW f, requestRemove(o, f)
        PROVE  \E row : insertOperation(o, row) /\ DOMAIN row = DOMAIN NoOperation
    <3> DEFINE row == [asked("rmdir", folders[f].parent, folders[f].name) EXCEPT !.folder = f]
    <3>1. insertOperation(o, row) BY <2>2 DEF requestRemove
    <3>2. DOMAIN row = DOMAIN NoOperation BY DEF asked, NoOperation
    <3> QED BY <3>1, <3>2
  <2>3. ASSUME NEW f, NEW d, requestMove(o, f, d)
        PROVE  \E row : insertOperation(o, row) /\ DOMAIN row = DOMAIN NoOperation
    <3> DEFINE row == [asked("move", d, folders[f].name) EXCEPT !.folder = f]
    <3>1. insertOperation(o, row) BY <2>3 DEF requestMove
    <3>2. DOMAIN row = DOMAIN NoOperation BY DEF asked, NoOperation
    <3> QED BY <3>1, <3>2
  <2>4. ASSUME NEW f, NEW name, NEW policy, requestRename(o, f, name, policy)
        PROVE  \E row : insertOperation(o, row) /\ DOMAIN row = DOMAIN NoOperation
    <3> DEFINE row == [asked("rename", folders[f].parent, name) EXCEPT !.folder = f]
    <3>1. insertOperation(o, row) BY <2>4 DEF requestRename
    <3>2. DOMAIN row = DOMAIN NoOperation BY DEF asked, NoOperation
    <3> QED BY <3>1, <3>2
  <2>5. ASSUME NEW e, NEW name, requestFileRename(o, e, name)
        PROVE  \E row : insertOperation(o, row) /\ DOMAIN row = DOMAIN NoOperation
    <3> DEFINE row == [asked("fileRename", files[e].folder, name) EXCEPT !.entry = e]
    <3>1. insertOperation(o, row) BY <2>5 DEF requestFileRename
    <3>2. DOMAIN row = DOMAIN NoOperation BY DEF asked, NoOperation
    <3> QED BY <3>1, <3>2
  <2> QED BY <2>1, <2>2, <2>3, <2>4, <2>5 DEF Request
<1>2. /\ operations[o].state = "absent" /\ UNCHANGED files
      /\ operations' = [operations EXCEPT ![o] = row]
  BY <1>1 DEF insertOperation
<1>3. DOMAIN operations' = OperationIds /\ operations'[o] = row
      /\ \A p \in OperationIds \ {o} : operations'[p] = operations[p]
  BY <1>2 DEF MarkInv, RowsShape
<1> QED BY <1>1, <1>2, <1>3, OperationsKeep DEF MarkInv, RowsShape

\* Claimed by a request or a recovery loop: a file's operation marks its entry, which
\* no other operation has marked.
LEMMA ClaimKeeps ==
    ASSUME MarkInv, NEW r \in Runners, NEW o \in OperationIds, filesystemOperationClaim(r, o)
    PROVE  MarkInv'
<1> DEFINE e == operations[o].entry
<1>1. /\ operations' = [operations EXCEPT ![o].state = "uploading", ![o].lapsed = FALSE,
                                          ![o].attempts = @ + 1]
      /\ operations[o].kind # "fileRename" => UNCHANGED files
      /\ operations[o].kind = "fileRename" =>
            /\ files' = [files EXCEPT ![e].moving = TRUE, ![e].operation = o]
            /\ mayMark(o, e)
  BY DEF filesystemOperationClaim, claimable
<1>2. /\ DOMAIN operations' = OperationIds
      /\ DOMAIN operations'[o] = DOMAIN NoOperation
      /\ operations'[o].state = "uploading" /\ operations'[o].kind = operations[o].kind
      /\ operations'[o].entry = operations[o].entry
      /\ \A p \in OperationIds \ {o} : operations'[p] = operations[p]
  BY <1>1 DEF MarkInv, RowsShape, NoOperation
<1>3. CASE operations[o].kind # "fileRename"
  BY <1>1, <1>2, <1>3, OperationsKeep DEF MarkInv, RowsShape
<1>4. CASE operations[o].kind = "fileRename"
  <2> HIDE DEF e
  <2>1. DOMAIN files' = FileIds /\ \A x \in FileIds \ {e} : files'[x] = files[x]
    BY <1>1, <1>4 DEF MarkInv, RowsShape
  <2>2. e \in FileIds => /\ DOMAIN files'[e] = DOMAIN NoFile
                         /\ files'[e].operation = o
    BY <1>1, <1>4 DEF MarkInv, RowsShape, NoFile
  <2>3. RowsShape'
    BY <1>2, <2>1, <2>2 DEF MarkInv, RowsShape
  <2>4. ASSUME NEW x \in FileIds, files'[x].moving PROVE Owned(x)'
    <3>1. CASE x = e
      BY <1>2, <1>4, <2>2, <3>1 DEF Owned, e
    <3>2. CASE x # e
      BY <1>2, <2>1, <2>4, <3>2 DEF Owned, MarkInv
    <3> QED BY <3>1, <3>2
  <2> QED BY <2>3, <2>4 DEF MarkInv
<1> QED BY <1>3, <1>4

\* A rename that is reported frees its entry; the other kinds have none.
LEMMA CompletionKeeps ==
    ASSUME MarkInv, NEW r \in Runners, NEW o \in OperationIds, completeFilesystemOperation(r, o)
    PROVE  MarkInv'
<1>1. operations' = [operations EXCEPT ![o].state = "complete", ![o].lapsed = FALSE]
  BY DEF completeFilesystemOperation, completeFileRename, completeCreate, completeRemove,
     completeMove, completeRename, Settled
<1>2. /\ DOMAIN operations' = OperationIds /\ DOMAIN operations'[o] = DOMAIN NoOperation
      /\ operations'[o].kind = operations[o].kind /\ operations'[o].entry = operations[o].entry
      /\ \A p \in OperationIds \ {o} : operations'[p] = operations[p]
  BY <1>1 DEF MarkInv, RowsShape, NoOperation
<1>3. CASE completeFileRename(r, o)
  <2> DEFINE e == operations[o].entry
             name == operations[o].name
             key == getFilesystemStorageKey(pathOf(operations[o].parent), operations[o].name)
             inode == found(r)
  <2>1. files' = [files EXCEPT ![e].name = name, ![e].key = key, ![e].identity = inode,
                               ![e].moving = FALSE, ![e].operation = None]
    BY <1>3 DEF completeFileRename
  <2> HIDE DEF e, name, key, inode
  <2>2. DOMAIN files' = FileIds /\ \A x \in FileIds \ {e} : files'[x] = files[x]
    BY <2>1 DEF MarkInv, RowsShape
  <2>3. e \in FileIds => DOMAIN files'[e] = DOMAIN NoFile /\ ~files'[e].moving
    BY <2>1 DEF MarkInv, RowsShape, NoFile
  <2>4. RowsShape'
    BY <1>2, <2>2, <2>3 DEF MarkInv, RowsShape
  <2>5. ASSUME NEW x \in FileIds, files'[x].moving PROVE Owned(x)'
    <3>1. x # e /\ files'[x] = files[x]
      BY <2>2, <2>3, <2>5
    <3>2. Owned(x)
      BY <2>5, <3>1 DEF MarkInv
    <3>3. files[x].operation # o
      BY <3>1, <3>2 DEF Owned, e
    <3> QED BY <1>2, <3>1, <3>2, <3>3 DEF Owned
  <2> QED BY <2>4, <2>5 DEF MarkInv
<1>4. CASE ~completeFileRename(r, o)
  <2>1. UNCHANGED files /\ operations[o].kind # "fileRename"
    BY <1>4 DEF completeFilesystemOperation, completeCreate, completeRemove, completeMove,
       completeRename, Reporting
  <2>2. \A x \in FileIds : files[x].moving => files[x].operation # o
    BY <2>1 DEF MarkInv, Owned
  <2>3. operations[o].state = "uploading"
    BY DEF completeFilesystemOperation, completeFileRename, completeCreate, completeRemove,
       completeMove, completeRename, Reporting
  <2> QED BY <1>2, <2>1, <2>2, <2>3, OperationsKeep DEF MarkInv, RowsShape
<1> QED BY <1>3, <1>4

\* What failed waits for its retry with the entry marked, or fails and frees it.
LEMMA FailureKeeps ==
    ASSUME MarkInv, NEW r \in Runners, failFilesystemOperation(r)
    PROVE  MarkInv'
<1> DEFINE o == runners[r].operation
           again == operations[o].attempts < STORAGE_JOB_MAX_ATTEMPTS
           e == operations[o].entry
           next == IF again THEN "uploading" ELSE "failed"
<1>1. CASE operations[o].state = "complete"
  BY <1>1, UnmarkingKeeps DEF failFilesystemOperation, MarkInv, RowsShape
<1>2. CASE operations[o].state # "complete"
  <2>1. /\ operations' = [operations EXCEPT ![o].state = next, ![o].lapsed = FALSE]
        /\ again => UNCHANGED files
        /\ ~again => files' = releaseEntry(o)
    BY <1>2 DEF failFilesystemOperation
  <2> HIDE DEF again, e
  <2>2. /\ DOMAIN operations' = OperationIds
        /\ \A p \in OperationIds \ {o} : operations'[p] = operations[p]
        /\ o \in OperationIds => /\ DOMAIN operations'[o] = DOMAIN NoOperation
                                 /\ operations'[o].kind = operations[o].kind
                                 /\ operations'[o].entry = operations[o].entry
                                 /\ operations'[o].state = next
    BY <2>1 DEF MarkInv, RowsShape, NoOperation
  <2>3. CASE again
    BY <2>1, <2>2, <2>3, OperationsKeep DEF MarkInv, RowsShape
  <2>4. CASE ~again
    <3>1. \/ /\ operations[o].kind = "fileRename" /\ files[e].operation = o
             /\ files' = [files EXCEPT ![e].moving = FALSE, ![e].operation = None]
          \/ /\ ~(operations[o].kind = "fileRename" /\ files[e].operation = o)
             /\ files' = files
      BY <2>1, <2>4 DEF releaseEntry, e
    <3>2. /\ DOMAIN files' = FileIds
          /\ \A x \in FileIds : /\ DOMAIN files'[x] = DOMAIN NoFile
                                /\ files'[x].moving => files'[x] = files[x]
      BY <3>1 DEF MarkInv, RowsShape, NoFile
    <3>3. RowsShape'
      BY <2>2, <3>2 DEF MarkInv, RowsShape
    <3>4. ASSUME NEW x \in FileIds, files'[x].moving PROVE Owned(x)'
      <4>1. Owned(x) /\ files'[x] = files[x]
        BY <3>2, <3>4 DEF MarkInv
      <4>2. files[x].operation # o
        <5> SUFFICES ASSUME files[x].operation = o PROVE FALSE
          OBVIOUS
        <5>1. operations[o].kind = "fileRename" /\ x = e
          BY <4>1 DEF Owned, e
        <5>2. files' = [files EXCEPT ![e].moving = FALSE, ![e].operation = None]
          BY <3>1, <5>1
        <5> QED BY <3>4, <5>1, <5>2 DEF MarkInv, RowsShape, NoFile
      <4> QED BY <2>2, <4>1, <4>2 DEF Owned
    <3> QED BY <3>3, <3>4 DEF MarkInv
  <2> QED BY <2>3, <2>4
<1> QED BY <1>1, <1>2

\* Leases lapse and are renewed; who runs out of attempts, or never begins, has failed.
LEMMA LeasesKeep ==
    ASSUME MarkInv, NEW o \in OperationIds,
           \/ expire(o) \/ giveUp(o) \/ lapse(o)
           \/ \E r \in Runners : runners[r].operation = o /\ renew(r)
    PROVE  MarkInv'
<1>0. UNCHANGED files
  BY DEF expire, giveUp, lapse, renew, treeVars
<1>1. \/ /\ operations[o].state = "pending"
         /\ operations' = [operations EXCEPT ![o].state = "failed"]
      \/ /\ operations[o].state = "uploading" /\ operations[o].lapsed
         /\ operations' = [operations EXCEPT ![o].state = "failed"]
      \/ /\ operations[o].state = "uploading"
         /\ \/ operations' = [operations EXCEPT ![o].lapsed = TRUE]
            \/ operations' = [operations EXCEPT ![o].lapsed = FALSE]
  BY DEF expire, giveUp, lapse, renew, Stale
<1>2. /\ DOMAIN operations' = OperationIds /\ DOMAIN operations'[o] = DOMAIN NoOperation
      /\ \A p \in OperationIds \ {o} : operations'[p] = operations[p]
      /\ operations'[o].kind = operations[o].kind /\ operations'[o].entry = operations[o].entry
  BY <1>1 DEF MarkInv, RowsShape, NoOperation
<1>3. operations[o].state = "uploading" => \/ operations'[o].state = "uploading"
                                           \/ operations'[o].state = "failed" /\ operations'[o].lapsed
  BY <1>1 DEF MarkInv, RowsShape, NoOperation
<1>4. operations[o].state # "failed"
  BY <1>1
<1> QED BY <1>0, <1>2, <1>3, <1>4, OperationsKeep DEF MarkInv, RowsShape

(***************************************************************************)
(* The theorem                                                             *)
(***************************************************************************)
LEMMA MarkInit ==
    ASSUME SyncTreeInit
    PROVE  MarkInv
<1>1. operations = [o \in OperationIds |-> NoOperation]
  BY DEF SyncTreeInit, OperationsInit
<1> DEFINE path(f) == Append(SeedFolders[f].ancestors, f)
           names(f) == [i \in 2..Len(path(f)) |-> SeedFolders[path(f)[i]].name]
           file(e) == [NoFile EXCEPT
                         !.status = "ready", !.folder = SeedFiles[e].folder,
                         !.name = SeedFiles[e].name, !.size = SeedFiles[e].size,
                         !.pathKey = path(SeedFiles[e].folder),
                         !.identity = SeedFiles[e].identity,
                         !.key = Append([i \in 1..(Len(path(SeedFiles[e].folder)) - 1) |->
                                            names(SeedFiles[e].folder)[i + 1]],
                                        SeedFiles[e].name)]
<1>2. files = [e \in FileIds |-> IF e \notin DOMAIN SeedFiles THEN NoFile ELSE file(e)]
  BY DEF SyncTreeInit, DiskInit, Init
<1>3. \A e \in FileIds : DOMAIN file(e) = DOMAIN NoFile /\ ~file(e).moving
  BY DEF NoFile
<1> HIDE DEF file
<1>4. DOMAIN files = FileIds
      /\ \A e \in FileIds : DOMAIN files[e] = DOMAIN NoFile /\ ~files[e].moving
  BY <1>2, <1>3 DEF NoFile
<1> QED BY <1>1, <1>4 DEF MarkInv, RowsShape

LEMMA MarkStep ==
    ASSUME MarkInv, SyncNext
    PROVE  MarkInv'
<1>1. ASSUME UNCHANGED <<files, operations>> PROVE MarkInv'
  BY <1>1 DEF MarkInv, RowsShape, Owned
<1>2. CASE intervene("edits") /\ Outside
  BY <1>1, <1>2 DEF Outside, treeVars, operationVars
<1>3. ASSUME NEW o \in OperationIds, Request(o) PROVE MarkInv'
  BY <1>3, RequestKeeps
<1>4. CASE rescanAllDirectories \/ \E f \in FolderIds : queueFilesystemSync(f)
  BY <1>1, <1>4 DEF rescanAllDirectories, queueFilesystemSync, treeVars, operationVars
<1>5. CASE \/ \E r \in Runners : runnerStops(r)
           \/ \E w \in Scanners : scannerStops(w)
           \/ \E f \in FolderIds : lapseSync(f)
  BY <1>1, <1>5 DEF runnerStops, scannerStops, lapseSync, treeVars, operationVars
<1>6. ASSUME NEW o \in OperationIds, expire(o) \/ giveUp(o) \/ lapse(o) PROVE MarkInv'
  BY <1>6, LeasesKeep
<1>7. ASSUME NEW r \in Runners, Claim(r) PROVE MarkInv'
  BY <1>7, ClaimKeeps DEF Claim, claimFilesystemOperation, claimRecoverableFilesystemOperation
<1>8. ASSUME NEW r \in Runners, renew(r) PROVE MarkInv'
  <2>1. CASE runners[r].operation \in OperationIds
    BY <1>8, <2>1, LeasesKeep
  <2>2. CASE runners[r].operation \notin OperationIds
    <3>1. /\ UNCHANGED files /\ DOMAIN operations' = OperationIds
          /\ \A o \in OperationIds : operations'[o] = operations[o]
      BY <1>8, <2>2 DEF renew, treeVars, MarkInv, RowsShape
    <3> QED BY <3>1, OperationsKeep DEF MarkInv, RowsShape
  <2> QED BY <2>1, <2>2
<1>9. ASSUME NEW r \in Runners, Run(r) PROVE MarkInv'
  <2>1. CASE look(r) \/ makeDirectory(r) \/ renameOnDisk(r) \/ removeDirectory(r) \/ reportFails(r)
    BY <1>1, <2>1 DEF look, makeDirectory, renameOnDisk, removeDirectory, reportFails, treeVars
  <2> QED BY <1>9, <2>1, CompletionKeeps, FailureKeeps DEF Run
<1>10. ASSUME NEW w \in Scanners, Scan(w) PROVE MarkInv'
  BY <1>10, ScanKeeps
<1>11. ASSUME NEW w \in Scanners, NEW f \in FolderIds, claimJob(w, f) PROVE MarkInv'
  BY <1>1, <1>11 DEF claimJob, treeVars, operationVars
<1>12. ASSUME NEW f \in FolderIds, Background(f) PROVE MarkInv'
  <2>1. CASE lapseJob(f) \/ exhaustJob(f)
    BY <1>1, <2>1 DEF lapseJob, exhaustJob, treeVars, operationVars
  <2>2. CASE CleanUp(f) \/ (walk(f) /\ UNCHANGED operationVars)
    BY <2>2, TreeWorkKeeps DEF CleanUp, operationVars
  <2> QED BY <1>12, <2>1, <2>2 DEF Background
<1> QED
  BY <1>2, <1>3, <1>4, <1>5, <1>6, <1>7, <1>8, <1>9, <1>10, <1>11, <1>12 DEF SyncNext

\* A file that is marked as being renamed has the operation that marked it, claimed
\* still or given up with its lease lapsed: no order of requests, claims, retries,
\* crashes, scans and clean-ups leaves one that nothing will ever release
\* (convex/filesystemSync.ts, completeFilesystemOperation and failFilesystemOperation).
THEOREM MarksAreOwned == SyncSpec => []MarkedByOperation
<1>1. SyncTreeInit => MarkInv
  BY MarkInit
<1>2. MarkInv /\ [SyncNext]_vars => MarkInv'
  <2> SUFFICES ASSUME MarkInv, [SyncNext]_vars PROVE MarkInv'
    OBVIOUS
  <2>1. CASE SyncNext
    BY <2>1, MarkStep
  <2>2. CASE UNCHANGED vars
    BY <2>2 DEF vars, treeVars, operationVars, MarkInv, RowsShape, Owned
  <2> QED BY <2>1, <2>2
<1>3. MarkInv => MarkedByOperation
  BY DEF MarkInv, Owned, MarkedByOperation
<1> QED BY <1>1, <1>2, <1>3, PTL DEF SyncSpec
=============================================================================
