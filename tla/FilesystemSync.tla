--------------------------- MODULE FilesystemSync ---------------------------
(***************************************************************************)
(* Scans of a gallery on user storage: the jobs (convex/storageJobs.ts),   *)
(* the worker that walks the directories (storage/userFilesystem.ts) and   *)
(* the mutations that bring the catalog up to date                         *)
(* (convex/filesystemSync.ts).                                             *)
(*                                                                         *)
(* A scan of one folder holds a lease named by its sync id.  It compares   *)
(* the directory's modification time with the one of the last scan that    *)
(* completed, lists the directory, reconciles directories and files,       *)
(* checks that the directory has not changed since, and sweeps what it has *)
(* not seen.  Its children follow, each under a lease of its own; one that *)
(* fails gets a job of its own.  Operations change the same disk and the   *)
(* same rows meanwhile.                                                    *)
(*                                                                         *)
(* A directory fits one batch and one page.  A scanner has one lease at a  *)
(* time, so its name stands for the sync id; what a superseded id has seen *)
(* is deleted by cleanupScanItems and never read again.                    *)
(***************************************************************************)
EXTENDS FilesystemOperations

CONSTANTS
    Scanners,
    KeepNames    \* people with a shell do not reuse the names of files

ASSUME SyncAssumption ==
    /\ KeepNames \in BOOLEAN
    /\ \A b \in Budgets : {b.scans, b.edits} \subseteq Nat

VARIABLES
    syncStates,   \* filesystemSyncStates
    jobs,         \* filesystemSyncJobs: at most one that is active per folder
    scanners

syncVars == <<syncStates, jobs, scanners>>

NoSyncState == [active |-> None, lapsed |-> FALSE, known |-> None, seen |-> {}]
NoJob == [status |-> "none", attempts |-> 0, lapsed |-> FALSE]
Resting == [at |-> "idle", root |-> None, todo |-> {}, visited |-> {}, folder |-> None,
            path |-> <<>>, before |-> None, listing |-> {}, unread |-> {}, children |-> {}]

modifiedAt(k, d) == <<d, k[d].revision>>

SyncInit ==
    /\ syncStates = [f \in FolderIds |-> NoSyncState]
    /\ jobs = [f \in FolderIds |-> NoJob]
    /\ scanners = [w \in Scanners |-> Resting]

-----------------------------------------------------------------------------
queued(job) == IF job.status \in {"queued", "processing"} THEN job
               ELSE [NoJob EXCEPT !.status = "queued"]

\* A client opens or scans a folder.
queueFilesystemSync(f) ==
    /\ Visible(f) /\ queued(jobs[f]) # jobs[f]
    /\ jobs' = [jobs EXCEPT ![f] = queued(@)]
    /\ UNCHANGED <<syncStates, scanners, treeVars, operationVars, disk>>

\* The repair that forgets every directory's time.
rescanAllDirectories ==
    /\ \E f \in FolderIds : syncStates[f].known # None
    /\ syncStates' = [f \in FolderIds |-> [syncStates[f] EXCEPT !.known = None]]
    /\ UNCHANGED <<jobs, scanners, treeVars, operationVars, disk>>

\* Fault: a job whose worker ended is not taken up again.
queuedOnly(f) == jobs[f].status = "queued"

Waiting(f) == jobs[f].status = "queued" \/ (jobs[f].status = "processing" /\ jobs[f].lapsed)

claimJob(w, f) ==
    /\ scanners[w] = Resting /\ Waiting(f) /\ jobs[f].attempts < STORAGE_JOB_MAX_ATTEMPTS
    /\ jobs' = [jobs EXCEPT ![f].status = "processing", ![f].attempts = @ + 1,
                            ![f].lapsed = FALSE]
    /\ scanners' = [scanners EXCEPT ![w] = [Resting EXCEPT !.at = "walking", !.root = f,
                                                           !.todo = {f}]]
    /\ UNCHANGED <<syncStates, treeVars, operationVars, disk>>

exhaustJob(f) ==
    /\ Waiting(f) /\ jobs[f].attempts >= STORAGE_JOB_MAX_ATTEMPTS
    /\ jobs' = [jobs EXCEPT ![f].status = "failed", ![f].lapsed = FALSE]
    /\ UNCHANGED <<syncStates, scanners, treeVars, operationVars, disk>>

\* The lease of a job that no scanner renews.
lapseJob(f) ==
    /\ jobs[f].status = "processing" /\ ~jobs[f].lapsed
    /\ \A w \in Scanners : scanners[w].root # f
    /\ jobs' = [jobs EXCEPT ![f].lapsed = TRUE]
    /\ UNCHANGED <<syncStates, scanners, treeVars, operationVars, disk>>

\* completeFilesystemSync of storageJobs.ts, with and without an error.
endedJob(job, ok) ==
    IF job = NoJob \/ ok THEN NoJob
    ELSE [job EXCEPT !.status = IF job.attempts >= STORAGE_JOB_MAX_ATTEMPTS THEN "failed"
                                ELSE "queued", !.lapsed = FALSE]

finish(w) ==
    /\ scanners[w].at = "walking" /\ scanners[w].todo = {}
    /\ jobs' = [jobs EXCEPT ![scanners[w].root] = endedJob(@, TRUE)]
    /\ scanners' = [scanners EXCEPT ![w] = Resting]
    /\ UNCHANGED <<syncStates, treeVars, operationVars, disk>>

-----------------------------------------------------------------------------
busy(f) == syncStates[f].active # None /\ ~syncStates[f].lapsed

\* A child that cannot be claimed is left out; the folder the job is for fails.
passOver(w, f) ==
    /\ scanners[w].at = "walking" /\ f \in scanners[w].todo
    /\ ~hasPath(f) \/ busy(f)
    /\ IF f = scanners[w].root
       THEN /\ jobs' = [jobs EXCEPT ![f] = endedJob(@, FALSE)]
            /\ scanners' = [scanners EXCEPT ![w] = Resting]
       ELSE /\ scanners' = [scanners EXCEPT ![w].todo = @ \ {f}, ![w].visited = @ \cup {f}]
            /\ UNCHANGED jobs
    /\ UNCHANGED <<syncStates, treeVars, operationVars, disk>>

claimFilesystemSync(w, f) ==
    /\ scanners[w].at = "walking" /\ f \in scanners[w].todo
    /\ hasPath(f) /\ ~busy(f)
    /\ syncStates' = [syncStates EXCEPT ![f].active = w, ![f].lapsed = FALSE, ![f].seen = {}]
    /\ scanners' = [scanners EXCEPT ![w].at = "claimed", ![w].folder = f, ![w].path = pathOf(f),
                                    ![w].todo = @ \ {f}, ![w].visited = @ \cup {f}]
    /\ UNCHANGED <<jobs, treeVars, operationVars, disk>>

At(w, at) == scanners[w].at = at

\* requireActiveSync: else the mutation throws.
requireActiveSync(w) ==
    LET s == syncStates[scanners[w].folder]
    IN  Visible(scanners[w].folder) /\ s.active = w /\ ~s.lapsed

released(s) == [s EXCEPT !.active = None, !.lapsed = FALSE]

\* The children a scan goes on to.
walksOn(w, children) ==
    [scanners EXCEPT ![w] = [@ EXCEPT !.at = "walking", !.folder = None, !.path = <<>>,
                                      !.before = None, !.listing = {}, !.unread = {},
                                      !.children = {},
                                      !.todo = @ \cup (children \ scanners[w].visited)]]

\* An unchanged directory is left at once, and so are its children when they are
\* not what the job is about.
compareFilesystemDirectory(w) ==
    LET f == scanners[w].folder
        d == stat(disk, scanners[w].path)
    IN  /\ At(w, "claimed") /\ requireActiveSync(w) /\ d # None
        /\ IF syncStates[f].known = modifiedAt(disk, d)
           THEN /\ syncStates' = [syncStates EXCEPT ![f] = released(@)]
                /\ scanners' = walksOn(w, IF f = scanners[w].root THEN {}
                                          ELSE {c \in childrenOf(f) : ~folders[c].missing})
           ELSE /\ scanners' = [scanners EXCEPT ![w].at = "listing",
                                                ![w].before = modifiedAt(disk, d)]
                /\ UNCHANGED syncStates
        /\ UNCHANGED <<jobs, treeVars, operationVars, disk>>

item(i) == [inode |-> i, name |-> disk[i].name, size |-> disk[i].size]

\* readdir, and lstat of the directories in it.
list(w) ==
    LET d == stat(disk, scanners[w].path)
    IN  /\ At(w, "listing") /\ d # None
        /\ scanners' = [scanners EXCEPT ![w].at = "directories",
                                        ![w].listing = {item(i) : i \in inDirectory(disk, d)}]
        /\ UNCHANGED <<syncStates, jobs, treeVars, operationVars, disk>>

listed(w, kind) == {it \in scanners[w].listing : it.inode \in kind}

-----------------------------------------------------------------------------
\* By name first, then by identity, among the children of p; hidden ones too.
matching(rows, p, it) ==
    LET children == {c \in FolderIds : rows[c].status = "present" /\ rows[c].parent = p}
        named == {c \in children : rows[c].name = it.name}
    IN  IF named # {} THEN named ELSE {c \in children : rows[c].identity = it.inode}

reconcileDirectory(it, p, so_far) ==
    LET existing == matching(so_far.folders, p, it)
        spare == {g \in FolderIds : so_far.folders[g].status = "absent"}
        c == CHOOSE g \in IF existing # {} THEN existing ELSE spare : TRUE
        row == IF existing # {} THEN so_far.folders[c] ELSE newFolder(p, it.name, "inherit")
    IN  IF existing \cup spare = {} THEN [so_far EXCEPT !.full = TRUE] ELSE
        [folders |-> [so_far.folders EXCEPT ![c] =
                         [row EXCEPT !.name = it.name, !.identity = it.inode, !.missing = FALSE]],
         counters |-> IF existing # {}
                      THEN reparentFolderStats(so_far.counters, c, p, FALSE)
                      ELSE [so_far.counters EXCEPT !.stats[c] = EmptyStats],
         ids |-> so_far.ids \cup {c}, full |-> so_far.full]

reconcileFilesystemDirectories(w) ==
    LET f == scanners[w].folder
        start == [folders |-> folders, counters |-> counters, ids |-> {}, full |-> FALSE]
        step(it, so_far) == reconcileDirectory(it, f, so_far)
    IN  /\ At(w, "directories") /\ requireActiveSync(w)
        /\ \E all \in {FoldSet(step, start, listed(w, DirInodes))} :
              /\ ~all.full   \* bound: FolderIds
              /\ folders' = all.folders /\ Write(all.counters)
              /\ syncStates' = [syncStates EXCEPT ![f].seen = @ \cup all.ids]
              /\ scanners' = [scanners EXCEPT ![w].at = "files", ![w].children = all.ids]
        /\ UNCHANGED <<files, tasks, jobs, operationVars, disk>>

-----------------------------------------------------------------------------
keyIn(w, name) == getFilesystemStorageKey(scanners[w].path, name)
keyedBy(key) == {e \in FileIds : ReadyFile(e) /\ files[e].key = key}

\* The lstat of a listed file; none when it has gone since.
present(w, it) == stat(disk, keyIn(w, it.name))

\* The entry of that key (a second one throws), or the first of that identity.
known(f, key, i) ==
    LET same == {e \in filesIn(f) : files[e].identity = i}
    IN  IF keyedBy(key) # {} THEN keyedBy(key)
        ELSE IF same # {} THEN {CHOOSE e \in same : TRUE} ELSE {}

\* Fault: a file of the same size and identity is taken as it is.
sameContents(e, f, name, i) ==
    files[e].folder = f /\ files[e].size = disk[i].size /\ files[e].identity = i

unchanged(e, f, name, i) ==
    /\ files[e].folder = f /\ files[e].name = name
    /\ files[e].size = disk[i].size /\ files[e].identity = i

checked(w, it) ==
    LET i == present(w, it)
    IN  [name |-> it.name, inode |-> i, size |-> disk[i].size,
         entries |-> known(scanners[w].folder, keyIn(w, it.name), i)]

isSame(w, c) == \E e \in c.entries : unchanged(e, scanners[w].folder, c.name, c.inode)

\* The whole batch is answered before any file of it is reconciled.
checkFilesystemFiles(w) ==
    LET f == scanners[w].folder
    IN  /\ At(w, "files") /\ requireActiveSync(w)
        /\ \A it \in listed(w, FileInodes) : present(w, it) # None
        /\ \E batch \in {{checked(w, it) : it \in listed(w, FileInodes)}} :
              \E same \in {{c \in batch : isSame(w, c)}} :
                 /\ \A c \in batch : Cardinality(c.entries) <= 1
                 /\ syncStates' = [syncStates EXCEPT ![f].seen = @ \cup UNION {c.entries : c \in same}]
                 /\ scanners' = [scanners EXCEPT
                       ![w].at = "reading",
                       ![w].unread = {[c EXCEPT !.entries = {e \in @ : files[e].folder = f}] :
                                         c \in batch \ same}]
        /\ UNCHANGED <<jobs, treeVars, operationVars, disk>>

\* What the check found, if it is in this folder still, or who has the key by now.
rowFor(w, c) ==
    LET told == {e \in c.entries : ReadyFile(e) /\ files[e].folder = scanners[w].folder}
    IN  IF told # {} THEN told ELSE keyedBy(keyIn(w, c.name))

\* The file read is the one that was checked.
readWhole(w, c) ==
    /\ stat(disk, keyIn(w, c.name)) # None
    /\ disk[stat(disk, keyIn(w, c.name))].size = c.size

reconcileFilesystemFile(w, c) ==
    LET f == scanners[w].folder
        existing == rowFor(w, c)
        e == IF existing # {} THEN CHOOSE x \in existing : TRUE
             ELSE CHOOSE x \in FileIds : ~ReadyFile(x)
        row == IF existing # {} THEN files[e] ELSE [NoFile EXCEPT !.status = "ready"]
    IN  /\ At(w, "reading") /\ c \in scanners[w].unread
        /\ readWhole(w, c) /\ requireActiveSync(w)
        /\ existing # {} \/ \E x \in FileIds : ~ReadyFile(x)   \* bound: FileIds
        /\ files' = [files EXCEPT ![e] =
               [row EXCEPT !.folder = f, !.pathKey = folderPathKey(f), !.name = c.name,
                           !.key = keyIn(w, c.name), !.size = c.size, !.identity = c.inode]]
        /\ Write(IF existing # {} THEN resettled(e, f, c.size)
                 ELSE adjustFolderStats(counters, f, 1, c.size))
        /\ syncStates' = [syncStates EXCEPT ![f].seen = @ \cup {e}]
        /\ scanners' = [scanners EXCEPT ![w].unread = @ \ {c}]
        /\ UNCHANGED <<folders, tasks, jobs, operationVars, disk>>

-----------------------------------------------------------------------------
\* "Directory changed while it was being indexed", or it has gone.
sameDirectory(w) ==
    LET d == stat(disk, scanners[w].path)
    IN  d # None /\ scanners[w].before = modifiedAt(disk, d)

lookAgain(w) ==
    /\ At(w, "reading") /\ scanners[w].unread = {} /\ sameDirectory(w)
    /\ scanners' = [scanners EXCEPT ![w].at = "sweeping"]
    /\ UNCHANGED <<syncStates, jobs, treeVars, operationVars, disk>>

sweepEntries(w) ==
    LET f == scanners[w].folder
        gone == filesIn(f) \ syncStates[f].seen
        bytes == MapThenSumSet(LAMBDA e : files[e].size, gone)
    IN  /\ At(w, "sweeping") /\ requireActiveSync(w)
        /\ files' = [e \in FileIds |-> IF e \in gone THEN NoFile ELSE files[e]]
        /\ Write(adjustFolderStats(counters, f, -Cardinality(gone), -bytes))
        /\ scanners' = [scanners EXCEPT ![w].at = "sweepingFolders"]
        /\ UNCHANGED <<folders, tasks, syncStates, jobs, operationVars, disk>>

\* Folders that were not seen are hidden and cleaned up, and the scan is complete.
sweepFolders(w) ==
    LET f == scanners[w].folder
        gone == childrenOf(f) \ syncStates[f].seen
        hide(c, s) == reparentFolderStats(s, c, f, TRUE)
    IN  /\ At(w, "sweepingFolders") /\ requireActiveSync(w)
        /\ folders' = [c \in FolderIds |->
               IF c \in gone THEN [folders[c] EXCEPT !.missing = TRUE] ELSE folders[c]]
        /\ Write(FoldSet(hide, counters, gone))
        /\ tasks' = tasks \cup {task("cleanupMissingFolder", c) : c \in gone}
        /\ syncStates' = [syncStates EXCEPT ![f] =
               [released(@) EXCEPT !.known = scanners[w].before, !.seen = {}]]
        /\ scanners' = walksOn(w, scanners[w].children)
        /\ UNCHANGED <<files, jobs, operationVars, disk>>

-----------------------------------------------------------------------------
\* What throws in the scan of a directory.
scanThrows(w) ==
    \/ scanners[w].at \in {"claimed", "directories", "files", "sweeping", "sweepingFolders"}
       /\ ~requireActiveSync(w)
    \/ scanners[w].at \in {"claimed", "listing"} /\ stat(disk, scanners[w].path) = None
    \/ scanners[w].at = "files"
       /\ \E it \in listed(w, FileInodes) :
             \/ present(w, it) = None
             \/ Cardinality(known(scanners[w].folder, keyIn(w, it.name), present(w, it))) > 1
    \/ scanners[w].at = "reading"
       /\ \/ ~requireActiveSync(w) \/ \E c \in scanners[w].unread : ~readWhole(w, c)
          \/ scanners[w].unread = {} /\ ~sameDirectory(w)

\* failFilesystemSync; a child is queued, the folder of the job is retried.
failFilesystemSync(w) ==
    LET f == scanners[w].folder
        root == f = scanners[w].root
    IN  /\ scanThrows(w)
        /\ syncStates' = [syncStates EXCEPT ![f] = IF @.active = w THEN released(@) ELSE @]
        /\ jobs' = [jobs EXCEPT ![f] = IF root THEN endedJob(@, FALSE)
                                       ELSE IF Visible(f) THEN queued(@) ELSE @]
        /\ scanners' = IF root THEN [scanners EXCEPT ![w] = Resting] ELSE walksOn(w, {})
        /\ UNCHANGED <<treeVars, operationVars, disk>>

\* The worker ends; its leases lapse.
scannerStops(w) ==
    /\ scanners[w] # Resting
    /\ scanners' = [scanners EXCEPT ![w] = Resting]
    /\ UNCHANGED <<syncStates, jobs, treeVars, operationVars, disk>>

\* renewFilesystemSyncLease cannot bring a lease back once it has lapsed.
lapseSync(f) ==
    /\ syncStates[f].active # None /\ ~syncStates[f].lapsed
    /\ syncStates' = [syncStates EXCEPT ![f].lapsed = TRUE]
    /\ UNCHANGED <<jobs, scanners, treeVars, operationVars, disk>>

Scan(w) ==
    \/ finish(w)
    \/ \E f \in FolderIds : passOver(w, f) \/ claimFilesystemSync(w, f)
    \/ compareFilesystemDirectory(w) \/ list(w)
    \/ reconcileFilesystemDirectories(w) \/ checkFilesystemFiles(w)
    \/ \E c \in scanners[w].unread : reconcileFilesystemFile(w, c)
    \/ lookAgain(w) \/ sweepEntries(w) \/ sweepFolders(w)
    \/ failFilesystemSync(w)

-----------------------------------------------------------------------------
vars == <<treeVars, disk, operationVars, syncVars, budget>>

SyncTreeInit == DiskInit /\ OperationsInit /\ SyncInit

spend(field) == budget[field] > 0 /\ budget' = [budget EXCEPT ![field] = @ - 1]

\* Others than the operations are at work.
intervene(field) ==
    budget[field] > 0 /\ budget' = [budget EXCEPT ![field] = @ - 1, !.others = TRUE]

\* A name is not given to a file while an entry has it.
Fresh(d, name) ==
    KeepNames => \A e \in FileIds : ReadyFile(e) => files[e].name # name

Outside ==
    /\ \/ \E i \in FileInodes, d \in DirInodes, name \in FileNames, size \in Sizes :
           \/ Fresh(d, name) /\ (addOutside(i, d, name, size) \/ renameOutside(i, d, name))
           \/ changeOutside(i, size)
       \/ \E j \in DirInodes, d \in DirInodes, name \in FolderNames :
              addOutside(j, d, name, 0) \/ renameOutside(j, d, name)
       \/ \E j \in Inodes : removeOutside(j)
    /\ UNCHANGED <<treeVars, operationVars, syncVars>>

\* cleanupMissingFolder deletes the sync state with the row.
CleanUp(f) ==
    /\ cleanupMissingFolder(f)
    /\ syncStates' = [syncStates EXCEPT ![f] = IF folders'[f] = NoFolder THEN NoSyncState ELSE @]
    /\ UNCHANGED <<jobs, scanners, operationVars, disk, budget>>

Background(f) ==
    \/ CleanUp(f)
    \/ walk(f) /\ UNCHANGED <<operationVars, syncVars, disk, budget>>
    \/ lapseJob(f) /\ UNCHANGED budget
    \/ exhaustJob(f) /\ UNCHANGED budget

SyncNext ==
    \/ intervene("edits") /\ Outside
    \/ spend("requests") /\ (\E o \in OperationIds : Request(o)) /\ UNCHANGED syncVars
    \/ intervene("scans") /\ (rescanAllDirectories \/ \E f \in FolderIds : queueFilesystemSync(f))
    \/ spend("crashes")
       /\ \/ (\E r \in Runners : runnerStops(r)) /\ UNCHANGED syncVars
          \/ (\E o \in OperationIds : lapse(o)) /\ UNCHANGED syncVars
          \/ \E w \in Scanners : scannerStops(w)
          \/ \E f \in FolderIds : lapseSync(f)
    \/ /\ \/ \E o \in OperationIds : expire(o) \/ giveUp(o)
          \/ \E r \in Runners : Claim(r) \/ renew(r) \/ Run(r)
       /\ UNCHANGED <<syncVars, budget>>
    \/ \E w \in Scanners : (Scan(w) \/ \E f \in FolderIds : claimJob(w, f)) /\ UNCHANGED budget
    \/ \E f \in FolderIds : Background(f)

\* Workers run their loops and Convex its scheduled functions; leases lapse.
SyncSpec ==
    /\ SyncTreeInit /\ [][SyncNext]_vars
    /\ \A w \in Scanners : WF_vars(Scan(w) /\ UNCHANGED budget)
    /\ \A w \in Scanners : WF_vars((\E f \in FolderIds : claimJob(w, f)) /\ UNCHANGED budget)
    /\ \A f \in FolderIds : WF_vars(Background(f))

-----------------------------------------------------------------------------
\* CatalogOnDisk for as long as operations alone are at work.  A scan reverts a name
\* it has read before an operation changed it, and the walk that repairs the keys
\* may run in between; the next scan gives the name back, but not the keys.
OperationsAgree == budget.others \/ CatalogOnDisk

\* After a scan of everything, with no operation and no edit since, every file is at
\* its key ("Use it to refresh the gallery", docs/user.md:471).
ScannedKeysFound ==
    Quiet /\ (\A f \in FolderIds : jobs[f].status = "none")
    /\ (\A f \in FolderIds : Visible(f) => /\ directoryOf(f) # None
                                           /\ syncStates[f].active = None
                                           /\ syncStates[f].known = modifiedAt(disk, directoryOf(f)))
    => \A e \in FileIds : ReadyFile(e) => stat(disk, files[e].key) = files[e].identity

\* When a scan of a folder completes and the directory is as it was when the scan
\* looked, the folder lists exactly the files in it: a listing, a batch of checks,
\* a reconciliation per file and a sweep, with operations between, lose none and
\* leave none (docs/user.md:471).
ScanListsFiles ==
    [][\A w \in Scanners :
          LET f == scanners[w].folder
              d == stat(disk, scanners[w].path)
          IN  scanners[w].at = "sweepingFolders" /\ scanners'[w].at = "walking"
              /\ syncStates'[f].known = scanners[w].before /\ d # None
              /\ scanners[w].before = modifiedAt(disk, d) =>
                 {<<files[e].name, files[e].identity>> : e \in filesIn(f)}
                    = {<<disk[i].name, i>> : i \in inDirectory(disk, d) \cap FileInodes}]_vars

\* Every scan that was asked for ends, completed or failed, also when a worker stops
\* in the middle of it: time and again none waits or runs.
ScansEnd == []<>(\A f \in FolderIds : jobs[f].status \in {"none", "failed"})
=============================================================================
