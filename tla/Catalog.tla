------------------------------ MODULE Catalog ------------------------------
(***************************************************************************)
(* The tables of the Convex database that uploads, deletions and moves     *)
(* share (src/convex/schema.ts), the files of the storage root, and the    *)
(* processes that work on both: upload requests of the storage server and  *)
(* the maintenance loop of the storage worker.                             *)
(*                                                                         *)
(* A Convex mutation is a serializable transaction, so every mutation is   *)
(* one action of the modules that EXTEND this one.  What a process read in *)
(* one call and uses in a later one is kept in its own record.             *)
(*                                                                         *)
(* Names are taken up to entryNameKey (case and Unicode variants of a name *)
(* are one value).  Thumbnails and previews follow the storage key of      *)
(* their original and are left out.                                        *)
(***************************************************************************)
EXTENDS Integers, FiniteSets

CONSTANTS
    Galleries,          \* gallery ids; every gallery has a storage root of its own
    Kind,               \* [Galleries -> {"image", "uploader"}]
    Storage,            \* [Galleries -> {"shared", "user"}]
    Folders,            \* folder ids
    GalleryOf,          \* [Folders -> Galleries]
    Stems,              \* file names without their " (n)" suffix
    MaxRenameAttempts,  \* MAX_RENAME_ATTEMPTS: the largest n of "name (n)"
    Contents,           \* what a file can contain; stands for its sha256
    Size,               \* [Contents -> Nat], the bytes of a content
    MaxFileSize,        \* [Galleries -> Nat]
    EntryIds, IntentIds, DeleteJobIds, MoveJobIds, OperationIds,
    Handlers,           \* upload requests the storage server serves at once
    Workers,            \* maintenance loops
    MaxAttempts,        \* STORAGE_JOB_MAX_ATTEMPTS
    Seeds,              \* entries there are to begin with: EntryIds |-> [folder, name, content]
    None

ASSUME CatalogAssumption ==
    /\ Kind \in [Galleries -> {"image", "uploader"}]
    /\ Storage \in [Galleries -> {"shared", "user"}]
    /\ \A g \in Galleries : Kind[g] = "uploader" => Storage[g] = "shared"
    /\ GalleryOf \in [Folders -> Galleries]
    /\ Size \in [Contents -> Nat]
    /\ MaxFileSize \in [Galleries -> Nat]
    /\ MaxRenameAttempts \in Nat \ {0}
    /\ MaxAttempts \in Nat \ {0}
    /\ None \notin EntryIds \cup IntentIds \cup DeleteJobIds \cup MoveJobIds
                   \cup OperationIds \cup Folders \cup Galleries \cup Contents
    /\ IsFiniteSet(EntryIds)

VARIABLES
    galleries,   \* galleries and galleryStats
    entries,
    intents,     \* uploadIntents
    deleteJobs,  \* storageDeleteJobs
    moveJobs,    \* entryMoveJobs
    operations,  \* bulkOperations
    files,       \* the storage root
    handlers,    \* storage server: handleUpload
    workers      \* storage worker: claimAndProcessMaintenance

vars == <<galleries, entries, intents, deleteJobs, moveJobs, operations,
          files, handlers, workers>>

(***************************************************************************)
(* Names and storage keys                                                  *)
(***************************************************************************)

\* <<"photo", 1>> is "photo.jpg", <<"photo", 3>> is "photo (3).jpg".
Names == Stems \X (1..MaxRenameAttempts)

ASSUME NoneIsNoName == None \notin Names

\* An existing " (n)" suffix is replaced rather than stacked.
autoRenamedFileName(name, attempt) == <<name[1], attempt>>

\* Shared storage addresses a file by its content, user storage by its path.
buildStorageKey(folder, name, content) ==
    IF Storage[GalleryOf[folder]] = "user"
    THEN <<folder, name>>
    ELSE <<GalleryOf[folder], content>>

Keys == {buildStorageKey(f, n, c) : f \in Folders, n \in Names, c \in Contents}

ASSUME NoneIsNoKey == None \notin Keys

\* Ids are unique over all tables, so no path in a user folder is a shared key.
ASSUME IdsAreUnique == Folders \cap Galleries = {}

\* Catalogs an initial state may hold; image folders hold a name once.
ASSUME SeedsAssumption ==
    /\ DOMAIN Seeds \subseteq EntryIds
    /\ \A e \in DOMAIN Seeds :
          Seeds[e] \in [folder : Folders, name : Names, content : Contents]
    /\ \A e, d \in DOMAIN Seeds :
          e # d => <<Seeds[e].folder, Seeds[e].name>> # <<Seeds[d].folder, Seeds[d].name>>

\* The replaced file sits on the path the new one was installed at.
keepsReplacedOriginal(gallery, replacedKey, newKey) ==
    Storage[gallery] = "user" /\ replacedKey = newKey

(***************************************************************************)
(* Records                                                                 *)
(***************************************************************************)

Policies == {"ask", "replace", "rename"}   \* "ask": no conflictPolicy

Entry == [state   : {"absent", "ready", "deleted", "purged"},
          folder  : Folders \cup {None},
          name    : Names \cup {None},
          content : Contents \cup {None},
          key     : Keys \cup {None},
          intent  : IntentIds \cup {None},
          moveJob : MoveJobIds \cup {None}]  \* # None iff migrationState = "moving"

Blank(state) == [state |-> state, folder |-> None, name |-> None, content |-> None,
                 key |-> None, intent |-> None, moveJob |-> None]

Intent == [state    : {"absent", "pending", "uploading", "complete", "failed"},
           folder   : Folders \cup {None},
           name     : Names \cup {None},
           policy   : Policies,
           content  : Contents \cup {None},   \* the file the client will send
           resolved : Names \cup {None},
           lapsed   : BOOLEAN]                \* leaseExpiresAt has passed

NoIntent == [state |-> "absent", folder |-> None, name |-> None, policy |-> "ask",
             content |-> None, resolved |-> None, lapsed |-> FALSE]

DeleteJob == [status         : {"absent", "queued", "processing", "failed"},
              entry          : EntryIds \cup {None},
              key            : Keys \cup {None},
              deleteOriginal : BOOLEAN,
              deleteEntry    : BOOLEAN,
              attempts       : 0..MaxAttempts,
              lapsed         : BOOLEAN]

NoDeleteJob == [status |-> "absent", entry |-> None, key |-> None,
                deleteOriginal |-> FALSE, deleteEntry |-> FALSE,
                attempts |-> 0, lapsed |-> FALSE]

MoveJob == [status   : {"absent", "conflict", "queued", "processing", "failed"},
            entry    : EntryIds \cup {None},
            source   : Galleries \cup {None},
            folder   : Folders \cup {None},       \* destinationFolderId
            expected : Keys \cup {None},          \* expectedSourceStorageKey
            policy   : Policies,
            target   : Names \cup {None},
            attempts : 0..MaxAttempts,
            lapsed   : BOOLEAN,
            op       : OperationIds \cup {None}]

NoMoveJob == [status |-> "absent", entry |-> None, source |-> None, folder |-> None,
              expected |-> None, policy |-> "ask", target |-> None,
              attempts |-> 0, lapsed |-> FALSE, op |-> None]

Operation == [status    : {"absent", "queued", "processing", "conflict", "complete", "failed"},
              kind      : {"delete", "move"},
              source    : Folders \cup {None},
              folder    : Folders \cup {None},    \* destinationFolderId
              selection : {"ids", "folder"},
              todo      : SUBSET EntryIds,        \* candidates not yet visited
              policy    : Policies \cup {"skip"},
              discovered: BOOLEAN,                \* discoveryComplete
              total     : Nat, completed : Nat, failed : Nat, conflicts : Nat,
              apply     : BOOLEAN,                \* applyConflictPolicy is scheduled
              dismissed : BOOLEAN]

NoOperation == [status |-> "absent", kind |-> "delete", source |-> None, folder |-> None,
                selection |-> "ids", todo |-> {}, policy |-> "ask", discovered |-> FALSE,
                total |-> 0, completed |-> 0, failed |-> 0, conflicts |-> 0,
                apply |-> FALSE, dismissed |-> FALSE]

GalleryRow == [deleted : BOOLEAN, cleaning : BOOLEAN, itemCount : Nat, totalBytes : Nat]

Handler == [pc : {"idle", "claimed", "installed", "present", "failing"},
            intent   : IntentIds \cup {None},
            name     : Names \cup {None},         \* claim.name
            replaces : Keys \cup {None}]          \* claim.replacesStorageKey

IdleHandler == [pc |-> "idle", intent |-> None, name |-> None, replaces |-> None]

Worker == [pc : {"idle", "unlinking", "unlinked", "deleteFailing",
                 "copying", "writing", "copied", "reporting", "moveFailing"},
           job       : DeleteJobIds \cup MoveJobIds \cup {None},
           key       : Keys \cup {None},          \* storageKey / sourceStorageKey
           remove    : BOOLEAN,                   \* removePhysical
           dest      : Keys \cup {None},          \* where an entry move copies to
           content   : Contents \cup {None},      \* sha256 of the claim
           overwrite : BOOLEAN,                   \* claim.replace
           replaces  : Keys \cup {None}]          \* claim.replacesStorageKey

IdleWorker == [pc |-> "idle", job |-> None, key |-> None, remove |-> FALSE,
               dest |-> None, content |-> None, overwrite |-> FALSE, replaces |-> None]

(***************************************************************************)
(* Reads and writes several mutations share                                *)
(***************************************************************************)

Ready(e) == entries[e].state = "ready"

AtLeastZero(n) == IF n < 0 THEN 0 ELSE n   \* Math.max(0, n)

adjustGalleryStats(table, gallery, items, bytes) ==
    [table EXCEPT ![gallery].itemCount = AtLeastZero(@ + items),
                  ![gallery].totalBytes = AtLeastZero(@ + bytes)]

SizeOf(e) == Size[entries[e].content]

\* Ids of deleted rows come back only once nothing in flight names them.
FreeDeleteJobs == {j \in DeleteJobIds : /\ deleteJobs[j].status = "absent"
                                        /\ \A w \in Workers : workers[w].job # j}

FreeMoveJobs == {j \in MoveJobIds : /\ moveJobs[j].status = "absent"
                                    /\ \A w \in Workers : workers[w].job # j}

\* Fault: a lease that ran out gives nothing back.
claimableQueued(jobs) ==
    LET queued  == {j \in DOMAIN jobs : jobs[j].status = "queued"}
        untried == {j \in queued : jobs[j].attempts = 0}
    IN  IF untried # {} THEN untried ELSE queued

\* The row a claim takes: one whose lease ran out, else the queued one with the
\* earliest availableAt, which is 0 until a first attempt fails.  Whether the
\* delay of a retried row is over is not modelled.
claimable(jobs) ==
    LET stale   == {j \in DOMAIN jobs : jobs[j].status = "processing" /\ jobs[j].lapsed}
        queued  == {j \in DOMAIN jobs : jobs[j].status = "queued"}
        untried == {j \in queued : jobs[j].attempts = 0}
    IN  IF stale # {} THEN stale ELSE IF untried # {} THEN untried ELSE queued

\* The path of the ready entry a file replaces, on user storage.  It is unlinked
\* when it is not the path of the file itself.
replacedKey(folder, occupant, policy) ==
    IF Storage[GalleryOf[folder]] = "user" /\ policy = "replace" /\ occupant # None
    THEN entries[occupant].key ELSE None

removeReplacedFile(replaced, installed) ==
    files' = IF replaced \in {None, installed} THEN files
             ELSE [files EXCEPT ![replaced] = None]

\* A row inserted into storageDeleteJobs.
QueuedDelete(e, key, deleteOriginal, deleteEntry) ==
    [NoDeleteJob EXCEPT !.status = "queued", !.entry = e, !.key = key,
                        !.deleteOriginal = deleteOriginal, !.deleteEntry = deleteEntry]

\* Fault: deleted, but still counted.
queueEntryDeletionUncounted(e, j) ==
    /\ Ready(e)
    /\ j \in FreeDeleteJobs
    /\ entries' = [entries EXCEPT ![e].state = "deleted"]
    /\ deleteJobs' = [deleteJobs EXCEPT ![j] = QueuedDelete(e, entries[e].key, TRUE, TRUE)]
    /\ UNCHANGED galleries

\* queueEntryDeletion (and its inlined copies): the entry is deleted at once,
\* its file and its row are left to the delete job j.
queueEntryDeletion(e, j) ==
    /\ Ready(e)
    /\ j \in FreeDeleteJobs
    /\ entries' = [entries EXCEPT ![e].state = "deleted"]
    /\ galleries' = adjustGalleryStats(galleries, GalleryOf[entries[e].folder], -1, -SizeOf(e))
    /\ deleteJobs' = [deleteJobs EXCEPT ![j] = QueuedDelete(e, entries[e].key, TRUE, TRUE)]

=============================================================================
