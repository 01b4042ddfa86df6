---------------------------- MODULE FolderStats ----------------------------
(***************************************************************************)
(* The counters of folders (src/convex/lib/folderStats.ts,                 *)
(* src/convex/folderStats.ts): the files directly in a folder, and the     *)
(* bytes of its whole subtree.  A change of an entry or of the tree        *)
(* updates the folder and every folder above it in the same transaction.   *)
(* A total that is not known makes those above it unknown and is counted   *)
(* by a job, a page per transaction, that starts over when the revision of *)
(* its folder has changed and waits when a child is unknown.               *)
(*                                                                         *)
(* The counters are handled as one value, a record of both tables, so that *)
(* the writes of one transaction compose.  Instead of revision numbers a   *)
(* job carries whether its revision is the one of its folder ("current").  *)
(***************************************************************************)
EXTENDS FolderTree, FiniteSetsExt

VARIABLES
    stats,      \* folderStats
    rebuilds    \* folderStatsRebuilds

NoStats == [exists |-> FALSE, items |-> 0, bytes |-> 0, directReady |-> FALSE,
            known |-> FALSE, subtree |-> 0]

\* createFolderStats, and what an insert in ensureStatsRow leaves unknown.
EmptyStats == [exists |-> TRUE, items |-> 0, bytes |-> 0, directReady |-> TRUE,
               known |-> TRUE, subtree |-> 0]
UncountedStats == [EmptyStats EXCEPT !.directReady = FALSE, !.known = FALSE]

NoRebuild == [exists |-> FALSE, scheduled |-> FALSE, current |-> FALSE,
              phase |-> "children", seen |-> {}, items |-> 0, bytes |-> 0,
              subtree |-> 0, pendingChildren |-> FALSE]

counters == [stats |-> stats, rebuilds |-> rebuilds]

\* Every transaction on the counters ends in writing both tables.
Write(s) == stats' = s.stats /\ rebuilds' = s.rebuilds

AtLeast0(n) == IF n < 0 THEN 0 ELSE n

-----------------------------------------------------------------------------
ensured(row) == IF row.exists THEN row ELSE UncountedStats

\* The start of a scan: files first when the direct counters are unknown.
freshScan(row) ==
    [exists |-> TRUE, scheduled |-> TRUE, current |-> TRUE,
     phase |-> IF row.directReady THEN "children" ELSE "entries",
     seen |-> {}, items |-> 0, bytes |-> 0,
     subtree |-> IF row.directReady THEN row.bytes ELSE 0, pendingChildren |-> FALSE]

\* What a write to the folder's counters does to its job: its revision is behind.
outdated(job) == [job EXCEPT !.current = FALSE]

scheduled(job, row) == IF job.exists THEN [job EXCEPT !.scheduled = TRUE] ELSE freshScan(row)

scheduleStatsRebuild(s, f) ==
    IF ~s.stats[f].exists THEN s
    ELSE [s EXCEPT !.rebuilds[f] = scheduled(@, s.stats[f])]

\* One folder of the chain: an unknown delta, or a total that is unknown, leaves
\* the total unknown and its job scheduled.
ancestorRow(row, delta, unknown) ==
    IF unknown \/ ~row.known THEN [row EXCEPT !.known = FALSE, !.subtree = 0]
    ELSE [row EXCEPT !.subtree = AtLeast0(@ + delta)]

\* One row of the chain and its job.
updateRow(s, f, delta, unknown) ==
    LET row == ancestorRow(ensured(s.stats[f]), delta, unknown)
        job == outdated(s.rebuilds[f])
    IN  [s EXCEPT !.stats[f] = row,
                  !.rebuilds[f] = IF row.known THEN job ELSE scheduled(job, row)]

\* Fault: only the parent is told.
updateParentBytes(s, p, delta, unknown) ==
    IF p # None /\ Present(p) THEN updateRow(s, p, delta, unknown) ELSE s

updateAncestorBytes(s, p, delta, unknown) ==
    FoldSet(LAMBDA f, so_far : updateRow(so_far, f, delta, unknown), s, chainFrom(p))

-----------------------------------------------------------------------------
\* A job there is waits for its child and is woken only when its revision is behind.
request(s, f) ==
    LET here == [s EXCEPT !.stats[f] = ensured(@)]
    IN  IF ~Present(f) THEN s
        ELSE IF here.stats[f].known THEN here
        ELSE IF here.rebuilds[f].exists
             THEN IF here.rebuilds[f].current THEN here ELSE scheduleStatsRebuild(here, f)
        ELSE IF folders[f].missing THEN scheduleStatsRebuild(here, f)
        ELSE updateAncestorBytes(scheduleStatsRebuild(here, f), folders[f].parent, 0, TRUE)

\* requestFolderStatsRebuild with recountDirect: the direct counters too.
requestRecount(s, f) ==
    LET forgotten == [s EXCEPT !.stats[f] = [ensured(@) EXCEPT !.known = FALSE, !.subtree = 0,
                                                               !.directReady = FALSE],
                               !.rebuilds[f] = outdated(@)]
        queued == scheduleStatsRebuild(forgotten, f)
    IN  IF folders[f].missing THEN queued
        ELSE updateAncestorBytes(queued, folders[f].parent, 0, TRUE)

\* A change of the files directly in f.
adjustFolderStats(s, f, items, bytes) ==
    LET row == s.stats[f]
        total == AtLeast0(row.bytes + bytes)
        applied == total - row.bytes
        here == [s EXCEPT !.stats[f].items = AtLeast0(@ + items),
                          !.stats[f].bytes = total,
                          !.stats[f].subtree = IF row.known THEN AtLeast0(@ + applied) ELSE 0,
                          !.rebuilds[f] = outdated(@)]
    IN  IF (items = 0 /\ bytes = 0) \/ ~Present(f) THEN s
        ELSE IF ~row.exists THEN request(s, f)
        ELSE IF ~row.known THEN request(here, f)
        ELSE IF folders[f].missing \/ applied = 0 THEN here
        ELSE updateAncestorBytes(here, folders[f].parent, applied, FALSE)

\* The subtree of f is hung elsewhere, is hidden or comes back; the row of f itself
\* is written afterwards.
reparentFolderStats(s, f, parent, missing) ==
    LET bytes == s.stats[f].subtree
        unknown == ~(s.stats[f].exists /\ s.stats[f].known)
        wasVisible == ~folders[f].missing
        left == IF wasVisible THEN updateAncestorBytes(s, folders[f].parent, -bytes, unknown) ELSE s
    IN  IF parent = folders[f].parent /\ missing = folders[f].missing THEN s
        ELSE IF missing THEN left
        ELSE updateAncestorBytes(left, parent, bytes, unknown)

\* Fault: the counters of a folder outlive it.
keepFolderStats(s, f) ==
    LET hidden == IF folders[f].missing THEN s
                  ELSE reparentFolderStats(s, f, folders[f].parent, TRUE)
    IN  [hidden EXCEPT !.rebuilds[f] = NoRebuild]

\* A folder whose row goes: its counters and its job go with it.
deleteFolderStats(s, f) ==
    LET hidden == IF folders[f].missing THEN s
                  ELSE reparentFolderStats(s, f, folders[f].parent, TRUE)
    IN  [hidden EXCEPT !.stats[f] = NoStats, !.rebuilds[f] = NoRebuild]

\* Fault: a total is published and nobody told.
notifyNobody(s, f) == s

notifyParentStatsReady(s, f) ==
    LET p == folders[f].parent
        told == [s EXCEPT !.stats[p] = [ensured(@) EXCEPT !.known = FALSE, !.subtree = 0],
                          !.rebuilds[p] = outdated(@)]
    IN  IF p = None \/ folders[f].missing \/ ~Present(p) THEN s
        ELSE scheduleStatsRebuild(told, p)

-----------------------------------------------------------------------------
unchangedTree == UNCHANGED <<folders, files, tasks>>

\* A viewer sorts by size: folderStats.prepare.
prepare(f) ==
    /\ Visible(f)
    /\ Write(request(counters, f))
    /\ unchangedTree

\* Maintenance, one folder per invocation.
backfill(f) ==
    /\ Present(f)
    /\ Write(requestRecount(counters, f))
    /\ unchangedTree

\* A job whose revision is behind, or that waited, starts over.
resumed(f) ==
    LET job == rebuilds[f]
    IN  [IF job.current /\ job.phase # "waiting" THEN job ELSE freshScan(stats[f])
         EXCEPT !.scheduled = FALSE]

rebuildOver(f) ==
    /\ rebuilds[f].scheduled
    /\ ~Present(f) \/ ~stats[f].exists \/ stats[f].known
    /\ Write([counters EXCEPT !.rebuilds[f] = NoRebuild])
    /\ unchangedTree

Scanning(f) == rebuilds[f].scheduled /\ Present(f) /\ stats[f].exists /\ ~stats[f].known

\* A page of the files directly in f; after the last one they are published.
rebuildEntries(f) ==
    LET job == resumed(f)
        unread == filesIn(f) \ job.seen
    IN  /\ Scanning(f)
        /\ job.phase = "entries"
        /\ \/ \E e \in unread :
                LET items == job.items + 1
                    bytes == job.bytes + files[e].size
                    last == unread = {e}
                IN  Write([counters EXCEPT
                        !.stats[f] = IF last THEN [@ EXCEPT !.items = items, !.bytes = bytes,
                                                            !.directReady = TRUE] ELSE @,
                        !.rebuilds[f] = [job EXCEPT
                            !.scheduled = TRUE, !.items = items, !.bytes = bytes,
                            !.phase = IF last THEN "children" ELSE "entries",
                            !.seen = IF last THEN {} ELSE @ \cup {e},
                            !.subtree = IF last THEN bytes ELSE @]])
           \/ /\ unread = {}
              /\ Write([counters EXCEPT
                    !.stats[f] = [@ EXCEPT !.items = job.items, !.bytes = job.bytes,
                                           !.directReady = TRUE],
                    !.rebuilds[f] = [job EXCEPT !.scheduled = TRUE, !.phase = "children",
                                                !.seen = {}, !.subtree = job.bytes]])
        /\ unchangedTree

\* The last page: publish the total, or wait for the children that have none.
published(s, f, bytes) ==
    notifyParentStatsReady(
        [s EXCEPT !.stats[f].known = TRUE, !.stats[f].subtree = bytes, !.rebuilds[f] = NoRebuild], f)

\* A page of the children of f.  Asking for a child's total may invalidate f itself.
rebuildChildren(f) ==
    LET job == resumed(f)
        unread == childrenOf(f) \ job.seen
        kept == [counters EXCEPT !.rebuilds[f] = job]
    IN  /\ Scanning(f)
        /\ job.phase = "children"
        /\ \/ \E c \in unread :
                LET counted == ~folders[c].missing
                    unknown == counted /\ ~(stats[c].exists /\ stats[c].known)
                    asked == IF unknown THEN request(kept, c) ELSE kept
                    bytes == job.subtree + IF counted /\ ~unknown THEN stats[c].subtree ELSE 0
                    pending == job.pendingChildren \/ unknown
                IN  Write(IF ~asked.rebuilds[f].current THEN scheduleStatsRebuild(asked, f)
                          ELSE IF unread # {c}
                          THEN [asked EXCEPT !.rebuilds[f] =
                                   [@ EXCEPT !.scheduled = TRUE, !.seen = @ \cup {c},
                                             !.subtree = bytes, !.pendingChildren = pending]]
                          ELSE IF pending THEN [asked EXCEPT !.rebuilds[f].phase = "waiting"]
                          ELSE published(asked, f, bytes))
           \/ /\ unread = {}
              /\ Write(IF job.pendingChildren THEN [kept EXCEPT !.rebuilds[f].phase = "waiting"]
                       ELSE published(kept, f, job.subtree))
        /\ unchangedTree

rebuild(f) == rebuildOver(f) \/ rebuildEntries(f) \/ rebuildChildren(f)

-----------------------------------------------------------------------------
\* Entries come, go and change size: the folder half of completeUpload,
\* queueEntryDeletion and settleReadyEntry.
landFile(e, f, name, size) ==
    /\ files[e].status = "absent" /\ Present(f)
    /\ \A other \in filesIn(f) : files[other].name # name
    /\ files' = [files EXCEPT ![e] = [NoFile EXCEPT
           !.status = "ready", !.folder = f, !.name = name, !.size = size,
           !.pathKey = folderPathKey(f),
           !.key = getFilesystemStorageKey(getFilesystemFolderSegments(f), name)]]
    /\ Write(adjustFolderStats(counters, f, 1, size))
    /\ UNCHANGED <<folders, tasks>>

removeFile(e) ==
    /\ ReadyFile(e)
    /\ files' = [files EXCEPT ![e] = NoFile]
    /\ Write(adjustFolderStats(counters, files[e].folder, -1, -files[e].size))
    /\ UNCHANGED <<folders, tasks>>

\* An entry that was ready is settled in f: the counters of its folders.
resettled(e, f, size) ==
    IF f = files[e].folder THEN adjustFolderStats(counters, f, 0, size - files[e].size)
    ELSE adjustFolderStats(
            adjustFolderStats(counters, files[e].folder, -1, -files[e].size), f, 1, size)

\* settleReadyEntry with a previous folder: an entry moved, or a file replaced.
settleReadyEntry(e, f, size) ==
    /\ ReadyFile(e) /\ Visible(f)
    /\ f # files[e].folder => \A other \in filesIn(f) : files[other].name # files[e].name
    /\ files' = [files EXCEPT ![e].folder = f, ![e].size = size, ![e].pathKey = folderPathKey(f)]
    /\ Write(resettled(e, f, size))
    /\ UNCHANGED <<folders, tasks>>
=============================================================================
