------------------------------ MODULE Folders ------------------------------
(***************************************************************************)
(* The mutations on folders (src/convex/folders.ts) and the functions they *)
(* schedule: reparentSubtree and resetChildAccessPolicies walk a subtree   *)
(* one folder per transaction, cleanupMissingFolder (filesystemSync.ts)    *)
(* takes a hidden subtree apart.  On shared storage a mutation changes the *)
(* tree at once; on user storage it inserts a filesystem operation         *)
(* (FilesystemOperations) and the checks here are its guards.              *)
(*                                                                         *)
(* A call on several folders is that many calls on one.  The owner grants  *)
(* a folder's cleanup removes are in Access.                               *)
(***************************************************************************)
EXTENDS FolderStats

CONSTANTS
    SeedFolders,      \* the tree to begin with: folder -> [ancestors, name, policy, identity]
    SeedFiles,        \* entry -> [folder, name, size, identity]
    FolderPolicies,   \* the access policies clients choose
    RefuseCycles,     \* a move that closes a cycle is left out of the instance
    Budgets           \* bounds: how many edits clients make, of which kind

ASSUME FoldersAssumption ==
    /\ FolderPolicies \subseteq Policies
    /\ RefuseCycles \in BOOLEAN
    /\ \A b \in Budgets : {b.tree, b.access, b.signIns} \subseteq Nat /\ b.counted \subseteq FolderIds

\* The tree to begin with hangs from the root, with right copies and no namesakes.
ASSUME SeedTreeAssumption ==
    /\ Root \in DOMAIN SeedFolders /\ SeedFolders[Root].ancestors = <<>>
    /\ DOMAIN SeedFolders \subseteq FolderIds /\ DOMAIN SeedFiles \subseteq FileIds
    /\ \A f \in DOMAIN SeedFolders \ {Root} : \E p \in DOMAIN SeedFolders :
          /\ SeedFolders[p].ancestors \in Seq(FolderIds)
          /\ SeedFolders[f].ancestors = Append(SeedFolders[p].ancestors, p)
    /\ \A f, g \in DOMAIN SeedFolders :
          f # g /\ SeedFolders[f].ancestors = SeedFolders[g].ancestors
          => SeedFolders[f].name # SeedFolders[g].name
    /\ \A e \in DOMAIN SeedFiles : SeedFiles[e].folder \in DOMAIN SeedFolders

VARIABLE budget       \* the edits left

siblingsNamed(p, name) == {c \in childrenOf(p) : folders[c].name = name}

\* create: every sibling counts, hidden ones too.
canCreate(p, name) ==
    /\ Present(p)
    /\ Len(folders[p].ancestors) + 1 < MaxFolderDepth
    /\ siblingsNamed(p, name) = {}

newFolder(p, name, policy) ==
    [NoFolder EXCEPT !.status = "present", !.parent = p, !.ancestors = ancestorsUnder(p),
                     !.name = name, !.policy = policy]

create(f, p, name, policy) ==
    /\ ~UserStorage
    /\ folders[f].status = "absent" /\ canCreate(p, name)
    /\ folders' = [folders EXCEPT ![f] = newFolder(p, name, policy)]
    /\ Write([counters EXCEPT !.stats[f] = EmptyStats])
    /\ UNCHANGED <<files, tasks>>

canRemove(f) == Visible(f) /\ f # Root

\* filesystemMissingAt doubles as the tombstone of a removed folder.
tombstone(f) ==
    /\ folders' = [folders EXCEPT ![f].missing = TRUE]
    /\ Write(reparentFolderStats(counters, f, folders[f].parent, TRUE))
    /\ tasks' = tasks \cup {task("cleanupMissingFolder", f)}
    /\ UNCHANGED files

removeMany(f) == ~UserStorage /\ canRemove(f) /\ tombstone(f)

\* Fault: a folder may be moved next to a namesake.
canMoveAnyName(f, d) ==
    /\ canRemove(f) /\ Visible(d) /\ folders[f].parent # d
    /\ d # f /\ ~hasAncestor(d, f)
    /\ Len(ancestorsUnder(d)) + heightOf(f) < MaxFolderDepth

\* "cannot be moved into itself" is asked of ancestorIds, which may be behind.
canMove(f, d) ==
    /\ canRemove(f) /\ Visible(d) /\ folders[f].parent # d
    /\ d # f /\ ~hasAncestor(d, f)
    /\ \A c \in siblingsNamed(d, folders[f].name) : folders[c].missing
    /\ Len(ancestorsUnder(d)) + heightOf(f) < MaxFolderDepth

moveMany(f, d) ==
    /\ ~UserStorage /\ canMove(f, d)
    /\ RefuseCycles => d \notin subtreeOf(f)
    /\ folders' = [folders EXCEPT ![f].parent = d, ![f].ancestors = ancestorsUnder(d)]
    /\ Write(reparentFolderStats(counters, f, d, FALSE))
    /\ tasks' = tasks \cup {task("reparentSubtree", f)}
    /\ UNCHANGED files

\* Access to the root is controlled by the gallery's permissions.
canUpdate(f, name, policy) ==
    /\ Present(f)
    /\ f = Root => name = folders[f].name /\ policy = "inherit"
    /\ f # Root => siblingsNamed(folders[f].parent, name) \subseteq {f}

update(f, name, policy) ==
    /\ canUpdate(f, name, policy)
    /\ UserStorage => name = folders[f].name
    /\ folders' = [folders EXCEPT ![f].name = name, ![f].policy = policy]
    /\ UNCHANGED <<files, tasks, stats, rebuilds>>

resetAccessPolicySubtree(f) ==
    /\ Visible(f)
    /\ folders' = [folders EXCEPT ![f].policy = "inherit"]
    /\ tasks' = tasks \cup {task("resetChildAccessPolicies", f)}
    /\ UNCHANGED <<files, stats, rebuilds>>

-----------------------------------------------------------------------------
dropTask(what, f) == tasks' = tasks \ {task(what, f)}

\* The folder has gone, or has no path: the walk ends here.
walkEnds(what, f) ==
    /\ task(what, f) \in tasks
    /\ ~Visible(f) \/ (what = "reparentSubtree" /\ UserStorage /\ ~ancestryValid(f))
    /\ dropTask(what, f)
    /\ UNCHANGED <<folders, files, stats, rebuilds>>

\* Fault: the walk stops at the children of the folder that moved.
noChildrenOf(f) == {}

\* Fault: children whose ancestors are right are not walked.
staleChildrenOf(f) == {c \in childrenOf(f) : folders[c].ancestors # ancestorsUnder(f)}

walkedChildrenOf(f) == childrenOf(f)

\* One folder of the walk: its entries' copies, its children's ancestors.
reparentSubtree(f) ==
    /\ task("reparentSubtree", f) \in tasks
    /\ Visible(f) /\ (UserStorage => ancestryValid(f))
    /\ files' = [e \in FileIds |->
           IF files[e].folder # f THEN files[e]
           ELSE [files[e] EXCEPT
                    !.pathKey = folderPathKey(f),
                    !.key = IF UserStorage
                            THEN getFilesystemStorageKey(getFilesystemFolderSegments(f),
                                                         files[e].name)
                            ELSE @]]
    /\ folders' = [c \in FolderIds |->
           IF c \in childrenOf(f) THEN [folders[c] EXCEPT !.ancestors = ancestorsUnder(f)]
           ELSE folders[c]]
    /\ tasks' = (tasks \ {task("reparentSubtree", f)})
                \cup {task("reparentSubtree", c) : c \in walkedChildrenOf(f)}
    /\ UNCHANGED <<stats, rebuilds>>

resetChildAccessPolicies(f) ==
    LET reset == {c \in childrenOf(f) : ~folders[c].missing}
    IN  /\ task("resetChildAccessPolicies", f) \in tasks /\ Visible(f)
        /\ folders' = [c \in FolderIds |->
               IF c \in reset THEN [folders[c] EXCEPT !.policy = "inherit"] ELSE folders[c]]
        /\ tasks' = (tasks \ {task("resetChildAccessPolicies", f)})
                    \cup {task("resetChildAccessPolicies", c) : c \in reset}
        /\ UNCHANGED <<files, stats, rebuilds>>

-----------------------------------------------------------------------------
Cleaning(f) == task("cleanupMissingFolder", f) \in tasks

\* Fault: a file that landed since is not looked for again.
withoutChildren(f) == childrenOf(f) = {}

emptied(f) == filesIn(f) = {} /\ childrenOf(f) = {}

\* Fault: after a batch of files the function does not run again.
endedAfterFiles(f) == tasks \ {task("cleanupMissingFolder", f)}

rescheduled(f) == tasks \cup {task("cleanupMissingFolder", f)}

\* The folder came back, or is gone already.
cleanupOver(f) ==
    /\ Cleaning(f)
    /\ ~Present(f) \/ ~folders[f].missing \/ f = Root
    /\ dropTask("cleanupMissingFolder", f)
    /\ UNCHANGED <<folders, files, stats, rebuilds>>

\* First the files, a batch at a time; the function schedules itself again.
cleanupFiles(f) ==
    LET gone == filesIn(f)
        bytes == MapThenSumSet(LAMBDA e : files[e].size, gone)
    IN  /\ Cleaning(f) /\ Present(f) /\ folders[f].missing /\ f # Root
        /\ gone # {}
        /\ files' = [e \in FileIds |-> IF e \in gone THEN NoFile ELSE files[e]]
        /\ Write(adjustFolderStats(counters, f, -Cardinality(gone), -bytes))
        /\ tasks' = rescheduled(f)
        /\ UNCHANGED folders

\* Then the children are hidden and cleaned up themselves.
cleanupChildren(f) ==
    LET hide(c, s) == reparentFolderStats(s, c, f, TRUE)
    IN  /\ Cleaning(f) /\ Present(f) /\ folders[f].missing /\ f # Root
        /\ filesIn(f) = {} /\ childrenOf(f) # {}
        /\ folders' = [c \in FolderIds |->
               IF c \in childrenOf(f) THEN [folders[c] EXCEPT !.missing = TRUE] ELSE folders[c]]
        /\ Write(FoldSet(hide, counters, childrenOf(f)))
        /\ tasks' = rescheduled(f) \cup {task("cleanupMissingFolder", c) : c \in childrenOf(f)}
        /\ UNCHANGED files

\* At last the row, with the sync state and the counters.
cleanupRow(f) ==
    /\ Cleaning(f) /\ Present(f) /\ folders[f].missing /\ f # Root
    /\ emptied(f)
    /\ folders' = [folders EXCEPT ![f] = NoFolder]
    /\ Write(deleteFolderStats(counters, f))
    /\ dropTask("cleanupMissingFolder", f)
    /\ UNCHANGED files

cleanupMissingFolder(f) ==
    cleanupOver(f) \/ cleanupFiles(f) \/ cleanupChildren(f) \/ cleanupRow(f)

walk(f) ==
    \/ \E what \in {"reparentSubtree", "resetChildAccessPolicies"} : walkEnds(what, f)
    \/ reparentSubtree(f)
    \/ resetChildAccessPolicies(f)

treeVars == <<folders, files, tasks, stats, rebuilds>>

seedStats(f) ==
    LET inside == {e \in DOMAIN SeedFiles :
                      \E i \in DOMAIN Append(SeedFolders[SeedFiles[e].folder].ancestors,
                                            SeedFiles[e].folder) :
                         Append(SeedFolders[SeedFiles[e].folder].ancestors,
                                SeedFiles[e].folder)[i] = f}
        direct == {e \in inside : SeedFiles[e].folder = f}
        sizeOf(S) == MapThenSumSet(LAMBDA e : SeedFiles[e].size, S)
    IN  [EmptyStats EXCEPT !.items = Cardinality(direct), !.bytes = sizeOf(direct),
                           !.subtree = sizeOf(inside)]

\* Folders from before the counters were introduced have none, newer ones do, and the
\* first viewer who sorts by size asks for the root's.
Init ==
    /\ folders = [f \in FolderIds |->
           IF f \notin DOMAIN SeedFolders THEN NoFolder
           ELSE [NoFolder EXCEPT
                    !.status = "present", !.name = SeedFolders[f].name,
                    !.policy = SeedFolders[f].policy,
                    !.identity = SeedFolders[f].identity,
                    !.ancestors = SeedFolders[f].ancestors,
                    !.parent = IF f = Root THEN None
                               ELSE SeedFolders[f].ancestors[Len(SeedFolders[f].ancestors)]]]
    /\ files = [e \in FileIds |->
           IF e \notin DOMAIN SeedFiles THEN NoFile
           ELSE LET f == SeedFiles[e].folder
                    path == Append(SeedFolders[f].ancestors, f)
                    names == [i \in 2..Len(path) |-> SeedFolders[path[i]].name]
                IN  [NoFile EXCEPT !.status = "ready", !.folder = f, !.name = SeedFiles[e].name,
                                   !.size = SeedFiles[e].size, !.pathKey = path,
                                   !.identity = SeedFiles[e].identity,
                                   !.key = Append([i \in 1..(Len(path) - 1) |-> names[i + 1]],
                                                  SeedFiles[e].name)]]
    /\ tasks = {}
    /\ budget \in Budgets
    /\ LET exact == [stats |-> [f \in FolderIds |->
                         IF f \in budget.counted \cap DOMAIN SeedFolders
                         THEN seedStats(f) ELSE NoStats],
                     rebuilds |-> [f \in FolderIds |-> NoRebuild]]
           start == IF Root \in budget.counted THEN exact ELSE request(exact, Root)
       IN  stats = start.stats /\ rebuilds = start.rebuilds

Edit == budget.tree > 0 /\ budget' = [budget EXCEPT !.tree = @ - 1]

Contents(e) ==
    \/ \E f \in FolderIds, name \in FileNames, size \in Sizes : landFile(e, f, name, size)
    \/ \E f \in FolderIds, size \in Sizes : settleReadyEntry(e, f, size)
    \/ removeFile(e)

Counting(f) == prepare(f) \/ backfill(f)

-----------------------------------------------------------------------------
Rows(f) == stats[f].exists

visibleChildren(f) == {c \in childrenOf(f) : ~folders[c].missing}

\* Rows have the shapes of schema.ts, and absent rows hold nothing.
FoldersTypeOK ==
    /\ \A f \in FolderIds :
          /\ folders[f].status \in {"absent", "present"}
          /\ folders[f].status = "absent" =>
                folders[f] = NoFolder /\ stats[f] = NoStats
          /\ folders[f].parent \in FolderIds \cup {None}
          /\ folders[f].ancestors \in Seq(FolderIds)
          /\ folders[f].name \in FolderNames \cup {None}
          /\ folders[f].policy \in Policies
          /\ stats[f].items \in Nat /\ stats[f].bytes \in Nat /\ stats[f].subtree \in Nat
          /\ stats[f].known => stats[f].directReady
          /\ rebuilds[f].phase \in {"entries", "children", "waiting"}
    /\ \A e \in FileIds : files[e].status = "absent" => files[e] = NoFile

\* A known total is the bytes of the files in the folder and of all below it that
\* is not hidden; with direct counters that are ready those are exact too.  Every
\* path that changes an entry or the tree has to tell each folder above it, in
\* the same transaction (lib/folderStats.ts, updateAncestorBytes).
TotalsExact ==
    \A f \in FolderIds : Present(f) /\ Rows(f) =>
        /\ stats[f].directReady =>
              /\ stats[f].items = Cardinality(filesIn(f))
              /\ stats[f].bytes = MapThenSumSet(LAMBDA e : files[e].size, filesIn(f))
        /\ stats[f].known =>
              /\ \A c \in visibleChildren(f) : stats[c].known
              /\ stats[f].subtree = stats[f].bytes
                    + MapThenSumSet(LAMBDA c : stats[c].subtree, visibleChildren(f))

\* A job that is not scheduled waits for a child whose own total is unknown and
\* being counted: nobody else would wake it (notifyParentStatsReady).
NoStalledRebuild ==
    \A f \in FolderIds : Present(f) /\ Rows(f) /\ ~stats[f].known =>
        /\ rebuilds[f].exists
        /\ ~rebuilds[f].scheduled =>
              \E c \in visibleChildren(f) : Rows(c) /\ ~stats[c].known /\ rebuilds[c].exists

\* The copies of a folder's chain, in its children and in the entries in it, are
\* right unless the walk that repairs them is still to reach the folder.
CopiesRightOrWalked ==
    \A f \in FolderIds : Visible(f) =>
        \/ task("reparentSubtree", f) \in tasks
        \/ /\ \A c \in childrenOf(f) : folders[c].ancestors = ancestorsUnder(f)
           /\ \A e \in filesIn(f) : files[e].pathKey = folderPathKey(f)

\* No folder, and no file, is left behind when the folder it is in goes.
NothingOrphaned ==
    /\ \A f \in FolderIds : Present(f) /\ f # Root => Present(folders[f].parent)
    /\ \A e \in FileIds : ReadyFile(e) => Present(files[e].folder)

\* The error of moveMany: "cannot be moved into itself".  Every folder hangs from
\* the root.
NoFolderInItself ==
    \A f \in FolderIds : Present(f) => f \in subtreeOf(Root)

\* Two folders that can be opened never share a parent and a name.
SiblingNamesUnique ==
    \A f, g \in FolderIds :
        Visible(f) /\ Visible(g) /\ f # g /\ folders[f].parent = folders[g].parent =>
            folders[f].name # folders[g].name

\* Once clients leave the tree alone, removed folders are taken apart, the walks
\* end, and every total that was asked for is known.
TreeSettles ==
    <>[](/\ tasks = {}
         /\ \A f \in FolderIds : Present(f) =>
               ~folders[f].missing /\ (Rows(f) => stats[f].known))
=============================================================================
