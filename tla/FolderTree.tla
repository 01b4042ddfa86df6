----------------------------- MODULE FolderTree -----------------------------
(***************************************************************************)
(* The folder tree of one image gallery (src/convex/folders.ts,            *)
(* src/convex/lib/filesystem.ts, src/convex/lib/folderPath.ts): rows with  *)
(* a parent pointer and a copy of the chain of ancestors, and the entries  *)
(* in them.                                                                *)
(*                                                                         *)
(* The parent pointer is the truth.  ancestorIds, an entry's folderPathKey *)
(* and, on user storage, its storageKey are copies that a scheduled walk   *)
(* (reparentSubtree) repairs folder by folder after a move or a rename.    *)
(* filesystemMissingAt marks a folder that is gone from the disk, or that  *)
(* was deleted and whose subtree is still being cleaned up.                *)
(*                                                                         *)
(* A folder name stands for its slug: names that share a slug are one      *)
(* value.                                                                  *)
(***************************************************************************)
EXTENDS Integers, FiniteSets, Sequences

CONSTANTS
    FolderIds, Root,   \* folder rows; Root is gallery.rootFolderId
    FolderNames,
    MaxFolderDepth,    \* MAX_FOLDER_DEPTH
    FileIds,           \* entry rows
    FileNames,
    Sizes,             \* the bytes a file can have
    UserStorage,       \* gallery.storageKind = "user"
    None

ASSUME TreeAssumption ==
    /\ Root \in FolderIds
    /\ IsFiniteSet(FolderIds) /\ IsFiniteSet(FileIds)
    /\ MaxFolderDepth \in Nat \ {0}
    /\ Sizes \subseteq Nat
    /\ UserStorage \in BOOLEAN
    /\ None \notin FolderIds \cup FileIds \cup FolderNames \cup FileNames

VARIABLES
    folders,
    files,      \* the entries of the gallery
    tasks       \* functions scheduled to run later

Policies == {"inherit", "public", "restricted"}

NoFolder == [status |-> "absent", parent |-> None, ancestors |-> <<>>, name |-> None,
             missing |-> FALSE, policy |-> "inherit", identity |-> None]

NoFile == [status |-> "absent", folder |-> None, name |-> None, size |-> 0,
           pathKey |-> <<>>, key |-> <<>>, identity |-> None, operation |-> None,
           moving |-> FALSE]

-----------------------------------------------------------------------------
Present(f) == folders[f].status = "present"

\* Listed and open to changes: the checks on filesystemMissingAt.
Visible(f) == Present(f) /\ ~folders[f].missing

ReadyFile(e) == files[e].status = "ready"

childrenOf(f) == {c \in FolderIds : Present(c) /\ folders[c].parent = f}

filesIn(f) == {e \in FileIds : ReadyFile(e) /\ files[e].folder = f}

\* [...parent.ancestorIds, parent._id]
ancestorsUnder(p) == Append(folders[p].ancestors, p)

\* What ancestorIds.includes(f) asks.
hasAncestor(g, f) == \E i \in DOMAIN folders[g].ancestors : folders[g].ancestors[i] = f

folderPathKey(f) == ancestorsUnder(f)

\* The names of the chain of ancestorIds, root left out: a path on the disk.  The
\* code throws when an ancestor has no row.
getFilesystemFolderSegments(f) ==
    LET chain == SelectSeq(ancestorsUnder(f), LAMBDA a : a # Root)
    IN  [i \in DOMAIN chain |-> folders[chain[i]].name]

ancestryValid(f) == \A i \in DOMAIN folders[f].ancestors : Present(folders[f].ancestors[i])

\* The key of a file on user storage is its path.
getFilesystemStorageKey(segments, name) == Append(segments, name)

-----------------------------------------------------------------------------
\* Parent pointers from p up to the root, or up to the first missing folder: the
\* rows a change of bytes below p concerns (updateAncestorBytes).
chainFrom(p) ==
    LET climb[n \in 0..MaxFolderDepth] ==
            IF n = 0 THEN {p} \cap {f \in FolderIds : Present(f)}
            ELSE LET below == climb[n - 1]
                 IN  below \cup {folders[c].parent : c \in {b \in below :
                         ~folders[b].missing /\ b # Root /\ Present(folders[b].parent)}}
    IN  climb[MaxFolderDepth]

\* All folders below f, by parent pointers.
subtreeOf(f) ==
    LET reach[n \in 0..Cardinality(FolderIds)] ==
            IF n = 0 THEN {f}
            ELSE LET above == reach[n - 1]
                 IN  above \cup {c \in FolderIds : Present(c) /\ folders[c].parent \in above}
    IN  reach[Cardinality(FolderIds)]

heightOf(f) ==
    LET levels[n \in 0..Cardinality(FolderIds)] ==
            IF n = 0 THEN {f}
            ELSE LET above == levels[n - 1]
                 IN  {c \in FolderIds : Visible(c) /\ folders[c].parent \in above}
    IN  Cardinality({n \in 1..Cardinality(FolderIds) : levels[n] # {}})

task(what, f) == [what |-> what, folder |-> f]
=============================================================================
