------------------------------ MODULE UserDisk ------------------------------
(***************************************************************************)
(* The directory of a gallery on user storage: a disk that the storage     *)
(* server, its workers and people with a shell change alike.  Convex       *)
(* cannot see it; what it knows are the paths its rows stand for, the      *)
(* inodes it was told of, and modification times.                          *)
(*                                                                         *)
(* An inode has a directory it is in, a name there, and a revision: the    *)
(* modification time of a directory, which every change of its list of     *)
(* names advances.  The size of a file stands for its content and its own  *)
(* modification time.  One name per inode: hard links are left out.        *)
(***************************************************************************)
EXTENDS Folders

CONSTANTS
    DirInodes, FileInodes, RootDir,   \* RootDir is the gallery's storage root
    SeedDisk                          \* inode -> [dir, name, size]

VARIABLE disk

Inodes == DirInodes \cup FileInodes

NoInode == [dir |-> None, name |-> None, size |-> 0, revision |-> 0]

ASSUME DiskAssumption ==
    /\ UserStorage /\ RootDir \in DirInodes
    /\ DirInodes \cap FileInodes = {}
    /\ FolderNames \cap FileNames = {}   \* bound: no file stands where a folder is wanted
    /\ None \notin Inodes /\ DOMAIN SeedDisk \subseteq Inodes

isDirectory(i) == i \in DirInodes
isFile(i) == i \in FileInodes

inDirectory(k, d) == {i \in Inodes : d # None /\ k[i].dir = d}

\* stat(path): the inode, or None for ENOENT and ENOTDIR.
stat(k, path) ==
    LET entry[d \in Inodes \cup {None}, name \in FolderNames \cup FileNames] ==
            LET here == {i \in inDirectory(k, d) : k[i].name = name}
            IN  IF here = {} THEN None ELSE CHOOSE i \in here : TRUE
        reach[n \in 0..Len(path)] ==
            IF n = 0 THEN RootDir ELSE entry[reach[n - 1], path[n]]
    IN  reach[Len(path)]

parentPath(path) == SubSeq(path, 1, Len(path) - 1)

touch(k, d) == IF d \in DirInodes THEN [k EXCEPT ![d].revision = @ + 1] ELSE k

unusedInodes(k, kind) == {i \in kind \ {RootDir} : k[i].dir = None}

\* link, rename or unlink, seen from the inode.
placed(k, i, d, name) ==
    touch(touch([k EXCEPT ![i].dir = d, ![i].name = name], k[i].dir),
          IF d = k[i].dir THEN None ELSE d)

insideOf(k, i) ==
    LET reach[n \in 0..Cardinality(DirInodes)] ==
            IF n = 0 THEN {i}
            ELSE LET above == reach[n - 1]
                 IN  above \cup {j \in Inodes : k[j].dir \in above}
    IN  reach[Cardinality(DirInodes)]

\* rm(path, recursive, force); a number that is used again has another mtime.
removed(k, i) ==
    LET gone == insideOf(k, i)
    IN  touch([j \in Inodes |-> IF j \in gone THEN [NoInode EXCEPT !.size = k[j].size,
                                                               !.revision = k[j].revision + 1]
                                ELSE k[j]],
              k[i].dir)

\* mkdir(path, recursive): a path that has been renamed away comes back as new,
\* empty directories.
madeDirectories(k, path) ==
    LET made[n \in 0..Len(path)] ==
            IF n = 0 THEN k
            ELSE LET before == made[n - 1]
                     here == SubSeq(path, 1, n)
                 IN  IF stat(before, here) # None THEN before
                     ELSE placed(before, CHOOSE i \in unusedInodes(before, DirInodes) : TRUE,
                                 stat(before, parentPath(here)), path[n])
    IN  made[Len(path)]

missingDirectories(k, path) ==
    Cardinality({n \in 1..Len(path) : stat(k, SubSeq(path, 1, n)) = None})

\* rename(2) replaces a file by a file and an empty directory by a directory.
canReplace(k, i, j) ==
    IF isFile(i) THEN isFile(j) ELSE isDirectory(j) /\ inDirectory(k, j) = {}

renamed(k, i, path) ==
    LET there == stat(k, path)
        cleared == IF there \in {None, i} THEN k ELSE removed(k, there)
    IN  placed(cleared, i, stat(cleared, parentPath(path)), path[Len(path)])

-----------------------------------------------------------------------------
pathOf(f) == getFilesystemFolderSegments(f)
directoryOf(f) == stat(disk, pathOf(f))

seedInode(i) ==
    IF i = RootDir THEN NoInode
    ELSE [NoInode EXCEPT !.dir = SeedDisk[i].dir, !.name = SeedDisk[i].name,
                         !.size = SeedDisk[i].size]

\* The catalog as scans of the seeded disk have left it.
DiskInit ==
    /\ Init
    /\ disk = [i \in Inodes |-> IF i \in DOMAIN SeedDisk \cup {RootDir} THEN seedInode(i)
                                ELSE NoInode]

\* Someone with a shell changes the library directory.
canLink(d, name) == d \in insideOf(disk, RootDir) /\ isDirectory(d)
                    /\ \A j \in inDirectory(disk, d) : disk[j].name # name

addOutside(i, d, name, size) ==
    /\ i \in unusedInodes(disk, Inodes) /\ canLink(d, name)
    /\ disk' = [placed(disk, i, d, name) EXCEPT ![i].size = size]

removeOutside(i) == i # RootDir /\ disk[i].dir # None /\ disk' = removed(disk, i)

renameOutside(i, d, name) ==
    /\ i # RootDir /\ disk[i].dir # None
    /\ canLink(d, name) /\ d \notin insideOf(disk, i)
    /\ disk' = placed(disk, i, d, name)

changeOutside(i, size) ==
    /\ isFile(i) /\ disk[i].dir # None /\ disk[i].size # size
    /\ disk' = [disk EXCEPT ![i].size = size]
=============================================================================
