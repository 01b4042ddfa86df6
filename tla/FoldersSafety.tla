--------------------------- MODULE FoldersSafety ---------------------------
(***************************************************************************)
(* The folder tree and the rights in it for every value of the constants:  *)
(* nothing is left hanging from a folder that went, no two folders that    *)
(* can be opened share a parent and a name, a copy of the chain of         *)
(* ancestors is right or about to be repaired, a role resolved from a      *)
(* repaired chain is the one of the tree, and signing in costs no right.   *)
(* The counters do not matter for any of these.                            *)
(***************************************************************************)
EXTENDS Access, TLAPS, FiniteSetTheorems

(***************************************************************************)
(* The inductive invariants                                                *)
(***************************************************************************)

\* The tables are functions to rows with these fields; absent rows hold nothing; the root
\* stays.
TreeShape ==
    /\ DOMAIN folders = FolderIds /\ DOMAIN files = FileIds
    /\ folders[Root].status = "present" /\ folders[Root].parent = None
    /\ \A f \in FolderIds :
          /\ folders[f].status \in {"absent", "present"} /\ folders[f].missing \in BOOLEAN
          /\ folders[f].status = "absent" => folders[f] = NoFolder
          /\ folders[f].status = "present" /\ f # Root => folders[f].parent \in FolderIds
          /\ DOMAIN folders[f] = DOMAIN NoFolder
    /\ \A e \in FileIds : /\ files[e].status = "ready" => files[e].folder \in FolderIds
                          /\ DOMAIN files[e] = DOMAIN NoFile

\* No folder is its own parent: a walk would repair a chain from itself.
NotOwnParent == \A f \in FolderIds : Present(f) => folders[f].parent # f

\* On user storage the tree is not moved here, so no walk meets a chain without rows.
WalksOnShared == UserStorage => \A f \in FolderIds : task("reparentSubtree", f) \notin tasks

TreeInv ==
    /\ TreeShape
    /\ NotOwnParent
    /\ WalksOnShared
    /\ NothingOrphaned
    /\ SiblingNamesUnique
    /\ CopiesRightOrWalked

\* Who is gone has no rights, and what was uploaded or adopted has an owner who is not.
RightsInv ==
    /\ profiles \in SUBSET Profiles
    /\ grants \in [Profiles -> [Scopes -> Roles]]
    /\ \A p \in Profiles \ profiles, s \in Scopes : grants[p][s] = 0
    /\ mountOwner \in [MountEntries -> profiles \cup {Unknown}]
    /\ adopted \in SUBSET MountEntries
    /\ \A e \in adopted \cup WebUploads : mountOwner[e] # Unknown
    /\ \A b \in batches : b.target \in Profiles \cup {Unknown} /\ b.left \in SUBSET MountEntries

(***************************************************************************)
(* Steps on the tree                                                       *)
(***************************************************************************)

\* Folders get other names and policies, or are hidden; walks over hidden ones end.
LEMMA LooksKeep ==
    ASSUME TreeInv, DOMAIN folders' = FolderIds, UNCHANGED files, SiblingNamesUnique',
           \A f \in FolderIds : /\ DOMAIN folders'[f] = DOMAIN NoFolder
                                /\ folders'[f].status = folders[f].status
                                /\ folders'[f].parent = folders[f].parent
                                /\ folders'[f].ancestors = folders[f].ancestors
                                /\ folders'[f].missing \in BOOLEAN
                                /\ folders[f].missing => folders'[f].missing
                                /\ folders[f].status = "absent" => folders'[f] = folders[f],
           \A f \in FolderIds :
              /\ task("reparentSubtree", f) \in tasks' => task("reparentSubtree", f) \in tasks
              /\ task("reparentSubtree", f) \in tasks /\ Visible(f)'
                    => task("reparentSubtree", f) \in tasks'
    PROVE  TreeInv'
<1>1. \A f \in FolderIds : /\ Present(f)' <=> Present(f)
                           /\ Visible(f)' => Visible(f)
                           /\ ancestorsUnder(f)' = ancestorsUnder(f)
  BY DEF Present, Visible, ancestorsUnder, TreeInv, TreeShape
<1>2. TreeShape'
  BY TreeAssumption DEF TreeInv, TreeShape
<1>3. NotOwnParent' /\ WalksOnShared'
  BY <1>1 DEF TreeInv, NotOwnParent, WalksOnShared
<1>4. NothingOrphaned'
  BY <1>1 DEF TreeInv, NothingOrphaned, Present, ReadyFile, TreeShape
<1>5. CopiesRightOrWalked'
  BY <1>1 DEF TreeInv, CopiesRightOrWalked, childrenOf, filesIn, ReadyFile, folderPathKey
<1> QED BY <1>2, <1>3, <1>4, <1>5 DEF TreeInv

\* Files come, go and change folders: a file that does gets its folder's chain.
LEMMA FilesKeep ==
    ASSUME TreeInv, UNCHANGED <<folders>>, DOMAIN files' = FileIds,
           \A e \in FileIds :
              /\ DOMAIN files'[e] = DOMAIN NoFile
              /\ files'[e].status = "ready" =>
                    \/ /\ files'[e].folder \in FolderIds /\ Present(files'[e].folder)
                       /\ files'[e].pathKey = folderPathKey(files'[e].folder)
                    \/ /\ files[e].status = "ready" /\ files'[e].folder = files[e].folder
                       /\ files'[e].pathKey = files[e].pathKey,
           \A f \in FolderIds : task("reparentSubtree", f) \in tasks'
                                <=> task("reparentSubtree", f) \in tasks
    PROVE  TreeInv'
<1>1. TreeShape'
  BY DEF TreeInv, TreeShape
<1>2. NotOwnParent' /\ WalksOnShared' /\ SiblingNamesUnique'
  BY DEF TreeInv, NotOwnParent, WalksOnShared, SiblingNamesUnique, Present, Visible
<1>3. NothingOrphaned'
  BY DEF TreeInv, NothingOrphaned, Present, ReadyFile
<1>4. CopiesRightOrWalked'
  <2> SUFFICES ASSUME NEW f \in FolderIds, Visible(f), task("reparentSubtree", f) \notin tasks
               PROVE  /\ \A c \in childrenOf(f)' : folders'[c].ancestors = ancestorsUnder(f)'
                      /\ \A e \in filesIn(f)' : files'[e].pathKey = folderPathKey(f)'
    BY DEF CopiesRightOrWalked, Visible, Present
  <2>1. childrenOf(f)' = childrenOf(f) /\ ancestorsUnder(f)' = ancestorsUnder(f)
    BY DEF childrenOf, Present, ancestorsUnder
  <2>2. \A c \in childrenOf(f) : folders[c].ancestors = ancestorsUnder(f)
    BY DEF TreeInv, CopiesRightOrWalked
  <2>3. \A e \in FileIds : files[e].status = "ready" /\ files[e].folder = f
                           => files[e].pathKey = folderPathKey(f)
    BY DEF TreeInv, CopiesRightOrWalked, filesIn, ReadyFile
  <2>4. \A e \in filesIn(f)' : files'[e].pathKey = folderPathKey(f)
    BY <2>3 DEF filesIn, ReadyFile
  <2> QED BY <2>1, <2>2, <2>4 DEF folderPathKey
<1> QED BY <1>1, <1>2, <1>3, <1>4 DEF TreeInv

\* A folder is created, under one that has its row.
LEMMA CreateKeeps ==
    ASSUME TreeInv, NEW f \in FolderIds, NEW p \in FolderIds, NEW name, NEW policy0,
           create(f, p, name, policy0)
    PROVE  TreeInv'
<1> DEFINE row == newFolder(p, name, policy0)
<1>1. /\ folders[f].status = "absent" /\ folders[p].status = "present" /\ f # p
      /\ siblingsNamed(p, name) = {}
      /\ folders' = [folders EXCEPT ![f] = row] /\ UNCHANGED <<files, tasks>>
  BY DEF create, canCreate, Present
<1>2. /\ DOMAIN row = DOMAIN NoFolder /\ row.status = "present" /\ row.parent = p
      /\ row.ancestors = ancestorsUnder(p) /\ row.name = name /\ row.missing = FALSE
  BY DEF newFolder, NoFolder
<1>10. f # Root /\ Root \in FolderIds /\ None \notin FolderIds
  BY <1>1, TreeAssumption DEF TreeInv, TreeShape
<1> HIDE DEF row
<1>3. /\ DOMAIN folders' = FolderIds /\ folders'[f] = row
      /\ \A g \in FolderIds \ {f} : folders'[g] = folders[g]
  BY <1>1 DEF TreeInv, TreeShape
<1>4. /\ \A g \in FolderIds : folders[g].status = "present" => g # f /\ folders[g].parent # f
      /\ \A e \in FileIds : ReadyFile(e) => files[e].folder # f
  BY <1>1, <1>10 DEF TreeInv, TreeShape, NothingOrphaned, Present
<1>5. TreeShape'
  BY <1>1, <1>2, <1>3, <1>10 DEF TreeInv, TreeShape
<1>6. NotOwnParent' /\ WalksOnShared'
  BY <1>1, <1>2, <1>3 DEF TreeInv, NotOwnParent, WalksOnShared, Present
<1>7. NothingOrphaned'
  BY <1>1, <1>2, <1>3, <1>4 DEF TreeInv, TreeShape, NothingOrphaned, Present, ReadyFile
<1>8. SiblingNamesUnique'
  <2>1. \A g \in FolderIds \ {f} : Visible(g)' /\ folders'[g].parent = p => folders'[g].name # name
    BY <1>1, <1>3 DEF Visible, Present, siblingsNamed, childrenOf
  <2>2. \A g \in FolderIds \ {f} : Visible(g)' <=> Visible(g)
    BY <1>3 DEF Visible, Present
  <2> QED BY <1>2, <1>3, <2>1, <2>2 DEF TreeInv, SiblingNamesUnique
<1>9. CopiesRightOrWalked'
  <2> SUFFICES ASSUME NEW g \in FolderIds, Visible(g)', task("reparentSubtree", g) \notin tasks'
               PROVE  /\ \A c \in childrenOf(g)' : folders'[c].ancestors = ancestorsUnder(g)'
                      /\ \A e \in filesIn(g)' : files'[e].pathKey = folderPathKey(g)'
    BY DEF CopiesRightOrWalked
  <2>1. CASE g = f
    <3>1. childrenOf(g)' = {} /\ filesIn(g)' = {}
      BY <1>1, <1>2, <1>3, <1>4, <1>10, <2>1 DEF childrenOf, filesIn, ReadyFile, Present, TreeInv, TreeShape
    <3> QED BY <3>1
  <2>2. CASE g # f
    <3>1. /\ Visible(g) /\ task("reparentSubtree", g) \notin tasks
          /\ ancestorsUnder(g)' = ancestorsUnder(g) /\ folderPathKey(g)' = folderPathKey(g)
      BY <1>1, <1>3, <2>2 DEF Visible, Present, ancestorsUnder, folderPathKey
    <3>2. \A c \in childrenOf(g)' : c \in childrenOf(g) \/ (c = f /\ g = p)
      BY <1>2, <1>3 DEF childrenOf, Present
    <3>3. f \notin childrenOf(g) /\ filesIn(g)' = filesIn(g)
      BY <1>1 DEF childrenOf, Present, filesIn, ReadyFile
    <3>4. \A c \in childrenOf(g) : c \in FolderIds \ {f} /\ folders'[c].ancestors = ancestorsUnder(g)
      BY <1>3, <3>1, <3>3 DEF TreeInv, CopiesRightOrWalked, childrenOf
    <3>5. \A e \in filesIn(g) : files'[e].pathKey = folderPathKey(g)
      BY <1>1, <3>1 DEF TreeInv, CopiesRightOrWalked
    <3> QED BY <1>2, <1>3, <3>1, <3>2, <3>3, <3>4, <3>5
  <2> QED BY <2>1, <2>2
<1> QED BY <1>5, <1>6, <1>7, <1>8, <1>9 DEF TreeInv

\* A folder is hidden, and will be taken apart.
LEMMA TombstoneKeeps ==
    ASSUME TreeInv, NEW f \in FolderIds, Visible(f), tombstone(f)
    PROVE  TreeInv'
<1>1. /\ folders' = [folders EXCEPT ![f].missing = TRUE] /\ UNCHANGED files
      /\ tasks' = tasks \cup {task("cleanupMissingFolder", f)}
  BY DEF tombstone
<1>2. DOMAIN folders' = FolderIds /\ folders[f].status = "present"
  BY <1>1 DEF TreeInv, TreeShape, Visible, Present
<1>3. \A g \in FolderIds : /\ DOMAIN folders'[g] = DOMAIN NoFolder
                           /\ folders'[g].status = folders[g].status
                           /\ folders'[g].parent = folders[g].parent
                           /\ folders'[g].name = folders[g].name
                           /\ folders'[g].ancestors = folders[g].ancestors
                           /\ folders'[g].missing \in BOOLEAN
                           /\ folders[g].missing => folders'[g].missing
                           /\ folders[g].status = "absent" => folders'[g] = folders[g]
  <2> TAKE g \in FolderIds
  <2>1. CASE g = f
    <3>1. folders'[f] = [folders[f] EXCEPT !.missing = TRUE]
      BY <1>1 DEF TreeInv, TreeShape
    <3>2. DOMAIN folders[f] = DOMAIN NoFolder
      BY DEF TreeInv, TreeShape
    <3> QED BY <1>2, <2>1, <3>1, <3>2 DEF NoFolder
  <2>2. CASE g # f
    BY <1>1, <1>2, <2>2 DEF TreeInv, TreeShape
  <2> QED BY <2>1, <2>2
<1>4. SiblingNamesUnique'
  BY <1>3 DEF TreeInv, TreeShape, SiblingNamesUnique, Visible, Present
<1>5. \A g \in FolderIds : task("reparentSubtree", g) \in tasks' <=> task("reparentSubtree", g) \in tasks
  BY <1>1 DEF task
<1> QED BY <1>1, <1>2, <1>3, <1>4, <1>5, LooksKeep

\* A folder is renamed or gets a policy.
LEMMA UpdateKeeps ==
    ASSUME TreeInv, NEW f \in FolderIds, NEW name, NEW policy0, update(f, name, policy0)
    PROVE  TreeInv'
<1>1. /\ folders' = [folders EXCEPT ![f].name = name, ![f].policy = policy0]
      /\ UNCHANGED <<files, tasks>>
      /\ folders[f].status = "present"
      /\ f = Root => name = folders[f].name
      /\ f # Root => siblingsNamed(folders[f].parent, name) \subseteq {f}
  BY DEF update, canUpdate, Present
<1>2. DOMAIN folders' = FolderIds
  BY <1>1 DEF TreeInv, TreeShape
<1>3. \A g \in FolderIds : /\ DOMAIN folders'[g] = DOMAIN NoFolder
                           /\ folders'[g].status = folders[g].status
                           /\ folders'[g].parent = folders[g].parent
                           /\ folders'[g].ancestors = folders[g].ancestors
                           /\ folders'[g].missing = folders[g].missing
                           /\ folders'[g].name = IF g = f THEN name ELSE folders[g].name
                           /\ folders[g].status = "absent" => folders'[g] = folders[g]
  BY <1>1 DEF TreeInv, TreeShape, NoFolder
<1>4. \A g \in FolderIds : Visible(g)' <=> Visible(g)
  BY <1>3 DEF Visible, Present
<1>5. \A g \in FolderIds \ {f} : Visible(g) /\ folders[g].parent = folders[f].parent => folders[g].name # name
  <2>1. CASE f # Root
    BY <1>1, <2>1 DEF siblingsNamed, childrenOf, Visible, Present
  <2>2. CASE f = Root
    BY <1>1, <2>2, TreeAssumption DEF TreeInv, TreeShape, Visible, Present
  <2> QED BY <2>1, <2>2
<1>6. SiblingNamesUnique'
  BY <1>3, <1>4, <1>5 DEF TreeInv, SiblingNamesUnique
<1>7. /\ \A g \in FolderIds : folders'[g].missing \in BOOLEAN
      /\ UNCHANGED <<files, tasks>>
  BY <1>1, <1>3 DEF TreeInv, TreeShape
<1> QED BY <1>2, <1>3, <1>6, <1>7, LooksKeep

\* Policies below a folder are reset.
LEMMA ResetKeeps ==
    ASSUME TreeInv, NEW f \in FolderIds, resetAccessPolicySubtree(f) \/ resetChildAccessPolicies(f)
    PROVE  TreeInv'
<1>1. UNCHANGED files /\ DOMAIN folders' = FolderIds
  BY DEF resetAccessPolicySubtree, resetChildAccessPolicies, TreeInv, TreeShape
<1>2. \A g \in FolderIds : /\ DOMAIN folders'[g] = DOMAIN NoFolder
                           /\ folders'[g].status = folders[g].status
                           /\ folders'[g].parent = folders[g].parent
                           /\ folders'[g].name = folders[g].name
                           /\ folders'[g].ancestors = folders[g].ancestors
                           /\ folders'[g].missing = folders[g].missing
                           /\ folders[g].status = "absent" => folders'[g] = folders[g]
  BY DEF resetAccessPolicySubtree, resetChildAccessPolicies, TreeInv, TreeShape, Visible, Present,
         childrenOf, NoFolder
<1>3. \A g \in FolderIds : task("reparentSubtree", g) \in tasks' <=> task("reparentSubtree", g) \in tasks
  BY DEF resetAccessPolicySubtree, resetChildAccessPolicies, task
<1>4. SiblingNamesUnique'
  BY <1>2 DEF TreeInv, SiblingNamesUnique, Visible, Present
<1> QED BY <1>1, <1>2, <1>3, <1>4, LooksKeep DEF TreeInv, TreeShape

\* A walk ends at a folder that has gone.
LEMMA WalkEndsKeeps ==
    ASSUME TreeInv, NEW f \in FolderIds, NEW what, walkEnds(what, f)
    PROVE  TreeInv'
<1>1. UNCHANGED <<files, folders>> /\ tasks' = tasks \ {task(what, f)}
  BY DEF walkEnds, dropTask
<1>2. \A g \in FolderIds : task("reparentSubtree", g) \in tasks /\ Visible(g)
                           => task("reparentSubtree", g) \in tasks'
  BY <1>1 DEF walkEnds, task, TreeInv, WalksOnShared
<1>3. SiblingNamesUnique' /\ \A g \in FolderIds : Visible(g)' <=> Visible(g)
  BY <1>1 DEF TreeInv, SiblingNamesUnique, Visible, Present
<1> QED BY <1>1, <1>2, <1>3, LooksKeep DEF TreeInv, TreeShape

\* A folder moves under one that can be opened, where no namesake can be.
LEMMA MoveKeeps ==
    ASSUME TreeInv, NEW f \in FolderIds, NEW d \in FolderIds, moveMany(f, d)
    PROVE  TreeInv'
<1>1. /\ folders' = [folders EXCEPT ![f].parent = d, ![f].ancestors = ancestorsUnder(d)]
      /\ UNCHANGED files /\ tasks' = tasks \cup {task("reparentSubtree", f)}
      /\ ~UserStorage /\ f # Root /\ d # f
      /\ folders[f].status = "present" /\ folders[d].status = "present" /\ ~folders[d].missing
      /\ \A c \in siblingsNamed(d, folders[f].name) : folders[c].missing
  BY DEF moveMany, canMove, canRemove, Visible, Present
<1> DEFINE row == [folders[f] EXCEPT !.parent = d, !.ancestors = ancestorsUnder(d)]
<1>2. /\ DOMAIN folders' = FolderIds /\ folders'[f] = row
      /\ \A g \in FolderIds \ {f} : folders'[g] = folders[g]
  BY <1>1 DEF TreeInv, TreeShape
<1>3. DOMAIN folders[f] = DOMAIN NoFolder
  BY DEF TreeInv, TreeShape
<1>4. /\ DOMAIN row = DOMAIN NoFolder /\ row.parent = d /\ row.ancestors = ancestorsUnder(d)
      /\ row.status = "present" /\ row.missing = folders[f].missing /\ row.name = folders[f].name
  BY <1>1, <1>3 DEF NoFolder
<1> HIDE DEF row
<1>5. \A g \in FolderIds : /\ Present(g)' <=> Present(g)
                           /\ Visible(g)' <=> Visible(g)
                           /\ folders'[g].name = folders[g].name
  BY <1>1, <1>2, <1>4 DEF Present, Visible
<1>6. TreeShape'
  BY <1>1, <1>2, <1>4, TreeAssumption DEF TreeInv, TreeShape
<1>7. NotOwnParent' /\ WalksOnShared'
  BY <1>1, <1>2, <1>4, <1>5 DEF TreeInv, NotOwnParent, WalksOnShared
<1>8. NothingOrphaned'
  BY <1>1, <1>2, <1>4, <1>5 DEF TreeInv, TreeShape, NothingOrphaned, ReadyFile, Present
<1>9. SiblingNamesUnique'
  <2>1. \A g \in FolderIds \ {f} : Visible(g) /\ folders[g].parent = d
                                  => folders[g].name # folders[f].name
    BY <1>1 DEF siblingsNamed, childrenOf, Visible, Present
  <2> QED BY <1>2, <1>4, <1>5, <2>1 DEF TreeInv, SiblingNamesUnique
<1>10. CopiesRightOrWalked'
  <2> SUFFICES ASSUME NEW g \in FolderIds, Visible(g)', task("reparentSubtree", g) \notin tasks'
               PROVE  /\ \A c \in childrenOf(g)' : folders'[c].ancestors = ancestorsUnder(g)'
                      /\ \A e \in filesIn(g)' : files'[e].pathKey = folderPathKey(g)'
    BY DEF CopiesRightOrWalked
  <2>1. g # f /\ task("reparentSubtree", g) \notin tasks /\ Visible(g)
    BY <1>1, <1>5
  <2>2. ancestorsUnder(g)' = ancestorsUnder(g) /\ folderPathKey(g)' = folderPathKey(g)
    BY <1>2, <2>1 DEF ancestorsUnder, folderPathKey
  <2>3. filesIn(g)' = filesIn(g)
    BY <1>1 DEF filesIn, ReadyFile
  <2>4. \A c \in childrenOf(g)' : (c \in childrenOf(g) /\ c # f) \/ (c = f /\ g = d)
    BY <1>2, <1>4, <1>5 DEF childrenOf
  <2>5. \A c \in childrenOf(g) : c \in FolderIds /\ folders[c].ancestors = ancestorsUnder(g)
    BY <2>1 DEF TreeInv, CopiesRightOrWalked, childrenOf
  <2>6. \A e \in filesIn(g) : files'[e].pathKey = folderPathKey(g)
    BY <1>1, <2>1 DEF TreeInv, CopiesRightOrWalked
  <2> QED BY <1>2, <1>4, <2>2, <2>3, <2>4, <2>5, <2>6
<1> QED BY <1>6, <1>7, <1>8, <1>9, <1>10 DEF TreeInv

\* One folder of the walk: its children's copies, and those of the files in it, get right;
\* the children are next.
LEMMA ReparentKeeps ==
    ASSUME TreeInv, NEW f \in FolderIds, reparentSubtree(f)
    PROVE  TreeInv'
<1> DEFINE child(c) == [folders[c] EXCEPT !.ancestors = ancestorsUnder(f)]
<1>1. /\ folders' = [c \in FolderIds |-> IF c \in childrenOf(f) THEN child(c) ELSE folders[c]]
      /\ tasks' = (tasks \ {task("reparentSubtree", f)})
                  \cup {task("reparentSubtree", c) : c \in childrenOf(f)}
      /\ DOMAIN files' = FileIds /\ Visible(f) /\ task("reparentSubtree", f) \in tasks
      /\ \A e \in FileIds : files[e].folder # f => files'[e] = files[e]
  BY DEF reparentSubtree, walkedChildrenOf
<1>2. ~UserStorage
  BY <1>1 DEF TreeInv, WalksOnShared
<1>3. \A c \in FolderIds : DOMAIN folders[c] = DOMAIN NoFolder
  BY DEF TreeInv, TreeShape
<1>4. \A c \in FolderIds : /\ DOMAIN child(c) = DOMAIN NoFolder
                           /\ child(c).status = folders[c].status
                           /\ child(c).parent = folders[c].parent
                           /\ child(c).name = folders[c].name
                           /\ child(c).missing = folders[c].missing
                           /\ child(c).ancestors = ancestorsUnder(f)
  BY <1>3 DEF NoFolder
<1> HIDE DEF child
<1>5. f \notin childrenOf(f)
  BY DEF TreeInv, NotOwnParent, childrenOf
<1>6. \A g \in FolderIds : /\ DOMAIN folders'[g] = DOMAIN NoFolder
                           /\ folders'[g].status = folders[g].status
                           /\ folders'[g].parent = folders[g].parent
                           /\ folders'[g].name = folders[g].name
                           /\ folders'[g].missing = folders[g].missing
                           /\ folders'[g].ancestors =
                                 IF g \in childrenOf(f) THEN ancestorsUnder(f) ELSE folders[g].ancestors
                           /\ folders[g].status = "absent" => folders'[g] = folders[g]
  BY <1>1, <1>3, <1>4 DEF childrenOf, Present
<1>7. \A e \in FileIds : /\ DOMAIN files'[e] = DOMAIN NoFile
                         /\ files'[e].status = files[e].status
                         /\ files'[e].folder = files[e].folder
                         /\ files[e].folder = f => files'[e].pathKey = folderPathKey(f)
  <2> TAKE e \in FileIds
  <2>1. CASE files[e].folder # f
    BY <1>1, <2>1 DEF TreeInv, TreeShape
  <2>2. CASE files[e].folder = f
    <3>1. files'[e] = [files[e] EXCEPT !.pathKey = folderPathKey(f), !.key = @]
      BY <1>2, <2>2 DEF reparentSubtree
    <3>2. DOMAIN files[e] = DOMAIN NoFile
      BY DEF TreeInv, TreeShape
    <3> QED BY <3>1, <3>2 DEF NoFile
  <2> QED BY <2>1, <2>2
<1>8. /\ \A g \in FolderIds : (Present(g)' <=> Present(g)) /\ (Visible(g)' <=> Visible(g))
      /\ \A g \in FolderIds : childrenOf(g)' = childrenOf(g) /\ filesIn(g)' = filesIn(g)
      /\ ancestorsUnder(f)' = ancestorsUnder(f)
  BY <1>5, <1>6, <1>7 DEF Present, Visible, childrenOf, filesIn, ReadyFile, ancestorsUnder
<1>9. TreeShape'
  BY <1>1, <1>6, <1>7, TreeAssumption DEF TreeInv, TreeShape
<1>10. NotOwnParent' /\ WalksOnShared'
  BY <1>2, <1>6, <1>8 DEF TreeInv, NotOwnParent, WalksOnShared
<1>11. NothingOrphaned' /\ SiblingNamesUnique'
  BY <1>6, <1>7, <1>8 DEF TreeInv, TreeShape, NothingOrphaned, SiblingNamesUnique, ReadyFile, Present
<1>12. CopiesRightOrWalked'
  <2> SUFFICES ASSUME NEW g \in FolderIds, Visible(g), task("reparentSubtree", g) \notin tasks'
               PROVE  /\ \A c \in childrenOf(g) : folders'[c].ancestors = ancestorsUnder(g)'
                      /\ \A e \in filesIn(g) : files'[e].pathKey = folderPathKey(g)'
    BY <1>8 DEF CopiesRightOrWalked
  <2>1. g \notin childrenOf(f)
    BY <1>1
  <2>2. ancestorsUnder(g)' = ancestorsUnder(g) /\ folderPathKey(g)' = folderPathKey(g)
    BY <1>6, <2>1 DEF ancestorsUnder, folderPathKey
  <2>3. CASE g = f
    BY <1>6, <1>7, <2>2, <2>3 DEF childrenOf, filesIn
  <2>4. CASE g # f
    <3>1. task("reparentSubtree", g) \notin tasks
      BY <1>1, <2>4 DEF task
    <3>2. \A c \in childrenOf(g) : c \in FolderIds /\ folders[c].ancestors = ancestorsUnder(g)
                                   /\ c \notin childrenOf(f)
      BY <2>4, <3>1 DEF TreeInv, CopiesRightOrWalked, childrenOf
    <3>3. \A e \in filesIn(g) : files'[e] = files[e] /\ files[e].pathKey = folderPathKey(g)
      BY <1>1, <2>4, <3>1 DEF TreeInv, CopiesRightOrWalked, filesIn
    <3> QED BY <1>6, <2>2, <3>2, <3>3
  <2> QED BY <2>3, <2>4
<1> QED BY <1>9, <1>10, <1>11, <1>12 DEF TreeInv

\* Files land, are removed and are settled in other folders.
LEMMA ContentsKeep ==
    ASSUME TreeInv, NEW e \in FileIds, Contents(e)
    PROVE  TreeInv'
<1>1. UNCHANGED <<folders, tasks>>
  BY DEF Contents, landFile, settleReadyEntry, removeFile
<1>2. CASE removeFile(e)
  BY <1>1, <1>2, FilesKeep DEF removeFile, TreeInv, TreeShape, NoFile
<1>3. ASSUME NEW f \in FolderIds, NEW name, NEW size, landFile(e, f, name, size)
      PROVE  TreeInv'
  <2>1. PICK row : row = [NoFile EXCEPT
           !.status = "ready", !.folder = f, !.name = name, !.size = size,
           !.pathKey = folderPathKey(f),
           !.key = getFilesystemStorageKey(getFilesystemFolderSegments(f), name)]
    OBVIOUS
  <2>2. /\ DOMAIN row = DOMAIN NoFile /\ row.folder = f /\ row.pathKey = folderPathKey(f)
    BY <2>1 DEF NoFile
  <2>3. files' = [files EXCEPT ![e] = row] /\ Present(f)
    BY <1>3, <2>1 DEF landFile
  <2>4. DOMAIN files = FileIds /\ \A x \in FileIds : DOMAIN files[x] = DOMAIN NoFile
    BY DEF TreeInv, TreeShape
  <2>5. \A x \in FileIds : files'[x] = IF x = e THEN row ELSE files[x]
    BY <2>3, <2>4
  <2>6. files[e].status = "ready" => files[e].folder \in FolderIds
    BY DEF TreeInv, TreeShape
  <2>7. \A x \in FileIds : files[x].status = "ready" => files[x].folder \in FolderIds
    BY DEF TreeInv, TreeShape
  <2> QED BY <1>1, <2>2, <2>3, <2>4, <2>5, <2>7, FilesKeep
<1>4. ASSUME NEW f \in FolderIds, NEW size, settleReadyEntry(e, f, size)
      PROVE  TreeInv'
  <2>1. PICK row : row = [files[e] EXCEPT !.folder = f, !.size = size, !.pathKey = folderPathKey(f)]
    OBVIOUS
  <2>2. DOMAIN files = FileIds /\ \A x \in FileIds : DOMAIN files[x] = DOMAIN NoFile
    BY DEF TreeInv, TreeShape
  <2>3. /\ DOMAIN row = DOMAIN NoFile /\ row.folder = f /\ row.pathKey = folderPathKey(f)
    BY <2>1, <2>2 DEF NoFile
  <2>4. files' = [files EXCEPT ![e] = row] /\ Present(f)
    BY <1>4, <2>1, <2>2 DEF settleReadyEntry, Visible
  <2>5. \A x \in FileIds : files'[x] = IF x = e THEN row ELSE files[x]
    BY <2>2, <2>4
  <2> QED BY <1>1, <2>2, <2>3, <2>4, <2>5, FilesKeep
<1> QED BY <1>2, <1>3, <1>4 DEF Contents

\* A hidden folder is taken apart: files, then children, then its row.
LEMMA CleanupKeeps ==
    ASSUME TreeInv, NEW f \in FolderIds, cleanupMissingFolder(f)
    PROVE  TreeInv'
<1>1. \A g \in FolderIds : task("reparentSubtree", g) \in tasks' <=> task("reparentSubtree", g) \in tasks
  <2>1. \/ tasks' = tasks \ {task("cleanupMissingFolder", f)}
        \/ tasks' = tasks \cup {task("cleanupMissingFolder", f)}
        \/ tasks' = (tasks \cup {task("cleanupMissingFolder", f)})
                      \cup {task("cleanupMissingFolder", c) : c \in childrenOf(f)}
    BY Zenon DEF cleanupMissingFolder, cleanupOver, cleanupFiles, cleanupChildren, cleanupRow,
                 dropTask, rescheduled
  <2> QED BY <2>1 DEF task
<1>2. CASE cleanupOver(f)
  BY <1>1, <1>2, FilesKeep DEF cleanupOver, TreeInv, TreeShape
<1>3. CASE cleanupFiles(f)
  <2>1. /\ UNCHANGED folders /\ DOMAIN files' = FileIds
        /\ \A e \in FileIds : files'[e] = NoFile \/ files'[e] = files[e]
    BY <1>3 DEF cleanupFiles
  <2>2. \A e \in FileIds : DOMAIN files'[e] = DOMAIN NoFile /\ NoFile.status # "ready"
    BY <2>1 DEF TreeInv, TreeShape, NoFile
  <2> QED BY <1>1, <2>1, <2>2, FilesKeep
<1>4. CASE cleanupChildren(f)
  <2> DEFINE child(c) == [folders[c] EXCEPT !.missing = TRUE]
  <2>1. /\ folders' = [c \in FolderIds |-> IF c \in childrenOf(f) THEN child(c) ELSE folders[c]]
        /\ UNCHANGED files
    BY <1>4 DEF cleanupChildren
  <2>2. \A c \in FolderIds : DOMAIN folders[c] = DOMAIN NoFolder
    BY DEF TreeInv, TreeShape
  <2>3. \A c \in FolderIds : /\ DOMAIN child(c) = DOMAIN NoFolder
                             /\ child(c).status = folders[c].status
                             /\ child(c).parent = folders[c].parent
                             /\ child(c).ancestors = folders[c].ancestors
                             /\ child(c).name = folders[c].name
                             /\ child(c).missing = TRUE
    BY <2>2 DEF NoFolder
  <2> HIDE DEF child
  <2>4. /\ DOMAIN folders' = FolderIds
        /\ \A g \in FolderIds : /\ DOMAIN folders'[g] = DOMAIN NoFolder
                                /\ folders'[g].status = folders[g].status
                                /\ folders'[g].parent = folders[g].parent
                                /\ folders'[g].ancestors = folders[g].ancestors
                                /\ folders'[g].name = folders[g].name
                                /\ folders'[g].missing \in BOOLEAN
                                /\ folders[g].missing => folders'[g].missing
                                /\ folders[g].status = "absent" => folders'[g] = folders[g]
    BY <2>1, <2>2, <2>3 DEF childrenOf, Present, TreeInv, TreeShape
  <2>5. SiblingNamesUnique'
    BY <2>4 DEF TreeInv, TreeShape, SiblingNamesUnique, Visible, Present
  <2> QED BY <1>1, <2>1, <2>4, <2>5, LooksKeep
<1>5. CASE cleanupRow(f)
  <2>1. /\ folders' = [folders EXCEPT ![f] = NoFolder] /\ UNCHANGED files /\ f # Root
        /\ \A e \in FileIds : files[e].status = "ready" => files[e].folder # f
        /\ \A c \in FolderIds : folders[c].status = "present" => folders[c].parent # f
    BY <1>5 DEF cleanupRow, emptied, filesIn, childrenOf, ReadyFile, Present
  <2>2. /\ DOMAIN folders' = FolderIds /\ folders'[f] = NoFolder
        /\ \A g \in FolderIds \ {f} : folders'[g] = folders[g]
    BY <2>1 DEF TreeInv, TreeShape
  <2>3. NoFolder.status = "absent" /\ NoFolder.missing = FALSE
    BY DEF NoFolder
  <2>4. TreeShape'
    BY <2>1, <2>2, <2>3, TreeAssumption DEF TreeInv, TreeShape
  <2>5. NotOwnParent' /\ WalksOnShared'
    BY <1>1, <2>2, <2>3 DEF TreeInv, NotOwnParent, WalksOnShared, Present
  <2>6. NothingOrphaned'
    BY <2>1, <2>2, <2>3 DEF TreeInv, TreeShape, NothingOrphaned, Present, ReadyFile
  <2>7. SiblingNamesUnique'
    BY <2>2, <2>3 DEF TreeInv, SiblingNamesUnique, Present, Visible
  <2>8. CopiesRightOrWalked'
    <3> SUFFICES ASSUME NEW g \in FolderIds, Visible(g)', task("reparentSubtree", g) \notin tasks'
                 PROVE  /\ \A c \in childrenOf(g)' : folders'[c].ancestors = ancestorsUnder(g)'
                        /\ \A e \in filesIn(g)' : files'[e].pathKey = folderPathKey(g)'
      BY DEF CopiesRightOrWalked
    <3>1. g # f /\ Visible(g) /\ task("reparentSubtree", g) \notin tasks
      BY <1>1, <2>2, <2>3 DEF Visible, Present
    <3>2. /\ ancestorsUnder(g)' = ancestorsUnder(g) /\ folderPathKey(g)' = folderPathKey(g)
          /\ filesIn(g)' = filesIn(g)
      BY <2>1, <2>2, <3>1 DEF ancestorsUnder, folderPathKey, filesIn, ReadyFile
    <3>3. \A c \in childrenOf(g)' : c \in childrenOf(g) /\ folders'[c] = folders[c]
      BY <2>2, <2>3 DEF childrenOf, Present
    <3>4. /\ \A c \in childrenOf(g) : folders[c].ancestors = ancestorsUnder(g)
          /\ \A e \in filesIn(g) : files[e].pathKey = folderPathKey(g)
      BY <3>1 DEF TreeInv, CopiesRightOrWalked
    <3> QED BY <2>1, <3>2, <3>3, <3>4
  <2> QED BY <2>4, <2>5, <2>6, <2>7, <2>8 DEF TreeInv
<1> QED BY <1>2, <1>3, <1>4, <1>5 DEF cleanupMissingFolder

\* The folders, the entries and the walks stay.
LEMMA TreeUnchanged ==
    ASSUME TreeInv, unchangedTree
    PROVE  TreeInv'
BY FilesKeep DEF unchangedTree, TreeInv, TreeShape

-----------------------------------------------------------------------------
(***************************************************************************)
(* The invariant of the tree                                               *)
(***************************************************************************)

\* What the seed says of the parents: the last of a chain, and all before it.
LEMMA SeedChains ==
    ASSUME NEW f \in DOMAIN SeedFolders, f # Root
    PROVE  LET chain == SeedFolders[f].ancestors
               p == chain[Len(chain)]
           IN  p \in DOMAIN SeedFolders /\ p # f /\ chain = Append(SeedFolders[p].ancestors, p)
<1>1. PICK p \in DOMAIN SeedFolders :
          /\ SeedFolders[p].ancestors \in Seq(FolderIds)
          /\ SeedFolders[f].ancestors = Append(SeedFolders[p].ancestors, p)
  BY SeedTreeAssumption
<1>2. DOMAIN SeedFolders \subseteq FolderIds
  BY SeedTreeAssumption
<1>3. \A s \in Seq(FolderIds), x \in FolderIds :
         Len(Append(s, x)) = Len(s) + 1 /\ Append(s, x)[Len(s) + 1] = x /\ Len(s) \in Nat
  OBVIOUS
<1>4. SeedFolders[f].ancestors[Len(SeedFolders[f].ancestors)] = p
  BY <1>1, <1>2, <1>3
<1>5. p # f
  <2>1. Len(SeedFolders[f].ancestors) = Len(SeedFolders[p].ancestors) + 1
        /\ Len(SeedFolders[p].ancestors) \in Nat
    BY <1>1, <1>2, <1>3
  <2> QED BY <2>1
<1> QED BY <1>1, <1>4, <1>5

\* The rows to begin with.
LEMMA SeedRows ==
    ASSUME Init
    PROVE  /\ DOMAIN folders = FolderIds /\ DOMAIN files = FileIds /\ tasks = {}
           /\ \A f \in FolderIds \ DOMAIN SeedFolders : folders[f] = NoFolder
           /\ \A f \in DOMAIN SeedFolders :
                 /\ DOMAIN folders[f] = DOMAIN NoFolder
                 /\ folders[f].status = "present" /\ folders[f].missing = FALSE
                 /\ folders[f].name = SeedFolders[f].name
                 /\ folders[f].ancestors = SeedFolders[f].ancestors
                 /\ folders[f].parent = IF f = Root THEN None
                       ELSE SeedFolders[f].ancestors[Len(SeedFolders[f].ancestors)]
           /\ \A e \in FileIds \ DOMAIN SeedFiles : files[e] = NoFile
           /\ \A e \in DOMAIN SeedFiles :
                 /\ DOMAIN files[e] = DOMAIN NoFile
                 /\ files[e].folder = SeedFiles[e].folder
                 /\ files[e].pathKey = Append(SeedFolders[SeedFiles[e].folder].ancestors,
                                              SeedFiles[e].folder)
<1>1. DOMAIN SeedFolders \subseteq FolderIds /\ DOMAIN SeedFiles \subseteq FileIds
  BY SeedTreeAssumption
<1> DEFINE row(f) == [NoFolder EXCEPT
                    !.status = "present", !.name = SeedFolders[f].name,
                    !.policy = SeedFolders[f].policy,
                    !.identity = SeedFolders[f].identity,
                    !.ancestors = SeedFolders[f].ancestors,
                    !.parent = IF f = Root THEN None
                               ELSE SeedFolders[f].ancestors[Len(SeedFolders[f].ancestors)]]
<1>2. /\ folders = [f \in FolderIds |-> IF f \notin DOMAIN SeedFolders THEN NoFolder ELSE row(f)]
      /\ tasks = {}
  BY DEF Init
<1>3. \A f \in DOMAIN SeedFolders :
         /\ DOMAIN row(f) = DOMAIN NoFolder
         /\ row(f).status = "present" /\ row(f).missing = FALSE
         /\ row(f).name = SeedFolders[f].name
         /\ row(f).ancestors = SeedFolders[f].ancestors
         /\ row(f).parent = IF f = Root THEN None
               ELSE SeedFolders[f].ancestors[Len(SeedFolders[f].ancestors)]
  BY DEF NoFolder
<1> HIDE DEF row
<1> DEFINE path(f) == Append(SeedFolders[f].ancestors, f)
           names(f) == [i \in 2..Len(path(f)) |-> SeedFolders[path(f)[i]].name]
           file(e) == [NoFile EXCEPT
                         !.status = "ready", !.folder = SeedFiles[e].folder,
                         !.name = SeedFiles[e].name, !.size = SeedFiles[e].size,
                         !.pathKey = path(SeedFiles[e].folder),
                         !.identity = SeedFiles[e].identity,
                         !.key = Append([i \in 1..(Len(path(SeedFiles[e].folder)) - 1) |->
                                            names(SeedFiles[e].folder)[i + 1]],
                                        SeedFiles[e].name)]
<1>4. files = [e \in FileIds |-> IF e \notin DOMAIN SeedFiles THEN NoFile ELSE file(e)]
  BY DEF Init
<1>5. \A e \in DOMAIN SeedFiles : /\ DOMAIN file(e) = DOMAIN NoFile
                                  /\ file(e).folder = SeedFiles[e].folder
                                  /\ file(e).pathKey = path(SeedFiles[e].folder)
  BY DEF NoFile
<1> HIDE DEF file
<1> QED BY <1>1, <1>2, <1>3, <1>4, <1>5

\* The tree to begin with is in order.
LEMMA TreeInit ==
    ASSUME AccessInit
    PROVE  TreeInv
<1>1. /\ DOMAIN folders = FolderIds /\ DOMAIN files = FileIds /\ tasks = {}
      /\ \A f \in FolderIds \ DOMAIN SeedFolders : folders[f] = NoFolder
      /\ \A f \in DOMAIN SeedFolders :
            /\ DOMAIN folders[f] = DOMAIN NoFolder
            /\ folders[f].status = "present" /\ folders[f].missing = FALSE
            /\ folders[f].name = SeedFolders[f].name
            /\ folders[f].ancestors = SeedFolders[f].ancestors
            /\ folders[f].parent = IF f = Root THEN None
                  ELSE SeedFolders[f].ancestors[Len(SeedFolders[f].ancestors)]
      /\ \A e \in FileIds \ DOMAIN SeedFiles : files[e] = NoFile
      /\ \A e \in DOMAIN SeedFiles :
            /\ DOMAIN files[e] = DOMAIN NoFile
            /\ files[e].folder = SeedFiles[e].folder
            /\ files[e].pathKey = Append(SeedFolders[SeedFiles[e].folder].ancestors,
                                         SeedFiles[e].folder)
  BY SeedRows DEF AccessInit
<1>2. /\ Root \in DOMAIN SeedFolders /\ Root \in FolderIds /\ None \notin FolderIds
      /\ DOMAIN SeedFolders \subseteq FolderIds /\ DOMAIN SeedFiles \subseteq FileIds
      /\ \A e \in DOMAIN SeedFiles : SeedFiles[e].folder \in DOMAIN SeedFolders
  BY SeedTreeAssumption, TreeAssumption
<1>3. NoFolder.status = "absent" /\ NoFolder.missing = FALSE /\ NoFile.status = "absent"
  BY DEF NoFolder, NoFile
<1>4. \A f \in DOMAIN SeedFolders \ {Root} :
         /\ folders[f].parent \in DOMAIN SeedFolders /\ folders[f].parent # f
         /\ folders[f].ancestors = ancestorsUnder(folders[f].parent)
  <2> TAKE f \in DOMAIN SeedFolders \ {Root}
  <2>1. PICK p : p = SeedFolders[f].ancestors[Len(SeedFolders[f].ancestors)]
    OBVIOUS
  <2>2. /\ p \in DOMAIN SeedFolders /\ p # f
        /\ SeedFolders[f].ancestors = Append(SeedFolders[p].ancestors, p)
    BY <2>1, SeedChains
  <2>3. folders[f].parent = p
    BY <1>1, <2>1
  <2>4. folders[p].ancestors = SeedFolders[p].ancestors /\ folders[f].ancestors = SeedFolders[f].ancestors
    BY <1>1, <2>2
  <2> QED BY <2>2, <2>3, <2>4 DEF ancestorsUnder
<1>5. \A f \in FolderIds : Present(f) <=> f \in DOMAIN SeedFolders
  BY <1>1, <1>2, <1>3 DEF Present
<1>6. \A e \in FileIds : ReadyFile(e) => e \in DOMAIN SeedFiles
  BY <1>1, <1>3 DEF ReadyFile
<1>7. TreeShape
  BY <1>1, <1>2, <1>3, <1>4, <1>6 DEF TreeShape, ReadyFile
<1>8. NotOwnParent /\ WalksOnShared
  BY <1>1, <1>2, <1>4, <1>5 DEF NotOwnParent, WalksOnShared
<1>9. NothingOrphaned
  BY <1>1, <1>2, <1>4, <1>5, <1>6 DEF NothingOrphaned
<1>10. SiblingNamesUnique
  <2> SUFFICES ASSUME NEW f \in FolderIds, NEW g \in FolderIds, Visible(f), Visible(g), f # g,
                      folders[f].parent = folders[g].parent
               PROVE  folders[f].name # folders[g].name
    BY DEF SiblingNamesUnique
  <2>1. f \in DOMAIN SeedFolders /\ g \in DOMAIN SeedFolders
    BY <1>5 DEF Visible
  <2>2. f # Root /\ g # Root
    BY <1>1, <1>2, <1>4, <2>1
  <2>3. SeedFolders[f].ancestors = SeedFolders[g].ancestors
    BY <1>1, <1>4, <2>1, <2>2
  <2>4. SeedFolders[f].name # SeedFolders[g].name
    BY <2>1, <2>3, SeedTreeAssumption
  <2> QED BY <1>1, <2>1, <2>4
<1>11. CopiesRightOrWalked
  <2> SUFFICES ASSUME NEW f \in FolderIds, Visible(f)
               PROVE  /\ \A c \in childrenOf(f) : folders[c].ancestors = ancestorsUnder(f)
                      /\ \A e \in filesIn(f) : files[e].pathKey = folderPathKey(f)
    BY DEF CopiesRightOrWalked
  <2>1. ASSUME NEW c \in childrenOf(f) PROVE folders[c].ancestors = ancestorsUnder(f)
    <3>1. c \in DOMAIN SeedFolders /\ folders[c].parent = f /\ c # Root
      BY <1>1, <1>2, <1>5, <2>1 DEF childrenOf
    <3> QED BY <1>4, <3>1
  <2>2. ASSUME NEW e \in filesIn(f) PROVE files[e].pathKey = folderPathKey(f)
    <3>1. e \in DOMAIN SeedFiles /\ SeedFiles[e].folder = f /\ f \in DOMAIN SeedFolders
      BY <1>1, <1>2, <1>6, <2>2 DEF filesIn
    <3> QED BY <1>1, <3>1 DEF folderPathKey, ancestorsUnder
  <2> QED BY <2>1, <2>2
<1> QED BY <1>7, <1>8, <1>9, <1>10, <1>11 DEF TreeInv

\* Every edit, every walk and every step on rights or counters keeps the tree in order.
LEMMA TreeNext ==
    ASSUME TreeInv, AccessNext
    PROVE  TreeInv'
<1>1. ASSUME NEW f \in FolderIds, Permitted(f) PROVE TreeInv'
  <2>1. ASSUME NEW p \in FolderIds, NEW name, NEW policy0, create(f, p, name, policy0) PROVE TreeInv'
    BY <2>1, CreateKeeps
  <2>2. ASSUME removeMany(f) PROVE TreeInv'
    BY <2>2, TombstoneKeeps DEF removeMany, canRemove
  <2>3. ASSUME NEW d \in FolderIds, moveMany(f, d) PROVE TreeInv'
    BY <2>3, MoveKeeps
  <2>4. ASSUME NEW name, NEW policy0, update(f, name, policy0) PROVE TreeInv'
    BY <2>4, UpdateKeeps
  <2>5. ASSUME resetAccessPolicySubtree(f) PROVE TreeInv'
    BY <2>5, ResetKeeps
  <2> QED BY <1>1, <2>1, <2>2, <2>3, <2>4, <2>5 DEF Permitted
<1>2. ASSUME NEW f \in FolderIds, Counting(f) PROVE TreeInv'
  BY <1>2, TreeUnchanged DEF Counting, prepare, backfill
<1>3. ASSUME NEW e \in FileIds, Contents(e) PROVE TreeInv'
  BY <1>3, ContentsKeep
<1>4. ASSUME NEW f \in FolderIds, Background(f) PROVE TreeInv'
  <2>1. CASE rebuild(f)
    BY <2>1, TreeUnchanged DEF rebuild, rebuildOver, rebuildEntries, rebuildChildren
  <2>2. CASE walk(f)
    BY <2>2, WalkEndsKeeps, ReparentKeeps, ResetKeeps DEF walk
  <2>3. CASE cleanupMissingFolder(f)
    BY <2>3, CleanupKeeps
  <2> QED BY <1>4, <2>1, <2>2, <2>3 DEF Background
<1>5. ASSUME UNCHANGED treeVars PROVE TreeInv'
  BY <1>5, TreeUnchanged DEF treeVars, unchangedTree
<1> QED
  BY <1>1, <1>2, <1>3, <1>4, <1>5
  DEF AccessNext, upsert, revoke, setSystemPermission, setBulkActions, ensureCurrentProfile,
      takeUnknownUploaderItems, backfillUnknownUploaderOwnership, takeUnknownUploaderItemsBatch,
      backfillUnknownUploaderGallery

-----------------------------------------------------------------------------
(***************************************************************************)
(* The invariant of the rights                                             *)
(***************************************************************************)

\* The strongest of some roles is one of them or none, and none of them is stronger.
LEMMA StrongestIsStrongest ==
    ASSUME NEW S \in SUBSET Roles
    PROVE  /\ Strongest(S) \in Roles /\ \A r \in S : Strongest(S) >= r
           /\ Strongest(S) \in S \cup {0}
<1>1. \E x \in S \cup {0} : \A y \in S \cup {0} : x >= y
  <2>1. CASE 3 \in S
    BY <2>1 DEF Roles
  <2>2. CASE 3 \notin S /\ 2 \in S
    BY <2>2 DEF Roles
  <2>3. CASE 3 \notin S /\ 2 \notin S /\ 1 \in S
    BY <2>3 DEF Roles
  <2>4. CASE 3 \notin S /\ 2 \notin S /\ 1 \notin S
    BY <2>4 DEF Roles
  <2> QED BY <2>1, <2>2, <2>3, <2>4
<1>2. Strongest(S) = CHOOSE x \in S \cup {0} : \A y \in S \cup {0} : x >= y
  BY DEF Strongest, Max
<1>3. Strongest(S) \in S \cup {0} /\ \A y \in S \cup {0} : Strongest(S) >= y
  BY <1>1, <1>2
<1>4. S \cup {0} \subseteq Roles
  BY DEF Roles
<1> QED BY <1>3, <1>4

\* Absorbing profiles leaves their grants empty, and takes nothing from anybody else.
LEMMA AbsorbedKeeps ==
    ASSUME RightsInv, NEW sources \in SUBSET Profiles, NEW p \in Profiles \ sources
    PROVE  /\ absorbed(sources, p) \in [Profiles -> [Scopes -> Roles]]
           /\ \A q \in sources, s \in Scopes : absorbed(sources, p)[q][s] = 0
           /\ \A q \in Profiles \ (sources \cup {p}) : absorbed(sources, p)[q] = grants[q]
           /\ \A s \in Scopes : /\ absorbed(sources, p)[p][s] >= grants[p][s]
                                /\ \A q \in sources : absorbed(sources, p)[p][s] >= grants[q][s]
<1> DEFINE other(s) == Strongest({grants[q][s] : q \in sources})
           merged(s) == Strongest({grants[p][s], other(s)})
<1>1. grants \in [Profiles -> [Scopes -> Roles]] /\ 0 \in Roles
  BY DEF RightsInv, Roles
<1>2. ASSUME NEW s \in Scopes
      PROVE  other(s) \in Roles /\ \A q \in sources : other(s) >= grants[q][s]
  <2>1. {grants[q][s] : q \in sources} \in SUBSET Roles
    BY <1>1
  <2>2. \A q \in sources : grants[q][s] \in {grants[r][s] : r \in sources}
    OBVIOUS
  <2> QED BY <2>1, <2>2, StrongestIsStrongest
<1> HIDE DEF other
<1>3. ASSUME NEW s \in Scopes
      PROVE  merged(s) \in Roles /\ merged(s) >= grants[p][s] /\ merged(s) >= other(s)
  BY <1>1, <1>2, StrongestIsStrongest
<1> HIDE DEF merged
<1>4. absorbed(sources, p) =
         [q \in Profiles |-> IF q \in sources THEN [s \in Scopes |-> 0]
                             ELSE IF q # p THEN grants[q] ELSE [s \in Scopes |-> merged(s)]]
  BY DEF absorbed, mergedGrant, merged, other
<1>5. \A q \in sources, s \in Scopes : grants[q][s] \in Roles
  BY <1>1
<1>6. \A s \in Scopes, q \in sources : merged(s) >= grants[q][s]
  BY <1>2, <1>3, <1>5 DEF Roles
<1> QED BY <1>1, <1>3, <1>4, <1>6

\* The founder, and nobody else, has rights to begin with.
LEMMA RightsInit ==
    ASSUME AccessInit
    PROVE  RightsInv
<1>1. /\ Founder \in profiles /\ profiles \in SUBSET Profiles /\ Unknown \notin Profiles
      /\ WebUploads \subseteq MountEntries
  BY AccessAssumption DEF AccessInit, Profiles
<1>2. NoGrants \in [Scopes -> Roles] /\ \A s \in Scopes : NoGrants[s] = 0
  BY DEF NoGrants, Roles
<1>3. [NoGrants EXCEPT ![Gallery] = 3, ![Mount] = 3] \in [Scopes -> Roles]
  <2>1. 3 \in Roles
    BY DEF Roles
  <2> QED BY <1>2, <2>1
<1>4. grants = [p \in Profiles |-> IF p = Founder THEN [NoGrants EXCEPT ![Gallery] = 3, ![Mount] = 3]
                                  ELSE NoGrants]
      /\ mountOwner = [e \in MountEntries |-> IF e \in WebUploads THEN Founder ELSE Unknown]
      /\ adopted = {} /\ batches = {}
  BY DEF AccessInit
<1> QED BY <1>1, <1>2, <1>3, <1>4 DEF RightsInv

\* A batch of an adoption or of the correction.
LEMMA BatchesKeep ==
    ASSUME RightsInv, NEW b \in batches, NEW e \in b.left,
           UNCHANGED <<profiles, grants>>, batchDone(b, e),
           adopted' \in {adopted, adopted \cup {e}},
           mountOwner' = [mountOwner EXCEPT ![e] = mountOwner'[e]],
           mountOwner'[e] \in profiles \cup {Unknown},
           e \in adopted' \cup WebUploads => mountOwner'[e] # Unknown
    PROVE  RightsInv'
<1>1. b.target \in Profiles \cup {Unknown} /\ b.left \in SUBSET MountEntries /\ e \in MountEntries
  BY DEF RightsInv
<1>2. \A c \in batches' : c.target \in Profiles \cup {Unknown} /\ c.left \in SUBSET MountEntries
  <2>1. batches' \subseteq batches \cup {batchOf(b.target, b.left \ {e})}
    BY DEF batchDone
  <2> QED BY <1>1, <2>1 DEF RightsInv, batchOf
<1>3. mountOwner' \in [MountEntries -> profiles \cup {Unknown}]
      /\ \A x \in MountEntries \ {e} : mountOwner'[x] = mountOwner[x]
  BY <1>1 DEF RightsInv
<1>4. adopted' \in SUBSET MountEntries
  BY <1>1 DEF RightsInv
<1>5. \A x \in adopted' \cup WebUploads : mountOwner'[x] # Unknown
  <2> TAKE x \in adopted' \cup WebUploads
  <2>1. CASE x = e
    BY <2>1
  <2>2. CASE x # e
    BY <1>3, <1>4, <2>2, AccessAssumption DEF RightsInv
  <2> QED BY <2>1, <2>2
<1> QED BY <1>2, <1>3, <1>4, <1>5 DEF RightsInv

\* Every step keeps the rights in order.
LEMMA RightsNext ==
    ASSUME RightsInv, AccessNext
    PROVE  RightsInv'
<1>1. ASSUME UNCHANGED accessVars PROVE RightsInv'
  BY <1>1 DEF accessVars, RightsInv
<1>2. ASSUME NEW p \in Profiles, NEW s \in GrantScopes, NEW role \in GrantedRoles, upsert(p, s, role)
      PROVE  RightsInv'
  <2>1. /\ profiles' = profiles \cup {p} /\ UNCHANGED <<mountOwner, adopted, batches>>
        /\ grants' = [grants EXCEPT ![p][s] = role] /\ s \in Scopes /\ role \in Roles
    BY <1>2, AccessAssumption DEF upsert
  <2>2. grants' \in [Profiles -> [Scopes -> Roles]]
    BY <2>1 DEF RightsInv
  <2>3. \A q \in Profiles \ profiles', t \in Scopes : grants'[q][t] = 0
    BY <2>1 DEF RightsInv
  <2> QED BY <2>1, <2>2, <2>3 DEF RightsInv
<1>3. ASSUME NEW p \in Profiles, NEW s \in GrantScopes, revoke(p, s) PROVE RightsInv'
  <2>1. /\ UNCHANGED <<profiles, mountOwner, adopted, batches>>
        /\ grants' = [grants EXCEPT ![p][s] = 0] /\ s \in Scopes /\ 0 \in Roles
    BY <1>3, AccessAssumption DEF revoke, Roles
  <2>2. grants' \in [Profiles -> [Scopes -> Roles]]
    BY <2>1 DEF RightsInv
  <2>3. \A q \in Profiles \ profiles, t \in Scopes : grants'[q][t] = 0
    BY <2>1 DEF RightsInv
  <2> QED BY <2>1, <2>2, <2>3 DEF RightsInv
<1>4. ASSUME UNCHANGED <<profiles, grants, mountOwner, adopted, batches>> PROVE RightsInv'
  BY <1>4 DEF RightsInv
<1>5. ASSUME NEW p \in Accounts, NEW address \in EmailsOf[p], NEW browser \in SUBSET Visitors,
             ensureCurrentProfile(p, address, browser)
      PROVE  RightsInv'
  <2>1. PICK sources : sources = (browser \cup {address}) \cap profiles
    OBVIOUS
  <2>2. /\ profiles' = (profiles \ sources) \cup {p} /\ grants' = absorbed(sources, p)
        /\ mountOwner' = [e \in MountEntries |-> IF mountOwner[e] \in sources THEN p ELSE mountOwner[e]]
        /\ UNCHANGED <<adopted, batches>>
    BY <1>5, <2>1 DEF ensureCurrentProfile
  <2>3. sources \in SUBSET Profiles /\ p \in Profiles \ sources
    BY <2>1, AccessAssumption DEF RightsInv, Profiles
  <2>4. /\ grants' \in [Profiles -> [Scopes -> Roles]]
        /\ \A q \in Profiles \ profiles', s \in Scopes : grants'[q][s] = 0
    <3>1. \A q \in Profiles \ profiles' : q \in sources \/ (q \notin profiles /\ q \notin sources \cup {p})
      BY <2>2
    <3>2. /\ grants' \in [Profiles -> [Scopes -> Roles]]
          /\ \A q \in sources, s \in Scopes : grants'[q][s] = 0
          /\ \A q \in Profiles \ (sources \cup {p}) : grants'[q] = grants[q]
      BY <2>2, <2>3, AbsorbedKeeps
    <3>3. \A q \in Profiles \ profiles, s \in Scopes : grants[q][s] = 0
      BY DEF RightsInv
    <3> QED BY <3>1, <3>2, <3>3
  <2>5. /\ mountOwner' \in [MountEntries -> profiles' \cup {Unknown}]
        /\ \A e \in adopted \cup WebUploads : mountOwner'[e] # Unknown
    BY <2>2, <2>3, AccessAssumption DEF RightsInv
  <2> QED BY <2>2, <2>3, <2>4, <2>5 DEF RightsInv
<1>6. ASSUME NEW p \in Profiles, takeUnknownUploaderItems(p) PROVE RightsInv'
  <2>1. /\ batches' = batches \cup {batchOf(p, MountEntries)}
        /\ UNCHANGED <<profiles, grants, mountOwner, adopted>>
    BY <1>6 DEF takeUnknownUploaderItems
  <2> QED BY <2>1 DEF RightsInv, batchOf
<1>7. ASSUME backfillUnknownUploaderOwnership PROVE RightsInv'
  <2>1. /\ batches' = batches \cup {batchOf(Unknown, MountEntries)}
        /\ UNCHANGED <<profiles, grants, mountOwner, adopted>>
    BY <1>7 DEF backfillUnknownUploaderOwnership
  <2> QED BY <2>1 DEF RightsInv, batchOf
<1>8. ASSUME NEW b \in batches, takeUnknownUploaderItemsBatch(b) PROVE RightsInv'
  <2>1. CASE hasGalleryWideOwnerGrant(b.target)
    <3>1. PICK e \in b.left :
              /\ mountOwner' = [mountOwner EXCEPT ![e] = IF mountOwner[e] = Unknown THEN b.target ELSE @]
              /\ adopted' = IF mountOwner[e] = Unknown THEN adopted \cup {e} ELSE adopted
              /\ batchDone(b, e)
      BY <1>8, <2>1 DEF takeUnknownUploaderItemsBatch
    <3>2. /\ b.target \in Profiles /\ e \in MountEntries /\ UNCHANGED <<profiles, grants>>
          /\ Mount \in Scopes
      BY <1>8 DEF takeUnknownUploaderItemsBatch, RightsInv, Scopes
    <3>3. b.target \in profiles /\ b.target # Unknown
      BY <2>1, <3>2, AccessAssumption DEF hasGalleryWideOwnerGrant, RightsInv
    <3>4. mountOwner'[e] = (IF mountOwner[e] = Unknown THEN b.target ELSE mountOwner[e])
          /\ mountOwner[e] \in profiles \cup {Unknown} /\ e \in DOMAIN mountOwner
      BY <3>1, <3>2 DEF RightsInv
    <3> QED BY <3>1, <3>2, <3>3, <3>4, BatchesKeep
  <2>2. CASE ~hasGalleryWideOwnerGrant(b.target)
    <3>1. batches' = batches \ {b} /\ UNCHANGED <<profiles, grants, mountOwner, adopted>>
      BY <1>8, <2>2 DEF takeUnknownUploaderItemsBatch
    <3> QED BY <3>1 DEF RightsInv
  <2> QED BY <2>1, <2>2
<1>9. ASSUME NEW b \in batches, backfillUnknownUploaderGallery(b) PROVE RightsInv'
  <2>1. PICK e \in b.left :
            /\ mountOwner' = [mountOwner EXCEPT ![e] = IF keptByBackfill(e) THEN @ ELSE Unknown]
            /\ batchDone(b, e)
    BY <1>9 DEF backfillUnknownUploaderGallery
  <2>2. e \in MountEntries /\ UNCHANGED <<profiles, grants, adopted>>
    BY <1>9 DEF backfillUnknownUploaderGallery, RightsInv
  <2>3. mountOwner'[e] = (IF keptByBackfill(e) THEN mountOwner[e] ELSE Unknown)
        /\ mountOwner[e] \in profiles \cup {Unknown} /\ e \in DOMAIN mountOwner
    BY <2>1, <2>2 DEF RightsInv
  <2>4. e \in adopted \cup WebUploads => keptByBackfill(e) /\ mountOwner[e] # Unknown
    BY DEF keptByBackfill, RightsInv
  <2> QED BY <2>1, <2>2, <2>3, <2>4, BatchesKeep
<1>10. ASSUME NEW f \in FolderIds, Background(f) PROVE RightsInv'
  <2>1. /\ grants' = [p \in Profiles |-> [s \in Scopes |->
               IF s = f /\ folders'[f].status = "absent" THEN 0 ELSE grants[p][s]]]
        /\ UNCHANGED <<profiles, mountOwner, adopted, batches>>
    BY <1>10 DEF Background
  <2>2. grants' \in [Profiles -> [Scopes -> Roles]]
    BY <2>1 DEF RightsInv, Roles
  <2>3. \A q \in Profiles \ profiles, s \in Scopes : grants'[q][s] = 0
    BY <2>1 DEF RightsInv
  <2> QED BY <2>1, <2>2, <2>3 DEF RightsInv
<1> QED
  BY <1>1, <1>2, <1>3, <1>4, <1>5, <1>6, <1>7, <1>8, <1>9, <1>10
  DEF AccessNext, setSystemPermission, setBulkActions

\* No step costs a right: the only profiles that go are those a sign-in absorbs.
LEMMA RightsStep ==
    ASSUME RightsInv, RightsInv', AccessNext
    PROVE  /\ \A q \in profiles \ profiles' : \E p \in Accounts \cap profiles' :
                 /\ \A s \in Scopes : grants'[p][s] >= Strongest({grants[p][s], grants[q][s]})
                 /\ \A e \in MountEntries : mountOwner[e] = q => mountOwner'[e] = p
           /\ \A e \in MountEntries :
                 /\ mountOwner'[e] \in profiles' \cup {Unknown}
                 /\ e \in adopted \/ e \in WebUploads => mountOwner'[e] # Unknown
<1>1. adopted \subseteq adopted'
  BY DEF AccessNext, accessVars, upsert, revoke, setSystemPermission, setBulkActions,
         ensureCurrentProfile, takeUnknownUploaderItems, backfillUnknownUploaderOwnership,
         takeUnknownUploaderItemsBatch, backfillUnknownUploaderGallery, Background
<1>2. \A e \in MountEntries : /\ mountOwner'[e] \in profiles' \cup {Unknown}
                              /\ e \in adopted \/ e \in WebUploads => mountOwner'[e] # Unknown
  BY <1>1 DEF RightsInv
<1>3. ASSUME NEW q \in profiles \ profiles'
      PROVE  \E p \in Accounts \cap profiles' :
                /\ \A s \in Scopes : grants'[p][s] >= Strongest({grants[p][s], grants[q][s]})
                /\ \A e \in MountEntries : mountOwner[e] = q => mountOwner'[e] = p
  <2>1. PICK p \in Accounts : \E address \in EmailsOf[p], browser \in SUBSET Visitors :
            ensureCurrentProfile(p, address, browser)
    BY DEF AccessNext, accessVars, upsert, revoke, setSystemPermission, setBulkActions,
           takeUnknownUploaderItems, backfillUnknownUploaderOwnership,
           takeUnknownUploaderItemsBatch, backfillUnknownUploaderGallery, Background
  <2>2. PICK address \in EmailsOf[p], browser \in SUBSET Visitors :
            ensureCurrentProfile(p, address, browser)
    BY <2>1
  <2>3. PICK sources : sources = (browser \cup {address}) \cap profiles
    OBVIOUS
  <2>4. /\ profiles' = (profiles \ sources) \cup {p} /\ grants' = absorbed(sources, p)
        /\ mountOwner' = [e \in MountEntries |-> IF mountOwner[e] \in sources THEN p ELSE mountOwner[e]]
    BY <2>2, <2>3 DEF ensureCurrentProfile
  <2>5. sources \in SUBSET Profiles /\ p \in Profiles \ sources /\ q \in sources
    BY <2>3, <2>4, AccessAssumption DEF RightsInv, Profiles
  <2>6. ASSUME NEW s \in Scopes PROVE grants'[p][s] >= Strongest({grants[p][s], grants[q][s]})
    <3>1. /\ grants[p][s] \in Roles /\ grants[q][s] \in Roles /\ grants'[p][s] \in Roles
          /\ grants'[p][s] >= grants[p][s] /\ grants'[p][s] >= grants[q][s]
      BY <2>4, <2>5, AbsorbedKeeps DEF RightsInv
    <3>2. Strongest({grants[p][s], grants[q][s]}) \in {grants[p][s], grants[q][s]} \cup {0}
      <4>1. \E x \in {grants[p][s], grants[q][s]} \cup {0} :
               \A y \in {grants[p][s], grants[q][s]} \cup {0} : x >= y
        BY <3>1 DEF Roles
      <4> QED BY <4>1 DEF Strongest, Max
    <3> QED BY <3>1, <3>2 DEF Roles
  <2> QED BY <2>4, <2>5, <2>6
<1> QED BY <1>2, <1>3

-----------------------------------------------------------------------------
(***************************************************************************)
(* The line of folders above one                                           *)
(***************************************************************************)

\* Any numbers have a least one.
LEMMA LeastNumber ==
    ASSUME NEW S, S \subseteq Nat, S # {}
    PROVE  \E n \in S : \A m \in S : n <= m
<1>1. PICK n \in S : \A m \in S : ~(<<m, n>> \in OpToRel(<, Nat))
  BY NatLessThanWellFounded, WFMin
<1>2. \A m \in S : ~(m < n)
  BY <1>1 DEF OpToRel
<1> QED BY <1>2

\* One step of lineTo, and the function by which it recurses.
Climb(line) ==
    IF line[1] = Root \/ folders[line[1]].parent = None THEN line
    ELSE <<folders[line[1]].parent>> \o line

ClimbsTo(f, n, up) == up = [k \in 0..n |-> IF k = 0 THEN <<f>> ELSE Climb(up[k - 1])]

\* There is such a function, ...
LEMMA ClimbExists ==
    ASSUME NEW f, NEW n \in Nat
    PROVE  \E up : ClimbsTo(f, n, up)
<1> DEFINE F == {m \in Nat : ~\E up : ClimbsTo(f, m, up)}
<1> SUFFICES ASSUME F # {} PROVE FALSE
  OBVIOUS
<1>1. PICK m \in F : \A k \in F : m <= k
  <2>1. F \subseteq Nat
    OBVIOUS
  <2> HIDE DEF F
  <2> QED BY <2>1, LeastNumber
<1>2. CASE m = 0
  <2> DEFINE up == [k \in 0..m |-> <<f>>]
  <2>1. ClimbsTo(f, m, up)
    BY <1>2 DEF ClimbsTo
  <2> QED BY <1>1, <2>1
<1>3. CASE m > 0
  <2>1. m - 1 \in Nat /\ m - 1 \notin F
    BY <1>1, <1>3
  <2>2. PICK low : ClimbsTo(f, m - 1, low)
    BY <2>1
  <2> DEFINE up == [k \in 0..m |-> IF k = m THEN Climb(low[m - 1]) ELSE low[k]]
  <2>3. \A k \in 0..(m - 1) : low[k] = IF k = 0 THEN <<f>> ELSE Climb(low[k - 1])
    BY <2>2 DEF ClimbsTo
  <2>4. \A k \in 0..m : up[k] = IF k = 0 THEN <<f>> ELSE Climb(up[k - 1])
    <3> TAKE k \in 0..m
    <3>1. CASE k = m
      BY <1>3, <2>1, <3>1
    <3>2. CASE k # m
      <4>1. k \in 0..(m - 1) /\ (k # 0 => k - 1 \in 0..(m - 1))
        BY <1>3, <2>1, <3>2
      <4> QED BY <2>3, <3>2, <4>1
    <3> QED BY <3>1, <3>2
  <2>5. up = [k \in 0..m |-> up[k]]
    OBVIOUS
  <2> HIDE DEF up
  <2>6. ClimbsTo(f, m, up)
    BY <2>4, <2>5 DEF ClimbsTo
  <2> QED BY <1>1, <2>6
<1> QED BY <1>1, <1>2, <1>3

\* ... and lineTo takes as many steps as there are folders.
LEMMA LineClimbs ==
    ASSUME NEW f
    PROVE  \E up : /\ ClimbsTo(f, Cardinality(FolderIds), up)
                   /\ lineTo(f) = up[Cardinality(FolderIds)]
<1> DEFINE n == Cardinality(FolderIds)
           up == CHOOSE x : ClimbsTo(f, n, x)
<1>1. n \in Nat
  BY TreeAssumption, FS_CardinalityType
<1>2. ClimbsTo(f, n, up)
  BY <1>1, ClimbExists
<1>3. lineTo(f) = up[n]
  BY DEF lineTo, ClimbsTo, Climb
<1> QED BY <1>2, <1>3

\* Folders each of which is the parent of the next, down from a root or not.
LineOf(f, line) ==
    /\ line \in Seq(FolderIds) /\ Len(line) > 0 /\ line[Len(line)] = f
    /\ \A i \in 1..(Len(line) - 1) :
          line[i + 1] # Root /\ folders[line[i + 1]].parent = line[i]

Top(line) == line[1] = Root \/ folders[line[1]].parent = None

\* Climbing ends at the top, or has seen as many folders as it took steps.
LEMMA ClimbShape ==
    ASSUME TreeInv, NEW f \in FolderIds, NEW n \in Nat, NEW up, ClimbsTo(f, n, up)
    PROVE  \A k \in 0..n : LineOf(f, up[k]) /\ (Top(up[k]) \/ Len(up[k]) = k + 1)
<1> DEFINE F == {k \in 0..n : ~(LineOf(f, up[k]) /\ (Top(up[k]) \/ Len(up[k]) = k + 1))}
<1> SUFFICES ASSUME F # {} PROVE FALSE
  OBVIOUS
<1>1. PICK k \in F : \A m \in F : k <= m
  <2>1. F \subseteq Nat
    OBVIOUS
  <2> HIDE DEF F
  <2> QED BY <2>1, LeastNumber
<1>2. k \in 0..n /\ up[k] = IF k = 0 THEN <<f>> ELSE Climb(up[k - 1])
  BY DEF ClimbsTo
<1>3. CASE k = 0
  <2> DEFINE line == <<f>>
  <2>1. line \in Seq(FolderIds) /\ Len(line) = 1 /\ line[1] = f
    OBVIOUS
  <2> HIDE DEF line
  <2>2. LineOf(f, line)
    BY <2>1 DEF LineOf
  <2>3. up[k] = line
    BY <1>2, <1>3 DEF line
  <2> QED BY <1>1, <1>3, <2>1, <2>2, <2>3
<1>4. CASE k # 0
  <2> DEFINE low == up[k - 1]
  <2>1. LineOf(f, low) /\ (Top(low) \/ Len(low) = k)
    <3>1. k - 1 \in 0..n /\ ~(k <= k - 1)
      BY <1>2, <1>4
    <3>2. k - 1 \notin F
      BY <1>1, <3>1
    <3> QED BY <1>2, <3>1, <3>2
  <2>2. up[k] = Climb(low)
    BY <1>2, <1>4
  <2> HIDE DEF low
  <2>3. CASE Top(low)
    BY <1>1, <2>1, <2>2, <2>3 DEF Climb, Top
  <2>4. CASE ~Top(low)
    <3> DEFINE p == folders[low[1]].parent
               line == <<p>> \o low
    <3>1. low \in Seq(FolderIds) /\ Len(low) > 0 /\ low[1] \in FolderIds /\ Len(low) = k
      BY <2>1, <2>4 DEF LineOf
    <3>2. p \in FolderIds
      BY <2>4, <3>1 DEF Top, TreeInv, TreeShape, NoFolder
    <3>3. /\ line \in Seq(FolderIds) /\ Len(line) = k + 1 /\ line[1] = p
          /\ \A i \in 1..k : line[i + 1] = low[i]
      BY <3>1, <3>2
    <3>4. up[k] = line
      BY <2>2, <2>4 DEF Climb, Top
    <3> HIDE DEF line
    <3>5. line[Len(line)] = f
      BY <1>2, <2>1, <3>1, <3>3 DEF LineOf
    <3>6. ASSUME NEW i \in 1..k
          PROVE  line[i + 1] # Root /\ folders[line[i + 1]].parent = line[i]
      <4>1. CASE i = 1
        BY <2>4, <3>1, <3>3, <4>1 DEF Top, p
      <4>2. CASE i # 1
        <5>1. i - 1 \in 1..(Len(low) - 1) /\ i - 1 \in 1..k /\ (i - 1) + 1 = i
          BY <1>2, <3>1, <4>2
        <5>2. low[i] # Root /\ folders[low[i]].parent = low[i - 1]
          BY <2>1, <5>1 DEF LineOf
        <5>3. line[i + 1] = low[i] /\ line[i] = low[i - 1]
          BY <3>3, <5>1
        <5> QED BY <5>2, <5>3
      <4> QED BY <4>1, <4>2
    <3>7. LineOf(f, line) /\ Len(line) = k + 1
      BY <1>2, <3>3, <3>5, <3>6 DEF LineOf
    <3> QED BY <1>1, <3>4, <3>7
  <2> QED BY <2>3, <2>4
<1> QED BY <1>2, <1>3, <1>4

\* The folders of a line are there, and no walk is to reach one.
Walked(line) == \A i \in DOMAIN line :
    Visible(line[i]) /\ task("reparentSubtree", line[i]) \notin tasks

\* Along a walked line each folder has the chain of its parent, and its parent.
LEMMA WalkedChains ==
    ASSUME TreeInv, NEW f, NEW line, LineOf(f, line), Walked(line)
    PROVE  \A i \in 1..(Len(line) - 1) :
              folders[line[i + 1]].ancestors = ancestorsUnder(line[i])
<1> TAKE i \in 1..(Len(line) - 1)
<1>1. /\ i \in DOMAIN line /\ i + 1 \in DOMAIN line
      /\ line[i] \in FolderIds /\ line[i + 1] \in FolderIds
      /\ folders[line[i + 1]].parent = line[i]
  BY DEF LineOf
<1>2. /\ Visible(line[i]) /\ task("reparentSubtree", line[i]) \notin tasks
      /\ Present(line[i + 1])
  BY <1>1 DEF Walked, Visible
<1>3. line[i + 1] \in childrenOf(line[i])
  BY <1>1, <1>2 DEF childrenOf
<1> QED BY <1>1, <1>2, <1>3 DEF TreeInv, CopiesRightOrWalked

ChainsAreChains == \A f \in FolderIds : folders[f].ancestors \in Seq(FolderIds)

\* So their chains get longer: no folder is met twice.
LEMMA WalkedOnce ==
    ASSUME TreeInv, ChainsAreChains, NEW f, NEW line, LineOf(f, line), Walked(line)
    PROVE  Len(line) <= Cardinality(FolderIds)
<1> DEFINE long(i) == Len(folders[line[i]].ancestors)
           F == {i \in 1..Len(line) : long(i) # long(1) + i - 1}
<1>1. /\ line \in Seq(FolderIds) /\ Len(line) \in Nat
      /\ \A i \in 1..Len(line) : line[i] \in FolderIds /\ long(i) \in Nat
  BY DEF LineOf, ChainsAreChains
<1>2. ASSUME NEW i \in 1..(Len(line) - 1) PROVE long(i + 1) = long(i) + 1
  <2>1. folders[line[i + 1]].ancestors = Append(folders[line[i]].ancestors, line[i])
    BY WalkedChains DEF ancestorsUnder
  <2>2. line[i] \in FolderIds /\ folders[line[i]].ancestors \in Seq(FolderIds)
    BY <1>1 DEF ChainsAreChains
  <2> QED BY <2>1, <2>2
<1> HIDE DEF long
<1>3. F = {}
  <2> SUFFICES ASSUME F # {} PROVE FALSE
    OBVIOUS
  <2>1. PICK i \in F : \A m \in F : i <= m
    <3>1. F \subseteq Nat
      BY <1>1
    <3> HIDE DEF F
    <3> QED BY <3>1, LeastNumber
  <2>2. i # 1
    BY <1>1, <2>1
  <2>3. i - 1 \in 1..(Len(line) - 1) /\ i - 1 \notin F /\ i - 1 \in 1..Len(line) /\ (i - 1) + 1 = i
    BY <1>1, <2>1, <2>2
  <2>4. long(i) = long(i - 1) + 1 /\ long(i - 1) = long(1) + (i - 1) - 1
    BY <1>2, <2>3
  <2>5. 1 \in 1..Len(line) /\ i \in Nat
    BY <1>1, <2>1
  <2>6. long(1) \in Nat /\ long(i - 1) \in Nat
    BY <1>1, <2>3, <2>5
  <2>7. long(i) = long(1) + i - 1
    BY <2>4, <2>5, <2>6
  <2> QED BY <2>1, <2>7
<1>4. \A i, j \in 1..Len(line) : i # j => line[i] # line[j]
  <2> SUFFICES ASSUME NEW i \in 1..Len(line), NEW j \in 1..Len(line), line[i] = line[j]
               PROVE  i = j
    OBVIOUS
  <2>1. long(i) = long(1) + i - 1 /\ long(j) = long(1) + j - 1
    BY <1>3
  <2>2. long(i) = long(j)
    BY DEF long
  <2>3. long(1) \in Nat
    BY <1>1
  <2> QED BY <1>1, <2>1, <2>2, <2>3
<1> SUFFICES ASSUME Cardinality(FolderIds) < Len(line) PROVE FALSE
  BY <1>1, TreeAssumption, FS_CardinalityType
<1>5. line \in [1..Len(line) -> FolderIds]
  BY <1>1
<1>6. IsFiniteSet(1..Len(line)) /\ Cardinality(1..Len(line)) = Len(line)
  <2>1. 1 \in Int /\ Len(line) \in Int /\ Len(line) > 0
    BY <1>1 DEF LineOf
  <2> QED BY <2>1, FS_Interval
<1> QED BY <1>4, <1>5, <1>6, TreeAssumption, FS_PigeonHole

-----------------------------------------------------------------------------
(***************************************************************************)
(* The invariant of the chains                                             *)
(***************************************************************************)

\* Chains are chains of folders, the root's is empty; the roles for visitors are roles.
LineInv ==
    /\ folders[Root].ancestors = <<>>
    /\ ChainsAreChains
    /\ settings \in [anonymous : Roles, authenticated : Roles, bulkActions : BOOLEAN]

\* All that becomes of a chain: it is cleared, or it is copied from a folder.
ChainsCopied == \A f \in FolderIds :
    \/ folders'[f].ancestors = folders[f].ancestors
    \/ f # Root /\ folders'[f].ancestors = <<>>
    \/ f # Root /\ \E p \in FolderIds : folders'[f].ancestors = ancestorsUnder(p)

\* Copies of chains of folders are chains of folders.
LEMMA CopiedChains ==
    ASSUME LineInv, ChainsCopied
    PROVE  folders'[Root].ancestors = <<>> /\ ChainsAreChains'
<1>1. \A p \in FolderIds : ancestorsUnder(p) \in Seq(FolderIds)
  BY DEF LineInv, ChainsAreChains, ancestorsUnder
<1>2. <<>> \in Seq(FolderIds)
  OBVIOUS
<1> QED BY <1>1, <1>2, TreeAssumption DEF LineInv, ChainsAreChains, ChainsCopied

\* The edits and the walks copy chains, and the root is never moved.
LEMMA ChainsStep ==
    ASSUME TreeInv, [AccessNext]_vars
    PROVE  ChainsCopied
<1>0. \A f \in FolderIds : "ancestors" \in DOMAIN folders[f]
  BY DEF TreeInv, TreeShape, NoFolder
<1>1. ASSUME UNCHANGED folders PROVE ChainsCopied
  BY <1>1 DEF ChainsCopied
<1>2. ASSUME NEW f \in FolderIds, Permitted(f) PROVE ChainsCopied
  <2>1. ASSUME NEW p \in FolderIds, NEW name, NEW policy0, create(f, p, name, policy0)
        PROVE  ChainsCopied
    <3>1. f # Root
      BY <2>1 DEF create, TreeInv, TreeShape
    <3>2. newFolder(p, name, policy0).ancestors = ancestorsUnder(p)
      BY DEF newFolder, NoFolder
    <3> QED BY <2>1, <3>1, <3>2 DEF create, ChainsCopied, TreeInv, TreeShape
  <2>2. ASSUME removeMany(f) PROVE ChainsCopied
    BY <2>2 DEF removeMany, tombstone, ChainsCopied, TreeInv, TreeShape, NoFolder
  <2>3. ASSUME NEW d \in FolderIds, moveMany(f, d) PROVE ChainsCopied
    <3>1. /\ f # Root
          /\ folders' = [folders EXCEPT ![f].parent = d, ![f].ancestors = ancestorsUnder(d)]
      BY <2>3 DEF moveMany, canMove, canRemove
    <3>2. \A c \in FolderIds :
             folders'[c].ancestors = IF c = f THEN ancestorsUnder(d) ELSE folders[c].ancestors
      BY <1>0, <3>1 DEF TreeInv, TreeShape
    <3> QED BY <3>1, <3>2 DEF ChainsCopied
  <2>4. ASSUME NEW name, NEW policy0, update(f, name, policy0) PROVE ChainsCopied
    BY <2>4 DEF update, ChainsCopied, TreeInv, TreeShape, NoFolder
  <2>5. ASSUME resetAccessPolicySubtree(f) PROVE ChainsCopied
    BY <2>5 DEF resetAccessPolicySubtree, ChainsCopied, TreeInv, TreeShape, NoFolder
  <2> QED BY <1>2, <2>1, <2>2, <2>3, <2>4, <2>5 DEF Permitted
<1>3. ASSUME NEW f \in FolderIds, walk(f) PROVE ChainsCopied
  <2>1. CASE \E what \in {"reparentSubtree", "resetChildAccessPolicies"} : walkEnds(what, f)
    BY <1>1, <2>1 DEF walkEnds
  <2>2. CASE reparentSubtree(f)
    <3>1. /\ Root \notin childrenOf(f)
          /\ \A c \in FolderIds :
                folders'[c] = IF c \in childrenOf(f)
                              THEN [folders[c] EXCEPT !.ancestors = ancestorsUnder(f)]
                              ELSE folders[c]
      BY <2>2, TreeAssumption DEF reparentSubtree, childrenOf, TreeInv, TreeShape
    <3>2. \A c \in FolderIds :
             folders'[c].ancestors = IF c \in childrenOf(f) THEN ancestorsUnder(f)
                                     ELSE folders[c].ancestors
      BY <1>0, <3>1
    <3> QED BY <3>1, <3>2 DEF ChainsCopied
  <2>3. CASE resetChildAccessPolicies(f)
    BY <2>3 DEF resetChildAccessPolicies, ChainsCopied, TreeInv, TreeShape, NoFolder
  <2> QED BY <1>3, <2>1, <2>2, <2>3 DEF walk
<1>4. ASSUME NEW f \in FolderIds, cleanupMissingFolder(f) PROVE ChainsCopied
  <2>1. CASE cleanupOver(f) \/ cleanupFiles(f)
    BY <1>1, <2>1 DEF cleanupOver, cleanupFiles
  <2>2. CASE cleanupChildren(f)
    <3>1. \A c \in FolderIds :
             folders'[c] = IF c \in childrenOf(f) THEN [folders[c] EXCEPT !.missing = TRUE]
                           ELSE folders[c]
      BY <2>2 DEF cleanupChildren
    <3>2. \A c \in FolderIds : folders'[c].ancestors = folders[c].ancestors
      BY <1>0, <3>1
    <3> QED BY <3>2 DEF ChainsCopied
  <2>3. CASE cleanupRow(f)
    BY <2>3 DEF cleanupRow, ChainsCopied, TreeInv, TreeShape, NoFolder
  <2> QED BY <1>4, <2>1, <2>2, <2>3 DEF cleanupMissingFolder
<1>5. ASSUME NEW f \in FolderIds, Counting(f) \/ rebuild(f) PROVE ChainsCopied
  BY <1>1, <1>5 DEF Counting, prepare, backfill, unchangedTree, rebuild, rebuildOver,
                    rebuildEntries, rebuildChildren
<1>6. ASSUME NEW e \in FileIds, Contents(e) PROVE ChainsCopied
  BY <1>1, <1>6 DEF Contents, landFile, settleReadyEntry, removeFile
<1> QED
  BY <1>1, <1>2, <1>3, <1>4, <1>5, <1>6
  DEF AccessNext, Background, treeVars, vars, upsert, revoke, setSystemPermission, setBulkActions,
      ensureCurrentProfile, takeUnknownUploaderItems, backfillUnknownUploaderOwnership,
      takeUnknownUploaderItemsBatch, backfillUnknownUploaderGallery

\* Every step keeps the chains and the roles for visitors in order, ...
LEMMA LineStep ==
    ASSUME TreeInv, LineInv, [AccessNext]_vars
    PROVE  LineInv'
<1>1. folders'[Root].ancestors = <<>> /\ ChainsAreChains'
  BY ChainsStep, CopiedChains
<1>2. CASE UNCHANGED settings
  BY <1>1, <1>2 DEF LineInv
<1>3. CASE \E audience \in {"anonymous", "authenticated"}, role \in SystemRoles :
              setSystemPermission(audience, role)
  BY <1>1, <1>3, AccessAssumption DEF setSystemPermission, LineInv, Roles
<1>4. CASE \E on \in BOOLEAN : setBulkActions(on)
  BY <1>1, <1>4 DEF setBulkActions, LineInv
<1> QED
  BY <1>2, <1>3, <1>4
  DEF AccessNext, Background, accessVars, vars, upsert, revoke,
      ensureCurrentProfile, takeUnknownUploaderItems, backfillUnknownUploaderOwnership,
      takeUnknownUploaderItemsBatch, backfillUnknownUploaderGallery

\* ... as they are to begin with.
LEMMA LineInit ==
    ASSUME AccessInit
    PROVE  LineInv
<1>1. settings \in [anonymous : Roles, authenticated : Roles, bulkActions : BOOLEAN]
  BY DEF AccessInit, Roles
<1>2. /\ \A f \in FolderIds \ DOMAIN SeedFolders : folders[f].ancestors = <<>>
      /\ \A f \in DOMAIN SeedFolders : folders[f].ancestors = SeedFolders[f].ancestors
  <2>1. Init
    BY DEF AccessInit
  <2>2. NoFolder.ancestors = <<>>
    BY DEF NoFolder
  <2> QED BY <2>1, <2>2, SeedRows
<1>3. SeedFolders[Root].ancestors = <<>> /\ Root \in DOMAIN SeedFolders
  BY SeedTreeAssumption
<1>4. \A f \in DOMAIN SeedFolders : SeedFolders[f].ancestors \in Seq(FolderIds)
  <2> TAKE f \in DOMAIN SeedFolders
  <2>1. CASE f = Root
    <3>1. <<>> \in Seq(FolderIds)
      OBVIOUS
    <3> QED BY <1>3, <2>1, <3>1
  <2>2. CASE f # Root
    <3>1. PICK p \in DOMAIN SeedFolders :
             /\ SeedFolders[p].ancestors \in Seq(FolderIds)
             /\ SeedFolders[f].ancestors = Append(SeedFolders[p].ancestors, p)
      BY <2>2, SeedTreeAssumption
    <3>2. p \in FolderIds
      BY SeedTreeAssumption
    <3> QED BY <3>1, <3>2
  <2> QED BY <2>1, <2>2
<1>5. <<>> \in Seq(FolderIds)
  OBVIOUS
<1> QED BY <1>1, <1>2, <1>3, <1>4, <1>5 DEF LineInv, ChainsAreChains

-----------------------------------------------------------------------------
(***************************************************************************)
(* The role along a line                                                   *)
(***************************************************************************)

\* A walked line is the chain that was copied.
LEMMA LineIsChain ==
    ASSUME TreeInv, LineInv, NEW f \in FolderIds, Walked(lineTo(f))
    PROVE  ancestorsUnder(f) = lineTo(f) /\ \A i \in DOMAIN lineTo(f) : lineTo(f)[i] \in FolderIds
<1> DEFINE n == Cardinality(FolderIds)
           line == lineTo(f)
           F == {i \in 1..Len(line) : ancestorsUnder(line[i]) # SubSeq(line, 1, i)}
<1>1. n \in Nat
  BY TreeAssumption, FS_CardinalityType
<1>2. LineOf(f, line) /\ (Top(line) \/ Len(line) = n + 1)
  <2>1. PICK up : ClimbsTo(f, n, up) /\ line = up[n]
    BY LineClimbs
  <2> HIDE DEF n, line
  <2>2. n \in 0..n
    BY <1>1
  <2> QED BY <1>1, <2>1, <2>2, ClimbShape
<1> HIDE DEF line
<1>3. Walked(line) /\ Top(line)
  <2>1. Walked(line)
    BY DEF line
  <2>2. Len(line) <= n /\ Len(line) \in Nat
    <3>1. LineOf(f, line) /\ ChainsAreChains
      BY <1>2 DEF LineInv
    <3>2. Len(line) <= Cardinality(FolderIds)
      BY <2>1, <3>1, WalkedOnce
    <3>3. Len(line) \in Nat
      BY <3>1 DEF LineOf
    <3> QED BY <3>2, <3>3
  <2> QED BY <1>1, <1>2, <2>1, <2>2
<1>4. /\ line \in Seq(FolderIds) /\ Len(line) \in Nat \ {0} /\ line[Len(line)] = f
      /\ \A i \in 1..Len(line) : line[i] \in FolderIds
  BY <1>2 DEF LineOf
<1>5. line[1] = Root
  <2>1. 1 \in DOMAIN line /\ line[1] \in FolderIds
    BY <1>4
  <2>2. Present(line[1])
    BY <1>3, <2>1 DEF Walked, Visible
  <2> QED BY <1>3, <2>1, <2>2, TreeAssumption DEF Top, Present, TreeInv, TreeShape
<1>6. F = {}
  <2> SUFFICES ASSUME F # {} PROVE FALSE
    OBVIOUS
  <2>1. PICK i \in F : \A m \in F : i <= m
    <3>1. F \subseteq Nat
      BY <1>4
    <3> HIDE DEF F
    <3> QED BY <3>1, LeastNumber
  <2>2. i \in 1..Len(line) /\ ancestorsUnder(line[i]) # SubSeq(line, 1, i)
    BY <2>1
  <2>3. CASE i = 1
    <3>1. ancestorsUnder(line[1]) = Append(<<>>, line[1])
      BY <1>5 DEF LineInv, ancestorsUnder
    <3> DEFINE top == SubSeq(line, 1, 1)
    <3>2. top \in Seq(FolderIds) /\ Len(top) = 1 /\ top[1] = line[1]
      BY <1>4
    <3> HIDE DEF top
    <3>3. top = Append(<<>>, line[1])
      BY <1>4, <3>2
    <3> QED BY <2>2, <2>3, <3>1, <3>3 DEF top
  <2>4. CASE i # 1
    <3>1. i - 1 \in 1..(Len(line) - 1) /\ i - 1 \in 1..Len(line) /\ (i - 1) + 1 = i /\ ~(i <= i - 1)
      BY <1>4, <2>2, <2>4
    <3>2. ancestorsUnder(line[i - 1]) = SubSeq(line, 1, i - 1)
      BY <2>1, <3>1
    <3>3. folders[line[i]].ancestors = ancestorsUnder(line[i - 1])
      BY <1>2, <1>3, <3>1, WalkedChains
    <3>4. ancestorsUnder(line[i]) = Append(SubSeq(line, 1, i - 1), line[i])
      BY <3>2, <3>3 DEF ancestorsUnder
    <3>5. SubSeq(line, 1, i) = Append(SubSeq(line, 1, i - 1), line[i])
      BY <1>4, <2>2, <3>1
    <3> QED BY <2>2, <3>4, <3>5
  <2> QED BY <2>3, <2>4
<1>7. Len(line) \in 1..Len(line) /\ SubSeq(line, 1, Len(line)) = line
  BY <1>4
<1>8. ancestorsUnder(f) = line
  BY <1>4, <1>6, <1>7
<1> QED BY <1>4, <1>8 DEF line

\* It does not matter whether the strongest of some roles is taken first.
LEMMA StrongestOfParts ==
    ASSUME NEW S \in SUBSET Roles, NEW T \in SUBSET Roles
    PROVE  Strongest({Strongest(S)} \cup T) = Strongest(S \cup T)
<1> DEFINE s == Strongest(S)
           a == Strongest({s} \cup T)
           b == Strongest(S \cup T)
<1>1. \A X \in SUBSET Roles :
         /\ Strongest(X) \in Roles /\ \A x \in X : Strongest(X) >= x
         /\ Strongest(X) \in X \cup {0}
  BY StrongestIsStrongest
<1>2. s \in Roles /\ (\A x \in S : s >= x) /\ s \in S \cup {0}
  BY <1>1
<1> HIDE DEF s
<1>3. {s} \cup T \in SUBSET Roles /\ S \cup T \in SUBSET Roles
  BY <1>2
<1>4. a \in Roles /\ (\A x \in {s} \cup T : a >= x) /\ a \in {s} \cup T \cup {0}
  BY <1>1, <1>3
<1>5. b \in Roles /\ (\A x \in S \cup T : b >= x) /\ b \in S \cup T \cup {0}
  BY <1>1, <1>3
<1> HIDE DEF a, b
<1>6. a >= b
  BY <1>2, <1>4, <1>5 DEF Roles
<1>7. b >= a
  BY <1>2, <1>4, <1>5 DEF Roles
<1>8. a = b
  BY <1>4, <1>5, <1>6, <1>7 DEF Roles
<1> QED BY <1>8 DEF a, b, s

\* The role computed from a copied chain whose folders are all there.
LEMMA RoleOfChain ==
    ASSUME RightsInv, LineInv, NEW f \in FolderIds, NEW p \in profiles,
           \A i \in DOMAIN ancestorsUnder(f) : /\ ancestorsUnder(f)[i] \in FolderIds
                                               /\ Present(ancestorsUnder(f)[i])
    PROVE  resolveFolderAccess(p, f) = roleAlong(p, ancestorsUnder(f))
<1> DEFINE line == ancestorsUnder(f)
           explicit == {i \in DOMAIN line : folders[line[i]].policy # "inherit"}
           nearest == IF explicit = {} THEN "inherit" ELSE folders[line[Max(explicit)]].policy
           default == IF nearest = "restricted" \/ p \in Admins THEN 0 ELSE systemRole(p)
           public == IF nearest = "public" THEN 1 ELSE 0
           named == IF p \in Visitors THEN {0}
                    ELSE IF p \in Admins THEN {3}
                    ELSE {grants[p][Gallery]} \cup {grants[p][line[i]] : i \in DOMAIN line}
<1>1. policy(f) = nearest
  <2>1. explicit = {i \in DOMAIN line : Present(line[i]) /\ folders[line[i]].policy # "inherit"}
    OBVIOUS
  <2> QED BY <2>1 DEF policy
<1>2. p \in Profiles /\ default \in Roles /\ public \in Roles
  BY DEF RightsInv, LineInv, systemRole, Roles
<1>3. /\ \A i \in DOMAIN line : line[i] \in Scopes
      /\ Gallery \in Scopes /\ 0 \in Roles /\ 3 \in Roles
      /\ \A s \in Scopes : grants[p][s] \in Roles
  BY <1>2 DEF Scopes, RightsInv, Roles
<1>4. named \in SUBSET Roles
  BY <1>3
<1>5. granted(p, f) = Strongest(named)
  <2>1. CASE p \in Visitors
    <3>1. Strongest({0}) = 0
      BY StrongestIsStrongest, <1>3
    <3> QED BY <2>1, <3>1 DEF granted
  <2>2. CASE p \notin Visitors /\ p \in Admins
    <3>1. Strongest({3}) = 3
      BY StrongestIsStrongest, <1>3 DEF Roles
    <3> QED BY <2>2, <3>1 DEF granted
  <2>3. CASE p \notin Visitors /\ p \notin Admins
    <3>1. \A s \in Scopes : onLine(f, s) <=> s = Gallery \/ \E i \in DOMAIN line : line[i] = s
      <4> TAKE s \in Scopes
      <4> DEFINE above == folders[f].ancestors
      <4>1. above \in Seq(FolderIds)
        BY DEF LineInv, ChainsAreChains
      <4>2. /\ DOMAIN line = 1..(Len(above) + 1) /\ line[Len(above) + 1] = f
            /\ DOMAIN above = 1..Len(above) /\ Len(above) \in Nat
            /\ \A i \in DOMAIN above : line[i] = above[i] /\ above[i] \in FolderIds
        BY <4>1 DEF ancestorsUnder
      <4> HIDE DEF line, above
      <4>3. (\E i \in DOMAIN line : line[i] = s) <=> s = f \/ \E i \in DOMAIN above : above[i] = s
        <5>1. ASSUME NEW i \in DOMAIN line PROVE i = Len(above) + 1 \/ i \in DOMAIN above
          BY <4>2, <5>1
        <5>2. Len(above) + 1 \in DOMAIN line /\ \A i \in DOMAIN above : i \in DOMAIN line
          BY <4>2
        <5> QED BY <4>2, <5>1, <5>2
      <4>4. onLine(f, s) <=> s = Gallery \/ s = f \/ \E i \in DOMAIN above : above[i] = s
        BY <4>2 DEF onLine, hasAncestor, above
      <4> QED BY <4>3, <4>4
    <3>2. {grants[p][s] : s \in {s \in Scopes : onLine(f, s)}}
             = {grants[p][Gallery]} \cup {grants[p][line[i]] : i \in DOMAIN line}
      BY <1>3, <3>1
    <3> QED BY <2>3, <3>2 DEF granted
  <2> QED BY <2>1, <2>2, <2>3
<1>6. resolveFolderAccess(p, f) = Strongest({granted(p, f), default, public})
  BY <1>1 DEF resolveFolderAccess
<1>7. roleAlong(p, line) = Strongest(named \cup {default, public})
  BY DEF roleAlong
<1> HIDE DEF named, default, public, line
<1>8. Strongest({Strongest(named)} \cup {default, public}) = Strongest(named \cup {default, public})
  BY <1>2, <1>4, StrongestOfParts
<1>9. {granted(p, f), default, public} = {Strongest(named)} \cup {default, public}
  BY <1>5
<1> QED BY <1>6, <1>7, <1>8, <1>9 DEF line

-----------------------------------------------------------------------------
(***************************************************************************)
(* The theorems                                                            *)
(***************************************************************************)

\* Both invariants hold in every behaviour.
LEMMA AccessInvariant == AccessSpec => [](TreeInv /\ RightsInv)
<1>1. AccessInit => TreeInv /\ RightsInv
  BY TreeInit, RightsInit
<1>2. TreeInv /\ RightsInv /\ [AccessNext]_vars => (TreeInv /\ RightsInv)'
  <2>1. ASSUME TreeInv, RightsInv, UNCHANGED vars PROVE (TreeInv /\ RightsInv)'
    <3>1. UNCHANGED treeVars /\ UNCHANGED accessVars
      BY <2>1 DEF vars
    <3>2. TreeInv'
      BY <2>1, <3>1, TreeUnchanged DEF treeVars, unchangedTree
    <3>3. RightsInv'
      BY <2>1, <3>1 DEF accessVars, RightsInv
    <3> QED BY <3>2, <3>3
  <2> QED BY <2>1, TreeNext, RightsNext
<1> QED BY <1>1, <1>2, PTL DEF AccessSpec

\* Nothing hangs from a folder whose row has gone: removed folders are taken apart from
\* the files down to the row (cleanupMissingFolder), whatever lands in them meanwhile.
THEOREM NothingIsOrphaned == AccessSpec => []NothingOrphaned
<1>1. TreeInv => NothingOrphaned
  BY DEF TreeInv
<1> QED BY <1>1, AccessInvariant, PTL

\* Two folders that can be opened never share a parent and a name, whether they were
\* created, renamed or moved to it.
THEOREM SiblingsDiffer == AccessSpec => []SiblingNamesUnique
<1>1. TreeInv => SiblingNamesUnique
  BY DEF TreeInv
<1> QED BY <1>1, AccessInvariant, PTL

\* A copy of a chain of ancestors, in a folder or in an entry, is the one of the parent
\* unless a walk is to reach it: no order of moves, removals and walks leaves one wrong.
THEOREM CopiesGetRight == AccessSpec => []CopiesRightOrWalked
<1>1. TreeInv => CopiesRightOrWalked
  BY DEF TreeInv
<1> QED BY <1>1, AccessInvariant, PTL

\* Wherever the walk after a move has been, the role resolved from the copied chain is
\* the one along the line of parents, however the tree was moved about and whoever was
\* granted what meanwhile (lib/permissions.ts, reparentSubtree of folders.ts).
THEOREM WalkedFoldersInherit == AccessSpec => []InheritsOnceWalked
<1>1. LineInv /\ TreeInv /\ RightsInv => InheritsOnceWalked
  <2> SUFFICES ASSUME LineInv, TreeInv, RightsInv, NEW f \in FolderIds, Walked(lineTo(f)),
                      NEW p \in profiles
               PROVE  resolveFolderAccess(p, f) = roleAlong(p, lineTo(f))
    BY DEF InheritsOnceWalked, Walked
  <2>1. ancestorsUnder(f) = lineTo(f) /\ \A i \in DOMAIN lineTo(f) : lineTo(f)[i] \in FolderIds
    BY LineIsChain
  <2>2. \A i \in DOMAIN lineTo(f) : Present(lineTo(f)[i])
    BY DEF Walked, Visible
  <2> QED BY <2>1, <2>2, RoleOfChain
<1>2. AccessInit => LineInv
  BY LineInit
<1>3. TreeInv /\ LineInv /\ [AccessNext]_vars => LineInv'
  BY LineStep
<1> QED BY <1>1, <1>2, <1>3, AccessInvariant, PTL DEF AccessSpec

\* Signing in costs no right and no entry, and what an owner took or somebody uploaded
\* is never given back to the unknown uploader.
THEOREM SigningInKeepsRights == AccessSpec => RightsKept
<1>1. RightsInv /\ RightsInv' /\ [AccessNext]_vars =>
        [/\ \A q \in profiles \ profiles' : \E p \in Accounts \cap profiles' :
              /\ \A s \in Scopes : grants'[p][s] >= Strongest({grants[p][s], grants[q][s]})
              /\ \A e \in MountEntries : mountOwner[e] = q => mountOwner'[e] = p
         /\ \A e \in MountEntries :
              /\ mountOwner'[e] \in profiles' \cup {Unknown}
              /\ e \in adopted \/ e \in WebUploads => mountOwner'[e] # Unknown]_vars
  BY RightsStep
<1> QED BY <1>1, AccessInvariant, PTL DEF AccessSpec, RightsKept
=============================================================================
