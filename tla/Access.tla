------------------------------- MODULE Access -------------------------------
(***************************************************************************)
(* Who may see and change what (src/convex/lib/permissions.ts, roles.ts,   *)
(* lib/ensureProfile.ts, lib/profiles.ts): roles granted to profiles for a *)
(* gallery or a branch of its folders, the defaults of a gallery for       *)
(* visitors, and the access policies of folders, over the tree of Folders  *)
(* and its edits.                                                          *)
(*                                                                         *)
(* There are two galleries: the one whose tree Folders models, on shared   *)
(* storage, and one mounted from a directory, of which only the owners of  *)
(* the entries found there matter.  A signed-in profile takes over the     *)
(* anonymous profile of its browser and the one it was invited under, with *)
(* all they had.                                                           *)
(*                                                                         *)
(* Roles are their ranks: 0 none, 1 viewer, 2 editor, 3 owner.             *)
(***************************************************************************)
EXTENDS Folders

CONSTANTS
    Accounts,          \* identities that sign in
    Visitors,          \* profiles of anonymous claims
    Invitations,       \* placeholder profiles, one per invited email
    EmailsOf,          \* account -> the placeholders of the emails it comes to have
    Founder,           \* the account that created both galleries
    Admins,            \* accounts with isSystemAdmin
    MountEntries,      \* entries found in the mounted directory
    WebUploads,        \* those of them that were uploaded
    Gallery, Mount,    \* the scopes of a grant for a whole gallery
    GrantScopes, GrantedRoles,    \* the grants clients make
    SystemRoles,       \* the roles for visitors they choose
    Unknown            \* the profile of the unknown uploader

Profiles == Accounts \cup Visitors \cup Invitations
Scopes == FolderIds \cup {Gallery, Mount}
Roles == 0..3

ASSUME AccessAssumption ==
    /\ Founder \in Accounts /\ Admins \subseteq Accounts
    /\ EmailsOf \in [Accounts -> SUBSET Invitations]
    /\ WebUploads \subseteq MountEntries
    /\ Accounts \cap Visitors = {} /\ (Accounts \cup Visitors) \cap Invitations = {}
    /\ GrantScopes \subseteq Scopes /\ GrantedRoles \subseteq Roles
    /\ SystemRoles \subseteq 0..2
    /\ Unknown \notin Profiles /\ Gallery \notin FolderIds /\ Mount \notin FolderIds

VARIABLES
    profiles,     \* the profiles there are
    email,        \* their emails, as placeholders
    grants,       \* galleryRoles
    settings,     \* the gallery's roles for visitors
    mountOwner,   \* ownerProfileId of the entries of the mounted gallery
    adopted,      \* those with filesystemOwnershipClaimed
    batches       \* scheduled batches of roles.ts

accessVars == <<profiles, email, grants, settings, mountOwner, adopted, batches>>

Strongest(roles) == Max(roles \cup {0})

-----------------------------------------------------------------------------
\* The resolver: f's own policy, else that of the nearest of its ancestorIds.
policy(f) ==
    LET line == ancestorsUnder(f)
        explicit == {i \in DOMAIN line : Present(line[i]) /\ folders[line[i]].policy # "inherit"}
    IN  IF explicit = {} THEN "inherit" ELSE folders[line[Max(explicit)]].policy

\* Fault: a grant on a folder does not reach the folders below it.
onFolder(f, scope) == scope = Gallery \/ scope = f

onLine(f, scope) == scope = Gallery \/ scope = f \/ (scope \in FolderIds /\ hasAncestor(f, scope))

systemRole(p) == IF p \in Visitors THEN settings.anonymous ELSE settings.authenticated

granted(p, f) ==
    IF p \in Visitors THEN 0
    ELSE IF p \in Admins THEN 3
    ELSE Strongest({grants[p][s] : s \in {s \in Scopes : onLine(f, s)}})

resolveFolderAccess(p, f) ==
    LET own == granted(p, f)
        access == policy(f)
        system == IF access = "restricted" \/ p \in Admins THEN 0 ELSE systemRole(p)
        public == IF access = "public" THEN 1 ELSE 0
    IN  IF p \notin profiles THEN 0 ELSE Strongest({own, system, public})

roleAtLeast(p, f, minimum) == resolveFolderAccess(p, f) >= minimum

canManageGallery(p) ==
    \/ roleAtLeast(p, Root, 3)
    \/ settings.bulkActions /\ roleAtLeast(p, Root, 2)

canView(p, f) == roleAtLeast(p, f, 1)

shouldList(p, f) == Visible(f) /\ canView(p, f)

\* Fault: an entry in the range of the tile's key is taken to be visible.
descendantOnly(p, f, g) == Present(g) /\ hasAncestor(g, f)

\* An entry of a folder below f may be the picture of f's tile.
descendantFolderVisible(p, f, g) ==
    /\ Present(g) /\ shouldList(p, g) /\ hasAncestor(g, f)
    /\ \A i, j \in DOMAIN folders[g].ancestors :
          folders[g].ancestors[i] = f /\ i < j =>
              /\ Present(folders[g].ancestors[j])
              /\ shouldList(p, folders[g].ancestors[j])

\* The entries in the range of folderPathKey that starts with the tile's.
previews(p, f) ==
    IF ~shouldList(p, f) THEN {}
    ELSE filesIn(f) \cup
         {e \in FileIds : /\ ReadyFile(e)
                          /\ Len(files[e].pathKey) > Len(folderPathKey(f))
                          /\ SubSeq(files[e].pathKey, 1, Len(folderPathKey(f))) = folderPathKey(f)
                          /\ descendantFolderVisible(p, f, files[e].folder)}

-----------------------------------------------------------------------------
\* Grants.  An email nobody signed in with yet gets a placeholder.
Grantable == (profiles \cap Accounts) \cup Invitations

mayAdminister(actor, scope) ==
    IF scope = Mount THEN actor \in profiles /\ (actor \in Admins \/ grants[actor][Mount] = 3)
    ELSE roleAtLeast(actor, Root, 3)

upsert(p, scope, role) ==
    /\ \E actor \in Accounts : mayAdminister(actor, scope)
    /\ p \in Grantable
    /\ p \in Invitations => \A u \in profiles \cap Accounts : email[u] # p
    /\ scope \in FolderIds => Present(scope)
    /\ profiles' = profiles \cup {p}
    /\ grants' = [grants EXCEPT ![p][scope] = role]
    /\ UNCHANGED <<treeVars, email, settings, mountOwner, adopted, batches>>

ownersOf(scope) == {p \in profiles : grants[p][scope] = 3}

revoke(p, scope) ==
    /\ grants[p][scope] > 0
    /\ \E actor \in Accounts : mayAdminister(actor, scope)
    /\ scope \in {Gallery, Mount} /\ grants[p][scope] = 3 => Cardinality(ownersOf(scope)) > 1
    /\ grants' = [grants EXCEPT ![p][scope] = 0]
    /\ UNCHANGED <<treeVars, profiles, email, settings, mountOwner, adopted, batches>>

\* galleries.setSystemPermission, one audience at a time, and the switch that lets
\* editors use the owners' bulk tools.
setSystemPermission(audience, role) ==
    /\ \E actor \in Accounts : roleAtLeast(actor, Root, 3)
    /\ settings' = [settings EXCEPT ![audience] = role]
    /\ UNCHANGED <<treeVars, profiles, email, grants, mountOwner, adopted, batches>>

setBulkActions(on) ==
    /\ \E actor \in Accounts : roleAtLeast(actor, Root, 3)
    /\ settings' = [settings EXCEPT !.bulkActions = on]
    /\ UNCHANGED <<treeVars, profiles, email, grants, mountOwner, adopted, batches>>

-----------------------------------------------------------------------------
\* Fault: where both have a grant, the one of the absorbed profile is dropped.
ownGrantFirst(own, other) == IF own > 0 THEN own ELSE other

\* What one profile has besides its own, per scope the stronger of the two.
mergedGrant(own, other) == Strongest({own, other})

absorbed(sources, target) ==
    [p \in Profiles |->
        IF p \in sources THEN [s \in Scopes |-> 0]
        ELSE IF p # target THEN grants[p]
        ELSE [s \in Scopes |->
                LET other == Strongest({grants[q][s] : q \in sources})
                IN  mergedGrant(grants[p][s], other)]]

\* ensureCurrentProfile, with the anonymous profile of the browser, if any, and the
\* one the account was invited under.
ensureCurrentProfile(p, address, browser) ==
    LET sources == (browser \cup {address}) \cap profiles
    IN  /\ p \notin profiles \/ sources # {} \/ email[p] # address
        /\ email' = [email EXCEPT ![p] = address]
        /\ profiles' = (profiles \ sources) \cup {p}
        /\ grants' = absorbed(sources, p)
        /\ mountOwner' = [e \in MountEntries |->
               IF mountOwner[e] \in sources THEN p ELSE mountOwner[e]]
        /\ UNCHANGED <<treeVars, settings, adopted, batches>>

-----------------------------------------------------------------------------
\* Entries found on disk belong to nobody, until an owner takes them, an entry per
\* batch.
batchOf(target, left) == [target |-> target, left |-> left]

takeUnknownUploaderItems(p) ==
    /\ \E actor \in Accounts : mayAdminister(actor, Mount)
    /\ p \in profiles /\ grants[p][Mount] = 3
    /\ batches' = batches \cup {batchOf(p, MountEntries)}
    /\ UNCHANGED <<treeVars, profiles, email, grants, settings, mountOwner, adopted>>

\* Asked again in every batch: the target may have lost its role, or be absorbed.
hasGalleryWideOwnerGrant(p) == grants[p][Mount] = 3

batchDone(b, e) ==
    batches' = (batches \ {b}) \cup
               (IF b.left = {e} THEN {} ELSE {batchOf(b.target, b.left \ {e})})

takeUnknownUploaderItemsBatch(b) ==
    /\ b \in batches /\ b.target # Unknown
    /\ IF hasGalleryWideOwnerGrant(b.target)
       THEN \E e \in b.left :
              LET taken == mountOwner[e] = Unknown
              IN  /\ mountOwner' = [mountOwner EXCEPT ![e] = IF taken THEN b.target ELSE @]
                  /\ adopted' = IF taken THEN adopted \cup {e} ELSE adopted
                  /\ batchDone(b, e)
       ELSE batches' = batches \ {b} /\ UNCHANGED <<mountOwner, adopted>>
    /\ UNCHANGED <<treeVars, profiles, email, grants, settings>>

\* The one-off correction of entries that were given to the gallery's owner.
backfillUnknownUploaderOwnership ==
    /\ batches' = batches \cup {batchOf(Unknown, MountEntries)}
    /\ UNCHANGED <<treeVars, profiles, email, grants, settings, mountOwner, adopted>>

\* Uploads and what an owner took stay as they are.
keptByBackfill(e) == e \in WebUploads \/ e \in adopted

backfillUnknownUploaderGallery(b) ==
    /\ b \in batches /\ b.target = Unknown
    /\ \E e \in b.left :
          /\ mountOwner' = [mountOwner EXCEPT ![e] = IF keptByBackfill(e) THEN @ ELSE Unknown]
          /\ batchDone(b, e)
    /\ UNCHANGED <<treeVars, profiles, email, grants, settings, adopted>>

-----------------------------------------------------------------------------
vars == <<treeVars, accessVars, budget>>

NoGrants == [s \in Scopes |-> 0]

AccessInit ==
    /\ Init
    /\ profiles = {Founder} \cup Visitors
    /\ email = [p \in Accounts |-> None]
    /\ grants = [p \in Profiles |->
           IF p = Founder THEN [NoGrants EXCEPT ![Gallery] = 3, ![Mount] = 3] ELSE NoGrants]
    /\ settings = [anonymous |-> 1, authenticated |-> 1, bulkActions |-> FALSE]
    /\ mountOwner = [e \in MountEntries |-> IF e \in WebUploads THEN Founder ELSE Unknown]
    /\ adopted = {}
    /\ batches = {}

\* The edits of Folders, by those who may: some at the folder, some at the root.
Permitted(f) ==
    \/ \E p \in FolderIds, name \in FolderNames, policy0 \in FolderPolicies :
          /\ \E actor \in Profiles : roleAtLeast(actor, p, 2)
          /\ create(f, p, name, policy0)
    \/ (\E actor \in Profiles : canManageGallery(actor)) /\ removeMany(f)
    \/ \E d \in FolderIds :
          (\E actor \in Profiles : canManageGallery(actor)) /\ moveMany(f, d)
    \/ \E name \in FolderNames, policy0 \in FolderPolicies :
          (\E actor \in Profiles : roleAtLeast(actor, f, 2)) /\ update(f, name, policy0)
    \/ (\E actor \in Profiles : roleAtLeast(actor, Root, 3)) /\ resetAccessPolicySubtree(f)

\* A folder's row takes the grants on it along.
Background(f) ==
    /\ rebuild(f) \/ walk(f) \/ cleanupMissingFolder(f)
    /\ grants' = [p \in Profiles |-> [s \in Scopes |->
           IF s = f /\ folders'[f].status = "absent" THEN 0 ELSE grants[p][s]]]
    /\ UNCHANGED <<budget, profiles, email, settings, mountOwner, adopted, batches>>

Change == budget.access > 0 /\ budget' = [budget EXCEPT !.access = @ - 1]
SignIn == budget.signIns > 0 /\ budget' = [budget EXCEPT !.signIns = @ - 1]

AccessNext ==
    \/ \E f \in FolderIds : (Permitted(f) \/ Counting(f)) /\ Edit /\ UNCHANGED accessVars
    \/ \E e \in FileIds : Contents(e) /\ Edit /\ UNCHANGED accessVars
    \/ \E p \in Profiles, s \in GrantScopes, role \in GrantedRoles : upsert(p, s, role) /\ Change
    \/ \E p \in Profiles, s \in GrantScopes : revoke(p, s) /\ Change
    \/ \E audience \in {"anonymous", "authenticated"}, role \in SystemRoles :
          setSystemPermission(audience, role) /\ Change
    \/ \E on \in BOOLEAN : setBulkActions(on) /\ Change
    \/ \E p \in Accounts : \E address \in EmailsOf[p], browser \in SUBSET Visitors :
          ensureCurrentProfile(p, address, browser) /\ SignIn
    \/ \E p \in Profiles : takeUnknownUploaderItems(p) /\ Change
    \/ backfillUnknownUploaderOwnership /\ Change
    \/ \E b \in batches : takeUnknownUploaderItemsBatch(b) /\ UNCHANGED budget
    \/ \E b \in batches : backfillUnknownUploaderGallery(b) /\ UNCHANGED budget
    \/ \E f \in FolderIds : Background(f)

\* Convex runs every scheduled function.
AccessSpec ==
    /\ AccessInit /\ [][AccessNext]_vars
    /\ \A f \in FolderIds : WF_vars(Background(f))

-----------------------------------------------------------------------------
\* The line of folders above f by the parent pointers.
lineTo(f) ==
    LET up[n \in 0..Cardinality(FolderIds)] ==
            IF n = 0 THEN <<f>>
            ELSE LET line == up[n - 1]
                 IN  IF line[1] = Root \/ folders[line[1]].parent = None THEN line
                     ELSE <<folders[line[1]].parent>> \o line
    IN  up[Cardinality(FolderIds)]

\* The role at the end of a line of folders, as the manual tells it.
roleAlong(p, line) ==
    LET explicit == {i \in DOMAIN line : folders[line[i]].policy # "inherit"}
        nearest == IF explicit = {} THEN "inherit" ELSE folders[line[Max(explicit)]].policy
        named == IF p \in Visitors THEN {0}
                 ELSE IF p \in Admins THEN {3}
                 ELSE {grants[p][Gallery]} \cup {grants[p][line[i]] : i \in DOMAIN line}
        default == IF nearest = "restricted" \/ p \in Admins THEN 0 ELSE systemRole(p)
    IN  Strongest(named \cup {default, IF nearest = "public" THEN 1 ELSE 0})

\* "Uses the nearest parent access policy, or the gallery's permissions when no
\* parent overrides it" (docs/user.md): the role computed from the copied chain is
\* the one of the tree.
InheritsFromParents ==
    \A f \in {g \in FolderIds : Visible(g)} :
        LET line == lineTo(f)
        IN  \A p \in profiles : resolveFolderAccess(p, f) = roleAlong(p, line)

\* That much holds wherever the walk after a move has been.  (A folder removed
\* before its walk keeps its children with the old chain until they go too.)
InheritsOnceWalked ==
    \A f \in {g \in FolderIds : Visible(g)} :
        LET line == lineTo(f)
            walked == \A i \in DOMAIN line :
                Visible(line[i]) /\ task("reparentSubtree", line[i]) \notin tasks
        IN  walked => \A p \in profiles : resolveFolderAccess(p, f) = roleAlong(p, line)

\* "A restricted or unlisted subfolder never leaks into an ancestor's tile": the
\* picture of a tile its viewer may see comes from a folder he may see.  (Restricted
\* ones: no folder is unlisted here.)  Not so while two walks are under way: MCTileLeak.
PreviewsNeverLeak ==
    \A e \in {e \in FileIds : ReadyFile(e)} :
        LET line == lineTo(files[e].folder)
        IN  \A p \in {p \in profiles : roleAlong(p, line) = 0} :
              \A f \in {g \in FolderIds : Visible(g)} :
                  roleAlong(p, lineTo(f)) = 0 \/ e \notin previews(p, f)

\* Those of a line whose copies may be behind.
behind(line) ==
    {i \in DOMAIN line : ~Visible(line[i]) \/ task("reparentSubtree", line[i]) \in tasks}

\* One walk on its way to the folder is not enough for that, where nobody but the whole
\* gallery was granted to its viewer.  (A grant on the folder's old parent still counts
\* until then, and two walks can hide a restricted folder from each other.)
NoLeakInOneWalk ==
    \A e \in {e \in FileIds : ReadyFile(e)} :
        LET line == lineTo(files[e].folder)
        IN  line[1] = Root /\ Cardinality(behind(line)) <= 1 =>
              \A p \in {p \in profiles : /\ roleAlong(p, line) = 0
                                         /\ \A s \in FolderIds : grants[p][s] = 0} :
                 \A f \in {g \in FolderIds : Visible(g)} :
                     roleAlong(p, lineTo(f)) = 0 \/ e \notin previews(p, f)

\* Signing in never costs a right: invitations and the browser's profile are merged
\* scope by scope, and the entries they had go along, those too that the batches of
\* an adoption gave them meanwhile.  And "entries already adopted by an owner are
\* deliberately preserved", as uploads are, by the backfill.
RightsKept ==
    [][/\ \A q \in profiles \ profiles' : \E p \in Accounts \cap profiles' :
             /\ \A s \in Scopes : grants'[p][s] >= Strongest({grants[p][s], grants[q][s]})
             /\ \A e \in MountEntries : mountOwner[e] = q => mountOwner'[e] = p
       /\ \A e \in MountEntries :
             /\ mountOwner'[e] \in profiles' \cup {Unknown}
             /\ e \in adopted \/ e \in WebUploads => mountOwner'[e] # Unknown]_vars
=============================================================================
