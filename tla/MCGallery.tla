----------------------------- MODULE MCGallery -----------------------------
(***************************************************************************)
(* Small instances of Gallery for TLC: the storage and the kind of each    *)
(* gallery, the files there are to begin with, symmetries and constraints. *)
(***************************************************************************)
EXTENDS Gallery, TLC

CONSTANTS g1, g2, f1, f2, a, b, d, c1, c2, e1, e2, e3

\* One shared image gallery with one folder.
OneKind == [g \in Galleries |-> "image"]
OneStorage == [g \in Galleries |-> "shared"]
OneGalleryOf == [f \in Folders |-> CHOOSE g \in Galleries : TRUE]

\* One gallery keeps its files by content, one by path.
PathFirst == [g \in Galleries |-> IF g = g1 THEN "user" ELSE "shared"]
TwoGalleryOf == [f \in Folders |-> IF f = f1 THEN g1 ELSE g2]
Uploader == [g \in Galleries |-> "uploader"]
UserStorage == [g \in Galleries |-> "user"]

MCSize == [c \in Contents |-> IF c = c1 THEN 1 ELSE 2]
MCMaxFileSize == [g \in Galleries |-> 2]

seed(folder, stem, content) == [folder |-> folder, name |-> <<stem, 1>>, content |-> content]

\* The same name in both folders, so that moving either meets a conflict.
TwoNamesakes == [e \in {e1, e2} |-> IF e = e1 THEN seed(f1, a, c1) ELSE seed(f2, a, c2)]

\* Two files to move, and one in the destination that can be renamed into the way.
TwoAndOne == [e \in {e1, e2, e3} |-> IF e = e1 THEN seed(f1, a, c1)
                                    ELSE IF e = e2 THEN seed(f1, b, c1) ELSE seed(f2, d, c2)]

\* Two files to move, one of them onto a namesake.
TwoOntoOne == [e \in {e1, e2, e3} |-> IF e = e1 THEN seed(f1, a, c1)
                                     ELSE IF e = e2 THEN seed(f1, b, c1) ELSE seed(f2, b, c2)]

OneSeed == [e \in {e1} |-> seed(f1, a, c1)]

NoSeeds == [e \in {} |-> e]

\* Rows and processes are interchangeable unless an initial state tells them apart.
Symmetric == Permutations(EntryIds) \cup Permutations(IntentIds)
             \cup Permutations(DeleteJobIds) \cup Permutations(Handlers)
             \cup Permutations(Workers)

SymmetricJobs == Permutations(IntentIds) \cup Permutations(DeleteJobIds)
                 \cup Permutations(Handlers) \cup Permutations(Workers)

SymmetricMoves == SymmetricJobs \cup Permutations(MoveJobIds)

\* What a run leaves to others: removed galleries, operations on other folders,
\* removed entries, operations that delete.
Standing == \A g \in Galleries : ~galleries[g].deleted
FromFirst == \A o \in OperationIds : operations[o].source \in {None, f1}
NothingRemoved == \A e \in EntryIds : entries[e].state = "ready"
MovesOnly == \A o \in OperationIds : operations[o].kind = "move" \/ operations[o].status = "absent"
=============================================================================
