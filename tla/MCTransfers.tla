----------------------------- MODULE MCTransfers -----------------------------
(***************************************************************************)
(* Small instances of FolderTransfers for TLC: a drop of a file of the     *)
(* shown folder and one of a subfolder, another of a file of one name; two *)
(* folders.                                                                *)
(***************************************************************************)
EXTENDS FolderTransfers

CONSTANTS i1, i2, i3, b1, b2, n1, n2, r1, r2, r3, r4, d1, d2

TwoDrops == [i \in Items |-> IF i = i3 THEN b2 ELSE b1]
TwoNames == [i \in Items |-> IF i = i2 THEN n2 ELSE n1]

one(kind) == [kind |-> kind, folders |-> {d1}]
both(kind) == [kind |-> kind, folders |-> {d1, d2}]
DeletesAndMoves == {both("delete"), both("move"), one("stay"), one("delete")}

uploading(drops, present, clicks, failures, others) ==
    [drops |-> drops, present |-> present, clicks |-> clicks, failures |-> failures,
     others |-> others, folders |-> FALSE, userStorage |-> TRUE]

changing(drops, clicks, failures, userStorage) ==
    [uploading(drops, {}, clicks, failures, 0) EXCEPT !.folders = TRUE,
                                                      !.userStorage = userStorage]

\* Names that are there, choices and retries of the user, failures; folders.
Mix == {uploading(Batches, {n1}, 1, 1, 0), uploading(Batches, {n1, n2}, 2, 0, 0),
        uploading(Batches, {}, 1, 2, 0), uploading(Batches, {}, 0, 1, 1),
        uploading({b1}, {n1}, 2, 0, 1),
        changing({}, 2, 3, TRUE), changing({}, 2, 2, FALSE), changing({b2}, 1, 1, TRUE)}

\* A file that is renamed while all others are skipped, and somebody else's file.
OneRenamed == {uploading({b1}, {n1}, 2, 0, 1)}

\* One failure, and somebody else's file.
OneOther == {uploading(Batches, {}, 0, 1, 1)}

\* One failure of an operation.
OneFolder == {changing({}, 0, 2, TRUE)}
=============================================================================
