---------------------------- MODULE MCFilesystem ----------------------------
(***************************************************************************)
(* A small instance of FilesystemSync for TLC: a folder with a file and a  *)
(* folder below it, two requests at once, two scanners.                       *)
(***************************************************************************)
EXTENDS FilesystemSync, TLC

CONSTANTS r, A, B, D, e1, e2, m, n, x, y, dr, dA, dB, dN, i1, i2, o1, o2, s1, s2, w1, w2

row(ancestors, name, inode) ==
    [ancestors |-> ancestors, name |-> name, policy |-> "inherit", identity |-> inode]

\* r / A "m" / B "n", with the file "x" in B and none elsewhere.
Tree == [f \in {r, A, B} |-> IF f = r THEN row(<<>>, None, None)
                             ELSE IF f = A THEN row(<<r>>, m, dA) ELSE row(<<r, A>>, n, dB)]
File == [e \in {e1} |-> [folder |-> B, name |-> x, size |-> 1, identity |-> i1]]
Disk == [i \in {dA, dB, i1} |->
            IF i = dA THEN [dir |-> dr, name |-> m, size |-> 0]
            ELSE IF i = dB THEN [dir |-> dA, name |-> n, size |-> 0]
            ELSE [dir |-> dB, name |-> x, size |-> 1]]

left(requests, scans, edits, crashes) ==
    [tree |-> 0, access |-> 0, signIns |-> 0, counted |-> FolderIds, requests |-> requests,
     scans |-> scans, edits |-> edits, crashes |-> crashes, others |-> FALSE]

\* Operations with a crash or a stalled runner; scans with an edit or a crash; the two
\* together.
Mix == {left(2, 0, 0, 1), left(1, 0, 0, 2), left(0, 1, 1, 1), left(0, 1, 0, 2),
        left(0, 2, 0, 1), left(1, 1, 0, 0)}

\* People with a shell change one thing; then one scan.
OneEdit == {left(0, 1, 1, 0)}
=============================================================================
