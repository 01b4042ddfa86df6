----------------------------- MODULE MCFolders ------------------------------
(***************************************************************************)
(* A small instance of Access for TLC: a branch of folders beside a        *)
(* restricted one, a founder, an invited account and a visitor.            *)
(***************************************************************************)
EXTENDS Access, TLC

CONSTANTS r, A, B, C, D, E, e1, m, n, k, x, host, u, anon, inv, later, fnd, web

at(ancestors, name, access) == 
    [ancestors |-> ancestors, name |-> name, policy |-> access, identity |-> None]

Forest == [f \in {r, A, B, C} |->
            IF f = r THEN at(<<>>, None, "inherit")
            ELSE IF f = A THEN at(<<r>>, m, "inherit")
            ELSE IF f = B THEN at(<<r, A>>, m, "inherit") ELSE at(<<r>>, n, "restricted")]

\* Two branches, so that either can be moved under the end of the other.
Branches == [f \in {r, A, B, C} |->
                IF f = r THEN at(<<>>, None, "inherit")
                ELSE IF f = A THEN at(<<r>>, m, "inherit")
                ELSE IF f = B THEN at(<<r>>, n, "inherit") ELSE at(<<r, A>>, m, "inherit")]

\* A restricted folder beside two branches.
Deep == [f \in {r, A, B, C, D, E} |->
            IF f = r THEN at(<<>>, None, "inherit")
            ELSE IF f = C THEN at(<<r>>, n, "restricted")
            ELSE IF f = A THEN at(<<r>>, m, "inherit")
            ELSE IF f = B THEN at(<<r, A>>, m, "inherit")
            ELSE IF f = D THEN at(<<r>>, k, "inherit") ELSE at(<<r, D>>, m, "inherit")]

DeepFile == [e \in {e1} |-> [folder |-> E, name |-> x, size |-> 1, identity |-> None]]

NoFiles == [e \in {} |-> e]
OneFile == [e \in {e1} |-> [folder |-> B, name |-> x, size |-> 1, identity |-> None]]

\* Edits of the tree alone, also of one with few counters; edits and grants; grants.
left(tree, access, signIns, counted) ==
    [tree |-> tree, access |-> access, signIns |-> signIns, counted |-> counted]
Mixes == {left(2, 0, 0, FolderIds), left(1, 0, 0, {C}), left(1, 1, 0, FolderIds),
          left(0, 2, 2, FolderIds)}
TwoEdits == {left(2, 0, 0, FolderIds)}

\* The invited account comes to have the invited email only later.
Emails == [p \in {host, u} |-> IF p = u THEN {inv, later} ELSE {}]

NoEmails == [p \in {host} |-> {}]
=============================================================================
