----------------------------- MODULE Directory -----------------------------
(***************************************************************************)
(* What image galleries promise their users, without storage keys, leases, *)
(* reservations, jobs or retries: folders list at most one file under a    *)
(* name, every change to a listing is one atomic step, an upload lands     *)
(* once or not at all, and nothing is displaced unless a replacement was   *)
(* asked for.                                                              *)
(***************************************************************************)
CONSTANTS Folders, Names, Contents, Uploads, None

VARIABLES
    listing,  \* [Folders -> [Names -> Contents \cup {None}]]
    request,  \* [Uploads -> what was asked for and what became of it]
    granted   \* folders some move may replace files in

vars == <<listing, request, granted>>

Request == [fate : {"none", "open", "landed", "failed"},
            folder : Folders \cup {None}, name : Names \cup {None},
            policy : {"ask", "replace", "rename"}, content : Contents \cup {None}]

NoRequest == [fate |-> "none", folder |-> None, name |-> None, policy |-> "ask",
              content |-> None]

\* "photo.jpg" and "photo (2).jpg"
Variant(name, other) == name[1] = other[1]

Init == /\ listing \in [Folders -> [Names -> Contents \cup {None}]]
        /\ request = [i \in Uploads |-> NoRequest]
        /\ granted = {}

Submit(i) ==
    /\ request[i].fate = "none"
    /\ \E f \in Folders, n \in Names, p \in {"ask", "replace", "rename"}, c \in Contents :
          request' = [request EXCEPT ![i] = [fate |-> "open", folder |-> f, name |-> n,
                                             policy |-> p, content |-> c]]
    /\ UNCHANGED <<listing, granted>>

\* Only "rename" changes the name, only "replace" displaces a file.
Land(i, n) ==
    /\ request[i].fate = "open"
    /\ IF request[i].policy = "rename" THEN Variant(n, request[i].name)
                                       ELSE n = request[i].name
    /\ listing[request[i].folder][n] # None => request[i].policy = "replace"
    /\ listing' = [listing EXCEPT ![request[i].folder][n] = request[i].content]
    /\ request' = [request EXCEPT ![i].fate = "landed"]
    /\ UNCHANGED granted

Fail(failed) ==
    /\ failed # {}
    /\ \A i \in failed : request[i].fate = "open"
    /\ request' = [i \in Uploads |->
          IF i \in failed THEN [request[i] EXCEPT !.fate = "failed"] ELSE request[i]]
    /\ UNCHANGED <<listing, granted>>

Remove(f, n) ==
    /\ listing[f][n] # None
    /\ listing' = [listing EXCEPT ![f][n] = None]
    /\ UNCHANGED <<request, granted>>

Rename(f, n, m) ==
    /\ listing[f][n] # None
    /\ listing[f][m] = None
    /\ listing' = [listing EXCEPT ![f][n] = None, ![f][m] = listing[f][n]]
    /\ UNCHANGED <<request, granted>>

Grant == granted' \in SUBSET Folders /\ UNCHANGED <<listing, request>>

\* A file leaves one folder and is in the other, never in both or neither.
Move(f, n, g, m) ==
    /\ listing[f][n] # None
    /\ f # g
    /\ Variant(n, m)
    /\ listing[g][m] # None => g \in granted
    /\ listing' = [listing EXCEPT ![f][n] = None, ![g][m] = listing[f][n]]
    /\ granted' \in SUBSET granted
    /\ UNCHANGED request

Changes == \/ \E i \in Uploads : Submit(i)
           \/ \E i \in Uploads, n \in Names : Land(i, n)
           \/ \E failed \in SUBSET Uploads : Fail(failed)
           \/ \E f \in Folders, n \in Names : Remove(f, n)
           \/ \E f \in Folders, n, m \in Names : Rename(f, n, m)
           \/ Grant
           \/ \E f, g \in Folders, n, m \in Names : Move(f, n, g, m)

\* Stuttering is Spec's to allow; most steps of an implementation stutter.
Next == vars' # vars /\ Changes

Spec == Init /\ [][Next]_vars

=============================================================================
