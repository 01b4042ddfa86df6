------------------------------ MODULE Transfers ------------------------------
(***************************************************************************)
(* Uploads as one browser tab runs them: the rows of the transfer list     *)
(* (src/lib/transfers.ts), the work queue and the choices of each drop     *)
(* (src/pages/GalleryPage.tsx), one request per file (hooks/useUpload.ts), *)
(* and the places the storage server has for requests                      *)
(* (storage/server.ts, storage/concurrency.ts).                            *)
(*                                                                         *)
(* A file that meets its name in the folder is parked until the user       *)
(* chooses for it or for all; one that failed waits for a retry, or for    *)
(* the listing to show that it has landed after all.                       *)
(*                                                                         *)
(* What a request does once it has a place is two steps here, the claim of *)
(* the name and the landing (Uploads has the rest).  A file that is        *)
(* renamed is claimed under a name that is free by then.  FolderTransfers  *)
(* composes this with the rows of folders.                                 *)
(***************************************************************************)
EXTENDS FiniteSets, Naturals, SequencesExt

CONSTANTS
    Items, Batches, Names, RequestIds, None,
    BatchOf, NameOf,          \* item -> the drop it came with, its name
    InSubfolder,              \* the items of dropped directories
    Concurrency,              \* parseTransferConcurrency
    MaxConcurrentUploads, MaxQueuedUploads,
    Budgets

\* What the user does and what goes wrong, at most.
Budget == [drops : SUBSET Batches, present : SUBSET Names, clicks : Nat, failures : Nat,
           others : Nat, folders : BOOLEAN, userStorage : BOOLEAN]

ASSUME TransfersAssumption ==
    /\ BatchOf \in [Items -> Batches] /\ NameOf \in [Items -> Names] /\ InSubfolder \subseteq Items
    /\ Concurrency \in 1..8 /\ MaxConcurrentUploads \in Nat \ {0} /\ MaxQueuedUploads \in Nat
    /\ None \notin Items \cup RequestIds \cup {"other", "replace", "rename", "skip"}
    /\ "other" \notin Items
    /\ IsFiniteSet(Items) /\ IsFiniteSet(RequestIds)
    /\ \A b \in Budgets : b \in Budget

VARIABLES
    rows,         \* the transfer list
    runs,         \* calls of runTask that have not returned
    pending,      \* the jobs of each drop's work queue that wait
    inFlight,     \* how many of its slots are taken
    registered,   \* drops that hear of a choice for all
    choice,       \* what they heard
    watched,      \* items whose appearance in the listing proves their upload
    subfolder,    \* the promise of the dropped directory
    requests,     \* upload requests at the storage server
    active, waiters,          \* its AsyncSemaphore
    listing,      \* name -> whose file has it
    landed,       \* items that have been stored
    budget

clientVars == <<rows, runs, pending, inFlight, registered, choice, watched, subfolder>>
serverVars == <<requests, active, waiters, listing, landed>>
vars == <<clientVars, serverVars, budget>>

Policies == {"replace", "rename"}
NoRow == [status |-> "none", policy |-> None]
NoRequest == [at |-> "none", item |-> None, used |-> None, cut |-> FALSE, renamed |-> FALSE]

itemsOf(b) == {i \in Items : BatchOf[i] = b}
withStatus(status) == {i \in Items : rows[i].status = status}
transferPending(row) == row.status \in {"queued", "active"}
transferFinished(row) == row.status \in {"success", "error"}

Init ==
    /\ budget \in Budgets
    /\ rows = [i \in Items |-> NoRow]
    /\ runs = {}
    /\ pending = [b \in Batches |-> <<>>]
    /\ inFlight = [b \in Batches |-> 0]
    /\ registered = {}
    /\ choice = [b \in Batches |-> None]
    /\ watched = {}
    /\ subfolder = [b \in Batches |-> "none"]
    /\ requests = [r \in RequestIds |-> NoRequest]
    /\ active = 0 /\ waiters = <<>>
    /\ listing = [n \in Names |-> IF n \in budget.present THEN "other" ELSE None]
    /\ landed = {}

-----------------------------------------------------------------------------
\* evaluate, on every change of the rows or of the listing: a failed upload whose name
\* has appeared has succeeded.
proven(items, names) ==
    [i \in Items |-> IF items[i].status = "error" /\ i \in watched /\ names[NameOf[i]] # None
                     THEN [items[i] EXCEPT !.status = "success"] ELSE items[i]]

\* What is in the listing when the files are dropped proves nothing later.
provable(b) == {i \in itemsOf(b) \ InSubfolder : listing[NameOf[i]] = None}

\* uploadDropped.
drop(b) ==
    /\ \A i \in itemsOf(b) : rows[i].status = "none"
    /\ rows' = [i \in Items |-> IF i \in itemsOf(b) THEN [NoRow EXCEPT !.status = "queued"]
                                ELSE rows[i]]
    /\ pending' = [pending EXCEPT ![b] =
           SetToSeq({[item |-> i, policy |-> None] : i \in itemsOf(b)})]
    /\ registered' = registered \cup {b}
    /\ watched' = watched \cup provable(b)
    /\ UNCHANGED <<runs, inFlight, choice, subfolder, serverVars>>

newRun(i, p, slot) == [item |-> i, policy |-> p, slot |-> slot, at |-> "started",
                       used |-> None, request |-> None]

\* pump: a job starts when a slot is free.
pump(b) ==
    /\ inFlight[b] < Concurrency /\ pending[b] # <<>>
    /\ LET job == Head(pending[b])
       IN  /\ runs' = runs \cup {newRun(job.item, job.policy, TRUE)}
           /\ rows' = IF rows[job.item].status = "queued"
                      THEN [rows EXCEPT ![job.item].status = "active"] ELSE rows
    /\ pending' = [pending EXCEPT ![b] = Tail(@)]
    /\ inFlight' = [inFlight EXCEPT ![b] = @ + 1]
    /\ UNCHANGED <<registered, choice, watched, subfolder, serverVars>>

-----------------------------------------------------------------------------
slotsOf(us, b) == Cardinality({u \in us : u.slot /\ BatchOf[u.item] = b})

\* Fault: a call that fails keeps its slot.
returnHolding(us) ==
    /\ runs' = runs \ us
    /\ inFlight' = inFlight
    /\ registered' = {b \in registered : inFlight'[b] > 0 \/ pending[b] # <<>>}

\* The calls us return: their slots are free, and a drop whose queue is drained
\* hears of no choice any more.
return(us) ==
    /\ runs' = runs \ us
    /\ inFlight' = [b \in Batches |-> inFlight[b] - slotsOf(us, b)]
    /\ registered' = {b \in registered : inFlight'[b] > 0 \/ pending[b] # <<>>}

\* Fault: what was chosen for all is not looked at again.
parkedAlways(u, outcome) ==
    [status |-> CASE outcome = "ok"     -> "success"
                  [] outcome = "failed" -> "error"
                  [] outcome = "exists" -> "conflict",
     policy |-> u.policy]

\* What becomes of the row: a retry goes on under the policy of this call.
outcomeOf(u, outcome) ==
    [status |-> CASE outcome = "ok"     -> "success"
                  [] outcome = "failed" -> "error"
                  [] outcome = "exists" ->
                         IF u.policy = None /\ choice[BatchOf[u.item]] = "skip" THEN "gone"
                         ELSE "conflict",
     policy |-> u.policy]

\* runTask has its answer; names is the listing by then.
conclude(u, outcome, names) ==
    /\ return({u})
    /\ rows' = proven([rows EXCEPT ![u.item] = outcomeOf(u, outcome)], names)
    /\ UNCHANGED <<pending, choice, watched, subfolder>>

\* The first file of a dropped directory creates the folder, the others wait.
resolveTargetFolder(u) ==
    /\ u.at = "started" /\ u.item \in InSubfolder /\ subfolder[BatchOf[u.item]] # "made"
    /\ subfolder' = [subfolder EXCEPT ![BatchOf[u.item]] = "creating"]
    /\ runs' = (runs \ {u}) \cup {[u EXCEPT !.at = "waiting"]}
    /\ UNCHANGED <<rows, pending, inFlight, registered, choice, watched, serverVars>>

folderCreated(b) ==
    /\ subfolder[b] = "creating"
    /\ subfolder' = [subfolder EXCEPT ![b] = "made"]
    /\ UNCHANGED <<rows, runs, pending, inFlight, registered, choice, watched, serverVars>>

\* All that wait fail with it, and the promise is evicted.
folderFails(b) ==
    LET us == {u \in runs : u.at = "waiting" /\ BatchOf[u.item] = b}
    IN  /\ subfolder[b] = "creating"
        /\ subfolder' = [subfolder EXCEPT ![b] = "none"]
        /\ return(us)
        /\ rows' = proven([i \in Items |->
               IF \E u \in us : u.item = i
               THEN outcomeOf(CHOOSE u \in us : u.item = i, "failed") ELSE rows[i]], listing)
        /\ UNCHANGED <<pending, choice, watched, serverVars>>

ready(u) ==
    /\ u.at \in {"started", "waiting"}
    /\ u.item \in InSubfolder => subfolder[BatchOf[u.item]] = "made"

\* upload is called under the item's own policy, or what was chosen for all.
call(u) ==
    LET all == choice[BatchOf[u.item]]
    IN  /\ ready(u)
        /\ runs' = (runs \ {u}) \cup {[u EXCEPT !.at = "asking",
               !.used = IF u.policy # None THEN u.policy ELSE IF all = "skip" THEN None ELSE all]}
        /\ UNCHANGED <<rows, pending, inFlight, registered, choice, watched, subfolder, serverVars>>

-----------------------------------------------------------------------------
\* Names are of the folder that is shown; a directory's own folder is new.
reserved(n, r) ==
    \E q \in RequestIds \ {r} : /\ requests[q].at = "claimed" /\ ~requests[q].renamed
                                /\ requests[q].item \notin InSubfolder
                                /\ NameOf[requests[q].item] = n

taken(i, r) == i \notin InSubfolder /\ (listing[NameOf[i]] # None \/ reserved(NameOf[i], r))

\* createUploadIntent refuses before any bytes are sent.
refused(u) ==
    /\ u.at = "asking" /\ u.used = None /\ taken(u.item, None)
    /\ conclude(u, "exists", listing)
    /\ UNCHANGED serverVars

\* AsyncSemaphore.acquire, for the request that is sent next.
send(u) ==
    LET full == active >= MaxConcurrentUploads
        r == CHOOSE x \in RequestIds : requests[x] = NoRequest
    IN  /\ u.at = "asking" /\ ~(u.used = None /\ taken(u.item, None))
        /\ full => Len(waiters) < MaxQueuedUploads
        /\ NoRequest \in {requests[x] : x \in RequestIds}   \* bound: RequestIds
        /\ requests' = [requests EXCEPT ![r] =
               [NoRequest EXCEPT !.at = IF full THEN "waiting" ELSE "serving",
                                 !.item = u.item, !.used = u.used]]
        /\ active' = IF full THEN active ELSE active + 1
        /\ waiters' = IF full THEN Append(waiters, r) ELSE waiters
        /\ runs' = (runs \ {u}) \cup {[u EXCEPT !.at = "sent", !.request = r]}
        /\ UNCHANGED <<rows, pending, inFlight, registered, choice, watched, subfolder,
                       listing, landed>>

\* "Storage service is busy; retry later".
refusedBusy(u) ==
    /\ u.at = "asking" /\ ~(u.used = None /\ taken(u.item, None))
    /\ active >= MaxConcurrentUploads /\ Len(waiters) >= MaxQueuedUploads
    /\ conclude(u, "failed", listing)
    /\ UNCHANGED serverVars

\* The intent, the request or its answer is lost; the server does not hear of it,
\* and a request that waits finds its file cut short.
lose(u) ==
    /\ u.at \in {"asking", "sent"}
    /\ conclude(u, "failed", listing)
    /\ requests' = IF u.at = "sent" /\ requests[u.request].at = "waiting"
                   THEN [requests EXCEPT ![u.request].cut = TRUE] ELSE requests
    /\ UNCHANGED <<active, waiters, listing, landed>>

\* Fault: the slot of a request is not counted down when it goes to the next.
releaseLeaks(r) ==
    /\ IF waiters = <<>> THEN active' = active - 1 /\ waiters' = waiters
       ELSE active' = active + 1 /\ waiters' = Tail(waiters)
    /\ requests' = [q \in RequestIds |->
           IF q = r THEN NoRequest
           ELSE IF waiters # <<>> /\ q = Head(waiters) THEN [requests[q] EXCEPT !.at = "serving"]
           ELSE requests[q]]

\* AsyncSemaphore.release: the slot goes to the first that waits.
release(r) ==
    /\ active' = IF waiters = <<>> THEN active - 1 ELSE active - 1 + 1
    /\ waiters' = IF waiters = <<>> THEN waiters ELSE Tail(waiters)
    /\ requests' = [q \in RequestIds |->
           IF q = r THEN NoRequest
           ELSE IF waiters # <<>> /\ q = Head(waiters) THEN [requests[q] EXCEPT !.at = "serving"]
           ELSE requests[q]]

\* handleUpload ends, and answers whoever still listens.
answer(r, outcome, names) ==
    /\ release(r)
    /\ listing' = names
    /\ IF \E u \in runs : u.request = r
       THEN conclude(CHOOSE u \in runs : u.request = r, outcome, names)
       ELSE /\ rows' = proven(rows, names)
            /\ UNCHANGED <<runs, pending, inFlight, registered, choice, watched, subfolder>>

\* claimUpload settles the name: its own if that is free, or is to be replaced.
claimName(r) ==
    LET met == taken(requests[r].item, r)
    IN  /\ requests[r].at = "serving"
        /\ IF requests[r].used = None /\ met
           THEN answer(r, "exists", listing) /\ UNCHANGED landed
           ELSE /\ requests' = [requests EXCEPT ![r] =
                       [@ EXCEPT !.at = "claimed", !.renamed = requests[r].used = "rename" /\ met]]
                /\ UNCHANGED <<clientVars, active, waiters, listing, landed>>

\* completeUpload finds the settled name free, or refuses unless it is to replace.
land(r) ==
    LET i == requests[r].item
        n == NameOf[i]
        listed == i \notin InSubfolder /\ ~requests[r].renamed
    IN  /\ requests[r].at = "claimed" /\ ~requests[r].cut
        /\ IF listed /\ requests[r].used # "replace" /\ listing[n] # None
           THEN answer(r, "exists", listing) /\ UNCHANGED landed
           ELSE /\ answer(r, "ok", IF listed THEN [listing EXCEPT ![n] = i] ELSE listing)
                /\ landed' = landed \cup {i}

\* The name it was renamed to has been taken by somebody else since.
newNameTaken(r) ==
    /\ requests[r].at = "claimed" /\ requests[r].renamed /\ ~requests[r].cut
    /\ answer(r, "exists", listing)
    /\ UNCHANGED landed

serveFails(r) ==
    /\ requests[r].at \in {"serving", "claimed"}
    /\ answer(r, "failed", listing)
    /\ UNCHANGED landed

-----------------------------------------------------------------------------
\* resolveTransferConflict, for the parked rows of is.
resolved(is, p) ==
    /\ rows' = proven([i \in Items |-> IF i \in is THEN [NoRow EXCEPT !.status = "queued"]
                                       ELSE rows[i]], listing)
    /\ pending' = [b \in Batches |-> pending[b] \o
           SetToSeq({[item |-> i, policy |-> p] : i \in is \cap itemsOf(b)})]

resolve(i, p) ==
    /\ i \in withStatus("conflict") /\ resolved({i}, p)
    /\ UNCHANGED <<runs, inFlight, registered, choice, watched, subfolder, serverVars>>

heard(c) == [b \in Batches |-> IF b \in registered THEN c ELSE choice[b]]

resolveAllTransferConflicts(p) ==
    /\ rows # [i \in Items |-> NoRow]
    /\ choice' = heard(p) /\ resolved(withStatus("conflict"), p)
    /\ choice' # choice \/ withStatus("conflict") # {}
    /\ UNCHANGED <<runs, inFlight, registered, watched, subfolder, serverVars>>

skipAllTransferConflicts ==
    /\ choice' = heard("skip")
    /\ choice' # choice \/ withStatus("conflict") # {}
    /\ rows' = [i \in Items |-> IF i \in withStatus("conflict")
                                THEN [NoRow EXCEPT !.status = "gone"] ELSE rows[i]]
    /\ UNCHANGED <<runs, pending, inFlight, registered, watched, subfolder, serverVars>>

\* A retry runs at once, beside the queue.
retryTransfer(i) ==
    /\ i \in withStatus("error")
    /\ rows' = [rows EXCEPT ![i].status = "active"]
    /\ runs' = runs \cup {newRun(i, rows[i].policy, FALSE)}
    /\ UNCHANGED <<pending, inFlight, registered, choice, watched, subfolder, serverVars>>

clearFinishedTransfers ==
    /\ rows' = [i \in Items |-> IF transferFinished(rows[i])
                                THEN [NoRow EXCEPT !.status = "gone"] ELSE rows[i]]
    /\ UNCHANGED <<runs, pending, inFlight, registered, choice, watched, subfolder, serverVars>>

\* Somebody else's file takes a name, or goes.
othersChange(n) ==
    /\ listing' = [listing EXCEPT ![n] = IF @ = None THEN "other" ELSE None]
    /\ rows' = proven(rows, listing')
    /\ UNCHANGED <<runs, pending, inFlight, registered, choice, watched, subfolder,
                   requests, active, waiters, landed>>
=============================================================================
