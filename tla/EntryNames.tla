----------------------------- MODULE EntryNames -----------------------------
(***************************************************************************)
(* src/convex/lib/entryNames.ts: which name a file gets when it lands in a *)
(* folder.  Image galleries hold one ready entry per name; uploads past    *)
(* their claim and moves that are queued or running reserve theirs.        *)
(***************************************************************************)
EXTENDS Catalog

readyEntriesNamed(folder, name, excluded) ==
    {e \in EntryIds \ {excluded} : /\ Ready(e)
                                   /\ entries[e].folder = folder
                                   /\ entries[e].name = name}

findReadyEntryByNameKey(folder, name, excluded) ==
    IF readyEntriesNamed(folder, name, excluded) = {} THEN None
    ELSE CHOOSE e \in readyEntriesNamed(folder, name, excluded) : TRUE

\* targetName ?? entry.name; a purged entry has no name left.
landingName(job) ==
    IF job.target # None THEN job.target ELSE entries[job.entry].name

\* Fault: uploads past their claim reserve nothing.
reservedByMoves(folder, exceptIntent, exceptJob) ==
    {landingName(moveJobs[j]) : j \in {x \in MoveJobIds \ {exceptJob} :
        moveJobs[x].status \in {"queued", "processing"} /\ moveJobs[x].folder = folder}}

reservedNameKeys(folder, exceptIntent, exceptJob) ==
    {intents[i].resolved : i \in {x \in IntentIds \ {exceptIntent} :
        intents[x].state = "uploading" /\ intents[x].folder = folder}}
    \cup
    {landingName(moveJobs[j]) : j \in {x \in MoveJobIds \ {exceptJob} :
        moveJobs[x].status \in {"queued", "processing"} /\ moveJobs[x].folder = folder}}

nameTaken(folder, name, reserved, excluded) ==
    \/ name \in reserved
    \/ findReadyEntryByNameKey(folder, name, excluded) # None

\* The first free "name (n)", as a set: empty when all attempts are taken.
pickAvailableName(folder, name, reserved, excluded) ==
    LET taken(n) == nameTaken(folder, autoRenamedFileName(name, n), reserved, excluded)
    IN {autoRenamedFileName(name, n) : n \in {m \in 2..MaxRenameAttempts :
            ~taken(m) /\ \A k \in 2..(m - 1) : taken(k)}}

\* The name a file lands under, as a set: empty when the code throws.
resolveLandingName(folder, name, policy, reserved, excluded) ==
    IF Kind[GalleryOf[folder]] # "image" THEN {name}
    ELSE IF ~nameTaken(folder, name, reserved, excluded) THEN {name}
    ELSE CASE policy = "ask"     -> {}              \* entry_exists
           [] policy = "replace" -> {name}
           [] policy = "rename"  -> pickAvailableName(folder, name, reserved, excluded)

=============================================================================
