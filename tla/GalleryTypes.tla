---------------------------- MODULE GalleryTypes ----------------------------
(***************************************************************************)
(* Gallery keeps its tables typed, for every value of its constants.  The  *)
(* type the tables are declared with is not inductive: a claim reads the   *)
(* key of a row, an upload lands under the name its intent was claimed     *)
(* with.  So TypeInv says which fields a row in use has, and whom it       *)
(* belongs to; one lemma per action shows that it is kept.                 *)
(***************************************************************************)
EXTENDS Gallery, TLAPS, FiniteSetTheorems

(***************************************************************************)
(* The rows as the mutations keep them: a row that is in use has all the   *)
(* fields its users read.                                                  *)
(***************************************************************************)
EntryRow == {r \in Entry : r.state \in {"ready", "deleted"} =>
    r.folder \in Folders /\ r.name \in Names /\ r.content \in Contents /\ r.key \in Keys}

IntentRow == {r \in Intent :
    /\ r.state # "absent" =>
          r.folder \in Folders /\ r.name \in Names /\ r.content \in Contents
    /\ r.state = "uploading" => r.resolved \in Names}

DeleteRow == {r \in DeleteJob : r.status # "absent" => r.entry \in EntryIds /\ r.key \in Keys}

MoveRow == {r \in MoveJob : r.status # "absent" =>
    /\ r.entry \in EntryIds /\ r.source \in Galleries /\ r.folder \in Folders
    /\ r.expected \in Keys /\ r.op \in OperationIds}

OperationRow == {r \in Operation :
    /\ r.status = "absent" => r.conflicts = 0 /\ ~r.apply
    /\ r.status # "absent" => r.source \in Folders /\ (r.kind = "move" => r.folder \in Folders)}

HandlerRow == {r \in Handler : r.pc # "idle" => r.intent \in IntentIds /\ r.name \in Names}

Deleting == {"unlinking", "unlinked", "deleteFailing"}

Moving == {"copying", "writing", "copied", "reporting", "moveFailing"}

WorkerRow == {r \in Worker :
    /\ r.pc \in Deleting => r.job \in DeleteJobIds /\ r.key \in Keys
    /\ r.pc \in Moving => /\ r.job \in MoveJobIds /\ r.key \in Keys
                          /\ r.dest \in Keys /\ r.content \in Contents}

Rows ==
    /\ galleries \in [Galleries -> GalleryRow]
    /\ entries \in [EntryIds -> EntryRow]
    /\ intents \in [IntentIds -> IntentRow]
    /\ deleteJobs \in [DeleteJobIds -> DeleteRow]
    /\ moveJobs \in [MoveJobIds -> MoveRow]
    /\ operations \in [OperationIds -> OperationRow]
    /\ files \in [Keys -> Contents \cup {None}]
    /\ handlers \in [Handlers -> HandlerRow]
    /\ workers \in [Workers -> WorkerRow]

\* A request serves an intent there is, a move belongs to an operation that moves.
Served == \A h \in Handlers : handlers[h].pc # "idle" =>
              intents[handlers[h].intent].state # "absent"

Owned == \A j \in MoveJobIds : moveJobs[j].status # "absent" =>
              /\ operations[moveJobs[j].op].status # "absent"
              /\ operations[moveJobs[j].op].kind = "move"

TypeInv == Rows /\ Served /\ Owned

(***************************************************************************)
(* Sums                                                                    *)
(***************************************************************************)

\* A family of subsets of a finite set has a least member.
LEMMA LeastSubset ==
    ASSUME NEW S, IsFiniteSet(S), NEW F, F \subseteq SUBSET S, F # {}
    PROVE  \E s \in F : \A t \in F : t \subseteq s => t = s
<1>1. F \subseteq FiniteSubsetsOf(S)
  BY FS_Subset DEF FiniteSubsetsOf
<1>2. PICK s \in F : \A t \in F : ~(<<t, s>> \in StrictSubsetOrdering(S))
  BY <1>1, FS_StrictSubsetOrderingWellFounded, WFMin
<1>3. ASSUME NEW t \in F, t \subseteq s PROVE t = s
  BY <1>2, <1>3 DEF StrictSubsetOrdering
<1> QED BY <1>3

\* The bytes of the files in S, the fold by which statistics are stated ...
bytesIn(rows, S) == MapThenSumSet(LAMBDA e : Size[rows[e].content], S)

firstFile(s) == CHOOSE x \in s : TRUE

\* ... and the function it recurses by.
SumsUp(rows, S, it) ==
    it = [s \in SUBSET S |->
            IF s = {} THEN 0 ELSE Size[rows[firstFile(s)].content] + it[s \ {firstFile(s)}]]

\* Two of them agree where both are defined.
LEMMA SumsAgree ==
    ASSUME NEW rows, NEW S, IsFiniteSet(S), NEW T, T \subseteq S,
           NEW it, SumsUp(rows, S, it), NEW jt, SumsUp(rows, T, jt)
    PROVE  \A s \in SUBSET T : it[s] = jt[s]
<1> DEFINE F == {s \in SUBSET T : it[s] # jt[s]}
<1> SUFFICES ASSUME F # {} PROVE FALSE
  OBVIOUS
<1>1. IsFiniteSet(T)
  BY FS_Subset
<1>2. PICK s \in F : \A t \in F : t \subseteq s => t = s
  <2>1. F \subseteq SUBSET T
    OBVIOUS
  <2> HIDE DEF F
  <2> QED BY <1>1, <2>1, LeastSubset
<1>3. s \in SUBSET T /\ s \in SUBSET S /\ it[s] # jt[s]
  BY <1>2
<1>4. CASE s = {}
  BY <1>3, <1>4 DEF SumsUp
<1>5. CASE s # {}
  <2>1. firstFile(s) \in s
    BY <1>5 DEF firstFile
  <2>2. s \ {firstFile(s)} \in SUBSET T /\ s \ {firstFile(s)} # s
    BY <1>3, <2>1
  <2>3. it[s \ {firstFile(s)}] = jt[s \ {firstFile(s)}]
    BY <1>2, <2>2
  <2>4. it[s] = Size[rows[firstFile(s)].content] + it[s \ {firstFile(s)}]
    BY <1>3, <1>5 DEF SumsUp
  <2>5. jt[s] = Size[rows[firstFile(s)].content] + jt[s \ {firstFile(s)}]
    BY <1>3, <1>5 DEF SumsUp
  <2> QED BY <1>3, <2>3, <2>4, <2>5
<1> QED BY <1>4, <1>5

\* There is one on every finite set.
LEMMA SumsExist ==
    ASSUME NEW rows, NEW S, IsFiniteSet(S)
    PROVE  \E it : SumsUp(rows, S, it)
<1> DEFINE F == {T \in SUBSET S : ~\E it : SumsUp(rows, T, it)}
<1> SUFFICES ASSUME F # {} PROVE FALSE
  OBVIOUS
<1>1. PICK T \in F : \A U \in F : U \subseteq T => U = T
  <2>1. F \subseteq SUBSET S
    OBVIOUS
  <2> HIDE DEF F
  <2> QED BY <2>1, LeastSubset
<1>2. T \in SUBSET S /\ ~\E it : SumsUp(rows, T, it)
  BY <1>1
<1>3. \A U \in SUBSET T : IsFiniteSet(U)
  BY <1>2, FS_Subset
<1> DEFINE sum(U)  == CHOOSE it : SumsUp(rows, U, it)
           it      == [s \in SUBSET T |-> IF s = {} THEN 0
                          ELSE Size[rows[firstFile(s)].content]
                               + sum(s \ {firstFile(s)})[s \ {firstFile(s)}]]
<1>4. \A U \in SUBSET T : U # T => SumsUp(rows, U, sum(U))
  BY <1>1, <1>2
<1>5. \A s : s # {} => firstFile(s) \in s
  BY DEF firstFile
<1> HIDE DEF F, sum
<1>6. ASSUME NEW s \in SUBSET T, s # T
      PROVE  it[s] = sum(s)[s]
  <2>1. SumsUp(rows, s, sum(s)) /\ s \in SUBSET s
    BY <1>4, <1>6
  <2>2. CASE s = {}
    BY <2>1, <2>2 DEF SumsUp
  <2>3. CASE s # {}
    <3> DEFINE u == s \ {firstFile(s)}
    <3>1. u \in SUBSET T /\ u # T /\ u \subseteq s /\ u \in SUBSET u
      BY <1>5, <1>6, <2>3
    <3>2. SumsUp(rows, u, sum(u))
      BY <1>4, <3>1
    <3> HIDE DEF u
    <3>3. sum(s)[u] = sum(u)[u]
      <4>1. IsFiniteSet(s)
        BY <1>3, <1>6
      <4>2. \A v \in SUBSET u : sum(s)[v] = sum(u)[v]
        BY <2>1, <3>1, <3>2, <4>1, SumsAgree
      <4> QED BY <3>1, <4>2
    <3>4. sum(s)[s] = Size[rows[firstFile(s)].content] + sum(s)[u]
      BY <2>1, <2>3 DEF SumsUp, u
    <3>5. it[s] = Size[rows[firstFile(s)].content] + sum(u)[u]
      BY <2>3 DEF u
    <3> QED BY <3>3, <3>4, <3>5
  <2> QED BY <2>2, <2>3
<1>7. SumsUp(rows, T, it)
  <2>1. \A s \in SUBSET T : s # {} => s \ {firstFile(s)} \in SUBSET T /\ s \ {firstFile(s)} # T
    BY <1>5
  <2>2. \A s \in SUBSET T : s # {} =>
           it[s \ {firstFile(s)}] = sum(s \ {firstFile(s)})[s \ {firstFile(s)}]
    BY <1>6, <2>1
  <2>3. \A s \in SUBSET T :
           it[s] = IF s = {} THEN 0 ELSE Size[rows[firstFile(s)].content] + it[s \ {firstFile(s)}]
    BY <2>2
  <2>4. it = [s \in SUBSET T |-> it[s]]
    OBVIOUS
  <2> HIDE DEF it
  <2> QED BY <2>3, <2>4 DEF SumsUp
<1> QED BY <1>2, <1>7

\* Nothing has no bytes; any other set is summed up from the file picked first.
LEMMA BytesPicked ==
    ASSUME NEW rows, NEW S, IsFiniteSet(S)
    PROVE  bytesIn(rows, S) =
              IF S = {} THEN 0
              ELSE Size[rows[firstFile(S)].content] + bytesIn(rows, S \ {firstFile(S)})
<1> DEFINE sum(T) == CHOOSE it : SumsUp(rows, T, it)
           U == S \ {firstFile(S)}
<1>1. \A T : bytesIn(rows, T) = sum(T)[T]
  BY DEF bytesIn, MapThenSumSet, MapThenFoldSet, SumsUp, firstFile
<1>2. IsFiniteSet(U)
  BY FS_RemoveElement
<1>3. SumsUp(rows, S, sum(S)) /\ SumsUp(rows, U, sum(U))
  BY <1>2, SumsExist
<1>4. U \subseteq S /\ U \in SUBSET U /\ S \in SUBSET S
  OBVIOUS
<1> HIDE DEF sum, U
<1>5. sum(S)[U] = sum(U)[U]
  BY <1>3, <1>4, SumsAgree
<1>6. sum(S)[S] = IF S = {} THEN 0 ELSE Size[rows[firstFile(S)].content] + sum(S)[U]
  BY <1>3, <1>4 DEF SumsUp, U
<1> QED BY <1>1, <1>5, <1>6 DEF U

SizesIn(rows, S) == \A e \in S : Size[rows[e].content] \in Nat

\* The bytes of files that have sizes are a number.
LEMMA BytesType ==
    ASSUME NEW rows, NEW S, IsFiniteSet(S), SizesIn(rows, S)
    PROVE  bytesIn(rows, S) \in Nat
<1> DEFINE F == {T \in SUBSET S : bytesIn(rows, T) \notin Nat}
<1> SUFFICES ASSUME F # {} PROVE FALSE
  OBVIOUS
<1>1. PICK T \in F : \A U \in F : U \subseteq T => U = T
  <2>1. F \subseteq SUBSET S
    OBVIOUS
  <2> HIDE DEF F
  <2> QED BY <2>1, LeastSubset
<1>2. IsFiniteSet(T) /\ T \in SUBSET S
  BY FS_Subset
<1>3. CASE T = {}
  <2>1. bytesIn(rows, T) = 0
    BY <1>2, <1>3, BytesPicked
  <2> QED BY <2>1
<1>4. CASE T # {}
  <2>1. firstFile(T) \in T
    BY <1>4 DEF firstFile
  <2>2. bytesIn(rows, T \ {firstFile(T)}) \in Nat
    BY <1>1, <2>1
  <2>3. Size[rows[firstFile(T)].content] \in Nat
    BY <1>2, <2>1 DEF SizesIn
  <2>4. bytesIn(rows, T) = Size[rows[firstFile(T)].content] + bytesIn(rows, T \ {firstFile(T)})
    BY <1>2, <1>4, BytesPicked
  <2>5. bytesIn(rows, T) \in Nat
    BY <2>2, <2>3, <2>4
  <2> QED BY <2>5
<1> QED BY <1>3, <1>4

\* Any file can be taken out first.
LEMMA BytesWithout ==
    ASSUME NEW rows, NEW S, IsFiniteSet(S), SizesIn(rows, S), NEW x \in S
    PROVE  bytesIn(rows, S) = Size[rows[x].content] + bytesIn(rows, S \ {x})
<1> DEFINE F == {T \in SUBSET S : \E y \in T :
                    bytesIn(rows, T) # Size[rows[y].content] + bytesIn(rows, T \ {y})}
<1> SUFFICES ASSUME F # {} PROVE FALSE
  OBVIOUS
<1>1. PICK T \in F : \A U \in F : U \subseteq T => U = T
  <2>1. F \subseteq SUBSET S
    OBVIOUS
  <2> HIDE DEF F
  <2> QED BY <2>1, LeastSubset
<1>2. PICK y \in T : bytesIn(rows, T) # Size[rows[y].content] + bytesIn(rows, T \ {y})
  OBVIOUS
<1> DEFINE p == firstFile(T)
<1>3. /\ T \in SUBSET S /\ p \in T
      /\ IsFiniteSet(T) /\ IsFiniteSet(T \ {y}) /\ IsFiniteSet((T \ {p}) \ {y})
  BY FS_Subset, FS_RemoveElement DEF firstFile
<1>4. bytesIn(rows, T) = Size[rows[p].content] + bytesIn(rows, T \ {p})
  BY <1>3, BytesPicked
<1>5. p # y
  BY <1>2, <1>4
<1>6. /\ bytesIn(rows, T \ {p}) = Size[rows[y].content] + bytesIn(rows, (T \ {p}) \ {y})
      /\ bytesIn(rows, T \ {y}) = Size[rows[p].content] + bytesIn(rows, (T \ {y}) \ {p})
  <2>1. T \ {p} \notin F /\ T \ {y} \notin F
    BY <1>1, <1>3
  <2>2. y \in T \ {p} /\ p \in T \ {y} /\ T \ {p} \in SUBSET S /\ T \ {y} \in SUBSET S
    BY <1>3, <1>5
  <2> HIDE DEF p
  <2> QED BY <2>1, <2>2
<1>7. (T \ {p}) \ {y} = (T \ {y}) \ {p}
  OBVIOUS
<1>8. bytesIn(rows, (T \ {p}) \ {y}) \in Nat
  <2>1. SizesIn(rows, (T \ {p}) \ {y})
    BY <1>3 DEF SizesIn
  <2> QED BY <1>3, <2>1, BytesType
<1>9. Size[rows[p].content] \in Nat /\ Size[rows[y].content] \in Nat
  BY <1>3 DEF SizesIn
<1> HIDE DEF p, F
<1>10. /\ bytesIn(rows, T) = Size[rows[p].content]
                             + (Size[rows[y].content] + bytesIn(rows, (T \ {p}) \ {y}))
       /\ bytesIn(rows, T \ {y}) = Size[rows[p].content] + bytesIn(rows, (T \ {p}) \ {y})
  BY <1>4, <1>6, <1>7
<1>11. ASSUME NEW a \in Nat, NEW b \in Nat, NEW c \in Nat PROVE a + (b + c) = b + (a + c)
  OBVIOUS
<1> QED BY <1>2, <1>8, <1>9, <1>10, <1>11

\* Only the sizes of the files in S count.
LEMMA BytesSame ==
    ASSUME NEW rows, NEW more, NEW S, IsFiniteSet(S),
           \A e \in S : Size[rows[e].content] = Size[more[e].content]
    PROVE  bytesIn(rows, S) = bytesIn(more, S)
<1> DEFINE F == {T \in SUBSET S : bytesIn(rows, T) # bytesIn(more, T)}
<1> SUFFICES ASSUME F # {} PROVE FALSE
  OBVIOUS
<1>1. PICK T \in F : \A U \in F : U \subseteq T => U = T
  <2>1. F \subseteq SUBSET S
    OBVIOUS
  <2> HIDE DEF F
  <2> QED BY <2>1, LeastSubset
<1>2. IsFiniteSet(T) /\ T \in SUBSET S
  BY FS_Subset
<1>3. T # {}
  <2>1. CASE T = {}
    <3>1. bytesIn(rows, T) = 0 /\ bytesIn(more, T) = 0
      BY <1>2, <2>1, BytesPicked
    <3> QED BY <3>1
  <2> QED BY <2>1
<1>4. firstFile(T) \in T
  BY <1>3 DEF firstFile
<1>5. bytesIn(rows, T \ {firstFile(T)}) = bytesIn(more, T \ {firstFile(T)})
  BY <1>1, <1>4
<1>6. /\ bytesIn(rows, T) = Size[rows[firstFile(T)].content] + bytesIn(rows, T \ {firstFile(T)})
      /\ bytesIn(more, T) = Size[more[firstFile(T)].content] + bytesIn(more, T \ {firstFile(T)})
  BY <1>2, <1>3, BytesPicked
<1>7. Size[rows[firstFile(T)].content] = Size[more[firstFile(T)].content]
  BY <1>2, <1>4
<1>8. bytesIn(rows, T) = bytesIn(more, T)
  BY <1>5, <1>6, <1>7
<1> QED BY <1>8

(***************************************************************************)
(* Operators                                                               *)
(***************************************************************************)

\* A storage key is built from the folder, the name and the content of a file.
LEMMA KeyType ==
    ASSUME NEW f \in Folders, NEW n \in Names, NEW c \in Contents
    PROVE  buildStorageKey(f, n, c) \in Keys
BY DEF Keys

\* None stands for no row, no name and no key.
LEMMA NoneType == /\ None \notin EntryIds /\ None \notin IntentIds /\ None \notin DeleteJobIds
                  /\ None \notin MoveJobIds /\ None \notin OperationIds
                  /\ None \notin Folders /\ None \notin Galleries /\ None \notin Contents
                  /\ None \notin Names /\ None \notin Keys
BY CatalogAssumption, NoneIsNoName, NoneIsNoKey

\* adjustGalleryStats never leaves a negative count behind.
LEMMA StatsType ==
    ASSUME NEW table \in [Galleries -> GalleryRow], NEW g \in Galleries,
           NEW items \in Int, NEW bytes \in Int
    PROVE  adjustGalleryStats(table, g, items, bytes) \in [Galleries -> GalleryRow]
<1>1. \A n \in Int : AtLeastZero(n) \in Nat
  BY DEF AtLeastZero
<1>2. AtLeastZero(table[g].itemCount + items) \in Nat /\ AtLeastZero(table[g].totalBytes + bytes) \in Nat
  <2>1. table[g].itemCount + items \in Int /\ table[g].totalBytes + bytes \in Int
    BY DEF GalleryRow
  <2> QED BY <1>1, <2>1
<1> QED BY <1>2 DEF adjustGalleryStats, GalleryRow

\* findReadyEntryByNameKey finds a ready entry of that name whenever there is one.
LEMMA FindReady ==
    ASSUME NEW f, NEW n, NEW x
    PROVE  LET e == findReadyEntryByNameKey(f, n, x)
           IN  IF e = None THEN readyEntriesNamed(f, n, x) = {}
               ELSE e \in readyEntriesNamed(f, n, x)
BY NoneType DEF findReadyEntryByNameKey, readyEntriesNamed

\* A file that lands gets one of the names there are.
LEMMA LandingType ==
    ASSUME NEW f, NEW n \in Names, NEW p \in Policies, NEW reserved, NEW x
    PROVE  /\ resolveLandingName(f, n, p, reserved, x) \subseteq Names
           /\ pickAvailableName(f, n, reserved, x) \subseteq Names
<1>1. pickAvailableName(f, n, reserved, x) \subseteq Names
  <2> SUFFICES ASSUME NEW y \in pickAvailableName(f, n, reserved, x) PROVE y \in Names
    OBVIOUS
  <2>1. PICK m \in 2..MaxRenameAttempts : y = <<n[1], m>>
    BY DEF pickAvailableName, autoRenamedFileName
  <2>2. n[1] \in Stems /\ m \in 1..MaxRenameAttempts
    BY CatalogAssumption DEF Names
  <2> QED BY <2>1, <2>2 DEF Names
<1> QED BY <1>1 DEF resolveLandingName, Policies

\* A queued row names the entry and the key it is about.
LEMMA QueuedDeleteType ==
    ASSUME NEW e \in EntryIds, NEW k \in Keys, NEW original \in BOOLEAN, NEW row \in BOOLEAN
    PROVE  QueuedDelete(e, k, original, row) \in DeleteRow
<1>1. NoDeleteJob \in DeleteJob
  BY CatalogAssumption DEF NoDeleteJob, DeleteJob
<1> QED BY <1>1 DEF QueuedDelete, DeleteRow, DeleteJob

\* A lease says nothing about the rest of its row.
LEMMA LeaseType ==
    ASSUME NEW b \in BOOLEAN
    PROVE  /\ \A r \in IntentRow : [r EXCEPT !.lapsed = b] \in IntentRow
           /\ \A r \in DeleteRow : [r EXCEPT !.lapsed = b] \in DeleteRow
           /\ \A r \in MoveRow : [r EXCEPT !.lapsed = b] \in MoveRow
<1>1. \A r \in IntentRow : [r EXCEPT !.lapsed = b] \in IntentRow
  BY DEF IntentRow, Intent
<1>2. \A r \in DeleteRow : [r EXCEPT !.lapsed = b] \in DeleteRow
  BY DEF DeleteRow, DeleteJob
<1>3. \A r \in MoveRow : [r EXCEPT !.lapsed = b] \in MoveRow
  BY DEF MoveRow, MoveJob
<1> QED BY <1>1, <1>2, <1>3

\* Every status that is computed is one of those there are.
LEMMA CountedType ==
    ASSUME NEW op \in OperationRow, op.status # "absent"
    PROVE  /\ counted(op) \in OperationRow
           /\ counted(op).status # "absent"
           /\ counted(op).kind = op.kind
BY DEF counted, operationStatus, OperationRow, Operation

\* Init has no rows but the seeds.
LEMMA InitType == Init => TypeInv
<1> SUFFICES ASSUME Init PROVE TypeInv
  OBVIOUS
<1> USE NoneType DEF Init
<1>1. galleries \in [Galleries -> GalleryRow]
  <2> SUFFICES ASSUME NEW g \in Galleries
               PROVE  Cardinality(seedsOf(g)) \in Nat /\ seedBytes(g) \in Nat
    BY DEF GalleryRow
  <2>1. IsFiniteSet(seedsOf(g)) /\ SizesIn(Seeds, seedsOf(g))
    BY CatalogAssumption, SeedsAssumption, FS_Subset DEF seedsOf, SizesIn
  <2>2. seedBytes(g) = bytesIn(Seeds, seedsOf(g))
    BY DEF seedBytes, bytesIn
  <2> QED BY <2>1, <2>2, BytesType, FS_CardinalityType
<1>2. entries \in [EntryIds -> EntryRow]
  <2> SUFFICES ASSUME NEW e \in EntryIds PROVE entries[e] \in EntryRow
    OBVIOUS
  <2>1. CASE e \in DOMAIN Seeds
    <3>1. Seeds[e] \in [folder : Folders, name : Names, content : Contents]
      BY <2>1, SeedsAssumption
    <3>2. seedKey(e) \in Keys
      BY <3>1, KeyType DEF seedKey
    <3> QED BY <2>1, <3>1, <3>2 DEF EntryRow, Entry
  <2>2. CASE e \notin DOMAIN Seeds
    BY <2>2 DEF EntryRow, Entry, Blank
  <2> QED BY <2>1, <2>2
<1>3. files \in [Keys -> Contents \cup {None}]
  <2> SUFFICES ASSUME NEW k \in Keys PROVE files[k] \in Contents \cup {None}
    OBVIOUS
  <2>1. CASE \E e \in DOMAIN Seeds : seedKey(e) = k
    <3> DEFINE e == CHOOSE x \in DOMAIN Seeds : seedKey(x) = k
    <3>1. e \in DOMAIN Seeds
      BY <2>1
    <3>2. Seeds[e].content \in Contents
      BY <3>1, SeedsAssumption
    <3> QED BY <2>1, <3>2
  <2>2. CASE ~\E e \in DOMAIN Seeds : seedKey(e) = k
    BY <2>2
  <2> QED BY <2>1, <2>2
<1>4. intents \in [IntentIds -> IntentRow]
  BY DEF NoIntent, IntentRow, Intent, Policies
<1>5. deleteJobs \in [DeleteJobIds -> DeleteRow]
  BY CatalogAssumption DEF NoDeleteJob, DeleteRow, DeleteJob
<1>6. moveJobs \in [MoveJobIds -> MoveRow]
  BY CatalogAssumption DEF NoMoveJob, MoveRow, MoveJob, Policies
<1>7. operations \in [OperationIds -> OperationRow]
  BY DEF NoOperation, OperationRow, Operation, Policies
<1>8. handlers \in [Handlers -> HandlerRow]
  BY DEF IdleHandler, HandlerRow, Handler
<1>9. workers \in [Workers -> WorkerRow]
  BY DEF IdleWorker, WorkerRow, Worker, Deleting, Moving
<1>10. Served /\ Owned
  BY DEF Served, Owned, IdleHandler, NoMoveJob
<1> QED BY <1>1, <1>2, <1>3, <1>4, <1>5, <1>6, <1>7, <1>8, <1>9, <1>10 DEF TypeInv, Rows

(***************************************************************************)
(* Uploads                                                                 *)
(***************************************************************************)

\* An upload that lands makes a whole row of its entry.
LEMMA LandedType ==
    ASSUME Rows, NEW i \in IntentIds, intents[i].state = "uploading",
           NEW key \in Keys, NEW m \in MoveJobIds \cup {None}
    PROVE  landedEntry(i, key, m) \in EntryRow
BY DEF Rows, landedEntry, EntryRow, Entry, IntentRow, Intent

\* The file a request installs, removes a replaced file after or reports has a
\* storage key of the catalog.
LEMMA KeyOfType ==
    ASSUME TypeInv, NEW h \in Handlers, handlers[h].pc # "idle"
    PROVE  /\ handlers[h].intent \in IntentIds
           /\ intents[handlers[h].intent].state # "absent"
           /\ intents[handlers[h].intent].content \in Contents
           /\ keyOf(h) \in Keys
<1>1. /\ handlers[h].intent \in IntentIds /\ handlers[h].name \in Names
      /\ intents[handlers[h].intent].state # "absent"
  BY DEF TypeInv, Rows, Served, HandlerRow
<1>2. /\ intents[handlers[h].intent].folder \in Folders
      /\ intents[handlers[h].intent].content \in Contents
  BY <1>1 DEF TypeInv, Rows, IntentRow
<1> QED BY <1>1, <1>2, KeyType DEF keyOf

\* Unlinking a replaced file leaves the storage root a table of files.
LEMMA RemoveReplacedType ==
    ASSUME files \in [Keys -> Contents \cup {None}], NEW r, NEW k, removeReplacedFile(r, k)
    PROVE  files' \in [Keys -> Contents \cup {None}]
BY DEF removeReplacedFile

\* The replaced file of a claim is one of the catalog's.
LEMMA ReplacedKeyType ==
    ASSUME Rows, NEW f, NEW n, NEW x, NEW p
    PROVE  replacedKey(f, findReadyEntryByNameKey(f, n, x), p) \in Keys \cup {None}
<1> DEFINE e == findReadyEntryByNameKey(f, n, x)
<1>1. CASE e = None
  BY <1>1 DEF replacedKey
<1>2. CASE e # None
  <2>1. e \in EntryIds /\ entries[e].state = "ready"
    BY <1>2, FindReady DEF readyEntriesNamed, Ready
  <2> QED BY <2>1 DEF Rows, EntryRow, replacedKey
<1> QED BY <1>1, <1>2

\* A new intent has a folder, a name and a content.
LEMMA CreateUploadIntentType ==
    ASSUME TypeInv, NEW i \in IntentIds, NEW f \in Folders, NEW s \in Stems,
           NEW p \in Policies, NEW c \in Contents, createUploadIntent(i, f, <<s, 1>>, p, c)
    PROVE  TypeInv'
<1>1. <<s, 1>> \in Names
  BY CatalogAssumption DEF Names
<1>2. intents' \in [IntentIds -> IntentRow]
  BY <1>1, CatalogAssumption
  DEF TypeInv, Rows, createUploadIntent, IntentRow, Intent, NoIntent
<1>3. Served'
  <2> SUFFICES ASSUME NEW h \in Handlers, handlers[h].pc # "idle"
               PROVE  intents'[handlers[h].intent].state # "absent"
    BY DEF Served, createUploadIntent
  <2> QED BY KeyOfType DEF TypeInv, Rows, createUploadIntent, NoIntent
<1> QED BY <1>2, <1>3 DEF TypeInv, Rows, Owned, createUploadIntent

\* A claim settles a name, which the request keeps.
LEMMA ClaimUploadType ==
    ASSUME TypeInv, NEW h \in Handlers, NEW i \in IntentIds, claimUpload(h, i)
    PROVE  TypeInv'
<1> DEFINE reserved == reservedNameKeys(intents[i].folder, i, None)
           replaced == replacedKey(intents[i].folder, findReadyEntryByNameKey(
                           intents[i].folder, intents[i].name, None), intents[i].policy)
<1>1. intents[i] \in IntentRow /\ intents[i].state # "absent"
  BY DEF TypeInv, Rows, claimUpload, Claimable
<1>2. PICK name \in resolveLandingName(intents[i].folder, intents[i].name,
                                       intents[i].policy, reserved, None) :
         /\ intents' = [intents EXCEPT ![i].state = "uploading", ![i].resolved = name,
                                       ![i].lapsed = FALSE]
         /\ handlers' = [handlers EXCEPT ![h] =
               [pc |-> "claimed", intent |-> i, name |-> name, replaces |-> replaced]]
  BY DEF claimUpload
<1>3. name \in Names
  BY <1>1, <1>2, LandingType DEF IntentRow, Intent
<1>4. intents' \in [IntentIds -> IntentRow]
  BY <1>1, <1>2, <1>3 DEF TypeInv, Rows, IntentRow, Intent
<1>5. replaced \in Keys \cup {None}
  BY ReplacedKeyType DEF TypeInv
<1>6. handlers' \in [Handlers -> HandlerRow]
  BY <1>2, <1>3, <1>5 DEF TypeInv, Rows, HandlerRow, Handler
<1>7. Served'
  <2> SUFFICES ASSUME NEW g \in Handlers, handlers'[g].pc # "idle"
               PROVE  intents'[handlers'[g].intent].state # "absent"
    BY DEF Served
  <2>1. CASE g = h
    BY <1>2, <2>1 DEF TypeInv, Rows
  <2>2. CASE g # h
    <3>1. handlers'[g] = handlers[g]
      BY <1>2, <2>2
    <3> QED BY <1>2, <3>1, KeyOfType DEF TypeInv, Rows
  <2> QED BY <2>1, <2>2
<1> QED BY <1>4, <1>6, <1>7 DEF TypeInv, Rows, Owned, claimUpload

\* Steps of a request that only change its own record, and perhaps files.
LEMMA InstallReplacingType ==
    ASSUME TypeInv, NEW h \in Handlers, installReplacing(h)
    PROVE  TypeInv'
<1>1. handlers' \in [Handlers -> HandlerRow]
  BY DEF TypeInv, Rows, installReplacing, HandlerRow, Handler
<1>2. files' \in [Keys -> Contents \cup {None}]
  BY KeyOfType DEF TypeInv, Rows, installReplacing
<1>3. Served'
  BY DEF TypeInv, Rows, Served, installReplacing
<1> QED BY <1>1, <1>2, <1>3 DEF TypeInv, Rows, Owned, installReplacing

\* Checking what was installed changes a file to nothing at most.
LEMMA StatInstalledType ==
    ASSUME TypeInv, NEW h \in Handlers, statInstalled(h)
    PROVE  TypeInv'
<1>1. handlers' \in [Handlers -> HandlerRow]
  BY DEF TypeInv, Rows, statInstalled, HandlerRow, Handler
<1>2. files' \in [Keys -> Contents \cup {None}]
  BY RemoveReplacedType DEF TypeInv, Rows, statInstalled
<1>3. Served'
  BY DEF TypeInv, Rows, Served, statInstalled
<1> QED BY <1>1, <1>2, <1>3 DEF TypeInv, Rows, Owned, statInstalled

\* A heartbeat touches the lease or gives the request up.
LEMMA RenewUploadType ==
    ASSUME TypeInv, NEW h \in Handlers, renewUpload(h)
    PROVE  TypeInv'
<1>1. CASE /\ intents' = [intents EXCEPT ![handlers[h].intent].lapsed = FALSE]
           /\ UNCHANGED handlers
  <2>1. intents' \in [IntentIds -> IntentRow]
    <3>1. handlers[h].pc # "idle"
      BY DEF renewUpload
    <3>2. handlers[h].intent \in IntentIds
      BY <3>1, KeyOfType
    <3>3. [intents[handlers[h].intent] EXCEPT !.lapsed = FALSE] \in IntentRow
      BY <3>2, LeaseType DEF TypeInv, Rows
    <3> QED BY <1>1, <3>3 DEF TypeInv, Rows
  <2>2. Served'
    <3> SUFFICES ASSUME NEW g \in Handlers, handlers[g].pc # "idle"
                 PROVE  intents'[handlers[g].intent].state # "absent"
      BY <1>1 DEF Served
    <3>1. handlers[g].intent \in IntentIds /\ intents[handlers[g].intent].state # "absent"
      BY KeyOfType
    <3> QED BY <1>1, <2>1, <3>1 DEF TypeInv, Rows, IntentRow, Intent
  <2> QED BY <1>1, <2>1, <2>2 DEF TypeInv, Rows, Owned, renewUpload
<1>2. CASE /\ handlers' = [handlers EXCEPT ![h].pc = "failing"]
           /\ UNCHANGED intents
  <2>1. handlers' \in [Handlers -> HandlerRow]
    BY <1>2 DEF TypeInv, Rows, renewUpload, HandlerRow, Handler
  <2>2. Served'
    BY <1>2 DEF TypeInv, Rows, Served, renewUpload
  <2> QED BY <1>2, <2>1, <2>2 DEF TypeInv, Rows, Owned, renewUpload
<1> QED BY <1>1, <1>2 DEF renewUpload

\* What an upload that lands writes: an entry, the counts and a delete job.
LEMMA InsertUploadedType ==
    ASSUME Rows, NEW i \in IntentIds, intents[i].state = "uploading", NEW key \in Keys,
           insertUploaded(i, key)
    PROVE  /\ entries' \in [EntryIds -> EntryRow]
           /\ galleries' \in [Galleries -> GalleryRow]
           /\ deleteJobs' \in [DeleteJobIds -> DeleteRow]
<1>1. PICK e \in EntryIds :
         /\ entries' = [entries EXCEPT ![e] = landedEntry(i, key, None)]
         /\ galleries' = adjustGalleryStats(galleries, GalleryOf[intents[i].folder],
                                            1, Size[intents[i].content])
         /\ UNCHANGED deleteJobs
  BY DEF insertUploaded
<1>2. landedEntry(i, key, None) \in EntryRow
  BY LandedType
<1>3. GalleryOf[intents[i].folder] \in Galleries /\ Size[intents[i].content] \in Int
  BY CatalogAssumption DEF Rows, IntentRow
<1>4. galleries' \in [Galleries -> GalleryRow]
  BY <1>1, <1>3, StatsType DEF Rows
<1> QED BY <1>1, <1>2, <1>4 DEF Rows

\* Dropping the jobs of an entry leaves a table of jobs, and so does the one it queues.
LEMMA QueueStaleFileType ==
    ASSUME Rows, NEW e \in EntryIds, entries[e].state \in {"ready", "deleted"},
           NEW key \in Keys, queueStaleFile(e, key)
    PROVE  deleteJobs' \in [DeleteJobIds -> DeleteRow]
<1>1. withoutJobsOf(e) \in [DeleteJobIds -> DeleteRow]
  BY NoneType, CatalogAssumption DEF withoutJobsOf, Rows, DeleteRow, DeleteJob, NoDeleteJob
<1>2. CASE entries[e].key = key
  BY <1>1, <1>2 DEF queueStaleFile
<1>3. CASE entries[e].key # key
  <2>1. entries[e].key \in Keys
    BY DEF Rows, EntryRow
  <2>2. keepsReplacedOriginal(GalleryOf[entries[e].folder], entries[e].key, key) \in BOOLEAN
    BY DEF keepsReplacedOriginal
  <2>3. \A original \in BOOLEAN :
           QueuedDelete(e, entries[e].key, original, FALSE) \in DeleteRow
    BY <2>1, QueuedDeleteType
  <2> DEFINE row == QueuedDelete(e, entries[e].key,
               ~keepsReplacedOriginal(GalleryOf[entries[e].folder], entries[e].key, key), FALSE)
  <2>4. row \in DeleteRow
    BY <2>2, <2>3
  <2>5. \E j \in FreeDeleteJobs : deleteJobs' = [withoutJobsOf(e) EXCEPT ![j] = row]
    BY <1>3 DEF queueStaleFile
  <2> HIDE DEF row
  <2> QED BY <1>1, <2>4, <2>5
<1> QED BY <1>2, <1>3

\* The entry an upload lands on keeps a whole row, and so does its stale file.
LEMMA ReplaceUploadedType ==
    ASSUME Rows, NEW i \in IntentIds, intents[i].state = "uploading", NEW key \in Keys,
           NEW e \in existingFor(i, key), replaceUploaded(i, key, e)
    PROVE  /\ entries' \in [EntryIds -> EntryRow]
           /\ galleries' \in [Galleries -> GalleryRow]
           /\ deleteJobs' \in [DeleteJobIds -> DeleteRow]
<1>1. e \in EntryIds /\ entries[e].state \in {"ready", "deleted"}
  BY FindReady, NoneType DEF existingFor, occupantOf, entriesAt, readyEntriesNamed, Ready
<1>2. deleteJobs' \in [DeleteJobIds -> DeleteRow]
  BY <1>1, QueueStaleFileType DEF replaceUploaded
<1>3. landedEntry(i, key, entries[e].moveJob) \in EntryRow
  BY <1>1, LandedType DEF Rows, EntryRow, Entry
<1>4. entries' \in [EntryIds -> EntryRow]
  BY <1>3 DEF replaceUploaded, Rows
<1>5. GalleryOf[intents[i].folder] \in Galleries /\ Size[intents[i].content] \in Int
      /\ SizeOf(e) \in Int
  BY <1>1, CatalogAssumption DEF Rows, IntentRow, EntryRow, SizeOf
<1> DEFINE items == IF Ready(e) THEN 0 ELSE 1
           bytes == Size[intents[i].content] - (IF Ready(e) THEN SizeOf(e) ELSE 0)
<1>6. items \in Int /\ bytes \in Int
  BY <1>5
<1>7. galleries' = adjustGalleryStats(galleries, GalleryOf[intents[i].folder], items, bytes)
  BY DEF replaceUploaded
<1> HIDE DEF items, bytes
<1>8. galleries' \in [Galleries -> GalleryRow]
  BY <1>5, <1>6, <1>7, StatsType DEF Rows
<1> QED BY <1>2, <1>4, <1>8

\* An upload that lands leaves a whole entry, whichever way it lands.
LEMMA CompleteUploadType ==
    ASSUME TypeInv, NEW h \in Handlers, NEW answered \in BOOLEAN, completeUpload(h, answered)
    PROVE  TypeInv'
<1> DEFINE i == handlers[h].intent
           key == keyOf(h)
<1>1. i \in IntentIds /\ intents[i].state # "absent" /\ key \in Keys
  BY KeyOfType DEF completeUpload
<1>2. handlers' \in [Handlers -> HandlerRow]
  <2>1. IdleHandler \in HandlerRow
    BY DEF HandlerRow, Handler, IdleHandler
  <2>2. [handlers[h] EXCEPT !.pc = "failing"] \in HandlerRow
    BY DEF TypeInv, Rows, completeUpload, HandlerRow, Handler
  <2> QED BY <2>1, <2>2 DEF TypeInv, Rows, completeUpload
<1>3. \A g \in Handlers : handlers'[g].pc # "idle" =>
         handlers[g].pc # "idle" /\ handlers'[g].intent = handlers[g].intent
  BY DEF TypeInv, Rows, completeUpload, IdleHandler, HandlerRow, Handler
<1>4. CASE landedFrom(i) # {}
  <2>1. UNCHANGED <<galleries, entries, intents, deleteJobs>>
    BY <1>4 DEF completeUpload
  <2>2. Served'
    BY <1>3, <2>1 DEF TypeInv, Served
  <2> QED BY <1>2, <2>1, <2>2 DEF TypeInv, Rows, Owned, completeUpload
<1>5. CASE landedFrom(i) = {}
  <2>1. intents[i].state = "uploading"
    BY <1>5 DEF completeUpload, uploadAccepted
  <2>2. intents' = [intents EXCEPT ![i].state = "complete", ![i].lapsed = FALSE]
    BY <1>5 DEF completeUpload
  <2>3. intents' \in [IntentIds -> IntentRow]
    BY <1>1, <2>2 DEF TypeInv, Rows, IntentRow, Intent
  <2>4. Served'
    <3> SUFFICES ASSUME NEW g \in Handlers, handlers'[g].pc # "idle"
                 PROVE  intents'[handlers'[g].intent].state # "absent"
      BY DEF Served
    <3>1. handlers'[g].intent \in IntentIds /\ intents[handlers'[g].intent].state # "absent"
      BY <1>3, KeyOfType
    <3> QED BY <2>2, <3>1 DEF TypeInv, Rows, IntentRow, Intent
  <2>5. /\ entries' \in [EntryIds -> EntryRow]
        /\ galleries' \in [Galleries -> GalleryRow]
        /\ deleteJobs' \in [DeleteJobIds -> DeleteRow]
    <3>1. CASE existingFor(i, key) = {}
      BY <1>1, <1>5, <2>1, <3>1, InsertUploadedType DEF completeUpload, TypeInv
    <3>2. CASE existingFor(i, key) # {}
      BY <1>1, <1>5, <2>1, <3>2, ReplaceUploadedType DEF completeUpload, TypeInv
    <3> QED BY <3>1, <3>2
  <2> QED BY <1>2, <2>3, <2>4, <2>5 DEF TypeInv, Rows, Owned, completeUpload
<1> QED BY <1>4, <1>5

\* A request that gives up keeps its intent until it has failed it.
LEMMA GivingUpType ==
    ASSUME TypeInv, NEW h \in Handlers,
           completeUploadRejected(h) \/ abortUpload(h) \/ handlerCrash(h)
    PROVE  TypeInv'
<1>1. handlers' \in [Handlers -> HandlerRow]
  BY DEF TypeInv, Rows, completeUploadRejected, abortUpload, handlerCrash,
         HandlerRow, Handler, IdleHandler
<1>2. \A g \in Handlers : handlers'[g].pc # "idle" =>
         handlers[g].pc # "idle" /\ handlers'[g].intent = handlers[g].intent
  <2>1. CASE handlers' = [handlers EXCEPT ![h].pc = "failing"] /\ handlers[h].pc # "idle"
    BY <2>1 DEF TypeInv, Rows, HandlerRow, Handler
  <2>2. CASE handlers' = [handlers EXCEPT ![h] = IdleHandler]
    BY <2>2 DEF TypeInv, Rows, IdleHandler
  <2> QED BY <2>1, <2>2 DEF completeUploadRejected, abortUpload, handlerCrash
<1>3. Served'
  BY <1>2 DEF TypeInv, Served, completeUploadRejected, abortUpload, handlerCrash
<1> QED BY <1>1, <1>3
        DEF TypeInv, Rows, Owned, completeUploadRejected, abortUpload, handlerCrash

\* A failed upload stays the intent it was.
LEMMA FailUploadType ==
    ASSUME TypeInv, NEW h \in Handlers, failUpload(h)
    PROVE  TypeInv'
<1> DEFINE i == handlers[h].intent
<1>1. i \in IntentIds /\ intents[i].state # "absent"
  BY KeyOfType DEF failUpload
<1>2. intents' \in [IntentIds -> IntentRow]
  <2>1. PICK s \in {"complete", "failed"} :
           intents' = [intents EXCEPT ![i].state = s, ![i].lapsed = FALSE]
    BY DEF failUpload
  <2>2. intents[i] \in IntentRow /\ intents[i].state # "absent"
    BY <1>1 DEF TypeInv, Rows
  <2>3. [intents[i] EXCEPT !.state = s, !.lapsed = FALSE] \in IntentRow
    BY <2>2 DEF IntentRow, Intent
  <2> QED BY <1>1, <2>1, <2>3 DEF TypeInv, Rows
<1>3. handlers' \in [Handlers -> HandlerRow]
  BY DEF TypeInv, Rows, failUpload, HandlerRow, Handler, IdleHandler
<1>4. Served'
  <2> SUFFICES ASSUME NEW g \in Handlers, handlers'[g].pc # "idle"
               PROVE  intents'[handlers'[g].intent].state # "absent"
    BY DEF Served
  <2>1. handlers[g].pc # "idle" /\ handlers'[g].intent = handlers[g].intent
    BY DEF TypeInv, Rows, failUpload, IdleHandler
  <2>2. handlers'[g].intent \in IntentIds /\ intents[handlers'[g].intent].state # "absent"
    BY <2>1, KeyOfType
  <2>3. PICK s \in {"complete", "failed"} :
           intents' = [intents EXCEPT ![i].state = s, ![i].lapsed = FALSE]
    BY DEF failUpload
  <2>4. \A k \in IntentIds : intents[k].state # "absent" => intents'[k].state # "absent"
    BY <2>3 DEF TypeInv, Rows, IntentRow, Intent
  <2> QED BY <2>1, <2>2, <2>4
<1> QED BY <1>2, <1>3, <1>4 DEF TypeInv, Rows, Owned, failUpload

\* A lease that runs out changes nothing else of its intent.
LEMMA UploadLeaseLapsesType ==
    ASSUME TypeInv, NEW i \in IntentIds, uploadLeaseLapses(i)
    PROVE  TypeInv'
<1>1. intents' \in [IntentIds -> IntentRow]
  BY LeaseType DEF TypeInv, Rows, uploadLeaseLapses
<1>2. Served'
  BY KeyOfType DEF TypeInv, Rows, Served, uploadLeaseLapses, IntentRow, Intent
<1> QED BY <1>1, <1>2 DEF TypeInv, Rows, Owned, uploadLeaseLapses

\* The sweep settles intents and leaves their fields alone.
LEMMA RecoverStaleRequestsType ==
    ASSUME TypeInv, NEW expired \in SUBSET IntentIds, recoverStaleRequests(expired)
    PROVE  TypeInv'
<1>1. \A i \in IntentIds : intents'[i] = intents[i] \/
         /\ intents[i].state # "absent"
         /\ intents'[i] = [intents[i] EXCEPT !.state = "failed", !.lapsed = FALSE]
  BY DEF recoverStaleRequests
<1>2. intents' \in [IntentIds -> IntentRow]
  <2>1. \A r \in IntentRow : [r EXCEPT !.state = "failed", !.lapsed = FALSE] \in IntentRow
                              \/ r.state = "absent"
    BY DEF IntentRow, Intent
  <2>2. \A i \in IntentIds : intents[i] \in IntentRow
    BY DEF TypeInv, Rows
  <2>3. \A i \in IntentIds : intents'[i] \in IntentRow
    <3> SUFFICES ASSUME NEW i \in IntentIds, intents'[i] # intents[i]
                 PROVE  intents'[i] \in IntentRow
      BY <2>2
    <3> QED BY <1>1, <2>1, <2>2
  <2> QED BY <2>3 DEF recoverStaleRequests
<1>3. Served'
  <2> SUFFICES ASSUME NEW h \in Handlers, handlers[h].pc # "idle"
               PROVE  intents'[handlers[h].intent].state # "absent"
    BY DEF Served, recoverStaleRequests
  <2>1. handlers[h].intent \in IntentIds /\ intents[handlers[h].intent].state # "absent"
    BY KeyOfType
  <2>2. \A r \in IntentRow : [r EXCEPT !.state = "failed", !.lapsed = FALSE].state # "absent"
    BY DEF IntentRow, Intent
  <2> QED BY <1>1, <2>1, <2>2 DEF TypeInv, Rows
<1> QED BY <1>2, <1>3 DEF TypeInv, Rows, Owned, recoverStaleRequests

(***************************************************************************)
(* Renames and deletions                                                   *)
(***************************************************************************)

\* A rename gives an entry a name there is.
LEMMA RenameType ==
    ASSUME TypeInv, NEW e \in EntryIds, NEW n \in Names, rename(e, n)
    PROVE  TypeInv'
<1>1. [entries[e] EXCEPT !.name = n] \in EntryRow
  BY DEF TypeInv, Rows, EntryRow, Entry
<1>2. entries' \in [EntryIds -> EntryRow]
  BY <1>1 DEF TypeInv, Rows, rename
<1> QED BY <1>2 DEF TypeInv, Rows, Served, Owned, rename

\* A deleted entry keeps its fields for the job that removes its file.
LEMMA DeletedType ==
    ASSUME Rows, NEW e \in EntryIds, Ready(e)
    PROVE  /\ [entries EXCEPT ![e].state = "deleted"] \in [EntryIds -> EntryRow]
           /\ QueuedDelete(e, entries[e].key, TRUE, TRUE) \in DeleteRow
           /\ GalleryOf[entries[e].folder] \in Galleries
           /\ SizeOf(e) \in Int
<1>1. entries[e] \in EntryRow /\ entries[e].state = "ready"
  BY DEF Rows, Ready
<1>2. [entries[e] EXCEPT !.state = "deleted"] \in EntryRow
  BY <1>1 DEF EntryRow, Entry
<1>3. entries[e].key \in Keys /\ entries[e].folder \in Folders /\ entries[e].content \in Contents
  BY <1>1 DEF EntryRow
<1>4. QueuedDelete(e, entries[e].key, TRUE, TRUE) \in DeleteRow
  BY <1>3, QueuedDeleteType
<1>5. GalleryOf[entries[e].folder] \in Galleries /\ SizeOf(e) \in Int
  BY <1>3, CatalogAssumption DEF SizeOf
<1> QED BY <1>2, <1>4, <1>5 DEF Rows

\* A deletion queues a row with the key of its entry.
LEMMA QueueEntryDeletionType ==
    ASSUME Rows, NEW e \in EntryIds, NEW j \in DeleteJobIds, queueEntryDeletion(e, j)
    PROVE  /\ entries' \in [EntryIds -> EntryRow]
           /\ galleries' \in [Galleries -> GalleryRow]
           /\ deleteJobs' \in [DeleteJobIds -> DeleteRow]
<1> USE DEF queueEntryDeletion
<1>1. entries' \in [EntryIds -> EntryRow] /\ QueuedDelete(e, entries[e].key, TRUE, TRUE) \in DeleteRow
  BY DeletedType
<1>2. deleteJobs' \in [DeleteJobIds -> DeleteRow]
  BY <1>1 DEF Rows
<1>3. galleries' \in [Galleries -> GalleryRow]
  <2>1. GalleryOf[entries[e].folder] \in Galleries /\ SizeOf(e) \in Int
    BY DeletedType
  <2>2. -1 \in Int /\ -SizeOf(e) \in Int
    BY <2>1
  <2> QED BY <2>1, <2>2, StatsType DEF Rows
<1> QED BY <1>1, <1>2, <1>3

\* Deleting and expiring an entry are both queueEntryDeletion.
LEMMA RemoveType ==
    ASSUME TypeInv, NEW e \in EntryIds, NEW j \in DeleteJobIds, remove(e, j) \/ expire(e, j)
    PROVE  TypeInv'
<1>1. queueEntryDeletion(e, j)
  BY DEF remove, expire
<1> QED BY <1>1, QueueEntryDeletionType DEF TypeInv, Rows, Served, Owned, remove, expire

\* A removed gallery keeps its counts.
LEMMA RemoveGalleryType ==
    ASSUME TypeInv, NEW g \in Galleries, removeGallery(g)
    PROVE  TypeInv'
<1>1. galleries' \in [Galleries -> GalleryRow]
  BY DEF TypeInv, Rows, removeGallery, GalleryRow
<1> QED BY <1>1 DEF TypeInv, Rows, Served, Owned, removeGallery

\* The clean-up of a gallery queues its entries or ends.
LEMMA QueueEntriesType ==
    ASSUME TypeInv, NEW g \in Galleries, queueEntries(g)
    PROVE  TypeInv'
<1>1. CASE \E e \in entriesOf(g), j \in FreeDeleteJobs :
              /\ entries' = [entries EXCEPT ![e].state = "deleted"]
              /\ deleteJobs' = [deleteJobs EXCEPT ![j] =
                                   QueuedDelete(e, entries[e].key, TRUE, TRUE)]
              /\ UNCHANGED galleries
  <2>1. PICK e \in entriesOf(g), j \in FreeDeleteJobs :
              /\ entries' = [entries EXCEPT ![e].state = "deleted"]
              /\ deleteJobs' = [deleteJobs EXCEPT ![j] =
                                   QueuedDelete(e, entries[e].key, TRUE, TRUE)]
              /\ UNCHANGED galleries
    BY <1>1
  <2>2. e \in EntryIds /\ Ready(e)
    BY DEF entriesOf
  <2>3. /\ entries' \in [EntryIds -> EntryRow]
        /\ QueuedDelete(e, entries[e].key, TRUE, TRUE) \in DeleteRow
    BY <2>1, <2>2, DeletedType DEF TypeInv
  <2>4. deleteJobs' \in [DeleteJobIds -> DeleteRow]
    BY <2>1, <2>3 DEF TypeInv, Rows
  <2> QED BY <2>1, <2>3, <2>4 DEF TypeInv, Rows, Served, Owned, queueEntries
<1>2. CASE /\ galleries' = [galleries EXCEPT ![g].cleaning = FALSE]
           /\ UNCHANGED <<entries, deleteJobs>>
  <2>1. galleries' \in [Galleries -> GalleryRow]
    BY <1>2 DEF TypeInv, Rows, GalleryRow
  <2> QED BY <1>2, <2>1 DEF TypeInv, Rows, Served, Owned, queueEntries
<1> QED BY <1>1, <1>2 DEF queueEntries

\* Claiming counts an attempt, which the guard keeps within MaxAttempts.
LEMMA ClaimDeleteType ==
    ASSUME TypeInv, NEW w \in Workers, NEW j \in DeleteJobIds, claimDelete(w, j)
    PROVE  TypeInv'
<1>1. deleteJobs[j] \in DeleteRow /\ deleteJobs[j].status # "absent"
  BY DEF TypeInv, Rows, claimDelete, claimable
<1>2. [deleteJobs[j] EXCEPT !.status = "processing", !.attempts = deleteJobs[j].attempts + 1,
                            !.lapsed = FALSE] \in DeleteRow
  <2>1. deleteJobs[j].attempts + 1 \in 0..MaxAttempts
    BY <1>1, CatalogAssumption DEF claimDelete, DeleteRow, DeleteJob
  <2> QED BY <1>1, <2>1 DEF DeleteRow, DeleteJob
<1>3. deleteJobs' \in [DeleteJobIds -> DeleteRow]
  BY <1>2 DEF TypeInv, Rows, claimDelete
<1> DEFINE doomed == deleteJobs[j].deleteOriginal /\ ~referencedElsewhere(deleteJobs[j])
           row == [IdleWorker EXCEPT !.pc = "unlinking", !.job = j,
                                     !.key = deleteJobs[j].key, !.remove = doomed]
<1>4. doomed \in BOOLEAN
  OBVIOUS
<1>5. row \in WorkerRow
  <2> HIDE DEF doomed
  <2> QED BY <1>1, <1>4 DEF DeleteRow, IdleWorker, WorkerRow, Worker, Deleting, Moving
<1>6. workers' = [workers EXCEPT ![w] = row]
  BY DEF claimDelete
<1> HIDE DEF row
<1>7. workers' \in [Workers -> WorkerRow]
  BY <1>5, <1>6 DEF TypeInv, Rows
<1> QED BY <1>3, <1>7 DEF TypeInv, Rows, Served, Owned, claimDelete

\* Giving a delete job up changes its status alone.
LEMMA ClaimDeleteExhaustedType ==
    ASSUME TypeInv, NEW w \in Workers, NEW j \in DeleteJobIds, claimDeleteExhausted(w, j)
    PROVE  TypeInv'
<1>1. deleteJobs[j] \in DeleteRow /\ deleteJobs[j].status # "absent"
  BY DEF TypeInv, Rows, claimDeleteExhausted, claimable
<1>2. [deleteJobs[j] EXCEPT !.status = "failed", !.lapsed = FALSE] \in DeleteRow
  BY <1>1 DEF DeleteRow, DeleteJob
<1>3. deleteJobs' \in [DeleteJobIds -> DeleteRow]
  BY <1>2 DEF TypeInv, Rows, claimDeleteExhausted
<1> QED BY <1>3 DEF TypeInv, Rows, Served, Owned, claimDeleteExhausted

\* A lease that runs out changes nothing else of its job.
LEMMA DeleteLeaseLapsesType ==
    ASSUME TypeInv, NEW j \in DeleteJobIds, deleteLeaseLapses(j)
    PROVE  TypeInv'
<1>1. deleteJobs' \in [DeleteJobIds -> DeleteRow]
  BY LeaseType DEF TypeInv, Rows, deleteLeaseLapses
<1> QED BY <1>1 DEF TypeInv, Rows, Served, Owned, deleteLeaseLapses

\* A heartbeat touches the lease or gives the task up.
LEMMA RenewDeleteType ==
    ASSUME TypeInv, NEW w \in Workers, renewDelete(w)
    PROVE  TypeInv'
<1>1. CASE /\ deleteJobs' = [deleteJobs EXCEPT ![workers[w].job].lapsed = FALSE]
           /\ UNCHANGED workers
  <2>1. deleteJobs' \in [DeleteJobIds -> DeleteRow]
    BY <1>1, LeaseType DEF TypeInv, Rows
  <2> QED BY <1>1, <2>1 DEF TypeInv, Rows, Served, Owned, renewDelete
<1>2. CASE /\ workers[w].pc = "unlinking"
           /\ workers' = [workers EXCEPT ![w].pc = "deleteFailing"]
           /\ UNCHANGED deleteJobs
  <2>1. [workers[w] EXCEPT !.pc = "deleteFailing"] \in WorkerRow
    BY <1>2 DEF TypeInv, Rows, WorkerRow, Worker, Deleting, Moving
  <2>2. workers' \in [Workers -> WorkerRow]
    BY <1>2, <2>1 DEF TypeInv, Rows
  <2> QED BY <1>2, <2>2 DEF TypeInv, Rows, Served, Owned, renewDelete
<1> QED BY <1>1, <1>2 DEF renewDelete

\* Unlinking leaves no file, never an unknown one.
LEMMA UnlinkOriginalType ==
    ASSUME TypeInv, NEW w \in Workers, unlinkOriginal(w)
    PROVE  TypeInv'
<1>1. [workers[w] EXCEPT !.pc = "unlinked"] \in WorkerRow
  BY DEF TypeInv, Rows, unlinkOriginal, WorkerRow, Worker, Deleting, Moving
<1>2. workers' \in [Workers -> WorkerRow]
  BY <1>1 DEF TypeInv, Rows, unlinkOriginal
<1>3. files' \in [Keys -> Contents \cup {None}]
  BY DEF TypeInv, Rows, unlinkOriginal
<1> QED BY <1>2, <1>3 DEF TypeInv, Rows, Served, Owned, unlinkOriginal

\* A worker that holds nothing is a worker.
LEMMA IdleWorkerType == IdleWorker \in WorkerRow
BY DEF IdleWorker, WorkerRow, Worker, Deleting, Moving

\* A task that fails keeps the job it reports on.
LEMMA DeleteTaskFailsType ==
    ASSUME TypeInv, NEW w \in Workers, deleteTaskFails(w) \/ workerCrash(w)
    PROVE  TypeInv'
<1>1. CASE deleteTaskFails(w)
  <2>1. [workers[w] EXCEPT !.pc = "deleteFailing"] \in WorkerRow
    BY <1>1 DEF TypeInv, Rows, deleteTaskFails, WorkerRow, Worker, Deleting, Moving
  <2>2. workers' \in [Workers -> WorkerRow]
    BY <1>1, <2>1 DEF TypeInv, Rows, deleteTaskFails
  <2> QED BY <1>1, <2>2 DEF TypeInv, Rows, Served, Owned, deleteTaskFails
<1>2. CASE workerCrash(w)
  <2>1. workers' \in [Workers -> WorkerRow]
    BY <1>2, IdleWorkerType DEF TypeInv, Rows, workerCrash
  <2> QED BY <1>2, <2>1 DEF TypeInv, Rows, Served, Owned, workerCrash
<1> QED BY <1>1, <1>2

\* Completing a job removes its row, and blanks its entry.
LEMMA CompleteDeleteType ==
    ASSUME TypeInv, NEW w \in Workers, NEW answered \in BOOLEAN, completeDelete(w, answered)
    PROVE  TypeInv'
<1>1. NoDeleteJob \in DeleteRow
  BY CatalogAssumption DEF NoDeleteJob, DeleteRow, DeleteJob
<1>2. deleteJobs' \in [DeleteJobIds -> DeleteRow]
  BY <1>1 DEF TypeInv, Rows, completeDelete
<1>3. Blank("purged") \in EntryRow
  BY DEF Blank, EntryRow, Entry
<1>4. entries' \in [EntryIds -> EntryRow]
  BY <1>3 DEF TypeInv, Rows, completeDelete
<1>5. [workers[w] EXCEPT !.pc = "deleteFailing"] \in WorkerRow
  BY DEF TypeInv, Rows, completeDelete, WorkerRow, Worker, Deleting, Moving
<1>6. workers' \in [Workers -> WorkerRow]
  BY <1>5, IdleWorkerType DEF TypeInv, Rows, completeDelete
<1> QED BY <1>2, <1>4, <1>6 DEF TypeInv, Rows, Served, Owned, completeDelete

\* A failed attempt requeues the job or gives it up.
LEMMA CompleteDeleteErrorType ==
    ASSUME TypeInv, NEW w \in Workers, completeDeleteError(w)
    PROVE  TypeInv'
<1> DEFINE j == workers[w].job
<1>1. workers' \in [Workers -> WorkerRow]
  BY IdleWorkerType DEF TypeInv, Rows, completeDeleteError
<1>2. deleteJobs' \in [DeleteJobIds -> DeleteRow]
  <2>1. CASE deleteJobs[j].status = "absent"
    BY <2>1 DEF TypeInv, Rows, completeDeleteError
  <2>2. CASE deleteJobs[j].status # "absent"
    <3>1. j \in DeleteJobIds
      BY DEF TypeInv, Rows, completeDeleteError, WorkerRow, Deleting
    <3>2. deleteJobs[j] \in DeleteRow
      BY <3>1 DEF TypeInv, Rows
    <3>3. \A s \in {"failed", "queued"} :
             [deleteJobs[j] EXCEPT !.lapsed = FALSE, !.status = s] \in DeleteRow
      BY <2>2, <3>2 DEF DeleteRow, DeleteJob
    <3> QED BY <2>2, <3>1, <3>3 DEF TypeInv, Rows, completeDeleteError
  <2> QED BY <2>1, <2>2
<1> QED BY <1>1, <1>2 DEF TypeInv, Rows, Served, Owned, completeDeleteError

(***************************************************************************)
(* Bulk operations                                                         *)
(***************************************************************************)

\* An operation is never forgotten, nor does it become another kind.
Kept == \A o \in OperationIds : operations[o].status # "absent" =>
            /\ operations'[o].status # "absent"
            /\ operations'[o].kind = operations[o].kind

\* Moves keep belonging to a move while no operation changes its kind and every
\* job keeps its operation or gets one that moves.
LEMMA OwnedKept ==
    ASSUME TypeInv, Kept,
           \A j \in MoveJobIds : moveJobs'[j].status # "absent" =>
              \/ moveJobs[j].status # "absent" /\ moveJobs'[j].op = moveJobs[j].op
              \/ /\ moveJobs'[j].op \in OperationIds
                 /\ operations[moveJobs'[j].op].status # "absent"
                 /\ operations[moveJobs'[j].op].kind = "move"
    PROVE  Owned'
<1> SUFFICES ASSUME NEW j \in MoveJobIds, moveJobs'[j].status # "absent"
             PROVE  /\ operations'[moveJobs'[j].op].status # "absent"
                    /\ operations'[moveJobs'[j].op].kind = "move"
  BY DEF Owned
<1>1. /\ moveJobs'[j].op \in OperationIds
      /\ operations[moveJobs'[j].op].status # "absent"
      /\ operations[moveJobs'[j].op].kind = "move"
  BY DEF TypeInv, Rows, Owned, MoveRow
<1> QED BY <1>1 DEF Kept

\* Writing a row of the same kind keeps the operation.
LEMMA WriteOperation ==
    ASSUME Rows, NEW o \in OperationIds, NEW row \in OperationRow, row.status # "absent",
           row.kind = operations[o].kind \/ operations[o].status = "absent",
           operations' = [operations EXCEPT ![o] = row]
    PROVE  operations' \in [OperationIds -> OperationRow] /\ Kept
BY DEF Rows, Kept

\* One item more in a counter, or one less that was counted.
LEMMA TallyType ==
    ASSUME NEW op \in OperationRow, op.status # "absent"
    PROVE  \A r \in { oneCompleted(op), oneFailed(op), oneParked(op), oneFewer(op),
                      counted([op EXCEPT !.discovered = TRUE]) } :
              r \in OperationRow /\ r.status # "absent" /\ r.kind = op.kind
<1>1. AtLeastZero(op.total - 1) \in Nat
  BY DEF AtLeastZero, OperationRow, Operation
<1>2. op.completed + 1 \in Nat /\ op.failed + 1 \in Nat /\ op.conflicts + 1 \in Nat
  BY DEF OperationRow, Operation
<1>3. \A r \in { [op EXCEPT !.completed = @ + 1], [op EXCEPT !.failed = @ + 1],
                 [op EXCEPT !.conflicts = @ + 1], [op EXCEPT !.discovered = TRUE],
                 [op EXCEPT !.total = AtLeastZero(@ - 1)] } :
         r \in OperationRow /\ r.status # "absent" /\ r.kind = op.kind
  BY <1>1, <1>2, ZenonT(60) DEF OperationRow, Operation
<1> QED BY <1>3, CountedType DEF oneCompleted, oneFailed, oneParked, oneFewer

\* A new operation has a source and, if it moves, a destination.
LEMMA StartType ==
    ASSUME TypeInv, NEW o \in OperationIds, NEW kind \in {"delete", "move"},
           NEW source \in Folders, NEW folder \in Folders \cup {None},
           kind = "move" => folder \in Folders,
           NEW selection \in {"ids", "folder"}, NEW todo \in SUBSET EntryIds,
           insertOperation(o, kind, source, folder, selection, todo)
    PROVE  TypeInv'
<1> DEFINE row == [NoOperation EXCEPT !.status = "queued", !.kind = kind, !.source = source,
                     !.folder = folder, !.selection = selection, !.todo = todo]
<1>1. row \in OperationRow /\ row.status # "absent"
  BY DEF NoOperation, OperationRow, Operation, Policies
<1>2. operations' = [operations EXCEPT ![o] = row] /\ operations[o].status = "absent"
  BY DEF insertOperation
<1> HIDE DEF row
<1>3. operations' \in [OperationIds -> OperationRow] /\ Kept
  BY <1>1, <1>2, WriteOperation DEF TypeInv
<1>4. Owned'
  BY <1>3, OwnedKept DEF insertOperation
<1> QED BY <1>3, <1>4 DEF TypeInv, Rows, Served, insertOperation

\* Counting an item that a job has settled.
LEMMA SettleType ==
    ASSUME Rows, NEW o \in OperationIds, operations[o].status # "absent",
           settleBulkMoveItem(o, TRUE) \/ settleBulkMoveItem(o, FALSE)
    PROVE  operations' \in [OperationIds -> OperationRow] /\ Kept
<1>1. CASE operations' = operations
  BY <1>1 DEF Rows, Kept
<1>2. CASE operations' # operations
  <2>1. operations[o] \in OperationRow
    BY DEF Rows
  <2>2. \/ operations' = [operations EXCEPT ![o] = oneCompleted(operations[o])]
        \/ operations' = [operations EXCEPT ![o] = oneFailed(operations[o])]
    BY <1>2 DEF settleBulkMoveItem
  <2> QED BY <2>1, <2>2, TallyType, WriteOperation
<1> QED BY <1>1, <1>2

\* The row of an operation while it visits its selection.
LEMMA VisitedType ==
    ASSUME Rows, NEW o \in OperationIds, NEW e \in EntryIds, scheduled(o)
    PROVE  /\ visited(o, e) \in OperationRow
           /\ visited(o, e).status # "absent"
           /\ visited(o, e).kind = operations[o].kind
<1> DEFINE last == candidates(o) = {e}
           op == operations[o]
<1>1. op \in OperationRow /\ op.status # "absent" /\ last \in BOOLEAN
  BY DEF Rows, scheduled
<1>2. op.total + 1 \in Nat /\ op.todo \ {e} \in SUBSET EntryIds
  BY <1>1 DEF OperationRow, Operation
<1>3. visited(o, e) = [op EXCEPT !.todo = op.todo \ {e}, !.total = op.total + 1,
                                 !.discovered = last]
  BY DEF visited
<1> HIDE DEF last, op
<1>4. /\ visited(o, e) \in OperationRow
      /\ visited(o, e).status # "absent"
      /\ visited(o, e).kind = op.kind
  BY <1>1, <1>2, <1>3, ZenonT(60) DEF OperationRow, Operation
<1> QED BY <1>4 DEF op

\* A move is queued, or parked, for an entry of the operation's source.
LEMMA QueuedMoveType ==
    ASSUME Rows, NEW o \in OperationIds, operations[o].status # "absent",
           operations[o].kind = "move", NEW e \in EntryIds, Ready(e),
           NEW name \in Names, NEW policy \in Policies
    PROVE  /\ QueuedMove(o, e, name, policy) \in MoveRow
           /\ QueuedMove(o, e, name, policy).op = o
           /\ QueuedMove(o, e, name, policy).status # "absent"
<1>1. /\ operations[o].source \in Folders /\ operations[o].folder \in Folders
      /\ GalleryOf[operations[o].source] \in Galleries
      /\ entries[e].key \in Keys
  BY CatalogAssumption DEF Rows, OperationRow, Ready, EntryRow
<1>2. NoMoveJob \in MoveJob
  BY CatalogAssumption DEF NoMoveJob, MoveJob, Policies
<1> QED BY <1>1, <1>2 DEF QueuedMove, MoveRow, MoveJob

\* A parked item is a whole row that waits.
LEMMA ParkedMoveType ==
    ASSUME NEW r \in MoveRow, r.status # "absent"
    PROVE  /\ [r EXCEPT !.status = "conflict"] \in MoveRow
           /\ [r EXCEPT !.status = "conflict"].op = r.op
BY DEF MoveRow, MoveJob

\* An item that leaves the tables of jobs and entries alone.
LEMMA CountOnlyType ==
    ASSUME TypeInv, NEW o \in OperationIds, NEW row \in OperationRow, row.status # "absent",
           row.kind = operations[o].kind, operations' = [operations EXCEPT ![o] = row],
           UNCHANGED <<galleries, entries, intents, deleteJobs, moveJobs, files, handlers, workers>>
    PROVE  TypeInv'
<1>1. operations' \in [OperationIds -> OperationRow] /\ Kept
  BY WriteOperation DEF TypeInv
<1>2. Owned'
  BY <1>1, OwnedKept
<1> QED BY <1>1, <1>2 DEF TypeInv, Rows, Served

\* Queueing, parking and withdrawing an item leave whole rows.
LEMMA MoveItemType ==
    ASSUME TypeInv, NEW o \in OperationIds, NEW e \in EntryIds, scheduled(o), moveItem(o, e),
           UNCHANGED <<intents, files, handlers, workers>>
    PROVE  TypeInv'
<1> DEFINE op      == operations[o]
           policy  == IF op.policy = "skip" THEN "ask" ELSE op.policy
           landing == resolveLandingName(op.folder, entries[e].name, policy,
                                         reservedNameKeys(op.folder, None, None), e)
<1>1. Ready(e) /\ op.kind = "move" /\ op.status # "absent" /\ op \in OperationRow
  BY DEF moveItem, eligible, movable, scheduled, TypeInv, Rows
<1>2. policy \in Policies /\ entries[e].name \in Names /\ entries[e] \in EntryRow
  BY <1>1 DEF OperationRow, Operation, Policies, TypeInv, Rows, Ready, EntryRow
<1>3. landing \subseteq Names
  BY <1>2, LandingType
<1>4. \A r \in {counted(visited(o, e)), oneParked(visited(o, e)), oneFewer(visited(o, e))} :
         r \in OperationRow /\ r.status # "absent" /\ r.kind = op.kind
  <2> DEFINE v == visited(o, e)
  <2>1. v \in OperationRow /\ v.status # "absent" /\ v.kind = op.kind
    BY VisitedType DEF TypeInv
  <2> HIDE DEF v
  <2>2. \A r \in {counted(v), oneParked(v), oneFewer(v)} :
           r \in OperationRow /\ r.status # "absent" /\ r.kind = v.kind
    BY <2>1, TallyType, CountedType, ZenonT(60)
  <2> QED BY <2>1, <2>2 DEF v
<1>5. /\ \A name \in Names : LET row == QueuedMove(o, e, name, policy)
                             IN  row \in MoveRow /\ row.op = o
      /\ LET row == [QueuedMove(o, e, entries[e].name, "ask") EXCEPT !.status = "conflict"]
         IN  row \in MoveRow /\ row.op = o
  <2>1. ASSUME NEW p \in Policies, NEW name \in Names
        PROVE  /\ QueuedMove(o, e, name, p) \in MoveRow /\ QueuedMove(o, e, name, p).op = o
               /\ QueuedMove(o, e, name, p).status # "absent"
    BY <1>1, QueuedMoveType DEF TypeInv
  <2>2. "ask" \in Policies
    BY DEF Policies
  <2> HIDE DEF policy
  <2>3. \A name \in Names : LET row == QueuedMove(o, e, name, policy)
                            IN  row \in MoveRow /\ row.op = o
    BY <1>2, <2>1
  <2> DEFINE queued == QueuedMove(o, e, entries[e].name, "ask")
  <2>4. queued \in MoveRow /\ queued.op = o /\ queued.status # "absent"
    BY <1>2, <2>1, <2>2
  <2> HIDE DEF queued
  <2>5. LET row == [queued EXCEPT !.status = "conflict"] IN row \in MoveRow /\ row.op = o
    BY <2>4, ParkedMoveType
  <2> QED BY <2>3, <2>5 DEF queued
<1>6. ASSUME NEW j \in FreeMoveJobs, NEW row \in MoveRow, row.op = o,
             moveJobs' = [moveJobs EXCEPT ![j] = row],
             entries' \in [EntryIds -> EntryRow], UNCHANGED <<galleries, deleteJobs>>,
             NEW next \in OperationRow, next.status # "absent", next.kind = op.kind,
             operations' = [operations EXCEPT ![o] = next]
      PROVE  TypeInv'
  <2>1. moveJobs' \in [MoveJobIds -> MoveRow]
    BY <1>6 DEF TypeInv, Rows
  <2>2. operations' \in [OperationIds -> OperationRow] /\ Kept
    BY <1>6, WriteOperation DEF TypeInv
  <2>3. \A k \in MoveJobIds : moveJobs'[k].status # "absent" =>
              \/ moveJobs[k].status # "absent" /\ moveJobs'[k].op = moveJobs[k].op
              \/ /\ moveJobs'[k].op \in OperationIds
                 /\ operations[moveJobs'[k].op].status # "absent"
                 /\ operations[moveJobs'[k].op].kind = "move"
    BY <1>1, <1>6 DEF TypeInv, Rows
  <2>4. Owned'
    BY <2>2, <2>3, OwnedKept
  <2> QED BY <1>6, <2>1, <2>2, <2>4 DEF TypeInv, Rows, Served
<1>7. CASE /\ \E j \in FreeMoveJobs, name \in landing : queueMoveJob(j, o, e, name, policy)
           /\ operations' = [operations EXCEPT ![o] = counted(visited(o, e))]
           /\ UNCHANGED <<galleries, deleteJobs>>
  <2>1. PICK j \in FreeMoveJobs, name \in landing : queueMoveJob(j, o, e, name, policy)
    BY <1>7
  <2>2. [entries[e] EXCEPT !.moveJob = j] \in EntryRow
    BY <1>2 DEF EntryRow, Entry, FreeMoveJobs
  <2>3. entries' \in [EntryIds -> EntryRow]
    BY <2>1, <2>2 DEF queueMoveJob, TypeInv, Rows
  <2>4. moveJobs' = [moveJobs EXCEPT ![j] = QueuedMove(o, e, name, policy)]
    BY <2>1 DEF queueMoveJob
  <2> HIDE DEF policy, landing
  <2> QED BY <1>3, <1>4, <1>5, <1>6, <1>7, <2>3, <2>4
<1>8. CASE /\ \E j \in FreeMoveJobs : moveJobs' = [moveJobs EXCEPT ![j] =
                  [QueuedMove(o, e, entries[e].name, "ask") EXCEPT !.status = "conflict"]]
           /\ operations' = [operations EXCEPT ![o] = oneParked(visited(o, e))]
           /\ UNCHANGED <<galleries, deleteJobs, entries>>
  <2>1. entries' \in [EntryIds -> EntryRow]
    BY <1>8 DEF TypeInv, Rows
  <2> QED BY <1>4, <1>5, <1>6, <1>8, <2>1
<1>9. CASE /\ operations' = [operations EXCEPT ![o] = oneFewer(visited(o, e))]
           /\ UNCHANGED <<galleries, deleteJobs, entries, moveJobs>>
  BY <1>4, <1>9, CountOnlyType
<1> QED BY <1>7, <1>8, <1>9 DEF moveItem

\* Whatever becomes of an item, it leaves whole rows.
LEMMA ProcessType ==
    ASSUME TypeInv, NEW o \in OperationIds, NEW e \in EntryIds, process(o, e)
    PROVE  TypeInv'
<1>1. scheduled(o) /\ UNCHANGED <<intents, files, handlers, workers>>
  BY DEF process
<1>2. \A r \in {oneCompleted(visited(o, e)), oneFailed(visited(o, e))} :
         r \in OperationRow /\ r.status # "absent" /\ r.kind = operations[o].kind
  <2> DEFINE v == visited(o, e)
  <2>1. v \in OperationRow /\ v.status # "absent" /\ v.kind = operations[o].kind
    BY <1>1, VisitedType DEF TypeInv
  <2> HIDE DEF v
  <2>2. \A r \in {oneCompleted(v), oneFailed(v)} :
           r \in OperationRow /\ r.status # "absent" /\ r.kind = v.kind
    BY <2>1, TallyType, ZenonT(60)
  <2> QED BY <2>1, <2>2 DEF v
<1>3. CASE refuseItem(o, e)
  BY <1>1, <1>2, <1>3, CountOnlyType DEF refuseItem
<1>4. CASE deleteItem(o, e)
  <2>1. /\ entries' \in [EntryIds -> EntryRow]
        /\ galleries' \in [Galleries -> GalleryRow]
        /\ deleteJobs' \in [DeleteJobIds -> DeleteRow]
    BY <1>4, QueueEntryDeletionType DEF deleteItem, TypeInv
  <2>2. operations' \in [OperationIds -> OperationRow] /\ Kept
    BY <1>2, <1>4, WriteOperation DEF deleteItem, TypeInv
  <2>3. Owned'
    BY <1>4, <2>2, OwnedKept DEF deleteItem
  <2> QED BY <1>1, <1>4, <2>1, <2>2, <2>3 DEF TypeInv, Rows, Served, deleteItem
<1>5. CASE keepItem(o, e)
  BY <1>1, <1>2, <1>5, CountOnlyType DEF keepItem
<1>6. CASE moveItem(o, e)
  BY <1>1, <1>6, MoveItemType
<1> QED BY <1>3, <1>4, <1>5, <1>6 DEF process

\* An operation that ends, or finds nothing, changes its own row.
LEMMA ProcessEndsType ==
    ASSUME TypeInv, NEW o \in OperationIds, processSourceGone(o) \/ processNothing(o)
    PROVE  TypeInv'
<1>1. operations[o] \in OperationRow /\ operations[o].status # "absent"
  BY DEF TypeInv, Rows, processSourceGone, processNothing, scheduled
<1>2. CASE processSourceGone(o)
  <2> DEFINE row == [operations[o] EXCEPT !.status = "failed", !.discovered = TRUE]
  <2>1. row \in OperationRow /\ row.status # "absent" /\ row.kind = operations[o].kind
    BY <1>1 DEF OperationRow, Operation
  <2>2. operations' = [operations EXCEPT ![o] = row]
    BY <1>2 DEF processSourceGone
  <2> HIDE DEF row
  <2> QED BY <1>2, <2>1, <2>2, CountOnlyType DEF processSourceGone
<1>3. CASE processNothing(o)
  BY <1>1, <1>3, TallyType, CountOnlyType DEF processNothing
<1> QED BY <1>2, <1>3

\* The row of an operation one of whose parked items is settled.
LEMMA UnparkedType ==
    ASSUME Rows, NEW o \in OperationIds, operations[o].status # "absent"
    PROVE  \A r \in {counted(unparked(o)), oneFailed(unparked(o)), oneFewer(unparked(o))} :
              r \in OperationRow /\ r.status # "absent" /\ r.kind = operations[o].kind
<1> DEFINE u == unparked(o)
<1>1. operations[o] \in OperationRow
  BY DEF Rows
<1>2. AtLeastZero(operations[o].conflicts - 1) \in Nat
  BY <1>1 DEF AtLeastZero, OperationRow, Operation
<1>3. u \in OperationRow /\ u.status # "absent" /\ u.kind = operations[o].kind
  BY <1>1, <1>2 DEF unparked, OperationRow, Operation
<1> HIDE DEF u
<1>4. \A r \in {counted(u), oneFailed(u), oneFewer(u)} :
         r \in OperationRow /\ r.status # "absent" /\ r.kind = u.kind
  BY <1>3, TallyType, CountedType, ZenonT(60)
<1> QED BY <1>3, <1>4 DEF u

\* A parked item fails, or becomes a queued move under the same operation.
LEMMA ResolveParkedJobType ==
    ASSUME TypeInv, NEW j \in MoveJobIds, moveJobs[j].status = "conflict",
           NEW policy \in Policies, resolveParkedJob(j, policy),
           UNCHANGED <<galleries, intents, deleteJobs, files, handlers, workers>>
    PROVE  TypeInv'
<1> DEFINE job == moveJobs[j]
           e   == job.entry
           o   == job.op
           landing == resolveLandingName(job.folder, entries[e].name, policy,
                          reservedNameKeys(job.folder, None, j), e)
<1>1. /\ job \in MoveRow /\ e \in EntryIds /\ o \in OperationIds
      /\ operations[o].status # "absent" /\ operations[o].kind = "move"
  BY DEF TypeInv, Rows, Owned, MoveRow
<1>2. \A r \in {counted(unparked(o)), oneFailed(unparked(o))} :
         r \in OperationRow /\ r.status # "absent" /\ r.kind = operations[o].kind
  BY <1>1, UnparkedType DEF TypeInv
<1>3. ASSUME NEW row \in MoveRow, row.op = o, moveJobs' = [moveJobs EXCEPT ![j] = row],
             entries' \in [EntryIds -> EntryRow],
             NEW next \in OperationRow, next.status # "absent",
             next.kind = operations[o].kind, operations' = [operations EXCEPT ![o] = next]
      PROVE  TypeInv'
  <2>1. moveJobs' \in [MoveJobIds -> MoveRow]
    BY <1>3 DEF TypeInv, Rows
  <2>2. operations' \in [OperationIds -> OperationRow] /\ Kept
    BY <1>1, <1>3, WriteOperation DEF TypeInv
  <2>3. \A k \in MoveJobIds : moveJobs'[k].status # "absent" =>
              moveJobs[k].status # "absent" /\ moveJobs'[k].op = moveJobs[k].op
    BY <1>3 DEF TypeInv, Rows
  <2>4. Owned'
    BY <2>2, <2>3, OwnedKept
  <2> QED BY <1>3, <2>1, <2>2, <2>4 DEF TypeInv, Rows, Served
<1>4. CASE /\ moveJobs' = [moveJobs EXCEPT ![j].status = "failed"]
           /\ operations' = [operations EXCEPT ![o] = oneFailed(unparked(o))]
           /\ UNCHANGED entries
  <2> DEFINE row == [job EXCEPT !.status = "failed"]
  <2>1. row \in MoveRow /\ row.op = o
    BY <1>1 DEF MoveRow, MoveJob
  <2>2. moveJobs' = [moveJobs EXCEPT ![j] = row]
    BY <1>4
  <2>3. entries' \in [EntryIds -> EntryRow]
    BY <1>4 DEF TypeInv, Rows
  <2> HIDE DEF row
  <2> QED BY <1>2, <1>3, <1>4, <2>1, <2>2, <2>3
<1>5. CASE /\ movable(e, operations[o].source)
           /\ \E name \in landing : queueMoveJob(j, o, e, name, policy)
           /\ operations' = [operations EXCEPT ![o] = counted(unparked(o))]
  <2>1. Ready(e) /\ entries[e].name \in Names /\ entries[e] \in EntryRow
    BY <1>1, <1>5 DEF movable, Ready, TypeInv, Rows, EntryRow
  <2>2. landing \subseteq Names
    BY <2>1, LandingType
  <2> HIDE DEF landing
  <2>3. PICK name \in Names : queueMoveJob(j, o, e, name, policy)
    BY <1>5, <2>2
  <2>4. QueuedMove(o, e, name, policy) \in MoveRow /\ QueuedMove(o, e, name, policy).op = o
    BY <1>1, <2>1, QueuedMoveType DEF TypeInv
  <2>5. moveJobs' = [moveJobs EXCEPT ![j] = QueuedMove(o, e, name, policy)]
    BY <2>3 DEF queueMoveJob
  <2>6. [entries[e] EXCEPT !.moveJob = j] \in EntryRow
    BY <2>1 DEF EntryRow, Entry
  <2>7. entries' \in [EntryIds -> EntryRow]
    BY <2>3, <2>6 DEF queueMoveJob, TypeInv, Rows
  <2> QED BY <1>2, <1>3, <1>5, <2>4, <2>5, <2>7
<1> QED BY <1>4, <1>5 DEF resolveParkedJob

\* The user's decision about one item is resolveParkedJob.
LEMMA ResolveConflictType ==
    ASSUME TypeInv, NEW j \in MoveJobIds, NEW p \in {"replace", "rename"}, resolveConflict(j, p)
    PROVE  TypeInv'
BY ResolveParkedJobType DEF resolveConflict, Policies

\* A policy for all parked items is noted in the operation.
LEMMA ResolveConflictsType ==
    ASSUME TypeInv, NEW o \in OperationIds, NEW p \in {"replace", "rename", "skip"},
           resolveConflicts(o, p) \/ dismissFinished(o)
    PROVE  TypeInv'
<1>1. operations[o] \in OperationRow
  BY DEF TypeInv, Rows
<1>2. CASE resolveConflicts(o, p)
  <2> DEFINE row == [operations[o] EXCEPT !.policy = p, !.apply = TRUE]
  <2>1. /\ row \in OperationRow /\ row.kind = operations[o].kind
        /\ row.status = operations[o].status
    <3>1. operations[o].status # "absent"
      BY <1>1, <1>2 DEF OperationRow, resolveConflicts
    <3> QED BY <1>1, <3>1 DEF OperationRow, Operation, Policies
  <2>2. operations' = [operations EXCEPT ![o] = row]
    BY <1>2 DEF resolveConflicts
  <2> HIDE DEF row
  <2>3. operations' \in [OperationIds -> OperationRow] /\ Kept
    BY <2>1, <2>2 DEF TypeInv, Rows, Kept
  <2>4. Owned'
    BY <1>2, <2>3, OwnedKept DEF resolveConflicts
  <2> QED BY <1>2, <2>3, <2>4 DEF TypeInv, Rows, Served, resolveConflicts
<1>3. CASE dismissFinished(o)
  <2> DEFINE row == [operations[o] EXCEPT !.dismissed = TRUE]
  <2>1. row \in OperationRow /\ row.kind = operations[o].kind /\ row.status # "absent"
    BY <1>1, <1>3 DEF OperationRow, Operation, dismissFinished
  <2>2. operations' = [operations EXCEPT ![o] = row]
    BY <1>3 DEF dismissFinished
  <2> HIDE DEF row
  <2> QED BY <1>3, <2>1, <2>2, CountOnlyType DEF dismissFinished
<1> QED BY <1>2, <1>3

\* Applying a policy resolves, withdraws or finds nothing parked.
LEMMA ApplyConflictPolicyType ==
    ASSUME TypeInv, NEW o \in OperationIds, applyConflictPolicy(o)
    PROVE  TypeInv'
<1> DEFINE op == operations[o]
<1>1. op \in OperationRow
  BY DEF TypeInv, Rows
<1>2. ASSUME NEW row \in OperationRow, row.kind = op.kind,
             row.status # "absent" \/ op.status = "absent",
             operations' = [operations EXCEPT ![o] = row], UNCHANGED <<entries, moveJobs>>
      PROVE  TypeInv'
  <2>1. operations' \in [OperationIds -> OperationRow] /\ Kept
    BY <1>2 DEF TypeInv, Rows, Kept
  <2>2. Owned'
    BY <1>2, <2>1, OwnedKept
  <2> QED BY <1>2, <2>1, <2>2 DEF TypeInv, Rows, Served, applyConflictPolicy
<1>3. CASE operations' = [operations EXCEPT ![o].apply = FALSE] /\ UNCHANGED <<entries, moveJobs>>
  <2> DEFINE row == [op EXCEPT !.apply = FALSE]
  <2>1. row \in OperationRow /\ row.kind = op.kind /\ row.status = op.status
    BY <1>1 DEF OperationRow, Operation
  <2>2. operations' = [operations EXCEPT ![o] = row]
    BY <1>3
  <2> HIDE DEF row
  <2> QED BY <1>2, <1>3, <2>1, <2>2
<1>4. CASE /\ operations' = [operations EXCEPT ![o].apply = FALSE,
                 ![o].status = IF op.policy = "skip" THEN operationStatus(op) ELSE @]
           /\ UNCHANGED <<entries, moveJobs>>
  <2> DEFINE status == IF op.policy = "skip" THEN operationStatus(op) ELSE op.status
             row == [op EXCEPT !.apply = FALSE, !.status = status]
  <2>1. status \in {"processing", "conflict", "failed", "complete"} \/ status = op.status
    BY DEF operationStatus
  <2> HIDE DEF status
  <2>2. CASE op.status # "absent"
    <3>1. row \in OperationRow /\ row.kind = op.kind /\ row.status # "absent"
      BY <1>1, <2>1, <2>2, ZenonT(60) DEF OperationRow, Operation
    <3>2. operations' = [operations EXCEPT ![o] = row]
      BY <1>4 DEF status
    <3> HIDE DEF row
    <3> QED BY <1>2, <1>4, <3>1, <3>2
  <2>3. op.status # "absent"
    BY <1>1 DEF OperationRow, applyConflictPolicy
  <2> QED BY <2>2, <2>3
<1>5. CASE /\ op.policy = "skip"
           /\ \E j \in parked(o) : moveJobs' = [moveJobs EXCEPT ![j] = NoMoveJob]
           /\ operations' = [operations EXCEPT ![o] = oneFewer(unparked(o))]
           /\ UNCHANGED entries
  <2>1. PICK j \in parked(o) : moveJobs' = [moveJobs EXCEPT ![j] = NoMoveJob]
    BY <1>5
  <2>2. j \in MoveJobIds /\ moveJobs[j].status = "conflict" /\ moveJobs[j].op = o
    BY DEF parked
  <2>3. op.status # "absent"
    BY <2>2 DEF TypeInv, Owned
  <2>4. operations' \in [OperationIds -> OperationRow] /\ Kept
    BY <1>5, <2>3, UnparkedType, WriteOperation DEF TypeInv
  <2>5. NoMoveJob \in MoveRow
    BY CatalogAssumption DEF NoMoveJob, MoveRow, MoveJob, Policies
  <2>6. moveJobs' \in [MoveJobIds -> MoveRow]
    BY <2>1, <2>5 DEF TypeInv, Rows
  <2>7. \A k \in MoveJobIds : moveJobs'[k].status # "absent" =>
              moveJobs[k].status # "absent" /\ moveJobs'[k].op = moveJobs[k].op
    BY <2>1 DEF TypeInv, Rows, NoMoveJob
  <2>8. Owned'
    BY <2>4, <2>7, OwnedKept
  <2> QED BY <1>5, <2>4, <2>6, <2>8 DEF TypeInv, Rows, Served, applyConflictPolicy
<1>6. CASE op.policy # "skip" /\ \E j \in parked(o) : resolveParkedJob(j, op.policy)
  <2>1. op.policy \in Policies
    BY <1>1, <1>6 DEF OperationRow, Operation, Policies
  <2> QED BY <1>6, <2>1, ResolveParkedJobType DEF parked, applyConflictPolicy
<1> QED BY <1>3, <1>4, <1>5, <1>6 DEF applyConflictPolicy

(***************************************************************************)
(* Moves                                                                   *)
(***************************************************************************)

\* A move that fails settles its item and lets go of its entry.
LEMMA FailMoveType ==
    ASSUME TypeInv, NEW j \in MoveJobIds, moveJobs[j].status # "absent",
           failMove(j) \/ failCompletion(j)
    PROVE  /\ moveJobs' \in [MoveJobIds -> MoveRow]
           /\ entries' \in [EntryIds -> EntryRow]
           /\ operations' \in [OperationIds -> OperationRow]
           /\ Owned'
<1> DEFINE e == moveJobs[j].entry
           row == [moveJobs[j] EXCEPT !.status = "failed", !.lapsed = FALSE]
<1>1. /\ moveJobs[j] \in MoveRow /\ e \in EntryIds /\ entries[e] \in EntryRow
      /\ moveJobs[j].op \in OperationIds /\ operations[moveJobs[j].op].status # "absent"
  BY DEF TypeInv, Rows, Owned, MoveRow
<1>2. row \in MoveRow /\ row.op = moveJobs[j].op
  BY <1>1 DEF MoveRow, MoveJob
<1>3. moveJobs' = [moveJobs EXCEPT ![j] = row]
  BY DEF failMove, failCompletion
<1> HIDE DEF row
<1>4. moveJobs' \in [MoveJobIds -> MoveRow]
  BY <1>2, <1>3 DEF TypeInv, Rows
<1>5. [entries[e] EXCEPT !.moveJob = None] \in EntryRow
  BY <1>1 DEF EntryRow, Entry
<1>6. entries' \in [EntryIds -> EntryRow]
  BY <1>5 DEF TypeInv, Rows, failMove, failCompletion
<1>7. settleBulkMoveItem(moveJobs[j].op, FALSE)
  BY DEF failMove, failCompletion
<1>8. operations' \in [OperationIds -> OperationRow] /\ Kept
  BY <1>1, <1>7, SettleType DEF TypeInv
<1>9. \A k \in MoveJobIds : moveJobs'[k].status # "absent" =>
            moveJobs[k].status # "absent" /\ moveJobs'[k].op = moveJobs[k].op
  BY <1>2, <1>3 DEF TypeInv, Rows
<1>10. Owned'
  BY <1>8, <1>9, OwnedKept
<1> QED BY <1>4, <1>6, <1>8, <1>10

\* A move that is refused fails like one that ran out of attempts.
LEMMA ClaimMoveRefusedType ==
    ASSUME TypeInv, NEW w \in Workers, NEW j \in MoveJobIds, claimMoveRefused(w, j)
    PROVE  TypeInv'
<1>1. moveJobs[j].status # "absent" /\ failMove(j)
  BY DEF claimMoveRefused, nextMove, claimable, TypeInv, Rows
<1> QED BY <1>1, FailMoveType DEF TypeInv, Rows, Served, claimMoveRefused

\* The jobs of unchanged owners stay theirs.
LEMMA OwnedUnchanged ==
    ASSUME TypeInv, UNCHANGED operations,
           \A k \in MoveJobIds : moveJobs'[k].status # "absent" =>
              moveJobs[k].status # "absent" /\ moveJobs'[k].op = moveJobs[k].op
    PROVE  Owned'
BY DEF TypeInv, Owned

\* A claimed move knows its source, its destination and its content.
LEMMA ClaimMoveType ==
    ASSUME TypeInv, NEW w \in Workers, NEW j \in MoveJobIds, claimMove(w, j)
    PROVE  TypeInv'
<1> DEFINE job    == moveJobs[j]
           e      == job.entry
           repick == occupantAt(j) # None /\ job.policy = "rename"
           picked == pickAvailableName(job.folder, entries[e].name,
                                       reservedNameKeys(job.folder, None, j), e)
<1>1. job \in MoveRow /\ job.status # "absent"
  BY DEF claimMove, nextMove, claimable, TypeInv, Rows
<1>2. /\ e \in EntryIds /\ job.folder \in Folders /\ job.policy \in Policies
      /\ job.target \in Names \cup {None} /\ job.attempts \in 0..MaxAttempts
  BY <1>1 DEF MoveRow, MoveJob
<1>3. /\ Ready(e) /\ entries[e].name \in Names /\ entries[e].content \in Contents
      /\ entries[e].key \in Keys
  BY <1>2 DEF claimMove, moveRefused, sourceUnchanged, TypeInv, Rows, Ready, EntryRow
<1>4. PICK name \in IF repick THEN picked ELSE {landingName(job)} :
         /\ moveJobs' = [moveJobs EXCEPT ![j].status = "processing",
                            ![j].attempts = @ + 1, ![j].lapsed = FALSE,
                            ![j].target = IF repick THEN name ELSE @]
         /\ workers' = [workers EXCEPT ![w] = [IdleWorker EXCEPT
               !.pc = "copying", !.job = j, !.key = entries[e].key,
               !.dest = buildStorageKey(job.folder, name, entries[e].content),
               !.content = entries[e].content,
               !.overwrite = job.policy = "replace",
               !.replaces = replacedKey(job.folder, occupantAt(j), job.policy)]]
  BY DEF claimMove
<1>5. name \in Names
  <2>1. picked \subseteq Names
    BY <1>2, <1>3, LandingType
  <2>2. landingName(job) \in Names
    BY <1>2, <1>3 DEF landingName
  <2> HIDE DEF picked, repick
  <2> QED BY <1>4, <2>1, <2>2
<1> DEFINE target == IF repick THEN name ELSE job.target
           row == [job EXCEPT !.status = "processing", !.attempts = job.attempts + 1,
                              !.lapsed = FALSE, !.target = target]
           dest == buildStorageKey(job.folder, name, entries[e].content)
           overwrite == job.policy = "replace"
           replaced == replacedKey(job.folder, occupantAt(j), job.policy)
           claim == [IdleWorker EXCEPT !.pc = "copying", !.job = j, !.key = entries[e].key,
                       !.dest = dest, !.content = entries[e].content,
                       !.overwrite = overwrite, !.replaces = replaced]
<1>6. row \in MoveRow /\ row.op = job.op
  <2>1. job.attempts + 1 \in 0..MaxAttempts
    BY <1>2, CatalogAssumption DEF claimMove, moveRefused
  <2>2. target \in Names \cup {None}
    BY <1>2, <1>5
  <2> HIDE DEF target
  <2> QED BY <1>1, <2>1, <2>2 DEF MoveRow, MoveJob
<1>7. moveJobs' = [moveJobs EXCEPT ![j] = row]
  BY <1>4
<1> HIDE DEF row
<1>8. moveJobs' \in [MoveJobIds -> MoveRow]
  BY <1>6, <1>7 DEF TypeInv, Rows
<1>9. Owned'
  <2>1. \A k \in MoveJobIds : moveJobs'[k].status # "absent" =>
              moveJobs[k].status # "absent" /\ moveJobs'[k].op = moveJobs[k].op
    BY <1>1, <1>6, <1>7 DEF TypeInv, Rows
  <2> QED BY <2>1, OwnedUnchanged DEF claimMove
<1>10. claim \in WorkerRow
  <2>1. dest \in Keys
    BY <1>2, <1>3, <1>5, KeyType
  <2>2. replaced \in Keys \cup {None}
    BY ReplacedKeyType DEF TypeInv, occupantAt
  <2>3. overwrite \in BOOLEAN
    OBVIOUS
  <2> HIDE DEF dest, replaced, overwrite
  <2> QED BY <1>3, <2>1, <2>2, <2>3 DEF IdleWorker, WorkerRow, Worker, Deleting, Moving
<1>11. workers' = [workers EXCEPT ![w] = claim]
  BY <1>4
<1> HIDE DEF claim
<1>12. workers' \in [Workers -> WorkerRow]
  BY <1>10, <1>11 DEF TypeInv, Rows
<1> QED BY <1>8, <1>9, <1>12 DEF TypeInv, Rows, Served, claimMove

\* A lease that runs out changes nothing else of its move.
LEMMA MoveLeaseLapsesType ==
    ASSUME TypeInv, NEW j \in MoveJobIds, moveLeaseLapses(j)
    PROVE  TypeInv'
<1>1. moveJobs' \in [MoveJobIds -> MoveRow]
  BY LeaseType DEF TypeInv, Rows, moveLeaseLapses
<1>2. \A k \in MoveJobIds : moveJobs'[k].status # "absent" =>
            moveJobs[k].status # "absent" /\ moveJobs'[k].op = moveJobs[k].op
  BY DEF TypeInv, Rows, MoveRow, MoveJob, moveLeaseLapses
<1>3. Owned'
  BY <1>2, OwnedUnchanged DEF moveLeaseLapses
<1> QED BY <1>1, <1>3 DEF TypeInv, Rows, Served, moveLeaseLapses

\* A worker that goes on with a move keeps its claim.
LEMMA MovingType ==
    ASSUME Rows, NEW w \in Workers, workers[w].pc \in Moving, NEW pc \in Moving,
           workers' = [workers EXCEPT ![w].pc = pc]
    PROVE  workers' \in [Workers -> WorkerRow]
<1>1. [workers[w] EXCEPT !.pc = pc] \in WorkerRow
  BY DEF Rows, WorkerRow, Worker, Deleting, Moving
<1> QED BY <1>1 DEF Rows

\* A heartbeat touches the lease or gives the move up.
LEMMA RenewEntryMoveType ==
    ASSUME TypeInv, NEW w \in Workers, renewEntryMove(w)
    PROVE  TypeInv'
<1> DEFINE j == workers[w].job
<1>1. CASE /\ moveJobs' = [moveJobs EXCEPT ![j].lapsed = FALSE] /\ UNCHANGED workers
  <2>1. j \in MoveJobIds
    BY DEF TypeInv, Rows, WorkerRow, Moving, renewEntryMove
  <2>2. moveJobs' \in [MoveJobIds -> MoveRow]
    BY <1>1, <2>1, LeaseType DEF TypeInv, Rows
  <2>3. \A k \in MoveJobIds : moveJobs'[k].status # "absent" =>
              moveJobs[k].status # "absent" /\ moveJobs'[k].op = moveJobs[k].op
    BY <1>1 DEF TypeInv, Rows, MoveRow, MoveJob
  <2>4. Owned'
    BY <2>3, OwnedUnchanged DEF renewEntryMove
  <2> QED BY <1>1, <2>2, <2>4 DEF TypeInv, Rows, Served, renewEntryMove
<1>2. CASE /\ workers' = [workers EXCEPT ![w].pc = "moveFailing"] /\ UNCHANGED moveJobs
           /\ workers[w].pc \in {"copying", "writing"}
  <2>1. workers' \in [Workers -> WorkerRow]
    BY <1>2, MovingType DEF TypeInv, Moving
  <2> QED BY <1>2, <2>1 DEF TypeInv, Rows, Served, Owned, renewEntryMove
<1> QED BY <1>1, <1>2 DEF renewEntryMove

\* Looking at the destination only decides how the worker goes on.
LEMMA LookAtDestinationType ==
    ASSUME TypeInv, NEW w \in Workers,
           lookAtDestination(w) \/ moveTaskFails(w) \/ completeEntryMoveThrows(w)
    PROVE  TypeInv'
<1>1. workers[w].pc \in Moving /\ \E pc \in Moving : workers' = [workers EXCEPT ![w].pc = pc]
  BY DEF Moving, lookAtDestination, moveTaskFails, completeEntryMoveThrows
<1>2. workers' \in [Workers -> WorkerRow]
  BY <1>1, MovingType DEF TypeInv
<1> QED BY <1>2 DEF TypeInv, Rows, Served, Owned, lookAtDestination, moveTaskFails,
                    completeEntryMoveThrows

\* What is copied is a content there is.
LEMMA CopyAtomicallyType ==
    ASSUME TypeInv, NEW w \in Workers, copyAtomically(w) \/ statCopied(w)
    PROVE  TypeInv'
<1>1. workers[w].pc \in Moving /\ \E pc \in Moving : workers' = [workers EXCEPT ![w].pc = pc]
  BY DEF Moving, copyAtomically, statCopied
<1>2. workers' \in [Workers -> WorkerRow]
  BY <1>1, MovingType DEF TypeInv
<1>3. files' \in [Keys -> Contents \cup {None}]
  <2>1. CASE copyAtomically(w)
    <3>1. workers[w].key \in Keys
      BY <1>1 DEF TypeInv, Rows, WorkerRow
    <3> QED BY <2>1, <3>1 DEF TypeInv, Rows, copyAtomically
  <2>2. CASE statCopied(w)
    BY <2>2, RemoveReplacedType DEF TypeInv, Rows, statCopied
  <2> QED BY <2>1, <2>2
<1> QED BY <1>2, <1>3 DEF TypeInv, Rows, Served, Owned, copyAtomically, statCopied

\* What a move that lands leaves behind is queued for deletion.
LEMMA QueueLeftoversType ==
    ASSUME Rows, NEW e \in EntryIds, Ready(e), NEW occupant \in EntryIds \cup {None},
           occupant # None => Ready(occupant), NEW g, NEW key,
           queueLeftovers(e, occupant, g, key)
    PROVE  deleteJobs' \in [DeleteJobIds -> DeleteRow]
<1> DEFINE stale    == entries[e].key # key
           original == ~keepsReplacedOriginal(g, entries[occupant].key, key)
           replaced == QueuedDelete(occupant, entries[occupant].key, original, TRUE)
           left     == QueuedDelete(e, entries[e].key, TRUE, FALSE)
<1>1. left \in DeleteRow
  BY QueuedDeleteType DEF Rows, EntryRow, Ready
<1>2. occupant # None => replaced \in DeleteRow
  <2>1. original \in BOOLEAN
    BY DEF keepsReplacedOriginal
  <2> HIDE DEF original
  <2>2. occupant # None => occupant \in EntryIds /\ entries[occupant].key \in Keys
    BY DEF Rows, EntryRow, Ready
  <2> QED BY <2>1, <2>2, QueuedDeleteType
<1>3. \/ UNCHANGED deleteJobs
      \/ \E a \in FreeDeleteJobs : deleteJobs' = [deleteJobs EXCEPT ![a] = left]
      \/ /\ occupant # None
         /\ \E a \in FreeDeleteJobs : deleteJobs' = [deleteJobs EXCEPT ![a] = replaced]
      \/ /\ occupant # None
         /\ \E a, b \in FreeDeleteJobs :
               deleteJobs' = [deleteJobs EXCEPT ![a] = replaced, ![b] = left]
  BY DEF queueLeftovers
<1> HIDE DEF replaced, left
<1> QED BY <1>1, <1>2, <1>3 DEF Rows

\* Moving an entry out of one gallery's counts and into another's.
LEMMA MovedStatsType ==
    ASSUME NEW table \in [Galleries -> GalleryRow], NEW g \in Galleries, NEW s \in Galleries,
           NEW size \in Int
    PROVE  adjustGalleryStats(adjustGalleryStats(table, s, -1, -size), g, 1, size)
              \in [Galleries -> GalleryRow]
<1>1. -1 \in Int /\ -size \in Int /\ 1 \in Int
  OBVIOUS
<1> DEFINE out == adjustGalleryStats(table, s, -1, -size)
<1>2. out \in [Galleries -> GalleryRow]
  BY <1>1, StatsType
<1> HIDE DEF out
<1>3. adjustGalleryStats(out, g, 1, size) \in [Galleries -> GalleryRow]
  BY <1>1, <1>2, StatsType
<1> QED BY <1>3 DEF out

\* A landed move leaves whole entries, jobs and counts.
LEMMA LandMoveType ==
    ASSUME TypeInv, NEW j \in MoveJobIds, moveJobs[j].status # "absent", sourceUnchanged(j),
           NEW key \in Keys, landMove(j, key),
           UNCHANGED <<intents, files, handlers>>, workers' \in [Workers -> WorkerRow]
    PROVE  TypeInv'
<1> DEFINE job      == moveJobs[j]
           e        == job.entry
           occupant == occupantAt(j)
           gallery  == GalleryOf[job.folder]
           landed   == [entries EXCEPT ![e].folder = job.folder, ![e].name = landingName(job),
                                       ![e].key = key, ![e].moveJob = None]
           freed    == IF occupant = None THEN galleries
                       ELSE adjustGalleryStats(galleries, gallery, -1, -SizeOf(occupant))
<1>1. /\ job \in MoveRow /\ e \in EntryIds /\ Ready(e) /\ entries[e] \in EntryRow
      /\ job.source \in Galleries /\ job.folder \in Folders /\ gallery \in Galleries
      /\ job.op \in OperationIds /\ operations[job.op].status # "absent"
  BY CatalogAssumption DEF TypeInv, Rows, Owned, MoveRow, sourceUnchanged
<1>2. occupant \in EntryIds \cup {None} /\ (occupant # None => Ready(occupant) /\ occupant # e)
  BY FindReady DEF occupantAt, readyEntriesNamed
<1>3. landingName(job) \in Names
  BY <1>1 DEF landingName, MoveRow, MoveJob, EntryRow, Ready
<1>4. landed \in [EntryIds -> EntryRow]
  <2> DEFINE name == landingName(job)
             row == [entries[e] EXCEPT !.folder = job.folder, !.name = name,
                                       !.key = key, !.moveJob = None]
  <2> HIDE DEF name
  <2>1. row \in EntryRow
    BY <1>1, <1>3 DEF name, EntryRow, Entry, Ready
  <2>2. landed = [entries EXCEPT ![e] = row]
    BY <1>1 DEF name, TypeInv, Rows
  <2> HIDE DEF row, landed
  <2> QED BY <2>1, <2>2 DEF TypeInv, Rows
<1>5. entries' \in [EntryIds -> EntryRow]
  <2>1. CASE occupant = None
    BY <1>4, <2>1 DEF landMove
  <2>2. CASE occupant # None
    <3>1. landed[occupant] = entries[occupant]
      BY <1>2, <2>2 DEF TypeInv, Rows
    <3>2. [entries[occupant] EXCEPT !.state = "deleted"] \in EntryRow
      BY <1>2, <2>2 DEF TypeInv, Rows, EntryRow, Entry, Ready
    <3>3. entries' = [landed EXCEPT ![occupant].state = "deleted"]
      BY <2>2 DEF landMove
    <3> HIDE DEF landed, occupant
    <3> QED BY <1>4, <3>1, <3>2, <3>3
  <2> QED BY <2>1, <2>2
<1>6. galleries' \in [Galleries -> GalleryRow]
  <2>1. SizeOf(e) \in Int /\ (occupant # None => SizeOf(occupant) \in Int /\ -SizeOf(occupant) \in Int)
    <3>1. \A d \in EntryIds : Ready(d) => SizeOf(d) \in Int
      BY DeletedType DEF TypeInv
    <3> QED BY <1>1, <1>2, <3>1
  <2>2. freed \in [Galleries -> GalleryRow]
    <3>1. -1 \in Int /\ galleries \in [Galleries -> GalleryRow]
      BY DEF TypeInv, Rows
    <3> HIDE DEF gallery, occupant
    <3> QED BY <1>1, <2>1, <3>1, StatsType
  <2>3. galleries' = freed \/ galleries' = adjustGalleryStats(
              adjustGalleryStats(freed, job.source, -1, -SizeOf(e)), gallery, 1, SizeOf(e))
    BY DEF landMove
  <2> HIDE DEF freed, gallery, e, job
  <2> QED BY <1>1, <2>1, <2>2, <2>3, MovedStatsType DEF job
<1>7. deleteJobs' \in [DeleteJobIds -> DeleteRow]
  <2>1. queueLeftovers(e, occupant, gallery, key)
    BY DEF landMove
  <2> HIDE DEF occupant, gallery, e
  <2> QED BY <1>1, <1>2, <2>1, QueueLeftoversType DEF TypeInv
<1>8. NoMoveJob \in MoveRow
  BY CatalogAssumption DEF NoMoveJob, MoveRow, MoveJob, Policies
<1>9. moveJobs' = [moveJobs EXCEPT ![j] = NoMoveJob] /\ settleBulkMoveItem(job.op, TRUE)
  BY DEF landMove
<1>10. moveJobs' \in [MoveJobIds -> MoveRow]
  BY <1>8, <1>9 DEF TypeInv, Rows
<1>11. operations' \in [OperationIds -> OperationRow] /\ Kept
  BY <1>1, <1>9, SettleType DEF TypeInv
<1>12. \A k \in MoveJobIds : moveJobs'[k].status # "absent" =>
            moveJobs[k].status # "absent" /\ moveJobs'[k].op = moveJobs[k].op
  BY <1>9 DEF TypeInv, Rows, NoMoveJob
<1>13. Owned'
  BY <1>11, <1>12, OwnedKept
<1> QED BY <1>5, <1>6, <1>7, <1>10, <1>11, <1>13 DEF TypeInv, Rows, Served

\* A report lands the move, fails it or finds it gone.
LEMMA CompleteEntryMoveType ==
    ASSUME TypeInv, NEW w \in Workers, NEW answered \in BOOLEAN, completeEntryMove(w, answered)
    PROVE  TypeInv'
<1> DEFINE j == workers[w].job
<1>1. j \in MoveJobIds /\ workers[w].dest \in Keys
  BY DEF completeEntryMove, TypeInv, Rows, WorkerRow, Moving
<1>2. workers' \in [Workers -> WorkerRow]
  <2>1. [workers[w] EXCEPT !.pc = "moveFailing"] \in WorkerRow
    BY DEF TypeInv, Rows, completeEntryMove, WorkerRow, Worker, Deleting, Moving
  <2> QED BY <2>1, IdleWorkerType DEF TypeInv, Rows, completeEntryMove
<1>3. UNCHANGED <<intents, files, handlers>>
  BY DEF completeEntryMove
<1>4. CASE UNCHANGED <<galleries, entries, deleteJobs, moveJobs, operations>>
  BY <1>2, <1>3, <1>4 DEF TypeInv, Rows, Served, Owned
<1>5. CASE moveJobs[j].status # "absent" /\ failCompletion(j)
  BY <1>1, <1>2, <1>3, <1>5, FailMoveType DEF TypeInv, Rows, Served, failCompletion
<1>6. CASE moveJobs[j].status # "absent" /\ sourceUnchanged(j) /\ landMove(j, workers[w].dest)
  BY <1>1, <1>2, <1>3, <1>6, LandMoveType
<1> QED BY <1>4, <1>5, <1>6 DEF completeEntryMove

\* A failed attempt requeues the move or gives it up.
LEMMA CompleteEntryMoveErrorType ==
    ASSUME TypeInv, NEW w \in Workers, completeEntryMoveError(w)
    PROVE  TypeInv'
<1> DEFINE j == workers[w].job
<1>1. j \in MoveJobIds
  BY DEF completeEntryMoveError, TypeInv, Rows, WorkerRow, Moving
<1>2. workers' \in [Workers -> WorkerRow]
  BY IdleWorkerType DEF TypeInv, Rows, completeEntryMoveError
<1>3. UNCHANGED <<galleries, intents, deleteJobs, files, handlers>>
  BY DEF completeEntryMoveError
<1>4. CASE UNCHANGED <<entries, moveJobs, operations>>
  BY <1>2, <1>3, <1>4 DEF TypeInv, Rows, Served, Owned
<1>5. CASE moveJobs[j].status # "absent" /\ failMove(j)
  BY <1>1, <1>2, <1>3, <1>5, FailMoveType DEF TypeInv, Rows, Served
<1>6. CASE /\ moveJobs[j].status # "absent"
           /\ moveJobs' = [moveJobs EXCEPT ![j].status = "queued", ![j].lapsed = FALSE]
           /\ UNCHANGED <<entries, operations>>
  <2> DEFINE row == [moveJobs[j] EXCEPT !.status = "queued", !.lapsed = FALSE]
  <2>1. moveJobs[j] \in MoveRow
    BY <1>1 DEF TypeInv, Rows
  <2>2. row \in MoveRow /\ row.op = moveJobs[j].op
    BY <1>6, <2>1 DEF MoveRow, MoveJob
  <2>3. moveJobs' = [moveJobs EXCEPT ![j] = row]
    BY <1>6
  <2> HIDE DEF row
  <2>4. moveJobs' \in [MoveJobIds -> MoveRow]
    BY <2>2, <2>3 DEF TypeInv, Rows
  <2>5. \A k \in MoveJobIds : moveJobs'[k].status # "absent" =>
              moveJobs[k].status # "absent" /\ moveJobs'[k].op = moveJobs[k].op
    BY <1>6, <2>2, <2>3 DEF TypeInv, Rows
  <2>6. Owned'
    BY <1>6, <2>5, OwnedUnchanged
  <2> QED BY <1>2, <1>3, <1>6, <2>4, <2>6 DEF TypeInv, Rows, Served
<1> QED BY <1>4, <1>5, <1>6 DEF completeEntryMoveError

(***************************************************************************)
(* Type correctness                                                        *)
(***************************************************************************)

\* Every client mutation keeps the tables typed.
LEMMA ClientType == TypeInv /\ Client => TypeInv'
<1> SUFFICES ASSUME TypeInv, Client PROVE TypeInv'
  OBVIOUS
<1>1. CASE StartUpload
  BY <1>1, CreateUploadIntentType DEF StartUpload
<1>2. CASE Rename
  BY <1>2, RenameType DEF Rename
<1>3. CASE Remove
  BY <1>3, RemoveType DEF Remove
<1>4. CASE RemoveGallery
  BY <1>4, RemoveGalleryType DEF RemoveGallery
<1>5. CASE StartBulk
  <2>1. PICK o \in OperationIds, s \in Folders, k \in {"ids", "folder"}, todo \in SUBSET EntryIds :
           \/ startDelete(o, s, k, todo)
           \/ \E f \in Folders : startMove(o, s, f, k, todo)
    BY <1>5 DEF StartBulk
  <2>2. CASE startDelete(o, s, k, todo)
    BY <2>2, StartType DEF startDelete
  <2>3. CASE \E f \in Folders : startMove(o, s, f, k, todo)
    BY <2>3, StartType DEF startMove
  <2> QED BY <2>1, <2>2, <2>3
<1>6. CASE Resolve
  BY <1>6, ResolveConflictType, ResolveConflictsType DEF Resolve
<1>7. CASE Dismiss
  BY <1>7, ResolveConflictsType DEF Dismiss
<1> QED BY <1>1, <1>2, <1>3, <1>4, <1>5, <1>6, <1>7 DEF Client

\* Every step of an upload request keeps the tables typed.
LEMMA StorageServerType == TypeInv /\ StorageServer => TypeInv'
<1> SUFFICES ASSUME TypeInv, NEW h \in Handlers,
                    \/ Claim(h) \/ Serve(h) \/ renewUpload(h) \/ abortUpload(h) \/ handlerCrash(h)
             PROVE  TypeInv'
  BY DEF StorageServer
<1>1. CASE Claim(h)
  BY <1>1, ClaimUploadType DEF Claim
<1>2. CASE Serve(h)
  BY <1>2, InstallReplacingType, StatInstalledType, CompleteUploadType, GivingUpType,
     FailUploadType DEF Serve
<1>3. CASE renewUpload(h)
  BY <1>3, RenewUploadType
<1>4. CASE abortUpload(h) \/ handlerCrash(h)
  BY <1>4, GivingUpType
<1> QED BY <1>1, <1>2, <1>3, <1>4

\* Every step of the maintenance loop keeps the tables typed.
LEMMA StorageWorkerType == TypeInv /\ StorageWorker => TypeInv'
<1> SUFFICES ASSUME TypeInv, NEW w \in Workers,
                    \/ ClaimMaintenance(w) \/ Work(w)
                    \/ renewDelete(w) \/ renewEntryMove(w)
                    \/ deleteTaskFails(w) \/ moveTaskFails(w) \/ workerCrash(w)
             PROVE  TypeInv'
  BY DEF StorageWorker
<1>1. CASE ClaimMaintenance(w)
  BY <1>1, ClaimDeleteType, ClaimDeleteExhaustedType, ClaimMoveType, ClaimMoveRefusedType
  DEF ClaimMaintenance
<1>2. CASE Work(w)
  BY <1>2, UnlinkOriginalType, CompleteDeleteType, CompleteEntryMoveType,
     CompleteDeleteErrorType, LookAtDestinationType, CopyAtomicallyType,
     CompleteEntryMoveErrorType DEF Work
<1>3. CASE renewDelete(w)
  BY <1>3, RenewDeleteType
<1>4. CASE renewEntryMove(w)
  BY <1>4, RenewEntryMoveType
<1>5. CASE deleteTaskFails(w) \/ workerCrash(w)
  BY <1>5, DeleteTaskFailsType
<1>6. CASE moveTaskFails(w)
  BY <1>6, LookAtDestinationType
<1> QED BY <1>1, <1>2, <1>3, <1>4, <1>5, <1>6

\* The clock and the scheduled functions keep the tables typed.
LEMMA SchedulerType == TypeInv /\ Scheduler => TypeInv'
<1> SUFFICES ASSUME TypeInv, Scheduler PROVE TypeInv'
  OBVIOUS
<1>1. CASE Lapse
  BY <1>1, UploadLeaseLapsesType, DeleteLeaseLapsesType, MoveLeaseLapsesType DEF Lapse
<1>2. CASE Sweep
  BY <1>2, RecoverStaleRequestsType DEF Sweep
<1>3. CASE CleanUp
  BY <1>3, QueueEntriesType DEF CleanUp
<1>4. CASE \E o \in OperationIds : ProcessBulk(o)
  BY <1>4, ProcessType, ProcessEndsType, ApplyConflictPolicyType DEF ProcessBulk
<1> QED BY <1>1, <1>2, <1>3, <1>4 DEF Scheduler

\* Every step keeps the tables typed.
LEMMA NextType == TypeInv /\ [Next]_vars => TypeInv'
<1>1. CASE UNCHANGED vars
  BY <1>1 DEF vars, TypeInv, Rows, Served, Owned
<1> QED BY <1>1, ClientType, StorageServerType, StorageWorkerType, SchedulerType DEF Next

\* The tables hold rows of their types, and every row in use the fields that
\* those who read it rely on (all of the modules).
THEOREM RowsCorrect == Spec => []TypeInv
BY InitType, NextType, PTL DEF Spec

\* Every table holds rows of its type (schema.ts).
THEOREM TypeCorrect == Spec => []TypeOK
<1>1. TypeInv => TypeOK
  BY DEF TypeInv, Rows, TypeOK, EntryRow, IntentRow, DeleteRow, MoveRow, OperationRow,
         HandlerRow, WorkerRow
<1> QED BY <1>1, RowsCorrect, PTL

=============================================================================
