-------------------------- MODULE TransfersSafety --------------------------
(***************************************************************************)
(* The transfer list for every value of the constants: what it shows is    *)
(* so, every slot is accounted for, and after a choice to skip nothing is  *)
(* parked but what was to be renamed.                                      *)
(*                                                                         *)
(* Cardinalities are for the reader of the properties.  The proofs say     *)
(* "at most one" of jobs, of runs and of calls, and count only slots.      *)
(***************************************************************************)
EXTENDS FolderTransfers, FiniteSetTheorems, SequenceTheorems, TLAPS

(***************************************************************************)
(* Types                                                                   *)
(***************************************************************************)

Row == [status : {"none", "queued", "active", "success", "error", "conflict", "gone"},
        policy : Policies \cup {None}]

Run == [item : Items, policy : Policies \cup {None}, slot : BOOLEAN,
        at : {"started", "waiting", "asking", "sent"},
        used : Policies \cup {None}, request : RequestIds \cup {None}]

Job == [item : Items, policy : Policies \cup {None}]

\* Only who asks for it is renamed.
Request == {q \in [at : {"none", "waiting", "serving", "claimed"}, item : Items \cup {None},
                   used : Policies \cup {None}, cut : BOOLEAN, renamed : BOOLEAN] :
              q.renamed => q.used = "rename"}

FolderRow == [status : {"none", "active", "error", "success", "gone"},
              kind : {"delete", "move", "stay", None}, operation : Nat]

Operation == [state : {"pending", "claimed", "complete", "delayed", "stale", "failed"},
              attempts : Nat]

Call == [origin : {"all", "again", "operation"}, kind : {"delete", "move", "stay", None},
         left : SUBSET Folders, todo : Seq(Folders \X Nat),
         at : {"asking", "running", "waiting"}]

ClientTypes ==
    /\ rows \in [Items -> Row]
    /\ runs \in SUBSET Run /\ IsFiniteSet(runs)
    /\ pending \in [Batches -> Seq(Job)]
    /\ inFlight \in [Batches -> Nat]
    /\ registered \in SUBSET Batches
    /\ choice \in [Batches -> {None, "replace", "rename", "skip"}]

ServerTypes ==
    /\ requests \in [RequestIds -> Request]
    /\ active \in Nat
    /\ waiters \in Seq(RequestIds)

FolderTypes ==
    /\ folderRows \in [Folders -> FolderRow]
    /\ calls \in SUBSET Call
    /\ operations \in [Folders -> Seq(Operation)]
    /\ away \in SUBSET Folders

(***************************************************************************)
(* The inductive invariant                                                 *)
(***************************************************************************)

Has(queue, i) == \E k \in DOMAIN queue : queue[k].item = i

Once(queue) == \A k, l \in DOMAIN queue : queue[k].item = queue[l].item => k = l

Waits(i) == Has(pending[BatchOf[i]], i)
Runs(i) == \E u \in runs : u.item = i

\* A row is pending while a job or a run is behind it, and then there is one.
Worked ==
    /\ \A b \in Batches : Once(pending[b])
    /\ \A b \in Batches, i \in Items : Has(pending[b], i) => BatchOf[i] = b
    /\ \A u, v \in runs : u.item = v.item => u = v
    /\ \A i \in Items : ~(Waits(i) /\ Runs(i))
    /\ \A i \in Items : transferPending(rows[i]) <=> Waits(i) \/ Runs(i)

\* A run asks under its own policy if it has one, and the request it waits for is
\* about its item and under what it asked for.
Asked ==
    \A u \in runs :
        /\ u.at \in {"asking", "sent"} /\ u.policy # None => u.used = u.policy
        /\ u.at # "sent" => u.request = None
        /\ u.at = "sent" => /\ u.request \in RequestIds
                            /\ requests[u.request].at # "none"
                            /\ requests[u.request].item = u.item
                            /\ requests[u.request].used = u.used

\* A request is about an item, and those that wait do so once.
Queued ==
    /\ \A r \in RequestIds : requests[r].at # "none" => requests[r].item \in Items
    /\ \A k \in DOMAIN waiters : requests[waiters[k]].at = "waiting"
    /\ \A k, l \in DOMAIN waiters : waiters[k] = waiters[l] => k = l

\* What a call has to do is about rows it has to settle, an operation for each at most,
\* and what it will settle when it ends has left the listing by then.
InTurn(c, ops, gone) ==
    /\ c.at = "waiting" => c.todo # <<>>
    /\ \A k \in DOMAIN c.todo : /\ c.todo[k][1] \in c.left
                                /\ c.todo[k][2] \in DOMAIN ops[c.todo[k][1]]
    /\ \A k, l \in DOMAIN c.todo : c.todo[k][1] = c.todo[l][1] => k = l
    /\ c.at # "asking" =>
           \A f \in c.left : f \in gone \/ \E k \in DOMAIN c.todo : c.todo[k][1] = f

\* A folder's row is pending while a call has to settle it, and then one has.
Called ==
    /\ \A c, d \in calls, f \in Folders : f \in c.left /\ f \in d.left => c = d
    /\ \A f \in Folders : transferPending(folderRows[f]) <=> \E c \in calls : f \in c.left
    /\ \A c \in calls : InTurn(c, operations, away)
    /\ \A f \in Folders : folderRows[f].status = "success" /\ folderRows[f].kind # "stay" => f \in away
    /\ \A f \in Folders : folderRows[f].operation \in {0} \cup DOMAIN operations[f]

\* The two halves of SlotsCounted: the slots of the work queues, those of the server.
Slotted == \A b \in Batches : inFlight[b] = slotsOf(runs, b) /\ inFlight[b] <= Concurrency

Placed ==
    /\ active = Cardinality({r \in RequestIds : requests[r].at \in {"serving", "claimed"}})
    /\ active <= MaxConcurrentUploads
    /\ waiters # <<>> => active = MaxConcurrentUploads

\* A row that is parked although its drop is to skip was to be renamed.
Spared(row, chosen) ==
    row.status = "conflict" /\ chosen = "skip" => row.policy = "rename"

ClientInv == ClientTypes /\ Worked /\ Slotted /\ SkipSparesChosen
ServerInv == ServerTypes /\ Queued /\ Placed
FolderInv == FolderTypes /\ Called

IInv == ClientInv /\ Asked /\ ServerInv /\ FolderInv /\ budget \in Budget

(***************************************************************************)
(* Queues                                                                  *)
(***************************************************************************)

\* The first job leaves a queue, and nothing else of its item was in it.
LEMMA TailJobs ==
    ASSUME NEW q \in Seq(Job), q # <<>>, Once(q)
    PROVE  /\ Tail(q) \in Seq(Job) /\ Head(q) \in Job
           /\ Once(Tail(q)) /\ Has(q, Head(q).item)
           /\ \A i \in Items : Has(Tail(q), i) <=> Has(q, i) /\ i # Head(q).item
<1>1. /\ Head(q) \in Job /\ Head(q) = q[1] /\ Len(q) \in Nat \ {0} /\ DOMAIN q = 1..Len(q)
      /\ Tail(q) \in Seq(Job) /\ Len(Tail(q)) = Len(q) - 1
      /\ DOMAIN Tail(q) = 1..(Len(q) - 1)
      /\ \A k \in 1..(Len(q) - 1) : Tail(q)[k] = q[k + 1]
  BY HeadTailProperties, LenProperties
<1>2. Once(Tail(q)) /\ Has(q, Head(q).item)
  BY <1>1 DEF Once, Has
<1>3. ASSUME NEW i \in Items
      PROVE  Has(Tail(q), i) <=> Has(q, i) /\ i # Head(q).item
  <2>1. ASSUME Has(Tail(q), i)
        PROVE  Has(q, i) /\ i # Head(q).item
    <3>1. PICK k \in 1..(Len(q) - 1) : q[k + 1].item = i
      BY <1>1, <2>1 DEF Has
    <3>2. k + 1 \in DOMAIN q /\ 1 \in DOMAIN q /\ k + 1 # 1
      BY <1>1
    <3> QED BY <1>1, <3>1, <3>2 DEF Has, Once
  <2>2. ASSUME Has(q, i), i # Head(q).item
        PROVE  Has(Tail(q), i)
    <3>1. PICK k \in DOMAIN q : q[k].item = i
      BY <2>2 DEF Has
    <3>2. k - 1 \in 1..(Len(q) - 1) /\ (k - 1) + 1 = k
      BY <1>1, <2>2, <3>1
    <3> QED BY <1>1, <3>1, <3>2 DEF Has
  <2> QED BY <2>1, <2>2
<1> QED BY <1>1, <1>2, <1>3

\* Jobs for other items go to the end of a queue.
LEMMA ConcatJobs ==
    ASSUME NEW q \in Seq(Job), NEW s \in Seq(Job), Once(q), Once(s),
           \A i \in Items : ~(Has(q, i) /\ Has(s, i))
    PROVE  /\ q \o s \in Seq(Job) /\ Once(q \o s)
           /\ \A i \in Items : Has(q \o s, i) <=> Has(q, i) \/ Has(s, i)
<1> DEFINE m == Len(q)
           n == Len(s)
           c == q \o s
<1>1. /\ m \in Nat /\ n \in Nat /\ c \in Seq(Job) /\ DOMAIN c = 1..(m + n)
      /\ DOMAIN q = 1..m /\ DOMAIN s = 1..n
      /\ \A k \in 1..(m + n) : c[k] = IF k <= m THEN q[k] ELSE s[k - m]
      /\ \A k \in 1..m : q[k] \in Job
      /\ \A k \in 1..n : s[k] \in Job
  BY ConcatProperties, LenProperties, ElementOfSeq
<1> HIDE DEF c, m, n
<1>2. \A k \in 1..m : k \in 1..(m + n) /\ c[k] = q[k]
  BY <1>1
<1>3. \A k \in 1..n : k + m \in 1..(m + n) /\ c[k + m] = s[k]
  BY <1>1
<1>4. \A k \in 1..(m + n) : \/ k \in 1..m
                            \/ k - m \in 1..n /\ (k - m) + m = k
  BY <1>1
<1>5. \A k \in 1..m, l \in 1..n : q[k].item # s[l].item
  BY <1>1 DEF Has, Job
<1>6. Once(c)
  <2> SUFFICES ASSUME NEW k \in 1..(m + n), NEW l \in 1..(m + n), c[k].item = c[l].item
               PROVE  k = l
    BY <1>1 DEF Once
  <2>1. CASE k \in 1..m /\ l \in 1..m
    BY <1>1, <1>2, <2>1 DEF Once
  <2>2. CASE k \in 1..m /\ l \notin 1..m
    BY <1>2, <1>3, <1>4, <1>5, <2>2
  <2>3. CASE k \notin 1..m /\ l \in 1..m
    BY <1>2, <1>3, <1>4, <1>5, <2>3
  <2>4. CASE k \notin 1..m /\ l \notin 1..m
    <3>1. /\ k - m \in 1..n /\ l - m \in 1..n
          /\ s[k - m].item = s[l - m].item
      BY <1>3, <1>4, <2>4
    <3>2. k - m = l - m
      BY <1>1, <3>1 DEF Once
    <3> QED BY <1>1, <3>2
  <2> QED BY <2>1, <2>2, <2>3, <2>4
<1>7. \A i \in Items : Has(c, i) <=> Has(q, i) \/ Has(s, i)
  <2> SUFFICES ASSUME NEW i \in Items
               PROVE  Has(c, i) <=> Has(q, i) \/ Has(s, i)
    OBVIOUS
  <2>1. ASSUME NEW k \in 1..m, q[k].item = i
        PROVE  Has(c, i)
    BY <1>1, <1>2, <2>1 DEF Has
  <2>2. ASSUME NEW k \in 1..n, s[k].item = i
        PROVE  Has(c, i)
    BY <1>1, <1>3, <2>2 DEF Has
  <2>3. ASSUME NEW k \in 1..(m + n), c[k].item = i
        PROVE  Has(q, i) \/ Has(s, i)
    <3>1. CASE k \in 1..m
      BY <1>1, <1>2, <2>3, <3>1 DEF Has
    <3>2. CASE k - m \in 1..n /\ (k - m) + m = k
      BY <1>1, <1>3, <2>3, <3>2 DEF Has
    <3> QED BY <1>4, <3>1, <3>2
  <2> QED BY <1>1, <2>1, <2>2, <2>3 DEF Has
<1> QED BY <1>1, <1>6, <1>7 DEF c

\* SetToSeq lists every element once.
LEMMA ListOf ==
    ASSUME NEW S, IsFiniteSet(S)
    PROVE  LET s == SetToSeq(S)
           IN  /\ s \in Seq(S)
               /\ \A k, l \in DOMAIN s : s[k] = s[l] => k = l
               /\ \A x \in S : \E k \in DOMAIN s : s[k] = x
<1> DEFINE n == Cardinality(S)
           s == SetToSeq(S)
<1>1. n \in Nat /\ ExistsBijection(1..n, S)
  BY FS_CardinalityType
<1>2. \E f \in [1..n -> S] : IsInjective(f)
  BY <1>1 DEF ExistsBijection, Bijection, Injection
<1>3. s \in [1..n -> S] /\ IsInjective(s)
  BY <1>2 DEF SetToSeq
<1>4. s \in Injection(1..n, S)
  BY <1>3 DEF Injection
<1>5. Cardinality(1..n) = n
  BY <1>1, FS_Interval
<1>6. s \in Surjection(1..n, S)
  BY <1>4, <1>5, FS_Injection
<1> QED BY <1>1, <1>3, <1>6 DEF Surjection, IsInjective

\* The jobs of some items, one for each.
JobsOn(I, p) == SetToSeq({[item |-> i, policy |-> p] : i \in I})

LEMMA JobsOf ==
    ASSUME NEW I \in SUBSET Items, NEW p \in Policies \cup {None}
    PROVE  /\ JobsOn(I, p) \in Seq(Job) /\ Once(JobsOn(I, p))
           /\ \A i \in Items : Has(JobsOn(I, p), i) <=> i \in I
<1> DEFINE S == {[item |-> i, policy |-> p] : i \in I}
           s == SetToSeq(S)
           f == [i \in I |-> [item |-> i, policy |-> p]]
<1>1. IsFiniteSet(I)
  BY TransfersAssumption, FS_Subset
<1>2. f \in Surjection(I, S)
  BY DEF Surjection
<1>3. IsFiniteSet(S)
  BY <1>1, <1>2, FS_Surjection
<1>4. /\ s \in Seq(S)
      /\ \A k, l \in DOMAIN s : s[k] = s[l] => k = l
      /\ \A x \in S : \E k \in DOMAIN s : s[k] = x
  BY <1>3, ListOf
<1>5. \A x \in S : x \in Job /\ x.item \in I /\ x = [item |-> x.item, policy |-> p]
  BY DEF Job
<1>6. \A i \in I : [item |-> i, policy |-> p] \in S /\ [item |-> i, policy |-> p].item = i
  OBVIOUS
<1>7. \A k \in DOMAIN s : s[k] \in S
  BY <1>4, LenProperties, ElementOfSeq
<1> HIDE DEF S, s
<1>8. s \in Seq(Job)
  <2>1. S \subseteq Job
    BY <1>5
  <2> QED BY <1>4, <2>1, SeqMonotonic
<1>9. Once(s)
  <2> SUFFICES ASSUME NEW k \in DOMAIN s, NEW l \in DOMAIN s, s[k].item = s[l].item
               PROVE  k = l
    BY DEF Once
  <2>1. s[k] = s[l]
    BY <1>5, <1>7
  <2> QED BY <1>4, <2>1
<1>10. \A i \in Items : Has(s, i) <=> i \in I
  <2> SUFFICES ASSUME NEW i \in Items
               PROVE  Has(s, i) <=> i \in I
    OBVIOUS
  <2>1. ASSUME Has(s, i)
        PROVE  i \in I
    BY <1>5, <1>7, <2>1 DEF Has
  <2>2. ASSUME i \in I
        PROVE  Has(s, i)
    <3>1. PICK k \in DOMAIN s : s[k] = [item |-> i, policy |-> p]
      BY <1>4, <1>6, <2>2
    <3>2. s[k].item = i
      BY <3>1
    <3> QED BY <3>2 DEF Has
  <2> QED BY <2>1, <2>2
<1> QED BY <1>8, <1>9, <1>10 DEF S, s, JobsOn

(***************************************************************************)
(* What steps do to the tab's rows, runs and queues                        *)
(***************************************************************************)

\* Proving a row changes nothing but failure to success.
LEMMA ProvenRows ==
    ASSUME NEW items \in [Items -> Row], NEW names
    PROVE  /\ proven(items, names) \in [Items -> Row]
           /\ \A i \in Items :
                 /\ transferPending(proven(items, names)[i]) <=> transferPending(items[i])
                 /\ proven(items, names)[i].status = "conflict"
                       => proven(items, names)[i] = items[i]
<1>1. ASSUME NEW i \in Items
      PROVE  /\ proven(items, names)[i] \in Row
             /\ transferPending(proven(items, names)[i]) <=> transferPending(items[i])
             /\ proven(items, names)[i].status = "conflict"
                       => proven(items, names)[i] = items[i]
  <2>1. items[i] \in Row
    OBVIOUS
  <2>2. \/ proven(items, names)[i] = items[i]
        \/ /\ items[i].status = "error"
           /\ proven(items, names)[i] = [items[i] EXCEPT !.status = "success"]
    BY DEF proven
  <2> QED BY <2>1, <2>2 DEF Row, transferPending
<1>2. DOMAIN proven(items, names) = Items
      /\ proven(items, names) = [i \in Items |-> proven(items, names)[i]]
  BY DEF proven
<1> QED BY <1>1, <1>2

\* Rows change their look.
LEMMA RowsOnly ==
    ASSUME ClientInv, UNCHANGED <<runs, pending, inFlight>>, registered' \in SUBSET Batches,
           choice' \in [Batches -> {None, "replace", "rename", "skip"}],
           rows' \in [Items -> Row],
           \A i \in Items :
              /\ transferPending(rows'[i]) <=> transferPending(rows[i])
              /\ Spared(rows'[i], choice'[BatchOf[i]])
    PROVE  ClientInv'
<1>1. ClientTypes'
  BY DEF ClientInv, ClientTypes
<1>2. \A i \in Items : (Waits(i)' <=> Waits(i)) /\ (Runs(i)' <=> Runs(i))
  BY DEF Waits, Runs
<1>3. Worked'
  BY <1>2 DEF ClientInv, Worked
<1>4. Slotted'
  BY DEF ClientInv, Slotted, slotsOf
<1>5. SkipSparesChosen'
  BY DEF SkipSparesChosen, Spared
<1> QED BY <1>1, <1>3, <1>4, <1>5 DEF ClientInv

\* A run goes on.
LEMMA RunGoesOn ==
    ASSUME ClientInv, NEW u \in runs, NEW v \in Run,
           v.item = u.item, v.slot = u.slot, runs' = (runs \ {u}) \cup {v},
           UNCHANGED <<rows, pending, inFlight, registered, choice>>
    PROVE  ClientInv'
<1>1. ClientTypes'
  <2>1. IsFiniteSet(runs')
    BY FS_RemoveElement, FS_AddElement DEF ClientInv, ClientTypes
  <2> QED BY <2>1 DEF ClientInv, ClientTypes
<1>2. \A i \in Items : (Waits(i)' <=> Waits(i)) /\ (Runs(i)' <=> Runs(i))
  BY DEF Waits, Runs
<1>3. v \notin runs \ {u}
  BY DEF ClientInv, Worked
<1>4. Worked'
  BY <1>2 DEF ClientInv, Worked
<1>5. \A b \in Batches : slotsOf(runs', b) = slotsOf(runs, b)
  <2> SUFFICES ASSUME NEW b \in Batches PROVE slotsOf(runs', b) = slotsOf(runs, b)
    OBVIOUS
  <2> DEFINE S == {w \in runs : w.slot /\ BatchOf[w.item] = b}
             T == {w \in runs' : w.slot /\ BatchOf[w.item] = b}
  <2>1. IsFiniteSet(S) /\ Cardinality(S) \in Nat
    BY FS_Subset, FS_CardinalityType DEF ClientInv, ClientTypes
  <2>2. CASE u \in S
    <3>1. T = (S \ {u}) \cup {v} /\ v \notin S \ {u}
      BY <1>3, <2>2
    <3>2. IsFiniteSet(S \ {u}) /\ Cardinality(S \ {u}) = Cardinality(S) - 1
      BY <2>1, <2>2, FS_RemoveElement
    <3>3. Cardinality(T) = Cardinality(S \ {u}) + 1
      BY <3>1, <3>2, FS_AddElement
    <3> QED BY <2>1, <3>2, <3>3 DEF slotsOf
  <2>3. CASE u \notin S
    <3>1. T = S
      BY <2>3
    <3> QED BY <3>1 DEF slotsOf
  <2> QED BY <2>2, <2>3
<1>6. Slotted' /\ SkipSparesChosen'
  BY <1>5 DEF ClientInv, Slotted, SkipSparesChosen, Spared
<1> QED BY <1>1, <1>4, <1>6 DEF ClientInv

\* Runs end.
LEMMA RunsEnd ==
    ASSUME ClientInv, NEW us \in SUBSET runs, return(us), UNCHANGED <<pending, choice>>,
           rows' \in [Items -> Row],
           \A i \in Items :
              /\ transferPending(rows'[i])
                    <=> transferPending(rows[i]) /\ ~\E u \in us : u.item = i
              /\ Spared(rows'[i], choice[BatchOf[i]])
    PROVE  ClientInv'
<1>1. /\ IsFiniteSet(runs) /\ runs' = runs \ us /\ runs' \in SUBSET Run /\ registered' \in SUBSET Batches
      /\ inFlight' = [b \in Batches |-> inFlight[b] - slotsOf(us, b)]
  BY DEF ClientInv, ClientTypes, return
<1>2. ASSUME NEW b \in Batches
      PROVE  /\ slotsOf(runs', b) = slotsOf(runs, b) - slotsOf(us, b)
             /\ slotsOf(runs', b) \in Nat /\ slotsOf(us, b) \in Nat
  <2> DEFINE S == {w \in runs : w.slot /\ BatchOf[w.item] = b}
             T == {w \in us : w.slot /\ BatchOf[w.item] = b}
             R == {w \in runs' : w.slot /\ BatchOf[w.item] = b}
  <2>1. IsFiniteSet(S) /\ IsFiniteSet(T) /\ IsFiniteSet(R)
    <3>1. S \in SUBSET runs /\ T \in SUBSET runs /\ R \in SUBSET runs
      BY <1>1
    <3> QED BY <1>1, <3>1, FS_Subset
  <2>2. R = S \ T /\ S \cap T = T
    BY <1>1
  <2> HIDE DEF S, T, R
  <2>3. Cardinality(R) = Cardinality(S) - Cardinality(T)
    <3>1. Cardinality(S \ T) = Cardinality(S) - Cardinality(S \cap T)
      BY <2>1, FS_Difference
    <3> QED BY <2>2, <3>1
  <2>4. Cardinality(R) \in Nat /\ Cardinality(T) \in Nat
    BY <2>1, FS_CardinalityType
  <2> QED BY <2>3, <2>4 DEF slotsOf, S, T, R
<1>3. ClientTypes' /\ Slotted'
  <2>1. \A b \in Batches : /\ inFlight'[b] = slotsOf(runs', b) /\ inFlight'[b] \in Nat
                           /\ inFlight'[b] <= Concurrency
    <3> SUFFICES ASSUME NEW b \in Batches
                 PROVE  /\ inFlight'[b] = slotsOf(runs', b) /\ inFlight'[b] \in Nat
                        /\ inFlight'[b] <= Concurrency
      OBVIOUS
    <3>1. inFlight[b] = slotsOf(runs, b) /\ inFlight[b] <= Concurrency /\ inFlight[b] \in Nat
      BY DEF ClientInv, Slotted, ClientTypes
    <3>2. inFlight'[b] = inFlight[b] - slotsOf(us, b)
      BY <1>1
    <3>3. Concurrency \in Nat
      BY TransfersAssumption
    <3> QED BY <1>2, <3>1, <3>2, <3>3
  <2>2. IsFiniteSet(runs')
    BY <1>1, FS_Subset
  <2>3. inFlight' \in [Batches -> Nat]
    BY <1>1, <2>1
  <2> QED BY <1>1, <2>1, <2>2, <2>3 DEF ClientInv, ClientTypes, Slotted
<1>4. \A i \in Items : (Waits(i)' <=> Waits(i)) /\ (Runs(i)' <=> Runs(i) /\ ~\E u \in us : u.item = i)
  <2> SUFFICES ASSUME NEW i \in Items
               PROVE  (Waits(i)' <=> Waits(i)) /\ (Runs(i)' <=> Runs(i) /\ ~\E u \in us : u.item = i)
    OBVIOUS
  <2>1. \A u, v \in runs : u.item = v.item => u = v
    BY DEF ClientInv, Worked
  <2> QED BY <1>1, <2>1 DEF Waits, Runs
<1>5. \A u \in us : Runs(u.item) /\ u.item \in Items
  BY DEF Runs, ClientInv, ClientTypes, Run
<1>6. Worked'
  BY <1>1, <1>4, <1>5 DEF ClientInv, Worked
<1>7. SkipSparesChosen'
  BY DEF SkipSparesChosen, Spared
<1> QED BY <1>3, <1>6, <1>7 DEF ClientInv

\* A run begins: it takes a slot, or none.
LEMMA SlotsTaken ==
    ASSUME ClientTypes, NEW v \in Run, ~Runs(v.item), NEW b \in Batches
    PROVE  /\ IsFiniteSet(runs \cup {v})
           /\ slotsOf(runs \cup {v}, b)
                 = slotsOf(runs, b) + (IF v.slot /\ BatchOf[v.item] = b THEN 1 ELSE 0)
<1> DEFINE S == {w \in runs : w.slot /\ BatchOf[w.item] = b}
           T == {w \in runs \cup {v} : w.slot /\ BatchOf[w.item] = b}
<1>1. IsFiniteSet(S) /\ Cardinality(S) \in Nat /\ v \notin S
  BY FS_Subset, FS_CardinalityType DEF ClientTypes, Runs
<1>2. T = IF v.slot /\ BatchOf[v.item] = b THEN S \cup {v} ELSE S
  OBVIOUS
<1> HIDE DEF S, T
<1>3. Cardinality(S \cup {v}) = Cardinality(S) + 1
  BY <1>1, FS_AddElement
<1>4. IsFiniteSet(runs \cup {v})
  BY FS_AddElement DEF ClientTypes
<1>5. Cardinality(T) = Cardinality(S) + (IF v.slot /\ BatchOf[v.item] = b THEN 1 ELSE 0)
  BY <1>1, <1>2, <1>3
<1> QED BY <1>4, <1>5 DEF slotsOf, S, T

\* A failed upload is retried, beside the queue.
LEMMA Retried ==
    ASSUME ClientInv, NEW i \in Items, retryTransfer(i)
    PROVE  ClientInv'
<1> DEFINE v == newRun(i, rows[i].policy, FALSE)
<1>1. /\ rows[i].status = "error" /\ rows' = [rows EXCEPT ![i].status = "active"]
      /\ runs' = runs \cup {v} /\ UNCHANGED <<pending, inFlight, registered, choice>>
  BY DEF retryTransfer, withStatus
<1>2. v \in Run /\ v.item = i /\ v.slot = FALSE
  BY DEF ClientInv, ClientTypes, Row, Run, newRun
<1> HIDE DEF v
<1>3. ~Runs(i) /\ ~Waits(i)
  BY <1>1 DEF ClientInv, Worked, transferPending
<1>4. \A b \in Batches : slotsOf(runs', b) = slotsOf(runs, b) /\ IsFiniteSet(runs')
  <2> SUFFICES ASSUME NEW b \in Batches
               PROVE  slotsOf(runs', b) = slotsOf(runs, b) /\ IsFiniteSet(runs')
    OBVIOUS
  <2>1. slotsOf(runs, b) \in Nat
    BY DEF ClientInv, ClientTypes, Slotted
  <2>2. ClientTypes /\ ~Runs(v.item)
    BY <1>2, <1>3 DEF ClientInv
  <2>3. /\ IsFiniteSet(runs \cup {v})
        /\ slotsOf(runs \cup {v}, b)
              = slotsOf(runs, b) + (IF v.slot /\ BatchOf[v.item] = b THEN 1 ELSE 0)
    BY <1>2, <2>2, SlotsTaken
  <2> QED BY <1>1, <1>2, <2>1, <2>3
<1>5. rows' \in [Items -> Row] /\ rows'[i].status = "active"
      /\ \A k \in Items \ {i} : rows'[k] = rows[k]
  BY <1>1 DEF ClientInv, ClientTypes, Row
<1>6. ClientTypes'
  <2>1. BatchOf[i] \in Batches
    BY TransfersAssumption
  <2> QED BY <1>1, <1>2, <1>4, <1>5, <2>1 DEF ClientInv, ClientTypes
<1>7. \A k \in Items : (Waits(k)' <=> Waits(k)) /\ (Runs(k)' <=> Runs(k) \/ k = i)
  BY <1>1, <1>2 DEF Waits, Runs
<1>8. Worked'
  <2>1. \A u, w \in runs' : u.item = w.item => u = w
    BY <1>1, <1>2, <1>3 DEF ClientInv, Worked, Runs
  <2>2. \A b \in Batches : pending'[b] = pending[b]
    BY <1>1
  <2> QED BY <1>3, <1>5, <1>7, <2>1, <2>2 DEF ClientInv, Worked, transferPending
<1>9. Slotted' /\ SkipSparesChosen'
  BY <1>1, <1>4, <1>5 DEF ClientInv, Slotted, SkipSparesChosen, Spared
<1> QED BY <1>6, <1>8, <1>9 DEF ClientInv

\* A job starts.
LEMMA Pumped ==
    ASSUME ClientInv, NEW b \in Batches, pump(b)
    PROVE  ClientInv'
<1> DEFINE job == Head(pending[b])
           v == newRun(job.item, job.policy, TRUE)
<1>1. /\ inFlight[b] < Concurrency /\ pending[b] # <<>>
      /\ runs' = runs \cup {v}
      /\ rows' = IF rows[job.item].status = "queued"
                 THEN [rows EXCEPT ![job.item].status = "active"] ELSE rows
      /\ pending' = [pending EXCEPT ![b] = Tail(@)]
      /\ inFlight' = [inFlight EXCEPT ![b] = @ + 1] /\ UNCHANGED <<registered, choice>>
  BY DEF pump
<1>2. pending[b] \in Seq(Job) /\ Once(pending[b])
  BY DEF ClientInv, ClientTypes, Worked
<1>3. /\ Tail(pending[b]) \in Seq(Job) /\ job \in Job
      /\ Once(Tail(pending[b])) /\ Has(pending[b], job.item)
      /\ \A i \in Items : Has(Tail(pending[b]), i) <=> Has(pending[b], i) /\ i # job.item
  BY <1>1, <1>2, TailJobs
<1>4. PICK j \in Items : j = job.item
  BY <1>3 DEF Job
<1>5. v \in Run /\ v.item = j /\ v.slot = TRUE
  BY <1>3, <1>4 DEF Job, Run, newRun
<1> HIDE DEF job, v
<1>6. BatchOf[j] = b /\ Waits(j) /\ ~Runs(j) /\ transferPending(rows[j])
  BY <1>3, <1>4 DEF ClientInv, Worked, Waits
<1>7. \A c \in Batches : /\ slotsOf(runs', c) = slotsOf(runs, c) + (IF c = b THEN 1 ELSE 0)
                         /\ IsFiniteSet(runs')
  BY <1>1, <1>5, <1>6, SlotsTaken DEF ClientInv
<1>8. rows' \in [Items -> Row] /\ transferPending(rows'[j]) /\ rows'[j].status # "conflict"
      /\ \A k \in Items \ {j} : rows'[k] = rows[k]
  BY <1>1, <1>4, <1>6 DEF ClientInv, ClientTypes, Row, transferPending
<1>9. /\ pending' \in [Batches -> Seq(Job)] /\ pending'[b] = Tail(pending[b])
      /\ \A c \in Batches \ {b} : pending'[c] = pending[c]
  BY <1>1, <1>3 DEF ClientInv, ClientTypes
<1>10. ClientTypes'
  <2>1. runs' \in SUBSET Run /\ IsFiniteSet(runs')
    BY <1>1, <1>5, <1>7 DEF ClientInv, ClientTypes
  <2>2. inFlight' \in [Batches -> Nat]
    BY <1>1 DEF ClientInv, ClientTypes
  <2> QED BY <1>1, <1>8, <1>9, <2>1, <2>2 DEF ClientInv, ClientTypes
<1>11. \A k \in Items : (Waits(k)' <=> Waits(k) /\ k # j) /\ (Runs(k)' <=> Runs(k) \/ k = j)
  <2> SUFFICES ASSUME NEW k \in Items
               PROVE  (Waits(k)' <=> Waits(k) /\ k # j) /\ (Runs(k)' <=> Runs(k) \/ k = j)
    OBVIOUS
  <2>1. BatchOf[k] \in Batches
    BY TransfersAssumption
  <2>2. Waits(k)' <=> Waits(k) /\ k # j
    BY <1>3, <1>4, <1>6, <1>9, <2>1 DEF Waits
  <2>3. Runs(k)' <=> Runs(k) \/ k = j
    BY <1>1, <1>5 DEF Runs
  <2> QED BY <2>2, <2>3
<1>12. Worked'
  <2>1. \A u, w \in runs' : u.item = w.item => u = w
    BY <1>1, <1>5, <1>6 DEF ClientInv, Worked, Runs
  <2>2. \A c \in Batches : Once(pending'[c])
    BY <1>3, <1>9 DEF ClientInv, Worked
  <2>3. \A c \in Batches, i \in Items : Has(pending'[c], i) => BatchOf[i] = c
    BY <1>3, <1>9, ZenonT(60) DEF ClientInv, Worked
  <2>4. \A i \in Items : ~(Waits(i)' /\ Runs(i)')
    BY <1>11 DEF ClientInv, Worked
  <2>5. \A i \in Items : transferPending(rows'[i]) <=> Waits(i)' \/ Runs(i)'
    BY <1>8, <1>11 DEF ClientInv, Worked
  <2> QED BY <2>1, <2>2, <2>3, <2>4, <2>5 DEF Worked
<1>13. Slotted'
  <2> SUFFICES ASSUME NEW c \in Batches
               PROVE  inFlight'[c] = slotsOf(runs', c) /\ inFlight'[c] <= Concurrency
    BY DEF Slotted
  <2>1. inFlight[c] = slotsOf(runs, c) /\ inFlight[c] <= Concurrency /\ inFlight[c] \in Nat
    BY DEF ClientInv, ClientTypes, Slotted
  <2>2. inFlight'[c] = IF c = b THEN inFlight[c] + 1 ELSE inFlight[c]
    BY <1>1 DEF ClientInv, ClientTypes
  <2>3. Concurrency \in Nat /\ inFlight[b] \in Nat
    BY TransfersAssumption DEF ClientInv, ClientTypes
  <2>4. slotsOf(runs', c) = slotsOf(runs, c) + (IF c = b THEN 1 ELSE 0)
    BY <1>7
  <2>5. inFlight[b] < Concurrency
    BY <1>1
  <2> QED BY <2>1, <2>2, <2>3, <2>4, <2>5
<1>14. SkipSparesChosen'
  BY <1>1, <1>8 DEF ClientInv, SkipSparesChosen, Spared
<1> QED BY <1>10, <1>12, <1>13, <1>14 DEF ClientInv

\* Jobs are added to the queues for rows that are not pending.
LEMMA JobsAdded ==
    ASSUME ClientInv, NEW is \in SUBSET Items, NEW p \in Policies \cup {None},
           \A i \in is : ~transferPending(rows[i]),
           pending' = [b \in Batches |-> pending'[b]],
           \A b \in Batches :
              \/ pending'[b] = pending[b] \o JobsOn(is \cap itemsOf(b), p)
              \/ /\ pending'[b] = JobsOn(is \cap itemsOf(b), p)
                 /\ \A i \in Items : ~Has(pending[b], i),
           UNCHANGED <<runs, inFlight>>, registered' \in SUBSET Batches,
           choice' \in [Batches -> {None, "replace", "rename", "skip"}],
           rows' \in [Items -> Row],
           \A i \in Items :
              /\ transferPending(rows'[i]) <=> transferPending(rows[i]) \/ i \in is
              /\ Spared(rows'[i], choice'[BatchOf[i]])
    PROVE  ClientInv'
<1>1. ASSUME NEW b \in Batches
      PROVE  /\ pending'[b] \in Seq(Job) /\ Once(pending'[b])
             /\ \A i \in Items : Has(pending'[b], i)
                                    <=> Has(pending[b], i) \/ (i \in is /\ BatchOf[i] = b)
  <2> DEFINE s == JobsOn(is \cap itemsOf(b), p)
  <2>1. is \cap itemsOf(b) \in SUBSET Items
    OBVIOUS
  <2>2. s \in Seq(Job) /\ Once(s) /\ \A i \in Items : Has(s, i) <=> i \in is \cap itemsOf(b)
    BY <2>1, JobsOf
  <2>3. \/ pending'[b] = pending[b] \o s
        \/ pending'[b] = s /\ \A i \in Items : ~Has(pending[b], i)
    OBVIOUS
  <2> HIDE DEF s
  <2>4. pending[b] \in Seq(Job) /\ Once(pending[b])
    BY DEF ClientInv, ClientTypes, Worked
  <2>5. \A i \in Items : i \in itemsOf(b) <=> BatchOf[i] = b
    BY DEF itemsOf
  <2>6. \A i \in Items : ~(Has(pending[b], i) /\ Has(s, i))
    BY <2>2, <2>5 DEF ClientInv, Worked, Waits
  <2>7. /\ pending[b] \o s \in Seq(Job) /\ Once(pending[b] \o s)
        /\ \A i \in Items : Has(pending[b] \o s, i) <=> Has(pending[b], i) \/ Has(s, i)
    BY <2>2, <2>4, <2>6, ConcatJobs
  <2> QED BY <2>2, <2>3, <2>5, <2>7
<1>2. pending' \in [Batches -> Seq(Job)]
  BY <1>1
<1>3. \A i \in Items : (Waits(i)' <=> Waits(i) \/ i \in is) /\ (Runs(i)' <=> Runs(i))
  BY <1>1, TransfersAssumption DEF Waits, Runs
<1>4. ClientTypes'
  BY <1>2 DEF ClientInv, ClientTypes
<1>5. Worked'
  <2>1. \A b \in Batches, i \in Items : Has(pending'[b], i) => BatchOf[i] = b
    BY <1>1 DEF ClientInv, Worked
  <2>2. \A i \in Items : ~(Waits(i)' /\ Runs(i)')
    BY <1>3 DEF ClientInv, Worked
  <2> QED BY <1>1, <1>3, <2>1, <2>2 DEF ClientInv, Worked
<1>6. Slotted' /\ SkipSparesChosen'
  BY DEF ClientInv, Slotted, SkipSparesChosen, Spared, slotsOf
<1> QED BY <1>4, <1>5, <1>6 DEF ClientInv

(***************************************************************************)
(* What steps do to requests                                               *)
(***************************************************************************)

InPlace == {r \in RequestIds : requests[r].at \in {"serving", "claimed"}}

\* Requests of other runs are as they were.
OthersAsked(r) ==
    \A q \in RequestIds \ {r} : requests[q].at # "none" =>
        /\ requests'[q].at # "none"
        /\ requests'[q].item = requests[q].item
        /\ requests'[q].used = requests[q].used

\* Places are counted: there are finitely many requests.
LEMMA InPlaceFinite == IsFiniteSet(InPlace) /\ Cardinality(InPlace) \in Nat
<1>1. InPlace \in SUBSET RequestIds
  BY DEF InPlace
<1> QED BY <1>1, TransfersAssumption, FS_Subset, FS_CardinalityType

\* A request that ends gives its place to the first that waits.
LEMMA Released ==
    ASSUME ServerInv, NEW r \in RequestIds, requests[r].at \in {"serving", "claimed"},
           release(r)
    PROVE  ServerInv' /\ OthersAsked(r)
<1>1. /\ requests \in [RequestIds -> Request] /\ active \in Nat /\ waiters \in Seq(RequestIds)
      /\ active = Cardinality(InPlace) /\ active <= MaxConcurrentUploads
      /\ waiters # <<>> => active = MaxConcurrentUploads
      /\ MaxConcurrentUploads \in Nat \ {0}
  BY TransfersAssumption DEF ServerInv, ServerTypes, Placed, InPlace
<1>2. Cardinality(InPlace) >= 1 /\ r \in InPlace
      /\ IsFiniteSet(InPlace \ {r}) /\ Cardinality(InPlace \ {r}) = active - 1
      /\ active - 1 \in Nat
  <2>1. r \in InPlace
    BY DEF InPlace
  <2>2. IsFiniteSet(InPlace \ {r}) /\ Cardinality(InPlace \ {r}) = active - 1
    BY <1>1, <2>1, InPlaceFinite, FS_RemoveElement
  <2>3. Cardinality(InPlace \ {r}) \in Nat
    BY <2>2, FS_CardinalityType
  <2> QED BY <1>1, <2>1, <2>2, <2>3
<1>3. NoRequest \in Request /\ NoRequest.at = "none"
  BY DEF NoRequest, Request
<1>4. CASE waiters = <<>>
  <2>1. /\ active' = active - 1 /\ waiters' = waiters
        /\ requests' = [q \in RequestIds |-> IF q = r THEN NoRequest ELSE requests[q]]
    BY <1>4 DEF release
  <2>2. requests' \in [RequestIds -> Request]
    BY <1>1, <1>3, <2>1
  <2>3. InPlace' = InPlace \ {r}
    BY <1>3, <2>1 DEF InPlace
  <2>4. Placed'
    <3>1. active' = Cardinality(InPlace') /\ active' <= MaxConcurrentUploads
      BY <1>1, <1>2, <2>1, <2>3
    <3> QED BY <1>4, <2>1, <3>1 DEF Placed, InPlace
  <2>5. Queued'
    BY <1>3, <1>4, <2>1 DEF ServerInv, Queued
  <2>6. OthersAsked(r)
    BY <2>1 DEF OthersAsked
  <2> QED BY <1>1, <1>2, <1>4, <2>1, <2>2, <2>4, <2>5, <2>6 DEF ServerInv, ServerTypes
<1>5. CASE waiters # <<>>
  <2> DEFINE h == Head(waiters)
  <2>1. /\ h \in RequestIds /\ h = waiters[1] /\ Tail(waiters) \in Seq(RequestIds)
        /\ DOMAIN waiters = 1..Len(waiters) /\ Len(waiters) \in Nat \ {0}
        /\ DOMAIN Tail(waiters) = 1..(Len(waiters) - 1)
        /\ \A k \in 1..(Len(waiters) - 1) : Tail(waiters)[k] = waiters[k + 1]
        /\ \A k \in 1..Len(waiters) : waiters[k] \in RequestIds
    BY <1>1, <1>5, HeadTailProperties, LenProperties, ElementOfSeq
  <2>2. /\ active' = active - 1 + 1 /\ waiters' = Tail(waiters)
        /\ requests' = [q \in RequestIds |-> IF q = r THEN NoRequest
                           ELSE IF q = h THEN [requests[q] EXCEPT !.at = "serving"]
                           ELSE requests[q]]
    BY <1>5 DEF release
  <2>3. requests[h].at = "waiting" /\ h # r /\ h \notin InPlace
    BY <2>1 DEF ServerInv, Queued, InPlace
  <2> HIDE DEF h
  <2>4. /\ requests'[r] = NoRequest
        /\ requests'[h].at = "serving" /\ requests'[h].item = requests[h].item
        /\ requests'[h].used = requests[h].used
        /\ \A q \in RequestIds \ {r, h} : requests'[q] = requests[q]
    BY <1>1, <2>1, <2>2, <2>3 DEF Request
  <2>5. requests' \in [RequestIds -> Request]
    BY <1>1, <1>3, <2>2 DEF Request
  <2>6. InPlace' = (InPlace \ {r}) \cup {h}
    BY <1>3, <2>1, <2>3, <2>4 DEF InPlace
  <2>7. Cardinality(InPlace') = active - 1 + 1
    BY <1>2, <2>3, <2>6, FS_AddElement
  <2>8. active' = active /\ active' = Cardinality(InPlace')
    BY <1>1, <1>2, <2>2, <2>7
  <2>9. Placed'
    BY <1>1, <1>5, <2>8 DEF Placed, InPlace
  <2>10. \A k \in 1..(Len(waiters) - 1) :
            /\ waiters'[k] = waiters[k + 1] /\ k + 1 \in DOMAIN waiters
            /\ requests'[waiters'[k]].at = "waiting"
    <3> SUFFICES ASSUME NEW k \in 1..(Len(waiters) - 1)
                 PROVE  /\ waiters'[k] = waiters[k + 1] /\ k + 1 \in DOMAIN waiters
                        /\ requests'[waiters'[k]].at = "waiting"
      OBVIOUS
    <3>1. waiters'[k] = waiters[k + 1] /\ k + 1 \in DOMAIN waiters /\ 1 \in DOMAIN waiters
          /\ k + 1 # 1 /\ waiters[k + 1] \in RequestIds
      BY <2>1, <2>2
    <3>2. requests[waiters[k + 1]].at = "waiting" /\ waiters[k + 1] # h
      BY <2>1, <3>1 DEF ServerInv, Queued
    <3>3. waiters[k + 1] # r
      BY <3>2
    <3> QED BY <2>4, <3>1, <3>2, <3>3
  <2>11. \A k, l \in 1..(Len(waiters) - 1) : waiters'[k] = waiters'[l] => k = l
    <3> SUFFICES ASSUME NEW k \in 1..(Len(waiters) - 1), NEW l \in 1..(Len(waiters) - 1),
                        waiters'[k] = waiters'[l]
                 PROVE  k = l
      OBVIOUS
    <3>1. k + 1 = l + 1
      BY <2>10 DEF ServerInv, Queued
    <3> QED BY <2>1, <3>1
  <2>12. \A q \in RequestIds : requests'[q].at # "none" => requests'[q].item \in Items
    BY <1>3, <2>3, <2>4 DEF ServerInv, Queued
  <2>13. Queued'
    <3>1. DOMAIN waiters' = 1..(Len(waiters) - 1)
      BY <2>1, <2>2
    <3> QED BY <2>10, <2>11, <2>12, <3>1 DEF Queued
  <2>14. OthersAsked(r)
    BY <2>3, <2>4 DEF OthersAsked
  <2> QED BY <1>1, <2>1, <2>2, <2>5, <2>8, <2>9, <2>13, <2>14 DEF ServerInv, ServerTypes
<1> QED BY <1>4, <1>5

\* A request is sent: it takes a place, or its turn.
LEMMA Sent ==
    ASSUME ServerInv, NEW r \in RequestIds, requests[r].at = "none",
           NEW req \in Request, req.item \in Items,
           req.at = IF active >= MaxConcurrentUploads THEN "waiting" ELSE "serving",
           requests' = [requests EXCEPT ![r] = req],
           active' = IF active >= MaxConcurrentUploads THEN active ELSE active + 1,
           waiters' = IF active >= MaxConcurrentUploads THEN Append(waiters, r) ELSE waiters
    PROVE  ServerInv' /\ OthersAsked(r)
<1>1. /\ requests \in [RequestIds -> Request] /\ active \in Nat /\ waiters \in Seq(RequestIds)
      /\ active = Cardinality(InPlace) /\ active <= MaxConcurrentUploads
      /\ waiters # <<>> => active = MaxConcurrentUploads
      /\ MaxConcurrentUploads \in Nat \ {0}
  BY TransfersAssumption DEF ServerInv, ServerTypes, Placed, InPlace
<1>2. /\ requests' \in [RequestIds -> Request] /\ requests'[r] = req
      /\ \A q \in RequestIds \ {r} : requests'[q] = requests[q]
  BY <1>1
<1>3. OthersAsked(r)
  BY <1>2 DEF OthersAsked
<1>4. r \notin InPlace
  BY DEF InPlace
<1>5. \A k \in DOMAIN waiters : waiters[k] \in RequestIds \ {r}
  BY <1>1, LenProperties, ElementOfSeq DEF ServerInv, Queued
<1>6. CASE active >= MaxConcurrentUploads
  <2>1. InPlace' = InPlace
    BY <1>2, <1>4, <1>6 DEF InPlace
  <2>2. active' = active /\ active = MaxConcurrentUploads
    BY <1>1, <1>6
  <2>3. /\ waiters' \in Seq(RequestIds) /\ DOMAIN waiters = 1..Len(waiters)
        /\ Len(waiters) \in Nat /\ DOMAIN waiters' = 1..(Len(waiters) + 1)
        /\ \A k \in 1..Len(waiters) : waiters'[k] = waiters[k]
        /\ waiters'[Len(waiters) + 1] = r
    BY <1>1, <1>6, AppendProperties, LenProperties
  <2>4. \A k \in 1..(Len(waiters) + 1) : k \in 1..Len(waiters) \/ k = Len(waiters) + 1
    BY <2>3
  <2>5. Queued'
    <3>1. \A k \in DOMAIN waiters' : requests'[waiters'[k]].at = "waiting"
      BY <1>2, <1>5, <1>6, <2>3, <2>4 DEF ServerInv, Queued
    <3>2. \A k, l \in DOMAIN waiters' : waiters'[k] = waiters'[l] => k = l
      BY <1>5, <2>3, <2>4 DEF ServerInv, Queued
    <3> QED BY <1>2, <3>1, <3>2 DEF ServerInv, Queued
  <2>6. Placed'
    BY <1>1, <2>1, <2>2 DEF Placed, InPlace
  <2> QED BY <1>1, <1>2, <1>3, <2>2, <2>3, <2>5, <2>6 DEF ServerInv, ServerTypes
<1>7. CASE ~(active >= MaxConcurrentUploads)
  <2>1. InPlace' = InPlace \cup {r}
    BY <1>2, <1>7 DEF InPlace
  <2>2. Cardinality(InPlace') = active + 1
    BY <1>1, <1>4, <2>1, InPlaceFinite, FS_AddElement
  <2>3. active' = active + 1 /\ active' <= MaxConcurrentUploads /\ waiters = <<>> /\ waiters' = waiters
    BY <1>1, <1>7
  <2>4. Placed'
    BY <2>2, <2>3 DEF Placed, InPlace
  <2>5. Queued'
    BY <1>2, <2>3 DEF ServerInv, Queued
  <2> QED BY <1>1, <1>2, <1>3, <2>3, <2>4, <2>5 DEF ServerInv, ServerTypes
<1> QED BY <1>6, <1>7

\* A request goes on in its place, or finds its file cut short.
LEMMA RequestGoesOn ==
    ASSUME ServerInv, UNCHANGED <<active, waiters>>, NEW r \in RequestIds,
           NEW req \in Request, requests' = [requests EXCEPT ![r] = req],
           req.item = requests[r].item, req.used = requests[r].used,
           req.at = requests[r].at \/ (requests[r].at = "serving" /\ req.at = "claimed")
    PROVE  ServerInv' /\ OthersAsked(None)
<1>1. requests \in [RequestIds -> Request]
  BY DEF ServerInv, ServerTypes
<1>2. /\ requests' \in [RequestIds -> Request] /\ requests'[r] = req
      /\ \A q \in RequestIds \ {r} : requests'[q] = requests[q]
  BY <1>1
<1>3. InPlace' = InPlace
  BY <1>2 DEF InPlace
<1>4. Placed'
  BY <1>3 DEF ServerInv, Placed, InPlace
<1>5. Queued'
  <2>1. \A k \in DOMAIN waiters : waiters[k] \in RequestIds
    BY LenProperties, ElementOfSeq DEF ServerInv, ServerTypes
  <2>2. \A q \in RequestIds : requests[q].at = "waiting" => requests'[q].at = "waiting"
    BY <1>2
  <2>3. \A q \in RequestIds : requests'[q].at # "none" => requests'[q].item \in Items
    BY <1>2 DEF ServerInv, Queued
  <2> QED BY <2>1, <2>2, <2>3 DEF ServerInv, Queued
<1>6. OthersAsked(None)
  BY <1>2 DEF OthersAsked
<1> QED BY <1>2, <1>4, <1>5, <1>6 DEF ServerInv, ServerTypes

(***************************************************************************)
(* Steps of uploads                                                        *)
(***************************************************************************)

\* What a step leaves alone stays so.
LEMMA ClientKept ==
    ASSUME ClientInv, UNCHANGED clientVars
    PROVE  ClientInv'
BY DEF ClientInv, ClientTypes, Worked, Slotted, SkipSparesChosen, Spared, Waits, Runs, clientVars

\* Nothing happens on the server.
LEMMA ServerKept ==
    ASSUME ServerInv, UNCHANGED <<requests, active, waiters>>
    PROVE  ServerInv'
BY DEF ServerInv, ServerTypes, Queued, Placed

\* The requests that runs wait for are still theirs.
LEMMA AskedKept ==
    ASSUME Asked, NEW r, OthersAsked(r), runs' \subseteq runs,
           \A u \in runs' : u.at = "sent" => u.request # r
    PROVE  Asked'
BY DEF Asked, OthersAsked

\* Nothing happens to requests.
LEMMA AskedSame ==
    ASSUME Asked, UNCHANGED requests,
           \A u \in runs' : \/ u \in runs
                            \/ u.at \in {"started", "waiting"} /\ u.request = None
    PROVE  Asked'
BY DEF Asked

\* One run has its answer.
LEMMA Concluded ==
    ASSUME ClientInv, Asked, NEW u \in runs, NEW outcome \in {"ok", "failed", "exists"},
           NEW names, conclude(u, outcome, names),
           outcome = "exists" => u.at \in {"asking", "sent"} /\ u.used # "replace"
    PROVE  ClientInv' /\ runs' = runs \ {u}
<1> DEFINE items == [rows EXCEPT ![u.item] = outcomeOf(u, outcome)]
<1>1. /\ return({u}) /\ rows' = proven(items, names) /\ UNCHANGED <<pending, choice>>
      /\ runs' = runs \ {u}
  BY DEF conclude, return
<1>2. PICK i \in Items : i = u.item
  BY DEF ClientInv, ClientTypes, Run
<1>3. /\ outcomeOf(u, outcome) \in Row /\ ~transferPending(outcomeOf(u, outcome))
      /\ Spared(outcomeOf(u, outcome), choice[BatchOf[i]])
  <2>1. u.policy \in Policies \cup {None}
    BY DEF ClientInv, ClientTypes, Run
  <2>2. outcome = "exists" => u.policy \in {None, "rename"}
    BY <2>1 DEF Asked, Policies
  <2> QED BY <1>2, <2>1, <2>2 DEF outcomeOf, Row, transferPending, Spared
<1>4. items \in [Items -> Row]
  BY <1>2, <1>3 DEF ClientInv, ClientTypes
<1>5. /\ items[i] = outcomeOf(u, outcome)
      /\ \A k \in Items \ {i} : items[k] = rows[k]
  BY <1>2 DEF ClientInv, ClientTypes
<1> HIDE DEF items
<1>6. /\ rows' \in [Items -> Row]
      /\ \A k \in Items :
            /\ transferPending(rows'[k]) <=> transferPending(items[k])
            /\ rows'[k].status = "conflict" => rows'[k] = items[k]
  BY <1>1, <1>4, ProvenRows
<1>7. ASSUME NEW k \in Items
      PROVE  /\ transferPending(rows'[k]) <=> transferPending(rows[k]) /\ ~\E v \in {u} : v.item = k
             /\ Spared(rows'[k], choice[BatchOf[k]])
  <2>1. CASE k = i
    BY <1>2, <1>3, <1>5, <1>6, <2>1 DEF Spared
  <2>2. CASE k # i
    BY <1>2, <1>5, <1>6, <2>2 DEF ClientInv, SkipSparesChosen, Spared
  <2> QED BY <2>1, <2>2
<1> QED BY <1>1, <1>6, <1>7, RunsEnd

\* A request has ended, and its run has the answer if it still waits.
LEMMA Answered ==
    ASSUME ClientInv, Asked, ServerInv, NEW r \in RequestIds,
           requests[r].at \in {"serving", "claimed"},
           NEW outcome \in {"ok", "failed", "exists"}, NEW names, answer(r, outcome, names),
           outcome = "exists" => requests[r].used # "replace"
    PROVE  ClientInv' /\ Asked' /\ ServerInv'
<1>1. ServerInv' /\ OthersAsked(r)
  BY Released DEF answer
<1>2. None \notin RequestIds
  BY TransfersAssumption
<1>3. CASE \E u \in runs : u.request = r
  <2>1. PICK u \in runs : u = (CHOOSE v \in runs : v.request = r) /\ u.request = r
    BY <1>3
  <2>2. conclude(u, outcome, names)
    BY <1>3, <2>1 DEF answer
  <2>3. u.at = "sent" /\ requests[r].item = u.item /\ requests[r].used = u.used
    BY <1>2, <2>1 DEF Asked
  <2>4. ClientInv' /\ runs' = runs \ {u}
    BY <2>2, <2>3, Concluded
  <2>5. \A v \in runs' : v.at = "sent" => v.request # r
    <3> SUFFICES ASSUME NEW v \in runs, v # u, v.at = "sent", v.request = r
                 PROVE  FALSE
      BY <2>4
    <3>1. requests[r].item = v.item
      BY DEF Asked
    <3> QED BY <2>3, <3>1 DEF ClientInv, Worked
  <2> QED BY <1>1, <2>4, <2>5, AskedKept
<1>4. CASE ~\E u \in runs : u.request = r
  <2>1. /\ rows' = proven(rows, names)
        /\ UNCHANGED <<runs, pending, inFlight, registered, choice, watched, subfolder>>
    BY <1>4 DEF answer
  <2>2. rows \in [Items -> Row]
    BY DEF ClientInv, ClientTypes
  <2>3. /\ rows' \in [Items -> Row]
        /\ \A k \in Items :
              /\ transferPending(rows'[k]) <=> transferPending(rows[k])
              /\ rows'[k].status = "conflict" => rows'[k] = rows[k]
    BY <2>1, <2>2, ProvenRows
  <2>4. ClientInv'
    BY <2>1, <2>3, RowsOnly DEF ClientInv, ClientTypes, SkipSparesChosen, Spared
  <2> QED BY <1>1, <1>4, <2>1, <2>4, AskedKept
<1> QED BY <1>3, <1>4

\* The server claims the name for a request, or answers that it exists.
LEMMA ClaimNameKeeps ==
    ASSUME ClientInv, Asked, ServerInv, NEW r \in RequestIds, claimName(r)
    PROVE  ClientInv' /\ Asked' /\ ServerInv'
<1>1. requests[r].at = "serving"
  BY DEF claimName
<1>2. CASE requests[r].used = None /\ taken(requests[r].item, r)
  BY <1>1, <1>2, Answered, TransfersAssumption DEF claimName
<1>3. CASE ~(requests[r].used = None /\ taken(requests[r].item, r))
  <2>1. PICK anew \in BOOLEAN :
           /\ anew => requests[r].used = "rename"
           /\ requests' = [requests EXCEPT ![r] = [@ EXCEPT !.at = "claimed", !.renamed = anew]]
           /\ UNCHANGED <<clientVars, active, waiters>>
    BY <1>3 DEF claimName
  <2>2. requests[r] \in Request
    BY DEF ServerInv, ServerTypes
  <2>3. PICK req \in Request :
           req = [requests[r] EXCEPT !.at = "claimed", !.renamed = anew]
    BY <2>1, <2>2 DEF Request
  <2>4. /\ requests' = [requests EXCEPT ![r] = req]
        /\ req.item = requests[r].item /\ req.used = requests[r].used /\ req.at = "claimed"
    BY <2>1, <2>2, <2>3 DEF Request
  <2>5. ServerInv' /\ OthersAsked(None)
    BY <1>1, <2>1, <2>4, RequestGoesOn
  <2>6. \A u \in runs : u.at = "sent" => u.request # None
    BY TransfersAssumption DEF Asked
  <2> QED BY <2>1, <2>5, <2>6, AskedKept, ClientKept DEF clientVars
<1> QED BY <1>2, <1>3

\* A claimed request lands its file, or finds the name taken.
LEMMA LandKeeps ==
    ASSUME ClientInv, Asked, ServerInv, NEW r \in RequestIds, land(r)
    PROVE  ClientInv' /\ Asked' /\ ServerInv'
<1> DEFINE i == requests[r].item
           listed == i \notin InSubfolder /\ ~requests[r].renamed
           names == IF listed THEN [listing EXCEPT ![NameOf[i]] = i] ELSE listing
<1>1. /\ requests[r].at = "claimed"
      /\ \/ answer(r, "exists", listing) /\ requests[r].used # "replace"
         \/ answer(r, "ok", names)
  BY DEF land
<1> HIDE DEF names
<1> QED BY <1>1, Answered

\* The new name of a request is taken.
LEMMA NewNameTakenKeeps ==
    ASSUME ClientInv, Asked, ServerInv, NEW r \in RequestIds, newNameTaken(r)
    PROVE  ClientInv' /\ Asked' /\ ServerInv'
<1>1. requests[r] \in Request /\ requests[r].renamed
  BY DEF newNameTaken, ServerInv, ServerTypes
<1>2. requests[r].used # "replace"
  BY <1>1 DEF Request
<1> QED BY <1>2, Answered DEF newNameTaken

\* The server fails a request.
LEMMA ServeFailsKeeps ==
    ASSUME ClientInv, Asked, ServerInv, NEW r \in RequestIds, serveFails(r)
    PROVE  ClientInv' /\ Asked' /\ ServerInv'
BY Answered DEF serveFails

\* A request is refused before it is served.
LEMMA RefusedKeeps ==
    ASSUME ClientInv, Asked, ServerInv, NEW u \in runs, refused(u) \/ refusedBusy(u)
    PROVE  ClientInv' /\ Asked' /\ ServerInv'
<1>1. UNCHANGED <<requests, active, waiters>>
  BY DEF refused, refusedBusy, serverVars
<1>2. ClientInv' /\ runs' = runs \ {u}
  BY Concluded, TransfersAssumption DEF refused, refusedBusy
<1> QED BY <1>1, <1>2, ServerKept, AskedSame

\* An answer is lost: the run ends, its request goes on.
LEMMA LoseKeeps ==
    ASSUME ClientInv, Asked, ServerInv, NEW u \in runs, lose(u)
    PROVE  ClientInv' /\ Asked' /\ ServerInv'
<1>1. ClientInv' /\ runs' = runs \ {u}
  BY Concluded DEF lose
<1>2. CASE u.at = "sent" /\ requests[u.request].at = "waiting"
  <2> DEFINE r == u.request
  <2>1. r \in RequestIds /\ requests[r] \in Request
    BY <1>2 DEF Asked, ServerInv, ServerTypes
  <2>2. PICK req \in Request : req = [requests[r] EXCEPT !.cut = TRUE]
    BY <2>1 DEF Request
  <2>3. /\ requests' = [requests EXCEPT ![r] = req] /\ UNCHANGED <<active, waiters>>
        /\ req.item = requests[r].item /\ req.used = requests[r].used
        /\ req.at = requests[r].at
    BY <1>2, <2>1, <2>2 DEF lose, Request
  <2>4. ServerInv' /\ OthersAsked(None)
    BY <2>1, <2>3, RequestGoesOn
  <2>5. \A v \in runs' : v.at = "sent" => v.request # None
    BY <1>1, TransfersAssumption DEF Asked
  <2> QED BY <1>1, <2>4, <2>5, AskedKept
<1>3. CASE ~(u.at = "sent" /\ requests[u.request].at = "waiting")
  <2>1. UNCHANGED <<requests, active, waiters>>
    BY <1>3 DEF lose
  <2> QED BY <1>1, <2>1, ServerKept, AskedSame
<1> QED BY <1>2, <1>3

\* A run sends its request.
LEMMA SendKeeps ==
    ASSUME ClientInv, Asked, ServerInv, NEW u \in runs, send(u)
    PROVE  ClientInv' /\ Asked' /\ ServerInv'
<1> DEFINE full == active >= MaxConcurrentUploads
<1>1. PICK r \in RequestIds : /\ r = (CHOOSE x \in RequestIds : requests[x] = NoRequest)
                              /\ requests[r] = NoRequest
  BY DEF send
<1>2. u \in Run /\ u.item \in Items /\ u.at = "asking"
  BY DEF ClientInv, ClientTypes, Run, send
<1>3. PICK req \in Request : req = [NoRequest EXCEPT !.at = IF full THEN "waiting" ELSE "serving",
                                                     !.item = u.item, !.used = u.used]
  <2>1. PICK place \in {"waiting", "serving"} : place = IF full THEN "waiting" ELSE "serving"
    OBVIOUS
  <2> DEFINE a == [NoRequest EXCEPT !.at = place]
             i == [a EXCEPT !.item = u.item]
             q == [i EXCEPT !.used = u.used]
  <2>2. a \in Request /\ ~a.renamed
    BY DEF NoRequest, Request
  <2> HIDE DEF a
  <2>3. i \in Request /\ ~i.renamed
    BY <1>2, <2>2 DEF Request
  <2> HIDE DEF i
  <2>4. q \in Request
    BY <1>2, <2>3 DEF Request, Run
  <2>5. q = [NoRequest EXCEPT !.at = IF full THEN "waiting" ELSE "serving",
                              !.item = u.item, !.used = u.used]
    BY <2>1 DEF a, i
  <2> QED BY <2>4, <2>5
<1>4. PICK v \in Run : v = [u EXCEPT !.at = "sent", !.request = r]
  BY <1>2 DEF Run
<1>5. /\ requests' = [requests EXCEPT ![r] = req]
      /\ active' = IF full THEN active ELSE active + 1
      /\ waiters' = IF full THEN Append(waiters, r) ELSE waiters
      /\ runs' = (runs \ {u}) \cup {v}
      /\ UNCHANGED <<rows, pending, inFlight, registered, choice>>
  BY <1>1, <1>3, <1>4 DEF send
<1>6. /\ req.at = IF full THEN "waiting" ELSE "serving"
      /\ req.item = u.item /\ req.used = u.used
  BY <1>3 DEF NoRequest
<1>7. /\ v.item = u.item /\ v.slot = u.slot /\ v.at = "sent" /\ v.request = r
      /\ v.used = u.used /\ v.policy = u.policy
  BY <1>2, <1>4 DEF Run
<1>8. ServerInv' /\ OthersAsked(r)
  <2>1. requests[r].at = "none"
    BY <1>1 DEF NoRequest
  <2> QED BY <1>2, <1>5, <1>6, <2>1, Sent
<1>9. ClientInv'
  BY <1>5, <1>7, RunGoesOn
<1>10. requests'[r] = req /\ req.at # "none"
  BY <1>5, <1>6 DEF ServerInv, ServerTypes
<1>11. Asked'
  <2>1. requests[r].at = "none"
    BY <1>1 DEF NoRequest
  <2>2. ASSUME NEW w \in runs'
        PROVE  /\ w.at \in {"asking", "sent"} /\ w.policy # None => w.used = w.policy
               /\ w.at # "sent" => w.request = None
               /\ w.at = "sent" => /\ w.request \in RequestIds
                                   /\ requests'[w.request].at # "none"
                                   /\ requests'[w.request].item = w.item
                                   /\ requests'[w.request].used = w.used
    <3>1. CASE w = v
      BY <1>2, <1>6, <1>7, <1>10, <3>1 DEF Asked
    <3>2. CASE w \in runs
      BY <1>8, <2>1, <3>2 DEF Asked, OthersAsked
    <3> QED BY <1>5, <3>1, <3>2
  <2> QED BY <2>2 DEF Asked
<1> QED BY <1>8, <1>9, <1>11

\* A run goes on by itself.
LEMMA RunKeeps ==
    ASSUME ClientInv, Asked, ServerInv, NEW u \in runs, resolveTargetFolder(u) \/ call(u)
    PROVE  ClientInv' /\ Asked' /\ ServerInv'
<1>1. /\ UNCHANGED <<rows, pending, inFlight, registered, choice, requests, active, waiters>>
      /\ u.at \in {"started", "waiting"} /\ u \in Run
  BY DEF resolveTargetFolder, call, ready, serverVars, ClientInv, ClientTypes
<1>2. BatchOf[u.item] \in Batches
  BY <1>1, TransfersAssumption DEF Run
<1>3. PICK v \in Run : /\ runs' = (runs \ {u}) \cup {v} /\ v.item = u.item /\ v.slot = u.slot
                       /\ v.request = u.request /\ v.at # "sent"
                       /\ v.at = "asking" /\ v.policy # None => v.used = v.policy
  <2>1. CASE resolveTargetFolder(u)
    <3> DEFINE v == [u EXCEPT !.at = "waiting"]
    <3>1. v \in Run /\ v.item = u.item /\ v.slot = u.slot /\ v.request = u.request /\ v.at = "waiting"
      BY <1>1 DEF Run
    <3> QED BY <2>1, <3>1 DEF resolveTargetFolder
  <2>2. CASE call(u)
    <3> DEFINE used == IF u.policy # None THEN u.policy
                       ELSE IF choice[BatchOf[u.item]] = "skip" THEN None
                       ELSE choice[BatchOf[u.item]]
               v == [u EXCEPT !.at = "asking", !.used = used]
    <3>1. used \in Policies \cup {None} /\ (u.policy # None => used = u.policy)
      BY <1>1, <1>2 DEF Run, ClientInv, ClientTypes, Policies
    <3>2. runs' = (runs \ {u}) \cup {v}
      BY <2>2 DEF call
    <3> HIDE DEF used
    <3>3. /\ v \in Run /\ v.item = u.item /\ v.slot = u.slot /\ v.request = u.request
          /\ v.at = "asking" /\ v.used = used /\ v.policy = u.policy
      BY <1>1, <3>1 DEF Run
    <3> QED BY <3>1, <3>2, <3>3
  <2> QED BY <2>1, <2>2
<1>4. ClientInv'
  BY <1>1, <1>3, RunGoesOn
<1>5. Asked'
  <2>1. u.request = None
    BY <1>1 DEF Asked
  <2> QED BY <1>1, <1>3, <2>1 DEF Asked
<1> QED BY <1>1, <1>4, <1>5, ServerKept

\* A run begins, for the first job of a queue or for a retry.
LEMMA StartKeeps ==
    ASSUME ClientInv, Asked, ServerInv,
           (\E b \in Batches : pump(b)) \/ (\E i \in Items : retryTransfer(i))
    PROVE  ClientInv' /\ Asked' /\ ServerInv'
<1>1. UNCHANGED <<requests, active, waiters>>
  BY DEF pump, retryTransfer, serverVars
<1>2. \A v \in runs' : \/ v \in runs
                       \/ v.at = "started" /\ v.request = None
  <2>1. PICK w : runs' = runs \cup {w} /\ w.at = "started" /\ w.request = None
    <3>1. ASSUME NEW b \in Batches, pump(b)
          PROVE  \E w : runs' = runs \cup {w} /\ w.at = "started" /\ w.request = None
      <4> DEFINE w == newRun(Head(pending[b]).item, Head(pending[b]).policy, TRUE)
      <4>1. w.at = "started" /\ w.request = None
        BY DEF newRun
      <4>2. runs' = runs \cup {w}
        BY <3>1 DEF pump
      <4> QED BY <4>1, <4>2
    <3>2. ASSUME NEW i \in Items, retryTransfer(i)
          PROVE  \E w : runs' = runs \cup {w} /\ w.at = "started" /\ w.request = None
      <4> DEFINE w == newRun(i, rows[i].policy, FALSE)
      <4>1. w.at = "started" /\ w.request = None
        BY DEF newRun
      <4>2. runs' = runs \cup {w}
        BY <3>2 DEF retryTransfer
      <4> QED BY <4>1, <4>2
    <3> QED BY <3>1, <3>2
  <2> QED BY <2>1
<1> QED BY <1>1, <1>2, Pumped, Retried, ServerKept, AskedSame

\* The subfolder of a drop cannot be made, and all that waits for it fails.
LEMMA FolderFailsKeeps ==
    ASSUME ClientInv, Asked, ServerInv, NEW b \in Batches, folderFails(b)
    PROVE  ClientInv' /\ Asked' /\ ServerInv'
<1> DEFINE us == {u \in runs : u.at = "waiting" /\ BatchOf[u.item] = b}
           items == [i \in Items |-> IF \E u \in us : u.item = i
                        THEN outcomeOf(CHOOSE u \in us : u.item = i, "failed") ELSE rows[i]]
<1>1. /\ return(us) /\ rows' = proven(items, listing) /\ UNCHANGED <<pending, choice>>
      /\ UNCHANGED <<requests, active, waiters>> /\ us \in SUBSET runs /\ runs' = runs \ us
  BY DEF folderFails, return, serverVars
<1>2. ASSUME NEW i \in Items
      PROVE  /\ items[i] \in Row
             /\ transferPending(items[i]) <=> transferPending(rows[i]) /\ ~\E u \in us : u.item = i
             /\ items[i].status = "conflict" => items[i] = rows[i]
  <2>1. CASE \E u \in us : u.item = i
    <3>1. PICK u \in us : u = (CHOOSE v \in us : v.item = i)
      BY <2>1
    <3>2. items[i] = outcomeOf(u, "failed")
      BY <2>1, <3>1
    <3>3. u.policy \in Policies \cup {None}
      BY DEF ClientInv, ClientTypes, Run
    <3> QED BY <2>1, <3>2, <3>3 DEF outcomeOf, Row, transferPending
  <2>2. CASE ~\E u \in us : u.item = i
    <3>1. items[i] = rows[i]
      BY <2>2
    <3> QED BY <2>2, <3>1 DEF ClientInv, ClientTypes
  <2> QED BY <2>1, <2>2
<1>3. items \in [Items -> Row]
  BY <1>2
<1> HIDE DEF items, us
<1>4. /\ rows' \in [Items -> Row]
      /\ \A k \in Items :
            /\ transferPending(rows'[k]) <=> transferPending(items[k])
            /\ rows'[k].status = "conflict" => rows'[k] = items[k]
  BY <1>1, <1>3, ProvenRows
<1>5. \A k \in Items :
         /\ transferPending(rows'[k]) <=> transferPending(rows[k]) /\ ~\E u \in us : u.item = k
         /\ Spared(rows'[k], choice[BatchOf[k]])
  BY <1>2, <1>4 DEF ClientInv, SkipSparesChosen, Spared
<1>6. ClientInv'
  BY <1>1, <1>4, <1>5, RunsEnd
<1> QED BY <1>1, <1>6, ServerKept, AskedSame

(***************************************************************************)
(* Steps of the user with uploads                                          *)
(***************************************************************************)

\* No items, no jobs.
LEMMA NoJobs ==
    ASSUME NEW p \in Policies \cup {None}
    PROVE  JobsOn({}, p) = <<>>
<1> DEFINE s == JobsOn({}, p)
<1>1. s \in Seq(Job) /\ \A i \in Items : ~Has(s, i)
  <2>1. {} \in SUBSET Items
    OBVIOUS
  <2> QED BY <2>1, JobsOf
<1> HIDE DEF s
<1>2. ASSUME s # <<>>
      PROVE  FALSE
  <2>1. 1 \in DOMAIN s /\ s[1] \in Job
    BY <1>1, <1>2, EmptySeq, LenProperties, ElementOfSeq
  <2> QED BY <1>1, <2>1 DEF Has, Job
<1> QED BY <1>2 DEF s

\* Files are dropped: a job for each.
LEMMA DropKeeps ==
    ASSUME ClientInv, Asked, ServerInv, NEW b \in Batches, drop(b)
    PROVE  ClientInv' /\ Asked' /\ ServerInv'
<1>1. /\ \A i \in itemsOf(b) : rows[i].status = "none"
      /\ rows' = [i \in Items |-> IF i \in itemsOf(b) THEN [NoRow EXCEPT !.status = "queued"]
                                  ELSE rows[i]]
      /\ pending' = [pending EXCEPT ![b] = JobsOn(itemsOf(b), None)]
      /\ registered' = registered \cup {b}
      /\ UNCHANGED <<runs, inFlight, choice, requests, active, waiters>>
  BY DEF drop, JobsOn, serverVars
<1>2. itemsOf(b) \in SUBSET Items
  BY DEF itemsOf
<1>3. \A i \in Items : i \in itemsOf(b) => ~transferPending(rows[i])
  BY <1>1, <1>2 DEF transferPending
<1>4. ASSUME NEW i \in Items
      PROVE  ~Has(pending[b], i)
  <2>1. Has(pending[b], i) => i \in itemsOf(b) /\ Waits(i)
    BY DEF ClientInv, Worked, Waits, itemsOf
  <2> QED BY <1>3, <2>1 DEF ClientInv, Worked
<1>5. /\ pending' = [c \in Batches |-> pending'[c]]
      /\ \A c \in Batches :
            \/ pending'[c] = pending[c] \o JobsOn(itemsOf(b) \cap itemsOf(c), None)
            \/ /\ pending'[c] = JobsOn(itemsOf(b) \cap itemsOf(c), None)
               /\ \A i \in Items : ~Has(pending[c], i)
  <2>1. ASSUME NEW c \in Batches, c = b
        PROVE  /\ pending'[c] = JobsOn(itemsOf(b) \cap itemsOf(c), None)
               /\ \A i \in Items : ~Has(pending[c], i)
    <3>1. itemsOf(b) \cap itemsOf(c) = itemsOf(b)
      BY <2>1
    <3> QED BY <1>1, <1>4, <2>1, <3>1 DEF ClientInv, ClientTypes
  <2>2. ASSUME NEW c \in Batches, c # b
        PROVE  pending'[c] = pending[c] \o JobsOn(itemsOf(b) \cap itemsOf(c), None)
    <3>1. itemsOf(b) \cap itemsOf(c) = {}
      BY <2>2 DEF itemsOf
    <3>2. pending'[c] = pending[c] /\ pending[c] \in Seq(Job)
      BY <1>1, <2>2 DEF ClientInv, ClientTypes
    <3> QED BY <3>1, <3>2, NoJobs, ConcatEmptySeq
  <2>3. pending' = [c \in Batches |-> pending'[c]]
    BY <1>1 DEF ClientInv, ClientTypes
  <2> QED BY <2>1, <2>2, <2>3
<1>6. rows' \in [Items -> Row]
  <2>1. [NoRow EXCEPT !.status = "queued"] \in Row
    BY DEF NoRow, Row
  <2> QED BY <1>1, <2>1 DEF ClientInv, ClientTypes
<1>7. \A i \in Items :
         /\ transferPending(rows'[i]) <=> transferPending(rows[i]) \/ i \in itemsOf(b)
         /\ Spared(rows'[i], choice'[BatchOf[i]])
  BY <1>1 DEF NoRow, transferPending, ClientInv, SkipSparesChosen, Spared
<1>8. /\ registered' \in SUBSET Batches
      /\ choice' \in [Batches -> {None, "replace", "rename", "skip"}]
  BY <1>1 DEF ClientInv, ClientTypes
<1>9. ClientInv'
  BY <1>1, <1>2, <1>3, <1>5, <1>6, <1>7, <1>8, JobsAdded
<1> QED BY <1>1, <1>9, ServerKept, AskedSame

\* A choice for some parked rows, or for all of them.
LEMMA ResolvedKeeps ==
    ASSUME ClientInv, NEW is \in SUBSET withStatus("conflict"), NEW p \in Policies,
           resolved(is, p), UNCHANGED <<runs, inFlight, registered>>,
           choice' \in [Batches -> {None, "replace", "rename", "skip"}],
           \A i \in withStatus("conflict") \ is : Spared(rows[i], choice'[BatchOf[i]])
    PROVE  ClientInv'
<1> DEFINE items == [i \in Items |-> IF i \in is THEN [NoRow EXCEPT !.status = "queued"]
                                     ELSE rows[i]]
<1>1. /\ rows' = proven(items, listing)
      /\ pending' = [b \in Batches |-> pending[b] \o JobsOn(is \cap itemsOf(b), p)]
  BY DEF resolved, JobsOn
<1>2. /\ is \in SUBSET Items
      /\ \A i \in is : rows[i].status = "conflict" /\ ~transferPending(rows[i])
  BY DEF withStatus, transferPending
<1>3. items \in [Items -> Row]
  <2>1. [NoRow EXCEPT !.status = "queued"] \in Row
    BY DEF NoRow, Row
  <2> QED BY <2>1 DEF ClientInv, ClientTypes
<1>4. \A i \in Items :
         /\ transferPending(items[i]) <=> transferPending(rows[i]) \/ i \in is
         /\ items[i].status = "conflict"
               => i \in withStatus("conflict") \ is /\ items[i] = rows[i]
  BY DEF NoRow, transferPending, withStatus
<1> HIDE DEF items
<1>5. /\ rows' \in [Items -> Row]
      /\ \A k \in Items :
            /\ transferPending(rows'[k]) <=> transferPending(items[k])
            /\ rows'[k].status = "conflict" => rows'[k] = items[k]
  BY <1>1, <1>3, ProvenRows
<1>6. \A i \in Items :
         /\ transferPending(rows'[i]) <=> transferPending(rows[i]) \/ i \in is
         /\ Spared(rows'[i], choice'[BatchOf[i]])
  BY <1>4, <1>5 DEF Spared
<1>7. registered' \in SUBSET Batches
  BY DEF ClientInv, ClientTypes
<1> QED BY <1>1, <1>2, <1>5, <1>6, <1>7, JobsAdded, ZenonT(60)

\* The user chooses for one parked row or for all.
LEMMA ResolveKeeps ==
    ASSUME ClientInv, Asked, ServerInv, NEW p \in Policies,
           resolveAllTransferConflicts(p) \/ \E i \in Items : resolve(i, p)
    PROVE  ClientInv' /\ Asked' /\ ServerInv'
<1>1. UNCHANGED <<runs, inFlight, registered, requests, active, waiters>>
  BY DEF resolveAllTransferConflicts, resolve, serverVars
<1>2. CASE resolveAllTransferConflicts(p)
  <2>1. choice' \in [Batches -> {None, "replace", "rename", "skip"}]
    BY <1>2 DEF resolveAllTransferConflicts, heard, Policies, ClientInv, ClientTypes
  <2> QED BY <1>1, <1>2, <2>1, ResolvedKeeps, ServerKept, AskedSame DEF resolveAllTransferConflicts
<1>3. ASSUME NEW i \in Items, resolve(i, p)
      PROVE  ClientInv' /\ Asked' /\ ServerInv'
  <2>1. {i} \in SUBSET withStatus("conflict") /\ resolved({i}, p) /\ UNCHANGED choice
    BY <1>3 DEF resolve
  <2>2. \A j \in withStatus("conflict") : Spared(rows[j], choice[BatchOf[j]])
    BY DEF withStatus, ClientInv, SkipSparesChosen, Spared
  <2>3. choice' \in [Batches -> {None, "replace", "rename", "skip"}]
    BY <2>1 DEF ClientInv, ClientTypes
  <2> QED BY <1>1, <2>1, <2>2, <2>3, ResolvedKeeps, ServerKept, AskedSame
<1> QED BY <1>2, <1>3

\* Steps that change how rows look.
LEMMA LooksKeep ==
    ASSUME ClientInv, Asked, ServerInv,
           \/ skipAllTransferConflicts
           \/ clearFinishedTransfers
           \/ \E n \in Names : othersChange(n)
           \/ \E b \in Batches : folderCreated(b)
    PROVE  ClientInv' /\ Asked' /\ ServerInv'
<1>1. UNCHANGED <<runs, pending, inFlight, registered, requests, active, waiters>>
  BY DEF skipAllTransferConflicts, clearFinishedTransfers, othersChange, folderCreated, serverVars
<1>2. registered' \in SUBSET Batches
  BY <1>1 DEF ClientInv, ClientTypes
<1>3. [NoRow EXCEPT !.status = "gone"] \in Row
  BY DEF NoRow, Row
<1>4. CASE skipAllTransferConflicts
  <2>1. choice' \in [Batches -> {None, "replace", "rename", "skip"}]
    BY <1>4 DEF skipAllTransferConflicts, heard, ClientInv, ClientTypes
  <2>2. rows' \in [Items -> Row]
    BY <1>3, <1>4 DEF skipAllTransferConflicts, ClientInv, ClientTypes
  <2>3. \A i \in Items :
           /\ transferPending(rows'[i]) <=> transferPending(rows[i])
           /\ rows'[i].status # "conflict"
    BY <1>4 DEF skipAllTransferConflicts, withStatus, transferPending, NoRow
  <2> QED BY <1>1, <1>2, <2>1, <2>2, <2>3, RowsOnly, ServerKept, AskedSame DEF Spared
<1>5. CASE clearFinishedTransfers
  <2>1. choice' \in [Batches -> {None, "replace", "rename", "skip"}] /\ UNCHANGED choice
    BY <1>5 DEF clearFinishedTransfers, ClientInv, ClientTypes
  <2>2. rows' \in [Items -> Row]
    BY <1>3, <1>5 DEF clearFinishedTransfers, ClientInv, ClientTypes
  <2>3. \A i \in Items :
           /\ transferPending(rows'[i]) <=> transferPending(rows[i])
           /\ rows'[i].status = "conflict" => rows'[i] = rows[i]
    BY <1>5 DEF clearFinishedTransfers, transferFinished, transferPending, NoRow
  <2> QED BY <1>1, <1>2, <2>1, <2>2, <2>3, RowsOnly, ServerKept, AskedSame DEF ClientInv, SkipSparesChosen, Spared
<1>6. ASSUME NEW n \in Names, othersChange(n)
      PROVE  ClientInv' /\ Asked' /\ ServerInv'
  <2>1. choice' \in [Batches -> {None, "replace", "rename", "skip"}] /\ UNCHANGED choice
    BY <1>6 DEF othersChange, ClientInv, ClientTypes
  <2>2. PICK names : names = listing'
    OBVIOUS
  <2>3. rows' = proven(rows, names) /\ rows \in [Items -> Row]
    BY <1>6, <2>2 DEF othersChange, ClientInv, ClientTypes
  <2>4. /\ rows' \in [Items -> Row]
        /\ \A i \in Items :
              /\ transferPending(rows'[i]) <=> transferPending(rows[i])
              /\ rows'[i].status = "conflict" => rows'[i] = rows[i]
    BY <2>3, ProvenRows
  <2> QED BY <1>1, <1>2, <2>1, <2>4, RowsOnly, ServerKept, AskedSame DEF ClientInv, SkipSparesChosen, Spared
<1>7. ASSUME NEW b \in Batches, folderCreated(b)
      PROVE  ClientInv' /\ Asked' /\ ServerInv'
  <2>1. UNCHANGED <<rows, choice>>
    BY <1>7 DEF folderCreated
  <2> QED BY <1>1, <1>2, <2>1, RowsOnly, ServerKept, AskedSame DEF ClientInv, ClientTypes, SkipSparesChosen, Spared
<1> QED BY <1>4, <1>5, <1>6, <1>7

(***************************************************************************)
(* Steps of folders                                                        *)
(***************************************************************************)

\* Operations are asked for and change, and are never taken back.
OperationsGrow ==
    /\ operations' \in [Folders -> Seq(Operation)]
    /\ \A f \in Folders : DOMAIN operations[f] \subseteq DOMAIN operations'[f]

\* Nothing happens to folders.
LEMMA FolderKept ==
    ASSUME FolderInv, UNCHANGED folderVars
    PROVE  FolderInv'
BY DEF FolderInv, FolderTypes, Called, folderVars

\* Proving a row changes nothing but failure to success.
LEMMA SettledRows ==
    ASSUME NEW items \in [Folders -> FolderRow], NEW gone
    PROVE  /\ settledBy(items, gone) \in [Folders -> FolderRow]
           /\ \A f \in Folders :
                 /\ transferPending(settledBy(items, gone)[f]) <=> transferPending(items[f])
                 /\ settledBy(items, gone)[f].operation = items[f].operation
                 /\ settledBy(items, gone)[f].kind = items[f].kind
                 /\ settledBy(items, gone)[f].status = "success"
                       => items[f].status = "success" \/ f \in gone
<1>1. ASSUME NEW f \in Folders
      PROVE  /\ settledBy(items, gone)[f] \in FolderRow
             /\ transferPending(settledBy(items, gone)[f]) <=> transferPending(items[f])
             /\ settledBy(items, gone)[f].operation = items[f].operation
             /\ settledBy(items, gone)[f].kind = items[f].kind
             /\ settledBy(items, gone)[f].status = "success"
                   => items[f].status = "success" \/ f \in gone
  <2>1. items[f] \in FolderRow
    OBVIOUS
  <2>2. \/ settledBy(items, gone)[f] = items[f]
        \/ /\ items[f].status = "error" /\ f \in gone
           /\ settledBy(items, gone)[f] = [items[f] EXCEPT !.status = "success"]
    BY DEF settledBy
  <2> QED BY <2>1, <2>2 DEF FolderRow, transferPending
<1>2. settledBy(items, gone) = [f \in Folders |-> settledBy(items, gone)[f]]
  BY DEF settledBy
<1> QED BY <1>1, <1>2

\* Some folder rows become the same.
LEMMA RowsWith ==
    ASSUME FolderTypes, NEW fs, NEW row \in FolderRow
    PROVE  /\ withRows(fs, row) \in [Folders -> FolderRow]
           /\ \A f \in Folders : withRows(fs, row)[f] = IF f \in fs THEN row ELSE folderRows[f]
BY DEF FolderTypes, withRows

\* A call that is left alone is still in turn.
LEMMA TurnKept ==
    ASSUME NEW c \in Call, FolderTypes, OperationsGrow, InTurn(c, operations, away),
           away \subseteq away'
    PROVE  InTurn(c, operations', away')
<1>1. \A k \in DOMAIN c.todo : c.todo[k] \in Folders \X Nat
  BY LenProperties, ElementOfSeq DEF Call
<1>2. \A k \in DOMAIN c.todo : c.todo[k][1] \in Folders
  BY <1>1
<1>3. \A k \in DOMAIN c.todo : c.todo[k][2] \in DOMAIN operations'[c.todo[k][1]]
  BY <1>2 DEF InTurn, OperationsGrow
<1> QED BY <1>3 DEF InTurn

\* Calls end and begin, at most one of them anew, and rows are settled with them.
CallsMoved(old, new) ==
    /\ away' \in SUBSET Folders /\ away \subseteq away'
    /\ old \in SUBSET calls /\ new \in SUBSET Call
    /\ \A c, d \in new : c = d
    /\ calls' = (calls \ old) \cup new
    /\ \A c \in new : InTurn(c, operations', away')
    /\ \A c \in new, d \in calls \ old : c.left \cap d.left = {}
    /\ folderRows' \in [Folders -> FolderRow]
    /\ \A f \in Folders :
          /\ transferPending(folderRows'[f])
                <=> \/ transferPending(folderRows[f]) /\ ~\E c \in old : f \in c.left
                    \/ \E c \in new : f \in c.left
          /\ folderRows'[f].status = "success" /\ folderRows'[f].kind # "stay" => f \in away'
          /\ folderRows'[f].operation \in {0} \cup DOMAIN operations'[f]

\* Then every folder row is still settled by the call that has it.
LEMMA CallsMove ==
    ASSUME FolderInv, OperationsGrow, NEW old, NEW new, CallsMoved(old, new)
    PROVE  FolderInv'
<1>1. FolderTypes'
  BY DEF FolderInv, FolderTypes, OperationsGrow, CallsMoved
<1>2. \A c, d \in calls', f \in Folders : f \in c.left /\ f \in d.left => c = d
  BY DEF FolderInv, Called, CallsMoved
<1>3. \A f \in Folders : transferPending(folderRows'[f]) <=> \E c \in calls' : f \in c.left
  <2> SUFFICES ASSUME NEW f \in Folders
               PROVE  transferPending(folderRows'[f]) <=> \E c \in calls' : f \in c.left
    OBVIOUS
  <2>1. (\E c \in calls' : f \in c.left) <=> \/ \E c \in calls \ old : f \in c.left
                                             \/ \E c \in new : f \in c.left
    BY DEF CallsMoved
  <2>2. (\E c \in calls \ old : f \in c.left)
            <=> (\E c \in calls : f \in c.left) /\ ~\E c \in old : f \in c.left
    BY DEF FolderInv, Called, CallsMoved
  <2> QED BY <2>1, <2>2 DEF FolderInv, Called, CallsMoved
<1>4. \A c \in calls' : InTurn(c, operations', away')
  <2>1. \A c \in calls : c \in Call /\ InTurn(c, operations, away)
    BY DEF FolderInv, FolderTypes, Called
  <2> QED BY <2>1, TurnKept DEF FolderInv, CallsMoved
<1> QED BY <1>1, <1>2, <1>3, <1>4 DEF FolderInv, Called, CallsMoved

\* One call goes on.
LEMMA CallGoesOn ==
    ASSUME FolderInv, OperationsGrow, away' \in SUBSET Folders, away \subseteq away',
           NEW c \in calls, NEW d \in Call, calls' = (calls \ {c}) \cup {d},
           InTurn(d, operations', away'),
           \A x \in calls \ {c} : d.left \cap x.left = {},
           folderRows' \in [Folders -> FolderRow],
           \A f \in Folders :
              /\ transferPending(folderRows'[f]) <=> (transferPending(folderRows[f]) /\ f \notin c.left) \/ f \in d.left
              /\ folderRows'[f].status = "success" /\ folderRows'[f].kind # "stay" => f \in away'
              /\ folderRows'[f].operation \in {0} \cup DOMAIN operations'[f]
    PROVE  FolderInv'
<1>1. PICK old \in SUBSET calls, new \in SUBSET Call : old = {c} /\ new = {d}
  OBVIOUS
<1>3. /\ \A x, y \in new : x = y
      /\ calls' = (calls \ old) \cup new
      /\ \A x \in new : InTurn(x, operations', away')
      /\ \A x \in new, y \in calls \ old : x.left \cap y.left = {}
      /\ \A f \in Folders : transferPending(folderRows'[f])
             <=> \/ transferPending(folderRows[f]) /\ ~\E x \in old : f \in x.left
                 \/ \E x \in new : f \in x.left
  BY <1>1
<1>4. CallsMoved(old, new)
  BY <1>3 DEF CallsMoved
<1> QED BY <1>4, CallsMove

\* One call begins.
LEMMA CallBegins ==
    ASSUME FolderInv, OperationsGrow, away' \in SUBSET Folders, away \subseteq away',
           NEW d \in Call, calls' = calls \cup {d},
           InTurn(d, operations', away'),
           \A f \in d.left : ~transferPending(folderRows[f]),
           folderRows' \in [Folders -> FolderRow],
           \A f \in Folders :
              /\ transferPending(folderRows'[f]) <=> transferPending(folderRows[f]) \/ f \in d.left
              /\ folderRows'[f].status = "success" /\ folderRows'[f].kind # "stay" => f \in away'
              /\ folderRows'[f].operation \in {0} \cup DOMAIN operations'[f]
    PROVE  FolderInv'
<1>1. PICK old \in SUBSET calls, new \in SUBSET Call : old = {} /\ new = {d}
  OBVIOUS
<1>2. \A x \in calls : d.left \cap x.left = {}
  <2>1. \A x \in calls : x.left \subseteq Folders
    BY DEF FolderInv, FolderTypes, Call
  <2> QED BY <2>1 DEF FolderInv, Called
<1>3. /\ \A x, y \in new : x = y
      /\ calls' = (calls \ old) \cup new
      /\ \A x \in new : InTurn(x, operations', away')
      /\ \A x \in new, y \in calls \ old : x.left \cap y.left = {}
      /\ \A f \in Folders : transferPending(folderRows'[f])
             <=> \/ transferPending(folderRows[f]) /\ ~\E x \in old : f \in x.left
                 \/ \E x \in new : f \in x.left
  BY <1>1, <1>2
<1>4. CallsMoved(old, new)
  BY <1>3 DEF CallsMoved
<1> QED BY <1>4, CallsMove

\* One call ends.
LEMMA CallGone ==
    ASSUME FolderInv, OperationsGrow, away' \in SUBSET Folders, away \subseteq away',
           NEW c \in calls, calls' = calls \ {c},
           folderRows' \in [Folders -> FolderRow],
           \A f \in Folders :
              /\ transferPending(folderRows'[f]) <=> transferPending(folderRows[f]) /\ f \notin c.left
              /\ folderRows'[f].status = "success" /\ folderRows'[f].kind # "stay" => f \in away'
              /\ folderRows'[f].operation \in {0} \cup DOMAIN operations'[f]
    PROVE  FolderInv'
<1>1. PICK old \in SUBSET calls, new \in SUBSET Call : old = {c} /\ new = {}
  OBVIOUS
<1>3. /\ \A x, y \in new : x = y
      /\ calls' = (calls \ old) \cup new
      /\ \A x \in new : InTurn(x, operations', away')
      /\ \A x \in new, y \in calls \ old : x.left \cap y.left = {}
      /\ \A f \in Folders : transferPending(folderRows'[f])
             <=> \/ transferPending(folderRows[f]) /\ ~\E x \in old : f \in x.left
                 \/ \E x \in new : f \in x.left
  BY <1>1
<1>4. CallsMoved(old, new)
  BY <1>3 DEF CallsMoved
<1> QED BY <1>4, CallsMove

\* Calls are as they were.
LEMMA CallsSame ==
    ASSUME FolderInv, OperationsGrow, away' \in SUBSET Folders, away \subseteq away',
           UNCHANGED calls,
           folderRows' \in [Folders -> FolderRow],
           \A f \in Folders :
              /\ transferPending(folderRows'[f]) <=> transferPending(folderRows[f])
              /\ folderRows'[f].status = "success" /\ folderRows'[f].kind # "stay" => f \in away'
              /\ folderRows'[f].operation \in {0} \cup DOMAIN operations'[f]
    PROVE  FolderInv'
<1>1. PICK old \in SUBSET calls, new \in SUBSET Call : old = {} /\ new = {}
  OBVIOUS
<1>3. /\ \A x, y \in new : x = y
      /\ calls' = (calls \ old) \cup new
      /\ \A x \in new : InTurn(x, operations', away')
      /\ \A x \in new, y \in calls \ old : x.left \cap y.left = {}
      /\ \A f \in Folders : transferPending(folderRows'[f])
             <=> \/ transferPending(folderRows[f]) /\ ~\E x \in old : f \in x.left
                 \/ \E x \in new : f \in x.left
  BY <1>1
<1>4. CallsMoved(old, new)
  BY <1>3 DEF CallsMoved
<1> QED BY <1>4, CallsMove

\* A call settles the row of its first operation.
LEMMA GoesOnKeeps ==
    ASSUME FolderInv, OperationsGrow, away' \in SUBSET Folders, away \subseteq away',
           NEW c \in calls, c.at # "asking", c.todo # <<>>,
           NEW row \in FolderRow, NEW gone, gone = away', goesOn(c, row, gone),
           ~transferPending(row),
           row.status = "success" => Head(c.todo)[1] \in away',
           row.operation \in {0} \cup DOMAIN operations'[Head(c.todo)[1]]
    PROVE  FolderInv'
<1> DEFINE f == Head(c.todo)[1]
           d == [c EXCEPT !.at = "running", !.todo = Tail(@), !.left = stillToSettle(c, {f})]
           items == withRows({f}, row)
<1>1. /\ calls' = (calls \ {c}) \cup {d} /\ folderRows' = settledBy(items, gone)
  BY DEF goesOn
<1>2. c \in Call /\ InTurn(c, operations, away)
  BY DEF FolderInv, FolderTypes, Called
<1>3. /\ c.todo \in Seq(Folders \X Nat) /\ Len(c.todo) \in Nat \ {0}
      /\ DOMAIN c.todo = 1..Len(c.todo) /\ Head(c.todo) = c.todo[1] /\ 1 \in DOMAIN c.todo
      /\ Tail(c.todo) \in Seq(Folders \X Nat) /\ DOMAIN Tail(c.todo) = 1..(Len(c.todo) - 1)
      /\ \A k \in 1..(Len(c.todo) - 1) : Tail(c.todo)[k] = c.todo[k + 1] /\ k + 1 \in DOMAIN c.todo
      /\ \A k \in DOMAIN c.todo : c.todo[k] \in Folders \X Nat
  BY <1>2, HeadTailProperties, LenProperties, ElementOfSeq DEF Call
<1>4. f \in Folders /\ f \in c.left /\ c.left \subseteq Folders
  <2>1. c.todo[1][1] \in c.left /\ Head(c.todo) = c.todo[1]
    BY <1>2, <1>3 DEF InTurn
  <2> QED BY <1>2, <2>1 DEF Call
<1>5. /\ d \in Call /\ d.at = "running" /\ d.todo = Tail(c.todo) /\ d.left = c.left \ {f}
  BY <1>2, <1>3, <1>4 DEF Call, stillToSettle
<1>6. InTurn(d, operations', away')
  <2>1. ASSUME NEW k \in DOMAIN d.todo
        PROVE  /\ d.todo[k] = c.todo[k + 1] /\ k + 1 \in DOMAIN c.todo /\ k + 1 # 1
               /\ d.todo[k][1] \in d.left
               /\ d.todo[k][2] \in DOMAIN operations'[d.todo[k][1]]
    <3>1. d.todo[k] = c.todo[k + 1] /\ k + 1 \in DOMAIN c.todo /\ k + 1 # 1
      BY <1>3, <1>5
    <3>2. c.todo[k + 1][1] \in c.left /\ c.todo[k + 1][1] # f
      BY <1>2, <1>3, <3>1 DEF InTurn
    <3>3. c.todo[k + 1][2] \in DOMAIN operations'[c.todo[k + 1][1]]
      BY <1>2, <1>4, <3>1, <3>2 DEF InTurn, OperationsGrow
    <3> QED BY <1>5, <3>1, <3>2, <3>3
  <2>2. \A k, l \in DOMAIN d.todo : d.todo[k][1] = d.todo[l][1] => k = l
    <3> SUFFICES ASSUME NEW k \in DOMAIN d.todo, NEW l \in DOMAIN d.todo,
                        d.todo[k][1] = d.todo[l][1]
                 PROVE  k = l
      OBVIOUS
    <3>1. k + 1 = l + 1
      BY <1>2, <2>1 DEF InTurn
    <3>2. k \in Nat /\ l \in Nat
      BY <1>3, <1>5, SMTT(30)
    <3> QED BY <3>1, <3>2
  <2>3. ASSUME NEW g \in d.left
        PROVE  g \in away' \/ \E k \in DOMAIN d.todo : d.todo[k][1] = g
    <3>1. CASE g \in away
      BY <3>1
    <3>2. CASE g \notin away
      <4>1. PICK k \in DOMAIN c.todo : c.todo[k][1] = g
        BY <1>2, <1>5, <3>2 DEF InTurn
      <4>2. k # 1
        BY <1>3, <1>5, <4>1
      <4>3. k - 1 \in DOMAIN d.todo /\ (k - 1) + 1 = k
        BY <1>3, <1>5, <4>2
      <4>4. d.todo[k - 1][1] = g
        BY <2>1, <4>1, <4>3
      <4> QED BY <4>3, <4>4
    <3> QED BY <3>1, <3>2
  <2> QED BY <1>5, <2>1, <2>2, <2>3 DEF InTurn
<1>7. /\ items \in [Folders -> FolderRow]
      /\ \A g \in Folders : items[g] = IF g = f THEN row ELSE folderRows[g]
  BY RowsWith DEF FolderInv
<1>8. f = Head(c.todo)[1]
  OBVIOUS
<1> HIDE DEF items, d, f
<1>9. /\ folderRows' \in [Folders -> FolderRow]
      /\ \A g \in Folders :
            /\ transferPending(folderRows'[g]) <=> transferPending(items[g])
            /\ folderRows'[g].operation = items[g].operation
            /\ folderRows'[g].kind = items[g].kind
            /\ folderRows'[g].status = "success" => items[g].status = "success" \/ g \in away'
  BY <1>1, <1>7, SettledRows
<1>10. ASSUME NEW g \in Folders
       PROVE  /\ transferPending(folderRows'[g])
                    <=> (transferPending(folderRows[g]) /\ g \notin c.left) \/ g \in d.left
              /\ folderRows'[g].status = "success" /\ folderRows'[g].kind # "stay" => g \in away'
              /\ folderRows'[g].operation \in {0} \cup DOMAIN operations'[g]
  <2>1. CASE g = f
    BY <1>4, <1>5, <1>7, <1>8, <1>9, <2>1
  <2>2. CASE g # f
    <3>1. transferPending(folderRows[g]) <=> \E x \in calls : g \in x.left
      BY DEF FolderInv, Called
    <3>2. items[g] = folderRows[g] /\ (g \in d.left <=> g \in c.left)
      BY <1>5, <1>7, <2>2
    <3>3. folderRows[g].operation \in {0} \cup DOMAIN operations'[g]
      BY DEF FolderInv, Called, OperationsGrow
    <3>4. folderRows[g].status = "success" /\ folderRows[g].kind # "stay" => g \in away'
      BY DEF FolderInv, Called
    <3> QED BY <1>9, <3>1, <3>2, <3>3, <3>4
  <2> QED BY <2>1, <2>2
<1>11. \A x \in calls \ {c} : d.left \cap x.left = {}
  <2>1. \A x \in calls : x.left \subseteq Folders
    BY DEF FolderInv, FolderTypes, Call
  <2> QED BY <1>5, <2>1 DEF FolderInv, Called
<1> QED BY <1>1, <1>5, <1>6, <1>9, <1>10, <1>11, CallGoesOn

LEMMA OperationsSame ==
    ASSUME FolderInv, UNCHANGED operations
    PROVE  OperationsGrow
BY DEF FolderInv, FolderTypes, OperationsGrow

\* One operation changes.
LEMMA OperationChanged ==
    ASSUME FolderInv, NEW x, x[1] \in Folders, x[2] \in DOMAIN operations[x[1]],
           NEW row \in Operation, setOperation(x, row)
    PROVE  OperationsGrow
<1>1. PICK f \in Folders : f = x[1]
  OBVIOUS
<1>2. PICK k \in DOMAIN operations[f] : k = x[2]
  BY <1>1
<1>3. operations \in [Folders -> Seq(Operation)] /\ operations[f] \in Seq(Operation)
  BY DEF FolderInv, FolderTypes
<1>4. PICK s : s = [operations[f] EXCEPT ![k] = row]
  OBVIOUS
<1>5. operations' = [operations EXCEPT ![f] = s]
  BY <1>1, <1>2, <1>4 DEF setOperation
<1>6. /\ k \in 1..Len(operations[f]) /\ DOMAIN operations[f] = 1..Len(operations[f])
  BY <1>3, LenProperties
<1>7. s \in Seq(Operation) /\ Len(s) = Len(operations[f])
  BY <1>3, <1>4, <1>6, ExceptSeq
<1>8. DOMAIN s = 1..Len(s)
  BY <1>7, LenProperties
<1> QED BY <1>3, <1>5, <1>6, <1>7, <1>8 DEF OperationsGrow

\* What the tab has to do next, and what has been asked for.
LEMMA OperationOf ==
    ASSUME FolderInv, NEW x, x[1] \in Folders, x[2] \in DOMAIN operations[x[1]]
    PROVE  operation(x) \in Operation /\ claimed(x) \in Operation /\ x[2] \in Nat
<1>0. PICK f \in Folders : f = x[1]
  OBVIOUS
<1>1. PICK k \in DOMAIN operations[f] : f = x[1] /\ k = x[2]
  BY <1>0
<1>2. operations[f] \in Seq(Operation)
  BY DEF FolderInv, FolderTypes
<1>3. k \in Nat /\ operations[f][k] \in Operation
  BY <1>2, LenProperties, ElementOfSeq
<1>4. operation(x) = operations[f][k]
  BY <1>1 DEF operation
<1>5. claimed(x) \in Operation
  <2>1. PICK o \in Operation : o = operation(x)
    BY <1>3, <1>4
  <2> DEFINE p == [o EXCEPT !.state = "claimed"]
  <2>2. p \in Operation /\ p.attempts = o.attempts
    BY DEF Operation
  <2>3. claimed(x) = [p EXCEPT !.attempts = o.attempts + 1]
    BY <2>1 DEF claimed
  <2> HIDE DEF p
  <2>4. o.attempts + 1 \in Nat
    BY DEF Operation
  <2> QED BY <2>2, <2>3, <2>4 DEF Operation
<1> QED BY <1>1, <1>3, <1>4, <1>5

\* The operation a call runs next is of a row it has.
LEMMA NextOf ==
    ASSUME FolderInv, NEW c \in calls, c.todo # <<>>
    PROVE  /\ Head(c.todo)[1] \in c.left /\ Head(c.todo)[1] \in Folders
           /\ Head(c.todo)[2] \in DOMAIN operations[Head(c.todo)[1]]
           /\ Head(c.todo)[2] \in Nat
<1>1. c \in Call /\ InTurn(c, operations, away)
  BY DEF FolderInv, FolderTypes, Called
<1>2. 1 \in DOMAIN c.todo /\ Head(c.todo) = c.todo[1]
  BY <1>1, HeadTailProperties, LenProperties DEF Call
<1>3. /\ Head(c.todo)[1] \in c.left /\ Head(c.todo)[1] \in Folders
      /\ Head(c.todo)[2] \in DOMAIN operations[Head(c.todo)[1]]
  <2>1. /\ c.todo[1][1] \in c.left
        /\ c.todo[1][2] \in DOMAIN operations[c.todo[1][1]]
    BY <1>1, <1>2 DEF InTurn
  <2> QED BY <1>1, <1>2, <2>1 DEF Call
<1> QED BY <1>3, OperationOf

\* Live operations are those that have been asked for.
LEMMA LiveIsAsked ==
    ASSUME NEW x \in liveOperations
    PROVE  x[1] \in Folders /\ x[2] \in DOMAIN operations[x[1]]
BY DEF liveOperations

\* A call begins with the rows of its folders.
LEMMA BeginKeeps ==
    ASSUME FolderInv, NEW c \in Selections, begin(c)
    PROVE  FolderInv'
<1> DEFINE row == became(c.kind, "active", 0)
           d == newCall("all", c.kind, c.folders)
<1>1. c.kind \in {"delete", "move", "stay"} /\ c.folders \subseteq Folders
  BY FolderTransfersAssumption
<1>2. /\ \A f \in c.folders : folderRows[f].status = "none"
      /\ folderRows' = withRows(c.folders, row)
      /\ calls' = calls \cup {d} /\ UNCHANGED <<operations, away>>
  BY DEF begin
<1>3. row \in FolderRow /\ row.operation = 0 /\ row.status = "active"
  BY <1>1 DEF FolderRow, became
<1>4. d \in Call /\ d.left = c.folders /\ d.at = "asking" /\ d.todo = <<>>
  <2>1. <<>> \in Seq(Folders \X Nat)
    BY EmptySeq
  <2> QED BY <1>1, <2>1 DEF Call, newCall
<1> HIDE DEF row, d
<1>5. InTurn(d, operations', away')
  BY <1>4 DEF InTurn
<1>6. /\ folderRows' \in [Folders -> FolderRow]
      /\ \A f \in Folders : folderRows'[f] = IF f \in c.folders THEN row ELSE folderRows[f]
  BY <1>2, <1>3, RowsWith DEF FolderInv
<1>7. \A f \in d.left : ~transferPending(folderRows[f])
  BY <1>2, <1>4 DEF transferPending
<1>8. \A f \in Folders :
         /\ transferPending(folderRows'[f]) <=> transferPending(folderRows[f]) \/ f \in d.left
         /\ folderRows'[f].status = "success" /\ folderRows'[f].kind # "stay" => f \in away'
         /\ folderRows'[f].operation \in {0} \cup DOMAIN operations'[f]
  BY <1>2, <1>3, <1>4, <1>6 DEF FolderInv, Called, transferPending
<1>9. OperationsGrow /\ away' \in SUBSET Folders /\ away \subseteq away'
  BY <1>2, OperationsSame DEF FolderInv, FolderTypes
<1> QED BY <1>2, <1>4, <1>5, <1>6, <1>7, <1>8, <1>9, CallBegins

\* A call ends, and all it still has to settle becomes the same.
LEMMA EndKeeps ==
    ASSUME FolderInv, NEW c \in calls, UNCHANGED operations, away' \in SUBSET Folders,
           away \subseteq away', calls' = calls \ {c},
           NEW row \in FolderRow, row.operation = 0, ~transferPending(row),
           row.status = "success" /\ row.kind # "stay" => c.left \subseteq away',
           \/ folderRows' = withRows(c.left, row)
           \/ \E gone \in SUBSET Folders :
                 gone = away' /\ folderRows' = settledBy(withRows(c.left, row), gone)
    PROVE  FolderInv'
<1>1. PICK items \in [Folders -> FolderRow] :
         /\ items = withRows(c.left, row)
         /\ \A f \in Folders : items[f] = IF f \in c.left THEN row ELSE folderRows[f]
  BY RowsWith DEF FolderInv
<1>2. /\ folderRows' \in [Folders -> FolderRow]
      /\ \A f \in Folders :
            /\ transferPending(folderRows'[f]) <=> transferPending(items[f])
            /\ folderRows'[f].operation = items[f].operation
            /\ folderRows'[f].kind = items[f].kind
            /\ folderRows'[f].status = "success" => items[f].status = "success" \/ f \in away'
  <2>1. CASE folderRows' = withRows(c.left, row)
    BY <1>1, <2>1
  <2>2. ASSUME NEW gone \in SUBSET Folders, gone = away',
               folderRows' = settledBy(withRows(c.left, row), gone)
        PROVE  /\ folderRows' \in [Folders -> FolderRow]
               /\ \A f \in Folders :
                     /\ transferPending(folderRows'[f]) <=> transferPending(items[f])
                     /\ folderRows'[f].operation = items[f].operation
                     /\ folderRows'[f].kind = items[f].kind
                     /\ folderRows'[f].status = "success" => items[f].status = "success" \/ f \in away'
    BY <1>1, <2>2, SettledRows
  <2> QED BY <2>1, <2>2
<1>3. \A f \in Folders :
         /\ transferPending(folderRows'[f]) <=> transferPending(folderRows[f]) /\ f \notin c.left
         /\ folderRows'[f].status = "success" /\ folderRows'[f].kind # "stay" => f \in away'
         /\ folderRows'[f].operation \in {0} \cup DOMAIN operations'[f]
  BY <1>1, <1>2 DEF FolderInv, Called
<1> QED BY <1>2, <1>3, CallGone, OperationsSame

\* A call ends with its first answer, or with nothing left to do.
LEMMA CallEndKeeps ==
    ASSUME FolderInv, NEW c \in calls,
           mutationFails(c) \/ refusedAsGone(c) \/ nothingToMove(c) \/ doneAtOnce(c) \/ callEnds(c)
    PROVE  FolderInv'
<1>1. c \in Call /\ InTurn(c, operations, away) /\ away \in SUBSET Folders
  BY DEF FolderInv, FolderTypes, Called
<1>2. CASE mutationFails(c) \/ refusedAsGone(c)
  <2> DEFINE row == became(c.kind, "error", 0)
  <2>1. row \in FolderRow /\ row.operation = 0 /\ ~transferPending(row) /\ row.status # "success"
    BY <1>1 DEF FolderRow, Call, became, transferPending
  <2>2. mutationFails(c)
    BY <1>2 DEF refusedAsGone
  <2>3. /\ calls' = calls \ {c} /\ UNCHANGED <<operations, away>>
        /\ folderRows' = settledBy(withRows(c.left, row), away)
    BY <2>2 DEF mutationFails
  <2> HIDE DEF row
  <2> QED BY <1>1, <2>1, <2>3, EndKeeps
<1>3. CASE nothingToMove(c)
  <2> DEFINE row == became(c.kind, IF c.origin = "all" THEN "gone" ELSE "success", 0)
  <2>1. /\ row \in FolderRow /\ row.operation = 0 /\ ~transferPending(row) /\ row.kind = c.kind
    BY <1>1 DEF FolderRow, Call, became, transferPending
  <2>2. /\ calls' = calls \ {c} /\ UNCHANGED <<operations, away>>
        /\ folderRows' = withRows(c.left, row)
        /\ c.kind = "stay" \/ c.left \subseteq away
    BY <1>3 DEF nothingToMove
  <2> HIDE DEF row
  <2> QED BY <1>1, <2>1, <2>2, EndKeeps
<1>4. CASE doneAtOnce(c)
  <2> DEFINE row == became(c.kind, "success", 0)
  <2>1. row \in FolderRow /\ row.operation = 0 /\ ~transferPending(row)
    BY <1>1 DEF FolderRow, Call, became, transferPending
  <2>2. PICK gone \in SUBSET Folders : gone = away'
    BY <1>1, <1>4 DEF doneAtOnce, Call
  <2>3. /\ calls' = calls \ {c} /\ UNCHANGED operations /\ away' = away \cup c.left
        /\ folderRows' = settledBy(withRows(c.left, row), gone)
    BY <1>4, <2>2 DEF doneAtOnce
  <2> HIDE DEF row
  <2> QED BY <1>1, <2>1, <2>2, <2>3, EndKeeps
<1>5. CASE callEnds(c)
  <2> DEFINE row == became(c.kind, "success", 0)
  <2>1. row \in FolderRow /\ row.operation = 0 /\ ~transferPending(row)
    BY <1>1 DEF FolderRow, Call, became, transferPending
  <2>2. /\ calls' = calls \ {c} /\ UNCHANGED <<operations, away>>
        /\ folderRows' = withRows(c.left, row)
        /\ c.at # "asking" /\ c.todo = <<>>
    BY <1>5 DEF callEnds
  <2>3. c.left \subseteq away
    BY <1>1, <2>2 DEF InTurn
  <2> HIDE DEF row
  <2> QED BY <1>1, <2>1, <2>2, <2>3, EndKeeps
<1> QED BY <1>2, <1>3, <1>4, <1>5

\* The first operation of a call has failed.
LEMMA FailsKeeps ==
    ASSUME FolderInv, OperationsGrow, UNCHANGED away, NEW c \in calls, c.at # "asking",
           c.todo # <<>>, operationFails(c)
    PROVE  FolderInv'
<1> DEFINE x == Head(c.todo)
           row == became(c.kind, "error", IF c.origin = "again" THEN 0 ELSE x[2])
<1>1. c \in Call /\ away \in SUBSET Folders
  BY DEF FolderInv, FolderTypes
<1>2. x[1] \in Folders /\ x[2] \in DOMAIN operations'[x[1]] /\ x[2] \in Nat
  BY NextOf DEF OperationsGrow
<1>3. /\ row \in FolderRow /\ ~transferPending(row) /\ row.status = "error"
      /\ row.operation \in {0} \cup DOMAIN operations'[x[1]]
  BY <1>1, <1>2 DEF FolderRow, Call, became, transferPending
<1>4. goesOn(c, row, away)
  BY DEF operationFails
<1> HIDE DEF row
<1> QED BY <1>1, <1>3, <1>4, GoesOnKeeps

\* An operation for each folder that has not left yet.
LEMMA OperationsMadeKeeps ==
    ASSUME FolderInv, NEW c \in calls, operationsMade(c)
    PROVE  FolderInv'
<1> DEFINE fs == c.left \ away
           made == [f \in Folders |-> IF f \in fs THEN Append(operations[f], Pending)
                                      ELSE operations[f]]
           S == {<<f, Len(made[f])>> : f \in fs}
           d == [c EXCEPT !.at = "running", !.todo = SetToSeq(S)]
<1>1. /\ c.at = "asking" /\ operations' = made /\ calls' = (calls \ {c}) \cup {d}
      /\ UNCHANGED <<folderRows, away>>
  BY DEF operationsMade, answerable
<1>0. /\ fs = c.left \ away
      /\ made = [f \in Folders |-> IF f \in fs THEN Append(operations[f], Pending)
                                   ELSE operations[f]]
  OBVIOUS
<1> HIDE DEF fs, made
<1>2. /\ c \in Call /\ fs \in SUBSET Folders /\ c.left \in SUBSET Folders
      /\ operations \in [Folders -> Seq(Operation)] /\ away \in SUBSET Folders
  BY <1>0 DEF FolderInv, FolderTypes, Call
<1>3. Pending \in Operation
  BY DEF Pending, Operation
<1>4. ASSUME NEW f \in Folders
      PROVE  /\ made[f] \in Seq(Operation) /\ Len(made[f]) \in Nat
             /\ DOMAIN operations[f] \subseteq DOMAIN made[f]
             /\ f \in fs => Len(made[f]) \in DOMAIN made[f]
  <2>1. /\ operations[f] \in Seq(Operation) /\ Len(operations[f]) \in Nat
        /\ DOMAIN operations[f] = 1..Len(operations[f])
    BY <1>2, LenProperties
  <2>2. /\ Append(operations[f], Pending) \in Seq(Operation)
        /\ Len(Append(operations[f], Pending)) = Len(operations[f]) + 1
    BY <1>3, <2>1, AppendProperties
  <2>3. DOMAIN Append(operations[f], Pending) = 1..(Len(operations[f]) + 1)
    BY <2>2, LenProperties
  <2> QED BY <1>0, <2>1, <2>2, <2>3
<1>5. OperationsGrow
  BY <1>0, <1>1, <1>4 DEF OperationsGrow
<1>6. IsFiniteSet(S)
  <2>1. IsFiniteSet(fs)
    BY <1>2, FolderTransfersAssumption, FS_Subset
  <2> DEFINE g == [f \in fs |-> <<f, Len(made[f])>>]
  <2>2. g \in Surjection(fs, S)
    BY DEF Surjection
  <2> HIDE DEF g, S
  <2> QED BY <2>1, <2>2, FS_Surjection
<1>7. \A y \in S : /\ y \in Folders \X Nat /\ y[1] \in fs
                   /\ y = <<y[1], Len(made[y[1]])>> /\ y[2] = Len(made[y[1]])
  <2>1. ASSUME NEW f \in fs, NEW y, y = <<f, Len(made[f])>>
        PROVE  /\ y \in Folders \X Nat /\ y[1] \in fs
               /\ y = <<y[1], Len(made[y[1]])>> /\ y[2] = Len(made[y[1]])
    <3>1. y[1] = f /\ y[2] = Len(made[f]) /\ f \in Folders /\ Len(made[f]) \in Nat
      BY <1>2, <1>4, <2>1
    <3> QED BY <2>1, <3>1
  <2> QED BY <2>1
<1>8. \A f \in fs : \E y \in S : y[1] = f
  <2>1. ASSUME NEW f \in fs
        PROVE  <<f, Len(made[f])>> \in S /\ <<f, Len(made[f])>>[1] = f
    OBVIOUS
  <2> QED BY <2>1
<1> DEFINE s == SetToSeq(S)
<1>9. /\ s \in Seq(S)
      /\ \A k, l \in DOMAIN s : s[k] = s[l] => k = l
      /\ \A y \in S : \E k \in DOMAIN s : s[k] = y
  BY <1>6, ListOf
<1> HIDE DEF S
<1>10. \A k \in DOMAIN s : s[k] \in S
  BY <1>9, LenProperties, ElementOfSeq
<1>11. s \in Seq(Folders \X Nat)
  BY <1>7, <1>9, SeqMonotonic
<1> HIDE DEF s
<1>12. d \in Call /\ d.at = "running" /\ d.todo = s /\ d.left = c.left
  BY <1>2, <1>11 DEF Call, s
<1> HIDE DEF d
<1>13. InTurn(d, operations', away')
  <2>1. \A k \in DOMAIN s : /\ s[k][1] \in c.left
                            /\ s[k][2] \in DOMAIN operations'[s[k][1]]
    <3> SUFFICES ASSUME NEW k \in DOMAIN s
                 PROVE  s[k][1] \in c.left /\ s[k][2] \in DOMAIN operations'[s[k][1]]
      OBVIOUS
    <3>1. PICK f \in fs : f = s[k][1] /\ s[k][2] = Len(made[f])
      BY <1>7, <1>10
    <3> QED BY <1>0, <1>1, <1>2, <1>4, <3>1
  <2>2. \A k, l \in DOMAIN s : s[k][1] = s[l][1] => k = l
    <3> SUFFICES ASSUME NEW k \in DOMAIN s, NEW l \in DOMAIN s, s[k][1] = s[l][1]
                 PROVE  k = l
      OBVIOUS
    <3>1. s[k] = s[l]
      BY <1>7, <1>10
    <3> QED BY <1>9, <3>1
  <2>3. \A f \in c.left : f \in away \/ \E k \in DOMAIN s : s[k][1] = f
    BY <1>0, <1>8, <1>9
  <2> QED BY <1>1, <1>12, <2>1, <2>2, <2>3 DEF InTurn
<1>14. \A x \in calls \ {c} : d.left \cap x.left = {}
  <2>1. \A x \in calls : x.left \subseteq Folders
    BY DEF FolderInv, FolderTypes, Call
  <2> QED BY <1>12, <2>1 DEF FolderInv, Called
<1>15. \A f \in Folders :
          /\ transferPending(folderRows'[f])
                <=> (transferPending(folderRows[f]) /\ f \notin c.left) \/ f \in d.left
          /\ folderRows'[f].status = "success" /\ folderRows'[f].kind # "stay" => f \in away'
          /\ folderRows'[f].operation \in {0} \cup DOMAIN operations'[f]
  BY <1>1, <1>5, <1>12 DEF FolderInv, Called, OperationsGrow
<1>16. away' \in SUBSET Folders /\ away \subseteq away' /\ folderRows' \in [Folders -> FolderRow]
  BY <1>1 DEF FolderInv, FolderTypes
<1> QED BY <1>1, <1>5, <1>12, <1>13, <1>14, <1>15, <1>16, CallGoesOn

\* The next operation of a call is claimed.
LEMMA CallOperationKeeps ==
    ASSUME FolderInv, NEW c \in calls, callOperation(c)
    PROVE  FolderInv'
<1> DEFINE x == Head(c.todo)
           d == [c EXCEPT !.at = "waiting"]
<1>1. /\ c.at = "running" /\ c.todo # <<>> /\ setOperation(x, claimed(x))
      /\ calls' = (calls \ {c}) \cup {d} /\ UNCHANGED <<folderRows, away>>
  BY DEF callOperation
<1>2. x[1] \in Folders /\ x[2] \in DOMAIN operations[x[1]] /\ claimed(x) \in Operation
  BY <1>1, NextOf, OperationOf
<1> HIDE DEF x
<1>3. OperationsGrow
  BY <1>1, <1>2, OperationChanged
<1>4. c \in Call /\ InTurn(c, operations, away)
  BY DEF FolderInv, FolderTypes, Called
<1>5. d \in Call /\ d.at = "waiting" /\ d.todo = c.todo /\ d.left = c.left
  BY <1>4 DEF Call
<1> HIDE DEF d
<1>6. InTurn(c, operations', away')
  BY <1>1, <1>3, <1>4, TurnKept DEF FolderInv
<1>7. InTurn(d, operations', away')
  BY <1>1, <1>5, <1>6 DEF InTurn
<1>8. \A y \in calls \ {c} : d.left \cap y.left = {}
  <2>1. \A y \in calls : y.left \subseteq Folders
    BY DEF FolderInv, FolderTypes, Call
  <2> QED BY <1>5, <2>1 DEF FolderInv, Called
<1>9. \A f \in Folders :
         /\ transferPending(folderRows'[f])
               <=> (transferPending(folderRows[f]) /\ f \notin c.left) \/ f \in d.left
         /\ folderRows'[f].status = "success" /\ folderRows'[f].kind # "stay" => f \in away'
         /\ folderRows'[f].operation \in {0} \cup DOMAIN operations'[f]
  BY <1>1, <1>3, <1>5 DEF FolderInv, Called, OperationsGrow
<1>10. away' \in SUBSET Folders /\ away \subseteq away' /\ folderRows' \in [Folders -> FolderRow]
  BY <1>1 DEF FolderInv, FolderTypes
<1> QED BY <1>1, <1>3, <1>5, <1>7, <1>8, <1>9, <1>10, CallGoesOn

\* An operation is refused, or its answer is lost.
LEMMA CallFailsKeeps ==
    ASSUME FolderInv, NEW c \in calls, operationRefused(c) \/ loseOperation(c)
    PROVE  FolderInv'
<1>1. InTurn(c, operations, away)
  BY DEF FolderInv, Called
<1>2. c.at # "asking" /\ c.todo # <<>> /\ operationFails(c) /\ UNCHANGED <<operations, away>>
  BY <1>1 DEF operationRefused, loseOperation, InTurn
<1> QED BY <1>2, FailsKeeps, OperationsSame

\* Rows are as they were, or proven.
LEMMA RowsProven ==
    ASSUME FolderInv, OperationsGrow, away' \in SUBSET Folders, away \subseteq away',
           UNCHANGED calls,
           \/ UNCHANGED folderRows
           \/ \E gone \in SUBSET Folders : gone = away' /\ folderRows' = settledBy(folderRows, gone)
    PROVE  FolderInv'
<1>1. folderRows \in [Folders -> FolderRow]
  BY DEF FolderInv, FolderTypes
<1>2. /\ folderRows' \in [Folders -> FolderRow]
      /\ \A f \in Folders :
            /\ transferPending(folderRows'[f]) <=> transferPending(folderRows[f])
            /\ folderRows'[f].operation = folderRows[f].operation
            /\ folderRows'[f].kind = folderRows[f].kind
            /\ folderRows'[f].status = "success" => folderRows[f].status = "success" \/ f \in away'
  <2>1. CASE UNCHANGED folderRows
    BY <1>1, <2>1
  <2>2. ASSUME NEW gone \in SUBSET Folders, gone = away', folderRows' = settledBy(folderRows, gone)
        PROVE  /\ folderRows' \in [Folders -> FolderRow]
               /\ \A f \in Folders :
                     /\ transferPending(folderRows'[f]) <=> transferPending(folderRows[f])
                     /\ folderRows'[f].operation = folderRows[f].operation
                     /\ folderRows'[f].kind = folderRows[f].kind
                     /\ folderRows'[f].status = "success"
                           => folderRows[f].status = "success" \/ f \in away'
    BY <1>1, <2>2, SettledRows
  <2> QED BY <2>1, <2>2
<1>3. \A f \in Folders :
         /\ folderRows'[f].status = "success" /\ folderRows'[f].kind # "stay" => f \in away'
         /\ folderRows'[f].operation \in {0} \cup DOMAIN operations'[f]
  BY <1>2 DEF FolderInv, Called, OperationsGrow
<1> QED BY <1>2, <1>3, CallsSame

\* An operation ends, or goes back to the queue.
LEMMA OperationStepKeeps ==
    ASSUME FolderInv, NEW x \in liveOperations,
           \/ operationDone(x) \/ operationNotDone(x) \/ operationStale(x)
           \/ recoverOperation(x) \/ expireOperation(x)
    PROVE  FolderInv'
<1>1. /\ x[1] \in Folders /\ x[2] \in DOMAIN operations[x[1]]
      /\ operation(x) \in Operation /\ claimed(x) \in Operation
  BY LiveIsAsked, OperationOf
<1>2. away \in SUBSET Folders
  BY DEF FolderInv, FolderTypes
<1>3. \A s \in {"complete", "delayed", "stale", "failed"} : [operation(x) EXCEPT !.state = s] \in Operation
  BY <1>1 DEF Operation
<1>4. OperationsGrow
  <2>1. PICK row \in Operation : setOperation(x, row)
    BY <1>1, <1>3 DEF operationDone, operationNotDone, operationStale, recoverOperation,
                      expireOperation
  <2> QED BY <1>1, <2>1, OperationChanged
<1>5. \A c \in waitingFor(x) : /\ c \in calls /\ c.at # "asking" /\ c.todo # <<>> /\ Head(c.todo) = x
                               /\ c \in Call
  BY DEF waitingFor, FolderInv, FolderTypes, Called, InTurn
<1>6. CASE operationStale(x) \/ recoverOperation(x) \/ expireOperation(x)
  BY <1>2, <1>4, <1>6, RowsProven DEF operationStale, recoverOperation, expireOperation
<1>7. CASE operationNotDone(x)
  <2>1. UNCHANGED away
    BY <1>7 DEF operationNotDone
  <2>2. CASE waitingFor(x) = {}
    BY <1>2, <1>4, <1>7, <2>1, <2>2, RowsProven DEF operationNotDone
  <2>3. CASE waitingFor(x) # {}
    <3>1. PICK c \in waitingFor(x) : c = CHOOSE d \in waitingFor(x) : TRUE
      BY <2>3
    <3>2. operationFails(c)
      BY <1>7, <2>3, <3>1 DEF operationNotDone
    <3> QED BY <1>4, <1>5, <2>1, <3>1, <3>2, FailsKeeps
  <2> QED BY <2>2, <2>3
<1>8. CASE operationDone(x)
  <2>1. away' = away \cup {x[1]}
    BY <1>8 DEF operationDone
  <2>2. PICK gone \in SUBSET Folders : gone = away'
    BY <1>1, <1>2, <2>1
  <2>3. CASE waitingFor(x) = {}
    <3>1. folderRows' = settledBy(folderRows, gone) /\ UNCHANGED calls
      BY <1>8, <2>2, <2>3 DEF operationDone
    <3> QED BY <1>4, <2>1, <2>2, <3>1, RowsProven
  <2>4. CASE waitingFor(x) # {}
    <3>1. PICK c \in waitingFor(x) : c = CHOOSE d \in waitingFor(x) : TRUE
      BY <2>4
    <3> DEFINE row == became(c.kind, "success", 0)
    <3>2. goesOn(c, row, gone)
      BY <1>8, <2>2, <2>4, <3>1 DEF operationDone
    <3>3. row \in FolderRow /\ row.operation = 0 /\ ~transferPending(row)
      BY <1>5, <3>1 DEF FolderRow, Call, became, transferPending
    <3> HIDE DEF row
    <3> QED BY <1>4, <1>5, <2>1, <2>2, <3>1, <3>2, <3>3, GoesOnKeeps
  <2> QED BY <2>3, <2>4
<1> QED BY <1>6, <1>7, <1>8

\* A failed folder row is retried.
LEMMA RetryFolderKeeps ==
    ASSUME FolderInv, NEW f \in Folders, retryFolder(f)
    PROVE  FolderInv'
<1> DEFINE row == folderRows[f]
           anew == newCall("again", row.kind, {f})
           d == IF row.operation = 0 THEN anew
                ELSE [anew EXCEPT !.origin = "operation", !.at = "running",
                                  !.todo = <<<<f, row.operation>>>>]
<1>1. /\ row.status = "error" /\ folderRows' = [folderRows EXCEPT ![f].status = "active"]
      /\ calls' = calls \cup {d} /\ UNCHANGED <<operations, away>>
  BY DEF retryFolder
<1>2. /\ row \in FolderRow /\ row.operation \in {0} \cup DOMAIN operations[f]
      /\ row.operation \in Nat /\ ~transferPending(row)
  BY <1>1 DEF FolderInv, FolderTypes, Called, FolderRow, transferPending
<1>3. anew \in Call /\ anew.left = {f} /\ anew.at = "asking" /\ anew.todo = <<>>
  <2>1. <<>> \in Seq(Folders \X Nat)
    BY EmptySeq
  <2> QED BY <1>2, <2>1 DEF Call, newCall, FolderRow
<1> HIDE DEF anew
<1>4. d \in Call /\ d.left = {f} /\ InTurn(d, operations', away')
  <2>1. CASE row.operation = 0
    <3>1. d = anew
      BY <2>1
    <3> HIDE DEF d
    <3> QED BY <1>3, <3>1 DEF InTurn
  <2>2. CASE row.operation # 0
    <3> DEFINE todo == <<<<f, row.operation>>>>
    <3>1. /\ todo \in Seq(Folders \X Nat) /\ DOMAIN todo = {1} /\ todo[1] = <<f, row.operation>>
      BY <1>2
    <3> HIDE DEF todo
    <3>2. d \in Call /\ d.left = {f} /\ d.at = "running" /\ d.todo = todo
      BY <1>3, <2>2, <3>1 DEF Call, todo
    <3>3. row.operation \in DOMAIN operations'[f]
      BY <1>1, <1>2, <2>2
    <3> HIDE DEF d
    <3> QED BY <3>1, <3>2, <3>3 DEF InTurn
  <2> QED BY <2>1, <2>2
<1> HIDE DEF d
<1>5. \A g \in d.left : ~transferPending(folderRows[g])
  BY <1>2, <1>4
<1>6. /\ folderRows' \in [Folders -> FolderRow] /\ folderRows'[f].status = "active"
      /\ folderRows'[f].operation = folderRows[f].operation
      /\ \A g \in Folders \ {f} : folderRows'[g] = folderRows[g]
  BY <1>1 DEF FolderInv, FolderTypes, FolderRow
<1>7. \A g \in Folders :
         /\ transferPending(folderRows'[g]) <=> transferPending(folderRows[g]) \/ g \in d.left
         /\ folderRows'[g].status = "success" /\ folderRows'[g].kind # "stay" => g \in away'
         /\ folderRows'[g].operation \in {0} \cup DOMAIN operations'[g]
  BY <1>1, <1>4, <1>6 DEF FolderInv, Called, transferPending
<1>8. OperationsGrow /\ away' \in SUBSET Folders /\ away \subseteq away'
  BY <1>1, OperationsSame DEF FolderInv, FolderTypes
<1> QED BY <1>1, <1>4, <1>5, <1>6, <1>7, <1>8, CallBegins

\* Settled folder rows leave the list.
LEMMA ClearFoldersKeeps ==
    ASSUME FolderInv, clearFinishedFolders
    PROVE  FolderInv'
<1>1. /\ folderRows' = [f \in Folders |-> IF transferFinished(folderRows[f])
                                          THEN became(folderRows[f].kind, "gone", 0)
                                          ELSE folderRows[f]]
      /\ UNCHANGED <<calls, operations, away>> /\ folderRows \in [Folders -> FolderRow]
  BY DEF clearFinishedFolders, FolderInv, FolderTypes
<1>2. ASSUME NEW f \in Folders
      PROVE  /\ folderRows'[f] \in FolderRow
             /\ transferPending(folderRows'[f]) <=> transferPending(folderRows[f])
             /\ folderRows'[f].status = "success" => folderRows'[f] = folderRows[f]
             /\ folderRows'[f].operation \in {0, folderRows[f].operation}
  BY <1>1 DEF FolderRow, became, transferFinished, transferPending
<1>3. folderRows' \in [Folders -> FolderRow]
  BY <1>1, <1>2
<1>4. \A f \in Folders :
         /\ transferPending(folderRows'[f]) <=> transferPending(folderRows[f])
         /\ folderRows'[f].status = "success" /\ folderRows'[f].kind # "stay" => f \in away'
         /\ folderRows'[f].operation \in {0} \cup DOMAIN operations'[f]
  BY <1>1, <1>2 DEF FolderInv, Called
<1>5. OperationsGrow /\ away' \in SUBSET Folders /\ away \subseteq away'
  BY <1>1, OperationsSame DEF FolderInv, FolderTypes
<1> QED BY <1>1, <1>3, <1>4, <1>5, CallsSame

(***************************************************************************)
(* The invariant                                                           *)
(***************************************************************************)

\* Nothing has been dropped yet.
LEMMA InitIInv ==
    ASSUME TabInit
    PROVE  IInv
<1>1. budget \in Budget
  BY TransfersAssumption DEF TabInit, Init
<1>2. ClientInv
  <2>1. /\ rows = [i \in Items |-> NoRow] /\ runs = {} /\ pending = [b \in Batches |-> <<>>]
        /\ inFlight = [b \in Batches |-> 0] /\ registered = {}
        /\ choice = [b \in Batches |-> None]
    BY DEF TabInit, Init
  <2>2. ClientTypes
    <3>1. NoRow \in Row /\ <<>> \in Seq(Job) /\ IsFiniteSet({})
      BY FS_EmptySet DEF NoRow, Row
    <3> QED BY <2>1, <3>1 DEF ClientTypes
  <2>3. Worked
    BY <2>1, TransfersAssumption DEF Worked, Once, Has, Waits, Runs, transferPending, NoRow
  <2>4. Slotted
    <3>1. \A b \in Batches : slotsOf({}, b) = 0
      BY FS_EmptySet DEF slotsOf
    <3> QED BY <2>1, <3>1, TransfersAssumption DEF Slotted
  <2>5. SkipSparesChosen
    BY <2>1 DEF SkipSparesChosen, Spared, NoRow
  <2> QED BY <2>2, <2>3, <2>4, <2>5 DEF ClientInv
<1>3. Asked
  BY DEF TabInit, Init, Asked
<1>4. ServerInv
  <2>1. requests = [r \in RequestIds |-> NoRequest] /\ active = 0 /\ waiters = <<>>
    BY DEF TabInit, Init
  <2>2. ServerTypes
    <3>1. NoRequest \in Request /\ <<>> \in Seq(RequestIds)
      BY DEF NoRequest, Request
    <3> QED BY <2>1, <3>1 DEF ServerTypes
  <2>3. Queued
    BY <2>1 DEF Queued, NoRequest
  <2>4. Placed
    <3>1. InPlace = {}
      BY <2>1 DEF InPlace, NoRequest
    <3>2. active = Cardinality(InPlace)
      BY <2>1, <3>1, FS_EmptySet
    <3>3. active <= MaxConcurrentUploads
      BY <2>1, TransfersAssumption
    <3> QED BY <2>1, <3>2, <3>3 DEF Placed, InPlace
  <2> QED BY <2>2, <2>3, <2>4 DEF ServerInv
<1>5. FolderInv
  <2>1. /\ folderRows = [f \in Folders |-> NoFolderRow] /\ calls = {}
        /\ operations = [f \in Folders |-> <<>>] /\ away = {}
    BY DEF TabInit, FolderInit
  <2>2. FolderTypes
    <3>1. NoFolderRow \in FolderRow /\ <<>> \in Seq(Operation)
      BY DEF NoFolderRow, FolderRow
    <3> QED BY <2>1, <3>1 DEF FolderTypes
  <2>3. Called
    BY <2>1 DEF Called, NoFolderRow, transferPending
  <2> QED BY <2>2, <2>3 DEF FolderInv
<1> QED BY <1>1, <1>2, <1>3, <1>4, <1>5 DEF IInv

\* Each bounded kind of step is counted down.
LEMMA Spent ==
    ASSUME budget \in Budget, NEW field \in {"clicks", "failures", "others"}, spend(field)
    PROVE  budget' \in Budget
BY DEF spend, Budget

\* A step of uploads.
UploadStep ==
    \/ \E b \in Batches : drop(b) \/ folderFails(b) \/ Tab(b)
    \/ \E p \in Policies : resolveAllTransferConflicts(p) \/ \E i \in Items : resolve(i, p)
    \/ skipAllTransferConflicts \/ clearFinishedTransfers
    \/ \E i \in Items : retryTransfer(i)
    \/ \E r \in RequestIds : Server(r) \/ serveFails(r) \/ newNameTaken(r)
    \/ \E u \in runs : lose(u)
    \/ \E n \in Names : othersChange(n)

\* Steps of uploads keep what is known of them.
LEMMA UploadsKeep ==
    ASSUME ClientInv, Asked, ServerInv, UploadStep
    PROVE  ClientInv' /\ Asked' /\ ServerInv'
<1>1. ASSUME NEW b \in Batches, drop(b) \/ folderFails(b) \/ Tab(b)
      PROVE  ClientInv' /\ Asked' /\ ServerInv'
  BY <1>1, DropKeeps, FolderFailsKeeps, StartKeeps, LooksKeep, RunKeeps, RefusedKeeps, SendKeeps
     DEF Tab
<1>2. ASSUME NEW r \in RequestIds, Server(r) \/ serveFails(r) \/ newNameTaken(r)
      PROVE  ClientInv' /\ Asked' /\ ServerInv'
  BY <1>2, ClaimNameKeeps, LandKeeps, NewNameTakenKeeps, ServeFailsKeeps DEF Server
<1> QED BY <1>1, <1>2, ResolveKeeps, LooksKeep, StartKeeps, LoseKeeps DEF UploadStep

\* A step of folders.
FolderStep ==
    \/ \E c \in Selections : begin(c)
    \/ \E f \in Folders : retryFolder(f)
    \/ clearFinishedFolders
    \/ \E c \in calls : mutationFails(c) \/ loseOperation(c) \/ FolderTab(c)
    \/ \E x \in liveOperations :
          operationDone(x) \/ operationNotDone(x) \/ expireOperation(x) \/ Workers(x)

\* Steps of folders keep what is known of them.
LEMMA FoldersKeep ==
    ASSUME FolderInv, FolderStep
    PROVE  FolderInv'
<1>1. ASSUME NEW c \in calls, mutationFails(c) \/ loseOperation(c) \/ FolderTab(c)
      PROVE  FolderInv'
  BY <1>1, CallEndKeeps, CallFailsKeeps, OperationsMadeKeeps, CallOperationKeeps DEF FolderTab
<1>2. ASSUME NEW x \in liveOperations,
             operationDone(x) \/ operationNotDone(x) \/ expireOperation(x) \/ Workers(x)
      PROVE  FolderInv'
  BY <1>2, OperationStepKeeps DEF Workers
<1> QED BY <1>1, <1>2, BeginKeeps, RetryFolderKeeps, ClearFoldersKeeps DEF FolderStep

\* Every step is one of uploads, one of folders, or both lists cleared at once.
LEMMA Steps ==
    ASSUME budget \in Budget, Next
    PROVE  /\ UploadStep \/ UNCHANGED <<clientVars, serverVars>>
           /\ FolderStep \/ UNCHANGED folderVars
           /\ budget' \in Budget
<1>1. \A b \in budget.drops : b \in Batches
  BY DEF Budget
<1>2. CASE User
  <2>1. CASE \E b \in budget.drops : drop(b) /\ UNCHANGED <<budget, folderVars>>
    BY <1>1, <2>1 DEF UploadStep
  <2>2. CASE \E c \in Selections : begin(c) /\ UNCHANGED vars
    BY <2>2 DEF FolderStep, vars
  <2>3. CASE spend("clicks") /\ UNCHANGED folderVars /\ UploadStep
    BY <2>3, Spent
  <2>4. CASE /\ spend("clicks") /\ UNCHANGED <<clientVars, serverVars>>
             /\ \E f \in Folders : retryFolder(f)
    BY <2>4, Spent DEF FolderStep
  <2>5. CASE spend("clicks") /\ Clear
    BY <2>5, Spent DEF Clear, UploadStep, FolderStep
  <2> QED BY <1>2, <2>1, <2>2, <2>3, <2>4, <2>5 DEF User, UploadStep
<1>3. CASE Trouble
  <2>1. CASE spend("failures") /\ UNCHANGED folderVars /\ UploadStep
    BY <2>1, Spent
  <2>2. CASE spend("failures") /\ UNCHANGED <<clientVars, serverVars>> /\ FolderStep
    BY <2>2, Spent
  <2>3. CASE spend("others") /\ UNCHANGED folderVars /\ UploadStep
    BY <2>3, Spent
  <2> QED BY <1>3, <2>1, <2>2, <2>3 DEF Trouble, UploadStep, FolderStep
<1>4. CASE TabGoes
  BY <1>4 DEF TabGoes, UploadStep, FolderStep, vars
<1>5. CASE ServerGoes
  BY <1>5 DEF ServerGoes, UploadStep, FolderStep, vars
<1>6. CASE WorkersGo
  BY <1>6 DEF WorkersGo, FolderStep, vars
<1> QED BY <1>2, <1>3, <1>4, <1>5, <1>6 DEF Next

\* Every step keeps the invariant.
LEMMA NextIInv ==
    ASSUME IInv, [Next]_allVars
    PROVE  IInv'
<1>1. CASE Next
  <2>1. /\ UploadStep \/ UNCHANGED <<clientVars, serverVars>>
        /\ FolderStep \/ UNCHANGED folderVars
        /\ budget' \in Budget
    BY <1>1, Steps DEF IInv
  <2>2. ClientInv' /\ Asked' /\ ServerInv'
    <3>1. CASE UploadStep
      BY <3>1, UploadsKeep DEF IInv
    <3>2. CASE UNCHANGED <<clientVars, serverVars>>
      BY <3>2, ClientKept, ServerKept, AskedSame DEF IInv, clientVars, serverVars
    <3> QED BY <2>1, <3>1, <3>2
  <2>3. FolderInv'
    BY <2>1, FoldersKeep, FolderKept DEF IInv
  <2> QED BY <2>1, <2>2, <2>3 DEF IInv
<1>2. CASE UNCHANGED allVars
  <2>1. UNCHANGED <<clientVars, serverVars, folderVars, budget>>
    BY <1>2 DEF allVars, vars
  <2> QED BY <2>1, ClientKept, ServerKept, AskedSame, FolderKept DEF IInv, clientVars, serverVars
<1> QED BY <1>1, <1>2

\* The invariant holds throughout.
LEMMA SpecIInv == Spec => []IInv
<1>1. TabInit => IInv
  BY InitIInv
<1>2. IInv /\ [Next]_allVars => IInv'
  BY NextIInv
<1> QED BY <1>1, <1>2, PTL DEF Spec

(***************************************************************************)
(* The properties                                                          *)
(***************************************************************************)

\* A set with at most one element.
LEMMA OneOrNone ==
    ASSUME NEW S, \A x, y \in S : x = y
    PROVE  Cardinality(S) = IF S = {} THEN 0 ELSE 1
<1>1. CASE S = {}
  BY <1>1, FS_EmptySet
<1>2. CASE S # {}
  <2>1. PICK x \in S : S = {x}
    BY <1>2
  <2> QED BY <1>2, <2>1, FS_Singleton
<1> QED BY <1>1, <1>2

\* One job, run or call per pending row is what RowsTell counts.
LEMMA IInvRowsTell ==
    ASSUME IInv
    PROVE  RowsTell
<1>1. ASSUME NEW i \in Items
      PROVE  Cardinality(jobsFor(i)) + Cardinality(runsFor(i))
                = IF transferPending(rows[i]) THEN 1 ELSE 0
  <2>1. BatchOf[i] \in Batches
    BY TransfersAssumption
  <2>2. \A k, l \in jobsFor(i) : k = l
    BY <2>1 DEF IInv, ClientInv, Worked, Once, jobsFor
  <2>3. \A u, v \in runsFor(i) : u = v
    BY DEF IInv, ClientInv, Worked, runsFor
  <2>4. (jobsFor(i) # {} <=> Waits(i)) /\ (runsFor(i) # {} <=> Runs(i))
    BY DEF jobsFor, runsFor, Waits, Runs, Has
  <2>5. /\ Cardinality(jobsFor(i)) = IF jobsFor(i) = {} THEN 0 ELSE 1
        /\ Cardinality(runsFor(i)) = IF runsFor(i) = {} THEN 0 ELSE 1
    BY <2>2, <2>3, OneOrNone
  <2>6. ~(Waits(i) /\ Runs(i)) /\ (transferPending(rows[i]) <=> Waits(i) \/ Runs(i))
    BY DEF IInv, ClientInv, Worked
  <2> QED BY <2>4, <2>5, <2>6
<1>2. ASSUME NEW f \in Folders
      PROVE  Cardinality(callsFor(f)) = IF transferPending(folderRows[f]) THEN 1 ELSE 0
  <2>1. \A c, d \in callsFor(f) : c = d
    BY DEF IInv, FolderInv, Called, callsFor
  <2>2. callsFor(f) # {} <=> transferPending(folderRows[f])
    BY DEF IInv, FolderInv, Called, callsFor
  <2>3. Cardinality(callsFor(f)) = IF callsFor(f) = {} THEN 0 ELSE 1
    BY <2>1, OneOrNone
  <2> QED BY <2>2, <2>3
<1> QED BY <1>1, <1>2 DEF RowsTell, IInv, FolderInv, Called

\* A pending row of the list has exactly one job, run or call behind it and no other row
\* has any, and a folder that is shown as deleted or moved has left: whatever is dropped,
\* chosen, retried, refused, lost or carried out late.
THEOREM ListTellsTruth == Spec => []RowsTell
<1>1. IInv => RowsTell
  BY IInvRowsTell
<1> QED BY <1>1, SpecIInv, PTL

\* The slots of every work queue and those of the server are taken by the runs and
\* requests that hold them, by no more than there are, and no request waits while one is
\* free.
THEOREM SlotsStayCounted == Spec => []SlotsCounted
<1>1. IInv => SlotsCounted
  BY DEF IInv, ClientInv, ServerInv, Slotted, Placed, SlotsCounted
<1> QED BY <1>1, SpecIInv, PTL

\* Once the user has chosen to skip, nothing of that drop is parked but what the user had
\* chosen to rename.
THEOREM SkippingSparesChosen == Spec => []SkipSparesChosen
<1>1. IInv => SkipSparesChosen
  BY DEF IInv, ClientInv
<1> QED BY <1>1, SpecIInv, PTL
=============================================================================
